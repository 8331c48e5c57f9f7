--------------------------------- MODULE PollTick ---------------------------------
(***************************************************************************)
(* The tick of the fill poller (backend/execution/order_poller.py _poll_due,   *)
(* PollingHealthMonitor): which orders it asks for and when, the back-off of   *)
(* each, the circuit breaker over all of them, and the timeout that waits for  *)
(* a read.  What an answer does to an order is FillPoller.                     *)
(*                                                                             *)
(* Times are relative: how long until an order is due, how long the breaker    *)
(* cools.  A tick comes in every unit of time and takes none of it.            *)
(***************************************************************************)
EXTENDS Integers, FiniteSets

CONSTANTS PtOrders,
          PtBad,         \* orders nobody can look up: each lookup raises, for good
          PtLongest,     \* _POLL_INTERVALS, in ticks: 1, 2, .. PtLongest
          PtThreshold,   \* _BREAKER_THRESHOLD
          PtCool,        \* _BREAKER_COOLDOWN_SEC
          PtMaxCool,     \* _BREAKER_MAX_COOLDOWN_SEC
          PtTimeout      \* _TIMEOUT_MINUTES

\* A cooldown grows after a failed test, up to a maximum above the first one.
ASSUME PtAssumption ==
    /\ IsFiniteSet(PtOrders) /\ PtBad \subseteq PtOrders
    /\ PtLongest \in Nat \ {0} /\ PtThreshold \in Nat \ {0} /\ PtTimeout \in Nat
    /\ PtCool \in Nat \ {0} /\ PtMaxCool \in Nat /\ PtCool < PtMaxCool

VARIABLES ptEntry,     \* per order: its entry in the poller
          ptBroker,    \* per order: open or filled at the broker
          ptOutage,    \* every lookup raises
          ptBreaker,   \* the circuit breaker of the health monitor
          ptTick       \* the tick of the poll thread

ptVars == <<ptEntry, ptBroker, ptOutage, ptBreaker, ptTick>>

PtLess(a, b) == IF a <= b THEN a ELSE b
\* The longest an order waits for its turn: its interval, then a cooldown for
\* itself and one for every order tested before.
PtWithin == PtLongest + Cardinality(PtOrders) * PtMaxCool

\* How often the intervals of the orders that fail can still grow, and how old an
\* order becomes that nobody fills: asked once for every time they grow, once more
\* before, and once in a tick that may time it out.
PtRises == Cardinality(PtBad) * (PtLongest - 1)
PtLatest == PtTimeout + (PtRises + 2) * (PtWithin + 1)

PtNew == [tracked |-> TRUE, idx |-> 1, due |-> 0, age |-> 0, timed |-> FALSE, unasked |-> 0]
PtGone == [PtNew EXCEPT !.tracked = FALSE]
PtNoTick == [at |-> "idle", left |-> {}, on |-> {}, probe |-> FALSE, overdue |-> FALSE, settled |-> {}]

PtInit ==
    /\ ptEntry = [o \in PtOrders |-> PtGone]
    /\ ptBroker = [o \in PtOrders |-> "filled"]
    /\ ptOutage = FALSE
    /\ ptBreaker = [open |-> FALSE, errs |-> 0, cool |-> PtCool, wait |-> 0]
    /\ ptTick = PtNoTick

PtTracked == {o \in PtOrders : ptEntry[o].tracked}
PtExpired(o) == ptEntry[o].age > PtTimeout

\* The clock, once the tick of this unit is through.  What nobody can tell apart
\* any more is not counted on.
PtAged(e) ==
    [e EXCEPT !.due = IF @ > -PtWithin THEN @ - 1 ELSE @,
              !.age = PtLess(@ + 1, IF ptOutage THEN PtTimeout + 1 ELSE PtLatest + 1),
              !.unasked = IF ptOutage THEN 0 ELSE PtLess(@ + 1, PtWithin + 1)]
PtPass ==
    /\ ptTick.at = "over"
    /\ ptTick' = PtNoTick
    /\ ptEntry' = [o \in PtOrders |-> IF ptEntry[o].tracked THEN PtAged(ptEntry[o]) ELSE ptEntry[o]]
    /\ ptBreaker' = [ptBreaker EXCEPT !.wait = IF @ > 0 THEN @ - 1 ELSE 0]
    /\ UNCHANGED <<ptBroker, ptOutage>>

\* The entry a half-open breaker tests the broker with.
PtEarliest(o) == \A q \in PtTracked : ptEntry[o].due <= ptEntry[q].due

\* _poll_due: nothing while the breaker cools, one entry once it has, every due
\* entry while it is closed.
PtBegin ==
    /\ ptTick.at = "idle"
    /\ LET settled == {o \in PtTracked : ptBroker[o] = "filled"}
           begun(left, probe) == [PtNoTick EXCEPT !.at = "tick", !.left = left, !.probe = probe, !.settled = settled]
       IN \/ /\ (ptBreaker.open /\ ptBreaker.wait > 0) \/ PtTracked = {}
             /\ ptTick' = begun({}, FALSE)
          \/ /\ ptBreaker.open /\ ptBreaker.wait = 0 /\ PtTracked # {}
             /\ \E o \in PtTracked : PtEarliest(o) /\ ptTick' = begun({o}, TRUE)
          \/ /\ ~ptBreaker.open /\ PtTracked # {}
             /\ ptTick' = begun({o \in PtTracked : ptEntry[o].due <= 0}, FALSE)
    /\ UNCHANGED <<ptEntry, ptBroker, ptOutage, ptBreaker>>

\* The rest of the tick is dropped once the breaker has opened in it.
PtMayAskOn == TRUE
PtMayAsk == ptTick.probe \/ ~ptBreaker.open

PtEnd ==
    /\ ptTick.at = "tick" /\ (ptTick.left = {} \/ ~PtMayAsk)
    /\ ptTick' = [ptTick EXCEPT !.at = "over", !.left = {}, !.settled = {}, !.probe = FALSE]
    /\ UNCHANGED <<ptEntry, ptBroker, ptOutage, ptBreaker>>

PtAsk(o) ==
    /\ ptTick.at = "tick" /\ o \in ptTick.left /\ PtMayAsk
    /\ ptTick' = [ptTick EXCEPT !.at = "asked", !.left = @ \ {o}, !.on = {o},
                                !.overdue = ~ptTick.probe /\ PtExpired(o)]
    /\ ptEntry' = [ptEntry EXCEPT ![o].unasked = 0]
    /\ UNCHANGED <<ptBroker, ptOutage, ptBreaker>>

\* _PollEntry.advance.
PtAdvanced(e) ==
    [e EXCEPT !.due = e.idx, !.idx = PtLess(@ + 1, PtLongest)]

\* record_poll_error, record_probe_failure.
PtFailed ==
    LET errs == PtLess(ptBreaker.errs + 1, PtThreshold)
        longer == PtLess(2 * ptBreaker.cool, PtMaxCool)
    IN IF ptTick.probe THEN [open |-> TRUE, errs |-> errs, cool |-> longer, wait |-> longer]
       ELSE IF ptBreaker.open \/ errs < PtThreshold THEN [ptBreaker EXCEPT !.errs = errs]
       ELSE [open |-> TRUE, errs |-> errs, cool |-> PtCool, wait |-> PtCool]

\* The lookup raises: an expired order is reported (once, in the audit log) instead
\* of timed out.
PtRaises(o) ==
    /\ ptTick.at = "asked" /\ o \in ptTick.on
    /\ ptOutage \/ o \in PtBad
    /\ ptBreaker' = PtFailed
    /\ ptEntry' = [ptEntry EXCEPT ![o] = IF @.tracked THEN PtAdvanced(@) ELSE @]
    /\ ptTick' = [ptTick EXCEPT !.at = "tick", !.on = {}]
    /\ UNCHANGED <<ptBroker, ptOutage>>

\* The lookup answers: the breaker closes, a filled order is let go, an open one
\* goes on, and once it is expired to the timeout.
PtAnswers(o) ==
    /\ ptTick.at = "asked" /\ o \in ptTick.on
    /\ ~ptOutage /\ o \notin PtBad
    /\ ptBreaker' = [ptBreaker EXCEPT !.open = FALSE, !.errs = 0]
    /\ ptEntry' = [ptEntry EXCEPT ![o] = IF ~@.tracked \/ ptBroker[o] = "filled" THEN PtGone ELSE PtAdvanced(@)]
    /\ ptTick' = [ptTick EXCEPT !.at = "read"]
    /\ UNCHANGED <<ptBroker, ptOutage>>

\* The loop without the read before the timeout.
PtAfterAny(o) == ptTick.at \in {"asked", "read"} /\ o \in ptTick.on
PtAfterRead(o) == ptTick.at = "read" /\ o \in ptTick.on

PtTimesOut(o) ==
    /\ PtAfterRead(o)
    /\ ptEntry' = [ptEntry EXCEPT ![o] = IF ptTick.overdue /\ @.tracked
                                         THEN [PtGone EXCEPT !.timed = TRUE] ELSE @]
    /\ ptTick' = [ptTick EXCEPT !.at = "tick", !.on = {}]
    /\ UNCHANGED <<ptBroker, ptOutage, ptBreaker>>

(***************************************************************************)
(* Other threads, and the broker.                                              *)
(***************************************************************************)
PtRegister(o) ==
    /\ ~ptEntry[o].tracked /\ o \notin ptTick.on \cup ptTick.left
    /\ ptEntry' = [ptEntry EXCEPT ![o] = PtNew]
    /\ ptBroker' = [ptBroker EXCEPT ![o] = "open"]
    /\ ptTick' = [ptTick EXCEPT !.settled = @ \ {o}]
    /\ UNCHANGED <<ptOutage, ptBreaker>>

PtResync(o) ==
    /\ ptEntry[o].tracked /\ ptBroker[o] = "filled"
    /\ ptEntry' = [ptEntry EXCEPT ![o] = PtGone]
    /\ UNCHANGED <<ptBroker, ptOutage, ptBreaker, ptTick>>

PtFills(o) ==
    /\ ptBroker[o] = "open" /\ o \notin PtBad /\ ptBroker' = [ptBroker EXCEPT ![o] = "filled"]
    /\ UNCHANGED <<ptEntry, ptOutage, ptBreaker, ptTick>>

PtGoesDown == ~ptOutage /\ ptOutage' = TRUE /\ UNCHANGED <<ptEntry, ptBroker, ptBreaker, ptTick>>
PtComesBack ==
    /\ ptOutage /\ ptOutage' = FALSE
    /\ ptEntry' = [o \in PtOrders |-> [ptEntry[o] EXCEPT !.unasked = 0, !.age = PtLess(@, PtTimeout + 1)]]
    /\ UNCHANGED <<ptBroker, ptBreaker, ptTick>>

PtNext ==
    \/ PtPass \/ PtBegin \/ PtEnd \/ PtGoesDown \/ PtComesBack
    \/ \E o \in PtOrders :
          \/ PtAsk(o) \/ PtRaises(o) \/ PtAnswers(o) \/ PtTimesOut(o)
          \/ PtRegister(o) \/ PtResync(o) \/ PtFills(o)

PtSpec == PtInit /\ [][PtNext]_ptVars

(***************************************************************************)
(* Properties.                                                                 *)
(***************************************************************************)
PtTypeOK ==
    /\ ptEntry \in [PtOrders -> [tracked : BOOLEAN, idx : 1..PtLongest, due : -PtWithin..PtLongest,
                                 age : 0..(PtLatest + 1), timed : BOOLEAN,
                                 unasked : 0..(PtWithin + 1)]]
    /\ ptBroker \in [PtOrders -> {"open", "filled"}] /\ ptOutage \in BOOLEAN
    /\ ptBreaker \in [open : BOOLEAN, errs : 0..PtThreshold, cool : PtCool..PtMaxCool, wait : 0..PtMaxCool]
    /\ ptTick.at \in {"idle", "tick", "asked", "read", "over"}
    /\ ptTick.left \subseteq PtOrders /\ ptTick.on \subseteq PtOrders /\ ptTick.settled \subseteq PtOrders

\* An order that had filled before the tick began is not timed out in it, whatever
\* lookups fail meanwhile ("only after a lookup in this tick succeeded").
PtReadFirst == \A o \in ptTick.settled : ~ptEntry[o].timed

\* While the breaker cools nobody asks the broker, the rest of the tick in which
\* it opened included.
PtSilent == ptTick.at = "asked" /\ ptBreaker.open => ptTick.probe /\ ptBreaker.wait = 0

\* Every order, those whose lookups fail included, has its turn within PtWithin,
\* however many fail for good and keep the breaker open: the test lookup goes
\* round, one cooldown for each order that is earlier due.
PtServed == \A o \in PtTracked : ptEntry[o].unasked <= PtWithin

\* And one nobody fills is timed out in bounded time, as long as those others
\* are too few to open the breaker by themselves: a test lookup never times out.
PtClosed ==
    Cardinality(PtBad) < PtThreshold /\ ~ptOutage =>
        \A o \in PtTracked \ PtBad : ptEntry[o].age <= PtLatest

PtInv == PtTypeOK /\ PtReadFirst /\ PtSilent /\ PtServed /\ PtClosed
=============================================================================
