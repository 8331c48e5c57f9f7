---- MODULE SymbolLock ----
(***************************************************************************)
(* The pending lock of one symbol (backend/execution/position_tracker.py)  *)
(* between the two threads of a strategy that place orders under it, the   *)
(* market-open scan and the stop-loss sweep (backend/strategy/indicator/   *)
(* strategy.py), and the poller's callbacks that release it.  The lock is  *)
(* a timestamp without an owner, so whoever finishes releases it.          *)
(***************************************************************************)
EXTENDS Naturals

CONSTANTS
    MaxOrders,      \* bound: orders ever sent for the symbol
    MaxScans,       \* bound: market opens
    Held,           \* shares held at the start
    Lot             \* shares a buy asks for

ASSUME BoundAssumption == MaxOrders \in Nat /\ MaxScans \in Nat
ASSUME ShareAssumption == Held \in Nat /\ Lot \in Nat \ {0}

Orders == 1 .. MaxOrders
Scan == "scan"
Sweep == "sweep"
Threads == {Scan, Sweep}

VARIABLES
    held,       \* tracker: shares of the symbol
    pending,    \* tracker: the symbol's lock is set
    lapsed,     \* tracker: the lock is older than its TTL
    order,      \* every order sent for the symbol
    thread,     \* the scan and the sweep
    scans,      \* market opens so far
    regular     \* no fill in parts, late fill, lapsed lock or failed cancel yet

tracker == <<held, pending, lapsed>>
vars == <<held, pending, lapsed, order, thread, scans, regular>>

\* phase: sent (accepted by the broker, not registered yet), tracked (open in
\* the state machine and polled), done (closed in the machine), orphan (sent,
\* but the answer had no order number).  owed: shares the machine has taken
\* and the tracker has not yet.
Order == [phase : {"none", "sent", "tracked", "done", "orphan"},
          side : {"buy", "sell"}, by : Threads, live : BOOLEAN,
          qty : Nat, filled : Nat, applied : Nat, owed : Nat]
Thread == [at : {"idle", "sizing", "sized", "claimed", "sent"},
           side : {"buy", "sell"}, qty : Nat, order : Orders \cup {0}]

TypeOK ==
    /\ held \in Nat
    /\ pending \in BOOLEAN /\ lapsed \in BOOLEAN /\ regular \in BOOLEAN
    /\ order \in [Orders -> Order]
    /\ thread \in [Threads -> Thread]
    /\ scans \in 0 .. MaxScans
    /\ \A o \in Orders :
          /\ order[o].filled <= order[o].qty
          /\ order[o].applied + order[o].owed <= order[o].filled

Idle == [at |-> "idle", side |-> "sell", qty |-> 0, order |-> 0]
NoOrder == [phase |-> "none", side |-> "sell", by |-> Scan, live |-> FALSE,
            qty |-> 0, filled |-> 0, applied |-> 0, owed |-> 0]

Init ==
    /\ held = Held
    /\ pending = FALSE /\ lapsed = FALSE
    /\ order = [o \in Orders |-> NoOrder]
    /\ thread = [t \in Threads |-> Idle]
    /\ scans = 0
    /\ regular = TRUE

Goto(t, loc) == thread' = [thread EXCEPT ![t].at = loc]
Unmark == pending' = FALSE /\ lapsed' = FALSE
Mark == pending' = TRUE /\ lapsed' = FALSE

(***************************************************************************)
(* The two threads                                                         *)
(***************************************************************************)
\* A market opens: the signal says sell what is held, or buy.
ScanStart ==
    /\ thread[Scan].at = "idle"
    /\ scans < MaxScans
    /\ scans' = scans + 1
    /\ \/ /\ held > 0
          /\ thread' = [thread EXCEPT ![Scan] = [Idle EXCEPT !.at = "sizing"]]
       \/ thread' = [thread EXCEPT ![Scan] = [Idle EXCEPT !.at = "sized", !.side = "buy",
                                                          !.qty = Lot]]
    /\ UNCHANGED <<tracker, order, regular>>

\* check_stops: a held symbol with no order open and no orphan; its quote is
\* read next, and says that the stop has fired.
BusyWithoutOrphans == \E o \in Orders : order[o].phase = "tracked"
Busy == \E o \in Orders : order[o].phase \in {"tracked", "orphan"}

SweepStart ==
    /\ thread[Sweep].at = "idle"
    /\ held > 0
    /\ ~Busy
    /\ thread' = [thread EXCEPT ![Sweep] = [Idle EXCEPT !.at = "sizing"]]
    /\ UNCHANGED <<tracker, order, scans, regular>>

\* _execute_sell reads the position before it claims the lock.
Size(t) ==
    /\ thread[t].at = "sizing"
    /\ thread' = [thread EXCEPT ![t] = IF held = 0 THEN Idle
                                       ELSE [@ EXCEPT !.at = "sized", !.qty = held]]
    /\ UNCHANGED <<tracker, order, scans, regular>>

\* try_mark_pending.
ClaimableAlways == TRUE
Claimable == ~pending \/ lapsed

Claim(t) ==
    /\ thread[t].at = "sized"
    /\ IF Claimable
       THEN Mark /\ Goto(t, "claimed")
       ELSE thread' = [thread EXCEPT ![t] = Idle] /\ UNCHANGED <<pending, lapsed>>
    /\ UNCHANGED <<held, order, scans, regular>>

\* A stale feed, no price or rate, no amount, a closed gate or a refusal.
RefusedLocked(t) ==
    /\ thread[t].at = "claimed"
    /\ thread' = [thread EXCEPT ![t] = Idle]
    /\ UNCHANGED <<tracker, order, scans, regular>>

Refused(t) ==
    /\ thread[t].at = "claimed"
    /\ Unmark
    /\ thread' = [thread EXCEPT ![t] = Idle]
    /\ UNCHANGED <<held, order, scans, regular>>

Fresh(o) == order[o].phase = "none" /\ \A p \in 1 .. o - 1 : order[p].phase # "none"
Sent(t, to, l) == [phase |-> to, side |-> thread[t].side, by |-> t, live |-> l,
                   qty |-> thread[t].qty, filled |-> 0, applied |-> 0, owed |-> 0]

Place(t) ==
    /\ thread[t].at = "claimed"
    /\ \E o \in Orders :
          /\ Fresh(o)
          /\ order' = [order EXCEPT ![o] = Sent(t, "sent", TRUE)]
          /\ thread' = [thread EXCEPT ![t].at = "sent", ![t].order = o]
    /\ UNCHANGED <<tracker, scans, regular>>

\* The broker's answer is lost: UNKNOWN and no number, live or not.  The lock
\* is kept.
PlaceUnanswered(t) ==
    /\ thread[t].at = "claimed"
    /\ \E o \in Orders, l \in BOOLEAN :
          /\ Fresh(o)
          /\ order' = [order EXCEPT ![o] = Sent(t, "orphan", l)]
    /\ thread' = [thread EXCEPT ![t] = Idle]
    /\ UNCHANGED <<tracker, scans, regular>>

\* _register_order: into the state machine and the poller.
Register(t) ==
    /\ thread[t].at = "sent"
    /\ order' = [order EXCEPT ![thread[t].order].phase = "tracked"]
    /\ thread' = [thread EXCEPT ![t] = Idle]
    /\ UNCHANGED <<tracker, scans, regular>>

(***************************************************************************)
(* The broker                                                              *)
(***************************************************************************)
BrokerFill(o) ==
    /\ order[o].live
    /\ \E n \in order[o].filled + 1 .. order[o].qty :
          order' = [order EXCEPT ![o].filled = n, ![o].live = (n < order[o].qty)]
    /\ UNCHANGED <<tracker, thread, scans, regular>>

BrokerClose(o) ==
    /\ order[o].live
    /\ order' = [order EXCEPT ![o].live = FALSE]
    /\ UNCHANGED <<tracker, thread, scans, regular>>

(***************************************************************************)
(* The poller's callbacks                                                  *)
(***************************************************************************)
\* on_filled, step 1: the state machine.  A resync that found the entry before
\* the timeout dropped it delivers even to an order the machine has closed.
Deliver(o) ==
    /\ order[o].phase \in {"tracked", "done"}
    /\ order[o].owed = 0
    /\ order[o].applied < order[o].filled
    /\ order' = [order EXCEPT ![o].owed = order[o].filled - order[o].applied,
                              ![o].phase = IF order[o].filled = order[o].qty
                                           THEN "done" ELSE @]
    /\ regular' = (regular /\ order[o].phase = "tracked" /\ order[o].filled = order[o].qty)
    /\ UNCHANGED <<tracker, thread, scans>>

\* A sell of more than the tracker holds drops the position.
SoldUnclamped(n) == held - n
Sold(n) == IF n >= held THEN 0 ELSE held - n

\* Step 2: PositionTracker.on_fill, which releases the lock with every fill.
Book(o) ==
    /\ order[o].owed > 0
    /\ Unmark
    /\ held' = IF order[o].side = "buy" THEN held + order[o].owed ELSE Sold(order[o].owed)
    /\ order' = [order EXCEPT ![o].applied = @ + order[o].owed, ![o].owed = 0]
    /\ UNCHANGED <<thread, scans, regular>>

\* apply_terminal_event: an order already closed in the machine keeps its
\* hands off the lock.
NeverClosed(o) == FALSE
AlreadyClosed(o) == order[o].phase = "done"

Terminated(o) ==
    /\ order[o].phase \in {"tracked", "done"}
    /\ order[o].owed = 0
    /\ ~order[o].live
    /\ order[o].filled < order[o].qty
    /\ order' = [order EXCEPT ![o].phase = "done"]
    /\ IF AlreadyClosed(o) THEN UNCHANGED <<pending, lapsed>> ELSE Unmark
    /\ UNCHANGED <<held, thread, scans, regular>>

\* The 30 minute timeout: cancel, and close whether the cancel works or not.
TimedOut(o) ==
    /\ order[o].phase = "tracked"
    /\ order[o].owed = 0
    /\ \E l \in {FALSE, order[o].live} :
          /\ order' = [order EXCEPT ![o].phase = "done", ![o].live = l]
          /\ regular' = (regular /\ ~l)
    /\ Unmark
    /\ UNCHANGED <<held, thread, scans>>

\* The lock's TTL, counted from the claim, passes before the order settles.
Lapse ==
    /\ pending
    /\ ~lapsed
    /\ lapsed' = TRUE
    /\ regular' = FALSE
    /\ UNCHANGED <<held, pending, order, thread, scans>>

Answer(t) == Refused(t) \/ Place(t) \/ PlaceUnanswered(t)

Next ==
    \/ ScanStart \/ SweepStart \/ Lapse
    \/ \E t \in Threads : Size(t) \/ Claim(t) \/ Answer(t) \/ Register(t)
    \/ \E o \in Orders :
          \/ BrokerFill(o) \/ BrokerClose(o)
          \/ Deliver(o) \/ Book(o) \/ Terminated(o) \/ TimedOut(o)

\* Threads run on, an order placed is answered, a callback returns, and the
\* poll loop, some of whose lookups succeed, reaches the timeout of an order
\* that stays open.
Fairness ==
    /\ \A t \in Threads :
          WF_vars(Size(t)) /\ WF_vars(Claim(t)) /\ WF_vars(Answer(t)) /\ WF_vars(Register(t))
    /\ \A o \in Orders : WF_vars(Book(o)) /\ SF_vars(TimedOut(o))

Spec == Init /\ [][Next]_vars
FairSpec == Spec /\ Fairness

(***************************************************************************)
(* Properties                                                              *)
(***************************************************************************)
\* While every fill comes whole, every lock outlasts its order and every
\* cancel works, the scan and the sweep never have two live orders for the
\* symbol, an order whose answer was lost included ("one active order per
\* symbol", position_tracker.py).
OneLiveOrder ==
    regular => \A o, p \in Orders : order[o].live /\ order[p].live => o = p

New(o) == order[o].phase = "none" /\ order'[o].phase # "none"

\* Fills in parts, lapsed locks and late callbacks notwithstanding, the sweep
\* never sells beside a sell of its own that is still live, unless the
\* timeout had given that one up (check_stops).
SweepNotTwice ==
    [][\A o, p \in Orders :
          New(o) /\ order'[o].by = Sweep /\ order[p].by = Sweep /\ order[p].live
             => order[p].phase = "done"]_vars

\* The sweep never sends a sell beside any live order (check_stops: "a
\* 5-minute sweep must not send a second sell beside a live one").
SweepAlone ==
    [][\A o, p \in Orders : New(o) /\ order'[o].by = Sweep => ~order[p].live]_vars

\* A lock does not wait for its TTL: whatever path its order takes releases
\* it, unless the order came back without a number.
LockReleased == pending ~> (~pending \/ \E o \in Orders : order[o].phase = "orphan")

====
