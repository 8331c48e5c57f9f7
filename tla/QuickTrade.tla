------------------------------ MODULE QuickTrade ------------------------------
(***************************************************************************)
(* Manual orders of the product API: the reservation that precedes every    *)
(* broker call, the replay of a request, the cancel, and the sweep that      *)
(* settles what a lost answer left open.                                     *)
(*                                                                          *)
(*   api/services/quick_trade_service.py    reserve_and_submit,              *)
(*                                          reconcile_reserved               *)
(*   api/services/quick_trade_recovery.py   the recovery sweep               *)
(*   api/routers/quick_trade.py             place_order, close_position,     *)
(*                                          cancel_order                     *)
(*   api/models.py                          the rows and their transitions   *)
(*                                                                          *)
(* One tenant, one account and one symbol: rows of different tenants or      *)
(* symbols never meet.  The parameters of an order are a shape, the side     *)
(* and quantity the sweep compares; the price only makes keys differ.  A     *)
(* row is named by its idempotency key, which is unique for the tenant.      *)
(* The API runs as one process, whose sweeps exclude each other.             *)
(***************************************************************************)
EXTENDS Naturals, Sequences, FiniteSets, SequencesExt

CONSTANTS
    Requests,       \* HTTP requests; each is sent once, a replay is another one
    Chosen,         \* keys a client sends as its Idempotency-Key header
    Shapes,         \* side and quantity of an order
    Buckets,        \* the time buckets (and prices) a derived key is made with
    None,           \* no row, no broker order number
    Limit,          \* rows a sweep takes at a time
    MaxForeign,     \* bound: orders placed in the account by other means
    MaxFaults,      \* bound: database commits that fail
    MaxCrashes,     \* bound: deaths of the process
    Overstays       \* may a submission outlast the sweep's grace period?

ASSUME LimitAssumption == Limit \in Nat \ {0}
ASSUME BoundAssumption ==
    MaxForeign \in Nat /\ MaxFaults \in Nat /\ MaxCrashes \in Nat
ASSUME FlagAssumption == Overstays \in BOOLEAN

\* A derived key is a function of the parameters and the bucket.
Keys == Chosen \cup (Shapes \X Buckets)

ASSUME NoneAssumption == None \notin Keys

VARIABLES
    row,        \* quick_trade_orders, by key
    queue,      \* keys of the reserved rows, least recently updated first
    lock,       \* who holds the row: a sweep, a cancel, nobody
    notes,      \* how often a row was raised to its owner
    broker,     \* the account's orders, in the order the broker got them:
                \* each rests, or is gone (filled or canceled)
    req,        \* the requests
    sweep,      \* the sweep of this process
    faults, crashes

vars == <<row, queue, lock, notes, broker, req, sweep, faults, crashes>>

Status == {"none", "reserved", "submitted", "rejected", "failed", "blocked", "canceled"}

\* A diagnostic of the sweep is told from the request's own error text by its
\* prefix; an escalated one carries a mark.
Error == {"none", "why", "stamp", "raised"}

Row == [status : Status, shape : Shapes \cup {None}, odno : Nat, error : Error,
        age : {"fresh", "due", "stuck"}]

NoRow == [status |-> "none", shape |-> None, odno |-> 0, error |-> "none", age |-> "fresh"]

Request == [pc : {"idle", "guard", "reserve", "gate", "send", "accepted", "refused",
                  "unknown", "done"},
            key : Keys \cup {None}, shape : Shapes \cup {None},
            op : {"place", "close"}, odno : Nat,
            replay : BOOLEAN,
            answer : {"none", "turned away", "row", "error"}]

Idle == [pc |-> "idle", key |-> None, shape |-> None, op |-> "place", odno |-> 0,
         replay |-> FALSE, answer |-> "none"]

Init ==
    /\ row = [k \in Keys |-> NoRow]
    /\ queue = <<>>
    /\ lock = [k \in Keys |-> "free"]
    /\ notes = [k \in Keys |-> 0]
    /\ broker = <<>>
    /\ req = [r \in Requests |-> Idle]
    /\ sweep = [pc |-> "idle", todo |-> <<>>, found |-> "skip", odno |-> 0]
    /\ faults = 0
    /\ crashes = 0

Exists(k) == row[k].status # "none"

Numbers == 1..Len(broker)

\* qt_transition: the only edges a row may take; anything else raises.
MayBecome(from, to) ==
    \/ from = "reserved" /\ to \in {"submitted", "rejected", "failed", "blocked"}
    \/ from = "submitted" /\ to = "canceled"

\* The queue orders rows by updated_at, which every write to a row advances.
Queued(k) == \E i \in DOMAIN queue : queue[i] = k
At(k) == CHOOSE i \in DOMAIN queue : queue[i] = k

Dropped(k) == IF Queued(k) THEN RemoveAt(queue, At(k)) ELSE queue
Touched(k) == Append(Dropped(k), k)

\* A write to a row: once it is no longer reserved it leaves the queue, and
\* its age does not count.
Write(k, new) ==
    IF new.status = "reserved"
    THEN row' = [row EXCEPT ![k] = new] /\ queue' = Touched(k)
    ELSE row' = [row EXCEPT ![k] = [new EXCEPT !.age = "fresh"]] /\ queue' = Dropped(k)

InFlight(k) ==
    \E r \in Requests :
        req[r].key = k /\ req[r].pc \in {"gate", "send", "accepted", "refused", "unknown"}

\* Of a request that is answered only the answer counts.
Answer(r, a) ==
    req' = [req EXCEPT ![r] = [Idle EXCEPT !.pc = "done", !.replay = req[r].replay, !.answer = a]]

(***************************************************************************)
(* Requests: place_order and close_position.                                *)
(***************************************************************************)

\* A request comes in, with a key of its own or one derived from what it asks.
\* A close with a key of its own looks for its row first and answers from it.
Arrive(r) ==
    /\ req[r].pc = "idle"
    /\ \E s \in Shapes, op \in {"place", "close"} :
       \E k \in Chosen \cup ({s} \X Buckets) :
          LET same == Exists(k) /\ row[k].shape = s
          IN IF op = "close" /\ k \in Chosen /\ Exists(k)
             THEN Answer(r, IF same THEN "row" ELSE "error")
             ELSE req' = [req EXCEPT ![r] =
                    [Idle EXCEPT !.pc = "guard", !.key = k, !.shape = s, !.op = op,
                                 !.replay = same /\ op = "place"]]
    /\ UNCHANGED <<row, queue, lock, notes, broker, sweep, faults, crashes>>

\* Every request is checked, a replay too.
GuardedAlways(r) == TRUE

\* Which requests the checks before the reservation may turn away.  An order
\* to place skips them when its row exists; a close reads the live position
\* before it knows its key.
Guarded(r) == req[r].op = "close" \/ ~Exists(req[r].key)

\* Credential, sellable quantity, pending sells, live price: the request goes
\* on to the reservation or is turned away with nothing written.
Guard(r) ==
    /\ req[r].pc = "guard"
    /\ \/ req' = [req EXCEPT ![r].pc = "reserve", ![r].op = "place"]
       \/ Guarded(r) /\ Answer(r, "turned away")
    /\ UNCHANGED <<row, queue, lock, notes, broker, sweep, faults, crashes>>

\* The insert without the unique constraint behind it: a second request of the
\* same key writes the row again and goes on.
ReserveAgain(r) ==
    /\ req[r].pc = "reserve"
    /\ Write(req[r].key, [NoRow EXCEPT !.status = "reserved", !.shape = req[r].shape])
    /\ req' = [req EXCEPT ![r].pc = "gate"]
    /\ UNCHANGED <<lock, notes, broker, sweep, faults, crashes>>

\* The insert is committed before anything else happens.  A row of the same
\* key makes it fail, and the request answers from that row.
Reserve(r) ==
    LET k == req[r].key IN
    /\ req[r].pc = "reserve"
    /\ \/ /\ ~Exists(k)
          /\ Write(k, [NoRow EXCEPT !.status = "reserved", !.shape = req[r].shape])
          /\ req' = [req EXCEPT ![r].pc = "gate"]
       \/ /\ Exists(k)
          /\ Answer(r, IF row[k].shape = req[r].shape THEN "row" ELSE "error")
          /\ UNCHANGED <<row, queue>>
    /\ UNCHANGED <<lock, notes, broker, sweep, faults, crashes>>

\* What a request writes at its end; the row may be locked meanwhile.  A
\* commit that fails leaves the row as the reservation left it.
Record(r, status, odno, error) ==
    LET k == req[r].key IN
    \/ /\ lock[k] = "free"
       /\ Write(k, [row[k] EXCEPT !.status = status, !.odno = odno, !.error = error])
       /\ Answer(r, "row")
       /\ UNCHANGED faults
    \/ /\ faults < MaxFaults
       /\ faults' = faults + 1
       /\ Answer(r, "error")
       /\ UNCHANGED <<row, queue>>

\* The risk gate allows, denies, or cannot tell: the last two block the order.
Gate(r) ==
    /\ req[r].pc = "gate"
    /\ \/ req' = [req EXCEPT ![r].pc = "send"] /\ UNCHANGED <<row, queue, faults>>
       \/ Record(r, "blocked", 0, "why")
    /\ UNCHANGED <<lock, notes, broker, sweep, crashes>>

\* The one broker call.  It is refused, answered, or its answer is lost,
\* whether or not the broker got the order.
Send(r) ==
    /\ req[r].pc = "send"
    /\ \/ /\ req' = [req EXCEPT ![r].pc = "refused"]
          /\ UNCHANGED broker
       \/ /\ req' = [req EXCEPT ![r].pc = "unknown"]
          /\ UNCHANGED broker
       \/ /\ broker' = Append(broker, [shape |-> req[r].shape, by |-> req[r].key,
                                       state |-> "live"])
          /\ \/ req' = [req EXCEPT ![r].pc = "accepted", ![r].odno = Len(broker) + 1]
             \/ req' = [req EXCEPT ![r].pc = "unknown"]
    /\ UNCHANGED <<row, queue, lock, notes, sweep, faults, crashes>>

\* An unknown outcome taken for a refusal.
UnknownRefused(r) == req[r].pc = "unknown" /\ Record(r, "rejected", 0, "why")

\* The answer is recorded; an unknown outcome leaves the row reserved.
Accepted(r) == req[r].pc = "accepted" /\ Record(r, "submitted", req[r].odno, row[req[r].key].error)
Refused(r) == req[r].pc = "refused" /\ Record(r, "rejected", 0, "why")
Unknown(r) == req[r].pc = "unknown" /\ Record(r, row[req[r].key].status, row[req[r].key].odno, "why")

Finish(r) ==
    /\ Accepted(r) \/ Refused(r) \/ Unknown(r)
    /\ UNCHANGED <<lock, notes, broker, sweep, crashes>>

RequestStep(r) == Guard(r) \/ Reserve(r) \/ Gate(r) \/ Send(r) \/ Finish(r)

(***************************************************************************)
(* cancel_order: the row is locked from the read to the commit.             *)
(***************************************************************************)

CancelBegin(k) ==
    /\ lock[k] = "free"
    /\ row[k].status = "submitted"
    /\ lock' = [lock EXCEPT ![k] = "cancel"]
    /\ UNCHANGED <<row, queue, notes, broker, req, sweep, faults, crashes>>

\* The status as another vocabulary spells it.
CancelledElsewhere == "cancelled"

Canceled == "canceled"

\* The broker confirms the cancel of an order that still rests.
CancelConfirmed(k) ==
    /\ lock[k] = "cancel"
    /\ broker[row[k].odno].state = "live"
    /\ broker' = [broker EXCEPT ![row[k].odno].state = "gone"]
    /\ \/ /\ Write(k, [row[k] EXCEPT !.status = Canceled])
          /\ UNCHANGED faults
       \/ /\ faults < MaxFaults
          /\ faults' = faults + 1
          /\ UNCHANGED <<row, queue>>
    /\ lock' = [lock EXCEPT ![k] = "free"]
    /\ UNCHANGED <<notes, req, sweep, crashes>>

\* It refuses, the call fails, or only its answer is lost: the row stays.
CancelFailed(k) ==
    /\ lock[k] = "cancel"
    /\ \/ UNCHANGED broker
       \/ /\ broker[row[k].odno].state = "live"
          /\ broker' = [broker EXCEPT ![row[k].odno].state = "gone"]
    /\ lock' = [lock EXCEPT ![k] = "free"]
    /\ UNCHANGED <<row, queue, notes, req, sweep, faults, crashes>>

Cancel(k) == CancelBegin(k) \/ CancelConfirmed(k) \/ CancelFailed(k)

(***************************************************************************)
(* The recovery sweep: recover_reserved_orders.                             *)
(***************************************************************************)

\* Reserved rows past the grace period.
Due == {k \in Keys : row[k].status = "reserved" /\ row[k].age # "fresh"}

\* The window without the rotation: rows in the order of their keys.
AheadUnrotated(k) ==
    LET order == SetToSeq(Keys)
        at(x) == CHOOSE i \in DOMAIN order : order[i] = x
    IN {x \in Due : at(x) < at(k)}

\* Those that were tried less recently than k.
Ahead(k) == {x \in Due : At(x) < At(k)}

\* What a sweep takes: the first Limit of them, in the order of the queue.
Eligible ==
    {w \in UNION {[1..n -> Due] : n \in 1..Limit} :
        /\ Len(w) \in {Limit, Cardinality(Due)}
        /\ \A i \in DOMAIN w : Cardinality(Ahead(w[i])) = i - 1}

SweepBegin ==
    /\ sweep.pc = "idle"
    /\ \E w \in Eligible : sweep' = [sweep EXCEPT !.pc = "claim", !.todo = w]
    /\ UNCHANGED <<row, queue, lock, notes, broker, req, faults, crashes>>

\* What the sweep goes on with when it is through with the row at its head.
Next1 == [pc |-> IF Len(sweep.todo) > 1 THEN "claim" ELSE "idle",
          todo |-> Tail(sweep.todo), found |-> "skip", odno |-> 0]

\* Only the orders that still rest.
CandidatesLive(k) == {n \in Numbers : broker[n].shape = row[k].shape /\ broker[n].state = "live"}

\* The account's orders of the row's side and quantity, whoever placed them.
Candidates(k) == {n \in Numbers : broker[n].shape = row[k].shape}

\* A row can be taken if it is still reserved and nobody holds it.
Claimable == {k \in Keys : row[k].status = "reserved" /\ lock[k] = "free"}

\* It stays locked over the inquiry.  _classify: one candidate is adopted, none is
\* conclusive, several or an inquiry that failed are not.
SweepClaim ==
    LET k == Head(sweep.todo)
        found == Candidates(k)
        go(what, n) == [sweep EXCEPT !.pc = "settle", !.found = what, !.odno = n]
    IN
    /\ sweep.pc = "claim"
    /\ \/ /\ k \in Claimable
          /\ lock' = [lock EXCEPT ![k] = "sweep"]
          /\ \/ \E n \in found : found = {n} /\ sweep' = go("match", n)
             \/ found = {} /\ sweep' = go("absent", 0)
             \/ sweep' = go("skip", 0)
       \/ /\ k \notin Claimable
          /\ sweep' = Next1
          /\ UNCHANGED lock
    /\ UNCHANGED <<row, queue, notes, broker, req, faults, crashes>>

\* The diagnostic of an earlier skip goes before a row is settled.
Cleared(e) == IF e \in {"stamp", "raised"} THEN "none" ELSE e

Settled(k) ==
    IF sweep.found = "match"
    THEN [row[k] EXCEPT !.status = "submitted", !.odno = sweep.odno, !.error = Cleared(@)]
    ELSE [row[k] EXCEPT !.status = "failed",
              !.error = IF Cleared(@) = "none" THEN "why" ELSE @]

\* reconcile_reserved; when its commit fails the lock is lost with it.
SweepSettle ==
    LET k == Head(sweep.todo) IN
    /\ sweep.pc = "settle"
    /\ sweep.found # "skip"
    /\ \/ /\ Write(k, Settled(k))
          /\ sweep' = Next1
          /\ UNCHANGED faults
       \/ /\ faults < MaxFaults
          /\ faults' = faults + 1
          /\ sweep' = [sweep EXCEPT !.pc = "stamp"]
          /\ UNCHANGED <<row, queue>>
    /\ lock' = [lock EXCEPT ![k] = "free"]
    /\ UNCHANGED <<notes, broker, req, crashes>>

\* A row is raised when it is skipped past the deadline and carries no mark.
Raises(k) == row[k].age = "stuck" /\ row[k].error # "raised"

\* A stamp that forgets the mark.
StampedAfresh(k, raised) == IF raised THEN "raised" ELSE "stamp"

\* The diagnostic keeps the mark of an earlier escalation.
Stamped(k, raised) == IF raised \/ row[k].error = "raised" THEN "raised" ELSE "stamp"

\* An inconclusive row: the diagnostic and the notification are one commit,
\* and the write moves the row to the back of the queue.
SweepSkip ==
    LET k == Head(sweep.todo) IN
    /\ sweep.pc = "settle"
    /\ sweep.found = "skip"
    /\ \/ /\ Write(k, [row[k] EXCEPT !.error = Stamped(k, Raises(k))])
          /\ notes' = [notes EXCEPT ![k] = @ + IF Raises(k) THEN 1 ELSE 0]
          /\ UNCHANGED faults
       \/ /\ faults < MaxFaults
          /\ faults' = faults + 1
          /\ UNCHANGED <<row, queue, notes>>
    /\ lock' = [lock EXCEPT ![k] = "free"]
    /\ sweep' = Next1
    /\ UNCHANGED <<broker, req, crashes>>

\* After a commit that failed the row is stamped too, with no lock on it.
SweepStamp ==
    LET k == Head(sweep.todo) IN
    /\ sweep.pc = "stamp"
    /\ \/ /\ lock[k] = "free"
          /\ Write(k, [row[k] EXCEPT !.error = Stamped(k, FALSE)])
          /\ UNCHANGED faults
       \/ /\ faults < MaxFaults
          /\ faults' = faults + 1
          /\ UNCHANGED <<row, queue>>
    /\ sweep' = Next1
    /\ UNCHANGED <<lock, notes, broker, req, crashes>>

SweepStep == SweepBegin \/ SweepClaim \/ SweepSettle \/ SweepSkip \/ SweepStamp

(***************************************************************************)
(* Time, the market, and the death of the process.                          *)
(***************************************************************************)

\* Every reserved row gets older, in flight or not.
AgesAlways(k) == TRUE

\* A row gets past the grace period, and later past the deadline for raising
\* it.  The grace period is longer than a submission lasts, unless Overstays.
Ages(k) == Overstays \/ ~InFlight(k)

Age(k) ==
    /\ row[k].status = "reserved"
    /\ row[k].age # "stuck"
    /\ Ages(k)
    /\ row' = [row EXCEPT ![k].age = IF @ = "fresh" THEN "due" ELSE "stuck"]
    /\ UNCHANGED <<queue, lock, notes, broker, req, sweep, faults, crashes>>

Fill(n) ==
    /\ broker[n].state = "live"
    /\ broker' = [broker EXCEPT ![n].state = "gone"]
    /\ UNCHANGED <<row, queue, lock, notes, req, sweep, faults, crashes>>

\* The owner of the account trades in it by other means as well; no cancel
\* of this API is after such an order before a sweep adopts it.
Foreign ==
    /\ Cardinality({n \in Numbers : broker[n].by = None}) < MaxForeign
    /\ \E s \in Shapes : broker' = Append(broker, [shape |-> s, by |-> None, state |-> "gone"])
    /\ UNCHANGED <<row, queue, lock, notes, req, sweep, faults, crashes>>

\* The process dies: its requests get no answer, its locks go, rows stay.
\* The start sweep is the next SweepBegin.  A shutdown, which ends the sweep
\* between two rows, is a death at such a moment.
Crash ==
    /\ crashes < MaxCrashes
    /\ crashes' = crashes + 1
    /\ req' = [r \in Requests |-> IF req[r].pc \in {"idle", "done"} THEN req[r]
                                  ELSE [Idle EXCEPT !.pc = "done", !.replay = req[r].replay, !.answer = "error"]]
    /\ lock' = [k \in Keys |-> "free"]
    /\ sweep' = [pc |-> "idle", todo |-> <<>>, found |-> "skip", odno |-> 0]
    /\ UNCHANGED <<row, queue, notes, broker, faults>>

Next ==
    \/ \E r \in Requests : Arrive(r) \/ RequestStep(r)
    \/ \E k \in Keys : Cancel(k) \/ Age(k)
    \/ SweepStep
    \/ \E n \in Numbers : Fill(n)
    \/ Foreign
    \/ Crash

\* Threads run on, time passes, and the periodic sweep comes round again.  A
\* cancel only holds rows no sweep is after, and needs no fairness.
Fairness ==
    /\ \A r \in Requests : WF_vars(RequestStep(r))
    /\ \A k \in Keys : WF_vars(Age(k))
    /\ WF_vars(SweepStep)

Spec == Init /\ [][Next]_vars

FairSpec == Spec /\ Fairness
(***************************************************************************)
(* Properties.                                                              *)
(***************************************************************************)

\* The state stays what the code can hold.
TypeOK ==
    /\ row \in [Keys -> Row]
    /\ queue \in Seq({k \in Keys : row[k].status = "reserved"})
    /\ lock \in [Keys -> {"free", "sweep", "cancel"}]
    /\ notes \in [Keys -> Nat]
    /\ broker \in Seq([shape : Shapes, by : Keys \cup {None}, state : {"live", "gone"}])
    /\ req \in [Requests -> Request]
    /\ sweep \in [pc : {"idle", "claim", "settle", "stamp"}, todo : Seq(Keys),
                  found : {"match", "absent", "skip"}, odno : Nat]
    /\ faults \in 0..MaxFaults
    /\ crashes \in 0..MaxCrashes

\* A key reaches the broker at most once, however often its request is sent
\* and wherever the process dies ("a duplicate, retry, or crash therefore can
\* never cause a second broker submission for the same key").
OncePerKey ==
    \A k \in Keys : Cardinality({n \in Numbers : broker[n].by = k}) <= 1

\* An order the broker got is never recorded as one it did not get, and one
\* that rests is never recorded as canceled: whatever answer was lost, the
\* owner is not told that nothing is out there.
NothingSentDenied ==
    \A n \in Numbers : broker[n].by # None =>
        LET status == row[broker[n].by].status IN
        /\ status \notin {"failed", "blocked", "rejected"}
        /\ broker[n].state = "live" => status # "canceled"

\* The owner is told of a stuck order once, over all sweeps, faults of the
\* database and restarts (_escalate, "exactly once").
RaisedOnce == \A k \in Keys : notes[k] <= 1

\* A request to place an order that was there before it came in is answered
\* from that order: the checks that would judge it against a position its
\* first submission already reduced do not turn it away.  (A close with a
\* derived key cannot know its key before those checks.)
ReplayAnswered == \A r \in Requests : req[r].replay => req[r].answer # "turned away"

\* The stored status only takes the edges of QT_VALID_TRANSITIONS, although
\* requests, cancels and sweeps each check it in a session of their own.
FollowsTable ==
    [][\A k \in Keys : Exists(k) /\ row'[k].status # row[k].status
            => MayBecome(row[k].status, row'[k].status)]_vars

\* An order left open by a lost answer, a fault or a death is settled or
\* raised to its owner, however many undecidable ones stand before it in a
\* window of Limit rows.
SettledOrRaised ==
    \A k \in Keys :
        row[k].status = "reserved" ~> (row[k].status # "reserved" \/ row[k].error = "raised")

\* A key is sent once, what was sent is not denied, and its owner hears once.
TradeInv == TypeOK /\ OncePerKey /\ NothingSentDenied /\ RaisedOnce
=============================================================================
