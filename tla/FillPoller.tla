---- MODULE FillPoller ----
(***************************************************************************)
(* The fill poller of backend/execution/order_poller.py for one broker     *)
(* order: the poll thread, the reconciler threads that call resync(), and  *)
(* the strategy start that registers the order a second time.  All of them *)
(* end in _apply_update, serialised by the entry's processing lock, and    *)
(* all of them act on a broker answer read before they hold that lock.     *)
(*                                                                         *)
(* The fill callback is one step here: it records the broker's total on    *)
(* the order's row or raises.  OrderRecord models what it does inside.     *)
(***************************************************************************)
EXTENDS Naturals, OrderStatus

CONSTANTS
    Qty,            \* shares the order asks for
    Resyncers,      \* reconciler threads
    Poll,           \* the poll thread
    Nobody,         \* the holder of a free processing lock
    MaxEntries,     \* bound: entries ever made for this order number
    MayExpire,      \* whether the order can reach its timeout
    MayRestart      \* whether a strategy starts, and restores the order, meanwhile

ASSUME QtyAssumption == Qty \in Nat \ {0}
ASSUME ThreadAssumption == Poll \notin Resyncers /\ Nobody \notin Resyncers \cup {Poll}
ASSUME EntryAssumption == MaxEntries \in Nat \ {0}
ASSUME FlagAssumption == MayExpire \in BOOLEAN /\ MayRestart \in BOOLEAN

Threads == Resyncers \cup {Poll}
Entries == 1 .. MaxEntries
NoEntry == 0

VARIABLES
    broker,     \* the order at KIS: status and shares filled
    row,        \* the order's row: status and filled_qty, what a restore reads
    made,       \* entries made so far
    live,       \* the entry the poller tracks under the order number
    mark,       \* last_reported_qty of each entry
    base,       \* the part of mark other writers had already recorded
    handed,     \* shares each entry has passed to its fill callback
    counted,    \* shares all of them have passed on: what the worker applied
    seen,       \* status of the last answer applied to each entry
    fired,      \* terminal_fired of each entry
    guarded,    \* whether the entry's callback is the recovery-guarded one
    expired,    \* entries registered longer ago than the timeout
    overdue,    \* whether the entry of this tick was expired when it began
    gaveUp,     \* entries closed by the timeout
    lock,       \* holder of each entry's processing_lock
    at,         \* where each thread is
    on,         \* the entry each thread works on
    answer,     \* the broker answer each thread holds
    restore     \* a strategy start: the filled_qty it read, the entry it found

entryVars == <<mark, base, handed, counted, seen, fired, guarded, expired,
               gaveUp, lock>>
threadVars == <<at, on, answer, overdue>>
vars == <<broker, row, made, live, mark, base, handed, counted, seen, fired,
          guarded, expired, overdue, gaveUp, lock, at, on, answer, restore>>

Answer == [status : BrokerStatus, filled : 0 .. Qty]
Locations == {"idle", "read", "found", "locked", "called", "after", "timeout", "closing"}

TypeOK ==
    /\ broker \in Answer
    /\ row \in [status : {"open", "filled", "closed"}, filled : 0 .. Qty]
    /\ made \in Entries
    /\ live \in Entries \cup {NoEntry}
    /\ mark \in [Entries -> 0 .. Qty]
    /\ base \in [Entries -> Nat]
    /\ handed \in [Entries -> Nat]
    /\ counted \in Nat
    /\ seen \in [Entries -> BrokerStatus]
    /\ fired \in [Entries -> BOOLEAN]
    /\ guarded \in [Entries -> BOOLEAN]
    /\ expired \in [Entries -> BOOLEAN]
    /\ overdue \in BOOLEAN
    /\ gaveUp \in [Entries -> BOOLEAN]
    /\ lock \in [Entries -> Threads \cup {Nobody}]
    /\ at \in [Threads -> Locations]
    /\ on \in [Threads -> Entries]
    /\ answer \in [Threads -> Answer]
    /\ restore \in [busy : BOOLEAN, filled : 0 .. Qty, found : Entries \cup {NoEntry}]

\* A strategy start that is over, and one that has read the row.
Started(n) == [busy |-> FALSE, filled |-> n, found |-> NoEntry]
Starting(n) == [busy |-> TRUE, filled |-> n, found |-> NoEntry]

\* The order was placed and registered live: one entry, watermark zero.
Init ==
    /\ broker = [status |-> "submitted", filled |-> 0]
    /\ row = [status |-> "open", filled |-> 0]
    /\ made = 1
    /\ live = 1
    /\ mark = [e \in Entries |-> 0]
    /\ base = [e \in Entries |-> 0]
    /\ handed = [e \in Entries |-> 0]
    /\ counted = 0
    /\ seen = [e \in Entries |-> "submitted"]
    /\ fired = [e \in Entries |-> FALSE]
    /\ guarded = [e \in Entries |-> FALSE]
    /\ expired = [e \in Entries |-> FALSE]
    /\ overdue = FALSE
    /\ gaveUp = [e \in Entries |-> FALSE]
    /\ lock = [e \in Entries |-> Nobody]
    /\ at = [t \in Threads |-> "idle"]
    /\ on = [t \in Threads |-> 1]
    /\ answer = [t \in Threads |-> [status |-> "submitted", filled |-> 0]]
    /\ restore = Started(0)

Goto(t, loc) == at' = [at EXCEPT ![t] = loc]

(***************************************************************************)
(* The broker                                                              *)
(***************************************************************************)
BrokerFill ==
    /\ broker.status \notin Terminal
    /\ \E n \in broker.filled + 1 .. Qty :
          broker' = [status |-> IF n = Qty THEN "filled" ELSE "partial_filled",
                     filled |-> n]
    /\ UNCHANGED <<row, made, live, entryVars, threadVars, restore>>

\* A rejected order never filled; a canceled or expired one may have in part.
BrokerClose ==
    /\ broker.status \notin Terminal
    /\ \E s \in Negative :
          /\ s = "rejected" => broker.filled = 0
          /\ broker' = [broker EXCEPT !.status = s]
    /\ UNCHANGED <<row, made, live, entryVars, threadVars, restore>>

\* Thirty minutes pass since the registration.
Expire ==
    /\ MayExpire
    /\ live # NoEntry
    /\ ~expired[live]
    /\ expired' = [expired EXCEPT ![live] = TRUE]
    /\ UNCHANGED <<broker, row, made, live, mark, base, handed, counted, seen, fired,
                   guarded, gaveUp, lock, threadVars, restore>>

(***************************************************************************)
(* Registration by a strategy start (_restore_pending_to_tracker): the row *)
(* is read first, registered later, with other threads in between.         *)
(***************************************************************************)
RestoreRead ==
    /\ MayRestart
    /\ ~restore.busy
    /\ row.status = "open"
    /\ restore' = Starting(row.filled)
    /\ UNCHANGED <<broker, row, made, live, entryVars, threadVars>>

RegisterNew ==
    /\ restore.busy
    /\ restore.found = NoEntry
    /\ live = NoEntry
    /\ made < MaxEntries
    /\ made' = made + 1
    /\ live' = made + 1
    /\ mark' = [mark EXCEPT ![made + 1] = restore.filled]
    /\ base' = [base EXCEPT ![made + 1] = restore.filled]
    /\ guarded' = [guarded EXCEPT ![made + 1] = TRUE]
    /\ restore' = Started(restore.filled)
    /\ UNCHANGED <<broker, row, handed, counted, seen, fired, expired, gaveUp, lock, threadVars>>

\* The entry is still tracked: find it ...
RegisterFind ==
    /\ restore.busy
    /\ restore.found = NoEntry
    /\ live # NoEntry
    /\ restore' = [restore EXCEPT !.found = live]
    /\ UNCHANGED <<broker, row, made, live, entryVars, threadVars>>

LockNotTaken(e) == TRUE
LockFree(e) == lock[e] = Nobody

Larger(a, b) == IF a >= b THEN a ELSE b

\* ... and mutate it in place under its own lock, tracked by then or not.
RegisterInPlace ==
    LET e == restore.found
    IN  /\ e # NoEntry
        /\ LockFree(e)
        /\ mark' = [mark EXCEPT ![e] = Larger(mark[e], restore.filled)]
        /\ base' = [base EXCEPT ![e] = base[e] + (mark'[e] - mark[e])]
        /\ guarded' = [guarded EXCEPT ![e] = TRUE]
        /\ seen' = [seen EXCEPT ![e] = "submitted"]
        /\ restore' = Started(restore.filled)
        /\ UNCHANGED <<broker, row, made, live, handed, counted, fired, expired, gaveUp,
                       lock, threadVars>>

(***************************************************************************)
(* Reading the broker                                                      *)
(***************************************************************************)
\* One tick of _poll_due on the tracked entry; a failed lookup changes nothing.
PollLookup ==
    /\ at[Poll] = "idle"
    /\ live # NoEntry
    /\ on' = [on EXCEPT ![Poll] = live]
    /\ answer' = [answer EXCEPT ![Poll] = broker]
    /\ overdue' = expired[live]
    /\ Goto(Poll, "found")
    /\ UNCHANGED <<broker, row, made, live, entryVars, restore>>

\* The lookup succeeded and the broker does not list the order.
PollAbsent ==
    /\ at[Poll] = "idle"
    /\ live # NoEntry
    /\ on' = [on EXCEPT ![Poll] = live]
    /\ overdue' = expired[live]
    /\ Goto(Poll, "after")
    /\ UNCHANGED <<broker, row, made, live, entryVars, answer, restore>>

\* The reconciler asks the broker first and looks for the entry afterwards.
ResyncRead(t) ==
    /\ t # Poll
    /\ at[t] = "idle"
    /\ answer' = [answer EXCEPT ![t] = broker]
    /\ Goto(t, "read")
    /\ UNCHANGED <<broker, row, made, live, entryVars, on, overdue, restore>>

ResyncFind(t) ==
    /\ at[t] = "read"
    /\ IF live = NoEntry
       THEN Goto(t, "idle") /\ UNCHANGED on
       ELSE Goto(t, "found") /\ on' = [on EXCEPT ![t] = live]
    /\ UNCHANGED <<broker, row, made, live, entryVars, answer, overdue, restore>>

(***************************************************************************)
(* _apply_update: the answer a thread holds is applied under the lock.     *)
(***************************************************************************)
Held(t) == answer[t]
WholeTotal(t) == Held(t).filled
Increment(t) == Held(t).filled - mark[on[t]]
IsFill(t) == Held(t).status \in {"partial_filled", "filled"}

\* Where a thread goes once it has released the lock.
Done(t) == Goto(t, IF t = Poll THEN "after" ELSE "idle")
Release(t) == lock' = [lock EXCEPT ![on[t]] = Nobody] /\ Done(t)

TakeLock(t) ==
    /\ at[t] = "found"
    /\ LockFree(on[t])
    /\ lock' = [lock EXCEPT ![on[t]] = t]
    /\ seen' = [seen EXCEPT ![on[t]] = Held(t).status]
    /\ Goto(t, "locked")
    /\ UNCHANGED <<broker, row, made, live, mark, base, handed, counted, fired, guarded,
                   expired, gaveUp, on, answer, overdue, restore>>

\* The fill callback.  The recovery-guarded one leaves a filled row alone.
HandOver(t) ==
    /\ at[t] = "locked"
    /\ IsFill(t)
    /\ Held(t).filled > mark[on[t]]
    /\ IF guarded[on[t]] /\ row.status = "filled"
       THEN /\ base' = [base EXCEPT ![on[t]] = @ + Increment(t)]
            /\ UNCHANGED <<row, handed, counted>>
       ELSE /\ handed' = [handed EXCEPT ![on[t]] = @ + Increment(t)]
            /\ counted' = counted + Increment(t)
            /\ UNCHANGED base
            /\ row' = [status |-> IF Held(t).status = "filled" THEN "filled"
                                  ELSE row.status,
                       filled |-> Held(t).filled]
    /\ Goto(t, "called")
    /\ UNCHANGED <<broker, made, live, mark, seen, fired, guarded, expired,
                   gaveUp, lock, on, answer, overdue, restore>>

\* The callback raised: the entry is kept and its watermark stays.
HandOverFailsDropping(t) ==
    /\ at[t] = "locked"
    /\ IsFill(t)
    /\ Held(t).filled > mark[on[t]]
    /\ live' = NoEntry
    /\ Release(t)
    /\ UNCHANGED <<broker, row, made, mark, base, handed, counted, seen, fired, guarded,
                   expired, gaveUp, on, answer, overdue, restore>>

HandOverFails(t) ==
    /\ at[t] = "locked"
    /\ IsFill(t)
    /\ Held(t).filled > mark[on[t]]
    /\ Release(t)
    /\ UNCHANGED <<broker, row, made, live, mark, base, handed, counted, seen, fired,
                   guarded, expired, gaveUp, on, answer, overdue, restore>>

\* The callback returned: only now does the watermark move.
SettleFillAdding(t) ==
    /\ at[t] = "called"
    /\ mark' = [mark EXCEPT ![on[t]] = @ + Held(t).filled]
    /\ live' = IF Held(t).status = "filled" THEN NoEntry ELSE live
    /\ Release(t)
    /\ UNCHANGED <<broker, row, made, base, handed, counted, seen, fired, guarded,
                   expired, gaveUp, on, answer, overdue, restore>>

SettleFill(t) ==
    /\ at[t] = "called"
    /\ mark' = [mark EXCEPT ![on[t]] = Held(t).filled]
    /\ live' = IF Held(t).status = "filled" THEN NoEntry ELSE live
    /\ Release(t)
    /\ UNCHANGED <<broker, row, made, base, handed, counted, seen, fired, guarded,
                   expired, gaveUp, on, answer, overdue, restore>>

\* Nothing new in the answer; a filled order is forgotten all the same.
SkipFill(t) ==
    /\ at[t] = "locked"
    /\ IsFill(t)
    /\ Held(t).filled <= mark[on[t]]
    /\ live' = IF Held(t).status = "filled" THEN NoEntry ELSE live
    /\ Release(t)
    /\ UNCHANGED <<broker, row, made, mark, base, handed, counted, seen, fired, guarded,
                   expired, gaveUp, on, answer, overdue, restore>>

CloseRow == row' = [row EXCEPT !.status = IF @ = "open" THEN "closed" ELSE @]

\* A cancel, reject or expiry: its callback runs once per entry.
ApplyTerminal(t) ==
    /\ at[t] = "locked"
    /\ Held(t).status \in Negative
    /\ IF fired[on[t]]
       THEN UNCHANGED <<row, live, fired>>
       ELSE /\ fired' = [fired EXCEPT ![on[t]] = TRUE]
            /\ live' = NoEntry
            /\ CloseRow
    /\ Release(t)
    /\ UNCHANGED <<broker, made, mark, base, handed, counted, seen, guarded, expired,
                   gaveUp, on, answer, overdue, restore>>

\* Still open and nothing filled.
ApplyOpen(t) ==
    /\ at[t] = "locked"
    /\ Held(t).status = "submitted"
    /\ Release(t)
    /\ UNCHANGED <<broker, row, made, live, mark, base, handed, counted, seen, fired,
                   guarded, expired, gaveUp, on, answer, overdue, restore>>

(***************************************************************************)
(* The timeout, on the poll thread, after a lookup of this tick succeeded  *)
(* and left the entry tracked.                                             *)
(***************************************************************************)
EndTick ==
    /\ at[Poll] = "after"
    /\ Goto(Poll, IF overdue /\ live = on[Poll] THEN "timeout" ELSE "idle")
    /\ UNCHANGED <<broker, row, made, live, entryVars, on, answer, overdue, restore>>

\* A resync that settled the order meanwhile stops the timeout.
NotRechecked(e) == FALSE
SettledMeanwhile(e) == seen[e] \in Terminal

TimeoutBegin ==
    /\ at[Poll] = "timeout"
    /\ LockFree(on[Poll])
    /\ IF SettledMeanwhile(on[Poll])
       THEN Goto(Poll, "idle") /\ UNCHANGED <<live, gaveUp, lock>>
       ELSE /\ lock' = [lock EXCEPT ![on[Poll]] = Poll]
            /\ live' = NoEntry
            /\ gaveUp' = [gaveUp EXCEPT ![on[Poll]] = TRUE]
            /\ Goto(Poll, "closing")
    /\ UNCHANGED <<broker, row, made, mark, base, handed, counted, seen, fired, guarded,
                   expired, on, answer, overdue, restore>>

\* The cancel may fail or come too late; the order is closed either way.
TimeoutClose ==
    /\ at[Poll] = "closing"
    /\ broker' \in {broker} \cup
          (IF broker.status \in Terminal THEN {}
           ELSE {[broker EXCEPT !.status = "canceled"]})
    /\ CloseRow
    /\ lock' = [lock EXCEPT ![on[Poll]] = Nobody]
    /\ Goto(Poll, "idle")
    /\ UNCHANGED <<made, live, mark, base, handed, counted, seen, fired, guarded, expired,
                   gaveUp, on, answer, overdue, restore>>

Apply(t) ==
    \/ TakeLock(t)
    \/ HandOver(t)
    \/ SettleFill(t)
    \/ SkipFill(t)
    \/ ApplyTerminal(t)
    \/ ApplyOpen(t)

Next ==
    \/ BrokerFill \/ BrokerClose \/ Expire
    \/ RestoreRead \/ RegisterNew \/ RegisterFind \/ RegisterInPlace
    \/ PollLookup \/ PollAbsent
    \/ EndTick \/ TimeoutBegin \/ TimeoutClose
    \/ \E t \in Threads :
          \/ ResyncRead(t) \/ ResyncFind(t)
          \/ Apply(t) \/ HandOverFails(t)

(***************************************************************************)
(* Fairness: the poll loop never stops ticking, a thread inside            *)
(* _apply_update runs on, and neither the callback nor the lookup fails    *)
(* for ever.  Nothing is assumed of the broker or of the reconcilers.      *)
(***************************************************************************)
Fairness ==
    /\ SF_vars(PollLookup)
    /\ WF_vars(EndTick) /\ SF_vars(TimeoutBegin) /\ WF_vars(TimeoutClose)
    /\ \A t \in Threads :
          /\ SF_vars(TakeLock(t)) /\ SF_vars(HandOver(t))
          /\ WF_vars(SettleFill(t)) /\ WF_vars(SkipFill(t))
          /\ WF_vars(ApplyTerminal(t)) /\ WF_vars(ApplyOpen(t))

Spec == Init /\ [][Next]_vars
FairSpec == Spec /\ Fairness

(***************************************************************************)
(* Properties                                                              *)
(***************************************************************************)
\* Whatever the interleaving of the poll loop, resyncs and re-registrations,
\* an entry at rest has handed over exactly the shares between its seed and
\* its watermark: none applied twice and none skipped (_apply_update under
\* processing_lock, last_reported_qty).
EntryAccounts ==
    \A e \in Entries : lock[e] = Nobody => base[e] + handed[e] = mark[e]

\* The worker never applies more shares than the broker filled, over all the
\* entries the order ever had ("prevents double-counting on replay").
NoShareTwice == counted <= broker.filled

\* A thread inside an entry's _apply_update or timeout holds its lock.
OneInside ==
    \A t \in Threads :
        at[t] \in {"locked", "called", "closing"} => lock[on[t]] = t

\* The timeout never closes an order whose entry has already applied a fill
\* of the whole order or a terminal answer (F5, _handle_timeout_locked).
NeverCancelSettled ==
    [][\A e \in Entries :
          gaveUp'[e] /\ ~gaveUp[e] => ~fired[e] /\ mark[e] < Qty]_vars

\* An order the broker filled completely ends up recorded as filled, however
\* many callbacks raise on the way, unless the timeout closed it first.
FilledIsRecorded ==
    broker.status = "filled" ~>
        (row.status = "filled" \/ \E e \in Entries : gaveUp[e])

\* What the poller promises: every share counted once, and a filled order
\* counted in full.
Delivery == INSTANCE FillDelivery WITH filled <- broker.filled
DeliverySpec == Delivery!Spec

====
