---- MODULE OrderRecord ----
(***************************************************************************)
(* One order from the broker to the database: the fill callback of         *)
(* StrategyWorker (state machine, realized P&L, fills), the position       *)
(* reconciler's order pass, a crash at any step and the recovery after it. *)
(* A fill is counted in shares; every database transaction is one step.    *)
(* FillPoller covers the poller's own races; here the watermark, the lock  *)
(* and the entries are kept, because restarts seed them from the row.      *)
(***************************************************************************)
EXTENDS Naturals, OrderStatus

CONSTANTS
    Qty,            \* shares the order asks for
    MaxCrashes,     \* bound: process crashes
    MaxPasses,      \* bound: reconciler passes, the one of each boot aside
    MaxFaults,      \* bound: database or lookup failures
    MayExpire,      \* whether the order can reach its 30 minute timeout
    MayUnknown      \* whether a lookup may answer "unknown" before any fill

ASSUME QtyAssumption == Qty \in Nat \ {0}
ASSUME BoundAssumption ==
    MaxCrashes \in Nat /\ MaxPasses \in Nat /\ MaxFaults \in Nat
ASSUME FlagAssumption == MayExpire \in BOOLEAN /\ MayUnknown \in BOOLEAN

NoEntry == 0
Entries == 1 .. 2       \* per process: the stub or live one, and one after it
Shares == 0 .. Qty
NoTotal == 0            \* the machine did not take the fill

VARIABLES
    broker,     \* the order at KIS
    row,        \* orders: status and filled_qty
    fills,      \* fills: the shares on file for the row
    pnl,        \* shares whose realized P&L is in the day's risk row
    boot,       \* how far the process has started
    machine,    \* OrderStateMachine's record of the order
    bound,      \* the worker remembers the order's row id
    latched,    \* SAFE_MODE is latched for an unrecorded fill
    live,       \* the entry the poller tracks
    entry,      \* the poller's entries
    pipe,       \* the update being applied under the processing lock
    poll,       \* the poll thread
    pass,       \* the reconciler pass
    start,      \* the strategy start that restores the order
    crashes, passes, faults

durable == <<row, fills, pnl>>
worker == <<machine, bound, latched>>
poller == <<live, entry>>
counters == <<crashes, passes, faults>>
vars == <<broker, row, fills, pnl, boot, machine, bound, latched, live, entry,
          pipe, poll, pass, start, crashes, passes, faults>>

Answer == [status : BrokerStatus \cup {"unknown"}, filled : Shares]
Restorable == {"pending", "submitted", "partial_filled"}
NoAnswer == [status |-> "submitted", filled |-> 0]

Row == [status : Status, filled : Nat]
Machine == [known : BOOLEAN, status : Status, filled : Nat]
Entry == [mark : Nat, handler : {"full", "guarded", "stub"}, fired : BOOLEAN,
          seen : Status]
Pipe == [at : {"free", "guard", "stub", "machine", "pnl", "file", "settle"},
         by : {"poll", "pass"}, on : Entries, answer : Answer, inc : Shares,
         total : Nat, bound : BOOLEAN]
PollState == [at : {"idle", "held", "applying", "after"}, on : Entries, answer : Answer]
PassState == [at : {"idle", "ask", "sync", "held", "applying", "write"},
              attached : BOOLEAN, owned : BOOLEAN, was : Status, on : Entries,
              answer : Answer]
StartState == [at : {"idle", "machine", "poller"}, status : Status, filled : Nat]

\* A row may say more than the order's quantity: see the run that doubles fills.
TypeOK ==
    /\ broker \in [status : BrokerStatus, filled : Shares]
    /\ row \in Row
    /\ fills \in Nat /\ pnl \in Nat
    /\ boot \in {"reconcile", "checking", "register", "restore", "up"}
    /\ machine \in Machine
    /\ bound \in BOOLEAN /\ latched \in BOOLEAN
    /\ live \in Entries \cup {NoEntry}
    /\ entry \in [Entries -> Entry]
    /\ pipe \in Pipe
    /\ poll \in PollState
    /\ pass \in PassState
    /\ start \in StartState
    /\ crashes \in 0 .. MaxCrashes
    /\ passes \in 0 .. MaxPasses
    /\ faults \in 0 .. MaxFaults

FreshEntry(h, m) == [mark |-> m, handler |-> h, fired |-> FALSE, seen |-> "submitted"]
FreePipe == [at |-> "free", by |-> "poll", on |-> 1, answer |-> NoAnswer,
             inc |-> 0, total |-> NoTotal, bound |-> FALSE]
IdlePoll == [at |-> "idle", on |-> 1, answer |-> NoAnswer]
IdlePass == [at |-> "idle", attached |-> FALSE, owned |-> FALSE,
             was |-> "submitted", on |-> 1, answer |-> NoAnswer]
IdleStart == [at |-> "idle", status |-> "submitted", filled |-> 0]

\* A running strategy has just placed and registered the order.
Init ==
    /\ broker = [status |-> "submitted", filled |-> 0]
    /\ row = [status |-> "submitted", filled |-> 0]
    /\ fills = 0 /\ pnl = 0
    /\ boot = "up"
    /\ machine = [known |-> TRUE, status |-> "submitted", filled |-> 0]
    /\ bound = TRUE /\ latched = FALSE
    /\ live = 1
    /\ entry = [e \in Entries |-> FreshEntry("full", 0)]
    /\ pipe = FreePipe /\ poll = IdlePoll /\ pass = IdlePass /\ start = IdleStart
    /\ crashes = 0 /\ passes = 0 /\ faults = 0

(***************************************************************************)
(* The broker, and what a lookup answers                                   *)
(***************************************************************************)
BrokerFill ==
    /\ broker.status \notin Terminal
    /\ \E n \in broker.filled + 1 .. Qty :
          broker' = [status |-> IF n = Qty THEN "filled" ELSE "partial_filled",
                     filled |-> n]
    /\ UNCHANGED <<durable, boot, worker, poller, pipe, poll, pass, start, counters>>

BrokerClose ==
    /\ broker.status \notin Terminal
    /\ \E s \in Negative :
          /\ s = "rejected" => broker.filled = 0
          /\ broker' = [broker EXCEPT !.status = s]
    /\ UNCHANGED <<durable, boot, worker, poller, pipe, poll, pass, start, counters>>

\* Without a status string an order with nothing filled maps to UNKNOWN.
Lookup ==
    {broker} \cup
    {a \in {[status |-> "unknown", filled |-> 0]} :
        MayUnknown /\ broker.filled = 0 /\ broker.status = "submitted"}

\* One database transaction or lookup fails.
Fault == faults < MaxFaults /\ faults' = faults + 1
NoFault == UNCHANGED faults

(***************************************************************************)
(* Writing the row                                                         *)
(***************************************************************************)
RowOpen == row.status \in OpenStatus

\* _persist_order: only ever an open row; a closed one is another order's, and
\* a new row for this one repeats its idempotency key.  Swallows its failures.
WrittenAnyRow(m) == [status |-> m.status, filled |-> m.filled]
WrittenStatusOnly(m) == IF RowOpen THEN [row EXCEPT !.status = m.status] ELSE row
Written(m) == IF RowOpen THEN [status |-> m.status, filled |-> m.filled] ELSE row
Kept(m) == RowOpen /\ m.status \notin Negative

Persist(m) ==
    \/ NoFault /\ row' = Written(m) /\ bound' = Kept(m)
    \/ Fault /\ UNCHANGED <<row, bound>>

\* apply_terminal_event for a negative status: rejecting a partly filled order
\* voids the remainder; an invalid transition is swallowed.
Converge(s) ==
    LET to == IF s = "rejected" /\ machine.status = "partial_filled"
              THEN "canceled" ELSE s
        m == [machine EXCEPT !.status = to]
    IN  IF machine.known /\ to \in ValidTransitions[machine.status]
        THEN machine' = m /\ Persist(m)
        ELSE UNCHANGED <<machine, row, bound, faults>>

(***************************************************************************)
(* The poller: lookups, then one update at a time under the entry's lock   *)
(***************************************************************************)
PollRead ==
    /\ poll.at = "idle"
    /\ live # NoEntry
    /\ \E a \in Lookup : poll' = [at |-> "held", on |-> live, answer |-> a]
    /\ UNCHANGED <<broker, durable, boot, worker, poller, pipe, pass, start, counters>>

\* The thread that applied an update goes on with its own work.
Return(by, fill) ==
    IF by = "poll"
    THEN poll' = [poll EXCEPT !.at = IF MayExpire THEN "after" ELSE "idle"] /\ UNCHANGED pass
    ELSE pass' = [pass EXCEPT !.at = IF fill THEN "idle" ELSE "write"] /\ UNCHANGED poll

Applying(by) ==
    IF by = "poll"
    THEN poll' = [poll EXCEPT !.at = "applying"] /\ UNCHANGED pass
    ELSE pass' = [pass EXCEPT !.at = "applying"] /\ UNCHANGED poll

IsNewIfChanged(e, a) == a.filled # entry[e].mark
IsNew(e, a) == a.filled > entry[e].mark

\* A fill the watermark has not covered enters the callback of the entry.
BeginFill(by, e, a) ==
    /\ pipe.at = "free"
    /\ a.status \in {"partial_filled", "filled"}
    /\ IsNew(e, a)
    /\ pipe' = [at |-> CASE entry[e].handler = "stub" -> "stub"
                         [] entry[e].handler = "guarded" -> "guard"
                         [] OTHER -> "machine",
                by |-> by, on |-> e, answer |-> a,
                inc |-> a.filled - entry[e].mark, total |-> NoTotal, bound |-> FALSE]
    /\ entry' = [entry EXCEPT ![e].seen = a.status]
    /\ Applying(by)
    /\ UNCHANGED <<broker, durable, boot, worker, live, start, counters>>

\* Nothing to hand over; a filled order is forgotten.
BeginNothing(by, e, a) ==
    /\ pipe.at = "free"
    /\ a.status \notin Negative
    /\ ~IsNew(e, a)
    /\ live' = IF a.status = "filled" THEN NoEntry ELSE live
    /\ entry' = [entry EXCEPT ![e].seen = a.status]
    /\ Return(by, a.status \in {"partial_filled", "filled"})
    /\ UNCHANGED <<broker, durable, boot, worker, pipe, start, counters>>

\* A terminal answer: once per entry; the recovery stub has no callback for it.
BeginTerminal(by, e, a) ==
    /\ pipe.at = "free"
    /\ a.status \in Negative
    /\ entry' = [entry EXCEPT ![e].seen = a.status, ![e].fired = TRUE]
    /\ IF entry[e].fired
       THEN UNCHANGED <<live, machine, row, bound, faults>>
       ELSE /\ live' = NoEntry
            /\ IF entry[e].handler = "stub"
               THEN UNCHANGED <<machine, row, bound, faults>>
               ELSE Converge(a.status)
    /\ Return(by, FALSE)
    /\ UNCHANGED <<broker, fills, pnl, boot, latched, pipe, start, crashes, passes>>

Begin(by, e, a) ==
    BeginFill(by, e, a) \/ BeginNothing(by, e, a) \/ BeginTerminal(by, e, a)

PollApply == poll.at = "held" /\ Begin("poll", poll.on, poll.answer)
PassApply == pass.at = "held" /\ Begin("pass", pass.on, pass.answer)

\* The lookup left the order tracked: a timed-out order is canceled, and
\* closed even when the cancel fails.
PollTimeout ==
    /\ poll.at = "after"
    /\ pipe.at = "free"
    /\ live = poll.on
    /\ entry[poll.on].seen \notin Terminal
    /\ live' = NoEntry
    /\ broker' \in {broker} \cup
          (IF broker.status \in Terminal THEN {}
           ELSE {[broker EXCEPT !.status = "canceled"]})
    /\ IF entry[poll.on].handler = "stub"
       THEN UNCHANGED <<machine, row, bound, faults>>
       ELSE Converge("canceled")
    /\ poll' = [poll EXCEPT !.at = "idle"]
    /\ UNCHANGED <<fills, pnl, boot, latched, entry, pipe, pass, start, crashes, passes>>

PollIdle ==
    /\ poll.at = "after"
    /\ poll' = [poll EXCEPT !.at = "idle"]
    /\ UNCHANGED <<broker, durable, boot, worker, poller, pipe, pass, start, counters>>

(***************************************************************************)
(* The fill callback, step by step                                         *)
(***************************************************************************)
PipeGoto(to) == pipe' = [pipe EXCEPT !.at = to]
Total == pipe.answer.filled     \* cumulative_filled_qty

\* A restored order's callback reads the row first.  A filled row, or a row
\* that cannot be read, skips the pipeline.
StepGuard ==
    /\ pipe.at = "guard"
    /\ \/ NoFault /\ PipeGoto(IF row.status = "filled" THEN "settle" ELSE "machine")
       \/ Fault /\ PipeGoto("settle")
    /\ UNCHANGED <<broker, durable, boot, worker, poller, poll, pass, start, crashes, passes>>

\* The recovery stub: row and fill in one transaction, accumulating.
StepStub ==
    /\ pipe.at = "stub"
    /\ \/ /\ NoFault
          /\ row' = [status |-> pipe.answer.status, filled |-> row.filled + pipe.inc]
          /\ fills' = fills + pipe.inc
          /\ UNCHANGED latched
       \/ /\ Fault
          /\ latched' = TRUE
          /\ UNCHANGED <<row, fills>>
    /\ PipeGoto("settle")
    /\ UNCHANGED <<broker, pnl, boot, machine, bound, poller, poll, pass, start,
                   crashes, passes>>

\* 1. process_fill and the row write it triggers, then which row this fill
\* belongs to.  The quantity is added before the transition is checked.
Takes == machine.known /\ machine.filled + pipe.inc <= Qty
Filled == machine.filled + pipe.inc
FillStatus == IF Filled = Qty THEN "filled" ELSE "partial_filled"
FillAllowed ==
    FillStatus = machine.status \/ FillStatus \in ValidTransitions[machine.status]

\* Remember which row to file under; an order now filled is forgotten.
Bind(b, status) ==
    /\ pipe' = [pipe EXCEPT !.at = "pnl", !.bound = b,
                            !.total = IF Takes /\ FillAllowed THEN Filled ELSE NoTotal]
    /\ bound' = (b /\ status # "filled")

StepMachine ==
    /\ pipe.at = "machine"
    /\ IF Takes
       THEN LET m == [machine EXCEPT !.filled = Filled,
                                     !.status = IF FillAllowed THEN FillStatus ELSE @]
            IN  /\ machine' = m
                /\ \/ /\ FillAllowed
                      /\ \/ NoFault /\ row' = Written(m) /\ Bind(Kept(m), m.status)
                         \/ Fault /\ UNCHANGED row /\ Bind(bound, m.status)
                   \/ ~FillAllowed /\ NoFault /\ UNCHANGED row /\ Bind(bound, m.status)
       ELSE /\ NoFault /\ UNCHANGED <<machine, row>>
            /\ Bind(bound, IF machine.known THEN machine.status ELSE pipe.answer.status)
    /\ UNCHANGED <<broker, fills, pnl, boot, latched, poller, poll, pass, start,
                   crashes, passes>>

\* 2. and 3. the tracker, and the realized P&L of a sell in the day's row.
StepPnl ==
    /\ pipe.at = "pnl"
    /\ \/ NoFault /\ pnl' = pnl + pipe.inc
       \/ Fault /\ UNCHANGED pnl
    /\ PipeGoto("file")
    /\ UNCHANGED <<broker, row, fills, boot, worker, poller, poll, pass, start,
                   crashes, passes>>

\* 4. _persist_fill: file what the broker's total says is missing.  A fill
\* with no row to file it under, or whose write fails, latches SAFE_MODE.
HasRow == pipe.bound \/ RowOpen

AlreadyFiledIfAny == fills > 0
AlreadyFiled == fills >= Total

RowTotalAdded == row.filled + pipe.inc
RowTotal == IF pipe.total = NoTotal THEN Total ELSE pipe.total

ReportNothing == UNCHANGED latched
ReportFailure == latched' = TRUE

StepFile ==
    /\ pipe.at = "file"
    /\ \/ NoFault /\ AlreadyFiled /\ UNCHANGED <<fills, row, latched>>
       \/ /\ NoFault /\ ~AlreadyFiled /\ HasRow
          /\ fills' = Total
          /\ row' = [status |-> pipe.answer.status, filled |-> RowTotal]
          /\ UNCHANGED latched
       \/ /\ \/ Fault
             \/ NoFault /\ ~AlreadyFiled /\ ~HasRow
          /\ ReportFailure
          /\ UNCHANGED <<fills, row>>
    /\ PipeGoto("settle")
    /\ UNCHANGED <<broker, pnl, boot, machine, bound, poller, poll, pass, start,
                   crashes, passes>>

\* The callback returned: the watermark moves and a filled order is forgotten.
Settle ==
    /\ pipe.at = "settle"
    /\ entry' = [entry EXCEPT ![pipe.on].mark = Total]
    /\ live' = IF pipe.answer.status = "filled" THEN NoEntry ELSE live
    /\ pipe' = FreePipe
    /\ Return(pipe.by, TRUE)
    /\ UNCHANGED <<broker, durable, boot, worker, start, counters>>

(***************************************************************************)
(* The reconciler's order pass                                             *)
(***************************************************************************)
\* The open rows are read first.  The market-open pass has the poller, the
\* scheduler's and the post-recovery ones do not.
PassStart ==
    /\ pass.at = "idle"
    /\ boot \in {"restore", "up"}
    /\ RowOpen
    /\ passes < MaxPasses
    /\ passes' = passes + 1
    /\ \E a \in BOOLEAN :
          /\ a => boot = "up"
          /\ pass' = [IdlePass EXCEPT !.at = "ask", !.attached = a, !.was = row.status]
    /\ UNCHANGED <<broker, durable, boot, worker, poller, pipe, poll, start, crashes, faults>>

\* An error in the recovery's own pass fails the recovery: no stubs.
FailBoot == boot' = IF boot = "checking" THEN "restore" ELSE boot

PassAsk ==
    /\ pass.at = "ask"
    /\ \/ /\ NoFault
          /\ \E a \in Lookup :
                pass' = IF a.status = pass.was THEN IdlePass
                        ELSE [pass EXCEPT !.at = "sync", !.answer = a]
          /\ UNCHANGED boot
       \/ /\ Fault
          /\ pass' = IdlePass
          /\ FailBoot
    /\ UNCHANGED <<broker, durable, worker, poller, pipe, poll, start, crashes, passes>>

\* resync(): through the pipeline if the poller tracks the order.
PassSync ==
    /\ pass.at = "sync"
    /\ pass' = IF pass.attached /\ live # NoEntry
               THEN [pass EXCEPT !.at = "held", !.owned = TRUE, !.on = live]
               ELSE [pass EXCEPT !.at = "write"]
    /\ UNCHANGED <<broker, durable, boot, worker, poller, pipe, poll, start, counters>>

\* Otherwise the row takes the broker's answer; a first FILLED is filed whole,
\* unless the row has any fill already.
NoFillCheck == TRUE
NoFillYet == fills = 0

PassWrite ==
    /\ pass.at = "write"
    /\ \/ /\ NoFault
          /\ row' = [status |-> pass.answer.status, filled |-> pass.answer.filled]
          /\ fills' = IF ~pass.owned /\ pass.answer.status = "filled"
                         /\ row.status # "filled" /\ NoFillYet
                      THEN fills + pass.answer.filled ELSE fills
          /\ UNCHANGED boot
       \/ Fault /\ FailBoot /\ UNCHANGED <<row, fills>>
    /\ pass' = IdlePass
    /\ UNCHANGED <<broker, pnl, worker, poller, pipe, poll, start, crashes, passes>>

(***************************************************************************)
(* A crash, StartupRecovery, and the strategy start after it               *)
(***************************************************************************)
Crash ==
    /\ crashes < MaxCrashes
    /\ crashes' = crashes + 1
    /\ boot' = "reconcile"
    /\ machine' = [known |-> FALSE, status |-> "pending", filled |-> 0]
    /\ bound' = FALSE /\ latched' = FALSE /\ live' = NoEntry
    /\ entry' = [e \in Entries |-> FreshEntry("stub", 0)]
    /\ pipe' = FreePipe /\ poll' = IdlePoll /\ pass' = IdlePass /\ start' = IdleStart
    /\ UNCHANGED <<broker, durable, passes, faults>>

\* Step 6: a pass of its own, without the poller.
BootReconcile ==
    /\ boot = "reconcile"
    /\ boot' = "checking"
    /\ pass' = IF RowOpen THEN [IdlePass EXCEPT !.at = "ask", !.was = row.status]
               ELSE IdlePass
    /\ UNCHANGED <<broker, durable, worker, poller, pipe, poll, start, counters>>

BootReconciled ==
    /\ boot = "checking"
    /\ pass.at = "idle"
    /\ boot' = "register"
    /\ UNCHANGED <<broker, durable, worker, poller, pipe, poll, pass, start, counters>>

\* initial_reported_qty: the filled_qty of the row.
SeedNothing == 0
Seed == row.filled

\* Step 7: a still-open order is registered with the recovery stub.
BootRegister ==
    /\ boot = "register"
    /\ boot' = "restore"
    /\ IF row.status \in Restorable
       THEN live' = 1 /\ entry' = [entry EXCEPT ![1] = FreshEntry("stub", Seed)]
       ELSE UNCHANGED poller
    /\ UNCHANGED <<broker, durable, worker, pipe, poll, pass, start, counters>>

\* _restore_pending_to_tracker: read the row ...
StartRead ==
    /\ boot = "restore"
    /\ start.at = "idle"
    /\ IF row.status \in Restorable
       THEN /\ start' = [at |-> "machine", status |-> row.status, filled |-> row.filled]
            /\ bound' = TRUE
            /\ UNCHANGED boot
       ELSE boot' = "up" /\ UNCHANGED <<start, bound>>
    /\ UNCHANGED <<broker, durable, machine, latched, poller, pipe, poll, pass, counters>>

\* ... register it with the new state machine, which writes the row ...
StartMachine ==
    /\ start.at = "machine"
    /\ LET m == [known |-> TRUE, status |-> start.status, filled |-> start.filled]
       IN  machine' = m /\ Persist(m)
    /\ start' = [start EXCEPT !.at = "poller"]
    /\ UNCHANGED <<broker, fills, pnl, boot, latched, poller, pipe, poll, pass,
                   crashes, passes>>

\* ... and with the poller: over the stub's entry, or a new one.
StartPoller ==
    /\ start.at = "poller"
    /\ \/ /\ live = NoEntry
          /\ live' = 2
          /\ entry' = [entry EXCEPT ![2] = FreshEntry("guarded", start.filled)]
       \/ /\ live # NoEntry
          /\ pipe.at = "free"
          /\ entry' = [entry EXCEPT ![live].handler = "guarded", ![live].seen = start.status,
                          ![live].mark = IF @ >= start.filled THEN @ ELSE start.filled]
          /\ UNCHANGED live
    /\ start' = IdleStart
    /\ boot' = "up"
    /\ UNCHANGED <<broker, durable, worker, pipe, poll, pass, counters>>

Pipeline == StepGuard \/ StepStub \/ StepMachine \/ StepPnl \/ StepFile \/ Settle
Poll == PollRead \/ PollApply \/ PollTimeout \/ PollIdle
Pass == PassStart \/ PassAsk \/ PassSync \/ PassApply \/ PassWrite
Boot == BootReconcile \/ BootReconciled \/ BootRegister \/ StartRead
            \/ StartMachine \/ StartPoller

Next == BrokerFill \/ BrokerClose \/ Pipeline \/ Poll \/ Pass \/ Boot \/ Crash

Spec == Init /\ [][Next]_vars

(***************************************************************************)
(* Properties                                                              *)
(***************************************************************************)
\* The fills on file never add up to more than the broker filled: not through
\* passes in a process that did not crash, and not through a crash no later
\* pass meets.
FillsWithinBroker == passes = 0 \/ crashes = 0 => fills <= broker.filled

\* Nothing but the fill pipeline has worked on the order's row.
Undisturbed == passes = 0 /\ crashes = 0

\* No share's realized P&L is recorded twice (PHILOSOPHY 5.1), a crash in any
\* step included, as long as the database takes the worker's writes.
PnlOnce == faults = 0 /\ (passes = 0 \/ crashes = 0) => pnl <= broker.filled

\* A row that says filled has fills for all of it once nothing is left to
\* deliver, or SAFE_MODE says a fill is unrecorded.
AtRest == live = NoEntry /\ pipe.at = "free" /\ pass.at = "idle" /\ boot = "up"
FilledRowIsFiled == row.status = "filled" /\ AtRest => fills = Qty \/ latched
FilledIsFiled == Undisturbed => FilledRowIsFiled

\* Between two updates the worker's books agree: the machine's total, the
\* fills, the row, the day's P&L and the watermark all cover the same shares.
BooksAgree ==
    Undisturbed /\ faults = 0 /\ pipe.at = "free" =>
        /\ machine.filled = fills
        /\ pnl = fills
        /\ row.filled = fills
        /\ entry[1].mark = fills

\* A closed row is never opened again (VALID_TRANSITIONS), unless a pass holds
\* a broker answer from before.
ClosedStaysClosed ==
    [][passes = 0 /\ row.status \in Terminal => row'.status \in Terminal]_vars

\* In one process the shares the watermark covers are on file, or SAFE_MODE is
\* latched.
HandedIsFiled ==
    \A e \in Entries : crashes = 0 /\ pipe.at = "free" => fills >= entry[e].mark \/ latched

\* What the poller has handed over and what a row says is filled is on file,
\* whichever of the four transactions of a fill failed, or SAFE_MODE is latched.
FillsOnFile == HandedIsFiled /\ FilledIsFiled

\* The books of one order agree with each other, and its P&L with the broker.
AccountsAgree == BooksAgree /\ PnlOnce
=============================================================================
