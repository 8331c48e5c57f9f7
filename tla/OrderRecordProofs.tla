---- MODULE OrderRecordProofs ----
(***************************************************************************)
(* The order's books, for every order size and every bound on crashes,     *)
(* reconciler passes and faults: type correctness, the fills on file       *)
(* against the broker's and against the row, the worker's books against    *)
(* each other, and that a closed row stays closed.  The inductive          *)
(* invariant has one part per era of the order's life: no crash yet, no    *)
(* reconciler pass yet, neither, and neither with no fault.                *)
(* Then sums over finite sets, and with them the losses of day and week    *)
(* that the limits are measured by: what tracker, rows and Redis say of    *)
(* them, and what a release accepted (LossWindow).                         *)
(***************************************************************************)
EXTENDS OrderRecord, LossWindow, Integers, FiniteSetTheorems, SequenceTheorems, NaturalsInduction,
        WellFoundedInduction, TLAPS

LEMMA IdleTypes ==
    /\ FreePipe \in Pipe /\ IdlePoll \in PollState /\ IdlePass \in PassState
    /\ IdleStart \in StartState
    /\ \A h \in {"full", "guarded", "stub"}, m \in Nat : FreshEntry(h, m) \in Entry
  <1> USE QtyAssumption
  <1>1. NoAnswer \in Answer /\ 1 \in Entries /\ "submitted" \in Status
    BY DEF NoAnswer, Answer, BrokerStatus, Shares, Entries, Status, OpenStatus
  <1>2. FreePipe \in Pipe
    BY <1>1 DEF FreePipe, Pipe, NoTotal, Shares
  <1>3. IdlePoll \in PollState /\ IdlePass \in PassState /\ IdleStart \in StartState
    BY <1>1 DEF IdlePoll, IdlePass, IdleStart, PollState, PassState, StartState
  <1>4. \A h \in {"full", "guarded", "stub"}, m \in Nat : FreshEntry(h, m) \in Entry
    BY <1>1 DEF FreshEntry, Entry
  <1> QED BY <1>2, <1>3, <1>4

LEMMA StatusTypes ==
    /\ BrokerStatus \subseteq Status /\ OpenStatus \subseteq Status
    /\ Terminal \subseteq Status /\ Negative \subseteq BrokerStatus
    /\ Restorable \subseteq Status /\ "unknown" \in Status
  BY DEF BrokerStatus, Status, OpenStatus, Terminal, Negative, Restorable

LEMMA InitType == Init => TypeOK
  <1> SUFFICES ASSUME Init PROVE TypeOK
    OBVIOUS
  <1> USE QtyAssumption, BoundAssumption DEF Init
  <1>1. broker \in [status : BrokerStatus, filled : Shares]
        /\ row \in Row
    BY DEF BrokerStatus, Status, OpenStatus, Terminal, Negative, Shares, Row
  <1>2. fills \in Nat /\ pnl \in Nat /\ bound \in BOOLEAN /\ latched \in BOOLEAN
        /\ boot \in {"reconcile", "checking", "register", "restore", "up"}
    OBVIOUS
  <1>3. machine \in Machine
    BY DEF Status, OpenStatus, Machine
  <1>4. live \in Entries \cup {NoEntry}
    BY DEF Entries
  <1>5. /\ entry \in [Entries -> Entry]
        /\ pipe \in Pipe /\ poll \in PollState /\ pass \in PassState
        /\ start \in StartState
    BY IdleTypes
  <1>10. /\ crashes \in 0 .. MaxCrashes
         /\ passes \in 0 .. MaxPasses
         /\ faults \in 0 .. MaxFaults
    OBVIOUS
  <1> QED BY <1>1, <1>2, <1>3, <1>4, <1>5, <1>10 DEF TypeOK

LEMMA LookupType == ASSUME TypeOK PROVE Lookup \subseteq Answer
  BY QtyAssumption DEF TypeOK, Lookup, Answer, Shares

LEMMA FaultType == ASSUME TypeOK, Fault \/ NoFault PROVE faults' \in 0 .. MaxFaults
  BY BoundAssumption DEF TypeOK, Fault, NoFault

LEMMA WrittenType == ASSUME TypeOK, NEW m \in Machine PROVE Written(m) \in Row
  BY DEF TypeOK, Written, Row, Machine

LEMMA PersistTypes ==
    ASSUME TypeOK, NEW m \in Machine, Persist(m)
    PROVE  row' \in Row /\ bound' \in BOOLEAN /\ faults' \in 0 .. MaxFaults
  BY WrittenType, FaultType DEF Persist, TypeOK, Kept

LEMMA ConvergeTypes ==
    ASSUME TypeOK, NEW s \in Negative, \/ Converge(s)
                                       \/ UNCHANGED <<machine, row, bound, faults>>
    PROVE  /\ machine' \in Machine /\ row' \in Row
           /\ bound' \in BOOLEAN /\ faults' \in 0 .. MaxFaults
  <1>1. CASE UNCHANGED <<machine, row, bound, faults>>
    BY <1>1 DEF TypeOK
  <1>2. ASSUME NEW to \in Status, machine' = [machine EXCEPT !.status = to],
               Persist([machine EXCEPT !.status = to])
        PROVE  /\ machine' \in Machine /\ row' \in Row
               /\ bound' \in BOOLEAN /\ faults' \in 0 .. MaxFaults
    <2>1. [machine EXCEPT !.status = to] \in Machine
      BY DEF TypeOK, Machine
    <2> QED BY <1>2, <2>1, PersistTypes
  <1>3. s \in Status /\ "canceled" \in Status
    BY StatusTypes DEF Negative
  <1> QED BY <1>1, <1>2, <1>3 DEF Converge

LEMMA ReturnTypes ==
    ASSUME TypeOK, NEW by, NEW fill, Return(by, fill)
    PROVE  poll' \in PollState /\ pass' \in PassState
  BY DEF TypeOK, Return, PollState, PassState

LEMMA BeginTypes ==
    ASSUME TypeOK, NEW by \in {"poll", "pass"}, NEW e \in Entries, NEW a \in Answer,
           Begin(by, e, a)
    PROVE  TypeOK'
  <1> USE DEF TypeOK, durable, worker, poller, counters
  <1>0. a.status \in Status /\ a.filled \in Shares /\ entry[e] \in Entry
    BY StatusTypes DEF Answer
  <1>1. CASE BeginFill(by, e, a)
    <2>1. pipe' \in Pipe
      BY <1>0, <1>1, QtyAssumption DEF BeginFill, IsNew, Pipe, Entry, Shares, NoTotal
    <2>2. entry' \in [Entries -> Entry]
      BY <1>0, <1>1 DEF BeginFill, Entry
    <2>3. poll' \in PollState /\ pass' \in PassState
      BY <1>1 DEF BeginFill, Applying, PollState, PassState
    <2> QED BY <1>1, <2>1, <2>2, <2>3 DEF BeginFill
  <1>2. CASE BeginNothing(by, e, a)
    <2>1. entry' \in [Entries -> Entry]
      BY <1>0, <1>2 DEF BeginNothing, Entry
    <2> QED BY <1>2, <2>1, ReturnTypes DEF BeginNothing
  <1>3. CASE BeginTerminal(by, e, a)
    <2>1. entry' \in [Entries -> Entry]
      BY <1>0, <1>3 DEF BeginTerminal, Entry
    <2>2. machine' \in Machine /\ row' \in Row /\ bound' \in BOOLEAN
          /\ faults' \in 0 .. MaxFaults
      BY <1>3, ConvergeTypes DEF BeginTerminal
    <2> QED BY <1>3, <2>1, <2>2, ReturnTypes DEF BeginTerminal
  <1> QED BY <1>1, <1>2, <1>3 DEF Begin

LEMMA NextType == TypeOK /\ [Next]_vars => TypeOK'
  <1> SUFFICES ASSUME TypeOK, [Next]_vars PROVE TypeOK'
    OBVIOUS
  <1> USE DEF TypeOK, durable, worker, poller, counters, NoFault
  <1>0. Fault => faults' \in 0 .. MaxFaults
    BY BoundAssumption DEF Fault
  <1>1. CASE BrokerFill
    BY <1>1, QtyAssumption DEF BrokerFill, BrokerStatus, Terminal, Shares
  <1>2. CASE BrokerClose
    BY <1>2 DEF BrokerClose, BrokerStatus, Terminal
  <1>3. CASE StepGuard
    BY <1>0, <1>3 DEF StepGuard, PipeGoto, Pipe
  <1>4. CASE StepStub
    <2>1. pipe' \in Pipe
      BY <1>4 DEF StepStub, PipeGoto, Pipe
    <2>2. row' \in Row /\ fills' \in Nat
      BY <1>4, QtyAssumption
      DEF StepStub, Pipe, Row, Shares, Answer, Status, BrokerStatus, OpenStatus, Terminal
    <2> QED BY <1>0, <1>4, <2>1, <2>2 DEF StepStub
  <1>6. CASE StepPnl
    <2>1. pipe' \in Pipe /\ pnl' \in Nat
      BY <1>6, QtyAssumption DEF StepPnl, PipeGoto, Pipe, Shares
    <2> QED BY <1>0, <1>6, <2>1 DEF StepPnl
  <1>7. CASE StepFile
    <2>1. pipe' \in Pipe
      BY <1>7 DEF StepFile, PipeGoto, Pipe
    <2>2. row' \in Row /\ fills' \in Nat
      BY <1>7, QtyAssumption
      DEF StepFile, RowTotal, Total, Pipe, Row, Shares, Answer, Status, BrokerStatus,
          OpenStatus, Terminal
    <2>3. faults' \in 0 .. MaxFaults /\ latched' \in BOOLEAN
      BY <1>0, <1>7 DEF StepFile, ReportFailure
    <2> QED BY <1>7, <2>1, <2>2, <2>3 DEF StepFile
  <1>8. CASE Settle
    <2>1. entry' \in [Entries -> Entry] /\ live' \in Entries \cup {NoEntry}
      BY <1>8, QtyAssumption DEF Settle, Total, Pipe, Entry, Answer, Shares
    <2>2. pipe' \in Pipe
      BY <1>8, IdleTypes DEF Settle
    <2>3. poll' \in PollState /\ pass' \in PassState
      BY <1>8 DEF Settle, Return, PollState, PassState
    <2> QED BY <1>8, <2>1, <2>2, <2>3 DEF Settle
  <1>9. CASE PollRead
    <2>1. poll' \in PollState
      BY <1>9, LookupType DEF PollRead, PollState
    <2> QED BY <1>9, <2>1 DEF PollRead
  <1>13. CASE PollIdle
    BY <1>13 DEF PollIdle, PollState
  <1>14. CASE PassStart
    <2>1. pass' \in PassState
      BY <1>14, IdleTypes DEF PassStart, PassState, Row
    <2>2. passes' \in 0 .. MaxPasses
      BY <1>14, BoundAssumption DEF PassStart
    <2> QED BY <1>14, <2>1, <2>2 DEF PassStart
  <1>16. CASE PassSync
    BY <1>16 DEF PassSync, PassState
  <1>19. CASE BootReconcile
    <2>1. pass' \in PassState
      BY <1>19, IdleTypes DEF BootReconcile, PassState, Row
    <2> QED BY <1>19, <2>1 DEF BootReconcile
  <1>20. CASE BootReconciled
    BY <1>20 DEF BootReconciled
  <1>21. CASE BootRegister
    <2>1. row.filled \in Nat /\ 1 \in Entries
      BY DEF Entries, Row
    <2>2. entry' \in [Entries -> Entry] /\ live' \in Entries \cup {NoEntry}
      BY <1>21, <2>1, IdleTypes DEF BootRegister, Seed
    <2> QED BY <1>21, <2>2 DEF BootRegister
  <1>22. CASE StartRead
    <2>1. start' \in StartState /\ bound' \in BOOLEAN
      <3>1. CASE row.status \in Restorable
        BY <1>22, <3>1, StatusTypes DEF StartRead, StartState, Row
      <3>2. CASE row.status \notin Restorable
        BY <1>22, <3>2 DEF StartRead
      <3> QED BY <3>1, <3>2
    <2> QED BY <1>22, <2>1 DEF StartRead
  <1>24. CASE StartPoller
    <2>1. start.filled \in Nat /\ start.status \in Status /\ 2 \in Entries
      BY DEF StartState, Entries
    <2>2. CASE live = NoEntry
      BY <1>24, <2>1, <2>2, IdleTypes DEF StartPoller
    <2>3. CASE live # NoEntry
      <3>1. entry[live] \in Entry /\ entry[live].mark \in Nat
        BY <2>3 DEF Entry
      <3>2. entry' \in [Entries -> Entry] /\ live' = live
        BY <1>24, <2>1, <2>3, <3>1 DEF StartPoller, Entry
      <3> QED BY <1>24, <3>2, IdleTypes DEF StartPoller
    <2> QED BY <2>2, <2>3
  <1>18. CASE Crash
    <2>1. crashes' \in 0 .. MaxCrashes
      BY <1>18, BoundAssumption DEF Crash
    <2>2. machine' \in Machine
      BY <1>18 DEF Crash, Status, OpenStatus, Machine
    <2>3. entry' \in [Entries -> Entry]
      BY <1>18, IdleTypes DEF Crash
    <2> QED BY <1>18, <2>1, <2>2, <2>3, IdleTypes DEF Crash
  <1>17. CASE PassWrite
    <2>1. row' \in Row /\ fills' \in Nat
      BY <1>17, StatusTypes, QtyAssumption DEF PassWrite, PassState, Answer, Shares, Row
    <2>2. boot' \in {"reconcile", "checking", "register", "restore", "up"}
          /\ faults' \in 0 .. MaxFaults
      BY <1>0, <1>17 DEF PassWrite, FailBoot
    <2> QED BY <1>17, <2>1, <2>2, IdleTypes DEF PassWrite
  <1>15. CASE PassAsk
    <2>1. pass' \in PassState
      <3>1. CASE Fault /\ pass' = IdlePass
        BY <3>1, IdleTypes
      <3>2. ASSUME NEW a \in Lookup,
                   pass' = IF a.status = pass.was THEN IdlePass
                           ELSE [pass EXCEPT !.at = "sync", !.answer = a]
            PROVE  pass' \in PassState
        <4>1. a \in Answer
          BY LookupType
        <4> QED BY <3>2, <4>1, IdleTypes DEF PassState
      <3> QED BY <1>15, <3>1, <3>2 DEF PassAsk
    <2>2. boot' \in {"reconcile", "checking", "register", "restore", "up"}
          /\ faults' \in 0 .. MaxFaults
      BY <1>0, <1>15 DEF PassAsk, FailBoot
    <2> QED BY <1>15, <2>1, <2>2 DEF PassAsk
  <1>5. CASE StepMachine
    <2> DEFINE m == [machine EXCEPT !.filled = Filled,
                                    !.status = IF FillAllowed THEN FillStatus ELSE @]
    <2>1. Filled \in Nat
      BY QtyAssumption DEF Filled, Pipe, Machine, Shares
    <2>2. FillStatus \in Status
      BY DEF FillStatus, Status, OpenStatus, Terminal
    <2>3. m \in Machine
      BY <2>1, <2>2 DEF Machine
    <2>4. machine' \in Machine
      BY <1>5, <2>3 DEF StepMachine
    <2>5. row' \in Row
      BY <1>5, <2>3, WrittenType DEF StepMachine
    <2>6. Kept(m) \in BOOLEAN
      BY DEF Kept
    <2>7. PICK b, st : b \in BOOLEAN /\ Bind(b, st)
      BY <1>5, <2>6 DEF StepMachine
    <2>8. pipe' \in Pipe /\ bound' \in BOOLEAN
      <3>1. bound' \in BOOLEAN
        BY <2>7 DEF Bind
      <3>2. (IF Takes /\ FillAllowed THEN Filled ELSE NoTotal) \in Nat
        BY <2>1 DEF NoTotal
      <3> QED BY <2>7, <3>1, <3>2 DEF Bind, Pipe
    <2>9. faults' \in 0 .. MaxFaults
      BY <1>0, <1>5 DEF StepMachine
    <2> QED BY <1>5, <2>4, <2>5, <2>8, <2>9 DEF StepMachine
  <1>10. CASE PollApply
    <2>1. poll.on \in Entries /\ poll.answer \in Answer
      BY DEF PollState
    <2> QED BY <1>10, <2>1, BeginTypes DEF PollApply
  <1>11. CASE PassApply
    <2>1. pass.on \in Entries /\ pass.answer \in Answer
      BY DEF PassState
    <2> QED BY <1>11, <2>1, BeginTypes DEF PassApply
  <1>12. CASE PollTimeout
    <2>1. broker' \in [status : BrokerStatus, filled : Shares]
      BY <1>12, StatusTypes DEF PollTimeout, Negative
    <2>2. machine' \in Machine /\ row' \in Row /\ bound' \in BOOLEAN
          /\ faults' \in 0 .. MaxFaults
      BY <1>12, ConvergeTypes DEF PollTimeout, Negative
    <2>3. poll' \in PollState
      BY <1>12 DEF PollTimeout, PollState
    <2> QED BY <1>12, <2>1, <2>2, <2>3 DEF PollTimeout
  <1>23. CASE StartMachine
    <2>1. [known |-> TRUE, status |-> start.status, filled |-> start.filled] \in Machine
      BY DEF StartState, Machine
    <2>2. machine' \in Machine /\ row' \in Row /\ bound' \in BOOLEAN
          /\ faults' \in 0 .. MaxFaults
      BY <1>23, <2>1, PersistTypes DEF StartMachine
    <2>3. start' \in StartState
      BY <1>23 DEF StartMachine, StartState
    <2> QED BY <1>23, <2>2, <2>3 DEF StartMachine
  <1>25. CASE UNCHANGED vars
    BY <1>25 DEF vars
  <1> QED
    BY <1>1, <1>2, <1>3, <1>4, <1>5, <1>6, <1>7, <1>8, <1>9, <1>10, <1>11, <1>12, <1>13,
       <1>14, <1>15, <1>16, <1>17, <1>18, <1>19, <1>20, <1>21, <1>22, <1>23, <1>24, <1>25
    DEF Next, Pipeline, Poll, Pass, Boot

\* Every variable of the order's life keeps its type, through any number of
\* crashes, reconciler passes and faults.
THEOREM TypeCorrect == Spec => []TypeOK
  BY InitType, NextType, PTL DEF Spec

(***************************************************************************)
(* A process that never crashes                                            *)
(***************************************************************************)
\* Nothing of a restart is ever seen: one entry, with the strategy's callback.
Steady ==
    /\ boot = "up" /\ start.at = "idle"
    /\ live \in {1, NoEntry} /\ poll.on = 1 /\ pass.on = 1 /\ pipe.on = 1
    /\ entry[1].handler = "full"
    /\ pipe.at \notin {"guard", "stub"}

\* An answer once given is never more than the broker has filled since, and a
\* fill in the pipeline carries what the watermark does not cover.
Answered ==
    /\ poll.answer.filled <= broker.filled
    /\ pass.answer.filled <= broker.filled
    /\ pipe.answer.filled <= broker.filled
    /\ entry[1].mark <= broker.filled
    /\ pipe.at # "free" => pipe.answer.filled = entry[1].mark + pipe.inc

\* P&L runs ahead of the watermark only between its own step and the end of
\* the callback, and then by the fill the callback was given.
Counted ==
    /\ fills <= broker.filled
    /\ pnl <= IF pipe.at \in {"file", "settle"} THEN pipe.answer.filled ELSE entry[1].mark

Uninterrupted == TypeOK /\ Steady /\ Answered /\ Counted

LEMMA IdleFields ==
    /\ FreePipe.at = "free" /\ FreePipe.on = 1 /\ FreePipe.answer.filled = 0
    /\ IdlePoll.on = 1 /\ IdlePoll.answer.filled = 0
    /\ IdlePass.on = 1 /\ IdlePass.answer.filled = 0
  BY DEF FreePipe, IdlePoll, IdlePass, NoAnswer

LEMMA InitUninterrupted == Init => Uninterrupted
  <1> SUFFICES ASSUME Init PROVE Steady /\ Answered /\ Counted
    BY InitType DEF Uninterrupted
  <1>1. entry[1] = FreshEntry("full", 0)
    BY DEF Init, Entries
  <1>2. entry[1].handler = "full" /\ entry[1].mark = 0
    BY <1>1 DEF FreshEntry
  <1> QED BY <1>2, IdleFields DEF Init, Steady, Answered, Counted, IdleStart

\* What the steps of such a process are.
LEMMA Running ==
    ASSUME Uninterrupted, [Next]_vars, crashes' = 0
    PROVE  \/ BrokerFill \/ BrokerClose \/ StepMachine \/ StepPnl \/ StepFile \/ Settle
           \/ Poll \/ Pass \/ UNCHANGED vars
  <1> USE DEF Uninterrupted, Steady
  <1>1. ~StepGuard /\ ~StepStub
    BY DEF StepGuard, StepStub
  <1>2. ~Crash
    BY DEF Crash, TypeOK
  <1>3. ~Boot
    BY DEF Boot, BootReconcile, BootReconciled, BootRegister, StartRead, StartMachine,
           StartPoller
  <1> QED BY <1>1, <1>2, <1>3 DEF Next, Pipeline

LEMMA Numbers ==
    ASSUME TypeOK
    PROVE  /\ broker.filled \in Nat /\ fills \in Nat /\ pnl \in Nat
           /\ poll.answer.filled \in Nat /\ pass.answer.filled \in Nat
           /\ pipe.answer.filled \in Nat /\ pipe.inc \in Nat
           /\ entry \in [Entries -> Entry] /\ 1 \in Entries
           /\ entry[1] \in Entry /\ entry[1].mark \in Nat
  <1>1. pipe.answer \in Answer /\ poll.answer \in Answer /\ pass.answer \in Answer
        /\ pipe.inc \in Nat
    BY QtyAssumption DEF TypeOK, Pipe, PollState, PassState, Shares
  <1>2. entry \in [Entries -> Entry] /\ 1 \in Entries
    BY DEF TypeOK, Entries
  <1>3. entry[1] \in Entry /\ entry[1].mark \in Nat
    BY <1>2 DEF Entry
  <1>4. broker.filled \in Nat
    BY QtyAssumption DEF TypeOK, Shares
  <1> QED BY <1>1, <1>2, <1>3, <1>4, QtyAssumption DEF TypeOK, Answer, Shares

LEMMA LookupKnown ==
    ASSUME TypeOK, NEW a \in Lookup PROVE a \in Answer /\ a.filled <= broker.filled
  BY LookupType, Numbers DEF Lookup

\* Applying an answer the broker gave, to the one entry there is.
LEMMA BeginKeeps ==
    ASSUME Uninterrupted, NEW by \in {"poll", "pass"}, NEW a \in Answer,
           a.filled <= broker.filled, Begin(by, 1, a)
    PROVE  Steady' /\ Answered' /\ Counted'
  <1> USE Numbers DEF Uninterrupted
  <1>0. a.filled \in Nat /\ pipe.at = "free"
    <2>1. a.filled \in Nat
      BY QtyAssumption DEF Answer, Shares
    <2>2. pipe.at = "free"
      BY DEF Begin, BeginFill, BeginNothing, BeginTerminal
    <2> QED BY <2>1, <2>2
  <1>1. poll'.on = poll.on /\ poll'.answer = poll.answer
        /\ pass'.on = pass.on /\ pass'.answer = pass.answer
    <2>1. Applying(by) \/ \E fill \in BOOLEAN : Return(by, fill)
      <3>1. (a.status \in {"partial_filled", "filled"}) \in BOOLEAN
        OBVIOUS
      <3> QED BY <3>1 DEF Begin, BeginFill, BeginNothing, BeginTerminal
    <2>2. poll \in PollState /\ pass \in PassState
      BY DEF TypeOK
    <2> QED BY <2>1, <2>2 DEF Applying, Return, PollState, PassState
  <1>2. entry'[1].mark = entry[1].mark /\ entry'[1].handler = entry[1].handler
    <2>1. \/ entry' = [entry EXCEPT ![1].seen = a.status]
          \/ entry' = [entry EXCEPT ![1].seen = a.status, ![1].fired = TRUE]
      BY DEF Begin, BeginFill, BeginNothing, BeginTerminal
    <2> QED BY <2>1 DEF Entry
  <1>3. UNCHANGED <<broker, fills, pnl, boot, start>> /\ live' \in {live, NoEntry}
    BY DEF Begin, BeginFill, BeginNothing, BeginTerminal, durable, counters
  <1>4. CASE BeginFill(by, 1, a)
    <2>1. pipe'.at = "machine" /\ pipe'.on = 1 /\ pipe'.answer = a
          /\ pipe'.inc = a.filled - entry[1].mark /\ a.filled > entry[1].mark
      BY <1>4 DEF BeginFill, IsNew, Steady
    <2> QED BY <1>0, <1>1, <1>2, <1>3, <2>1 DEF Steady, Answered, Counted
  <1>5. CASE UNCHANGED pipe
    BY <1>0, <1>1, <1>2, <1>3, <1>5 DEF Steady, Answered, Counted
  <1> QED BY <1>4, <1>5 DEF Begin, BeginNothing, BeginTerminal

LEMMA NextUninterrupted ==
    ASSUME Uninterrupted, [Next]_vars, crashes' = 0 PROVE Uninterrupted'
  <1> SUFFICES Steady' /\ Answered' /\ Counted'
    BY NextType DEF Uninterrupted
  <1> USE Numbers DEF Uninterrupted, durable, worker, poller, counters
  <1>1. CASE BrokerFill
    <2>1. broker'.filled \in Nat /\ broker'.filled > broker.filled
      BY <1>1, QtyAssumption DEF BrokerFill
    <2> QED BY <1>1, <2>1 DEF BrokerFill, Steady, Answered, Counted
  <1>2. CASE BrokerClose
    <2>1. broker'.filled = broker.filled
      BY <1>2 DEF BrokerClose, TypeOK
    <2> QED BY <1>2, <2>1 DEF BrokerClose, Steady, Answered, Counted
  <1>3. CASE StepMachine
    <2>1. PICK b, st : Bind(b, st)
      BY <1>3 DEF StepMachine
    <2>2. pipe.at = "machine" /\ pipe'.at = "pnl" /\ pipe'.on = pipe.on
          /\ pipe'.answer = pipe.answer /\ pipe'.inc = pipe.inc
      BY <1>3, <2>1 DEF StepMachine, Bind, TypeOK, Pipe
    <2> QED BY <1>3, <2>2 DEF StepMachine, Steady, Answered, Counted
  <1>4. CASE StepPnl
    <2>1. pipe.at = "pnl" /\ pipe'.at = "file" /\ pipe'.on = pipe.on
          /\ pipe'.answer = pipe.answer /\ pipe'.inc = pipe.inc
      BY <1>4 DEF StepPnl, PipeGoto, TypeOK, Pipe
    <2>2. pnl' <= pnl + pipe.inc /\ pnl' \in Nat
      BY <1>4 DEF StepPnl
    <2> QED BY <1>4, <2>1, <2>2 DEF StepPnl, Steady, Answered, Counted
  <1>5. CASE StepFile
    <2>1. pipe.at = "file" /\ pipe'.at = "settle" /\ pipe'.on = pipe.on
          /\ pipe'.answer = pipe.answer /\ pipe'.inc = pipe.inc
      BY <1>5 DEF StepFile, PipeGoto, TypeOK, Pipe
    <2>2. fills' \in {fills, pipe.answer.filled}
      BY <1>5 DEF StepFile, Total
    <2> QED BY <1>5, <2>1, <2>2 DEF StepFile, Steady, Answered, Counted
  <1>6. CASE Settle
    <2>1. entry'[1].mark = pipe.answer.filled /\ entry'[1].handler = entry[1].handler
      BY <1>6 DEF Settle, Total, Steady, Entry
    <2>2. poll'.on = poll.on /\ poll'.answer = poll.answer
          /\ pass'.on = pass.on /\ pass'.answer = pass.answer
      BY <1>6 DEF Settle, Return, TypeOK, PollState, PassState
    <2>3. pipe' = FreePipe /\ live' \in {live, NoEntry} /\ pipe.at = "settle"
      BY <1>6 DEF Settle
    <2> QED BY <1>6, <2>1, <2>2, <2>3, IdleFields DEF Settle, Steady, Answered, Counted
  <1>7. CASE PollRead
    <2>1. PICK a \in Lookup : poll' = [at |-> "held", on |-> live, answer |-> a]
      BY <1>7 DEF PollRead
    <2>2. a.filled <= broker.filled
      BY LookupKnown
    <2> QED BY <1>7, <2>1, <2>2 DEF PollRead, Steady, Answered, Counted
  <1>8. CASE PollApply
    BY <1>8, BeginKeeps DEF PollApply, Steady, Answered, TypeOK, PollState
  <1>9. CASE PollTimeout
    <2>1. broker'.filled = broker.filled /\ poll'.on = poll.on /\ poll'.answer = poll.answer
      BY <1>9 DEF PollTimeout, TypeOK, PollState
    <2> QED BY <1>9, <2>1 DEF PollTimeout, Steady, Answered, Counted
  <1>10. CASE PollIdle
    BY <1>10 DEF PollIdle, TypeOK, PollState, Steady, Answered, Counted
  <1>11. CASE PassStart
    BY <1>11, IdleFields DEF PassStart, TypeOK, PassState, IdlePass, Steady, Answered, Counted
  <1>12. CASE PassAsk
    <2>1. pass'.on = 1 /\ pass'.answer.filled <= broker.filled
      <3>1. CASE pass' = IdlePass
        BY <3>1, IdleFields
      <3>2. ASSUME NEW a \in Lookup, pass' = [pass EXCEPT !.at = "sync", !.answer = a]
            PROVE  pass'.on = 1 /\ pass'.answer.filled <= broker.filled
        BY <3>2, LookupKnown DEF Steady, TypeOK, PassState
      <3> QED BY <1>12, <3>1, <3>2 DEF PassAsk
    <2>2. boot' = boot
      BY <1>12 DEF PassAsk, FailBoot, Steady
    <2> QED BY <1>12, <2>1, <2>2 DEF PassAsk, Steady, Answered, Counted
  <1>13. CASE PassSync
    <2>1. pass'.on = 1 /\ pass'.answer = pass.answer
      BY <1>13 DEF PassSync, Steady, TypeOK, PassState, NoEntry
    <2> QED BY <1>13, <2>1 DEF PassSync, Steady, Answered, Counted
  <1>14. CASE PassApply
    BY <1>14, BeginKeeps DEF PassApply, Steady, Answered, TypeOK, PassState
  <1>15. CASE PassWrite
    <2>1. fills' <= broker.filled
      BY <1>15 DEF PassWrite, NoFillYet, Answered, Counted
    <2>2. boot' = boot
      BY <1>15 DEF PassWrite, FailBoot, Steady
    <2> QED BY <1>15, <2>1, <2>2, IdleFields DEF PassWrite, Steady, Answered, Counted
  <1>16. CASE UNCHANGED vars
    BY <1>16 DEF vars, Steady, Answered, Counted
  <1> QED
    BY Running, <1>1, <1>2, <1>3, <1>4, <1>5, <1>6, <1>7, <1>8, <1>9, <1>10, <1>11, <1>12,
       <1>13, <1>14, <1>15, <1>16 DEF Poll, Pass

(***************************************************************************)
(* Any number of crashes, no reconciler pass but the recovery's own        *)
(***************************************************************************)
Handler == entry[live].handler
InWork == live # NoEntry /\ Handler # "stub"
Booting == boot \in {"reconcile", "checking", "register"}
Taken == pipe.at \in {"pnl", "file", "settle"}
OnlyOpened == {"submitted", "partial_filled"}

\* Who may be where: only the poll thread is ever in the pipeline, with the entry
\* the poller tracks, and the recovery's own pass is over before it starts.
SoloThreads ==
    /\ pass.at \in {"idle", "ask", "sync", "write"}
    /\ pass.at # "idle" => boot = "checking" /\ RowOpen
    /\ Booting => live = NoEntry /\ poll.at = "idle" /\ start.at = "idle"
    /\ start.at # "idle" => boot = "restore"
    /\ poll.at = "applying" <=> pipe.at # "free"
    /\ poll.at \in {"held", "applying"} => poll.on = live
    /\ pipe.at # "free" => pipe.by = "poll" /\ pipe.on = live

\* Which callback an entry has, and what that says of the start and the machine.
SoloEntry ==
    /\ live # NoEntry => ~entry[live].fired
    /\ InWork => machine.known /\ boot = "up"
    /\ start.at # "idle" => start.status \in OnlyOpened
    /\ start.at = "poller" =>
          machine = [known |-> TRUE, status |-> start.status, filled |-> start.filled]
    /\ pipe.at = "stub" => Handler = "stub"
    /\ pipe.at = "guard" => Handler = "guarded"
    /\ pipe.at \in {"machine", "pnl", "file"} => Handler # "stub"

\* What the broker says: a filled order is filled whole, one in parts is not.
Genuine(a) ==
    /\ a.filled <= broker.filled
    /\ a.status = "filled" => a.filled = Qty
    /\ a.status = "partial_filled" => a.filled < Qty

SoloAnswers ==
    /\ Genuine(broker) /\ Genuine(poll.answer)
    /\ Genuine(pass.answer) /\ Genuine(pipe.answer)
    /\ pipe.at # "free" =>
          /\ pipe.answer.status \in {"partial_filled", "filled"}
          /\ pipe.answer.filled = entry[live].mark + pipe.inc

\* The row is open as long as something may be written to it.
SoloRow ==
    /\ row.status # "pending"
    /\ live # NoEntry \/ start.at # "idle" => row.status \notin Negative
    /\ live # NoEntry /\ Handler = "stub" =>
          row.status \in OnlyOpened \/ (pipe.at = "settle" /\ pipe.answer.status = "filled")
    /\ live # NoEntry /\ Handler = "full" /\ pipe.at = "free" => RowOpen
    /\ pipe.at = "machine" => RowOpen
    /\ Taken /\ (pipe.at = "settle" => Handler = "full") /\ pipe.answer.status # "filled"
       => RowOpen

\* The machine never runs ahead of the watermark and the fill in the pipe.
SoloMachine ==
    InWork =>
        /\ ~Taken => machine.status \in OnlyOpened /\ machine.filled <= entry[live].mark
        /\ Taken => machine.filled <= pipe.answer.filled
        /\ Taken /\ pipe.answer.status # "filled" => machine.status \in OnlyOpened

Solo == SoloThreads /\ SoloEntry /\ SoloAnswers /\ SoloRow /\ SoloMachine

\* P&L is in the row's total before it is booked, and stays there.
PnlBehind ==
    /\ pnl <= row.filled /\ pnl <= broker.filled
    /\ start.at # "idle" => pnl <= start.filled
    /\ pass.at \in {"sync", "write"} => pnl <= pass.answer.filled
    /\ InWork => pnl <= machine.filled
    /\ pipe.at = "pnl" => pnl + pipe.inc <= machine.filled
    /\ pipe.at \in {"pnl", "file"} =>
          row.filled = machine.filled /\ pipe.total = machine.filled

\* Through one crash, a stub starts where the fills on file end at the latest.
FillsBehind ==
    /\ fills <= broker.filled
    /\ crashes = 0 \/ Booting => fills <= row.filled
    /\ pass.at \in {"sync", "write"} => fills <= pass.answer.filled
    /\ live # NoEntry /\ Handler = "stub" =>
          fills <= IF pipe.at = "settle" THEN pipe.answer.filled ELSE entry[live].mark

\* Before the first crash, machine, watermark and fills go together.
FirstProcess ==
    /\ fills <= IF pipe.at = "settle" THEN pipe.answer.filled ELSE entry[1].mark
    /\ machine.filled = IF Taken THEN pipe.answer.filled ELSE entry[1].mark
    /\ pipe.at \in {"pnl", "file"} => pipe.total \in {NoTotal, pipe.answer.filled}
    /\ row.status = "filled" =>
          \/ fills = Qty \/ latched
          \/ pipe.at \in {"pnl", "file"} /\ pipe.answer.filled = Qty

\* With a database that answers, the four books follow each other step by step.
FirstBooks ==
    /\ row.filled = machine.filled
    /\ fills = IF pipe.at = "settle" THEN pipe.answer.filled ELSE entry[1].mark
    /\ pnl = IF pipe.at \in {"file", "settle"} THEN pipe.answer.filled ELSE entry[1].mark
    /\ pipe.at \in {"pnl", "file"} => pipe.bound /\ pipe.total = pipe.answer.filled

\* What the entry has handed over is on file or reported.
Handed ==
    /\ entry[2].mark = 0
    /\ latched \/ fills >= IF pipe.at = "settle" THEN pipe.answer.filled ELSE entry[1].mark

\* What holds of a process no pass has met; a crash does not end it.
SoloAll ==
    /\ TypeOK
    /\ Solo
    /\ crashes = 0 => Uninterrupted /\ FirstProcess
    /\ faults = 0 => PnlBehind
    /\ crashes <= 1 => FillsBehind

Behind == (faults = 0 => PnlBehind) /\ (crashes <= 1 => FillsBehind)

LEMMA FillTransitions ==
    /\ "filled" \in ValidTransitions["submitted"]
    /\ "partial_filled" \in ValidTransitions["submitted"]
    /\ "filled" \in ValidTransitions["partial_filled"]
  BY DEF ValidTransitions, Status, OpenStatus, Terminal, Negative

\* What step 1 of the pipeline does to an open row: the machine takes the fill.
MachineTakes ==
    /\ pipe.at = "machine" /\ RowOpen /\ InWork
    /\ pipe'.at = "pnl" /\ pipe'.total = Filled
    /\ pipe'.on = pipe.on /\ pipe'.by = pipe.by
    /\ pipe'.answer = pipe.answer /\ pipe'.inc = pipe.inc
    /\ Filled \in Nat /\ Filled = machine.filled + pipe.inc
    /\ Filled <= pipe.answer.filled
    /\ machine' = [machine EXCEPT !.filled = Filled, !.status = FillStatus]
    /\ \/ row' = [status |-> FillStatus, filled |-> Filled] /\ pipe'.bound /\ NoFault
       \/ row' = row /\ Fault
    /\ FillStatus \in {"filled", "partial_filled"}
    /\ pipe.answer.status # "filled" => FillStatus = "partial_filled"

LEMMA MachineEffect == ASSUME TypeOK, Solo, StepMachine PROVE MachineTakes
  <1> USE QtyAssumption
      DEF Solo, SoloThreads, SoloEntry, SoloAnswers, SoloRow, SoloMachine, Handler, InWork,
          Taken, OnlyOpened, Genuine, TypeOK, Pipe, Machine, Entry, Answer, Shares, Entries,
          NoEntry
  <1>1. PICK b, st : Bind(b, st)
    BY DEF StepMachine
  <1>2. /\ pipe.at = "machine" /\ RowOpen /\ InWork
        /\ pipe'.at = "pnl"
        /\ pipe'.total = IF Takes /\ FillAllowed THEN Filled ELSE NoTotal
    BY <1>1 DEF StepMachine, Bind, RowOpen
  <1>3. /\ pipe'.on = pipe.on /\ pipe'.by = pipe.by
        /\ pipe'.answer = pipe.answer /\ pipe'.inc = pipe.inc
    BY <1>1 DEF Bind
  <1>4. /\ Filled \in Nat /\ Filled <= pipe.answer.filled
        /\ pipe.answer.status # "filled" => FillStatus = "partial_filled"
    BY <1>2 DEF Filled, FillStatus
  <1>5. Takes /\ FillAllowed
    <2>1. Takes
      BY <1>2, <1>4 DEF Takes, Filled
    <2>2. machine.status \in {"submitted", "partial_filled"}
      BY <1>2
    <2>3. FillStatus \in {"filled", "partial_filled"}
      BY DEF FillStatus
    <2> QED
      BY <2>1, <2>2, <2>3, FillTransitions DEF FillAllowed
  <1> DEFINE m == [machine EXCEPT !.filled = Filled, !.status = FillStatus]
  <1>6. machine' = m
    BY <1>5 DEF StepMachine
  <1>7. Written(m) = [status |-> FillStatus, filled |-> Filled] /\ Kept(m)
    BY <1>2, <1>4 DEF Written, Kept, RowOpen, FillStatus, Negative
  <1>8. \/ row' = [status |-> FillStatus, filled |-> Filled] /\ pipe'.bound /\ NoFault
        \/ row' = row /\ Fault
    BY <1>5, <1>7 DEF StepMachine, Bind
  <1> QED BY <1>2, <1>3, <1>4, <1>5, <1>6, <1>8 DEF MachineTakes, Filled, FillStatus

LEMMA AskEffect ==
    ASSUME TypeOK, Genuine(broker), PassAsk
    PROVE  /\ \/ pass' = IdlePass /\ boot' \in {boot, "restore"}
              \/ /\ pass'.at = "sync" /\ boot' = boot
                 /\ pass'.answer.filled = broker.filled /\ Genuine(pass'.answer)
           /\ faults' = 0 => faults = 0
  <1>1. \A a \in Lookup : a.filled = broker.filled /\ Genuine(a)
    BY QtyAssumption DEF Lookup, Genuine, TypeOK, Shares
  <1>2. ASSUME NEW a \in Lookup, pass' = [pass EXCEPT !.at = "sync", !.answer = a]
        PROVE  pass'.at = "sync" /\ pass'.answer = a
    BY <1>2 DEF TypeOK, PassState
  <1>3. faults' = 0 => faults = 0
    <2>1. NoFault \/ Fault
      BY DEF PassAsk
    <2> QED BY <2>1, BoundAssumption DEF Fault, NoFault, TypeOK
  <1> QED BY <1>1, <1>2, <1>3 DEF PassAsk, FailBoot

LEMMA NextSolo ==
    ASSUME SoloAll, TypeOK', passes = 0, passes' = 0, [Next]_vars
    PROVE  Solo' /\ Behind'
  <1> USE QtyAssumption, BoundAssumption
      DEF SoloAll, Solo, SoloThreads, SoloEntry, SoloAnswers, SoloRow, SoloMachine,
          Handler, InWork, Booting, Taken, OnlyOpened, Genuine, RowOpen,
          durable, worker, poller, counters, NoFault, Fault,
          OpenStatus, Negative, Terminal, Restorable, Status, BrokerStatus,
          TypeOK, Row, Machine, Entry, Pipe, PollState, PassState, StartState,
          Answer, Shares, Entries, NoEntry, NoTotal
  <1>1. CASE BrokerFill
    <2>1. Solo'
      BY <1>1 DEF BrokerFill
    <2>2. Behind'
      BY <1>1 DEF BrokerFill, Behind, PnlBehind, FillsBehind
    <2> QED BY <2>1, <2>2
  <1>2. CASE BrokerClose
    <2>1. Solo'
      BY <1>2 DEF BrokerClose
    <2>2. Behind'
      BY <1>2 DEF BrokerClose, Behind, PnlBehind, FillsBehind
    <2> QED BY <2>1, <2>2
  <1>3. CASE StepGuard
    <2>1. Solo'
      BY <1>3 DEF StepGuard, PipeGoto
    <2>2. Behind'
      BY <1>3 DEF StepGuard, PipeGoto, Behind, PnlBehind, FillsBehind
    <2> QED BY <2>1, <2>2
  <1>4. CASE StepStub
    <2>1. Solo'
      BY <1>4 DEF StepStub, PipeGoto
    <2>2. Behind'
      BY <1>4 DEF StepStub, PipeGoto, Behind, PnlBehind, FillsBehind
    <2> QED BY <2>1, <2>2
  <1>5. CASE StepMachine
    <2>0. MachineTakes /\ UNCHANGED <<broker, fills, pnl, boot, latched, live, entry, poll,
                                      pass, start, crashes>>
      BY <1>5, MachineEffect DEF StepMachine
    <2>1. Solo'
      BY <2>0 DEF MachineTakes
    <2>2. faults = 0 => PnlBehind
      OBVIOUS
    <2>3. faults' = 0 => PnlBehind'
      BY <2>0, <2>2 DEF MachineTakes, PnlBehind
    <2>4. crashes <= 1 => FillsBehind'
      BY <2>0 DEF MachineTakes, FillsBehind, Uninterrupted, Steady, FirstProcess
    <2> QED BY <2>0, <2>1, <2>3, <2>4 DEF Behind
  <1>6. CASE StepPnl
    <2>1. Solo'
      BY <1>6 DEF StepPnl, PipeGoto
    <2>2. Behind'
      BY <1>6 DEF StepPnl, PipeGoto, Behind, PnlBehind, FillsBehind
    <2> QED BY <2>1, <2>2
  <1>7. CASE StepFile
    <2>1. Solo'
      BY <1>7 DEF StepFile, PipeGoto, AlreadyFiled, Total, HasRow, RowTotal, ReportFailure
    <2>2. Behind'
      BY <1>7
      DEF StepFile, PipeGoto, AlreadyFiled, Total, HasRow, RowTotal, ReportFailure,
          Behind, PnlBehind, FillsBehind, Uninterrupted, Steady, FirstProcess
    <2> QED BY <2>1, <2>2
  <1>8. CASE Settle
    <2>1. Solo'
      BY <1>8 DEF Settle, Return, FreePipe, NoAnswer, Total
    <2>2. Behind'
      BY <1>8 DEF Settle, Return, FreePipe, NoAnswer, Total, Behind, PnlBehind, FillsBehind
    <2> QED BY <2>1, <2>2
  <1>9. CASE PollRead
    <2>1. Solo'
      BY <1>9 DEF PollRead, Lookup
    <2>2. Behind'
      BY <1>9 DEF PollRead, Lookup, Behind, PnlBehind, FillsBehind
    <2> QED BY <2>1, <2>2
  <1>10. CASE BeginFill("poll", poll.on, poll.answer) /\ PollApply
    <2>0. poll.at = "held" /\ poll.on = live /\ pipe.at = "free" /\ live # NoEntry
      BY <1>10 DEF PollApply, BeginFill
    <2>1. pipe'.by = "poll" /\ pipe'.on = live /\ pipe'.answer = poll.answer
          /\ pipe'.inc = poll.answer.filled - entry[live].mark
          /\ pass' = pass /\ poll' = [poll EXCEPT !.at = "applying"]
      BY <1>10, <2>0 DEF BeginFill, Applying
    <2>2. entry'[live].mark = entry[live].mark /\ entry'[live].handler = entry[live].handler
          /\ entry'[live].fired = entry[live].fired /\ poll.answer.filled > entry[live].mark
      BY <1>10, <2>0 DEF BeginFill, IsNew
    <2>3. UNCHANGED <<broker, row, fills, pnl, boot, machine, bound, latched, live,
       start, crashes, faults>>
      BY <1>10 DEF BeginFill
    <2>4. pipe'.answer.status \in {"partial_filled", "filled"}
      BY <1>10, <2>0, <2>1 DEF BeginFill
    <2>5. pipe'.at \in {"stub", "guard", "machine"} /\ (pipe'.at = "stub" <=> Handler =
       "stub")
          /\ (pipe'.at = "guard" <=> Handler = "guarded")
      <3>1. CASE Handler = "stub"
        BY <1>10, <2>0, <3>1 DEF BeginFill
      <3>2. CASE Handler = "guarded"
        BY <1>10, <2>0, <3>2 DEF BeginFill
      <3>3. CASE Handler = "full"
        BY <1>10, <2>0, <3>3 DEF BeginFill
      <3> QED BY <2>0, <3>1, <3>2, <3>3
    <2>6. Solo'
      BY <2>0, <2>1, <2>2, <2>3, <2>4, <2>5
    <2>7. Behind'
      BY <2>0, <2>1, <2>2, <2>3, <2>4, <2>5 DEF PnlBehind, FillsBehind, Behind
    <2> QED BY <2>6, <2>7
  <1>11. CASE BeginNothing("poll", poll.on, poll.answer) /\ PollApply
    <2>0. poll.at = "held" /\ poll.on = live /\ pipe.at = "free" /\ live # NoEntry
          /\ pipe' = pipe /\ pass' = pass
      BY <1>11 DEF PollApply, BeginNothing, Return
    <2>1. entry'[live].mark = entry[live].mark /\ entry'[live].handler = entry[live].handler
          /\ entry'[live].fired = entry[live].fired /\ live' \in {live, NoEntry}
      BY <1>11, <2>0 DEF BeginNothing
    <2>2. poll'.at \in {"idle", "after"} /\ poll'.on = poll.on /\ poll'.answer = poll.answer
      BY <1>11 DEF BeginNothing, Return
    <2>3. UNCHANGED <<broker, row, fills, pnl, boot, machine, bound, latched, start,
       crashes, faults>>
      BY <1>11 DEF BeginNothing
    <2>4. Solo'
      BY <2>0, <2>1, <2>2, <2>3
    <2>5. Behind'
      BY <2>0, <2>1, <2>2, <2>3 DEF PnlBehind, FillsBehind, Behind
    <2> QED BY <2>4, <2>5
  <1>12. CASE BeginTerminal("poll", poll.on, poll.answer) /\ PollApply
    <2>0. poll.at = "held" /\ poll.on = live /\ pipe.at = "free" /\ live # NoEntry
          /\ pipe' = pipe /\ pass' = pass
      BY <1>12 DEF PollApply, BeginTerminal, Return
    <2>1. live' = NoEntry /\ poll'.at \in {"idle", "after"}
          /\ poll'.on = poll.on /\ poll'.answer = poll.answer
      BY <1>12, <2>0 DEF BeginTerminal, Return
    <2>2. row' = row \/ (InWork /\ RowOpen /\ row'.status # "pending" /\ row'.filled =
       machine.filled)
      BY <1>12, <2>0 DEF BeginTerminal, Converge, Persist, Written
    <2>3. Solo'
      BY <1>12, <2>0, <2>1, <2>2 DEF BeginTerminal
    <2>4. faults' = 0 => PnlBehind'
      BY <1>12, <2>0, <2>1, <2>2 DEF BeginTerminal, PnlBehind, Converge, Persist
    <2>5. crashes <= 1 => FillsBehind'
      BY <1>12, <2>0, <2>1, <2>2
      DEF BeginTerminal, FillsBehind, Uninterrupted, FirstProcess, Steady
    <2> QED BY <2>3, <2>4, <2>5, <1>12 DEF BeginTerminal, Behind
  <1>13. CASE PollTimeout
    <2>1. Solo'
      BY <1>13 DEF PollTimeout, Converge, Persist, Written, Kept
    <2>2. Behind'
      BY <1>13
      DEF PollTimeout, Converge, Persist, Written, Kept, Behind, PnlBehind, FillsBehind,
          Uninterrupted, Steady, FirstProcess
    <2> QED BY <2>1, <2>2
  <1>14. CASE PollIdle
    <2>1. Solo'
      BY <1>14 DEF PollIdle
    <2>2. Behind'
      BY <1>14 DEF PollIdle, Behind, PnlBehind, FillsBehind
    <2> QED BY <2>1, <2>2
  <1>15. CASE PassAsk
    <2>0. pass.at = "ask" /\ boot = "checking" /\ live = NoEntry /\ pipe.at = "free" /\
       start.at = "idle"
      BY <1>15 DEF PassAsk
    <2>1. \/ pass' = IdlePass /\ boot' \in {boot, "restore"}
          \/ /\ pass'.at = "sync" /\ boot' = boot
             /\ pass'.answer.filled = broker.filled /\ Genuine(pass'.answer)
      BY <1>15, AskEffect
    <2>2. IdlePass.at = "idle" /\ Genuine(IdlePass.answer)
      BY DEF IdlePass, NoAnswer
    <2>3. UNCHANGED <<broker, row, fills, pnl, machine, bound, latched, live, entry, pipe,
                      poll, start, crashes>>
      BY <1>15 DEF PassAsk
    <2>6. faults' = 0 => faults = 0
      BY <1>15, AskEffect
    <2>4. CASE pass' = IdlePass
      BY <2>0, <2>1, <2>2, <2>3, <2>4, <2>6 DEF PnlBehind, FillsBehind, Behind
    <2>5. CASE pass'.at = "sync"
      BY <2>0, <2>1, <2>2, <2>3, <2>5, <2>6 DEF PnlBehind, FillsBehind, Behind
    <2> QED BY <2>1, <2>4, <2>5
  <1>16. CASE PassSync
    <2>1. Solo'
      BY <1>16 DEF PassSync
    <2>2. Behind'
      BY <1>16 DEF PassSync, Behind, PnlBehind, FillsBehind
    <2> QED BY <2>1, <2>2
  <1>17. CASE PassWrite
    <2>1. Solo'
      BY <1>17 DEF PassWrite, IdlePass, NoAnswer, FailBoot
    <2>2. pass'.at = "idle" /\ (row' = row \/ row'.filled = pass.answer.filled)
      BY <1>17 DEF PassWrite, IdlePass
    <2>3. crashes # 0 /\ boot = "checking" /\ start.at = "idle" /\ pipe.at = "free" /\
       live = NoEntry
      BY <1>17 DEF PassWrite, Uninterrupted, Steady
    <2>4. fills' = fills \/ (fills = 0 /\ fills' = pass.answer.filled /\ row'.filled =
       pass.answer.filled)
      BY <1>17 DEF PassWrite, NoFillYet
    <2> QED BY <1>17, <2>1, <2>2, <2>3, <2>4
    DEF PassWrite, FailBoot, PnlBehind, FillsBehind, Behind
  <1>18. CASE Crash
    <2>1. Solo'
      BY <1>18 DEF Crash, IdlePass, NoAnswer, FreshEntry, FreePipe, IdlePoll, IdleStart
    <2>2. Behind'
      BY <1>18
      DEF Crash, IdlePass, NoAnswer, FreshEntry, FreePipe, IdlePoll, IdleStart, Behind,
          PnlBehind, FillsBehind, Uninterrupted, Steady, FirstProcess
    <2> QED BY <2>1, <2>2
  <1>19. CASE BootReconcile
    <2>1. Solo'
      BY <1>19 DEF BootReconcile, IdlePass, NoAnswer
    <2>2. Behind'
      BY <1>19 DEF BootReconcile, IdlePass, NoAnswer, Behind, PnlBehind, FillsBehind
    <2> QED BY <2>1, <2>2
  <1>20. CASE BootReconciled
    <2>1. Solo'
      BY <1>20 DEF BootReconciled
    <2>2. Behind'
      BY <1>20 DEF BootReconciled, Behind, PnlBehind, FillsBehind
    <2> QED BY <2>1, <2>2
  <1>21. CASE BootRegister
    <2>1. Solo'
      BY <1>21 DEF BootRegister, FreshEntry, Seed
    <2>2. Behind'
      BY <1>21 DEF BootRegister, FreshEntry, Seed, Behind, PnlBehind, FillsBehind
    <2> QED BY <2>1, <2>2
  <1>22. CASE StartRead
    <2>1. Solo'
      BY <1>22 DEF StartRead
    <2>2. Behind'
      BY <1>22 DEF StartRead, Behind, PnlBehind, FillsBehind
    <2> QED BY <2>1, <2>2
  <1>23. CASE StartMachine
    <2>1. Solo'
      BY <1>23 DEF StartMachine, Persist, Written, Kept
    <2>2. Behind'
      BY <1>23
      DEF StartMachine, Persist, Written, Kept, Behind, PnlBehind, FillsBehind,
          Uninterrupted, Steady, FirstProcess
    <2> QED BY <2>1, <2>2
  <1>24. CASE StartPoller
    <2>1. Solo'
      BY <1>24 DEF StartPoller, FreshEntry, IdleStart
    <2>2. Behind'
      BY <1>24 DEF StartPoller, FreshEntry, IdleStart, Behind, PnlBehind, FillsBehind
    <2> QED BY <2>1, <2>2
  <1>25. CASE UNCHANGED vars
    <2>1. Solo'
      BY <1>25 DEF vars
    <2>2. Behind'
      BY <1>25 DEF vars, Behind, PnlBehind, FillsBehind
    <2> QED BY <2>1, <2>2
  <1>26. ~PassApply
    BY DEF PassApply
  <1>27. ~PassStart
    BY DEF PassStart
  <1> QED
    BY <1>1, <1>2, <1>3, <1>4, <1>5, <1>6, <1>7, <1>8, <1>9, <1>10, <1>11, <1>12, <1>13,
       <1>14, <1>15, <1>16, <1>17, <1>18, <1>19, <1>20, <1>21, <1>22, <1>23, <1>24, <1>25,
       <1>26, <1>27
    DEF Next, Pipeline, Poll, Pass, Boot, PollApply, Begin

LEMMA BeginHanded ==
    ASSUME Uninterrupted, Handed, NEW by, NEW a, Begin(by, 1, a) PROVE Handed'
  <1>1. /\ pipe.at = "free" /\ pipe'.at # "settle"
        /\ UNCHANGED fills /\ latched' = latched
        /\ \A e \in Entries : entry'[e].mark = entry[e].mark
    <2>1. CASE BeginFill(by, 1, a)
      <3>1. pipe'.at # "settle"
        BY <2>1 DEF BeginFill
      <3> QED BY <2>1, <3>1 DEF BeginFill, Uninterrupted, TypeOK, Entry, durable, worker
    <2>2. CASE BeginNothing(by, 1, a)
      BY <2>2 DEF BeginNothing, Uninterrupted, TypeOK, Entry, durable, worker
    <2>3. CASE BeginTerminal(by, 1, a)
      BY <2>3 DEF BeginTerminal, Uninterrupted, TypeOK, Entry
    <2> QED BY <2>1, <2>2, <2>3 DEF Begin
  <1> QED BY <1>1 DEF Handed, Entries

LEMMA NextHanded ==
    ASSUME Uninterrupted, Handed, [Next]_vars, crashes' = 0, TypeOK'
    PROVE  Handed'
  <1> USE QtyAssumption
  DEF Uninterrupted, Steady, Answered, Handed, durable, worker, poller, counters,
      NoFault, Fault,
        TypeOK, Entry, Pipe, PollState, PassState, Answer, Shares, Entries
  <1>1. CASE BrokerFill
    BY <1>1 DEF BrokerFill
  <1>2. CASE BrokerClose
    BY <1>2 DEF BrokerClose
  <1>3. CASE StepMachine
    <2>1. PICK b, st : Bind(b, st)
      BY <1>3 DEF StepMachine
    <2>2. pipe.at = "machine" /\ pipe'.at = "pnl"
      BY <1>3, <2>1 DEF StepMachine, Bind
    <2> QED BY <1>3, <2>2 DEF StepMachine
  <1>4. CASE StepPnl
    BY <1>4 DEF StepPnl, PipeGoto
  <1>5. CASE StepFile
    BY <1>5 DEF StepFile, PipeGoto, AlreadyFiled, Total, ReportFailure
  <1>6. CASE Settle
    BY <1>6 DEF Settle, FreePipe, Total
  <1>7. CASE PollRead
    BY <1>7 DEF PollRead
  <1>8. CASE PollApply
    BY <1>8, BeginHanded DEF PollApply
  <1>9. CASE PollTimeout
    BY <1>9 DEF PollTimeout
  <1>10. CASE PollIdle
    BY <1>10 DEF PollIdle
  <1>11. CASE PassStart
    BY <1>11 DEF PassStart
  <1>12. CASE PassAsk
    BY <1>12 DEF PassAsk
  <1>13. CASE PassSync
    BY <1>13 DEF PassSync
  <1>14. CASE PassApply
    BY <1>14, BeginHanded DEF PassApply
  <1>15. CASE PassWrite
    BY <1>15 DEF PassWrite, NoFillYet
  <1>16. CASE UNCHANGED vars
    BY <1>16 DEF vars
  <1> QED
    BY Running, <1>1, <1>2, <1>3, <1>4, <1>5, <1>6, <1>7, <1>8, <1>9, <1>10, <1>11, <1>12,
       <1>13, <1>14, <1>15, <1>16 DEF Poll, Pass

LEMMA NextFirst ==
    ASSUME Uninterrupted, Solo, FirstProcess, faults = 0 => FirstBooks, [Next]_vars,
       crashes' = 0, passes = 0, passes' = 0, TypeOK'
    PROVE  FirstProcess' /\ (faults' = 0 => FirstBooks')
  <1> USE QtyAssumption, BoundAssumption DEF Uninterrupted, Steady, Answered, 
          Solo, SoloThreads, SoloEntry, SoloAnswers, SoloRow, SoloMachine,
          Handler, InWork, Booting, Taken, OnlyOpened, Genuine, RowOpen,
          durable, worker, poller, counters, NoFault, Fault,
          OpenStatus, Negative, Terminal, Restorable, Status, BrokerStatus,
          TypeOK, Row, Machine, Entry, Pipe, PollState, PassState, StartState,
          Answer, Shares, Entries, NoEntry, NoTotal, FirstProcess, FirstBooks
  <1>1. CASE BrokerFill
    BY <1>1 DEF BrokerFill
  <1>2. CASE BrokerClose
    BY <1>2 DEF BrokerClose
  <1>3. CASE StepMachine
    <2>1. MachineTakes /\ UNCHANGED <<fills, pnl, latched, entry>>
      BY <1>3, MachineEffect DEF StepMachine
    <2> QED BY <2>1 DEF MachineTakes
  <1>4. CASE StepPnl
    BY <1>4 DEF StepPnl, PipeGoto
  <1>5. CASE StepFile
    BY <1>5 DEF StepFile, PipeGoto, AlreadyFiled, Total, ReportFailure, RowTotal, HasRow
  <1>6. CASE Settle
    BY <1>6 DEF Settle, FreePipe, Total
  <1>7. CASE PollRead
    BY <1>7 DEF PollRead
  <1>81. CASE PollApply /\ BeginFill("poll", poll.on, poll.answer)
    BY <1>81 DEF PollApply, BeginFill
  <1>82. CASE PollApply /\ BeginNothing("poll", poll.on, poll.answer)
    BY <1>82 DEF PollApply, BeginNothing
  <1>83. CASE PollApply /\ BeginTerminal("poll", poll.on, poll.answer)
    BY <1>83 DEF PollApply, BeginTerminal, Converge, Persist, Written, Kept
  <1>9. CASE PollTimeout
    BY <1>9 DEF PollTimeout, Converge, Persist, Written, Kept
  <1>10. CASE PollIdle
    BY <1>10 DEF PollIdle
  <1>12. ~PassAsk /\ ~PassSync /\ ~PassWrite /\ ~PassApply
    BY DEF PassAsk, PassSync, PassWrite, PassApply
  <1>13. ~PassStart
    BY DEF PassStart
  <1>16. CASE UNCHANGED vars
    BY <1>16 DEF vars
  <1> QED
    BY Running, <1>1, <1>2, <1>3, <1>4, <1>5, <1>6, <1>7, <1>81, <1>82, <1>83, <1>9,
       <1>10, <1>12,
       <1>13, <1>16 DEF Poll, Pass, PollApply, Begin

Inductive ==
    /\ TypeOK
    /\ crashes = 0 => Steady /\ Answered /\ Counted /\ Handed
    /\ passes = 0 => Solo
    /\ passes = 0 /\ faults = 0 => PnlBehind
    /\ passes = 0 /\ crashes <= 1 => FillsBehind
    /\ passes = 0 /\ crashes = 0 => FirstProcess
    /\ passes = 0 /\ crashes = 0 /\ faults = 0 => FirstBooks

\* A row once closed: nothing a process without a pass does opens it.
LEMMA NextClosed ==
    ASSUME TypeOK, Solo, passes = 0, row.status \in Terminal, [Next]_vars
    PROVE  row'.status \in Terminal
  <1> USE DEF Solo, RowOpen, OpenStatus, Terminal, Negative, OnlyOpened
  <1>1. CASE UNCHANGED row
    BY <1>1
  <1>2. CASE StepStub
    BY <1>2 DEF StepStub, SoloThreads, SoloRow, SoloEntry, Handler, TypeOK, Pipe, Entries, NoEntry
  <1>3. CASE StepMachine
    BY <1>3 DEF StepMachine, SoloRow
  <1>4. CASE StepFile
    BY <1>4 DEF StepFile, SoloRow, Taken
  <1>5. CASE PollApply \/ PollTimeout
    <2>1. ASSUME NEW s, Converge(s) PROVE UNCHANGED row
      BY <2>1 DEF Converge, Persist, Written
    <2> QED
      BY <1>5, <2>1
      DEF PollApply, PollTimeout, Begin, BeginFill, BeginNothing, BeginTerminal, durable
  <1>6. CASE PassWrite
    BY <1>6 DEF PassWrite, SoloThreads
  <1>7. CASE PassApply
    BY <1>7 DEF PassApply, SoloThreads
  <1>8. CASE StartMachine
    BY <1>8 DEF StartMachine, Persist, Written
  <1>9. CASE BrokerFill \/ BrokerClose \/ StepGuard \/ StepPnl \/ Settle \/ PollRead \/
     PollIdle
    BY <1>9
    DEF BrokerFill, BrokerClose, StepGuard, StepPnl, Settle, PollRead, PollIdle, durable
  <1>10. CASE PassStart \/ PassAsk \/ PassSync \/ Crash
    BY <1>10 DEF PassStart, PassAsk, PassSync, Crash, durable
  <1>11. CASE BootReconcile \/ BootReconciled \/ BootRegister \/ StartRead \/ StartPoller
    BY <1>11
    DEF BootReconcile, BootReconciled, BootRegister, StartRead, StartPoller, durable
  <1> QED
    BY <1>1, <1>2, <1>3, <1>4, <1>5, <1>6, <1>7, <1>8, <1>9, <1>10, <1>11
    DEF Next, Pipeline, Poll, Pass, Boot, vars

LEMMA InitInductive == Init => Inductive
  <1> SUFFICES ASSUME Init PROVE Inductive
    OBVIOUS
  <1>1. TypeOK /\ Uninterrupted
    BY InitType, InitUninterrupted
  <1>2. /\ entry[1] = FreshEntry("full", 0) /\ entry[2] = FreshEntry("full", 0)
        /\ live = 1 /\ pipe.at = "free" /\ poll.at = "idle" /\ pass.at = "idle"
        /\ poll.answer = NoAnswer /\ pass.answer = NoAnswer /\ pipe.answer = NoAnswer
        /\ start.at = "idle"
    BY DEF Init, Entries, FreePipe, IdlePoll, IdlePass, IdleStart
  <1>3. Handed /\ FirstProcess /\ FirstBooks
    BY <1>2 DEF Init, Handed, FirstProcess, FirstBooks, FreshEntry, Taken, NoAnswer
  <1>4. SoloThreads /\ SoloEntry
    BY <1>2 DEF Init, SoloThreads, SoloEntry, FreshEntry, Handler, InWork, Booting
  <1>5. SoloAnswers
    BY <1>2, QtyAssumption DEF Init, SoloAnswers, Genuine, NoAnswer
  <1>6. SoloRow /\ SoloMachine
    BY <1>2
    DEF Init, SoloRow, SoloMachine, FreshEntry, Handler, InWork, Taken, OnlyOpened, RowOpen,
        OpenStatus, Negative, NoAnswer
  <1>7. PnlBehind /\ FillsBehind
    BY <1>2 DEF Init, PnlBehind, FillsBehind, FreshEntry, Handler, InWork, Booting, NoAnswer
  <1> QED
    BY <1>1, <1>3, <1>4, <1>5, <1>6, <1>7 DEF Inductive, Uninterrupted, Solo

LEMMA CountersGrow ==
    ASSUME TypeOK, [Next]_vars
    PROVE  /\ crashes' = 0 => crashes = 0
           /\ crashes' <= 1 => crashes <= 1
           /\ passes' = 0 => passes = 0
           /\ faults' = 0 => faults = 0
  <1>1. crashes \in Nat /\ passes \in Nat /\ faults \in Nat
    BY BoundAssumption DEF TypeOK
  <1>2. crashes' \in {crashes, crashes + 1}
    BY DEF Next, vars, counters, Pipeline, Poll, Pass, Boot, BrokerFill, BrokerClose,
       StepGuard, StepStub, StepMachine, StepPnl, StepFile, Settle, PollRead, PollApply,
       PollTimeout, PollIdle, PassStart, PassAsk, PassSync, PassApply, PassWrite, Begin,
       BeginFill, BeginNothing, BeginTerminal, Crash, BootReconcile, BootReconciled,
       BootRegister, StartRead, StartMachine, StartPoller
  <1>3. passes' \in {passes, passes + 1}
    BY DEF Next, vars, counters, Pipeline, Poll, Pass, Boot, BrokerFill, BrokerClose,
       StepGuard, StepStub, StepMachine, StepPnl, StepFile, Settle, PollRead, PollApply,
       PollTimeout, PollIdle, PassStart, PassAsk, PassSync, PassApply, PassWrite, Begin,
       BeginFill, BeginNothing, BeginTerminal, Crash, BootReconcile, BootReconciled,
       BootRegister, StartRead, StartMachine, StartPoller
  <1>4. faults' \in {faults, faults + 1}
    BY DEF Next, vars, counters, Pipeline, Poll, Pass, Boot, BrokerFill, BrokerClose,
       StepGuard, StepStub, StepMachine, StepPnl, StepFile, Settle, PollRead, PollApply,
       PollTimeout, PollIdle, PassStart, PassAsk, PassSync, PassApply, PassWrite, Begin,
       BeginFill, BeginNothing, BeginTerminal, Crash, BootReconcile, BootReconciled,
       BootRegister, StartRead, StartMachine, StartPoller, Fault, NoFault, Converge, Persist
  <1> QED BY <1>1, <1>2, <1>3, <1>4

LEMMA NextInductive == ASSUME Inductive, [Next]_vars PROVE Inductive'
  <1> USE CountersGrow DEF Inductive
  <1>1. TypeOK'
    BY NextType
  <1>2. ASSUME crashes' = 0
        PROVE  Uninterrupted /\ Uninterrupted' /\ Handed'
    <2>1. Uninterrupted /\ Handed
      BY <1>2 DEF Uninterrupted
    <2> QED BY <1>1, <1>2, <2>1, NextUninterrupted, NextHanded
  <1>3. ASSUME passes' = 0
        PROVE  Solo' /\ Behind'
    <2>1. SoloAll
      BY <1>3 DEF SoloAll, Uninterrupted
    <2> QED BY <1>1, <1>3, <2>1, NextSolo
  <1>4. ASSUME passes' = 0, crashes' = 0
        PROVE  FirstProcess' /\ (faults' = 0 => FirstBooks')
    BY <1>1, <1>2, <1>4, NextFirst
  <1> QED BY <1>1, <1>2, <1>3, <1>4 DEF Uninterrupted, Behind

\* The inductive invariant holds in every state of every run of the record.
THEOREM InductiveAlways == Spec => []Inductive
  <1>1. Inductive /\ [Next]_vars => Inductive'
    BY NextInductive
  <1> QED BY <1>1, InitInductive, PTL DEF Spec

\* Without a crash, whatever the passes, faults, timeouts and answers: the
\* fills on file never exceed the broker's, and no P&L is recorded twice.
THEOREM NoCrashNothingDoubled ==
    ASSUME MaxCrashes = 0 PROVE Spec => [](FillsWithinBroker /\ pnl <= broker.filled)
  <1>1. Inductive => FillsWithinBroker /\ pnl <= broker.filled
    <2> SUFFICES ASSUME Inductive PROVE FillsWithinBroker /\ pnl <= broker.filled
      OBVIOUS
    <2>1. Uninterrupted
      BY DEF Inductive, Uninterrupted, TypeOK
    <2> QED BY <2>1, Numbers DEF Uninterrupted, Answered, Counted, FillsWithinBroker
  <1> QED BY <1>1, InductiveAlways, PTL

\* With at most one crash, and the recovery after it: the fills on file never
\* exceed the broker's as long as no later pass works on the order's row.
THEOREM OneCrashNothingDoubled ==
    ASSUME MaxCrashes <= 1 PROVE Spec => []FillsWithinBroker
  <1>1. Inductive => FillsWithinBroker
    BY BoundAssumption DEF Inductive, TypeOK, Counted, FillsBehind, FillsWithinBroker
  <1> QED BY <1>1, InductiveAlways, PTL

\* Whichever of a fill's four transactions failed: what the poller has handed
\* over, and what the row says is filled, is on file or SAFE_MODE is latched.
THEOREM FillsAlwaysOnFile == Spec => []FillsOnFile
  <1>1. Inductive => HandedIsFiled
    BY DEF Inductive, TypeOK, Handed, HandedIsFiled, Entries
  <1>2. Inductive => FilledIsFiled
    BY DEF Inductive, FirstProcess, FilledIsFiled, Undisturbed, FilledRowIsFiled, AtRest
  <1> QED BY <1>1, <1>2, InductiveAlways, PTL DEF FillsOnFile

\* Between two updates the worker's books agree, and no share's P&L is booked
\* twice, through any number of crashes.
THEOREM AccountsAlwaysAgree == Spec => []AccountsAgree
  <1>1. Inductive => BooksAgree
    BY DEF Inductive, FirstProcess, FirstBooks, Steady, BooksAgree, Undisturbed, Taken
  <1>2. Inductive => PnlOnce
    <2> SUFFICES ASSUME Inductive, faults = 0, passes = 0 \/ crashes = 0
                 PROVE  pnl <= broker.filled
      BY DEF PnlOnce
    <2>1. CASE passes = 0
      BY <2>1 DEF Inductive, PnlBehind
    <2>2. CASE crashes = 0
      BY <2>2, Numbers DEF Inductive, Answered, Counted
    <2> QED BY <2>1, <2>2
  <1> QED BY <1>1, <1>2, InductiveAlways, PTL DEF AccountsAgree

\* No step opens a closed row again, through any number of crashes, as long as
\* no pass holds a broker answer from before.
THEOREM ClosedRowStaysClosed == Spec => ClosedStaysClosed
  <1>1. Inductive /\ [Next]_vars => [passes = 0 /\ row.status \in Terminal => row'.status
     \in Terminal]_vars
    BY NextClosed DEF Inductive
  <1> QED BY <1>1, InductiveAlways, PTL DEF Spec, ClosedStaysClosed

-----------------------------------------------------------------------------
(* Sums over finite sets: that a sum is what it is said to be, whatever order  *)
(* its terms are taken in.  The library's definition goes through a recursive  *)
(* function over the subsets of the set; that the function exists, and what it *)
(* gives, is shown by induction over the set's size.                           *)

SumPick(s) == CHOOSE x \in s : TRUE
SumUp(f, S, g) == g = [s \in SUBSET S |-> IF s = {} THEN 0 ELSE f[SumPick(s)] + g[s \ {SumPick(s)}]]

\* The library's sum, if there is a function to go through.
LEMMA SumUpIs ==
    ASSUME NEW f, NEW S, \E g : SumUp(f, S, g)
    PROVE  \E g : SumUp(f, S, g) /\ SumFunctionOnSet(f, S) = g[S]
  <1> DEFINE h == CHOOSE g : SumUp(f, S, g)
  <1>1. SumUp(f, S, h)
    OBVIOUS
  <1>2. SumFunctionOnSet(f, S) = h[S]
    BY DEF SumFunctionOnSet, FoldFunctionOnSet, MapThenFoldSet, SumUp, SumPick
  <1> QED BY <1>1, <1>2

\* Induction, for a set of numbers.
LEMMA NumbersAll ==
    ASSUME NEW G, 0 \in G, \A n \in Nat : n \in G => n + 1 \in G
    PROVE  Nat \subseteq G
  <1> DEFINE T == {n \in Nat : n \notin G}
  <1>1. SUFFICES ASSUME T # {} PROVE FALSE
    OBVIOUS
  <1>2. PICK m \in T : \A n \in T : ~(<<n, m>> \in OpToRel(<, Nat))
    <2>1. T \subseteq Nat
      OBVIOUS
    <2> HIDE DEF T
    <2> QED BY <1>1, <2>1, NatLessThanWellFounded, WFMin
  <1>3. m \in Nat /\ m - 1 \in Nat /\ m - 1 \notin T
    <2>1. m \in Nat /\ m # 0
      OBVIOUS
    <2>2. m - 1 \in Nat /\ m - 1 < m
      BY <2>1
    <2>3. <<m - 1, m>> \in OpToRel(<, Nat)
      BY <2>1, <2>2 DEF OpToRel
    <2> QED BY <1>2, <2>1, <2>2, <2>3
  <1>4. m - 1 \in G
    BY <1>3
  <1>5. m \in G
    <2>1. m = (m - 1) + 1
      BY <1>3
    <2> QED BY <1>3, <1>4, <2>1
  <1> QED BY <1>5

\* What a sum goes through: some element first, then the rest.
LEMMA SumPicks ==
    ASSUME NEW s, IsFiniteSet(s), s # {}
    PROVE  /\ SumPick(s) \in s /\ IsFiniteSet(s \ {SumPick(s)})
           /\ Cardinality(s) \in Nat /\ Cardinality(s \ {SumPick(s)}) \in Nat
           /\ Cardinality(s \ {SumPick(s)}) = Cardinality(s) - 1
  <1>1. SumPick(s) \in s
    BY DEF SumPick
  <1> QED BY <1>1, FS_RemoveElement, FS_CardinalityType

SumTo(f, S, n, g) ==
    /\ DOMAIN g = {s \in SUBSET S : Cardinality(s) <= n}
    /\ \A s \in DOMAIN g : g[s] = IF s = {} THEN 0 ELSE f[SumPick(s)] + g[s \ {SumPick(s)}]

\* There is one for every finite set.
LEMMA SumExists == ASSUME NEW f, NEW S, IsFiniteSet(S) PROVE \E g : SumUp(f, S, g)
  <1> DEFINE G == {n \in Nat : \E g : SumTo(f, S, n, g)}
             L(n) == {s \in SUBSET S : Cardinality(s) <= n}
  <1>1. \A s \in SUBSET S : IsFiniteSet(s) /\ Cardinality(s) \in Nat
    BY FS_Subset, FS_CardinalityType
  <1>2. 0 \in G
    <2> DEFINE g == [s \in L(0) |-> 0]
    <2>1. \A s \in L(0) : s = {}
      BY <1>1, FS_EmptySet
    <2>2. DOMAIN g = L(0) /\ \A s \in L(0) : g[s] = 0
      OBVIOUS
    <2> HIDE DEF g
    <2>3. SumTo(f, S, 0, g)
      BY <2>1, <2>2 DEF SumTo
    <2> QED BY <2>3
  <1>3. ASSUME NEW n \in Nat, n \in G PROVE n + 1 \in G
    <2>1. PICK g : SumTo(f, S, n, g)
      BY <1>3
    <2> DEFINE h == [s \in L(n + 1) |-> IF s = {} THEN 0 ELSE f[SumPick(s)] + g[s \ {SumPick(s)}]]
    <2>2. DOMAIN h = L(n + 1) /\ \A s \in L(n + 1) : h[s] = IF s = {} THEN 0 ELSE f[SumPick(s)] + g[s \ {SumPick(s)}]
      OBVIOUS
    <2>3. \A s \in L(n) : s \in L(n + 1) /\ h[s] = g[s]
      <3>1. SUFFICES ASSUME NEW s \in L(n) PROVE s \in L(n + 1) /\ h[s] = g[s]
        OBVIOUS
      <3>2. s \in L(n + 1)
        BY <1>1, <3>1
      <3>3. g[s] = IF s = {} THEN 0 ELSE f[SumPick(s)] + g[s \ {SumPick(s)}]
        BY <2>1, <3>1 DEF SumTo
      <3> HIDE DEF h
      <3> QED BY <2>2, <3>2, <3>3
    <2>4. \A s \in L(n + 1) : s # {} => s \ {SumPick(s)} \in L(n)
      BY <1>1, <1>3, SumPicks
    <2> HIDE DEF h
    <2>5. SumTo(f, S, n + 1, h)
      BY <2>2, <2>3, <2>4 DEF SumTo
    <2> QED BY <1>3, <2>5
  <1>4. Cardinality(S) \in G
    <2>1. Nat \subseteq G
      <3> HIDE DEF G
      <3> QED BY <1>2, <1>3, NumbersAll
    <2> QED BY <1>1, <2>1
  <1>5. PICK g : SumTo(f, S, Cardinality(S), g)
    BY <1>4
  <1>6. L(Cardinality(S)) = SUBSET S
    BY FS_Subset
  <1>7. DOMAIN g = SUBSET S
    BY <1>5, <1>6 DEF SumTo
  <1>8. SumUp(f, S, [s \in SUBSET S |-> g[s]])
    BY <1>5, <1>6, <1>7, SumPicks, <1>1 DEF SumTo, SumUp
  <1> QED BY <1>8

SumInts(f, S) == \A x \in S : f[x] \in Int
SumLike(f, h, S) == \A x \in S : f[x] = h[x]
SumAny(f, S, g) == \A s \in SUBSET S : g[s] \in Int /\ \A x \in s : g[s] = f[x] + g[s \ {x}]

\* Two sums that see the same values agree, whatever else they are taken over.
LEMMA SumUpAgree ==
    ASSUME NEW S, NEW T \in SUBSET S, IsFiniteSet(S), NEW f, NEW h, SumLike(f, h, T),
           NEW g, SumUp(f, S, g), NEW k, SumUp(h, T, k)
    PROVE  SumLike(g, k, SUBSET T)
  <1> DEFINE G == {n \in Nat : \A s \in SUBSET T : Cardinality(s) <= n => g[s] = k[s]}
  <1>1. \A s \in SUBSET T : IsFiniteSet(s) /\ Cardinality(s) \in Nat /\ s \in SUBSET S
    BY FS_Subset, FS_CardinalityType
  <1>2. 0 \in G
    <2>1. \A s \in SUBSET T : Cardinality(s) <= 0 => s = {}
      BY <1>1, FS_EmptySet
    <2>2. g[{}] = 0 /\ k[{}] = 0
      BY DEF SumUp
    <2> QED BY <2>1, <2>2
  <1>3. ASSUME NEW n \in Nat, n \in G PROVE n + 1 \in G
    <2>1. SUFFICES ASSUME NEW s \in SUBSET T, Cardinality(s) <= n + 1 PROVE g[s] = k[s]
      BY <1>3
    <2>2. CASE s = {}
      BY <2>2 DEF SumUp
    <2>3. CASE s # {}
      <3>1. SumPick(s) \in s /\ Cardinality(s \ {SumPick(s)}) <= n /\ s \ {SumPick(s)} \in SUBSET T
        BY <1>1, <1>3, <2>1, <2>3, SumPicks
      <3>2. g[s \ {SumPick(s)}] = k[s \ {SumPick(s)}]
        BY <1>3, <3>1
      <3>3. g[s] = f[SumPick(s)] + g[s \ {SumPick(s)}]
        BY <1>1, <2>3 DEF SumUp
      <3>4. k[s] = h[SumPick(s)] + k[s \ {SumPick(s)}]
        BY <2>3 DEF SumUp
      <3>5. f[SumPick(s)] = h[SumPick(s)]
        BY <3>1 DEF SumLike
      <3> QED BY <3>2, <3>3, <3>4, <3>5
    <2> QED BY <2>2, <2>3
  <1>4. Nat \subseteq G
    <2> HIDE DEF G
    <2> QED BY <1>2, <1>3, NumbersAll
  <1>5. SUFFICES ASSUME NEW s \in SUBSET T PROVE g[s] = k[s]
    BY DEF SumLike
  <1>6. Cardinality(s) \in G
    BY <1>1, <1>4
  <1> QED BY <1>1, <1>6

\* A sum is a number, and any element may be taken out of it first.
LEMMA SumUpAny ==
    ASSUME NEW S, IsFiniteSet(S), NEW f, SumInts(f, S), NEW g, SumUp(f, S, g)
    PROVE  SumAny(f, S, g)
  <1> DEFINE Apart(s) == g[s] \in Int /\ \A x \in s : g[s] = f[x] + g[s \ {x}]
             G == {n \in Nat : \A s \in SUBSET S : Cardinality(s) <= n => Apart(s)}
  <1>1. \A s \in SUBSET S : IsFiniteSet(s) /\ Cardinality(s) \in Nat
    BY FS_Subset, FS_CardinalityType
  <1>2. g[{}] = 0
    BY DEF SumUp
  <1>3. 0 \in G
    <2>1. \A s \in SUBSET S : Cardinality(s) <= 0 => s = {}
      BY <1>1, FS_EmptySet
    <2>2. Apart({})
      BY <1>2
    <2>3. \A s \in SUBSET S : Cardinality(s) <= 0 => Apart(s)
      <3> HIDE DEF Apart
      <3> QED BY <2>1, <2>2
    <2> QED BY <2>3
  <1>4. ASSUME NEW n \in Nat, n \in G PROVE n + 1 \in G
    <2>0. Apart({})
      BY <1>2
    <2>1. SUFFICES ASSUME NEW s \in SUBSET S, Cardinality(s) <= n + 1, s # {} PROVE Apart(s)
      <3> HIDE DEF Apart
      <3> QED BY <2>0, <1>4
    <2>2. PICK y : y = SumPick(s)
      OBVIOUS
    <2>3. y \in s /\ Cardinality(s \ {y}) <= n
      BY <1>1, <1>4, <2>1, <2>2, SumPicks
    <2>4. g[s] = f[y] + g[s \ {y}]
      BY <2>1, <2>2 DEF SumUp
    <2>5. Apart(s \ {y})
      BY <1>4, <2>3
    <2>6. ASSUME NEW x \in s, x # y PROVE g[s] = f[x] + g[s \ {x}]
      <3>1. g[s \ {y}] = f[x] + g[(s \ {y}) \ {x}]
        BY <2>5, <2>6
      <3>2. Cardinality(s \ {x}) <= n
        BY <1>1, <1>4, <2>1, <2>6, FS_RemoveElement
      <3>3. g[s \ {x}] = f[y] + g[(s \ {x}) \ {y}]
        BY <1>4, <2>3, <2>6, <3>2
      <3>4. (s \ {x}) \ {y} = (s \ {y}) \ {x}
        OBVIOUS
      <3>5. Cardinality((s \ {y}) \ {x}) <= n /\ (s \ {y}) \ {x} \in SUBSET S
        <4>1. Cardinality((s \ {y}) \ {x}) <= Cardinality(s \ {y})
          BY <1>1, FS_Subset
        <4> QED BY <1>1, <1>4, <2>3, <4>1
      <3>6. g[(s \ {y}) \ {x}] \in Int
        BY <1>4, <3>5
      <3>7. f[x] \in Int /\ f[y] \in Int
        BY <2>3 DEF SumInts
      <3>8. PICK c \in Int, fx \in Int, fy \in Int : c = g[(s \ {y}) \ {x}] /\ fx = f[x] /\ fy = f[y]
        BY <3>6, <3>7
      <3>9. g[s \ {y}] = fx + c /\ g[s \ {x}] = fy + c
        BY <3>1, <3>3, <3>4, <3>8
      <3>10. g[s] = fy + (fx + c)
        BY <2>4, <3>8, <3>9
      <3>11. fy + (fx + c) = fx + (fy + c)
        OBVIOUS
      <3> QED BY <3>8, <3>9, <3>10, <3>11
    <2>7. g[s] \in Int
      BY <2>3, <2>4, <2>5 DEF SumInts
    <2> QED BY <2>4, <2>6, <2>7
  <1>5. Nat \subseteq G
    <2> HIDE DEF G
    <2> QED BY <1>3, <1>4, NumbersAll
  <1>6. SUFFICES ASSUME NEW s \in SUBSET S PROVE Apart(s)
    BY DEF SumAny
  <1>7. Cardinality(s) \in G
    BY <1>1, <1>5
  <1> QED BY <1>1, <1>7

-----------------------------------------------------------------------------
(* The sums of the models: of a function over a finite set.                   *)

\* The same terms give the same sum.
LEMMA SumSame ==
    ASSUME NEW S, IsFiniteSet(S), NEW f, NEW h, SumLike(f, h, S)
    PROVE  SumFunctionOnSet(f, S) = SumFunctionOnSet(h, S)
  <1>1. PICK g : SumUp(f, S, g) /\ SumFunctionOnSet(f, S) = g[S]
    BY SumExists, SumUpIs
  <1>2. PICK k : SumUp(h, S, k) /\ SumFunctionOnSet(h, S) = k[S]
    BY SumExists, SumUpIs
  <1>3. S \in SUBSET S
    OBVIOUS
  <1>4. SumLike(g, k, SUBSET S)
    BY <1>1, <1>2, <1>3, SumUpAgree
  <1>5. g[S] = k[S]
    BY <1>3, <1>4 DEF SumLike
  <1> QED BY <1>1, <1>2, <1>5

\* Nothing adds up to 0.
LEMMA SumEmpty == \A f : SumFunctionOnSet(f, {}) = 0
  <1> SUFFICES ASSUME NEW f PROVE SumFunctionOnSet(f, {}) = 0
    OBVIOUS
  <1>1. IsFiniteSet({})
    BY FS_EmptySet
  <1>2. PICK g : SumUp(f, {}, g) /\ SumFunctionOnSet(f, {}) = g[{}]
    BY <1>1, SumExists, SumUpIs
  <1>3. g[{}] = 0
    BY <1>2 DEF SumUp
  <1> QED BY <1>2, <1>3

\* A sum of integers is one, and any term may be taken out of it.
LEMMA SumTakes ==
    ASSUME NEW S, IsFiniteSet(S), NEW f, SumInts(f, S)
    PROVE  /\ SumFunctionOnSet(f, S) \in Int
           /\ \A x \in S : /\ SumFunctionOnSet(f, S \ {x}) \in Int
                           /\ SumFunctionOnSet(f, S) = f[x] + SumFunctionOnSet(f, S \ {x})
  <1>1. PICK g : SumUp(f, S, g) /\ SumFunctionOnSet(f, S) = g[S]
    BY SumExists, SumUpIs
  <1>2. SumAny(f, S, g)
    BY <1>1, SumUpAny
  <1>3. ASSUME NEW T \in SUBSET S PROVE SumFunctionOnSet(f, T) = g[T]
    <2>1. IsFiniteSet(T)
      BY FS_Subset
    <2>2. PICK k : SumUp(f, T, k) /\ SumFunctionOnSet(f, T) = k[T]
      BY <2>1, SumExists, SumUpIs
    <2>3. SumLike(g, k, SUBSET T)
      <3>1. SumLike(f, f, T)
        BY DEF SumLike
      <3> QED BY <1>1, <2>2, <3>1, SumUpAgree
    <2> QED BY <2>2, <2>3 DEF SumLike
  <1>4. \A x \in S : S \ {x} \in SUBSET S
    OBVIOUS
  <1> QED BY <1>1, <1>2, <1>3, <1>4 DEF SumAny

\* A term may be added to it.
LEMMA SumAdds ==
    ASSUME NEW S, IsFiniteSet(S), NEW x, x \notin S, NEW f, SumInts(f, S \cup {x})
    PROVE  SumFunctionOnSet(f, S \cup {x}) = f[x] + SumFunctionOnSet(f, S)
  <1>1. IsFiniteSet(S \cup {x}) /\ (S \cup {x}) \ {x} = S
    BY FS_AddElement
  <1> QED BY <1>1, SumTakes

\* One value changes.
LEMMA SumChanges ==
    ASSUME NEW S, IsFiniteSet(S), NEW x \in S, NEW f, NEW h,
           SumInts(f, S), SumInts(h, S), SumLike(h, f, S \ {x})
    PROVE  /\ SumFunctionOnSet(f, S) \in Int /\ SumFunctionOnSet(h, S) \in Int
           /\ SumFunctionOnSet(h, S) = SumFunctionOnSet(f, S) + (h[x] - f[x])
  <1>1. IsFiniteSet(S \ {x})
    BY FS_RemoveElement
  <1>2. SumFunctionOnSet(h, S \ {x}) = SumFunctionOnSet(f, S \ {x})
    BY <1>1, SumSame
  <1>3. /\ SumFunctionOnSet(f, S) = f[x] + SumFunctionOnSet(f, S \ {x})
        /\ SumFunctionOnSet(h, S) = h[x] + SumFunctionOnSet(h, S \ {x})
        /\ SumFunctionOnSet(f, S \ {x}) \in Int /\ SumFunctionOnSet(f, S) \in Int /\ SumFunctionOnSet(h, S) \in Int
    BY SumTakes
  <1>4. f[x] \in Int /\ h[x] \in Int
    BY DEF SumInts
  <1> QED BY <1>2, <1>3, <1>4

SumAdded(h, f, d, S) == \A x \in S : h[x] = f[x] + d[x]

\* Two functions added up.
LEMMA SumPlus ==
    ASSUME NEW S, IsFiniteSet(S), NEW f, NEW d, NEW h, SumInts(f, S), SumInts(d, S), SumAdded(h, f, d, S)
    PROVE  SumFunctionOnSet(h, S) = SumFunctionOnSet(f, S) + SumFunctionOnSet(d, S)
  <1> DEFINE Is(T) == SumFunctionOnSet(h, T) = SumFunctionOnSet(f, T) + SumFunctionOnSet(d, T)
             G == {n \in Nat : \A T \in SUBSET S : Cardinality(T) = n => Is(T)}
  <1>1. \A T \in SUBSET S : IsFiniteSet(T) /\ Cardinality(T) \in Nat
    BY FS_Subset, FS_CardinalityType
  <1>2. 0 \in G
    <2>1. Is({})
      BY SumEmpty
    <2>2. \A T \in SUBSET S : Cardinality(T) = 0 => T = {}
      BY <1>1, FS_EmptySet
    <2> HIDE DEF Is
    <2> QED BY <2>1, <2>2
  <1>3. ASSUME NEW n \in Nat, n \in G PROVE n + 1 \in G
    <2>1. SUFFICES ASSUME NEW T \in SUBSET S, Cardinality(T) = n + 1 PROVE Is(T)
      BY <1>3
    <2>2. PICK x \in T : TRUE
      <3>1. n + 1 # 0
        BY <1>3
      <3>2. T # {}
        BY <2>1, <3>1, FS_EmptySet
      <3> QED BY <3>2
    <2>3. Cardinality(T \ {x}) = n /\ T \ {x} \in SUBSET S
      <3>1. Cardinality(T \ {x}) = Cardinality(T) - 1
        BY <1>1, <2>1, <2>2, FS_RemoveElement
      <3> QED BY <1>3, <2>1, <3>1
    <2>4. Is(T \ {x})
      BY <1>3, <2>3
    <2>5. /\ SumFunctionOnSet(f, T) = f[x] + SumFunctionOnSet(f, T \ {x}) /\ SumFunctionOnSet(f, T \ {x}) \in Int
      <3>1. SumInts(f, T)
        BY DEF SumInts
      <3> QED BY <1>1, <2>2, <3>1, SumTakes
    <2>6. /\ SumFunctionOnSet(d, T) = d[x] + SumFunctionOnSet(d, T \ {x}) /\ SumFunctionOnSet(d, T \ {x}) \in Int
      <3>1. SumInts(d, T)
        BY DEF SumInts
      <3> QED BY <1>1, <2>2, <3>1, SumTakes
    <2>7. /\ SumFunctionOnSet(h, T) = h[x] + SumFunctionOnSet(h, T \ {x}) /\ SumFunctionOnSet(h, T \ {x}) \in Int
      <3>1. SumInts(h, T)
        BY DEF SumInts, SumAdded
      <3> QED BY <1>1, <2>2, <3>1, SumTakes
    <2>8. f[x] \in Int /\ d[x] \in Int /\ h[x] = f[x] + d[x]
      BY <2>2 DEF SumInts, SumAdded
    <2> QED BY <2>4, <2>5, <2>6, <2>7, <2>8
  <1>4. Nat \subseteq G
    <2> HIDE DEF G
    <2> QED BY <1>2, <1>3, NumbersAll
  <1>5. Cardinality(S) \in G
    BY <1>1, <1>4
  <1> QED BY <1>5

SumNats(f, S) == \A x \in S : f[x] \in Nat

\* Fewer add up to no more.
LEMMA SumMore ==
    ASSUME NEW S, IsFiniteSet(S), NEW f, SumNats(f, S), NEW T \in SUBSET S
    PROVE  /\ SumFunctionOnSet(f, T) \in Nat /\ SumFunctionOnSet(f, S) \in Nat
           /\ SumFunctionOnSet(f, T) <= SumFunctionOnSet(f, S)
  <1> DEFINE Sum(R) == SumFunctionOnSet(f, R)
             Is(R) == Sum(R) \in Nat /\ \A Q \in SUBSET R : Sum(Q) \in Nat /\ Sum(Q) <= Sum(R)
             G == {n \in Nat : \A R \in SUBSET S : Cardinality(R) = n => Is(R)}
  <1>1. \A R \in SUBSET S : IsFiniteSet(R) /\ Cardinality(R) \in Nat
    BY FS_Subset, FS_CardinalityType
  <1>2. 0 \in G
    <2>1. Sum({}) = 0
      BY SumEmpty
    <2> HIDE DEF Sum
    <2>2. Is({})
      BY <2>1
    <2>3. \A R \in SUBSET S : Cardinality(R) = 0 => R = {}
      BY <1>1, FS_EmptySet
    <2> HIDE DEF Is
    <2> QED BY <2>2, <2>3
  <1>3. ASSUME NEW n \in Nat, n \in G PROVE n + 1 \in G
    <2>1. SUFFICES ASSUME NEW R \in SUBSET S, Cardinality(R) = n + 1 PROVE Is(R)
      BY <1>3
    <2>2. SumInts(f, R) /\ IsFiniteSet(R)
      BY <1>1 DEF SumInts, SumNats
    <2>3. ASSUME NEW x \in R PROVE Is(R \ {x}) /\ Sum(R) = f[x] + Sum(R \ {x}) /\ f[x] \in Nat
      <3>1. Cardinality(R \ {x}) = Cardinality(R) - 1
        BY <1>1, <2>1, FS_RemoveElement
      <3>2. Cardinality(R \ {x}) = n /\ R \ {x} \in SUBSET S
        BY <1>3, <2>1, <3>1
      <3>3. Is(R \ {x})
        <4> HIDE DEF Is
        <4> QED BY <1>3, <3>2
      <3>4. Sum(R) = f[x] + Sum(R \ {x})
        BY <2>2, SumTakes
      <3>5. f[x] \in Nat
        BY DEF SumNats
      <3> QED BY <3>3, <3>4, <3>5
    <2>4. Sum(R) \in Nat
      <3>1. PICK x \in R : TRUE
        <4>1. n + 1 # 0
          BY <1>3
        <4>2. R # {}
          BY <2>1, <4>1, FS_EmptySet
        <4> QED BY <4>2
      <3> HIDE DEF Sum
      <3>2. Sum(R \ {x}) \in Nat /\ Sum(R) = f[x] + Sum(R \ {x}) /\ f[x] \in Nat
        BY <2>3
      <3> QED BY <3>2
    <2>5. ASSUME NEW Q \in SUBSET R PROVE Sum(Q) \in Nat /\ Sum(Q) <= Sum(R)
      <3>1. CASE Q = R
        <4> HIDE DEF Sum
        <4> QED BY <2>4, <3>1
      <3>2. CASE Q # R
        <4>1. PICK x \in R : x \notin Q
          BY <3>2
        <4>2. Q \in SUBSET (R \ {x})
          BY <4>1
        <4>3. Is(R \ {x}) /\ Sum(R) = f[x] + Sum(R \ {x}) /\ f[x] \in Nat
          BY <2>3
        <4> HIDE DEF Sum
        <4>4. Sum(Q) \in Nat /\ Sum(R \ {x}) \in Nat /\ Sum(Q) <= Sum(R \ {x})
          BY <4>2, <4>3
        <4> QED BY <4>3, <4>4
      <3> QED BY <3>1, <3>2
    <2> HIDE DEF Sum
    <2> QED BY <2>4, <2>5
  <1>4. Nat \subseteq G
    <2> HIDE DEF G
    <2> QED BY <1>2, <1>3, NumbersAll
  <1>5. Cardinality(S) \in G
    BY <1>1, <1>4
  <1> HIDE DEF Sum
  <1>6. Is(S)
    BY <1>1, <1>5
  <1>7. Sum(T) \in Nat /\ Sum(S) \in Nat /\ Sum(T) <= Sum(S)
    BY <1>6
  <1> QED BY <1>7 DEF Sum

-----------------------------------------------------------------------------
(* The day's and the week's losses.                                           *)

\* What is assumed of the bounds.
LwSized ==
    /\ {LwDays, LwWeek} \subseteq Nat \ {0}
    /\ {LwDayLimit, LwWeekLimit, LwStep, LwFills, LwReleases, LwMishaps} \subseteq Nat

\* What the proof keeps of the loss window.
LwDayFns == UNION {[D -> Int] : D \in SUBSET LwAllDays}
LwFloors == [on : BOOLEAN, day : Nat, level : Int]
LwWindows == [on : BOOLEAN, day : Nat, held : LwDayFns]
LwMemType ==
    [up : BOOLEAN, day : LwAllDays, daily : Int, weekly : Int, prior : LwDayFns, ks : BOOLEAN,
      unsaved : BOOLEAN,
     floor : LwFloors, window : LwWindows, unwritten : BOOLEAN, seen : Nat]
LwRunType == [at : {"idle", "write", "note"}, fill : BOOLEAN, was : BOOLEAN, missed : BOOLEAN]
LwRowType == [made : BOOLEAN, daily : Int, ks : BOOLEAN]
LwKeptType == [day : Nat, floor : LwFloors, window : LwWindows, seen : Nat]
LwAcceptedType == [day : Nat, pnl : LwDayFns, kept : BOOLEAN, lost : BOOLEAN]
LwTyped ==
    /\ lwToday \in LwAllDays /\ lwMem \in LwMemType /\ lwMem.day <= lwToday
    /\ lwRun \in LwRunType /\ (lwMem.up \/ lwRun = LwIdle)
    /\ lwRows \in [LwAllDays -> LwRowType] /\ lwRedis \in LwDayFns
    /\ lwReleased \in Seq(Nat) /\ Len(lwReleased) <= LwReleases
    /\ lwKept \in LwKeptType
    /\ lwMem.seen <= Len(lwReleased) /\ lwKept.seen <= Len(lwReleased)
    /\ lwMishaps \in [all : Nat, failed : Nat]
    /\ lwPnl \in [LwAllDays -> Int] /\ lwAccepted \in LwAcceptedType
    /\ {lwHalted, lwCut, lwForgotten, lwLate} \subseteq BOOLEAN

\* No day has anything before it comes, and a row that is halted was written.
LwBeyond(day) ==
    \A d \in LwAllDays : d > day => lwPnl[d] = 0 /\ ~lwRows[d].made /\ d \notin DOMAIN lwRedis
LwHorizon == IF lwMem.up THEN lwMem.day ELSE lwToday
LwKsMade == \A d \in LwAllDays : lwRows[d].ks => lwRows[d].made

\* The week is the earlier days and today.
LwAdds(m) == m.weekly = LwSum(m.prior) + m.daily /\ DOMAIN m.prior \subseteq LwWeekOf(m.day) \ {m.day}

\* A halt is in memory, and in a row or not yet written.
LwAnyKs == \E d \in LwAllDays : lwRows[d].ks
LwHalts ==
    IF lwMem.up
    THEN /\ lwMem.unsaved => lwMem.ks
         /\ LwAnyKs => lwMem.ks
         /\ ~lwMem.unsaved /\ lwRows[lwToday].made /\ LwAnyKs => lwRows[lwToday].ks
         /\ lwHalted /\ ~lwCut => lwMem.ks /\ (lwMem.unsaved \/ LwAnyKs)
    ELSE lwHalted /\ ~lwCut => LwAnyKs

\* One of the stores has a number as bad as the day.
LwPendingFill == lwRun.at = "write" /\ lwRun.fill
LwHeld ==
    \/ LwStored = {} /\ lwPnl[lwToday] = 0
    \/ \E v \in LwStored : v <= lwPnl[lwToday]
LwStores ==
    ~lwForgotten =>
        /\ lwMem.up => lwMem.daily <= lwPnl[lwMem.day]
        /\ ~LwPendingFill /\ ~lwRun.missed => LwHeld

\* While all is written, memory and the stores have what was made and lost.
LwFigures(figs, m) ==
    /\ m.daily = figs[m.day]
    /\ \A d \in LwWeekOf(m.day) \ {m.day} : IF d \in DOMAIN m.prior THEN m.prior[d] = figs[d] ELSE figs[d] = 0
LwOnFile(d) ==
    /\ IF lwRows[d].made THEN lwRows[d].daily = lwPnl[d] ELSE lwPnl[d] = 0
    /\ d \in DOMAIN lwRedis => lwRedis[d] = lwPnl[d]
LwTold ==
    LwClean =>
        /\ lwMem.up => LwFigures(lwPnl, lwMem)
        /\ \A d \in LwAllDays : (LwPendingFill /\ d = lwMem.day) \/ LwOnFile(d)

\* The floors are what was accepted.
LwFitsWindow(held, figs) ==
    /\ DOMAIN held \subseteq DOMAIN figs
    /\ \A d \in DOMAIN figs : IF d \in DOMAIN held THEN held[d] = figs[d] ELSE figs[d] = 0
LwDayAccepted(acc, day) == acc.day = day /\ acc.pnl[day] < -LwDayLimit
LwWeekAccepted(acc, day) == acc.day # 0 /\ LwInWeek(acc.day, day) /\ LwSum(acc.pnl) < -LwWeekLimit
LwFits(acc, floor, window, day) ==
    /\ LwDayAccepted(acc, day) <=> floor.on /\ floor.day = day
    /\ LwDayAccepted(acc, day) => floor.level = acc.pnl[day] - LwStep
    /\ LwWeekAccepted(acc, day) <=> window.on /\ LwInWeek(window.day, day)
    /\ LwWeekAccepted(acc, day) => window.day = acc.day /\ LwFitsWindow(window.held, acc.pnl)
    /\ floor.on => floor.day <= day
    /\ window.on => window.day <= day
LwAcceptedOf ==
    /\ lwAccepted.day <= LwHorizon
    /\ lwAccepted.day # 0 => DOMAIN lwAccepted.pnl = LwWeekOf(lwAccepted.day)
LwKeptDays ==
    /\ lwKept.day <= lwToday
    /\ lwKept.floor.on => lwKept.floor.day <= lwKept.day
    /\ lwKept.window.on => lwKept.window.day <= lwKept.day
LwFloorDays ==
    /\ lwMem.floor.on => lwMem.floor.day <= lwMem.day
    /\ lwMem.window.on => lwMem.window.day <= lwMem.day
LwAllowed ==
    LwClean /\ ~lwAccepted.lost =>
        /\ lwMem.up => LwFits(lwAccepted, lwMem.floor, lwMem.window, lwMem.day)
        /\ lwAccepted.kept => LwFits(lwAccepted, lwKept.floor, lwKept.window, lwToday)

LwFiled == LwKsMade /\ LwHalts /\ LwStores /\ LwTold
LwReleasedWell == LwAcceptedOf /\ LwKeptDays /\ LwFloorDays /\ LwAllowed
LwInductive ==
    LwTyped /\ LwBeyond(LwHorizon) /\ LwAdds(lwMem) /\ LwFiled /\ LwReleasedWell /\ LwDecidesRight

\* Terms of nothing may be left out of a sum.
LEMMA SumZeros ==
    ASSUME NEW T, IsFiniteSet(T), NEW S \in SUBSET T, NEW f, NEW h, SumInts(h, T), SumLike(f, h, S),
           \A x \in T \ S : h[x] = 0
    PROVE  SumFunctionOnSet(f, S) = SumFunctionOnSet(h, T)
  <1> DEFINE G == {n \in Nat : \A R \in SUBSET T : S \subseteq R /\ Cardinality(R \ S) = n =>
                                  SumFunctionOnSet(h, R) = SumFunctionOnSet(h, S)}
  <1>1. \A R \in SUBSET T : IsFiniteSet(R) /\ IsFiniteSet(R \ S) /\ Cardinality(R \ S) \in Nat
    <2>1. \A R \in SUBSET T : R \ S \in SUBSET T
      OBVIOUS
    <2> QED BY <2>1, FS_Subset, FS_CardinalityType
  <1>2. 0 \in G
    <2>1. \A R \in SUBSET T : S \subseteq R /\ Cardinality(R \ S) = 0 => R = S
      BY <1>1, FS_EmptySet
    <2> QED BY <2>1
  <1>3. ASSUME NEW n \in Nat, n \in G PROVE n + 1 \in G
    <2>1. SUFFICES ASSUME NEW R \in SUBSET T, S \subseteq R, Cardinality(R \ S) = n + 1
                   PROVE  SumFunctionOnSet(h, R) = SumFunctionOnSet(h, S)
      BY <1>3
    <2>2. PICK x \in R \ S : TRUE
      <3>1. n + 1 # 0
        BY <1>3
      <3>2. R \ S # {}
        BY <2>1, <3>1, FS_EmptySet
      <3> QED BY <3>2
    <2>3. (R \ {x}) \ S = (R \ S) \ {x} /\ R \ {x} \in SUBSET T /\ S \subseteq R \ {x}
      BY <2>1, <2>2
    <2>4. Cardinality((R \ S) \ {x}) = n
      <3>1. Cardinality((R \ S) \ {x}) = Cardinality(R \ S) - 1
        BY <1>1, <2>2, FS_RemoveElement
      <3> QED BY <2>1, <3>1
    <2>5. SumFunctionOnSet(h, R \ {x}) = SumFunctionOnSet(h, S)
      BY <1>3, <2>3, <2>4
    <2>6. SumInts(h, R) /\ h[x] = 0
      BY <2>1, <2>2 DEF SumInts
    <2>7. SumFunctionOnSet(h, R \ {x}) \in Int /\ SumFunctionOnSet(h, R) = h[x] + SumFunctionOnSet(h, R \ {x})
      BY <1>1, <2>2, <2>6, SumTakes
    <2> QED BY <2>5, <2>6, <2>7
  <1>4. Nat \subseteq G
    <2> HIDE DEF G
    <2> QED BY <1>2, <1>3, NumbersAll
  <1>5. Cardinality(T \ S) \in G
    BY <1>1, <1>4
  <1>6. SumFunctionOnSet(h, T) = SumFunctionOnSet(h, S)
    BY <1>5
  <1>7. IsFiniteSet(S)
    BY <1>1
  <1> QED BY <1>6, <1>7, SumSame

\* The risk days, and the figures kept by day.
LEMMA LwDaysAre ==
    ASSUME LwSized
    PROVE  /\ LwDays \in Nat /\ LwWeek \in Nat /\ LwWeek # 0 /\ LwDays # 0 /\ 1 \in LwAllDays
           /\ {LwDayLimit, LwWeekLimit, LwStep} \subseteq Nat
           /\ \A d \in LwAllDays : d \in Nat /\ d # 0
           /\ \A S \in SUBSET LwAllDays : IsFiniteSet(S)
  <1>1. LwDays \in Nat /\ LwWeek \in Nat /\ LwWeek # 0 /\ LwDays # 0
    BY DEF LwSized
  <1>2. LwAllDays = 1..LwDays /\ IsFiniteSet(LwAllDays)
    BY <1>1, FS_Interval DEF LwAllDays
  <1>3. \A S \in SUBSET LwAllDays : IsFiniteSet(S)
    BY <1>2, FS_Subset
  <1> QED BY <1>1, <1>2, <1>3 DEF LwSized

\* Figures by day: a number for each of finitely many days, with a sum.
LEMMA LwFnIs ==
    ASSUME LwSized, NEW f \in LwDayFns
    PROVE  /\ DOMAIN f \subseteq LwAllDays /\ IsFiniteSet(DOMAIN f) /\ f = [d \in DOMAIN f |-> f[d]]
           /\ \A d \in DOMAIN f : f[d] \in Int
           /\ SumInts(f, DOMAIN f) /\ LwSum(f) \in Int
  <1>1. PICK D \in SUBSET LwAllDays : f \in [D -> Int]
    BY DEF LwDayFns
  <1>2. DOMAIN f \subseteq LwAllDays /\ f = [d \in DOMAIN f |-> f[d]] /\ \A d \in DOMAIN f : f[d] \in Int
    BY <1>1
  <1>3. IsFiniteSet(DOMAIN f)
    BY <1>2, LwDaysAre
  <1>4. SumInts(f, DOMAIN f)
    BY <1>2 DEF SumInts
  <1>5. LwSum(f) = SumFunctionOnSet(f, DOMAIN f)
    BY DEF LwSum, SumFunction
  <1> QED BY <1>2, <1>3, <1>4, <1>5, SumTakes

\* What is made day by day is such a function,
LEMMA LwFnMade ==
    ASSUME NEW D \in SUBSET LwAllDays, NEW f \in [D -> Int]
    PROVE  f \in LwDayFns /\ DOMAIN f = D
  BY DEF LwDayFns

\* with one more day too,
LEMMA LwWithIs ==
    ASSUME NEW f \in LwDayFns, NEW d \in LwAllDays, NEW n \in Int
    PROVE  /\ LwWith(f, d, n) \in LwDayFns /\ DOMAIN LwWith(f, d, n) = DOMAIN f \union {d}
           /\ LwWith(f, d, n)[d] = n
           /\ \A e : e \in DOMAIN f /\ e # d => LwWith(f, d, n)[e] = f[e]
  <1>1. PICK D \in SUBSET LwAllDays : f \in [D -> Int]
    BY DEF LwDayFns
  <1>2. LwWith(f, d, n) \in [D \union {d} -> Int] /\ D \union {d} \in SUBSET LwAllDays
    BY <1>1 DEF LwWith
  <1>3. LwWith(f, d, n) \in LwDayFns /\ DOMAIN LwWith(f, d, n) = D \union {d}
    BY <1>2, LwFnMade
  <1> QED BY <1>1, <1>3 DEF LwWith

\* and for fewer days,
LEMMA LwRestrictIs ==
    ASSUME NEW f \in LwDayFns, NEW S \in SUBSET DOMAIN f
    PROVE  /\ Restrict(f, S) \in LwDayFns /\ DOMAIN Restrict(f, S) = S
           /\ \A e : e \in S => Restrict(f, S)[e] = f[e]
  <1>1. PICK D \in SUBSET LwAllDays : f \in [D -> Int]
    BY DEF LwDayFns
  <1>2. Restrict(f, S) \in [S -> Int] /\ S \in SUBSET LwAllDays
    BY <1>1 DEF Restrict
  <1> QED BY <1>2, LwFnMade DEF Restrict

\* and for none.
LEMMA LwNothingIs == ASSUME LwSized PROVE LwNothing \in LwDayFns /\ DOMAIN LwNothing = {}
  /\ LwSum(LwNothing) = 0
  <1>1. LwNothing \in [{} -> Int] /\ {} \in SUBSET LwAllDays
    BY DEF LwNothing
  <1>2. LwNothing \in LwDayFns /\ DOMAIN LwNothing = {}
    BY <1>1, LwFnMade
  <1> QED BY <1>2, SumEmpty DEF LwSum, SumFunction

\* The same figures, but for days of nothing, add up to the same.
LEMMA LwFitsSum ==
    ASSUME LwSized, NEW a \in LwDayFns, NEW b \in LwDayFns, LwFitsWindow(a, b)
    PROVE  LwSum(a) = LwSum(b)
  <1>1. IsFiniteSet(DOMAIN b) /\ SumInts(b, DOMAIN b)
    BY LwFnIs
  <1>2. DOMAIN a \in SUBSET DOMAIN b /\ SumLike(a, b, DOMAIN a) /\ \A x \in DOMAIN b \ DOMAIN a : b[x] = 0
    BY DEF LwFitsWindow, SumLike
  <1> QED BY <1>1, <1>2, SumZeros DEF LwSum, SumFunction
LwPart(f, W) == Restrict(f, DOMAIN f \intersect W)

\* So do the days of them that are in a set.
LEMMA LwFitsSumIn ==
    ASSUME LwSized, NEW f \in LwDayFns, NEW h \in LwDayFns, LwFitsWindow(f, h), NEW W
    PROVE  LwSum(LwPart(f, W)) = LwSum(LwPart(h, W))
  <1> DEFINE a == LwPart(f, W)  b == LwPart(h, W)
  <1>1. /\ a \in LwDayFns /\ DOMAIN a = DOMAIN f \intersect W /\ \A e \in DOMAIN f \intersect W : a[e] = f[e]
        /\ b \in LwDayFns /\ DOMAIN b = DOMAIN h \intersect W /\ \A e \in DOMAIN h \intersect W : b[e] = h[e]
    BY LwRestrictIs DEF LwPart
  <1> HIDE DEF a, b
  <1>2. LwFitsWindow(a, b)
    BY <1>1 DEF LwFitsWindow
  <1>3. LwSum(a) = LwSum(b)
    BY <1>1, <1>2, LwFitsSum
  <1> QED BY <1>3 DEF a, b

\* What is the same of two trackers, and what a tracker's fields are.
LwSameDay(n, m) == n.up = m.up /\ n.day = m.day /\ n.daily = m.daily /\ n.weekly = m.weekly /\ n.prior = m.prior
LwSameFloors(n, m) == n.floor = m.floor /\ n.window = m.window /\ n.unwritten = m.unwritten
LwSameFlag(n, m) == n.ks = m.ks /\ n.unsaved = m.unsaved

\* The parts of a tracker are of their types.
LEMMA LwFieldsAre ==
    ASSUME NEW m \in LwMemType
    PROVE  /\ m.up \in BOOLEAN /\ m.day \in LwAllDays /\ m.daily \in Int /\ m.weekly \in Int
                /\ m.prior \in LwDayFns
           /\ m.ks \in BOOLEAN /\ m.unsaved \in BOOLEAN /\ m.floor \in LwFloors /\ m.window \in LwWindows
           /\ m.unwritten \in BOOLEAN /\ m.seen \in Nat
  BY DEF LwMemType
LwKs(m, k) == [m EXCEPT !.ks = k]
LwUnsaved(m, k) == [m EXCEPT !.unsaved = k]
LwSeen(m, s) == [m EXCEPT !.seen = s]
LwNoted(m, s) == [m EXCEPT !.unwritten = FALSE, !.seen = s]
LwHalted(m) == [m EXCEPT !.ks = TRUE, !.unsaved = TRUE]
LwPaid(m, x, y) == [m EXCEPT !.daily = x, !.weekly = y]
LwDated(m, d, p, w) == [m EXCEPT !.day = d, !.daily = 0, !.prior = p, !.weekly = w]
LwFloored(m, f, w) == [m EXCEPT !.unwritten = TRUE, !.floor = f, !.window = w]

\* The same tracker but for the halt,
LEMMA LwKsIs ==
    ASSUME NEW m \in LwMemType, NEW k \in BOOLEAN, NEW n, n = LwKs(m, k)
    PROVE  /\ n \in LwMemType /\ LwSameDay(n, m) /\ LwSameFloors(n, m) /\ n.ks = k
           /\ n.unsaved = m.unsaved /\ n.seen = m.seen
  <1>1. n = [up |-> m.up, day |-> m.day, daily |-> m.daily, weekly |-> m.weekly, prior |-> m.prior,
          ks |-> k, unsaved |-> m.unsaved, floor |-> m.floor, window |-> m.window,
          unwritten |-> m.unwritten, seen |-> m.seen]
    BY DEF LwMemType, LwKs
  <1>2. n \in LwMemType
    BY <1>1, LwFieldsAre DEF LwMemType
  <1>3. n.up = m.up /\ n.day = m.day /\ n.daily = m.daily
    BY <1>1
  <1>4. n.weekly = m.weekly /\ n.prior = m.prior
    BY <1>1
  <1>5. n.ks = k /\ n.unsaved = m.unsaved
    BY <1>1
  <1>6. n.floor = m.floor /\ n.window = m.window
    BY <1>1
  <1>7. n.unwritten = m.unwritten /\ n.seen = m.seen
    BY <1>1
  <1> QED BY <1>2, <1>3, <1>4, <1>5, <1>6, <1>7 DEF LwSameDay, LwSameFloors

\* for what is to be written of it,
LEMMA LwUnsavedIs ==
    ASSUME NEW m \in LwMemType, NEW k \in BOOLEAN, NEW n, n = LwUnsaved(m, k)
    PROVE  /\ n \in LwMemType /\ LwSameDay(n, m) /\ LwSameFloors(n, m) /\ n.ks = m.ks
           /\ n.unsaved = k /\ n.seen = m.seen
  <1>1. n = [up |-> m.up, day |-> m.day, daily |-> m.daily, weekly |-> m.weekly, prior |-> m.prior,
          ks |-> m.ks, unsaved |-> k, floor |-> m.floor, window |-> m.window, unwritten |-> m.unwritten,
          seen |-> m.seen]
    BY DEF LwMemType, LwUnsaved
  <1>2. n \in LwMemType
    BY <1>1, LwFieldsAre DEF LwMemType
  <1>3. n.up = m.up /\ n.day = m.day /\ n.daily = m.daily
    BY <1>1
  <1>4. n.weekly = m.weekly /\ n.prior = m.prior
    BY <1>1
  <1>5. n.ks = m.ks /\ n.unsaved = k
    BY <1>1
  <1>6. n.floor = m.floor /\ n.window = m.window
    BY <1>1
  <1>7. n.unwritten = m.unwritten /\ n.seen = m.seen
    BY <1>1
  <1> QED BY <1>2, <1>3, <1>4, <1>5, <1>6, <1>7 DEF LwSameDay, LwSameFloors

\* for the releases seen,
LEMMA LwSeenIs ==
    ASSUME NEW m \in LwMemType, NEW s \in Nat, NEW n, n = LwSeen(m, s)
    PROVE  /\ n \in LwMemType /\ LwSameDay(n, m) /\ LwSameFloors(n, m) /\ LwSameFlag(n, m)
           /\ n.seen = s
  <1>1. n = [up |-> m.up, day |-> m.day, daily |-> m.daily, weekly |-> m.weekly, prior |-> m.prior,
          ks |-> m.ks, unsaved |-> m.unsaved, floor |-> m.floor, window |-> m.window,
          unwritten |-> m.unwritten, seen |-> s]
    BY DEF LwMemType, LwSeen
  <1>2. n \in LwMemType
    BY <1>1, LwFieldsAre DEF LwMemType
  <1>3. n.up = m.up /\ n.day = m.day /\ n.daily = m.daily
    BY <1>1
  <1>4. n.weekly = m.weekly /\ n.prior = m.prior
    BY <1>1
  <1>5. n.ks = m.ks /\ n.unsaved = m.unsaved
    BY <1>1
  <1>6. n.floor = m.floor /\ n.window = m.window
    BY <1>1
  <1>7. n.unwritten = m.unwritten /\ n.seen = s
    BY <1>1
  <1> QED BY <1>2, <1>3, <1>4, <1>5, <1>6, <1>7 DEF LwSameDay, LwSameFloors, LwSameFlag

\* for what is on record,
LEMMA LwNotedIs ==
    ASSUME NEW m \in LwMemType, NEW s \in Nat, NEW n, n = LwNoted(m, s)
    PROVE  /\ n \in LwMemType /\ LwSameDay(n, m) /\ n.floor = m.floor /\ n.window = m.window
           /\ LwSameFlag(n, m) /\ n.seen = s
  <1>1. n = [up |-> m.up, day |-> m.day, daily |-> m.daily, weekly |-> m.weekly, prior |-> m.prior,
          ks |-> m.ks, unsaved |-> m.unsaved, floor |-> m.floor, window |-> m.window, unwritten |-> FALSE,
          seen |-> s]
    BY DEF LwMemType, LwNoted
  <1>2. n \in LwMemType
    BY <1>1, LwFieldsAre DEF LwMemType
  <1>3. n.up = m.up /\ n.day = m.day /\ n.daily = m.daily
    BY <1>1
  <1>4. n.weekly = m.weekly /\ n.prior = m.prior
    BY <1>1
  <1>5. n.ks = m.ks /\ n.unsaved = m.unsaved
    BY <1>1
  <1>6. n.floor = m.floor /\ n.window = m.window
    BY <1>1
  <1>7. n.unwritten = FALSE /\ n.seen = s
    BY <1>1
  <1> QED BY <1>2, <1>3, <1>4, <1>5, <1>6, <1>7 DEF LwSameDay, LwSameFlag

\* halted,
LEMMA LwHaltedIs ==
    ASSUME NEW m \in LwMemType, NEW n, n = LwHalted(m)
    PROVE  /\ n \in LwMemType /\ LwSameDay(n, m) /\ LwSameFloors(n, m) /\ n.ks
           /\ n.unsaved /\ n.seen = m.seen
  <1>1. n = [up |-> m.up, day |-> m.day, daily |-> m.daily, weekly |-> m.weekly, prior |-> m.prior,
          ks |-> TRUE, unsaved |-> TRUE, floor |-> m.floor, window |-> m.window, unwritten |-> m.unwritten,
          seen |-> m.seen]
    BY DEF LwMemType, LwHalted
  <1>2. n \in LwMemType
    BY <1>1, LwFieldsAre DEF LwMemType
  <1>3. n.up = m.up /\ n.day = m.day /\ n.daily = m.daily
    BY <1>1
  <1>4. n.weekly = m.weekly /\ n.prior = m.prior
    BY <1>1
  <1>5. n.ks = TRUE /\ n.unsaved = TRUE
    BY <1>1
  <1>6. n.floor = m.floor /\ n.window = m.window
    BY <1>1
  <1>7. n.unwritten = m.unwritten /\ n.seen = m.seen
    BY <1>1
  <1> QED BY <1>2, <1>3, <1>4, <1>5, <1>6, <1>7 DEF LwSameDay, LwSameFloors

\* with other figures,
LEMMA LwPaidIs ==
    ASSUME NEW m \in LwMemType, NEW x \in Int, NEW y \in Int, NEW n, n = LwPaid(m, x, y)
    PROVE  /\ n \in LwMemType /\ n.up = m.up /\ n.day = m.day /\ n.daily = x /\ n.weekly = y
                /\ n.prior = m.prior
           /\ LwSameFloors(n, m) /\ LwSameFlag(n, m) /\ n.seen = m.seen
  <1>1. n = [up |-> m.up, day |-> m.day, daily |-> x, weekly |-> y, prior |-> m.prior, ks |-> m.ks,
          unsaved |-> m.unsaved, floor |-> m.floor, window |-> m.window, unwritten |-> m.unwritten,
          seen |-> m.seen]
    BY DEF LwMemType, LwPaid
  <1>2. n \in LwMemType
    BY <1>1, LwFieldsAre DEF LwMemType
  <1>3. n.up = m.up /\ n.day = m.day /\ n.daily = x
    BY <1>1
  <1>4. n.weekly = y /\ n.prior = m.prior
    BY <1>1
  <1>5. n.ks = m.ks /\ n.unsaved = m.unsaved
    BY <1>1
  <1>6. n.floor = m.floor /\ n.window = m.window
    BY <1>1
  <1>7. n.unwritten = m.unwritten /\ n.seen = m.seen
    BY <1>1
  <1> QED BY <1>2, <1>3, <1>4, <1>5, <1>6, <1>7 DEF LwSameFloors, LwSameFlag

\* on another day,
LEMMA LwDatedIs ==
    ASSUME NEW m \in LwMemType, NEW d \in LwAllDays, NEW p \in LwDayFns, NEW w \in Int, NEW n,
             n = LwDated(m, d, p, w)
    PROVE  /\ n \in LwMemType /\ n.up = m.up /\ n.day = d /\ n.daily = 0 /\ n.weekly = w /\ n.prior = p
           /\ LwSameFloors(n, m) /\ LwSameFlag(n, m) /\ n.seen = m.seen
  <1>1. n = [up |-> m.up, day |-> d, daily |-> 0, weekly |-> w, prior |-> p, ks |-> m.ks,
          unsaved |-> m.unsaved, floor |-> m.floor, window |-> m.window, unwritten |-> m.unwritten,
          seen |-> m.seen]
    BY DEF LwMemType, LwDated
  <1>2. n \in LwMemType
    BY <1>1, LwFieldsAre DEF LwMemType
  <1>3. n.up = m.up /\ n.day = d /\ n.daily = 0
    BY <1>1
  <1>4. n.weekly = w /\ n.prior = p
    BY <1>1
  <1>5. n.ks = m.ks /\ n.unsaved = m.unsaved
    BY <1>1
  <1>6. n.floor = m.floor /\ n.window = m.window
    BY <1>1
  <1>7. n.unwritten = m.unwritten /\ n.seen = m.seen
    BY <1>1
  <1> QED BY <1>2, <1>3, <1>4, <1>5, <1>6, <1>7 DEF LwSameFloors, LwSameFlag

\* and with other floors.
LEMMA LwFlooredIs ==
    ASSUME NEW m \in LwMemType, NEW f \in LwFloors, NEW w \in LwWindows, NEW n, n = LwFloored(m, f, w)
    PROVE  /\ n \in LwMemType /\ LwSameDay(n, m) /\ n.floor = f /\ n.window = w
           /\ LwSameFlag(n, m) /\ n.seen = m.seen
  <1>1. n = [up |-> m.up, day |-> m.day, daily |-> m.daily, weekly |-> m.weekly, prior |-> m.prior,
          ks |-> m.ks, unsaved |-> m.unsaved, floor |-> f, window |-> w, unwritten |-> TRUE, seen |-> m.seen]
    BY DEF LwMemType, LwFloored
  <1>2. n \in LwMemType
    BY <1>1, LwFieldsAre DEF LwMemType
  <1>3. n.up = m.up /\ n.day = m.day /\ n.daily = m.daily
    BY <1>1
  <1>4. n.weekly = m.weekly /\ n.prior = m.prior
    BY <1>1
  <1>5. n.ks = m.ks /\ n.unsaved = m.unsaved
    BY <1>1
  <1>6. n.floor = f /\ n.window = w
    BY <1>1
  <1>7. n.unwritten = TRUE /\ n.seen = m.seen
    BY <1>1
  <1> QED BY <1>2, <1>3, <1>4, <1>5, <1>6, <1>7 DEF LwSameDay, LwSameFlag

\* The week and the days in it.
LEMMA LwWeekIs ==
    ASSUME LwSized
    PROVE  /\ \A t : LwWeekOf(t) = {d \in LwAllDays : LwInWeek(d, t)}
           /\ \A t \in LwAllDays : t \in LwWeekOf(t) /\ LwInWeek(t, t)
           /\ \A t, u \in LwAllDays, d \in Nat : d <= t /\ t <= u /\ LwInWeek(d, u) => LwInWeek(d, t)
           /\ \A t : LwWeekOf(t) \subseteq LwAllDays
           /\ \A d, t : LwInWeek(d, t) => d <= t
  BY LwDaysAre DEF LwWeekOf, LwInWeek

\* roll_over.
LEMMA LwRolledIs ==
    ASSUME LwSized, lwToday \in LwAllDays, NEW m \in LwMemType, m.day <= lwToday, LwAdds(m), NEW r,
             r = LwRolled(m)
    PROVE  /\ r \in LwMemType /\ r.up = m.up /\ r.day = lwToday /\ LwAdds(r)
           /\ LwSameFloors(r, m) /\ LwSameFlag(r, m) /\ r.seen = m.seen
           /\ m.day = lwToday => r = m
           /\ m.day # lwToday => r.daily = 0
           /\ m.day # lwToday =>
                 /\ DOMAIN r.prior = {d \in DOMAIN m.prior \union {m.day} : d < lwToday /\ LwInWeek(d, lwToday)}
                 /\ \A d \in DOMAIN r.prior : r.prior[d] = IF d = m.day THEN m.daily ELSE m.prior[d]
  <1> DEFINE days == LwWith(m.prior, m.day, LwShare(m))
             S == {d \in DOMAIN days : d < lwToday /\ LwInWeek(d, lwToday)}
             p == Restrict(days, S)
  <1>1. /\ m.day \in LwAllDays /\ m.daily \in Int /\ m.weekly \in Int /\ m.prior \in LwDayFns
    BY LwFieldsAre
  <1>2. LwSum(m.prior) \in Int /\ DOMAIN m.prior \subseteq LwAllDays
    BY <1>1, LwFnIs
  <1>3. LwShare(m) = m.daily
    BY <1>1, <1>2 DEF LwShare, LwAdds
  <1>4. /\ days \in LwDayFns /\ DOMAIN days = DOMAIN m.prior \union {m.day}
        /\ days[m.day] = m.daily /\ \A e \in DOMAIN m.prior \ {m.day} : days[e] = m.prior[e]
    <2>1. PICK g \in LwDayFns, c \in LwAllDays, n \in Int : g = m.prior /\ c = m.day /\ n = m.daily
      BY <1>1
    <2>2. days = LwWith(g, c, n)
      BY <1>3, <2>1
    <2> HIDE DEF days
    <2>3. /\ LwWith(g, c, n) \in LwDayFns /\ DOMAIN LwWith(g, c, n) = DOMAIN g \union {c}
          /\ LwWith(g, c, n)[c] = n
          /\ \A e : e \in DOMAIN g /\ e # c => LwWith(g, c, n)[e] = g[e]
      BY LwWithIs
    <2> QED BY <2>1, <2>2, <2>3
  <1>5. /\ p \in LwDayFns /\ DOMAIN p = S /\ \A e \in S : p[e] = days[e]
    BY <1>4, LwRestrictIs
  <1>6. r = IF m.day = lwToday THEN m ELSE [m EXCEPT !.day = lwToday, !.daily = 0, !.prior = p,
          !.weekly = LwSum(p)]
    BY DEF LwRolled
  <1>7. CASE m.day = lwToday
    BY <1>6, <1>7 DEF LwSameFloors, LwSameFlag
  <1>8. CASE m.day # lwToday
    <2>1. LwSum(p) \in Int
      BY <1>5, LwFnIs
    <2> HIDE DEF p
    <2>2. /\ r \in LwMemType /\ LwSameFloors(r, m) /\ LwSameFlag(r, m) /\ r.seen = m.seen
          /\ r.up = m.up /\ r.day = lwToday /\ r.prior = p /\ r.daily = 0 /\ r.weekly = LwSum(p)
      <3>1. PICK d \in LwAllDays, q \in LwDayFns, w \in Int : d = lwToday /\ q = p /\ w = LwSum(p)
        BY <1>5, <2>1
      <3>2. r = LwDated(m, d, q, w)
        BY <1>6, <1>8, <3>1 DEF LwDated
      <3> QED BY <3>1, <3>2, LwDatedIs
    <2>3. DOMAIN p = {d \in DOMAIN m.prior \union {m.day} : d < lwToday /\ LwInWeek(d, lwToday)}
      BY <1>4, <1>5
    <2>4. \A d \in DOMAIN p : p[d] = IF d = m.day THEN m.daily ELSE m.prior[d]
      BY <1>4, <1>5
    <2>5. LwAdds(r)
      <3>1. DOMAIN p \subseteq LwWeekOf(lwToday) \ {lwToday}
        <4>1. \A d \in DOMAIN p : d \in LwAllDays /\ d < lwToday /\ LwInWeek(d, lwToday)
          BY <1>1, <1>2, <2>3
        <4>2. \A d \in LwAllDays : d < lwToday => d # lwToday
          BY LwDaysAre
        <4> QED BY <4>1, <4>2, LwWeekIs
      <3> QED BY <2>1, <2>2, <3>1 DEF LwAdds
    <2> QED BY <1>8, <2>2, <2>3, <2>4, <2>5
  <1> QED BY <1>7, <1>8

\* What the tracker's figures are, if they are the fills'.
LEMMA LwRolledFigures ==
    ASSUME LwSized, lwToday \in LwAllDays, NEW m \in LwMemType, m.day <= lwToday, LwAdds(m),
             LwFigures(lwPnl, m),
           LwBeyond(m.day), NEW r, r = LwRolled(m)
    PROVE  LwFigures(lwPnl, r)
  <1>1. CASE m.day = lwToday
    BY <1>1, LwRolledIs
  <1>2. CASE m.day # lwToday
    <2>1. /\ r.day = lwToday /\ r.daily = 0 /\ m.day \in LwAllDays
          /\ DOMAIN r.prior = {d \in DOMAIN m.prior \union {m.day} : d < lwToday /\ LwInWeek(d, lwToday)}
          /\ \A d \in DOMAIN r.prior : r.prior[d] = IF d = m.day THEN m.daily ELSE m.prior[d]
      BY <1>2, LwRolledIs, LwFieldsAre
    <2>2. m.day < lwToday /\ \A d \in LwAllDays : d \in Nat
      BY <1>2, <2>1, LwDaysAre
    <2>3. lwPnl[lwToday] = 0 /\ \A d \in LwAllDays : d > m.day => lwPnl[d] = 0
      BY <2>2 DEF LwBeyond
    <2>4. ASSUME NEW d \in LwWeekOf(lwToday) \ {lwToday}
          PROVE  IF d \in DOMAIN r.prior THEN r.prior[d] = lwPnl[d] ELSE lwPnl[d] = 0
      <3>1. d \in LwAllDays /\ LwInWeek(d, lwToday) /\ d < lwToday
        BY <2>2, LwWeekIs
      <3>2. d \in DOMAIN r.prior <=> d \in DOMAIN m.prior \/ d = m.day
        BY <2>1, <3>1
      <3>3. CASE d = m.day
        BY <2>1, <3>2, <3>3 DEF LwFigures
      <3>4. CASE d < m.day
        <4>1. d \in LwWeekOf(m.day) \ {m.day}
          BY <2>1, <2>2, <3>1, <3>4, LwWeekIs
        <4> QED BY <2>1, <3>2, <3>4, <4>1 DEF LwFigures
      <3>5. CASE d > m.day
        <4>1. d \notin DOMAIN m.prior /\ d # m.day
          BY <2>1, <2>2, <3>1, <3>5, LwWeekIs DEF LwAdds
        <4> QED BY <2>3, <3>1, <3>2, <3>5, <4>1
      <3> QED BY <2>1, <2>2, <3>1, <3>3, <3>4, <3>5
    <2> QED BY <2>1, <2>3, <2>4 DEF LwFigures
  <1> QED BY <1>1, <1>2

\* The week's figure is then the week's, and what a release would accept fits it.
LEMMA LwWeekTrue ==
    ASSUME LwSized, NEW figs \in [LwAllDays -> Int], NEW m \in LwMemType, LwAdds(m), LwFigures(figs, m)
    PROVE  /\ m.weekly = SumFunctionOnSet(figs, LwWeekOf(m.day))
           /\ LwShare(m) = m.daily
           /\ LwWith(m.prior, m.day, LwShare(m)) \in LwDayFns
           /\ LwFitsWindow(LwWith(m.prior, m.day, LwShare(m)), Restrict(figs, LwWeekOf(m.day)))
           /\ Restrict(figs, LwWeekOf(m.day)) \in LwDayFns
           /\ DOMAIN Restrict(figs, LwWeekOf(m.day)) = LwWeekOf(m.day)
           /\ LwSum(Restrict(figs, LwWeekOf(m.day))) = m.weekly
  <1> DEFINE W == LwWeekOf(m.day)  h == Restrict(figs, W)  f == LwWith(m.prior, m.day, LwShare(m))
  <1>1. /\ m.day \in LwAllDays /\ m.daily \in Int /\ m.weekly \in Int /\ m.prior \in LwDayFns
    BY LwFieldsAre
  <1>2. LwSum(m.prior) \in Int /\ DOMAIN m.prior \subseteq LwAllDays
    BY <1>1, LwFnIs
  <1>3. LwShare(m) = m.daily
    BY <1>1, <1>2 DEF LwShare, LwAdds
  <1>4. /\ f \in LwDayFns /\ DOMAIN f = DOMAIN m.prior \union {m.day}
        /\ f[m.day] = m.daily /\ \A e \in DOMAIN m.prior \ {m.day} : f[e] = m.prior[e]
    <2>1. PICK g \in LwDayFns, c \in LwAllDays, n \in Int : g = m.prior /\ c = m.day /\ n = m.daily
      BY <1>1
    <2>2. f = LwWith(g, c, n)
      BY <1>3, <2>1
    <2> HIDE DEF f
    <2>3. /\ LwWith(g, c, n) \in LwDayFns /\ DOMAIN LwWith(g, c, n) = DOMAIN g \union {c}
          /\ LwWith(g, c, n)[c] = n
          /\ \A e : e \in DOMAIN g /\ e # c => LwWith(g, c, n)[e] = g[e]
      BY LwWithIs
    <2> QED BY <2>1, <2>2, <2>3
  <1>5. figs \in LwDayFns /\ DOMAIN figs = LwAllDays
    BY LwFnMade
  <1>6. W \subseteq LwAllDays /\ m.day \in W /\ IsFiniteSet(W)
    BY <1>1, LwWeekIs, LwDaysAre
  <1>7. h \in LwDayFns /\ DOMAIN h = W /\ \A e \in W : h[e] = figs[e]
    BY <1>5, <1>6, LwRestrictIs
  <1>8. LwFitsWindow(f, h)
    BY <1>4, <1>6, <1>7 DEF LwFitsWindow, LwFigures, LwAdds
  <1>9. SumInts(figs, W) /\ SumInts(h, W)
    BY <1>6, <1>7 DEF SumInts
  <1>10. LwSum(h) = SumFunctionOnSet(figs, W)
    <2>1. SumLike(h, figs, W)
      BY <1>7 DEF SumLike
    <2> QED BY <1>6, <1>7, <1>9, <2>1, SumSame DEF LwSum, SumFunction
  <1>11. LwSum(h) = m.weekly
    <2>1. LwSum(h) = LwSum(f)
      BY <1>4, <1>7, <1>8, LwFitsSum
    <2>2. /\ m.day \notin DOMAIN m.prior /\ IsFiniteSet(DOMAIN m.prior)
      BY <1>1, LwFnIs DEF LwAdds
    <2>3. SumInts(f, DOMAIN m.prior \union {m.day})
      BY <1>4, LwFnIs
    <2>4. SumFunctionOnSet(f, DOMAIN m.prior \union {m.day}) = m.daily + SumFunctionOnSet(f, DOMAIN m.prior)
      BY <1>4, <2>2, <2>3, SumAdds
    <2>5. SumFunctionOnSet(f, DOMAIN m.prior) = SumFunctionOnSet(m.prior, DOMAIN m.prior)
      <3>1. SumLike(f, m.prior, DOMAIN m.prior)
        BY <1>4, <2>2 DEF SumLike
      <3> QED BY <2>2, <3>1, SumSame
    <2>6. LwSum(f) = m.daily + LwSum(m.prior)
      BY <1>4, <2>4, <2>5 DEF LwSum, SumFunction
    <2> QED BY <1>1, <1>2, <2>1, <2>6 DEF LwAdds
  <1> QED BY <1>3, <1>4, <1>7, <1>8, <1>10, <1>11

\* What is accepted stays accepted on later days, while it is in the week.
LEMMA LwFitsLater ==
    ASSUME LwSized, NEW acc \in LwAcceptedType, NEW f \in LwFloors, NEW w \in LwWindows, NEW day \in LwAllDays,
           NEW later \in LwAllDays, day <= later, acc.day <= day, LwFits(acc, f, w, day)
    PROVE  LwFits(acc, f, w, later)
  <1>1. acc.day \in Nat /\ f.day \in Nat /\ w.day \in Nat /\ day \in Nat /\ later \in Nat /\ LwWeek \in Nat
    BY LwDaysAre DEF LwAcceptedType, LwFloors, LwWindows
  <1>2. \A a \in Nat : a <= day => (LwInWeek(a, later) => LwInWeek(a, day))
    BY <1>1 DEF LwInWeek
  <1>3. CASE later = day
    BY <1>3
  <1>4. CASE later # day
    <2>1. day < later
      BY <1>1, <1>4
    <2>2. ~LwDayAccepted(acc, later) /\ (f.on => f.day < later /\ f.day <= later)
      BY <1>1, <2>1 DEF LwDayAccepted, LwFits
    <2>3. w.on => w.day <= day /\ w.day <= later
      BY <1>1, <2>1 DEF LwFits
    <2>4. LwWeekAccepted(acc, later) <=> w.on /\ LwInWeek(w.day, later)
      <3>1. ASSUME LwWeekAccepted(acc, later) PROVE w.on /\ LwInWeek(w.day, later)
        <4>1. LwWeekAccepted(acc, day)
          BY <1>1, <1>2, <3>1 DEF LwWeekAccepted
        <4> QED BY <3>1, <4>1 DEF LwFits, LwWeekAccepted
      <3>2. ASSUME w.on, LwInWeek(w.day, later) PROVE LwWeekAccepted(acc, later)
        <4>1. LwInWeek(w.day, day)
          BY <1>1, <1>2, <2>3, <3>2
        <4>2. LwWeekAccepted(acc, day) /\ w.day = acc.day
          BY <3>2, <4>1 DEF LwFits
        <4> QED BY <3>2, <4>2 DEF LwWeekAccepted
      <3> QED BY <3>1, <3>2
    <2>5. LwWeekAccepted(acc, later) => w.day = acc.day /\ LwFitsWindow(w.held, acc.pnl)
      <3>1. LwWeekAccepted(acc, later) => LwWeekAccepted(acc, day)
        BY <1>1, <1>2 DEF LwWeekAccepted
      <3> QED BY <3>1 DEF LwFits
    <2>6. ~(f.on /\ f.day = later)
      BY <1>1, <2>2
    <2> QED BY <2>2, <2>3, <2>4, <2>5, <2>6 DEF LwFits
  <1> QED BY <1>3, <1>4

\* A release is taken in.
LEMMA LwAcceptIs ==
    ASSUME LwSized, NEW m \in LwMemType, LwAdds(m), NEW n, n = LwAccept(m)
    PROVE  /\ n \in LwMemType /\ LwSameDay(n, m) /\ LwSameFlag(n, m) /\ n.seen = m.seen
           /\ n.floor.on <=> m.daily < -LwDayLimit
           /\ n.floor.on => n.floor.day = m.day /\ n.floor.level = m.daily - LwStep
           /\ n.window.on <=> m.weekly < -LwWeekLimit
           /\ n.window.on => n.window.day = m.day /\ n.window.held = LwWith(m.prior, m.day, LwShare(m))
  <1> DEFINE f == IF m.daily < -LwDayLimit
                  THEN [on |-> TRUE, day |-> m.day, level |-> m.daily - LwStep] ELSE LwNoFloor
             h == LwWith(m.prior, m.day, LwShare(m))
             w == IF m.weekly < -LwWeekLimit THEN [on |-> TRUE, day |-> m.day, held |-> h] ELSE LwNoWindow
  <1>1. /\ m.day \in LwAllDays /\ m.day \in Nat /\ m.daily \in Int /\ m.weekly \in Int /\ m.prior \in LwDayFns
        /\ LwStep \in Nat
    BY LwFieldsAre, LwDaysAre
  <1>2. LwSum(m.prior) \in Int
    BY <1>1, LwFnIs
  <1>3. LwShare(m) \in Int
    BY <1>1, <1>2 DEF LwShare
  <1>4. h \in LwDayFns
    BY <1>1, <1>3, LwWithIs
  <1> HIDE DEF h
  <1>5. f \in LwFloors /\ (f.on <=> m.daily < -LwDayLimit)
          /\ (f.on => f.day = m.day /\ f.level = m.daily - LwStep)
    <2>1. m.daily - LwStep \in Int
      BY <1>1
    <2> QED BY <1>1, <2>1 DEF LwFloors, LwNoFloor
  <1>6. w \in LwWindows /\ (w.on <=> m.weekly < -LwWeekLimit) /\ (w.on => w.day = m.day /\ w.held = h)
    BY <1>1, <1>4, LwNothingIs DEF LwWindows, LwNoWindow
  <1>7. n = LwFloored(m, f, w)
    BY DEF LwAccept, LwFloored, h
  <1> HIDE DEF f, w
  <1>8. n \in LwMemType /\ LwSameDay(n, m) /\ LwSameFlag(n, m) /\ n.seen = m.seen /\ n.floor = f /\ n.window = w
    <2>1. PICK x \in LwFloors, y \in LwWindows : x = f /\ y = w
      BY <1>5, <1>6
    <2>2. n = LwFloored(m, x, y)
      BY <1>7, <2>1
    <2>3. /\ n \in LwMemType /\ LwSameDay(n, m) /\ LwSameFlag(n, m) /\ n.seen = m.seen
          /\ n.floor = x /\ n.window = y
      BY <2>2, LwFlooredIs
    <2> QED BY <2>1, <2>3
  <1> QED BY <1>5, <1>6, <1>8 DEF h

\* It accepts what was lost, if that is what the figures are.
LEMMA LwAcceptFits ==
    ASSUME LwSized, NEW m \in LwMemType, LwAdds(m), NEW n, n = LwAccept(m), NEW figs \in [LwAllDays -> Int],
           LwFigures(figs, m), NEW acc, acc.day = m.day, acc.pnl = Restrict(figs, LwWeekOf(m.day))
    PROVE  LwFits(acc, n.floor, n.window, m.day)
  <1> DEFINE W == LwWeekOf(m.day)  a == Restrict(figs, W)  h == LwWith(m.prior, m.day, LwShare(m))
  <1>1. m.day \in LwAllDays /\ m.day \in Nat /\ m.day # 0 /\ m.day \in W /\ LwInWeek(m.day, m.day)
          /\ W \subseteq LwAllDays
    BY LwFieldsAre, LwDaysAre, LwWeekIs
  <1>2. LwFitsWindow(h, a) /\ LwSum(a) = m.weekly
    BY LwWeekTrue
  <1>3. a[m.day] = m.daily
    <2>1. DOMAIN figs = LwAllDays /\ figs \in LwDayFns
      BY LwFnMade
    <2>2. a[m.day] = figs[m.day]
      BY <1>1, <2>1, LwRestrictIs
    <2> QED BY <2>2 DEF LwFigures
  <1>4. acc.pnl = a
    OBVIOUS
  <1> HIDE DEF a, h
  <1>5. LwDayAccepted(acc, m.day) <=> m.daily < -LwDayLimit
    BY <1>3, <1>4 DEF LwDayAccepted
  <1>6. LwWeekAccepted(acc, m.day) <=> m.weekly < -LwWeekLimit
    BY <1>1, <1>2, <1>4 DEF LwWeekAccepted
  <1>7. /\ n.floor.on <=> m.daily < -LwDayLimit
        /\ n.floor.on => n.floor.day = m.day /\ n.floor.level = m.daily - LwStep
        /\ n.window.on <=> m.weekly < -LwWeekLimit
        /\ n.window.on => n.window.day = m.day /\ n.window.held = h
    BY LwAcceptIs DEF h
  <1>8. m.day <= m.day
    BY <1>1
  <1> QED BY <1>1, <1>2, <1>3, <1>4, <1>5, <1>6, <1>7, <1>8 DEF LwFits

\* _evaluate
LEMMA LwEvaluatedIs ==
    ASSUME NEW m \in LwMemType, NEW n, n = LwEvaluated(m)
    PROVE  /\ n \in LwMemType /\ LwSameDay(n, m) /\ LwSameFloors(n, m) /\ n.seen = m.seen
           /\ n.ks <=> m.ks \/ LwBreached(m)
           /\ n.unsaved <=> m.unsaved \/ (n.ks /\ ~m.ks)
  <1>1. CASE LwBreached(m) /\ ~m.ks
    <2>1. n = LwHalted(m)
      BY <1>1 DEF LwEvaluated, LwHalted
    <2>2. n \in LwMemType /\ LwSameDay(n, m) /\ LwSameFloors(n, m) /\ n.seen = m.seen /\ n.ks /\ n.unsaved
      BY <2>1, LwHaltedIs
    <2> QED BY <1>1, <2>2
  <1>2. CASE ~(LwBreached(m) /\ ~m.ks)
    <2>1. n = m
      BY <1>2 DEF LwEvaluated
    <2> QED BY <1>2, <2>1, LwFieldsAre DEF LwSameDay, LwSameFloors
  <1> QED BY <1>1, <1>2

\* The floors stand for what was accepted.
LEMMA LwPastIs ==
    ASSUME LwSized, NEW m \in LwMemType, NEW acc \in LwAcceptedType, acc.day <= m.day,
           acc.day # 0 => DOMAIN acc.pnl = LwWeekOf(acc.day),
           LwFits(acc, m.floor, m.window, m.day),
           NEW still, still = DOMAIN acc.pnl \intersect LwWeekOf(m.day)
    PROVE  /\ LwPastDaily(m) <=> ~ /\ acc.day = m.day /\ acc.pnl[m.day] < -LwDayLimit
                                   /\ m.daily >= acc.pnl[m.day] - LwStep
           /\ LwPastWeekly(m) <=> ~ /\ acc.day \in still /\ LwSum(acc.pnl) < -LwWeekLimit
                                    /\ m.weekly >= LwSum(Restrict(acc.pnl, still)) - LwStep
  <1>1. /\ m.day \in LwAllDays /\ m.day \in Nat /\ m.day # 0 /\ m.daily \in Int /\ m.weekly \in Int
        /\ m.window \in LwWindows /\ m.window.held \in LwDayFns /\ LwStep \in Nat
        /\ acc.day \in Nat /\ acc.pnl \in LwDayFns /\ LwDays \in Nat
    BY LwFieldsAre, LwDaysAre DEF LwAcceptedType, LwWindows
  <1>2. acc.day # 0 => acc.day \in LwAllDays
    <2>1. \A a, b, c \in Nat : a # 0 /\ a <= b /\ b \in 1..c => a \in 1..c
      OBVIOUS
    <2> QED BY <1>1, <2>1 DEF LwAllDays
  <1>3. LwPastDaily(m) <=> ~(LwDayAccepted(acc, m.day) /\ m.daily >= acc.pnl[m.day] - LwStep)
    <2>1. CASE LwDayAccepted(acc, m.day)
      <3>1. m.floor.on /\ m.floor.day = m.day /\ m.floor.level = acc.pnl[m.day] - LwStep
        BY <2>1 DEF LwFits
      <3>2. m.day \in DOMAIN acc.pnl
        BY <1>1, <2>1, LwWeekIs DEF LwDayAccepted
      <3>3. acc.pnl[m.day] \in Int
        BY <1>1, <3>2, LwFnIs
      <3>4. PICK x \in Int : x = acc.pnl[m.day] - LwStep
        BY <1>1, <3>3
      <3>5. m.daily < x <=> ~(m.daily >= x)
        BY <1>1
      <3> QED BY <2>1, <3>1, <3>4, <3>5 DEF LwPastDaily
    <2>2. CASE ~LwDayAccepted(acc, m.day)
      BY <2>2 DEF LwFits, LwPastDaily
    <2> QED BY <2>1, <2>2
  <1>4. acc.day \in still <=> acc.day # 0 /\ LwInWeek(acc.day, m.day)
    <2>1. acc.day \in still => acc.day \in LwAllDays /\ LwInWeek(acc.day, m.day)
      BY LwWeekIs
    <2>2. acc.day # 0 => acc.day \in DOMAIN acc.pnl
      BY <1>2, LwWeekIs
    <2>3. acc.day # 0 /\ LwInWeek(acc.day, m.day) => acc.day \in LwWeekOf(m.day)
      BY <1>2, LwWeekIs
    <2>4. 0 \notin LwAllDays
      BY LwDaysAre
    <2> QED BY <2>1, <2>2, <2>3, <2>4
  <1>5. acc.day \in still /\ LwSum(acc.pnl) < -LwWeekLimit <=> LwWeekAccepted(acc, m.day)
    BY <1>4 DEF LwWeekAccepted
  <1>6. LwPastWeekly(m) <=> ~(LwWeekAccepted(acc, m.day)
          /\ m.weekly >= LwSum(Restrict(acc.pnl, still)) - LwStep)
    <2>1. CASE LwWeekAccepted(acc, m.day)
      <3>1. m.window.on /\ LwInWeek(m.window.day, m.day) /\ LwFitsWindow(m.window.held, acc.pnl)
        BY <2>1 DEF LwFits
      <3>2. {d \in DOMAIN m.window.held : LwInWeek(d, m.day)} = DOMAIN m.window.held \intersect LwWeekOf(m.day)
        <4>1. DOMAIN m.window.held \subseteq LwAllDays
          BY <1>1, LwFnIs
        <4> QED BY <4>1, LwWeekIs
      <3>3. LwStillHeld(m) = LwSum(Restrict(acc.pnl, still))
        <4>1. LwStillHeld(m) = LwSum(Restrict(m.window.held, DOMAIN m.window.held \intersect LwWeekOf(m.day)))
          BY <3>2 DEF LwStillHeld
        <4>2. PICK x \in LwDayFns, y \in LwDayFns, W \in {LwWeekOf(m.day)} : x = m.window.held
                     /\ y = acc.pnl /\ W = LwWeekOf(m.day)
          BY <1>1
        <4>3. LwFitsWindow(x, y)
          BY <3>1, <4>2
        <4>4. LwSum(LwPart(x, W)) = LwSum(LwPart(y, W))
          BY <4>3, LwFitsSumIn
        <4> QED BY <4>1, <4>2, <4>4 DEF LwPart
      <3>4. LwSum(Restrict(acc.pnl, still)) \in Int
        BY <1>1, LwRestrictIs, LwFnIs
      <3>5. PICK x \in Int : x = LwSum(Restrict(acc.pnl, still)) - LwStep
        BY <1>1, <3>4
      <3>6. m.weekly < x <=> ~(m.weekly >= x)
        BY <1>1
      <3> QED BY <2>1, <3>1, <3>3, <3>5, <3>6 DEF LwPastWeekly
    <2>2. CASE ~LwWeekAccepted(acc, m.day)
      BY <2>2 DEF LwFits, LwPastWeekly
    <2> QED BY <2>1, <2>2
  <1> QED BY <1>3, <1>5, <1>6 DEF LwDayAccepted

\* The row is written, and the flag is settled.
LEMMA LwRowIs ==
    ASSUME lwToday \in LwAllDays, lwRows \in [LwAllDays -> LwRowType], NEW q \in LwMemType, NEW rw,
             rw = LwRow(q)
    PROVE  /\ rw \in LwRowType /\ rw.made /\ rw.daily = q.daily
           /\ rw.ks <=> IF LwOwn(q) THEN q.ks ELSE lwRows[lwToday].ks
  <1>1. PICK k \in BOOLEAN : k = (IF LwOwn(q) THEN q.ks ELSE lwRows[lwToday].ks)
    BY LwFieldsAre DEF LwRowType
  <1>2. rw = [made |-> TRUE, daily |-> q.daily, ks |-> k]
    BY <1>1 DEF LwRow
  <1>3. rw \in LwRowType
    BY <1>2, LwFieldsAre DEF LwRowType
  <1> QED BY <1>1, <1>2, <1>3

\* What a row written with no error leaves of the tracker: a release that came with it
\* is taken in.
LEMMA LwSettledIs ==
    ASSUME LwSized, lwToday \in LwAllDays, lwRows \in [LwAllDays -> LwRowType], NEW q \in LwMemType, LwAdds(q),
           NEW n, n = LwSettled(q), NEW rw, rw = LwRow(q)
    PROVE  /\ n \in LwMemType /\ LwSameDay(n, q) /\ n.seen = q.seen
           /\ ~n.unsaved /\ (n.ks <=> rw.ks)
           /\ ~LwTakes(q) => LwSameFloors(n, q)
           /\ LwTakes(q) => \E k \in LwMemType : LwSameDay(k, q) /\ n = LwAccept(k)
  <1>1. rw.ks <=> IF LwOwn(q) THEN q.ks ELSE lwRows[lwToday].ks
    BY LwRowIs
  <1>2. CASE LwOwn(q)
    <2>1. n = LwUnsaved(q, FALSE)
      BY <1>2 DEF LwSettled, LwUnsaved
    <2>2. /\ n \in LwMemType /\ LwSameDay(n, q) /\ LwSameFloors(n, q) /\ n.ks = q.ks
          /\ n.unsaved = FALSE /\ n.seen = q.seen
      BY <2>1, LwUnsavedIs
    <2>3. ~LwTakes(q)
      BY <1>2 DEF LwTakes
    <2> QED BY <1>1, <1>2, <2>2, <2>3
  <1>3. CASE LwTakes(q)
    <2> DEFINE k == LwKs(q, FALSE)
    <2>1. ~LwOwn(q) /\ ~lwRows[lwToday].ks /\ ~q.unsaved
      BY <1>3 DEF LwTakes, LwOwn
    <2>2. n = LwAccept(k)
      BY <1>3, <2>1 DEF LwSettled, LwKs
    <2>3. k \in LwMemType /\ LwSameDay(k, q) /\ k.ks = FALSE /\ k.unsaved = q.unsaved /\ k.seen = q.seen
      BY LwKsIs
    <2> HIDE DEF k
    <2>4. LwAdds(k)
      BY <2>3 DEF LwAdds, LwSameDay
    <2>5. n \in LwMemType /\ LwSameDay(n, k) /\ LwSameFlag(n, k) /\ n.seen = k.seen
      BY <2>2, <2>3, <2>4, LwAcceptIs
    <2>6. LwSameDay(n, q)
      BY <2>3, <2>5 DEF LwSameDay
    <2>7. ~n.unsaved /\ ~n.ks
      BY <2>1, <2>3, <2>5 DEF LwSameFlag
    <2> QED BY <1>1, <1>3, <2>1, <2>2, <2>3, <2>5, <2>6, <2>7
  <1>4. CASE ~LwOwn(q) /\ ~LwTakes(q)
    <2>1. PICK k \in BOOLEAN : k = lwRows[lwToday].ks
      BY DEF LwRowType
    <2>2. n = LwKs(q, k)
      BY <1>4, <2>1 DEF LwSettled, LwKs
    <2>3. n \in LwMemType /\ LwSameDay(n, q) /\ LwSameFloors(n, q) /\ n.ks = k /\ n.unsaved = q.unsaved
            /\ n.seen = q.seen
      BY <2>2, LwKsIs
    <2>4. ~q.unsaved
      BY <1>4 DEF LwOwn
    <2> QED BY <1>1, <1>4, <2>1, <2>3, <2>4
  <1> QED BY <1>2, <1>3, <1>4

\* What the row and the tracker then say.
LEMMA LwRowWritten ==
    ASSUME LwSized, LwInductive, lwMem.up, NEW r, r = LwRolled(lwMem),
           NEW q \in LwMemType, LwSameDay(q, r), LwSameFlag(q, r), q.floor = r.floor, q.window = r.window,
           NEW n, n = LwSettled(q), NEW rw, rw = LwRow(q), LwRow(q) = LwRow(r) /\ (LwTakes(q) <=> LwTakes(r)),
           NEW acc \in LwAcceptedType,
           LwTakes(r) => acc = LwTaken(lwToday),
           ~LwTakes(r) => acc.day = lwAccepted.day /\ acc.pnl = lwAccepted.pnl /\ acc.lost = lwAccepted.lost
    PROVE  /\ n \in LwMemType /\ LwSameDay(n, r) /\ LwAdds(n) /\ n.seen = q.seen
           /\ n.up /\ n.day = lwToday
           /\ rw \in LwRowType /\ rw.made /\ rw.daily = n.daily
           /\ ~n.unsaved /\ (n.ks <=> rw.ks)
           /\ \A d \in LwAllDays : d # lwToday /\ lwRows[d].ks => n.ks
           /\ lwHalted /\ ~lwCut => n.ks
           /\ acc.day <= lwToday /\ (acc.day # 0 => DOMAIN acc.pnl = LwWeekOf(acc.day))
           /\ n.floor.on => n.floor.day <= n.day
           /\ n.window.on => n.window.day <= n.day
           /\ LwClean /\ ~acc.lost => LwFits(acc, n.floor, n.window, n.day)
  <1>1. /\ lwToday \in LwAllDays /\ lwMem \in LwMemType /\ lwMem.day <= lwToday /\ LwAdds(lwMem)
        /\ lwRows \in [LwAllDays -> LwRowType] /\ lwPnl \in [LwAllDays -> Int] /\ lwAccepted \in LwAcceptedType
    BY DEF LwInductive, LwTyped
  <1>2. /\ r \in LwMemType /\ r.up = lwMem.up /\ r.day = lwToday /\ LwAdds(r)
        /\ LwSameFloors(r, lwMem) /\ LwSameFlag(r, lwMem)
    BY <1>1, LwRolledIs
  <1>3. LwAdds(q) /\ LwSameDay(q, r)
    BY <1>2 DEF LwAdds, LwSameDay
  <1>4. /\ n \in LwMemType /\ LwSameDay(n, q) /\ n.seen = q.seen
        /\ ~n.unsaved /\ (n.ks <=> rw.ks)
        /\ ~LwTakes(q) => LwSameFloors(n, q)
        /\ LwTakes(q) => \E k \in LwMemType : LwSameDay(k, q) /\ n = LwAccept(k)
    BY <1>1, <1>3, LwSettledIs
  <1>5. /\ LwSameDay(n, r) /\ LwAdds(n) /\ n.up /\ n.day = lwToday /\ n.daily = q.daily
    BY <1>2, <1>3, <1>4 DEF LwAdds, LwSameDay
  <1>6. /\ rw \in LwRowType /\ rw.made /\ rw.daily = n.daily
        /\ rw.ks <=> IF LwOwn(q) THEN q.ks ELSE lwRows[lwToday].ks
    BY <1>1, <1>5, LwRowIs
  <1>7. /\ q.ks = lwMem.ks /\ q.unsaved = lwMem.unsaved
        /\ (LwOwn(q) <=> lwMem.unsaved \/ ~lwRows[lwToday].made)
    BY <1>2 DEF LwSameFlag, LwOwn
  <1>8. /\ LwAnyKs => lwMem.ks
        /\ ~lwMem.unsaved /\ lwRows[lwToday].made /\ LwAnyKs => lwRows[lwToday].ks
        /\ lwHalted /\ ~lwCut => lwMem.ks /\ (lwMem.unsaved \/ LwAnyKs)
    BY DEF LwInductive, LwFiled, LwHalts
  <1>9. LwAnyKs => n.ks
    BY <1>4, <1>6, <1>7, <1>8
  <1>10. lwHalted /\ ~lwCut => n.ks
    BY <1>4, <1>6, <1>7, <1>8
  <1>11. \A d \in LwAllDays : lwRows[d].ks => LwAnyKs
    BY DEF LwAnyKs
  <1>12. lwToday \in Nat /\ lwToday <= lwToday /\ lwMem.day \in LwAllDays /\ lwMem.day \in Nat
           /\ lwAccepted.day \in Nat
    BY <1>1, LwDaysAre, LwFieldsAre DEF LwAcceptedType
  <1>13. lwAccepted.day <= lwMem.day /\ (lwAccepted.day # 0 => DOMAIN lwAccepted.pnl = LwWeekOf(lwAccepted.day))
    BY DEF LwInductive, LwReleasedWell, LwAcceptedOf, LwHorizon
  <1>14. CASE LwTakes(r)
    <2>1. PICK k \in LwMemType : LwSameDay(k, q) /\ n = LwAccept(k)
      BY <1>4, <1>14
    <2>2. LwAdds(k) /\ k.day = lwToday
      BY <1>2, <1>3, <2>1 DEF LwAdds, LwSameDay
    <2>3. n.floor.on => n.floor.day = n.day
      BY <1>5, <2>1, <2>2, LwAcceptIs
    <2>4. n.window.on => n.window.day = n.day
      BY <1>5, <2>1, <2>2, LwAcceptIs
    <2>5. acc.day = lwToday /\ acc.pnl = Restrict(lwPnl, LwWeekOf(lwToday))
      BY <1>14 DEF LwTaken
    <2>6. DOMAIN acc.pnl = LwWeekOf(lwToday)
      <3>1. lwPnl \in LwDayFns /\ DOMAIN lwPnl = LwAllDays
        BY <1>1, LwFnMade
      <3>2. LwWeekOf(lwToday) \subseteq DOMAIN lwPnl
        BY <3>1, LwWeekIs
      <3> QED BY <2>5, <3>1, <3>2, LwRestrictIs
    <2>7. LwClean => LwFits(acc, n.floor, n.window, n.day)
      <3>1. SUFFICES ASSUME LwClean PROVE LwFits(acc, n.floor, n.window, n.day)
        OBVIOUS
      <3>2. LwFigures(lwPnl, lwMem) /\ LwBeyond(lwMem.day)
        BY <3>1 DEF LwInductive, LwFiled, LwTold, LwHorizon
      <3>3. LwFigures(lwPnl, r)
        BY <1>1, <3>2, LwRolledFigures
      <3>4. LwFigures(lwPnl, k)
        BY <1>3, <2>1, <3>3 DEF LwFigures, LwSameDay
      <3>5. LwFits(acc, n.floor, n.window, k.day)
        BY <1>1, <2>1, <2>2, <2>5, <3>4, LwAcceptFits
      <3> QED BY <1>5, <2>2, <3>5
    <2>8. n.day <= n.day
      BY <1>5, <1>12
    <2> QED BY <1>4, <1>5, <1>6, <1>9, <1>10, <1>11, <1>12, <2>3, <2>4, <2>5, <2>6, <2>7, <2>8
  <1>15. CASE ~LwTakes(r)
    <2>1. n.floor = lwMem.floor /\ n.window = lwMem.window
      BY <1>2, <1>4, <1>15 DEF LwSameFloors
    <2>2. lwMem.floor \in LwFloors /\ lwMem.window \in LwWindows /\ lwMem.floor.day \in Nat
            /\ lwMem.window.day \in Nat
      BY <1>1, LwFieldsAre DEF LwFloors, LwWindows
    <2>3. /\ lwMem.floor.on => lwMem.floor.day <= lwMem.day
          /\ lwMem.window.on => lwMem.window.day <= lwMem.day
      BY DEF LwInductive, LwReleasedWell, LwFloorDays
    <2>4. /\ n.floor.on => n.floor.day <= n.day
          /\ n.window.on => n.window.day <= n.day
      BY <1>1, <1>5, <1>12, <2>1, <2>2, <2>3
    <2>5. acc.day <= lwToday /\ (acc.day # 0 => DOMAIN acc.pnl = LwWeekOf(acc.day))
      BY <1>1, <1>12, <1>13, <1>15
    <2>6. LwClean /\ ~acc.lost => LwFits(acc, n.floor, n.window, n.day)
      <3>1. SUFFICES ASSUME LwClean, ~acc.lost PROVE LwFits(acc, n.floor, n.window, n.day)
        OBVIOUS
      <3>2. LwFits(lwAccepted, lwMem.floor, lwMem.window, lwMem.day)
        BY <1>15, <3>1 DEF LwInductive, LwReleasedWell, LwAllowed
      <3>3. LwFits(acc, lwMem.floor, lwMem.window, lwMem.day)
        BY <1>15, <3>2 DEF LwFits, LwDayAccepted, LwWeekAccepted
      <3>4. acc.day <= lwMem.day
        BY <1>13, <1>15
      <3>5. LwFits(acc, lwMem.floor, lwMem.window, lwToday)
        BY <1>1, <1>12, <2>2, <3>3, <3>4, LwFitsLater
      <3> QED BY <1>5, <2>1, <3>5
    <2> QED BY <1>4, <1>5, <1>6, <1>9, <1>10, <1>11, <2>4, <2>5, <2>6
  <1> QED BY <1>14, <1>15

\* What the steps need of where they start.
LEMMA LwHere ==
    ASSUME LwSized, LwInductive
    PROVE  /\ lwToday \in LwAllDays /\ lwToday \in Nat /\ lwToday <= lwToday
           /\ lwMem \in LwMemType /\ lwMem.day \in LwAllDays /\ lwMem.day \in Nat /\ lwMem.day <= lwToday
           /\ LwAdds(lwMem) /\ lwMem.floor \in LwFloors /\ lwMem.window \in LwWindows
           /\ lwRun \in LwRunType /\ (lwMem.up \/ lwRun = LwIdle)
           /\ lwRows \in [LwAllDays -> LwRowType] /\ lwRedis \in LwDayFns
           /\ lwReleased \in Seq(Nat) /\ Len(lwReleased) \in Nat
           /\ lwKept \in LwKeptType /\ lwPnl \in [LwAllDays -> Int] /\ lwAccepted \in LwAcceptedType
           /\ lwAccepted.day \in Nat /\ lwAccepted.day <= LwHorizon
           /\ lwAccepted.day # 0 => DOMAIN lwAccepted.pnl = LwWeekOf(lwAccepted.day)
           /\ LwHorizon \in LwAllDays /\ LwHorizon <= lwToday
           /\ lwMishaps.failed \in Nat
  <1>1. LwTyped /\ LwAdds(lwMem) /\ LwAcceptedOf
    BY DEF LwInductive, LwReleasedWell
  <1>2. /\ lwToday \in LwAllDays /\ lwToday \in Nat /\ lwMem.day \in LwAllDays /\ lwMem.day \in Nat
    BY <1>1, LwDaysAre, LwFieldsAre DEF LwTyped
  <1>3. lwMem \in LwMemType /\ lwMem.floor \in LwFloors /\ lwMem.window \in LwWindows
    BY <1>1, LwFieldsAre DEF LwTyped
  <1>4. lwAccepted.day \in Nat /\ lwMishaps.failed \in Nat /\ Len(lwReleased) \in Nat
    BY <1>1 DEF LwTyped, LwAcceptedType
  <1>5. lwToday <= lwToday
    BY <1>2
  <1>6. LwHorizon \in LwAllDays /\ LwHorizon <= lwToday
    BY <1>1, <1>2, <1>5 DEF LwHorizon, LwTyped
  <1> QED BY <1>1, <1>2, <1>3, <1>4, <1>5, <1>6 DEF LwTyped, LwAcceptedOf

\* A fill keeps it.
LEMMA LwFillStep == ASSUME LwSized, LwInductive, NEW figs \in LwMoves, LwFill(figs) PROVE LwInductive'
  <1> DEFINE r == LwRolled(lwMem)
             p == [r EXCEPT !.daily = @ + figs, !.weekly = @ + figs]
  <1>1. /\ lwMem.up /\ lwRun.at = "idle" /\ lwMem' = LwEvaluated(p)
        /\ lwPnl' = [lwPnl EXCEPT ![lwToday] = @ + figs]
        /\ lwHalted' = (lwHalted \/ (lwMem'.ks /\ ~lwMem.ks))
        /\ lwRun' = [lwRun EXCEPT !.at = "write", !.fill = TRUE, !.was = lwMem.ks]
        /\ lwToday' = lwToday /\ lwRows' = lwRows /\ lwRedis' = lwRedis /\ lwReleased' = lwReleased
             /\ lwKept' = lwKept
        /\ lwMishaps' = lwMishaps /\ lwAccepted' = lwAccepted /\ lwCut' = lwCut /\ lwForgotten' = lwForgotten
        /\ lwLate' = lwLate
    BY DEF LwFill
  <1>2. figs \in Int
    BY DEF LwMoves
  <1>3. /\ r \in LwMemType /\ r.up = lwMem.up /\ r.day = lwToday /\ LwAdds(r)
        /\ LwSameFloors(r, lwMem) /\ LwSameFlag(r, lwMem) /\ r.seen = lwMem.seen
        /\ lwMem.day = lwToday => r = lwMem
        /\ lwMem.day # lwToday => r.daily = 0
    BY LwHere, LwRolledIs
  <1> HIDE DEF r
  <1>4. r.daily \in Int /\ r.weekly \in Int /\ r.prior \in LwDayFns /\ LwSum(r.prior) \in Int
    BY <1>3, LwFieldsAre, LwFnIs
  <1>5. PICK x \in Int, y \in Int : x = r.daily + figs /\ y = r.weekly + figs
    BY <1>2, <1>4
  <1>6. p = LwPaid(r, x, y)
    BY <1>3, <1>5 DEF LwPaid, LwMemType
  <1> HIDE DEF p
  <1>7. /\ p \in LwMemType /\ p.up = r.up /\ p.day = r.day /\ p.daily = x /\ p.weekly = y /\ p.prior = r.prior
        /\ LwSameFloors(p, r) /\ LwSameFlag(p, r) /\ p.seen = r.seen
    BY <1>3, <1>6, LwPaidIs
  <1>8. /\ lwMem' \in LwMemType /\ LwSameDay(lwMem', p) /\ LwSameFloors(lwMem', p) /\ lwMem'.seen = p.seen
        /\ lwMem'.ks <=> p.ks \/ LwBreached(p)
        /\ lwMem'.unsaved <=> p.unsaved \/ (lwMem'.ks /\ ~p.ks)
    BY <1>1, <1>7, LwEvaluatedIs
  <1>9. /\ lwMem'.up /\ lwMem'.day = lwToday /\ lwMem'.daily = r.daily + figs /\ lwMem'.weekly = r.weekly + figs
        /\ lwMem'.prior = r.prior
    BY <1>1, <1>3, <1>5, <1>7, <1>8 DEF LwSameDay
  <1>10. lwMem'.floor = lwMem.floor /\ lwMem'.window = lwMem.window /\ p.floor = lwMem.floor
           /\ p.window = lwMem.window
    BY <1>3, <1>7, <1>8 DEF LwSameFloors
  <1>11. /\ p.ks = lwMem.ks /\ p.unsaved = lwMem.unsaved
         /\ lwMem'.ks <=> lwMem.ks \/ LwBreached(p)
         /\ lwMem'.unsaved <=> lwMem.unsaved \/ (lwMem'.ks /\ ~lwMem.ks)
    BY <1>3, <1>7, <1>8 DEF LwSameFlag
  <1>12. /\ lwPnl' \in [LwAllDays -> Int] /\ lwPnl'[lwToday] = lwPnl[lwToday] + figs
         /\ \A d \in LwAllDays : d # lwToday => lwPnl'[d] = lwPnl[d]
    <2>1. lwPnl \in [LwAllDays -> Int] /\ lwToday \in LwAllDays
      BY LwHere
    <2>2. PICK n \in Int : n = lwPnl[lwToday] + figs
      BY <1>2, <2>1
    <2>3. lwPnl' = [lwPnl EXCEPT ![lwToday] = n]
      BY <1>1, <2>2
    <2> QED BY <2>1, <2>2, <2>3
  <1>13. /\ lwRun' \in LwRunType /\ lwRun'.at = "write" /\ lwRun'.fill /\ lwRun'.was = lwMem.ks
    BY <1>1, LwHere, LwFieldsAre DEF LwRunType
  <1>14. LwTyped'
    BY <1>1, <1>3, <1>7, <1>8, <1>9, <1>12, <1>13, LwHere, LwFieldsAre DEF LwTyped, LwInductive
  <1>15. LwBeyond(lwMem.day)
    BY <1>1 DEF LwInductive, LwHorizon
  <1>16. LwBeyond(LwHorizon)'
    <2>1. LwHorizon' = lwToday
      BY <1>9 DEF LwHorizon
    <2>2. \A d \in LwAllDays : d > lwToday => d > lwMem.day /\ d # lwToday
      <3>1. \A a, b, c \in Nat : a > b /\ c <= b => a > c /\ a # b
        OBVIOUS
      <3> QED BY <3>1, LwHere, LwDaysAre
    <2> QED BY <1>1, <1>12, <1>15, <2>1, <2>2 DEF LwBeyond
  <1>17. LwAdds(lwMem)'
    <2>1. lwMem'.weekly = LwSum(r.prior) + lwMem'.daily
      BY <1>2, <1>3, <1>4, <1>9 DEF LwAdds
    <2> QED BY <1>3, <1>9, <2>1 DEF LwAdds
  <1>18. LwKsMade' /\ LwHalts'
    <2>1. /\ LwKsMade /\ (lwMem.unsaved => lwMem.ks) /\ (LwAnyKs => lwMem.ks)
          /\ ~lwMem.unsaved /\ lwRows[lwToday].made /\ LwAnyKs => lwRows[lwToday].ks
          /\ lwHalted /\ ~lwCut => lwMem.ks /\ (lwMem.unsaved \/ LwAnyKs)
      BY <1>1 DEF LwInductive, LwFiled, LwHalts
    <2>2. LwAnyKs' <=> LwAnyKs
      BY <1>1 DEF LwAnyKs
    <2>3. LwKsMade'
      BY <1>1, <2>1 DEF LwKsMade
    <2> QED BY <1>1, <1>9, <1>11, <2>1, <2>2, <2>3 DEF LwHalts
  <1>19. LwStores'
    <2>1. SUFFICES ASSUME ~lwForgotten PROVE lwMem'.daily <= lwPnl'[lwToday]
      BY <1>1, <1>9, <1>13 DEF LwStores, LwPendingFill
    <2>2. lwMem.daily <= lwPnl[lwMem.day]
      BY <1>1, <2>1 DEF LwInductive, LwFiled, LwStores
    <2>3. r.daily <= lwPnl[lwToday]
      <3>1. CASE lwMem.day = lwToday
        BY <1>3, <2>2, <3>1
      <3>2. CASE lwMem.day # lwToday
        <4>1. lwToday > lwMem.day
          BY <3>2, LwHere
        <4> QED BY <1>3, <1>15, <3>2, <4>1, LwHere DEF LwBeyond
      <3> QED BY <3>1, <3>2
    <2>4. lwPnl[lwToday] \in Int
      BY LwHere
    <2>5. \A a, b, c \in Int : a <= b => a + c <= b + c
      OBVIOUS
    <2> QED BY <1>2, <1>4, <1>9, <1>12, <2>3, <2>4, <2>5
  <1>20. LwClean' <=> LwClean
    BY <1>1 DEF LwClean
  <1>21. LwClean => LwFigures(lwPnl', lwMem')
    <2>1. SUFFICES ASSUME LwClean PROVE LwFigures(lwPnl', lwMem')
      OBVIOUS
    <2>2. LwFigures(lwPnl, lwMem)
      BY <1>1, <2>1 DEF LwInductive, LwFiled, LwTold
    <2>3. LwFigures(lwPnl, r)
      BY <1>15, <2>2, LwHere, LwRolledFigures DEF r
    <2>4. lwMem'.daily = lwPnl'[lwToday]
      BY <1>3, <1>9, <1>12, <2>3 DEF LwFigures
    <2>5. \A d \in LwWeekOf(lwToday) \ {lwToday} : d \in LwAllDays /\ d # lwToday
      BY LwWeekIs
    <2> QED BY <1>3, <1>9, <1>12, <2>3, <2>4, <2>5 DEF LwFigures
  <1>22. LwTold'
    <2>1. SUFFICES ASSUME LwClean, NEW d \in LwAllDays, d # lwToday PROVE LwOnFile(d)'
      BY <1>9, <1>13, <1>20, <1>21 DEF LwTold, LwPendingFill
    <2>2. LwOnFile(d)
      BY <1>1, <2>1 DEF LwInductive, LwFiled, LwTold, LwPendingFill
    <2> QED BY <1>1, <1>12, <2>1, <2>2 DEF LwOnFile
  <1>23. LwReleasedWell'
    <2>1. LwAcceptedOf /\ LwKeptDays /\ LwFloorDays /\ LwAllowed
      BY DEF LwInductive, LwReleasedWell
    <2>2. lwAccepted.day <= lwMem.day
      BY <1>1, <2>1 DEF LwAcceptedOf, LwHorizon
    <2>3. LwAcceptedOf'
      <3>1. LwHorizon' = lwToday
        BY <1>9 DEF LwHorizon
      <3>2. lwAccepted.day <= lwToday
        BY <2>2, LwHere
      <3> QED BY <1>1, <2>1, <3>1, <3>2 DEF LwAcceptedOf
    <2>4. LwKeptDays'
      BY <1>1, <2>1 DEF LwKeptDays
    <2>5. LwFloorDays'
      <3>1. lwMem.floor.day \in Nat /\ lwMem.window.day \in Nat
        BY LwHere DEF LwFloors, LwWindows
      <3>2. \A a, b, c \in Nat : a <= b /\ b <= c => a <= c
        OBVIOUS
      <3>3. /\ lwMem.floor.on => lwMem.floor.day <= lwToday
            /\ lwMem.window.on => lwMem.window.day <= lwToday
        BY <2>1, <3>1, <3>2, LwHere DEF LwFloorDays
      <3> QED BY <1>9, <1>10, <3>3 DEF LwFloorDays
    <2>6. LwAllowed'
      <3>1. LwClean /\ ~lwAccepted.lost => LwFits(lwAccepted, lwMem.floor, lwMem.window, lwToday)
        <4>1. LwClean /\ ~lwAccepted.lost => LwFits(lwAccepted, lwMem.floor, lwMem.window, lwMem.day)
          BY <1>1, <2>1 DEF LwAllowed
        <4> QED BY <2>2, <4>1, LwHere, LwFitsLater
      <3> QED BY <1>1, <1>9, <1>10, <1>20, <2>1, <3>1 DEF LwAllowed
    <2> QED BY <2>3, <2>4, <2>5, <2>6 DEF LwReleasedWell
  <1>24. LwDecidesRight'
    <2>1. SUFFICES ASSUME LwClean, ~lwAccepted.lost
                   PROVE  lwMem'.ks <=> \/ lwMem.ks
                                        \/ lwPnl'[lwToday] < -LwDayLimit /\ ~LwAcceptsDay'
                                        \/ LwTrueWeek' < -LwWeekLimit /\ ~LwAcceptsWeek'
      BY <1>1, <1>9, <1>13, <1>20 DEF LwDecidesRight
    <2>2. LwFits(lwAccepted, p.floor, p.window, p.day) /\ p.day = lwToday
      BY <1>1, <1>3, <1>7, <1>9, <1>10, <1>20, <1>23, <2>1 DEF LwReleasedWell, LwAllowed
    <2>3. lwMem'.daily = lwPnl'[lwToday] /\ lwMem'.weekly = LwTrueWeek'
      <3>1. LwFigures(lwPnl', lwMem') /\ LwAdds(lwMem')
        BY <1>17, <1>21, <2>1
      <3>2. lwMem'.weekly = SumFunctionOnSet(lwPnl', LwWeekOf(lwMem'.day))
        BY <1>8, <1>12, <3>1, LwWeekTrue
      <3>3. LwWeekOf(lwMem.day)' = LwWeekOf(lwMem'.day)
        BY DEF LwWeekOf, LwAllDays
      <3>4. LwTrueWeek' = SumFunctionOnSet(lwPnl', LwWeekOf(lwMem'.day))
        BY <3>3 DEF LwTrueWeek
      <3> QED BY <1>9, <3>1, <3>2, <3>4 DEF LwFigures
    <2>4. p.daily = lwMem'.daily /\ p.weekly = lwMem'.weekly
      BY <1>8 DEF LwSameDay
    <2> DEFINE still == DOMAIN lwAccepted.pnl \intersect LwWeekOf(lwToday)
    <2>5. /\ LwPastDaily(p) <=> ~ /\ lwAccepted.day = lwToday /\ lwAccepted.pnl[lwToday] < -LwDayLimit
                                  /\ p.daily >= lwAccepted.pnl[lwToday] - LwStep
          /\ LwPastWeekly(p) <=> ~ /\ lwAccepted.day \in still /\ LwSum(lwAccepted.pnl) < -LwWeekLimit
                                   /\ p.weekly >= LwSum(Restrict(lwAccepted.pnl, still)) - LwStep
      <3>1. lwAccepted.day <= p.day
        BY <1>23, <1>9, <1>1, <2>2 DEF LwReleasedWell, LwAcceptedOf, LwHorizon
      <3>2. PICK day \in {lwToday} : day = p.day
        BY <2>2
      <3>3. /\ LwPastDaily(p) <=> ~ /\ lwAccepted.day = p.day /\ lwAccepted.pnl[p.day] < -LwDayLimit
                                    /\ p.daily >= lwAccepted.pnl[p.day] - LwStep
            /\ \A s : s = DOMAIN lwAccepted.pnl \intersect LwWeekOf(p.day) =>
                  (LwPastWeekly(p) <=> ~ /\ lwAccepted.day \in s /\ LwSum(lwAccepted.pnl) < -LwWeekLimit
                                         /\ p.weekly >= LwSum(Restrict(lwAccepted.pnl, s)) - LwStep)
        BY <1>7, <2>2, <3>1, LwHere, LwPastIs
      <3> QED BY <2>2, <3>3
    <2>6. LwAcceptsDay' <=> /\ lwAccepted.day = lwToday /\ lwAccepted.pnl[lwToday] < -LwDayLimit
                            /\ p.daily >= lwAccepted.pnl[lwToday] - LwStep
      BY <1>1, <1>9, <2>3, <2>4 DEF LwAcceptsDay
    <2>7. LwAcceptsWeek' <=> /\ lwAccepted.day \in still /\ LwSum(lwAccepted.pnl) < -LwWeekLimit
                             /\ p.weekly >= LwSum(Restrict(lwAccepted.pnl, still)) - LwStep
      BY <1>1, <1>9, <2>3, <2>4 DEF LwAcceptsWeek, LwWeekOf, LwAllDays, LwSum
    <2> HIDE DEF still
    <2> QED BY <1>11, <2>3, <2>4, <2>5, <2>6, <2>7 DEF LwBreached
  <1>25. LwFiled'
    BY <1>18, <1>19, <1>22 DEF LwFiled
  <1> QED BY <1>14, <1>16, <1>17, <1>23, <1>24, <1>25 DEF LwInductive

\* The resume poll keeps it.
LEMMA LwPollStep == ASSUME LwSized, LwInductive, LwPoll PROVE LwInductive'
  <1>1. /\ lwMem.up /\ lwRun.at = "idle" /\ lwRun' = [lwRun EXCEPT !.at = "write", !.fill = FALSE]
        /\ UNCHANGED <<lwToday, lwMem, lwRows, lwRedis, lwReleased, lwKept, lwFills, lwMishaps, lwPnl,
                       lwAccepted, lwHalted, lwCut, lwForgotten, lwLate>>
    BY DEF LwPoll
  <1>2. lwRun' \in LwRunType /\ ~lwRun'.fill /\ lwRun'.missed = lwRun.missed
    BY <1>1, LwHere DEF LwRunType
  <1>3. ~LwPendingFill /\ ~LwPendingFill'
    BY <1>1, <1>2 DEF LwPendingFill
  <1>4. LwTyped'
    BY <1>1, <1>2 DEF LwInductive, LwTyped
  <1>5. LwBeyond(LwHorizon)' /\ LwAdds(lwMem)'
    BY <1>1 DEF LwInductive, LwBeyond, LwHorizon, LwAdds, LwSum, LwWeekOf, LwAllDays
  <1>6. LwKsMade' /\ LwHalts'
    BY <1>1 DEF LwInductive, LwFiled, LwKsMade, LwHalts, LwAnyKs
  <1>7. LwStores'
    BY <1>1, <1>2, <1>3 DEF LwInductive, LwFiled, LwStores, LwHeld, LwStored
  <1>8. LwTold'
    <2>1. LwTold /\ (LwClean' <=> LwClean)
      BY <1>1 DEF LwInductive, LwFiled, LwClean
    <2>2. (LwFigures(lwPnl, lwMem))' <=> LwFigures(lwPnl, lwMem)
      BY <1>1 DEF LwFigures, LwWeekOf, LwAllDays
    <2>3. \A d \in LwAllDays : LwOnFile(d)' <=> LwOnFile(d)
      BY <1>1 DEF LwOnFile
    <2> QED BY <1>1, <1>3, <2>1, <2>2, <2>3 DEF LwTold
  <1>9. LwReleasedWell'
    <2>1. LwReleasedWell /\ (LwClean' <=> LwClean)
      BY <1>1 DEF LwInductive, LwClean
    <2>2. /\ LwFits(lwAccepted, lwMem.floor, lwMem.window, lwMem.day)'
               <=> LwFits(lwAccepted, lwMem.floor, lwMem.window, lwMem.day)
          /\ LwFits(lwAccepted, lwKept.floor, lwKept.window, lwToday)'
               <=> LwFits(lwAccepted, lwKept.floor, lwKept.window, lwToday)
      BY <1>1 DEF LwFits, LwDayAccepted, LwWeekAccepted, LwFitsWindow, LwInWeek, LwSum
    <2> QED BY <1>1, <2>1, <2>2 DEF LwReleasedWell, LwAcceptedOf, LwHorizon, LwWeekOf, LwAllDays,
          LwKeptDays, LwFloorDays, LwAllowed
  <1>10. LwDecidesRight'
    BY <1>2 DEF LwDecidesRight
  <1>11. LwFiled'
    BY <1>6, <1>7, <1>8 DEF LwFiled
  <1> QED BY <1>4, <1>5, <1>9, <1>10, <1>11 DEF LwInductive

\* A release keeps it: no row is halted, and the tracker has not heard yet.
LEMMA LwReleaseStep == ASSUME LwSized, LwInductive, LwRelease PROVE LwInductive'
  <1>1. /\ Len(lwReleased) < LwReleases /\ lwReleased' = Append(lwReleased, lwToday)
        /\ lwRows' = [d \in LwAllDays |-> [lwRows[d] EXCEPT !.ks = FALSE]]
        /\ lwHalted' = FALSE
        /\ UNCHANGED <<lwToday, lwMem, lwRun, lwRedis, lwKept, lwFills, lwMishaps, lwPnl, lwAccepted, lwCut,
             lwForgotten, lwLate>>
    BY DEF LwRelease
  <1>2. /\ lwRows' \in [LwAllDays -> LwRowType]
        /\ \A d \in LwAllDays : ~lwRows'[d].ks /\ (lwRows'[d].made <=> lwRows[d].made)
             /\ lwRows'[d].daily = lwRows[d].daily
    <2>1. \A d \in LwAllDays : lwRows[d] \in LwRowType
      BY LwHere
    <2> QED BY <1>1, <2>1 DEF LwRowType
  <1>3. LwTyped'
    <2>1. lwReleased' \in Seq(Nat) /\ Len(lwReleased') = Len(lwReleased) + 1
      BY <1>1, LwHere
    <2>2. LwReleases \in Nat
      BY DEF LwSized
    <2>3. lwMem.seen \in Nat /\ lwKept.seen \in Nat /\ lwMem.seen <= Len(lwReleased)
            /\ lwKept.seen <= Len(lwReleased)
      BY LwHere, LwFieldsAre DEF LwInductive, LwTyped, LwKeptType
    <2>4. \A a, n, m \in Nat : n < m => n + 1 <= m /\ (a <= n => a <= n + 1)
      OBVIOUS
    <2>5. Len(lwReleased') <= LwReleases /\ lwMem.seen <= Len(lwReleased') /\ lwKept.seen <= Len(lwReleased')
      BY <1>1, <2>1, <2>2, <2>3, <2>4, LwHere
    <2> QED BY <1>1, <1>2, <2>1, <2>5 DEF LwInductive, LwTyped
  <1>4. LwBeyond(LwHorizon)' /\ LwAdds(lwMem)'
    <2>1. LwBeyond(LwHorizon)'
      BY <1>1, <1>2 DEF LwInductive, LwBeyond, LwHorizon
    <2>2. LwAdds(lwMem)'
      BY <1>1 DEF LwInductive, LwAdds, LwSum, LwWeekOf, LwAllDays
    <2> QED BY <2>1, <2>2
  <1>5. LwKsMade' /\ LwHalts'
    <2>1. ~LwAnyKs' /\ LwKsMade'
      BY <1>2 DEF LwAnyKs, LwKsMade
    <2> QED BY <1>1, <2>1 DEF LwInductive, LwFiled, LwHalts
  <1>6. LwStores'
    <2>1. LwStored' = LwStored
      BY <1>1, <1>2, LwHere DEF LwStored
    <2> QED BY <1>1, <2>1 DEF LwInductive, LwFiled, LwStores, LwHeld, LwPendingFill
  <1>7. LwTold'
    <2>1. LwTold /\ (LwClean' <=> LwClean)
      BY <1>1 DEF LwInductive, LwFiled, LwClean
    <2>2. (LwFigures(lwPnl, lwMem))' <=> LwFigures(lwPnl, lwMem)
      BY <1>1 DEF LwFigures, LwWeekOf, LwAllDays
    <2>3. \A d \in LwAllDays : LwOnFile(d)' <=> LwOnFile(d)
      BY <1>1, <1>2 DEF LwOnFile
    <2> QED BY <1>1, <2>1, <2>2, <2>3 DEF LwTold, LwPendingFill
  <1>8. LwReleasedWell'
    <2>1. LwReleasedWell /\ (LwClean' <=> LwClean)
      BY <1>1 DEF LwInductive, LwClean
    <2>2. /\ LwFits(lwAccepted, lwMem.floor, lwMem.window, lwMem.day)'
               <=> LwFits(lwAccepted, lwMem.floor, lwMem.window, lwMem.day)
          /\ LwFits(lwAccepted, lwKept.floor, lwKept.window, lwToday)'
               <=> LwFits(lwAccepted, lwKept.floor, lwKept.window, lwToday)
      BY <1>1 DEF LwFits, LwDayAccepted, LwWeekAccepted, LwFitsWindow, LwInWeek, LwSum
    <2> QED BY <1>1, <2>1, <2>2 DEF LwReleasedWell, LwAcceptedOf, LwHorizon, LwWeekOf, LwAllDays,
          LwKeptDays, LwFloorDays, LwAllowed
  <1>9. LwDecidesRight'
    BY <1>1 DEF LwInductive, LwDecidesRight, LwClean, LwAcceptsDay, LwAcceptsWeek, LwTrueWeek, LwWeekOf,
      LwAllDays, LwSum
  <1>10. LwFiled'
    BY <1>5, <1>6, <1>7 DEF LwFiled
  <1> QED BY <1>3, <1>4, <1>8, <1>9, <1>10 DEF LwInductive

\* A new day keeps it: there is nothing of it yet, in any store.
LEMMA LwNewDayStep == ASSUME LwSized, LwInductive, LwNewDay PROVE LwInductive'
  <1>1. /\ lwToday < LwDays /\ lwToday' = lwToday + 1
        /\ UNCHANGED <<lwMem, lwRun, lwRows, lwRedis, lwReleased, lwKept, lwFills, lwMishaps, lwPnl,
                       lwAccepted, lwHalted, lwCut, lwForgotten, lwLate>>
    BY DEF LwNewDay
  <1>2. lwToday' \in LwAllDays /\ lwToday' > lwToday /\ lwToday <= lwToday' /\ lwToday' \in Nat
    <2>1. \A n, m \in Nat : n \in 1..m /\ n < m => n + 1 \in 1..m /\ n + 1 > n /\ n <= n + 1 /\ n + 1 \in Nat
      OBVIOUS
    <2> QED BY <1>1, <2>1, LwHere, LwDaysAre DEF LwAllDays
  <1>3. \A n \in Nat : n <= lwToday => n <= lwToday' /\ lwToday' > n
    <2>1. \A a, b, c \in Nat : a <= b /\ c > b => a <= c /\ c > a
      OBVIOUS
    <2> QED BY <1>2, <2>1, LwHere
  <1>4. LwHorizon' \in Nat /\ LwHorizon <= LwHorizon'
    <2>1. \A n \in Nat : n <= n
      OBVIOUS
    <2> QED BY <1>1, <1>2, <2>1, LwHere DEF LwHorizon
  <1>5. LwTyped'
    BY <1>1, <1>2, <1>3, LwHere DEF LwInductive, LwTyped
  <1>6. LwBeyond(LwHorizon)
    BY DEF LwInductive
  <1>7. LwBeyond(LwHorizon)'
    <2>1. \A a, b, c \in Nat : a <= b /\ c > b => c > a
      OBVIOUS
    <2>2. \A d \in LwAllDays : d > LwHorizon' => d > LwHorizon
      BY <1>4, <2>1, LwHere, LwDaysAre
    <2> QED BY <1>1, <1>6, <2>2 DEF LwBeyond
  <1>8. lwPnl[lwToday'] = 0 /\ ~lwRows[lwToday'].made /\ lwToday' \notin DOMAIN lwRedis
    <2>1. lwToday' > LwHorizon
      BY <1>3, LwHere, LwDaysAre
    <2> QED BY <1>2, <1>6, <2>1 DEF LwBeyond
  <1>9. LwAdds(lwMem)'
    BY <1>1 DEF LwInductive, LwAdds, LwSum, LwWeekOf, LwAllDays
  <1>10. LwKsMade' /\ LwHalts'
    BY <1>1, <1>8 DEF LwInductive, LwFiled, LwKsMade, LwHalts, LwAnyKs
  <1>11. LwStores'
    <2>1. LwStored' = {}
      BY <1>1, <1>8 DEF LwStored
    <2> QED BY <1>1, <1>8, <2>1 DEF LwInductive, LwFiled, LwStores, LwHeld
  <1>12. LwTold'
    <2>1. LwTold /\ (LwClean' <=> LwClean)
      BY <1>1 DEF LwInductive, LwFiled, LwClean
    <2>2. (LwFigures(lwPnl, lwMem))' <=> LwFigures(lwPnl, lwMem)
      BY <1>1 DEF LwFigures, LwWeekOf, LwAllDays
    <2>3. \A d \in LwAllDays : LwOnFile(d)' <=> LwOnFile(d)
      BY <1>1 DEF LwOnFile
    <2> QED BY <1>1, <2>1, <2>2, <2>3 DEF LwTold, LwPendingFill
  <1>13. LwReleasedWell'
    <2>1. LwReleasedWell /\ (LwClean' <=> LwClean)
      BY <1>1 DEF LwInductive, LwClean
    <2>2. LwFits(lwAccepted, lwMem.floor, lwMem.window, lwMem.day)'
            <=> LwFits(lwAccepted, lwMem.floor, lwMem.window, lwMem.day)
      BY <1>1 DEF LwFits, LwDayAccepted, LwWeekAccepted, LwFitsWindow, LwInWeek, LwSum
    <2>3. lwKept.day \in Nat /\ lwKept.floor \in LwFloors /\ lwKept.window \in LwWindows
      BY LwHere DEF LwKeptType
    <2>4. lwAccepted.day <= lwToday
      <3>1. \A a, b, c \in Nat : a <= b /\ b <= c => a <= c
        OBVIOUS
      <3> QED BY <3>1, LwHere, LwDaysAre
    <2>5. LwFits(lwAccepted, lwKept.floor, lwKept.window, lwToday)
            => LwFits(lwAccepted, lwKept.floor, lwKept.window, lwToday')
      BY <1>2, <2>3, <2>4, LwHere, LwFitsLater
    <2>6. LwFits(lwAccepted, lwKept.floor, lwKept.window, lwToday')
            => LwFits(lwAccepted, lwKept.floor, lwKept.window, lwToday)'
      BY <1>1 DEF LwFits, LwDayAccepted, LwWeekAccepted, LwFitsWindow, LwInWeek, LwSum
    <2>7. LwAcceptedOf'
      <3>1. lwAccepted.day <= LwHorizon'
        <4>1. \A a, b, c \in Nat : a <= b /\ b <= c => a <= c
          OBVIOUS
        <4> QED BY <1>4, <4>1, LwHere, LwDaysAre
      <3> QED BY <1>1, <2>1, <3>1 DEF LwReleasedWell, LwAcceptedOf, LwWeekOf, LwAllDays
    <2>8. LwKeptDays' /\ LwFloorDays'
      BY <1>1, <1>3, <2>1, <2>3 DEF LwReleasedWell, LwKeptDays, LwFloorDays
    <2>9. LwAllowed'
      BY <1>1, <2>1, <2>2, <2>5, <2>6 DEF LwReleasedWell, LwAllowed
    <2> QED BY <2>7, <2>8, <2>9 DEF LwReleasedWell
  <1>14. LwDecidesRight'
    BY <1>1 DEF LwInductive, LwDecidesRight, LwClean, LwAcceptsDay, LwAcceptsWeek, LwTrueWeek, LwWeekOf,
      LwAllDays, LwSum
  <1>15. LwFiled'
    BY <1>10, <1>11, <1>12 DEF LwFiled
  <1> QED BY <1>5, <1>7, <1>9, <1>13, <1>14, <1>15 DEF LwInductive

\* The end of the worker keeps it: the rows, Redis and the audit rows stay.
LEMMA LwEndStep == ASSUME LwSized, LwInductive, LwEnd PROVE LwInductive'
  <1>1. /\ lwMem.up /\ lwMem' = [LwNewTracker EXCEPT !.up = FALSE] /\ lwRun' = LwIdle
        /\ lwMishaps' = [all |-> lwMishaps.all + 1, failed |-> lwMishaps.failed + 0]
        /\ lwCut' = (lwCut \/ lwMem.unsaved \/ (lwRun.at = "write" /\ lwRun.fill))
        /\ lwForgotten' = (lwForgotten \/ lwRun.missed \/ (lwRun.at = "write" /\ lwRun.fill))
        /\ UNCHANGED <<lwToday, lwRows, lwRedis, lwReleased, lwKept, lwFills, lwPnl, lwAccepted, lwHalted,
             lwLate>>
    BY DEF LwEnd, LwMishap
  <1>2. /\ lwMem' = [up |-> FALSE, day |-> 1, daily |-> 0, weekly |-> 0, prior |-> LwNothing, ks |-> FALSE,
                    unsaved |-> FALSE, floor |-> LwNoFloor, window |-> LwNoWindow, unwritten |-> FALSE,
                      seen |-> 0]
    BY <1>1 DEF LwNewTracker
  <1>3. LwNoFloor \in LwFloors /\ LwNoWindow \in LwWindows /\ ~LwNoFloor.on /\ ~LwNoWindow.on
    BY LwNothingIs DEF LwNoFloor, LwNoWindow, LwFloors, LwWindows
  <1>4. /\ lwMem' \in LwMemType /\ ~lwMem'.up /\ lwMem'.day = 1 /\ lwMem'.daily = 0 /\ lwMem'.weekly = 0
        /\ lwMem'.prior = LwNothing /\ ~lwMem'.floor.on /\ ~lwMem'.window.on /\ lwMem'.seen = 0
    <2>1. lwMem' \in LwMemType
      BY <1>2, <1>3, LwNothingIs, LwDaysAre DEF LwMemType
    <2> QED BY <1>2, <1>3, <2>1
  <1>5. /\ lwRun' \in LwRunType /\ lwRun'.at = "idle" /\ ~lwRun'.fill
    BY <1>1 DEF LwIdle, LwRunType
  <1>6. LwTyped'
    <2>1. lwMishaps' \in [all : Nat, failed : Nat]
      BY <1>1 DEF LwInductive, LwTyped
    <2>2. \A n \in Nat : 0 <= n
      OBVIOUS
    <2>3. {lwCut', lwForgotten'} \subseteq BOOLEAN
      BY <1>1
    <2>4. lwMem'.day <= lwToday /\ lwMem'.seen <= Len(lwReleased)
      BY <1>4, <2>2, LwHere DEF LwAllDays
    <2> QED BY <1>1, <1>4, <1>5, <2>1, <2>3, <2>4 DEF LwInductive, LwTyped
  <1>7. LwHorizon' = lwToday /\ LwHorizon = lwMem.day
    BY <1>1, <1>4 DEF LwHorizon
  <1>8. LwBeyond(LwHorizon)'
    <2>1. \A a, b, c \in Nat : a <= b /\ c > b => c > a
      OBVIOUS
    <2>2. \A d \in LwAllDays : d > LwHorizon' => d > LwHorizon
      BY <1>7, <2>1, LwHere, LwDaysAre
    <2> QED BY <1>1, <2>2 DEF LwInductive, LwBeyond
  <1>9. LwAdds(lwMem)'
    <2>1. lwMem'.weekly = LwSum(lwMem'.prior) + lwMem'.daily /\ DOMAIN lwMem'.prior = {}
      BY <1>4, LwNothingIs
    <2> QED BY <2>1 DEF LwAdds, LwSum
  <1>10. LwKsMade' /\ LwHalts'
    BY <1>1, <1>4 DEF LwInductive, LwFiled, LwKsMade, LwHalts, LwAnyKs
  <1>11. LwStores'
    <2>1. LwHeld' <=> LwHeld
      BY <1>1 DEF LwHeld, LwStored
    <2> QED BY <1>1, <1>4, <2>1 DEF LwInductive, LwFiled, LwStores, LwPendingFill
  <1>12. LwClean' => LwClean
    <2>1. lwMishaps'.failed = lwMishaps.failed
      BY <1>1, LwHere
    <2> QED BY <1>1, <2>1 DEF LwClean
  <1>13. LwTold'
    <2>1. \A d \in LwAllDays : LwOnFile(d)' <=> LwOnFile(d)
      BY <1>1 DEF LwOnFile
    <2>2. LwClean' => ~LwPendingFill
      BY <1>1 DEF LwClean, LwPendingFill
    <2> QED BY <1>4, <1>12, <2>1, <2>2 DEF LwInductive, LwFiled, LwTold
  <1>14. LwReleasedWell'
    <2>1. LwReleasedWell
      BY DEF LwInductive
    <2>2. LwFits(lwAccepted, lwKept.floor, lwKept.window, lwToday)'
            <=> LwFits(lwAccepted, lwKept.floor, lwKept.window, lwToday)
      BY <1>1 DEF LwFits, LwDayAccepted, LwWeekAccepted, LwFitsWindow, LwInWeek, LwSum
    <2>3. LwAcceptedOf'
      <3>1. lwAccepted.day <= lwToday
        <4>1. \A a, b, c \in Nat : a <= b /\ b <= c => a <= c
          OBVIOUS
        <4> QED BY <4>1, LwHere, LwDaysAre
      <3> QED BY <1>1, <1>7, <2>1, <3>1 DEF LwReleasedWell, LwAcceptedOf, LwWeekOf, LwAllDays
    <2>4. LwKeptDays' /\ LwFloorDays'
      BY <1>1, <1>4, <2>1 DEF LwReleasedWell, LwKeptDays, LwFloorDays
    <2>5. LwAllowed'
      BY <1>1, <1>4, <1>12, <2>1, <2>2 DEF LwReleasedWell, LwAllowed
    <2> QED BY <2>3, <2>4, <2>5 DEF LwReleasedWell
  <1>15. LwDecidesRight'
    BY <1>5 DEF LwDecidesRight
  <1>16. LwFiled'
    BY <1>10, <1>11, <1>13 DEF LwFiled
  <1> QED BY <1>6, <1>8, <1>9, <1>14, <1>15, <1>16 DEF LwInductive

\* What a row that is written leaves, whether a fill's or the one that notes a release.
LEMMA LwRowStep ==
    ASSUME LwSized, LwInductive, lwMem.up, NEW r, r = LwRolled(lwMem),
           NEW q \in LwMemType, LwSameDay(q, r), LwSameFlag(q, r), q.floor = r.floor, q.window = r.window,
           lwMem' = LwSettled(q), LwRow(q) = LwRow(r), LwTakes(q) <=> LwTakes(r),
           lwRows' = [lwRows EXCEPT ![lwToday] = LwRow(r)],
           lwAccepted' \in LwAcceptedType,
           LwTakes(r) => lwAccepted' = LwTaken(lwToday),
           ~LwTakes(r) => lwAccepted'.day = lwAccepted.day /\ lwAccepted'.pnl = lwAccepted.pnl
             /\ lwAccepted'.lost = lwAccepted.lost,
           UNCHANGED <<lwToday, lwPnl, lwHalted, lwCut, lwForgotten>>,
           \A d \in DOMAIN lwRedis' : \/ d \in DOMAIN lwRedis /\ lwRedis'[d] = lwRedis[d]
                                      \/ d = lwMem.day /\ lwRedis'[d] = lwMem.daily,
           LwClean' => LwClean,
           LwClean' /\ LwPendingFill =>
               lwMem.day = lwToday /\ (lwMem.day \in DOMAIN lwRedis' => lwRedis'[lwMem.day] = lwMem.daily),
           ~lwRun'.fill
    PROVE  /\ lwMem' \in LwMemType /\ lwMem'.up /\ lwMem'.day = lwToday /\ lwMem'.seen = q.seen
           /\ lwRows' \in [LwAllDays -> LwRowType]
           /\ LwBeyond(LwHorizon)' /\ LwAdds(lwMem)' /\ LwFiled' /\ LwDecidesRight'
           /\ LwAcceptedOf' /\ LwFloorDays'
           /\ LwClean' /\ ~lwAccepted'.lost => LwFits(lwAccepted, lwMem.floor, lwMem.window, lwMem.day)'
  <1> DEFINE rw == LwRow(r)
  <1>1. /\ lwMem' \in LwMemType /\ LwSameDay(lwMem', r) /\ LwAdds(lwMem') /\ lwMem'.seen = q.seen
        /\ lwMem'.up /\ lwMem'.day = lwToday
        /\ rw \in LwRowType /\ rw.made /\ rw.daily = lwMem'.daily
        /\ ~lwMem'.unsaved /\ (lwMem'.ks <=> rw.ks)
        /\ \A d \in LwAllDays : d # lwToday /\ lwRows[d].ks => lwMem'.ks
        /\ lwHalted /\ ~lwCut => lwMem'.ks
        /\ lwAccepted'.day <= lwToday /\ (lwAccepted'.day # 0
             => DOMAIN lwAccepted'.pnl = LwWeekOf(lwAccepted'.day))
        /\ lwMem'.floor.on => lwMem'.floor.day <= lwMem'.day
        /\ lwMem'.window.on => lwMem'.window.day <= lwMem'.day
        /\ LwClean /\ ~lwAccepted'.lost => LwFits(lwAccepted', lwMem'.floor, lwMem'.window, lwMem'.day)
    <2>1. PICK acc \in LwAcceptedType, n \in {lwMem'} : n = lwMem' /\ acc = lwAccepted'
      OBVIOUS
    <2>2. rw = LwRow(q)
      OBVIOUS
    <2> HIDE DEF rw
    <2>3. /\ n \in LwMemType /\ LwSameDay(n, r) /\ LwAdds(n) /\ n.seen = q.seen
          /\ n.up /\ n.day = lwToday
          /\ rw \in LwRowType /\ rw.made /\ rw.daily = n.daily
          /\ ~n.unsaved /\ (n.ks <=> rw.ks)
          /\ \A d \in LwAllDays : d # lwToday /\ lwRows[d].ks => n.ks
          /\ lwHalted /\ ~lwCut => n.ks
          /\ acc.day <= lwToday /\ (acc.day # 0 => DOMAIN acc.pnl = LwWeekOf(acc.day))
          /\ n.floor.on => n.floor.day <= n.day
          /\ n.window.on => n.window.day <= n.day
          /\ LwClean /\ ~acc.lost => LwFits(acc, n.floor, n.window, n.day)
      BY <2>1, <2>2, LwRowWritten
    <2> QED BY <2>1, <2>3
  <1> HIDE DEF rw
  <1>2. /\ lwRows' \in [LwAllDays -> LwRowType] /\ lwRows'[lwToday] = rw
        /\ \A d \in LwAllDays : d # lwToday => lwRows'[d] = lwRows[d]
    BY <1>1, LwHere DEF rw
  <1>3. LwHorizon' = lwToday /\ LwBeyond(lwMem.day)
    BY <1>1 DEF LwHorizon, LwInductive
  <1>4. LwBeyond(LwHorizon)'
    <2>1. \A d \in LwAllDays : d > lwToday => d > lwMem.day /\ d # lwToday /\ d # lwMem.day
      <3>1. \A a, b, c \in Nat : a > b /\ c <= b => a > c /\ a # b /\ a # c
        OBVIOUS
      <3> QED BY <3>1, LwHere, LwDaysAre
    <2> QED BY <1>2, <1>3, <2>1 DEF LwBeyond
  <1>5. LwAdds(lwMem)'
    BY <1>1 DEF LwAdds, LwSum, LwWeekOf, LwAllDays
  <1>6. LwKsMade'
    BY <1>1, <1>2 DEF LwInductive, LwFiled, LwKsMade
  <1>7. LwHalts'
    <2>1. LwAnyKs' => lwMem'.ks
      BY <1>1, <1>2 DEF LwAnyKs
    <2>2. lwMem'.ks => LwAnyKs' /\ lwRows'[lwToday].ks
      BY <1>1, <1>2, LwHere DEF LwAnyKs
    <2> QED BY <1>1, <1>2, <2>1, <2>2 DEF LwHalts
  <1>8. LwStores'
    <2>1. SUFFICES ASSUME ~lwForgotten PROVE lwMem'.daily <= lwPnl[lwToday] /\ LwHeld'
      BY <1>1 DEF LwStores
    <2>2. lwMem'.daily <= lwPnl[lwToday]
      <3>1. lwMem.daily <= lwPnl[lwMem.day]
        BY <2>1 DEF LwInductive, LwFiled, LwStores
      <3>2. lwMem.day = lwToday => r = lwMem
        BY LwHere, LwRolledIs
      <3>3. lwMem.day # lwToday => r.daily = 0 /\ lwPnl[lwToday] = 0
        <4>1. lwMem.day # lwToday => lwToday > lwMem.day
          BY LwHere
        <4> QED BY <1>3, <4>1, LwHere, LwRolledIs DEF LwBeyond
      <3> QED BY <1>1, <3>1, <3>2, <3>3 DEF LwSameDay
    <2>3. lwMem'.daily \in LwStored'
      BY <1>1, <1>2 DEF LwStored
    <2> QED BY <2>2, <2>3 DEF LwHeld
  <1>9. LwTold'
    <2>0. SUFFICES ASSUME LwClean' PROVE LwFigures(lwPnl, lwMem)' /\ \A d \in LwAllDays : LwOnFile(d)'
      BY DEF LwTold
    <2>1. SUFFICES ASSUME LwClean, NEW d \in LwAllDays PROVE LwFigures(lwPnl', lwMem') /\ LwOnFile(d)'
      <3>1. (LwFigures(lwPnl, lwMem))' <=> LwFigures(lwPnl', lwMem')
        BY DEF LwFigures, LwWeekOf, LwAllDays
      <3> QED BY <2>0, <3>1, LwHere
    <2>2. LwFigures(lwPnl, lwMem) /\ ((LwPendingFill /\ d = lwMem.day) \/ LwOnFile(d))
      BY <2>1 DEF LwInductive, LwFiled, LwTold
    <2>3. LwFigures(lwPnl, r)
      BY <1>3, <2>2, LwHere, LwRolledFigures
    <2>4. LwFigures(lwPnl, lwMem')
      BY <1>1, <2>3 DEF LwFigures, LwSameDay
    <2>5. IF lwRows'[d].made THEN lwRows'[d].daily = lwPnl[d] ELSE lwPnl[d] = 0
      <3>1. CASE d = lwToday
        BY <1>1, <1>2, <2>4, <3>1 DEF LwFigures
      <3>2. CASE d # lwToday
        <4>1. LwOnFile(d)
          BY <2>0, <2>1, <2>2, <3>2
        <4> QED BY <1>2, <3>2, <4>1 DEF LwOnFile
      <3> QED BY <3>1, <3>2
    <2>6. ASSUME d \in DOMAIN lwRedis' PROVE lwRedis'[d] = lwPnl[d]
      <3>1. CASE LwPendingFill /\ d = lwMem.day
        BY <2>0, <2>1, <2>2, <2>6, <3>1 DEF LwFigures
      <3>2. CASE LwOnFile(d)
        BY <2>2, <2>6, <3>2 DEF LwFigures, LwOnFile
      <3> QED BY <2>2, <3>1, <3>2
    <2> QED BY <2>4, <2>5, <2>6 DEF LwOnFile
  <1>10. LwAcceptedOf' /\ LwFloorDays'
    BY <1>1, <1>3 DEF LwAcceptedOf, LwFloorDays, LwWeekOf, LwAllDays
  <1>11. LwClean' /\ ~lwAccepted'.lost => LwFits(lwAccepted, lwMem.floor, lwMem.window, lwMem.day)'
    <2>1. LwFits(lwAccepted', lwMem'.floor, lwMem'.window, lwMem'.day)
            => LwFits(lwAccepted, lwMem.floor, lwMem.window, lwMem.day)'
      BY DEF LwFits, LwDayAccepted, LwWeekAccepted, LwFitsWindow, LwInWeek, LwSum
    <2> QED BY <1>1, <2>1
  <1>12. LwDecidesRight'
    BY DEF LwDecidesRight
  <1>13. LwFiled'
    BY <1>6, <1>7, <1>8, <1>9 DEF LwFiled
  <1> QED BY <1>1, <1>2, <1>4, <1>5, <1>10, <1>11, <1>12, <1>13

\* The note of a release keeps it.
LEMMA LwNoteStep == ASSUME LwSized, LwInductive, LwNote PROVE LwInductive'
  <1> DEFINE r == LwRolled(lwMem)
             seen == IF LwLatest > r.seen THEN LwLatest ELSE r.seen
             q == [r EXCEPT !.unwritten = FALSE, !.seen = seen]
             acc == IF LwTakes(r) THEN LwTaken(lwToday) ELSE [lwAccepted EXCEPT !.kept = TRUE]
             old == IF LwTakes(r) THEN LwTaken(lwToday) ELSE lwAccepted
  <1>1. /\ lwRun.at = "note" /\ lwRun' = [LwIdle EXCEPT !.missed = lwRun.missed]
        /\ lwMem' = LwSettled(q) /\ lwRows' = [lwRows EXCEPT ![lwToday] = LwRow(r)]
        /\ \/ /\ lwKept' = [day |-> lwMem.day, floor |-> lwMem.floor, window |-> lwMem.window, seen |-> seen]
              /\ lwAccepted' = acc /\ lwMishaps' = lwMishaps
           \/ /\ lwMishaps' = [all |-> lwMishaps.all + 1, failed |-> lwMishaps.failed + 1]
              /\ lwAccepted' = old /\ lwKept' = lwKept
        /\ UNCHANGED <<lwToday, lwRedis, lwReleased, lwFills, lwPnl, lwHalted, lwCut, lwForgotten, lwLate>>
    BY DEF LwNote, LwMishap
  <1>2. /\ r \in LwMemType /\ r.up = lwMem.up /\ r.day = lwToday /\ LwAdds(r)
        /\ LwSameFloors(r, lwMem) /\ LwSameFlag(r, lwMem) /\ r.seen = lwMem.seen
    BY LwHere, LwRolledIs
  <1> HIDE DEF r
  <1>3. lwMem.up
    BY <1>1, LwHere DEF LwIdle
  <1>4. LwLatest \in Nat /\ LwLatest <= Len(lwReleased)
    <2>1. \A n \in Nat : 0 <= n /\ n <= n
      OBVIOUS
    <2> QED BY <2>1, LwHere DEF LwLatest
  <1>5. seen \in Nat /\ seen <= Len(lwReleased)
    <2>1. r.seen \in Nat /\ r.seen <= Len(lwReleased)
      BY <1>2, LwFieldsAre DEF LwInductive, LwTyped
    <2> QED BY <1>4, <2>1
  <1> HIDE DEF seen
  <1> HIDE DEF q
  <1>7. /\ q \in LwMemType /\ LwSameDay(q, r) /\ LwSameFlag(q, r) /\ q.floor = r.floor
             /\ q.window = r.window /\ q.seen = seen
    <2>1. q = LwNoted(r, seen)
      BY DEF q, LwNoted
    <2> QED BY <1>2, <1>5, <2>1, LwNotedIs
  <1>8. LwRow(q) = LwRow(r) /\ (LwTakes(q) <=> LwTakes(r))
    BY <1>7 DEF LwRow, LwTakes, LwOwn, LwSameFlag, LwSameDay
  <1>9. LwTaken(lwToday) \in LwAcceptedType
    <2>1. lwPnl \in LwDayFns /\ DOMAIN lwPnl = LwAllDays
      BY LwHere, LwFnMade
    <2>2. LwWeekOf(lwToday) \subseteq DOMAIN lwPnl
      BY <2>1, LwWeekIs
    <2>3. Restrict(lwPnl, LwWeekOf(lwToday)) \in LwDayFns
      BY <2>1, <2>2, LwRestrictIs
    <2> QED BY <2>3, LwHere DEF LwTaken, LwAcceptedType
  <1>10. /\ acc \in LwAcceptedType /\ old \in LwAcceptedType
         /\ LwTakes(r) => acc = LwTaken(lwToday) /\ old = LwTaken(lwToday)
         /\ ~LwTakes(r) => /\ acc.day = lwAccepted.day /\ acc.pnl = lwAccepted.pnl /\ acc.lost = lwAccepted.lost
                           /\ old = lwAccepted
    BY <1>9, LwHere DEF LwAcceptedType
  <1> HIDE DEF acc, old
  <1>11. /\ lwAccepted' \in LwAcceptedType
         /\ LwTakes(r) => lwAccepted' = LwTaken(lwToday)
         /\ ~LwTakes(r) => lwAccepted'.day = lwAccepted.day /\ lwAccepted'.pnl = lwAccepted.pnl
              /\ lwAccepted'.lost = lwAccepted.lost
    BY <1>1, <1>10
  <1>12. lwMishaps' \in [all : Nat, failed : Nat]
           /\ lwMishaps'.failed \in {lwMishaps.failed, lwMishaps.failed + 1}
    BY <1>1 DEF LwInductive, LwTyped
  <1>13. LwClean' => LwClean /\ lwMishaps' = lwMishaps
    <2>1. \A n \in Nat : n + 1 # 0
      OBVIOUS
    <2>3. lwMishaps' = lwMishaps \/ lwMishaps'.failed = lwMishaps.failed + 1
      BY <1>1
    <2>2. lwMishaps'.failed = 0 => lwMishaps' = lwMishaps
      BY <2>1, <2>3, LwHere
    <2> QED BY <1>1, <2>2 DEF LwClean
  <1>14. ~LwPendingFill /\ lwRun' \in LwRunType /\ ~lwRun'.fill /\ lwRun'.at = "idle"
    BY <1>1, LwHere DEF LwPendingFill, LwIdle, LwRunType
  <1>15. /\ lwMem' \in LwMemType /\ lwMem'.up /\ lwMem'.day = lwToday /\ lwMem'.seen = seen
         /\ lwRows' \in [LwAllDays -> LwRowType]
         /\ LwBeyond(LwHorizon)' /\ LwAdds(lwMem)' /\ LwFiled' /\ LwDecidesRight'
         /\ LwAcceptedOf' /\ LwFloorDays'
         /\ LwClean' /\ ~lwAccepted'.lost => LwFits(lwAccepted, lwMem.floor, lwMem.window, lwMem.day)'
    BY <1>1, <1>3, <1>7, <1>8, <1>11, <1>13, <1>14, LwRowStep DEF r
  <1>16. \/ lwKept' = lwKept
         \/ lwKept' = [day |-> lwMem.day, floor |-> lwMem.floor, window |-> lwMem.window, seen |-> seen]
              /\ lwAccepted' = acc
    BY <1>1
  <1>17. lwKept' \in LwKeptType /\ lwKept'.seen <= Len(lwReleased)
    <2>1. lwKept \in LwKeptType /\ lwKept.seen <= Len(lwReleased)
      BY DEF LwInductive, LwTyped
    <2>2. CASE lwKept' = lwKept
      BY <2>1, <2>2
    <2>3. CASE lwKept' = [day |-> lwMem.day, floor |-> lwMem.floor, window |-> lwMem.window, seen |-> seen]
      <3>1. lwMem.day \in Nat /\ lwMem.floor \in LwFloors /\ lwMem.window \in LwWindows
        BY LwHere
      <3> QED BY <1>5, <2>3, <3>1 DEF LwKeptType
    <2> QED BY <1>16, <2>2, <2>3
  <1>18. LwTyped'
    BY <1>1, <1>11, <1>12, <1>14, <1>15, <1>17, <1>5, LwHere DEF LwInductive, LwTyped
  <1>19. LwKeptDays'
    <2>1. LwKeptDays /\ LwFloorDays
      BY DEF LwInductive, LwReleasedWell
    <2> QED BY <1>1, <1>16, <2>1, LwHere DEF LwKeptDays, LwFloorDays
  <1>20. ASSUME LwClean', ~lwAccepted'.lost, lwAccepted'.kept
                  PROVE LwFits(lwAccepted, lwKept.floor, lwKept.window, lwToday)'
    <2>1. ~LwTakes(r)
      BY <1>11, <1>20 DEF LwTaken
    <2>2. LwClean /\ ~lwAccepted.lost /\ lwMishaps' = lwMishaps
      BY <1>11, <1>13, <1>20, <2>1
    <2>3. /\ lwKept' = [day |-> lwMem.day, floor |-> lwMem.floor, window |-> lwMem.window, seen |-> seen]
      <3>1. lwMishaps.failed + 1 # lwMishaps.failed
        BY LwHere
      <3> QED BY <1>1, <2>2, <3>1
    <2>4. LwFits(lwAccepted, lwMem.floor, lwMem.window, lwMem.day) /\ lwAccepted.day <= lwMem.day
      BY <1>3, <2>2 DEF LwInductive, LwReleasedWell, LwAllowed, LwAcceptedOf, LwHorizon
    <2>5. LwFits(lwAccepted, lwMem.floor, lwMem.window, lwToday)
      BY <2>4, LwHere, LwFitsLater
    <2>6. lwKept'.floor = lwMem.floor /\ lwKept'.window = lwMem.window
      BY <2>3
    <2>7. LwFits(lwAccepted', lwKept'.floor, lwKept'.window, lwToday)
      BY <1>11, <2>1, <2>5, <2>6 DEF LwFits, LwDayAccepted, LwWeekAccepted
    <2> QED BY <1>1, <2>7 DEF LwFits, LwDayAccepted, LwWeekAccepted, LwFitsWindow, LwInWeek, LwSum
  <1>21. LwReleasedWell'
    BY <1>15, <1>19, <1>20 DEF LwReleasedWell, LwAllowed
  <1> QED BY <1>15, <1>18, <1>21 DEF LwInductive

\* A fill's numbers are written, or not: that keeps it too.
LEMMA LwWriteStep == ASSUME LwSized, LwInductive, LwWrite PROVE LwInductive'
  <1> DEFINE r == LwRolled(lwMem)
  <1>1. /\ lwRun.at = "write" /\ lwLate' = (lwLate \/ (lwRun.fill /\ lwMem.day # lwToday))
        /\ UNCHANGED <<lwToday, lwReleased, lwKept, lwFills, lwPnl, lwHalted, lwCut, lwForgotten>>
    BY DEF LwWrite
  <1>2. PICK failing \in SUBSET {"redis", "row"} :
           /\ lwMishaps' = [all |-> lwMishaps.all + Cardinality(failing),
                failed |-> lwMishaps.failed + Cardinality(failing)]
           /\ lwRedis' = IF "redis" \in failing THEN lwRedis ELSE LwWith(lwRedis, lwMem.day, lwMem.daily)
           /\ lwRows' = IF "row" \in failing THEN lwRows ELSE [lwRows EXCEPT ![lwToday] = LwRow(r)]
           /\ lwMem' = IF "row" \in failing THEN r ELSE LwSettled(r)
           /\ lwRun' = [LwIdle EXCEPT !.at = IF lwMem'.unwritten THEN "note" ELSE "idle",
                            !.missed = "row" \in failing /\ ("redis" \in failing \/ lwMem.day # lwToday)]
           /\ lwAccepted' = IF "row" \notin failing /\ LwTakes(r) THEN LwTaken(lwToday) ELSE lwAccepted
    BY DEF LwWrite, LwMishap
  <1>3. /\ r \in LwMemType /\ r.up = lwMem.up /\ r.day = lwToday /\ LwAdds(r)
        /\ LwSameFloors(r, lwMem) /\ LwSameFlag(r, lwMem) /\ r.seen = lwMem.seen
        /\ lwMem.day = lwToday => r = lwMem
        /\ lwMem.day # lwToday => r.daily = 0
    BY LwHere, LwRolledIs
  <1> HIDE DEF r
  <1>4. lwMem.up
    BY <1>1, LwHere DEF LwIdle
  <1>5. /\ lwRun' \in LwRunType /\ ~lwRun'.fill
        /\ lwRun'.missed <=> "row" \in failing /\ ("redis" \in failing \/ lwMem.day # lwToday)
    <2>1. PICK a \in {"idle", "write", "note"}, b \in BOOLEAN :
             /\ a = (IF lwMem'.unwritten THEN "note" ELSE "idle")
             /\ b = ("row" \in failing /\ ("redis" \in failing \/ lwMem.day # lwToday))
      OBVIOUS
    <2>2. lwRun' = [at |-> a, fill |-> FALSE, was |-> FALSE, missed |-> b]
      BY <1>2, <2>1 DEF LwIdle
    <2> QED BY <2>1, <2>2 DEF LwRunType
  <1>6. IsFiniteSet(failing) /\ Cardinality(failing) \in Nat /\ (Cardinality(failing) = 0 => failing = {})
    <2>1. IsFiniteSet({"redis"}) /\ IsFiniteSet({"redis"} \union {"row"})
            /\ {"redis", "row"} = {"redis"} \union {"row"}
      BY FS_Singleton, FS_AddElement
    <2>2. IsFiniteSet(failing)
      BY <2>1, FS_Subset
    <2> QED BY <2>2, FS_CardinalityType, FS_EmptySet
  <1>7. lwMishaps' \in [all : Nat, failed : Nat]
    BY <1>2, <1>6 DEF LwInductive, LwTyped
  <1>8. LwClean' => LwClean /\ failing = {} /\ (lwRun.fill => lwMem.day = lwToday)
    <2>1. lwMishaps'.failed = lwMishaps.failed + Cardinality(failing)
      BY <1>2
    <2>2. \A a, b \in Nat : a + b = 0 => a = 0 /\ b = 0
      OBVIOUS
    <2>3. lwMishaps'.failed = 0 => lwMishaps.failed = 0 /\ failing = {}
      BY <1>6, <2>1, <2>2, LwHere
    <2> QED BY <1>1, <2>3 DEF LwClean
  <1>9. /\ LwWith(lwRedis, lwMem.day, lwMem.daily) \in LwDayFns
        /\ DOMAIN LwWith(lwRedis, lwMem.day, lwMem.daily) = DOMAIN lwRedis \union {lwMem.day}
        /\ LwWith(lwRedis, lwMem.day, lwMem.daily)[lwMem.day] = lwMem.daily
        /\ \A e : e \in DOMAIN lwRedis /\ e # lwMem.day
             => LwWith(lwRedis, lwMem.day, lwMem.daily)[e] = lwRedis[e]
    <2>1. PICK f \in LwDayFns, d \in LwAllDays, n \in Int : f = lwRedis /\ d = lwMem.day /\ n = lwMem.daily
      BY LwHere, LwFieldsAre
    <2>2. /\ LwWith(f, d, n) \in LwDayFns /\ DOMAIN LwWith(f, d, n) = DOMAIN f \union {d}
               /\ LwWith(f, d, n)[d] = n
          /\ \A e : e \in DOMAIN f /\ e # d => LwWith(f, d, n)[e] = f[e]
      BY LwWithIs
    <2> QED BY <2>1, <2>2
  <1>10. /\ lwRedis' \in LwDayFns
         /\ \A d \in DOMAIN lwRedis' : \/ d \in DOMAIN lwRedis /\ lwRedis'[d] = lwRedis[d]
                                       \/ d = lwMem.day /\ lwRedis'[d] = lwMem.daily
         /\ "redis" \notin failing => lwMem.day \in DOMAIN lwRedis' /\ lwRedis'[lwMem.day] = lwMem.daily
    <2>1. CASE "redis" \in failing
      BY <1>2, <2>1, LwHere
    <2>2. CASE "redis" \notin failing
      BY <1>2, <1>9, <2>2, LwHere
    <2> QED BY <2>1, <2>2
  <1>11. LwTaken(lwToday) \in LwAcceptedType
    <2>1. lwPnl \in LwDayFns /\ DOMAIN lwPnl = LwAllDays
      BY LwHere, LwFnMade
    <2>2. LwWeekOf(lwToday) \subseteq DOMAIN lwPnl
      BY <2>1, LwWeekIs
    <2>3. Restrict(lwPnl, LwWeekOf(lwToday)) \in LwDayFns
      BY <2>1, <2>2, LwRestrictIs
    <2> QED BY <2>3, LwHere DEF LwTaken, LwAcceptedType
  <1>12. lwAccepted' \in LwAcceptedType
    BY <1>2, <1>11, LwHere
  <1>13. r.seen = lwMem.seen /\ lwMem.seen <= Len(lwReleased)
    BY <1>3 DEF LwInductive, LwTyped
  <1>14. {lwLate'} \subseteq BOOLEAN
    BY <1>1
  <1>15. LwKeptDays'
    BY <1>1 DEF LwInductive, LwReleasedWell, LwKeptDays
  <1>16. CASE "row" \notin failing
    <2>1. /\ lwRows' = [lwRows EXCEPT ![lwToday] = LwRow(r)] /\ lwMem' = LwSettled(r)
          /\ LwTakes(r) => lwAccepted' = LwTaken(lwToday)
          /\ ~LwTakes(r) => lwAccepted' = lwAccepted
      BY <1>2, <1>16
    <2>2. /\ LwSameDay(r, r) /\ LwSameFlag(r, r)
      BY DEF LwSameDay, LwSameFlag
    <2>3. LwClean' /\ LwPendingFill =>
              lwMem.day = lwToday /\ (lwMem.day \in DOMAIN lwRedis' => lwRedis'[lwMem.day] = lwMem.daily)
      BY <1>8, <1>10 DEF LwPendingFill
    <2>4. /\ lwMem' \in LwMemType /\ lwMem'.up /\ lwMem'.day = lwToday /\ lwMem'.seen = r.seen
          /\ lwRows' \in [LwAllDays -> LwRowType]
          /\ LwBeyond(LwHorizon)' /\ LwAdds(lwMem)' /\ LwFiled' /\ LwDecidesRight'
          /\ LwAcceptedOf' /\ LwFloorDays'
          /\ LwClean' /\ ~lwAccepted'.lost => LwFits(lwAccepted, lwMem.floor, lwMem.window, lwMem.day)'
      BY <1>1, <1>3, <1>4, <1>5, <1>8, <1>10, <1>12, <2>1, <2>2, <2>3, LwRowStep DEF r
    <2>5. LwTyped'
      BY <1>1, <1>5, <1>7, <1>10, <1>12, <1>13, <1>14, <2>4, LwHere DEF LwInductive, LwTyped
    <2>6. ASSUME LwClean', ~lwAccepted'.lost, lwAccepted'.kept
                   PROVE LwFits(lwAccepted, lwKept.floor, lwKept.window, lwToday)'
      <3>1. ~LwTakes(r)
        BY <2>1, <2>6 DEF LwTaken
      <3>2. LwFits(lwAccepted, lwKept.floor, lwKept.window, lwToday)
        BY <1>8, <2>1, <2>6, <3>1 DEF LwInductive, LwReleasedWell, LwAllowed
      <3> QED BY <1>1, <2>1, <3>1, <3>2 DEF LwFits, LwDayAccepted, LwWeekAccepted, LwFitsWindow, LwInWeek, LwSum
    <2>7. LwReleasedWell'
      BY <1>15, <2>4, <2>6 DEF LwReleasedWell, LwAllowed
    <2> QED BY <2>4, <2>5, <2>7 DEF LwInductive
  <1>17. CASE "row" \in failing
    <2>1. lwMem' = r /\ lwRows' = lwRows /\ lwAccepted' = lwAccepted
      BY <1>2, <1>17
    <2>2. ~LwClean'
      BY <1>8, <1>17
    <2>3. LwTyped'
      BY <1>1, <1>3, <1>4, <1>5, <1>7, <1>10, <1>12, <1>13, <1>14, <2>1, LwHere DEF LwInductive, LwTyped
    <2>4. LwHorizon' = lwToday
      BY <1>3, <1>4, <2>1 DEF LwHorizon
    <2>5. LwBeyond(lwMem.day)
      BY <1>4 DEF LwInductive, LwHorizon
    <2>6. LwBeyond(LwHorizon)'
      <3>1. \A d \in LwAllDays : d > lwToday => d > lwMem.day /\ d # lwMem.day
        <4>1. \A a, b, c \in Nat : a > b /\ c <= b => a > c /\ a # c
          OBVIOUS
        <4> QED BY <4>1, LwHere, LwDaysAre
      <3> QED BY <1>1, <1>10, <2>1, <2>4, <2>5, <3>1 DEF LwBeyond
    <2>7. LwAdds(lwMem)'
      BY <1>3, <2>1 DEF LwAdds, LwSum, LwWeekOf, LwAllDays
    <2>8. LwKsMade' /\ LwHalts'
      <3>1. r.ks = lwMem.ks /\ r.unsaved = lwMem.unsaved
        BY <1>3 DEF LwSameFlag
      <3> QED BY <1>1, <1>3, <1>4, <2>1, <3>1 DEF LwInductive, LwFiled, LwKsMade, LwHalts, LwAnyKs
    <2>9. LwStores'
      <3>1. SUFFICES ASSUME ~lwForgotten
                     PROVE  r.daily <= lwPnl[lwToday] /\ (~lwRun'.missed => LwHeld')
        BY <1>1, <1>3, <1>4, <2>1 DEF LwStores
      <3>2. lwMem.daily <= lwPnl[lwMem.day]
        BY <1>4, <3>1 DEF LwInductive, LwFiled, LwStores
      <3>3. lwMem.day # lwToday => lwPnl[lwToday] = 0
        <4>1. lwMem.day # lwToday => lwToday > lwMem.day
          BY LwHere
        <4> QED BY <2>5, <4>1, LwHere DEF LwBeyond
      <3>4. r.daily <= lwPnl[lwToday]
        BY <1>3, <3>2, <3>3
      <3>5. ASSUME ~lwRun'.missed PROVE LwHeld'
        <4>1. "redis" \notin failing /\ lwMem.day = lwToday
          BY <1>5, <1>17, <3>5
        <4>2. lwMem.daily \in LwStored'
          BY <1>1, <1>10, <4>1 DEF LwStored
        <4> QED BY <1>1, <3>2, <4>1, <4>2 DEF LwHeld
      <3> QED BY <3>4, <3>5
    <2>10. LwTold' /\ LwAllowed'
      BY <2>2 DEF LwTold, LwAllowed
    <2>11. LwAcceptedOf' /\ LwFloorDays'
      <3>1. lwAccepted.day <= lwToday
        <4>1. \A a, b, c \in Nat : a <= b /\ b <= c => a <= c
          OBVIOUS
        <4> QED BY <4>1, LwHere, LwDaysAre
      <3>2. r.floor = lwMem.floor /\ r.window = lwMem.window /\ LwFloorDays
        BY <1>3 DEF LwInductive, LwReleasedWell, LwSameFloors
      <3>3. lwMem.floor.day \in Nat /\ lwMem.window.day \in Nat
        BY LwHere DEF LwFloors, LwWindows
      <3>4. /\ lwMem.floor.on => lwMem.floor.day <= lwToday
            /\ lwMem.window.on => lwMem.window.day <= lwToday
        <4>1. \A a, b, c \in Nat : a <= b /\ b <= c => a <= c
          OBVIOUS
        <4> QED BY <3>2, <3>3, <4>1, LwHere DEF LwFloorDays
      <3>5. LwFloorDays'
        BY <1>3, <2>1, <3>2, <3>4 DEF LwFloorDays
      <3> QED BY <2>1, <2>4, <3>1, <3>5 DEF LwInductive, LwReleasedWell, LwAcceptedOf, LwWeekOf, LwAllDays
    <2>12. LwDecidesRight'
      BY <1>5 DEF LwDecidesRight
    <2> QED BY <1>15, <2>3, <2>6, <2>7, <2>8, <2>9, <2>10, <2>11, <2>12 DEF LwInductive, LwFiled, LwReleasedWell
  <1> QED BY <1>16, <1>17

\* Today's number is one of the stores', and none is worse.
LEMMA LwDailyIs ==
    ASSUME LwSized, LwInductive
    PROVE  /\ LwDaily \in Int /\ LwStored \subseteq Int
           /\ LwStored = {} => LwDaily = 0
           /\ LwStored # {} => LwDaily \in LwStored /\ \A v \in LwStored : LwDaily <= v
  <1>1. lwRows[lwToday].daily \in Int /\ (lwToday \in DOMAIN lwRedis => lwRedis[lwToday] \in Int)
    BY LwHere, LwFnIs DEF LwRowType
  <1>2. LwStored \subseteq Int
    BY <1>1 DEF LwStored
  <1>3. ASSUME LwStored # {} PROVE \E v \in LwStored : \A w \in LwStored : v <= w
    <2>1. PICK a \in Int, b \in Int : LwStored = {a, b}
      <3>1. \/ LwStored = {lwRows[lwToday].daily, lwRows[lwToday].daily}
            \/ lwToday \in DOMAIN lwRedis /\ LwStored = {lwRedis[lwToday], lwRedis[lwToday]}
            \/ lwToday \in DOMAIN lwRedis /\ LwStored = {lwRows[lwToday].daily, lwRedis[lwToday]}
        BY <1>3 DEF LwStored
      <3> QED BY <1>1, <3>1
    <2>2. \A x, y \in Int : x <= x /\ (x <= y \/ y <= x)
      OBVIOUS
    <2> QED BY <2>1, <2>2
  <1>4. LwStored # {} => LwDaily \in LwStored /\ \A v \in LwStored : LwDaily <= v
    BY <1>3 DEF LwDaily, Min
  <1>5. LwStored = {} => LwDaily = 0
    BY DEF LwDaily
  <1>6. LwDaily \in Int
    <2>1. CASE LwStored = {}
      BY <1>5, <2>1
    <2>2. CASE LwStored # {}
      BY <1>2, <1>4, <2>2
    <2> QED BY <2>1, <2>2
  <1> QED BY <1>2, <1>4, <1>5, <1>6

\* What a restart makes of the rows and of Redis.
LEMMA LwRestoredIs ==
    ASSUME LwSized, LwInductive, NEW prior \in LwDayFns, DOMAIN prior \subseteq LwWeekOf(lwToday) \ {lwToday},
           NEW r, r = LwRestored(prior)
    PROVE  /\ r \in LwMemType /\ r.up /\ r.day = lwToday /\ r.daily = LwDaily /\ r.prior = prior /\ LwAdds(r)
           /\ r.ks <=> LwAnyKs
           /\ r.unsaved <=> LwAnyKs /\ ~lwRows[lwToday].ks
           /\ r.floor = (IF lwKept.day = lwToday THEN lwKept.floor ELSE LwNoFloor)
           /\ r.window = (IF LwInWeek(lwKept.day, lwToday) THEN lwKept.window ELSE LwNoWindow)
           /\ r.seen = lwKept.seen
  <1>1. PICK w \in Int, d \in Int : w = LwSum(prior) + LwDaily /\ d = LwDaily
    BY LwDailyIs, LwFnIs
  <1>2. PICK k \in BOOLEAN, u \in BOOLEAN : k = LwAnyKs /\ u = (LwAnyKs /\ ~lwRows[lwToday].ks)
    BY DEF LwAnyKs
  <1>3. LwNoFloor \in LwFloors /\ LwNoWindow \in LwWindows
    BY LwNothingIs DEF LwNoFloor, LwNoWindow, LwFloors, LwWindows
  <1>4. PICK f \in LwFloors, g \in LwWindows, s \in Nat :
           /\ f = (IF lwKept.day = lwToday THEN lwKept.floor ELSE LwNoFloor)
           /\ g = (IF LwInWeek(lwKept.day, lwToday) THEN lwKept.window ELSE LwNoWindow)
           /\ s = lwKept.seen
    BY <1>3, LwHere DEF LwKeptType
  <1>5. r = [up |-> TRUE, day |-> lwToday, daily |-> d, weekly |-> w, prior |-> prior, ks |-> k,
             unsaved |-> u, floor |-> f, window |-> g, unwritten |-> FALSE, seen |-> s]
    BY <1>1, <1>2, <1>4 DEF LwRestored, LwNewTracker, LwAnyKs
  <1>6. r \in LwMemType
    BY <1>5, LwHere DEF LwMemType
  <1>7. r.up /\ r.day = lwToday /\ r.daily = d /\ r.weekly = w /\ r.prior = prior
    BY <1>5
  <1>8. r.ks = k /\ r.unsaved = u /\ r.floor = f /\ r.window = g /\ r.seen = s
    BY <1>5
  <1>9. LwAdds(r)
    BY <1>1, <1>7 DEF LwAdds
  <1>10. r.ks <=> LwAnyKs
    BY <1>2, <1>8
  <1>11. r.unsaved <=> LwAnyKs /\ ~lwRows[lwToday].ks
    BY <1>2, <1>8
  <1>12. /\ r.floor = (IF lwKept.day = lwToday THEN lwKept.floor ELSE LwNoFloor)
         /\ r.window = (IF LwInWeek(lwKept.day, lwToday) THEN lwKept.window ELSE LwNoWindow)
         /\ r.seen = lwKept.seen
    BY <1>4, <1>8
  <1>13. r.daily = LwDaily
    BY <1>1, <1>7
  <1> QED BY <1>6, <1>7, <1>9, <1>10, <1>11, <1>12, <1>13

\* The earlier days' rows.
LEMMA LwPriorIs ==
    ASSUME LwSized, LwInductive
    PROVE  /\ LwPriorRows \in LwDayFns /\ DOMAIN LwPriorRows \subseteq LwWeekOf(lwToday) \ {lwToday}
           /\ \A d \in LwWeekOf(lwToday) \ {lwToday} : d \in DOMAIN LwPriorRows <=> lwRows[d].made
           /\ \A d \in DOMAIN LwPriorRows : LwPriorRows[d] = lwRows[d].daily
           /\ LwNothing \in LwDayFns /\ DOMAIN LwNothing = {}
                /\ DOMAIN LwNothing \subseteq LwWeekOf(lwToday) \ {lwToday}
  <1> DEFINE D == {e \in LwAllDays : e < lwToday /\ LwInWeek(e, lwToday) /\ lwRows[e].made}
  <1>1. \A d \in LwAllDays : lwRows[d].daily \in Int
    BY LwHere DEF LwRowType
  <1>2. LwPriorRows \in [D -> Int] /\ D \in SUBSET LwAllDays
    BY <1>1 DEF LwPriorRows
  <1>3. LwPriorRows \in LwDayFns /\ DOMAIN LwPriorRows = D
    BY <1>2, LwFnMade
  <1>4. \A d \in LwAllDays : (d < lwToday /\ LwInWeek(d, lwToday)) <=> d \in LwWeekOf(lwToday) \ {lwToday}
    <2>1. \A d \in LwAllDays : d < lwToday <=> d <= lwToday /\ d # lwToday
      BY LwHere, LwDaysAre
    <2> QED BY <2>1, LwWeekIs
  <1>5. \A d \in DOMAIN LwPriorRows : LwPriorRows[d] = lwRows[d].daily
    BY DEF LwPriorRows
  <1>6. \A d \in LwWeekOf(lwToday) : d \in LwAllDays
    BY LwWeekIs
  <1> QED BY <1>3, <1>4, <1>5, <1>6, LwNothingIs

\* A restart keeps it.
LEMMA LwBootStep == ASSUME LwSized, LwInductive, LwBoot PROVE LwInductive'
  <1>1. /\ ~lwMem.up
        /\ UNCHANGED <<lwToday, lwRows, lwRedis, lwReleased, lwKept, lwFills, lwPnl, lwHalted, lwCut,
             lwForgotten, lwLate>>
    BY DEF LwBoot
  <1>2. PICK prior \in {LwPriorRows, LwNothing} :
          LET r == LwRestored(prior)
              new == LwLatest > r.seen
              m == IF new THEN [LwAccept(r) EXCEPT !.seen = LwLatest] ELSE r
          IN  /\ IF prior = LwPriorRows THEN UNCHANGED lwMishaps ELSE LwMishap(1, 1)
              /\ lwMem' = m
              /\ lwRun' = [LwIdle EXCEPT !.at = IF LwPending(m) THEN "write" ELSE "idle"]
              /\ lwAccepted' = IF new THEN LwTaken(lwToday) ELSE [lwAccepted EXCEPT !.lost = @ \/ ~lwAccepted.kept]
    BY DEF LwBoot
  <1> DEFINE r == LwRestored(prior)
             new == LwLatest > r.seen
             old == [lwAccepted EXCEPT !.lost = @ \/ ~lwAccepted.kept]
  <1>3. prior \in LwDayFns /\ DOMAIN prior \subseteq LwWeekOf(lwToday) \ {lwToday}
    BY <1>2, LwPriorIs
  <1>4. /\ r \in LwMemType /\ r.up /\ r.day = lwToday /\ r.daily = LwDaily /\ r.prior = prior /\ LwAdds(r)
        /\ r.ks <=> LwAnyKs
        /\ r.unsaved <=> LwAnyKs /\ ~lwRows[lwToday].ks
        /\ r.floor = (IF lwKept.day = lwToday THEN lwKept.floor ELSE LwNoFloor)
        /\ r.window = (IF LwInWeek(lwKept.day, lwToday) THEN lwKept.window ELSE LwNoWindow)
        /\ r.seen = lwKept.seen
    BY <1>3, LwRestoredIs
  <1>5. /\ lwMishaps' = lwMishaps \/ lwMishaps' = [all |-> lwMishaps.all + 1, failed |-> lwMishaps.failed + 1]
        /\ lwMishaps' = lwMishaps /\ lwMishaps.failed = 0
             => prior = LwPriorRows \/ lwMishaps'.failed = lwMishaps.failed + 1
    BY <1>2 DEF LwMishap
  <1>6. /\ new => lwMem' = LwSeen(LwAccept(r), LwLatest) /\ lwAccepted' = LwTaken(lwToday)
        /\ ~new => lwMem' = r /\ lwAccepted' = old
    BY <1>2 DEF LwSeen
  <1>7. /\ lwRun' = [LwIdle EXCEPT !.at = IF LwPending(lwMem') THEN "write" ELSE "idle"]
    BY <1>2
  <1> HIDE DEF r
  <1>8. LwLatest \in Nat /\ LwLatest <= Len(lwReleased)
    <2>1. \A n \in Nat : 0 <= n /\ n <= n
      OBVIOUS
    <2> QED BY <2>1, LwHere DEF LwLatest
  <1> DEFINE a == LwAccept(r)
  <1>9. /\ a \in LwMemType /\ LwSameDay(a, r) /\ LwSameFlag(a, r)
        /\ a.floor.on => a.floor.day = r.day
        /\ a.window.on => a.window.day = r.day
    BY <1>4, LwAcceptIs
  <1> HIDE DEF a
  <1>10. new => /\ lwMem' \in LwMemType /\ LwSameDay(lwMem', a) /\ LwSameFlag(lwMem', a)
                /\ lwMem'.floor = a.floor /\ lwMem'.window = a.window /\ lwMem'.seen = LwLatest
    <2>1. SUFFICES ASSUME lwMem' = LwSeen(a, LwLatest)
                   PROVE  /\ lwMem' \in LwMemType /\ LwSameDay(lwMem', a) /\ LwSameFlag(lwMem', a)
                          /\ lwMem'.floor = a.floor /\ lwMem'.window = a.window /\ lwMem'.seen = LwLatest
      BY <1>6 DEF a
    <2>2. PICK x \in LwMemType, s \in Nat : x = a /\ s = LwLatest
      BY <1>8, <1>9
    <2>3. /\ LwSeen(x, s) \in LwMemType /\ LwSameDay(LwSeen(x, s), x) /\ LwSameFlag(LwSeen(x, s), x)
          /\ LwSameFloors(LwSeen(x, s), x) /\ LwSeen(x, s).seen = s
      BY LwSeenIs
    <2> QED BY <2>1, <2>2, <2>3 DEF LwSameFloors
  <1>11. /\ lwMem' \in LwMemType /\ LwSameDay(lwMem', r) /\ LwSameFlag(lwMem', r)
         /\ lwMem'.up /\ lwMem'.day = lwToday /\ lwMem'.daily = LwDaily /\ lwMem'.prior = prior
              /\ LwAdds(lwMem')
         /\ lwMem'.ks <=> LwAnyKs
         /\ lwMem'.unsaved <=> LwAnyKs /\ ~lwRows[lwToday].ks
    <2>1. lwMem' \in LwMemType /\ LwSameDay(lwMem', r) /\ LwSameFlag(lwMem', r)
      <3>1. CASE new
        BY <1>9, <1>10, <3>1 DEF LwSameDay, LwSameFlag
      <3>2. CASE ~new
        BY <1>4, <1>6, <3>2 DEF LwSameDay, LwSameFlag
      <3> QED BY <3>1, <3>2
    <2> QED BY <1>4, <2>1 DEF LwSameDay, LwSameFlag, LwAdds
  <1>12. LwTaken(lwToday) \in LwAcceptedType /\ DOMAIN LwTaken(lwToday).pnl = LwWeekOf(lwToday)
           /\ LwTaken(lwToday).day = lwToday
    <2>1. lwPnl \in LwDayFns /\ DOMAIN lwPnl = LwAllDays
      BY LwHere, LwFnMade
    <2>2. LwWeekOf(lwToday) \subseteq DOMAIN lwPnl
      BY <2>1, LwWeekIs
    <2>3. Restrict(lwPnl, LwWeekOf(lwToday)) \in LwDayFns
            /\ DOMAIN Restrict(lwPnl, LwWeekOf(lwToday)) = LwWeekOf(lwToday)
      BY <2>1, <2>2, LwRestrictIs
    <2> QED BY <2>3, LwHere DEF LwTaken, LwAcceptedType
  <1>13. /\ old \in LwAcceptedType /\ old.day = lwAccepted.day /\ old.pnl = lwAccepted.pnl
              /\ old.kept = lwAccepted.kept
         /\ ~old.lost => ~lwAccepted.lost /\ lwAccepted.kept
    BY LwHere DEF LwAcceptedType
  <1> HIDE DEF old
  <1>14. /\ lwRun' \in LwRunType /\ ~lwRun'.fill /\ ~lwRun'.missed
    <2>1. PICK x \in {"idle", "write"} : x = (IF LwPending(lwMem') THEN "write" ELSE "idle")
      OBVIOUS
    <2>2. lwRun' = [at |-> x, fill |-> FALSE, was |-> FALSE, missed |-> FALSE]
      BY <1>7, <2>1 DEF LwIdle
    <2> QED BY <2>1, <2>2 DEF LwRunType
  <1>15. lwMishaps' \in [all : Nat, failed : Nat]
    BY <1>5 DEF LwInductive, LwTyped
  <1>16. LwClean' => LwClean /\ prior = LwPriorRows
    <2>1. lwMishaps.failed + 1 # 0 /\ lwMishaps.failed \in Nat
      BY LwHere
    <2>2. lwMishaps'.failed = 0 => lwMishaps.failed = 0 /\ prior = LwPriorRows
      BY <1>5, <2>1
    <2> QED BY <1>1, <2>2 DEF LwClean
  <1>17. lwMem'.seen <= Len(lwReleased)
    <2>1. lwKept.seen <= Len(lwReleased)
      BY DEF LwInductive, LwTyped
    <2> QED BY <1>4, <1>6, <1>8, <1>10, <2>1
  <1>18. LwTyped'
    <2>1. lwAccepted' \in LwAcceptedType
      BY <1>6, <1>12, <1>13
    <2> QED BY <1>1, <1>11, <1>14, <1>15, <1>17, <2>1, LwHere DEF LwInductive, LwTyped
  <1>19. LwHorizon' = lwToday /\ LwHorizon = lwToday
    BY <1>1, <1>11 DEF LwHorizon
  <1>20. LwBeyond(LwHorizon)'
    BY <1>1, <1>19 DEF LwInductive, LwBeyond
  <1>21. LwAdds(lwMem)'
    BY <1>11 DEF LwAdds, LwSum, LwWeekOf, LwAllDays
  <1>22. LwKsMade' /\ LwHalts'
    <2>1. LwAnyKs' <=> LwAnyKs
      BY <1>1 DEF LwAnyKs
    <2>2. LwKsMade' /\ (lwHalted /\ ~lwCut => LwAnyKs)
      BY <1>1 DEF LwInductive, LwFiled, LwKsMade, LwHalts
    <2> QED BY <1>1, <1>11, <2>1, <2>2 DEF LwHalts
  <1>23. ~lwForgotten => LwHeld
    <2>1. ~lwRun.missed /\ ~LwPendingFill
      BY <1>1, LwHere DEF LwIdle, LwPendingFill
    <2> QED BY <2>1 DEF LwInductive, LwFiled, LwStores
  <1>24. LwStores'
    <2>1. SUFFICES ASSUME ~lwForgotten PROVE lwMem'.daily <= lwPnl[lwToday] /\ LwHeld'
      BY <1>1, <1>11 DEF LwStores
    <2>2. LwHeld /\ LwHeld'
      BY <1>1, <1>23, <2>1 DEF LwHeld, LwStored
    <2>3. lwPnl[lwToday] \in Int
      BY LwHere
    <2>4. LwDaily <= lwPnl[lwToday]
      <3>1. CASE LwStored = {} /\ lwPnl[lwToday] = 0
        BY <3>1, LwDailyIs
      <3>2. CASE \E v \in LwStored : v <= lwPnl[lwToday]
        <4>1. PICK v \in LwStored : v <= lwPnl[lwToday]
          BY <3>2
        <4>2. v \in Int /\ LwDaily \in Int /\ LwDaily <= v
          BY <4>1, LwDailyIs
        <4>3. \A x, y, z \in Int : x <= y /\ y <= z => x <= z
          OBVIOUS
        <4> QED BY <2>3, <4>1, <4>2, <4>3
      <3> QED BY <2>2, <3>1, <3>2 DEF LwHeld
    <2> QED BY <1>11, <2>2, <2>4
  <1>25. LwClean' => LwFigures(lwPnl, lwMem') /\ \A d \in LwAllDays : LwOnFile(d)
    <2>1. SUFFICES ASSUME LwClean, prior = LwPriorRows
                   PROVE  LwFigures(lwPnl, lwMem') /\ \A d \in LwAllDays : LwOnFile(d)
      BY <1>16
    <2>2. \A d \in LwAllDays : LwOnFile(d)
      <3>1. ~LwPendingFill
        BY <1>1, LwHere DEF LwIdle, LwPendingFill
      <3> QED BY <2>1, <3>1 DEF LwInductive, LwFiled, LwTold
    <2>3. LwDaily = lwPnl[lwToday]
      <3>1. LwOnFile(lwToday)
        BY <2>2, LwHere
      <3>2. \A v \in LwStored : v = lwPnl[lwToday]
        BY <3>1 DEF LwStored, LwOnFile
      <3>3. LwStored = {} => lwPnl[lwToday] = 0
        BY <3>1 DEF LwStored, LwOnFile
      <3> QED BY <3>2, <3>3, LwDailyIs
    <2>4. ASSUME NEW d \in LwWeekOf(lwToday) \ {lwToday}
          PROVE  IF d \in DOMAIN prior THEN prior[d] = lwPnl[d] ELSE lwPnl[d] = 0
      <3>1. LwOnFile(d) /\ (d \in DOMAIN prior <=> lwRows[d].made)
              /\ (d \in DOMAIN prior => prior[d] = lwRows[d].daily)
        BY <2>1, <2>2, LwPriorIs, LwWeekIs
      <3> QED BY <3>1 DEF LwOnFile
    <2> QED BY <1>11, <2>2, <2>3, <2>4 DEF LwFigures
  <1>26. LwTold'
    <2>1. LwFigures(lwPnl, lwMem') => LwFigures(lwPnl, lwMem)'
      BY <1>1 DEF LwFigures, LwWeekOf, LwAllDays
    <2>2. \A d \in LwAllDays : LwOnFile(d) => LwOnFile(d)'
      BY <1>1 DEF LwOnFile
    <2> QED BY <1>25, <2>1, <2>2 DEF LwTold
  <1>27. lwKept.day \in Nat /\ lwKept.floor \in LwFloors /\ lwKept.window \in LwWindows
         /\ lwKept.floor.day \in Nat /\ lwKept.window.day \in Nat
    BY LwHere DEF LwKeptType, LwFloors, LwWindows
  <1>28. LwKeptDays
    BY DEF LwInductive, LwReleasedWell
  <1>29. ~LwNoFloor.on /\ ~LwNoWindow.on
    BY DEF LwNoFloor, LwNoWindow
  <1>30. LwFloorDays'
    <2>1. CASE new
      BY <1>4, <1>9, <1>10, <1>11, <2>1, LwHere DEF LwFloorDays
    <2>2. CASE ~new
      <3>1. lwKept.floor.on /\ lwKept.day = lwToday => lwKept.floor.day <= lwToday
        BY <1>28 DEF LwKeptDays
      <3>2. lwKept.window.on => lwKept.window.day <= lwToday
        <4>1. \A x, y, z \in Nat : x <= y /\ y <= z => x <= z
          OBVIOUS
        <4> QED BY <1>27, <1>28, <4>1, LwHere DEF LwKeptDays
      <3>3. /\ r.floor.on => r.floor.day <= lwToday
            /\ r.window.on => r.window.day <= lwToday
        BY <1>4, <1>29, <3>1, <3>2
      <3> QED BY <1>6, <1>11, <2>2, <3>3 DEF LwFloorDays
    <2> QED BY <2>1, <2>2
  <1>31. LwAcceptedOf'
    <2>1. lwAccepted'.day <= lwToday /\ (lwAccepted'.day # 0
            => DOMAIN lwAccepted'.pnl = LwWeekOf(lwAccepted'.day))
      BY <1>6, <1>12, <1>13, <1>19, LwHere
    <2> QED BY <1>19, <2>1 DEF LwAcceptedOf, LwWeekOf, LwAllDays
  <1>32. ASSUME LwClean', ~lwAccepted'.lost PROVE LwFits(lwAccepted', lwMem'.floor, lwMem'.window, lwToday)
    <2>1. CASE new
      <3>1. LwFigures(lwPnl, r)
        BY <1>11, <1>25, <1>32 DEF LwFigures, LwSameDay
      <3>2. lwAccepted'.day = r.day /\ lwAccepted'.pnl = Restrict(lwPnl, LwWeekOf(r.day))
        BY <1>4, <1>6, <2>1 DEF LwTaken
      <3>3. PICK acc : acc = lwAccepted'
        OBVIOUS
      <3>4. LwFits(acc, a.floor, a.window, r.day)
        BY <1>4, <3>1, <3>2, <3>3, LwHere, LwAcceptFits DEF a
      <3> QED BY <1>4, <1>10, <2>1, <3>3, <3>4
    <2>2. CASE ~new
      <3>1. LwFits(lwAccepted, lwKept.floor, lwKept.window, lwToday)
        BY <1>6, <1>13, <1>16, <1>32, <2>2 DEF LwInductive, LwReleasedWell, LwAllowed
      <3>2. lwKept.floor.on /\ lwKept.floor.day = lwToday => lwKept.day = lwToday
        <4>1. \A x, y \in Nat : x <= y /\ y <= x => x = y
          OBVIOUS
        <4> QED BY <1>27, <1>28, <4>1, LwHere DEF LwKeptDays
      <3>3. lwKept.window.on /\ LwInWeek(lwKept.window.day, lwToday) => LwInWeek(lwKept.day, lwToday)
        <4>1. \A x, y, z, w \in Nat : x <= y /\ y <= z /\ z - x < w => z - y < w
          OBVIOUS
        <4> QED BY <1>27, <1>28, <4>1, LwHere, LwDaysAre DEF LwKeptDays, LwInWeek
      <3>4. /\ r.floor.on /\ r.floor.day = lwToday <=> lwKept.floor.on /\ lwKept.floor.day = lwToday
            /\ lwKept.floor.on /\ lwKept.floor.day = lwToday => r.floor = lwKept.floor
            /\ r.floor.on => r.floor = lwKept.floor
        BY <1>4, <1>29, <3>2
      <3>5. /\ r.window.on /\ LwInWeek(r.window.day, lwToday) <=> lwKept.window.on
                 /\ LwInWeek(lwKept.window.day, lwToday)
            /\ lwKept.window.on /\ LwInWeek(lwKept.window.day, lwToday) => r.window = lwKept.window
            /\ r.window.on => r.window = lwKept.window
        BY <1>4, <1>29, <3>3
      <3>6. LwFits(lwAccepted, r.floor, r.window, lwToday)
        BY <3>1, <3>4, <3>5 DEF LwFits
      <3>7. LwFits(old, r.floor, r.window, lwToday)
        BY <1>13, <3>6 DEF LwFits, LwDayAccepted, LwWeekAccepted
      <3> QED BY <1>6, <2>2, <3>7
    <2> QED BY <2>1, <2>2
  <1>33. LwAllowed'
    <2>1. LwFits(lwAccepted', lwMem'.floor, lwMem'.window, lwToday)
            => LwFits(lwAccepted, lwMem.floor, lwMem.window, lwMem.day)'
      BY <1>11 DEF LwFits, LwDayAccepted, LwWeekAccepted, LwFitsWindow, LwInWeek, LwSum
    <2>2. ASSUME LwClean', ~lwAccepted'.lost, lwAccepted'.kept
                   PROVE LwFits(lwAccepted, lwKept.floor, lwKept.window, lwToday)'
      <3>1. ~new
        BY <1>6, <2>2 DEF LwTaken
      <3>2. LwFits(lwAccepted, lwKept.floor, lwKept.window, lwToday)
        BY <1>6, <1>13, <1>16, <2>2, <3>1 DEF LwInductive, LwReleasedWell, LwAllowed
      <3>3. LwFits(lwAccepted', lwKept.floor, lwKept.window, lwToday)
        BY <1>6, <1>13, <3>1, <3>2 DEF LwFits, LwDayAccepted, LwWeekAccepted
      <3> QED BY <1>1, <3>3 DEF LwFits, LwDayAccepted, LwWeekAccepted, LwFitsWindow, LwInWeek, LwSum
    <2> QED BY <1>32, <2>1, <2>2 DEF LwAllowed
  <1>34. LwKeptDays'
    BY <1>1, <1>28 DEF LwKeptDays
  <1>35. LwDecidesRight'
    BY <1>14 DEF LwDecidesRight
  <1> QED BY <1>18, <1>20, <1>21, <1>22, <1>24, <1>26, <1>30, <1>31, <1>33, <1>34, <1>35 DEF LwInductive,
        LwFiled, LwReleasedWell

\* At first there is nothing to keep.
LEMMA LwInitKept == ASSUME LwSized, LwInit PROVE LwInductive
  <1>1. /\ lwToday = 1 /\ lwMem = LwNewTracker /\ lwRun = LwIdle
        /\ lwRows = [d \in LwAllDays |-> [made |-> FALSE, daily |-> 0, ks |-> FALSE]]
        /\ lwRedis = LwNothing /\ lwReleased = <<>>
        /\ lwKept = [day |-> 0, floor |-> LwNoFloor, window |-> LwNoWindow, seen |-> 0]
        /\ lwMishaps = [all |-> 0, failed |-> 0] /\ lwPnl = [d \in LwAllDays |-> 0]
        /\ lwAccepted = [day |-> 0, pnl |-> LwNothing, kept |-> TRUE, lost |-> FALSE]
        /\ lwHalted = FALSE /\ lwCut = FALSE /\ lwForgotten = FALSE /\ lwLate = FALSE
    BY DEF LwInit
  <1>2. LwNoFloor \in LwFloors /\ LwNoWindow \in LwWindows /\ ~LwNoFloor.on /\ ~LwNoWindow.on
    BY LwNothingIs DEF LwNoFloor, LwNoWindow, LwFloors, LwWindows
  <1>3. lwMem = [up |-> TRUE, day |-> 1, daily |-> 0, weekly |-> 0, prior |-> LwNothing, ks |-> FALSE,
                 unsaved |-> FALSE, floor |-> LwNoFloor, window |-> LwNoWindow, unwritten |-> FALSE, seen |-> 0]
    BY <1>1 DEF LwNewTracker
  <1>4. lwMem \in LwMemType
    BY <1>2, <1>3, LwDaysAre, LwNothingIs DEF LwMemType
  <1>5. /\ lwMem.up /\ lwMem.day = 1 /\ lwMem.daily = 0 /\ lwMem.weekly = 0 /\ lwMem.prior = LwNothing
             /\ ~lwMem.ks
        /\ ~lwMem.unsaved /\ ~lwMem.floor.on /\ ~lwMem.window.on /\ lwMem.seen = 0
    BY <1>2, <1>3
  <1>6. LwReleases \in Nat /\ 1 <= 1 /\ \A n \in Nat : 0 <= n
    BY DEF LwSized
  <1>7. /\ lwRun \in LwRunType /\ lwRun.at = "idle" /\ ~lwRun.fill
    BY <1>1 DEF LwIdle, LwRunType
  <1>8. LwTyped
    <2>1. lwRows \in [LwAllDays -> LwRowType] /\ lwPnl \in [LwAllDays -> Int]
      BY <1>1 DEF LwRowType
    <2>2. lwKept \in LwKeptType /\ lwAccepted \in LwAcceptedType /\ lwKept.seen = 0
      BY <1>1, <1>2, LwNothingIs DEF LwKeptType, LwAcceptedType
    <2>3. lwReleased \in Seq(Nat) /\ Len(lwReleased) = 0
      BY <1>1
    <2>4. lwMishaps \in [all : Nat, failed : Nat]
      BY <1>1
    <2> QED BY <1>1, <1>4, <1>5, <1>6, <1>7, <2>1, <2>2, <2>3, <2>4, LwDaysAre, LwNothingIs DEF LwTyped
  <1>9. \A d \in LwAllDays : lwPnl[d] = 0 /\ ~lwRows[d].made /\ ~lwRows[d].ks
    BY <1>1
  <1>10. LwBeyond(LwHorizon) /\ LwKsMade
    BY <1>1, <1>9, LwNothingIs DEF LwBeyond, LwKsMade
  <1>11. LwAdds(lwMem)
    BY <1>5, LwNothingIs DEF LwAdds
  <1>12. LwHalts
    BY <1>1, <1>5, <1>9 DEF LwHalts, LwAnyKs
  <1>13. 1 \in LwAllDays
    BY LwDaysAre
  <1>14. LwStores
    <2>1. LwStored = {}
      BY <1>1, <1>9, <1>13, LwNothingIs DEF LwStored
    <2> QED BY <1>1, <1>5, <1>9, <1>13, <2>1 DEF LwStores, LwHeld
  <1>15. LwTold
    <2>1. LwFigures(lwPnl, lwMem)
      BY <1>5, <1>9, <1>13, LwNothingIs, LwWeekIs DEF LwFigures
    <2> QED BY <1>1, <1>9, <2>1, LwNothingIs DEF LwTold, LwOnFile
  <1>16. LwAcceptedOf /\ LwKeptDays /\ LwFloorDays
    <2>1. LwHorizon = 1
      BY <1>5 DEF LwHorizon
    <2> QED BY <1>1, <1>2, <1>5, <1>6, <2>1 DEF LwAcceptedOf, LwKeptDays, LwFloorDays
  <1>17. LwAllowed
    <2>1. ~LwDayAccepted(lwAccepted, 1) /\ ~LwWeekAccepted(lwAccepted, 1)
      BY <1>1 DEF LwDayAccepted, LwWeekAccepted
    <2> QED BY <1>1, <1>2, <1>5, <2>1 DEF LwAllowed, LwFits
  <1>18. LwDecidesRight
    BY <1>7 DEF LwDecidesRight
  <1> QED BY <1>8, <1>10, <1>11, <1>12, <1>14, <1>15, <1>16, <1>17, <1>18 DEF LwInductive, LwFiled,
        LwReleasedWell

\* No step loses it.
LEMMA LwKeptStep == ASSUME LwSized, LwInductive, [LwNext]_lwVars PROVE LwInductive'
  <1>1. CASE LwNext
    BY <1>1, LwFillStep, LwPollStep, LwWriteStep, LwNoteStep, LwReleaseStep, LwNewDayStep, LwEndStep,
      LwBootStep DEF LwNext
  <1>2. CASE UNCHANGED lwVars
    <2>1. UNCHANGED <<lwToday, lwMem, lwRun, lwRows, lwRedis, lwReleased, lwKept, lwFills, lwMishaps,
                      lwPnl, lwAccepted, lwHalted, lwCut, lwForgotten, lwLate>>
      BY <1>2 DEF lwVars
    <2>2. LwTyped' /\ LwBeyond(LwHorizon)' /\ LwAdds(lwMem)'
      BY <2>1 DEF LwInductive, LwTyped, LwBeyond, LwHorizon, LwAdds, LwSum, LwWeekOf, LwAllDays
    <2>3. LwClean' <=> LwClean
      BY <2>1 DEF LwClean
    <2>4. LwFiled'
      <3>1. LwKsMade' /\ LwHalts' /\ LwStores'
        BY <2>1 DEF LwInductive, LwFiled, LwKsMade, LwHalts, LwAnyKs, LwStores, LwHeld, LwStored, LwPendingFill
      <3>2. /\ (LwFigures(lwPnl, lwMem))' <=> LwFigures(lwPnl, lwMem)
            /\ \A d \in LwAllDays : LwOnFile(d)' <=> LwOnFile(d)
        BY <2>1 DEF LwFigures, LwWeekOf, LwAllDays, LwOnFile
      <3>3. LwTold'
        BY <2>1, <2>3, <3>2 DEF LwInductive, LwFiled, LwTold, LwPendingFill
      <3> QED BY <3>1, <3>3 DEF LwFiled
    <2>5. LwReleasedWell'
      <3>1. /\ LwFits(lwAccepted, lwMem.floor, lwMem.window, lwMem.day)'
                 <=> LwFits(lwAccepted, lwMem.floor, lwMem.window, lwMem.day)
            /\ LwFits(lwAccepted, lwKept.floor, lwKept.window, lwToday)'
                 <=> LwFits(lwAccepted, lwKept.floor, lwKept.window, lwToday)
        BY <2>1 DEF LwFits, LwDayAccepted, LwWeekAccepted, LwFitsWindow, LwInWeek, LwSum
      <3> QED BY <2>1, <2>3, <3>1 DEF LwInductive, LwReleasedWell, LwAcceptedOf, LwHorizon, LwWeekOf,
            LwAllDays, LwKeptDays, LwFloorDays, LwAllowed
    <2>6. LwDecidesRight'
      BY <2>1 DEF LwInductive, LwDecidesRight, LwClean, LwAcceptsDay, LwAcceptsWeek, LwTrueWeek, LwWeekOf,
        LwAllDays, LwSum
    <2> QED BY <2>2, <2>4, <2>5, <2>6 DEF LwInductive
  <1> QED BY <1>1, <1>2

\* What is kept says what the run checks.
LEMMA LwMeans == ASSUME LwSized, LwInductive PROVE LwInv
  <1>1. LwTypeOK
    <2>1. lwMem.seen \in 0..LwReleases
      <3>1. lwMem.seen \in Nat /\ lwMem.seen <= Len(lwReleased) /\ Len(lwReleased) <= LwReleases
              /\ LwReleases \in Nat
        BY LwHere, LwFieldsAre DEF LwInductive, LwTyped, LwSized
      <3>2. \A a, b, c \in Nat : a <= b /\ b <= c => a \in 0..c
        OBVIOUS
      <3> QED BY <3>1, <3>2, LwHere
    <2>2. DOMAIN lwMem.prior \subseteq LwAllDays /\ {lwMem.daily, lwMem.weekly} \subseteq Int
      BY LwHere, LwFieldsAre, LwFnIs
    <2>3. lwRun.at \in {"idle", "write", "note"}
      BY LwHere DEF LwRunType
    <2> QED BY <2>1, <2>2, <2>3, LwHere DEF LwTypeOK
  <1>2. LwFiguresTrue
    <2>1. SUFFICES ASSUME LwClean, lwMem.up PROVE lwMem.daily = lwPnl[lwMem.day] /\ lwMem.weekly = LwTrueWeek
      BY DEF LwFiguresTrue
    <2>2. LwFigures(lwPnl, lwMem)
      BY <2>1 DEF LwInductive, LwFiled, LwTold
    <2>3. lwMem.weekly = SumFunctionOnSet(lwPnl, LwWeekOf(lwMem.day))
      BY <2>2, LwHere, LwWeekTrue
    <2> QED BY <2>2, <2>3 DEF LwFigures, LwTrueWeek
  <1>3. LwHaltStands
    BY DEF LwInductive, LwFiled, LwHalts, LwHaltStands
  <1>4. LwDayNotBetter
    BY DEF LwInductive, LwFiled, LwStores, LwDayNotBetter
  <1> QED BY <1>1, <1>2, <1>3, <1>4 DEF LwInv, LwInductive

\* The limits are measured by what was lost, of all behaviours.
LEMMA LwInvariant == LwInit /\ [][LwNext]_lwVars => []LwInv
  <1>1. LwSized
    BY LwAssumption DEF LwSized
  <1>2. LwInit => LwInductive
    BY <1>1, LwInitKept
  <1>3. LwInductive /\ [LwNext]_lwVars => LwInductive'
    BY <1>1, LwKeptStep
  <1>4. LwInductive => LwInv
    BY <1>1, LwMeans
  <1> QED BY <1>2, <1>3, <1>4, PTL

====
