----------------------------------- MODULE Boot -----------------------------------
(***************************************************************************)
(* The start of the worker (backend/worker/runner.py main, recovery.py): nine  *)
(* steps under a stop signal, broker calls with a deadline whose threads are   *)
(* left behind, the reconcile of step 6 that writes while nobody waits for it  *)
(* any more, and the order gate SAFE_MODE with its latch and the resume poll.  *)
(***************************************************************************)
EXTENDS Naturals, Sequences, FiniteSets

CONSTANTS BoOrders,      \* open orders in the table when the worker starts
          BoReal,        \* KIS_ENV is real: the promotion guard is asked
          BoMaxFaults,   \* bound: failures of the broker or the database
          BoMaxBoots     \* bound: processes

VARIABLES boMain,    \* the main thread: the step it is in, and what it found
          boPass,    \* the thread of step 6's reconcile
          boOrder,   \* per order: its row, and the broker's side of it
          boGate,    \* SAFE_MODE
          boWorld,   \* the halt on file, the stop signal, the fill that fails
          boPast     \* what happened, for the properties

boVars == <<boMain, boPass, boOrder, boGate, boWorld, boPast>>

BoSteps == <<"db", "redis", "risk", "balance", "positions", "reconcile", "pending", "validate", "enable">>
BoCauses == {"none", "untrusted", "risk", "record"}

BoGateAtStart(halted) == [open |-> FALSE, cause |-> IF halted THEN "risk" ELSE "untrusted", latch |-> FALSE]
BoMainAtStart == [at |-> "step", n |-> 1, halt |-> "no", recovered |-> FALSE, byRisk |-> FALSE, allowed |-> FALSE,
                  why |-> "starting"]
BoNoPass == [at |-> "none", todo |-> {}, on |-> {}, errors |-> FALSE, shut |-> FALSE]

BoInit ==
    /\ boMain = BoMainAtStart /\ boPass = BoNoPass
    /\ boOrder \in [BoOrders -> [row : {"open"}, broker : {"live", "filled", "unlisted"}, sent : {FALSE}]]
    /\ \E halted \in BOOLEAN :
        /\ boWorld = [halted |-> halted, stop |-> FALSE]
        /\ boGate = BoGateAtStart(halted)
    /\ boPast = [faults |-> 0, boots |-> 1, sound |-> FALSE, broke |-> FALSE]

BoStep == BoSteps[boMain.n]
BoIn(step) == boMain.at = "step" /\ BoStep = step

\* SafeModeState.disable: while latched, the cause is never one the resume poll opens.
BoDisabled(cause) ==
    LET untrusted == cause = "untrusted" \/ (~boGate.open /\ boGate.cause = "untrusted")
    IN [boGate EXCEPT !.open = FALSE,
                      !.cause = IF ~boGate.latch THEN cause ELSE IF untrusted THEN "untrusted" ELSE "record"]
\* SafeModeState.enable.
BoEnabledLatched == [boGate EXCEPT !.open = TRUE, !.cause = "none"]
BoEnabled == IF boGate.latch THEN boGate ELSE [boGate EXCEPT !.open = TRUE, !.cause = "none"]
\* SafeModeState.latch.
BoLatched ==
    [open |-> FALSE, latch |-> TRUE,
     cause |-> IF ~boGate.open /\ boGate.cause = "untrusted" THEN "untrusted" ELSE "record"]

BoFault == boPast.faults < BoMaxFaults /\ boPast' = [boPast EXCEPT !.faults = @ + 1, !.broke = TRUE]
BoWell == UNCHANGED boPast

\* StartupRecovery.run: what the outcome of a step does to the sequence.
BoNext(main) == [main EXCEPT !.n = @ + 1]
BoGivesUp(why) ==
    /\ boMain' = [boMain EXCEPT !.at = "after", !.why = why]
    /\ boGate' = BoDisabled("untrusted")

\* Before every step, and while a broker call of steps 4 to 6 is in flight.
BoAborts ==
    /\ boMain.at = "step" /\ boWorld.stop
    /\ BoGivesUp("stop")
    /\ boPass' = [boPass EXCEPT !.shut = TRUE]
    /\ UNCHANGED <<boOrder, boWorld, boPast>>

\* Steps 1 and 2: without the database nothing starts, without Redis the worker polls.
BoStores ==
    /\ BoIn("db") \/ BoIn("redis")
    /\ \/ boMain' = BoNext(boMain) /\ BoWell /\ UNCHANGED boGate
       \/ BoIn("db") /\ BoFault /\ BoGivesUp("failed")
    /\ UNCHANGED <<boPass, boOrder, boWorld>>

\* Steps 4 and 5: a read of the broker that answers, or raises or runs out of time.
BoProbe ==
    /\ BoIn("balance") \/ BoIn("positions")
    /\ \/ boMain' = BoNext(boMain) /\ BoWell /\ UNCHANGED boGate
       \/ BoFault /\ BoGivesUp("failed")
    /\ UNCHANGED <<boPass, boOrder, boWorld>>

\* Step 8 reports rows that contradict each other and changes none; nothing it
\* finds and no failure of its own stops the start.
BoValidate ==
    /\ BoIn("validate")
    /\ boMain' = BoNext(boMain)
    /\ UNCHANGED <<boPass, boOrder, boGate, boWorld, boPast>>

\* _step_risk: a halt on a row is a risk halt, a failed read is not.
BoRisk ==
    /\ BoIn("risk")
    /\ \/ BoWell /\ boMain' = [BoNext(boMain) EXCEPT !.halt = IF boWorld.halted THEN "row" ELSE "no"]
       \/ BoFault /\ boMain' = [BoNext(boMain) EXCEPT !.halt = "unread"]
    /\ UNCHANGED <<boPass, boOrder, boGate, boWorld>>

(***************************************************************************)
(* Step 6: run_reconcile_bounded starts the pass on a thread of its own.       *)
(***************************************************************************)
BoOpenRows == {o \in BoOrders : boOrder[o].row = "open"}

BoReconcile ==
    /\ BoIn("reconcile") /\ boPass.at = "none"
    /\ boPass' = [BoNoPass EXCEPT !.at = "positions"]
    /\ UNCHANGED <<boMain, boOrder, boGate, boWorld, boPast>>

\* The _stop of this call's StopGatedBroker.
BoGateStops == boPass.shut \/ boWorld.stop

\* get_positions, gated: refused or discarded, it ends the pass with an error.
BoPassPositions ==
    /\ boPass.at = "positions"
    /\ \/ ~BoGateStops /\ BoWell /\ boPass' = [boPass EXCEPT !.at = "orders", !.todo = BoOpenRows]
       \/ BoGateStops /\ BoWell /\ boPass' = [boPass EXCEPT !.at = "done", !.errors = TRUE]
       \/ BoFault /\ boPass' = [boPass EXCEPT !.at = "done", !.errors = TRUE]
    /\ UNCHANGED <<boMain, boOrder, boGate, boWorld>>

BoPassOver ==
    /\ boPass.at = "orders" /\ boPass.todo = {}
    /\ boPass' = [boPass EXCEPT !.at = "done"]
    /\ UNCHANGED <<boMain, boOrder, boGate, boWorld, boPast>>

\* get_order_status, the check before it: the order is asked for, or is an error.
BoPassAsk(o) ==
    /\ boPass.at = "orders" /\ o \in boPass.todo
    /\ boPass' = IF BoGateStops THEN [boPass EXCEPT !.todo = @ \ {o}, !.errors = TRUE]
                 ELSE [boPass EXCEPT !.todo = @ \ {o}, !.on = {o}, !.at = "asked"]
    /\ UNCHANGED <<boMain, boOrder, boGate, boWorld, boPast>>

\* Its answer, and the check after it.  An order KIS does not list is lost when
\* it is more than an hour old, one that filled is written to its row.
BoPassAnswer(o) ==
    /\ boPass.at = "asked" /\ o \in boPass.on
    /\ \/ BoGateStops /\ BoWell /\ UNCHANGED boOrder
          /\ boPass' = [boPass EXCEPT !.at = "orders", !.on = {}, !.errors = TRUE]
       \/ BoFault /\ UNCHANGED boOrder
          /\ boPass' = [boPass EXCEPT !.at = "orders", !.on = {}, !.errors = TRUE]
       \/ ~BoGateStops /\ BoWell /\ boOrder[o].broker = "unlisted" /\ UNCHANGED boOrder
          /\ boPass' = [boPass EXCEPT !.at = "lost"]
       \/ ~BoGateStops /\ BoWell
          /\ boOrder' = [boOrder EXCEPT ![o].row = IF boOrder[o].broker = "filled" THEN "filled" ELSE @]
          /\ boPass' = [boPass EXCEPT !.at = "orders", !.on = {}]
    /\ UNCHANGED <<boMain, boGate, boWorld>>

\* _mark_order_lost: the cancel is sent whatever the gate says, and then the
\* row is committed, whatever became of the cancel.
BoCancelGated(o) == IF BoGateStops THEN boOrder ELSE [boOrder EXCEPT ![o].sent = TRUE]
BoCancelSent(o) == [boOrder EXCEPT ![o].sent = TRUE]
BoPassCancel(o) ==
    /\ boPass.at = "lost" /\ o \in boPass.on
    /\ boOrder' = BoCancelSent(o)
    /\ boPass' = [boPass EXCEPT !.at = "commit"]
    /\ UNCHANGED <<boMain, boGate, boWorld, boPast>>

BoPassCommit(o) ==
    /\ boPass.at = "commit" /\ o \in boPass.on
    /\ \/ BoWell /\ boOrder' = [boOrder EXCEPT ![o].row = "canceled"]
          /\ boPass' = [boPass EXCEPT !.at = "orders", !.on = {}]
       \/ BoFault /\ UNCHANGED boOrder
          /\ boPass' = [boPass EXCEPT !.at = "done", !.errors = TRUE]
    /\ UNCHANGED <<boMain, boGate, boWorld>>

\* The main thread stops waiting: the pass is through, or out of time, or the
\* look at the stop signal after it is.  The pass's gate is closed either way;
\* the restore of the corporate-action gate that follows may fail.
BoWaitOver(stop) ==
    /\ BoIn("reconcile") /\ boPass.at # "none"
    /\ boPass' = [boPass EXCEPT !.shut = TRUE]
    /\ \/ /\ boPass.at = "done" /\ stop
          /\ BoGivesUp("stop") /\ BoWell
       \/ /\ boPass.at = "done" /\ ~stop
          /\ \/ ~boPass.errors /\ boMain' = BoNext(boMain) /\ BoWell /\ UNCHANGED boGate
             \/ boPass.errors /\ BoGivesUp("failed") /\ BoWell
             \/ BoFault /\ BoGivesUp("failed")
       \/ /\ boPass.at # "done" /\ BoFault /\ BoGivesUp("failed")
    /\ UNCHANGED <<boOrder, boWorld>>
BoStopUnseen == FALSE
BoStopSeen == boWorld.stop
BoWait == BoWaitOver(BoStopSeen)

\* Step 7 hands the open rows to the poller; their fills arrive from here on.
BoPending ==
    /\ BoIn("pending")
    /\ \/ boMain' = BoNext(boMain) /\ BoWell /\ UNCHANGED boGate
       \/ BoFault /\ BoGivesUp("failed")
    /\ UNCHANGED <<boPass, boOrder, boWorld>>

\* A recovered order's fill cannot be recorded.
BoFillLost ==
    /\ boMain.at \in {"after", "running"} \/ (boMain.at \in {"step", "enabling"} /\ boMain.n > 7)
    /\ BoFault /\ ~boGate.latch
    /\ boGate' = BoLatched
    /\ UNCHANGED <<boMain, boPass, boOrder, boWorld>>

\* Step 9: the latch, the promotion guard, the halt of step 3; then enable().
BoEnableCheck ==
    /\ BoIn("enable")
    /\ \/ boGate.latch /\ BoGivesUp("failed") /\ BoWell
       \/ /\ ~boGate.latch
          /\ \/ BoReal /\ BoFault /\ BoGivesUp("failed")
             \/ boMain.halt = "row" /\ BoWell
                /\ boGate' = BoDisabled("risk")
                /\ boMain' = [boMain EXCEPT !.at = "after", !.byRisk = TRUE]
             \/ boMain.halt = "unread" /\ BoWell /\ BoGivesUp("failed")
             \/ boMain.halt = "no" /\ BoWell /\ UNCHANGED boGate
                /\ boMain' = [boMain EXCEPT !.at = "enabling"]
    /\ UNCHANGED <<boPass, boOrder, boWorld>>

BoEnable ==
    /\ boMain.at = "enabling"
    /\ boGate' = BoEnabled
    /\ boMain' = [boMain EXCEPT !.at = "after", !.recovered = TRUE]
    /\ boPast' = [boPast EXCEPT !.sound = TRUE]
    /\ UNCHANGED <<boPass, boOrder, boWorld>>

\* main: a worker that was stopped leaves; one whose recovery failed runs on
\* with the gate shut, and only a risk halt leaves it to the resume poll.
BoMayResumeAlways == TRUE
BoMayResume == boMain.recovered \/ boMain.byRisk
BoAfter ==
    /\ boMain.at = "after"
    /\ boMain' = IF boWorld.stop THEN [boMain EXCEPT !.at = "leaving"]
                 ELSE [boMain EXCEPT !.at = "running", !.allowed = BoMayResume]
    /\ UNCHANGED <<boPass, boOrder, boGate, boWorld, boPast>>

\* The tracker halts on a limit; _resume_if_released reopens once it is released.
BoHalt ==
    /\ boMain.at = "running" /\ ~boWorld.halted
    /\ boWorld' = [boWorld EXCEPT !.halted = TRUE]
    /\ boGate' = BoDisabled("risk")
    /\ UNCHANGED <<boMain, boPass, boOrder, boPast>>

BoResume ==
    /\ boMain.at = "running" /\ boMain.allowed /\ ~boWorld.stop
    /\ boGate.cause = "risk" /\ ~boWorld.halted
    /\ boGate' = BoEnabled
    /\ boPast' = [boPast EXCEPT !.sound = boMain.byRisk \/ @]
    /\ UNCHANGED <<boMain, boPass, boOrder, boWorld>>

(***************************************************************************)
(* The world.                                                                  *)
(***************************************************************************)
BoRelease ==
    /\ boWorld.halted /\ boWorld' = [boWorld EXCEPT !.halted = FALSE]
    /\ UNCHANGED <<boMain, boPass, boOrder, boGate, boPast>>
BoSignal ==
    /\ ~boWorld.stop /\ boWorld' = [boWorld EXCEPT !.stop = TRUE]
    /\ UNCHANGED <<boMain, boPass, boOrder, boGate, boPast>>
BoFilled(o) ==
    /\ boOrder[o].broker = "live" /\ boOrder' = [boOrder EXCEPT ![o].broker = "filled"]
    /\ UNCHANGED <<boMain, boPass, boGate, boWorld, boPast>>
\* The process ends in any step and the next one starts from the rows.
BoRestart ==
    /\ boPast.boots < BoMaxBoots
    /\ boMain' = BoMainAtStart /\ boPass' = BoNoPass
    /\ boGate' = BoGateAtStart(boWorld.halted)
    /\ boWorld' = [boWorld EXCEPT !.stop = FALSE]
    /\ boPast' = [boPast EXCEPT !.boots = @ + 1, !.sound = FALSE, !.broke = FALSE]
    /\ UNCHANGED boOrder

BoNextStep ==
    \/ BoAborts \/ BoStores \/ BoRisk \/ BoProbe \/ BoReconcile \/ BoWait \/ BoPending \/ BoValidate
    \/ BoPassPositions \/ BoPassOver
    \/ \E o \in BoOrders : BoPassAsk(o) \/ BoPassAnswer(o) \/ BoPassCancel(o) \/ BoPassCommit(o) \/ BoFilled(o)
    \/ BoFillLost \/ BoEnableCheck \/ BoEnable \/ BoAfter
    \/ BoHalt \/ BoResume \/ BoRelease \/ BoSignal \/ BoRestart

BoSpec == BoInit /\ [][BoNextStep]_boVars

(***************************************************************************)
(* Properties.                                                                 *)
(***************************************************************************)
BoTypeOK ==
    /\ boMain.at \in {"step", "enabling", "after", "running", "leaving"} /\ boMain.n \in 1..Len(BoSteps)
    /\ boPass.at \in {"none", "positions", "orders", "asked", "lost", "commit", "done"}
    /\ boPass.todo \subseteq BoOrders /\ Cardinality(boPass.on) <= 1
    /\ boOrder \in [BoOrders -> [row : {"open", "canceled", "filled"}, broker : {"live", "filled", "unlisted"},
                                 sent : BOOLEAN]]
    /\ boGate \in [open : BOOLEAN, cause : BoCauses, latch : BOOLEAN]

\* Trading is open only after a recovery that passed every step, or all but a
\* risk halt that was released since; a fill that could not be recorded keeps it
\* shut to the end of the process, with a cause the resume poll does not open.
BoGateEarned ==
    /\ boGate.open => boPast.sound /\ ~boGate.latch /\ boGate.cause = "none"
    /\ boGate.latch => boGate.cause \in {"record", "untrusted"}

\* An order whose row the pass closed as lost has been canceled at the broker
\* first, a pass left behind by a stop or a deadline included ("either both the
\* cancel and its commit happen, or neither does").
BoLostIsSent == \A o \in BoOrders : boOrder[o].row = "canceled" => boOrder[o].sent

\* A stop during start-up is recorded as a stop, not as an outage of the broker:
\* the errors the gate itself raised in the pass are not taken for one.
BoStopToldApart == boMain.why = "failed" => boPast.broke

BoInv == BoTypeOK /\ BoGateEarned /\ BoLostIsSent /\ BoStopToldApart
=============================================================================
