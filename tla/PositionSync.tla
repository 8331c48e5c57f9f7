----------------------------- MODULE PositionSync -----------------------------
(***************************************************************************)
(* The position of one symbol in four places: at the broker, in the table,   *)
(* in the session's tracker, and as a corporate action that gates it.  The   *)
(* reconciliation pass takes the broker's value into the table while fills   *)
(* are written there too; a jump it cannot explain blocks new entries.       *)
(*                                                                          *)
(*   backend/execution/reconciler.py        _reconcile_positions            *)
(*   backend/data/corporate_action*.py      classify, record, apply, restore *)
(*   backend/execution/position_tracker.py  claim_ca_exit, on_fill          *)
(*   backend/worker/runner.py               _upsert_position_db             *)
(*   backend/worker/recovery.py             _apply_fill_to_position_db      *)
(*                                                                          *)
(* A position is a quantity and the era of its average price: a 2:1 split    *)
(* doubles the one and moves the other on, so the value is kept exactly then.*)
(* One order at a time (the symbol's pending lock), filled in one piece.     *)
(***************************************************************************)
EXTENDS Naturals

CONSTANTS
    PsMaxQty,       \* bound: shares at the broker
    PsMaxOrders,    \* bound: orders
    PsMaxPasses,    \* bound: reconciliation passes
    PsMaxOutside,   \* bound: splits and trades by hand
    PsMaxFaults,    \* bound: database accesses that fail
    PsMaxEnds       \* bound: restarts

ASSUME PsAssumption ==
    PsMaxQty \in Nat \ {0} /\ PsMaxOrders \in Nat /\ PsMaxPasses \in Nat
    /\ PsMaxOutside \in Nat /\ PsMaxFaults \in Nat /\ PsMaxEnds \in Nat

VARIABLES
    psBroker,   \* the position at the broker
    psRow,      \* its row, and whether the row is an hour old
    psTracker,  \* the session's tracker
    psOrder,    \* the order in flight and its row's status
    psExit,     \* a broker-sized exit between its lookup and its claim
    psPass,     \* the pass under way
    psGate,     \* corporate actions: entries in memory, rows in the database
    psCount     \* bounded events and what happened

psVars == <<psBroker, psRow, psTracker, psOrder, psExit, psPass, psGate, psCount>>

PsEra == 0..2       \* 2: an average mixed from both sides of a split
PsFlat == [qty |-> 0, era |-> 0]
PsPos == [qty : 0..PsMaxQty, era : PsEra]
\* who: the callback the poller has for the order.
PsNoOrder == [pc |-> "none", side |-> "buy", qty |-> 0, db |-> "none", who |-> "session"]
PsNoPass == [pc |-> "idle", own |-> TRUE, b |-> PsFlat, r |-> PsFlat, same |-> TRUE, kind |-> "none"]

PsInit ==
    /\ psBroker \in [qty : 1..PsMaxQty, era : {0}]
    /\ psRow = [qty |-> psBroker.qty, era |-> 0, old |-> FALSE]
    /\ psTracker = psBroker
    /\ psOrder = PsNoOrder
    /\ psExit = [pc |-> "none", qty |-> 0, era |-> 0]
    /\ psPass = PsNoPass
    /\ psGate = [c |-> 0, u |-> 0, split |-> "none", odd |-> FALSE]
    /\ psCount = [orders |-> 0, passes |-> 0, outside |-> 0, faults |-> 0, ends |-> 0,
                  up |-> "up", post |-> FALSE, early |-> FALSE, cut |-> FALSE, shut |-> FALSE,
                  blind |-> FALSE, booked |-> FALSE]

PsUp == psCount.up = "up"

\* is_blocked: any entry in memory blocks.
PsBlocked == psGate.c + psGate.u > 0

PsFault == psCount.faults < PsMaxFaults /\ psCount' = [psCount EXCEPT !.faults = @ + 1]

\* The row's transaction of a pass holds the row until it is committed.
PsRowHeld == psPass.pc = "locked"

-----------------------------------------------------------------------------
\* Orders and their fills.

PsSend(side, qty) ==
    /\ psCount.orders < PsMaxOrders
    /\ psOrder.pc = "none"
    /\ psOrder' = [psOrder EXCEPT !.pc = "placed", !.side = side, !.qty = qty, !.who = "session"]
    /\ psCount' = [psCount EXCEPT !.orders = @ + 1]

\* A strategy's order: an entry or a tracker-sized exit, never behind the gate.
PsPlace ==
    /\ PsUp
    /\ ~PsBlocked
    /\ \/ psBroker.qty < PsMaxQty /\ PsSend("buy", 1)
       \/ psTracker.qty \in 1..psBroker.qty /\ PsSend("sell", psTracker.qty)
    /\ UNCHANGED <<psBroker, psRow, psTracker, psExit, psPass, psGate>>

\* claim_ca_exit: the broker is asked first, the symbol's lock taken after.
PsExitLook ==
    /\ PsUp /\ PsBlocked /\ psTracker.qty > 0 /\ psExit.pc = "none"
    /\ psBroker.qty > 0
    /\ psExit' = [pc |-> "looked", qty |-> psBroker.qty, era |-> psBroker.era]
    /\ UNCHANGED <<psBroker, psRow, psTracker, psOrder, psPass, psGate, psCount>>

PsExitClaim ==
    /\ psExit.pc = "looked"
    /\ psExit' = [psExit EXCEPT !.pc = "none"]
    /\ \/ psOrder.pc # "none" /\ UNCHANGED <<psTracker, psOrder, psCount>>
       \/ /\ psOrder.pc = "none"
          /\ psTracker' = [qty |-> psExit.qty, era |-> psExit.era]
          /\ IF psExit.qty <= psBroker.qty THEN PsSend("sell", psExit.qty)
             ELSE UNCHANGED <<psOrder, psCount>>
    /\ UNCHANGED <<psBroker, psRow, psPass, psGate>>

\* register: the order's row is stored after the broker has accepted it.
PsStored ==
    /\ psOrder.pc \in {"placed", "early"}
    /\ psOrder' = [psOrder EXCEPT !.pc = IF @ = "placed" THEN "open" ELSE "filled", !.db = "open"]
    /\ UNCHANGED <<psBroker, psRow, psTracker, psExit, psPass, psGate, psCount>>

\* The broker fills the order.
PsFill ==
    /\ psOrder.pc \in {"placed", "open"}
    /\ psOrder.side = "buy" => psBroker.qty < PsMaxQty
    /\ psBroker' = [psBroker EXCEPT !.qty =
          IF psOrder.side = "buy" THEN @ + 1 ELSE IF psOrder.qty <= @ THEN @ - psOrder.qty ELSE 0]
    /\ psOrder' = [psOrder EXCEPT !.pc = IF @ = "placed" THEN "early" ELSE "filled"]
    /\ psCount' = [psCount EXCEPT !.early = @ \/ psOrder.pc = "placed"]
    /\ UNCHANGED <<psRow, psTracker, psExit, psPass, psGate>>

\* Step 1 of the pipeline: the machine's transition stores FILLED.  A restored
\* order whose row is FILLED already goes no further.
PsRowFilled ==
    /\ PsUp /\ psOrder.pc = "filled" /\ psOrder.who \in {"session", "restored"}
    /\ LET skip == psOrder.who = "restored" /\ psOrder.db = "filled" IN
          /\ psOrder' = [psOrder EXCEPT !.pc = IF skip THEN "none" ELSE "rowed", !.db = "filled"]
          /\ psCount' = [psCount EXCEPT !.shut = @ \/ skip]
    /\ UNCHANGED <<psBroker, psRow, psTracker, psExit, psPass, psGate>>

\* on_fill of the tracker: an average over two eras is neither's.
PsBooked(t) ==
    IF psOrder.side = "sell"
      THEN IF t.qty > psOrder.qty THEN [t EXCEPT !.qty = @ - psOrder.qty] ELSE PsFlat
      ELSE [qty |-> t.qty + 1, era |-> IF t.qty = 0 \/ t.era = psBroker.era THEN psBroker.era ELSE 2]

PsTrack ==
    /\ psOrder.pc = "rowed"
    /\ psTracker.qty < PsMaxQty \/ psOrder.side = "sell"
    /\ psTracker' = PsBooked(psTracker)
    /\ psOrder' = [psOrder EXCEPT !.pc = "booked"]
    /\ UNCHANGED <<psBroker, psRow, psExit, psPass, psGate, psCount>>

\* Step 5: the row is set to the tracker's value, or deleted; a failure is
\* only logged.
PsWrite ==
    /\ psOrder.pc = "booked"
    /\ ~PsRowHeld
    /\ psOrder' = [psOrder EXCEPT !.pc = "none"]
    /\ \/ /\ psRow' = [qty |-> psTracker.qty, era |-> psTracker.era, old |-> FALSE]
          /\ psPass' = [psPass EXCEPT !.same = FALSE]
          /\ UNCHANGED psCount
       \/ PsFault /\ UNCHANGED <<psRow, psPass>>
    /\ UNCHANGED <<psBroker, psTracker, psExit, psGate>>

\* The recovery's callback stores the fill and moves the row by its delta.
PsStub ==
    /\ psOrder.pc = "filled" /\ psOrder.who = "stub"
    /\ ~PsRowHeld
    /\ psRow.qty < PsMaxQty \/ psOrder.side = "sell"
    /\ LET moved == PsBooked([qty |-> psRow.qty, era |-> psRow.era])
       IN psRow' = [qty |-> moved.qty, era |-> moved.era, old |-> FALSE]
    /\ psPass' = [psPass EXCEPT !.same = FALSE]
    /\ psOrder' = [psOrder EXCEPT !.pc = "none", !.db = "filled"]
    /\ UNCHANGED <<psBroker, psTracker, psExit, psGate, psCount>>

\* Time passes, longer than any pass or pipeline takes: a fill is no longer
\* recent, and the row is old.
PsAge ==
    /\ psPass.pc = "idle"
    /\ psOrder.pc = "none"
    /\ psOrder' = PsNoOrder
    /\ psRow' = [psRow EXCEPT !.old = TRUE]
    /\ UNCHANGED <<psBroker, psTracker, psExit, psPass, psGate, psCount>>

\* A 2:1 split, or a trade by hand.
PsOutside ==
    /\ psCount.outside < PsMaxOutside
    /\ psCount' = [psCount EXCEPT !.outside = @ + 1]
    /\ \/ /\ psBroker.era = 0 /\ psBroker.qty * 2 <= PsMaxQty /\ psBroker.qty > 0
          /\ psBroker' = [qty |-> psBroker.qty * 2, era |-> 1]
       \/ psBroker.qty < PsMaxQty /\ psBroker' = [psBroker EXCEPT !.qty = @ + 1]
       \/ psBroker.qty > 0 /\ psBroker' = [psBroker EXCEPT !.qty = 0]
    /\ UNCHANGED <<psRow, psTracker, psOrder, psExit, psPass, psGate>>

-----------------------------------------------------------------------------
\* The pass.

\* The startup pass and the one the recovery starts know no poller.
PsFetch ==
    /\ psPass.pc = "idle"
    /\ psCount.up \in {"down", "stub", "up"}
    /\ psCount.passes < PsMaxPasses
    /\ \E own \in BOOLEAN :
          /\ own => PsUp
          /\ ~own => psCount.up = "down" \/ psCount.post
          /\ psCount' = [psCount EXCEPT !.passes = @ + 1, !.post = @ /\ own]
          /\ psPass' = [PsNoPass EXCEPT !.pc = "fetched", !.b = psBroker, !.own = own]
    /\ UNCHANGED <<psBroker, psRow, psTracker, psOrder, psExit, psGate>>

PsRead ==
    /\ psPass.pc = "fetched"
    /\ psPass' = [psPass EXCEPT !.pc = "read", !.same = TRUE, !.r = [qty |-> psRow.qty, era |-> psRow.era]]
    /\ UNCHANGED <<psBroker, psRow, psTracker, psOrder, psExit, psGate, psCount>>

\* The check that forgets an order whose fill is still being written.
PsMovingOpen == psOrder.db = "open"

\* _has_pending_order: open, or filled within the last ten minutes.
PsMoving == psOrder.db # "none"

\* classify_quantity_jump: a known ratio that keeps the value, or unknown.
PsClassified(b, r) == IF b.qty = 2 * r.qty /\ b.era = r.era + 1 THEN "confirmed" ELSE "unknown"

\* What the pass makes of the symbol.
PsJudged(b, r) ==
    IF b = r \/ (b.qty = 0 /\ r.qty = 0) THEN "none"
    ELSE IF r.qty = 0 THEN "insert"
    ELSE IF b.qty = r.qty THEN "average"
    ELSE IF PsMoving THEN "none"
    ELSE IF b.qty > 0 THEN PsClassified(b, r)
    ELSE IF psRow.old THEN "delete" ELSE "none"

PsJudge ==
    /\ psPass.pc = "read"
    /\ LET k == PsJudged(psPass.b, psPass.r) IN
          psPass' = [psPass EXCEPT !.pc = IF k = "none" THEN "orders" ELSE "lock", !.kind = k]
    /\ UNCHANGED <<psBroker, psRow, psTracker, psOrder, psExit, psGate, psCount>>

\* The lock that does not compare the row with the snapshot.
PsUnchangedNever == TRUE

\* _lock_unchanged; an insert asks that there still is no row.
PsUnchanged == psPass.same

\* A record that takes the action for applied before the row is committed.
PsRecordedApplied(g, k) ==
    IF k = "confirmed" THEN [g EXCEPT !.split = "applied"] ELSE [g EXCEPT !.u = @ + 1, !.odd = TRUE]

\* record: the entry in memory, then the row of the action.
PsRecorded(g, k) ==
    IF k = "confirmed" THEN [g EXCEPT !.c = @ + 1, !.split = "confirmed"]
    ELSE [g EXCEPT !.u = @ + 1, !.odd = TRUE]

PsLock ==
    /\ psPass.pc = "lock"
    /\ IF ~PsUnchanged THEN psPass' = [psPass EXCEPT !.pc = "orders"] /\ UNCHANGED <<psGate, psCount>>
       ELSE /\ psPass' = [psPass EXCEPT !.pc = "locked"]
            /\ \/ psPass.kind \notin {"confirmed", "unknown"} /\ UNCHANGED <<psGate, psCount>>
               \/ /\ psPass.kind \in {"confirmed", "unknown"}
                  /\ \/ psGate' = PsRecorded(psGate, psPass.kind) /\ UNCHANGED psCount
                     \/ /\ psGate' = [PsRecorded(psGate, psPass.kind) EXCEPT
                                         !.split = psGate.split, !.odd = psGate.odd]
                        /\ PsFault
    /\ UNCHANGED <<psBroker, psRow, psTracker, psOrder, psExit>>

PsNewRow ==
    CASE psPass.kind = "delete" -> [qty |-> 0, era |-> 0, old |-> FALSE]
      [] psPass.kind = "average" -> [psRow EXCEPT !.era = psPass.b.era, !.old = FALSE]
      [] OTHER -> [qty |-> psPass.b.qty, era |-> psPass.b.era, old |-> FALSE]

\* The one commit of the pass, or its rollback.
PsCommit ==
    /\ psPass.pc = "locked"
    /\ \/ /\ psRow' = PsNewRow
          /\ IF psPass.kind = "confirmed"
               THEN psPass' = [psPass EXCEPT !.pc = "apply"] /\ psCount' = [psCount EXCEPT !.booked = TRUE]
               ELSE /\ psPass' = [psPass EXCEPT !.pc = "orders"]
                    /\ psCount' = [psCount EXCEPT !.blind = @ \/ (psPass.kind = "insert" /\ PsMoving)]
       \/ /\ psCount.faults < PsMaxFaults
          /\ psCount' = [psCount EXCEPT !.faults = @ + 1]
          /\ psPass' = PsNoPass
          /\ UNCHANGED psRow
    /\ UNCHANGED <<psBroker, psTracker, psOrder, psExit, psGate>>

\* An apply that leaves the entry in memory.
PsAppliedKept(g) == [g EXCEPT !.split = "applied"]

\* mark_applied: one entry out of memory, the action's row closed.
PsApplied(g) == [g EXCEPT !.c = @ - 1, !.split = "applied"]

PsApply ==
    /\ psPass.pc = "apply"
    /\ psPass' = [psPass EXCEPT !.pc = "orders"]
    /\ \/ psGate' = PsApplied(psGate) /\ UNCHANGED psCount
       \/ psGate' = [PsApplied(psGate) EXCEPT !.split = psGate.split] /\ PsFault
    /\ UNCHANGED <<psBroker, psRow, psTracker, psOrder, psExit>>

\* The pass's second stage: an order the broker has filled goes through the
\* poller that owns it, which is the pipeline above; without one its row alone
\* is closed.  A pass that ran through at startup lets the boot go on.
PsOrders ==
    /\ psPass.pc = "orders"
    /\ psPass' = PsNoPass
    /\ LET close == ~psPass.own /\ psOrder.pc = "filled" /\ psOrder.db = "open"
           lost == close /\ psOrder.who = "nobody"
       IN /\ psOrder' = IF ~close THEN psOrder
                        ELSE [psOrder EXCEPT !.db = "filled", !.pc = IF lost THEN "none" ELSE @]
          /\ psCount' = [psCount EXCEPT !.shut = @ \/ close,
                             !.up = IF @ = "down" THEN "checked" ELSE @]
    /\ UNCHANGED <<psBroker, psRow, psTracker, psExit, psGate>>

-----------------------------------------------------------------------------
\* The end of the process and the start of the next.

\* An order whose row is open can be taken up again; a fill whose row was closed
\* without its position, or an order never stored, cannot.
PsEnd ==
    /\ psCount.ends < PsMaxEnds
    /\ LET kept == psOrder.pc \in {"open", "filled"} /\ psOrder.db = "open"
       IN /\ psOrder' = [psOrder EXCEPT !.pc = IF kept THEN @ ELSE "none", !.who = "nobody"]
          /\ psCount' = [psCount EXCEPT !.ends = @ + 1, !.up = "down", !.post = FALSE,
                             !.cut = @ \/ (~kept /\ psOrder.pc # "none")]
    /\ psTracker' = PsFlat
    /\ psExit' = [psExit EXCEPT !.pc = "none"]
    /\ psPass' = PsNoPass
    /\ psGate' = [psGate EXCEPT !.c = 0, !.u = 0]
    /\ UNCHANGED <<psBroker, psRow>>

\* The restore that forgets what nobody could explain.
PsRestoredSplits(g) == [g EXCEPT !.c = @ + IF g.split = "confirmed" THEN 1 ELSE 0]

\* restore_pending: every stored action that still blocks.
PsRestored(g) ==
    [g EXCEPT !.c = @ + IF g.split = "confirmed" THEN 1 ELSE 0, !.u = @ + IF g.odd THEN 1 ELSE 0]

\* After a startup pass without an error the gate is restored (one that cannot
\* be read keeps the worker shut) and the open order registered.
PsRegister ==
    /\ psCount.up = "checked"
    /\ psPass.pc = "idle"
    /\ psCount' = [psCount EXCEPT !.up = "stub", !.post = psOrder.db = "open"]
    /\ psGate' = PsRestored(psGate)
    /\ psOrder' = [psOrder EXCEPT !.who = IF psOrder.db = "open" THEN "stub" ELSE @]
    /\ UNCHANGED <<psBroker, psRow, psTracker, psExit, psPass>>

\* A session starts: its tracker from the row, its callback over the stub.
PsSession ==
    /\ psCount.up = "stub"
    /\ psCount' = [psCount EXCEPT !.up = "up"]
    /\ psTracker' = [qty |-> psRow.qty, era |-> psRow.era]
    /\ psOrder' = [psOrder EXCEPT !.who = IF psOrder.db = "open" THEN "restored" ELSE @]
    /\ UNCHANGED <<psBroker, psRow, psExit, psPass, psGate>>

PsNext ==
    \/ PsPlace \/ PsExitLook \/ PsExitClaim \/ PsStored \/ PsFill \/ PsRowFilled \/ PsTrack
    \/ PsWrite \/ PsStub \/ PsAge \/ PsOutside
    \/ PsFetch \/ PsRead \/ PsJudge \/ PsLock \/ PsCommit \/ PsApply \/ PsOrders
    \/ PsEnd \/ PsRegister \/ PsSession

PsSpec == PsInit /\ [][PsNext]_psVars

(***************************************************************************)
(* Properties.                                                              *)
(***************************************************************************)

\* The state stays what the code can hold.
PsTypeOK ==
    /\ psBroker \in PsPos /\ psTracker \in PsPos
    /\ psRow \in [qty : 0..PsMaxQty, era : PsEra, old : BOOLEAN]
    /\ psOrder \in [pc : {"none", "placed", "early", "open", "filled", "rowed", "booked"},
                    side : {"buy", "sell"}, qty : 0..PsMaxQty, db : {"none", "open", "filled"},
                    who : {"session", "nobody", "stub", "restored"}]
    /\ psExit \in [pc : {"none", "looked"}, qty : 0..PsMaxQty, era : PsEra]
    /\ psPass \in [pc : {"idle", "fetched", "read", "lock", "locked", "apply", "orders"}, own : BOOLEAN, b : PsPos, r : PsPos,
                   same : BOOLEAN, kind : {"none", "insert", "average", "confirmed", "unknown", "delete"}]
    /\ psGate \in [c : Nat, u : Nat, split : {"none", "confirmed", "applied"}, odd : BOOLEAN]

PsQuiet == PsUp /\ psPass.pc = "idle" /\ psOrder.pc = "none" /\ psExit.pc = "none"

\* Nothing happened but the strategy's own orders, none filled before its row
\* was stored, and no process was cut off between a fill's row and its position.
PsOwnOnly == psCount.outside = 0 /\ psCount.faults = 0 /\ ~psCount.cut /\ ~psCount.early

\* No pass takes a fill back: whatever passes ran over whichever steps of the
\* pipeline, broker, row and tracker agree when both are through.  Not so for
\* the insert, the one write of a pass that does not ask for moving orders, and
\* for a fill found by a pass that has no poller to hand it to.
PsFillKept ==
    PsQuiet /\ PsOwnOnly /\ ~psCount.blind /\ ~psCount.shut
        => psRow.qty = psBroker.qty /\ psTracker = psBroker

\* What a pass writes over is what it has judged: a fill or a trade that moved
\* the row since is left for the next pass.
PsJudgedOverwritten ==
    [][psPass.pc = "locked" /\ psRow' # psRow
          => <<psRow.qty, psRow.era>> = <<psPass.r.qty, psPass.r.era>>]_psVars

\* "Broker has fill, DB does not: write fill to DB, update position".
PsFoundFillMovesPosition ==
    PsQuiet /\ PsOwnOnly /\ ~psCount.blind => psTracker.qty = psBroker.qty

\* The strategy's own fill is never taken for a corporate action, with the same
\* exception for a fill whose position nobody wrote.
PsNotMisread == PsOwnOnly /\ ~psCount.blind /\ ~psCount.shut => ~PsBlocked

\* A jump nobody could explain, once stored, blocks new entries for good: over
\* passes, splits that do get applied, failures and restarts.
PsUnexplainedBlocks == psGate.odd /\ PsUp => psGate.u > 0

\* An action counts as applied only when the position that goes with it is
\* committed, however the pass is cut off.
PsAppliedIsBooked == psGate.split = "applied" => psCount.booked

\* A split that was applied without a failure does not block the symbol on.
PsGateOpens ==
    psGate.split = "applied" /\ psPass.pc = "idle" /\ psCount.faults = 0 /\ psCount.ends = 0 => psGate.c = 0

\* A reconciliation pass and the strategy's own fills do not undo each other.
PsFillsStand == [](PsTypeOK /\ PsFillKept /\ PsNotMisread) /\ PsJudgedOverwritten

\* The corporate-action gate, its rows and the position agree over the three
\* transactions of a pass.
PsActionInv == PsUnexplainedBlocks /\ PsAppliedIsBooked /\ PsGateOpens
=============================================================================
