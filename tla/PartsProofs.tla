------------------------------ MODULE PartsProofs ------------------------------
(***************************************************************************)
(* Proofs about the parts that MCParts puts side by side.  Each part is       *)
(* proved for its own initial states and its own steps; a step of the whole    *)
(* is a step of one part and leaves the others as they are, so that what       *)
(* holds of each part by itself holds of every behaviour of the whole.         *)
(***************************************************************************)
EXTENDS MCParts, FillPollerProofs, Integers, FiniteSetTheorems, TLAPS

\* Every step of the whole is a step, or a stutter, of each of its parts.
LEMMA StepOfEach ==
    [PartsNext]_partsVars =>
        /\ [KsNext]_ksVars /\ [UpNext]_upVars /\ [PsNext]_psVars /\ [WdNext]_wdVars /\ [IdNext]_idVars
        /\ [FrNext]_frVars /\ [EfNext]_efVars /\ [BoNextStep]_boVars /\ [PtNext]_ptVars
        /\ [LfNext]_lfVars /\ [WsNext]_wsVars /\ [TdNext]_tdVars
  BY DEF PartsNext, Alone, partsVars

\* The whole begins where each of its parts does.
LEMMA InitOfEach ==
    PartsInit => /\ KsInit /\ UpInit /\ PsInit /\ WdInit /\ IdInit /\ FrInit /\ EfInit /\ BoInit /\ PtInit
                 /\ LfInit /\ WsInit /\ TdInit
  BY DEF PartsInit

-----------------------------------------------------------------------------
(* The position in its four places: the corporate-action gate over the three  *)
(* transactions of a pass, and the strategy's own fills over whichever passes *)
(* run between their steps.                                                   *)

PsRowType == [qty : 0..PsMaxQty, era : PsEra, old : BOOLEAN]
PsOrderType == [pc : {"none", "placed", "early", "open", "filled", "rowed", "booked"},
                side : {"buy", "sell"}, qty : 0..PsMaxQty, db : {"none", "open", "filled"},
                who : {"session", "nobody", "stub", "restored"}]
PsExitType == [pc : {"none", "looked"}, qty : 0..PsMaxQty, era : PsEra]
PsPassType == [pc : {"idle", "fetched", "read", "lock", "locked", "apply", "orders"}, own : BOOLEAN, b : PsPos, r : PsPos,
               same : BOOLEAN, kind : {"none", "insert", "average", "confirmed", "unknown", "delete"}]
PsGateType == [c : Nat, u : Nat, split : {"none", "confirmed", "applied"}, odd : BOOLEAN]
PsCountType == [orders : Nat, passes : Nat, outside : Nat, faults : Nat, ends : Nat,
                up : {"up", "down", "checked", "stub"}, post : BOOLEAN, early : BOOLEAN, cut : BOOLEAN, shut : BOOLEAN,
                blind : BOOLEAN, booked : BOOLEAN]

\* A split whose entry the pass has made and not yet taken back.
PsEntered == psPass.pc = "apply" \/ (psPass.pc = "locked" /\ psPass.kind = "confirmed")

PsTyped ==
    /\ psBroker \in PsPos /\ psTracker \in PsPos /\ psRow \in PsRowType /\ psOrder \in PsOrderType
    /\ psExit \in PsExitType /\ psPass \in PsPassType /\ psGate \in PsGateType /\ psCount \in PsCountType
    /\ PsEntered => psGate.c > 0

USE DEF PsEra

\* The inductive types are those of the type invariant.
LEMMA PsTypes == PsTyped => PsTypeOK
  BY DEF PsTyped, PsTypeOK, PsRowType, PsOrderType, PsExitType, PsPassType, PsGateType

\* The types hold at first.
LEMMA PsTypedInit == ASSUME PsAssumption, PsInit PROVE PsTyped
  <1>1. psBroker \in PsPos /\ psTracker \in PsPos /\ psRow \in PsRowType
    BY DEF PsAssumption, PsInit, PsPos, PsRowType
  <1>2. psOrder \in PsOrderType /\ psExit \in PsExitType /\ psGate \in PsGateType
    BY DEF PsAssumption, PsInit, PsOrderType, PsNoOrder, PsExitType, PsGateType
  <1>3. psCount \in PsCountType
    BY DEF PsInit, PsCountType
  <1>4. psPass \in PsPassType /\ ~PsEntered
    BY DEF PsInit, PsPassType, PsNoPass, PsEntered, PsFlat, PsPos, PsAssumption
  <1> QED BY <1>1, <1>2, <1>3, <1>4 DEF PsTyped

\* Every step keeps the types, and an entry in memory for a split in hand.
LEMMA PsTypedStep == ASSUME PsAssumption, PsTyped, PsNext PROVE PsTyped'
  <1> USE DEF PsAssumption
  <1>0. PsNoPass \in PsPassType /\ PsNoPass.pc = "idle" /\ PsFlat \in PsPos
    <2>1. PsFlat \in PsPos
      BY DEF PsFlat, PsPos
    <2> QED BY <2>1 DEF PsNoPass, PsPassType
  <1>1. ASSUME NEW side \in {"buy", "sell"}, NEW qty \in 0..PsMaxQty, PsSend(side, qty)
        PROVE psOrder' \in PsOrderType /\ psCount' \in PsCountType
    <2>1. psOrder' \in PsOrderType
      BY <1>1 DEF PsSend, PsTyped, PsOrderType
    <2>2. psCount' \in PsCountType
      BY <1>1 DEF PsSend, PsTyped, PsCountType
    <2> QED BY <2>1, <2>2
  <1>2. CASE PsPlace
    <2>1. psOrder' \in PsOrderType /\ psCount' \in PsCountType
      BY <1>1, <1>2 DEF PsPlace, PsTyped, PsPos
    <2> QED BY <1>2, <2>1 DEF PsPlace, PsTyped, PsEntered
  <1>3. CASE PsExitLook
    BY <1>3 DEF PsExitLook, PsTyped, PsExitType, PsPos, PsEntered
  <1>4. CASE PsExitClaim
    <2>1. psExit' \in PsExitType
      BY <1>4 DEF PsExitClaim, PsTyped, PsExitType
    <2>2. psTracker' \in PsPos
      BY <1>4 DEF PsExitClaim, PsTyped, PsExitType, PsPos
    <2>3. psOrder' \in PsOrderType /\ psCount' \in PsCountType
      <3>1. psExit.qty \in 0..PsMaxQty
        BY DEF PsTyped, PsExitType
      <3> QED BY <1>1, <1>4, <3>1 DEF PsExitClaim, PsTyped
    <2> QED BY <1>4, <2>1, <2>2, <2>3 DEF PsExitClaim, PsTyped, PsEntered
  <1>5. CASE PsStored
    BY <1>5 DEF PsStored, PsTyped, PsOrderType, PsEntered
  <1>6. CASE PsFill
    <2>1. psBroker' \in PsPos
      BY <1>6 DEF PsFill, PsTyped, PsPos, PsOrderType
    <2>2. psOrder' \in PsOrderType /\ psCount' \in PsCountType
      BY <1>6 DEF PsFill, PsTyped, PsOrderType, PsCountType
    <2> QED BY <1>6, <2>1, <2>2 DEF PsFill, PsTyped, PsEntered
  <1>7. CASE PsRowFilled
    <2>1. psOrder' \in PsOrderType /\ psCount' \in PsCountType
      BY <1>7 DEF PsRowFilled, PsTyped, PsOrderType, PsCountType
    <2> QED BY <1>7, <2>1 DEF PsRowFilled, PsTyped, PsEntered
  <1>8. ASSUME NEW t \in PsPos, t.qty < PsMaxQty \/ psOrder.side = "sell" PROVE PsBooked(t) \in PsPos
    <2>1. psOrder.side \in {"buy", "sell"} /\ psOrder.qty \in 0..PsMaxQty /\ psBroker.era \in PsEra
      BY DEF PsTyped, PsOrderType, PsPos
    <2> QED BY <1>8, <2>1 DEF PsBooked, PsPos, PsFlat
  <1>9. CASE PsTrack
    <2>1. psTracker' \in PsPos
      BY <1>8, <1>9 DEF PsTrack, PsTyped
    <2>2. psOrder' \in PsOrderType
      BY <1>9 DEF PsTrack, PsTyped, PsOrderType
    <2> QED BY <1>9, <2>1, <2>2 DEF PsTrack, PsTyped, PsEntered
  <1>10. psCount' \in PsCountType \/ ~PsFault
    BY DEF PsFault, PsTyped, PsCountType
  <1>11. CASE PsWrite
    <2>1. psRow' \in PsRowType
      <3>1. psTracker \in PsPos /\ psRow \in PsRowType
        BY DEF PsTyped
      <3>2. [qty |-> psTracker.qty, era |-> psTracker.era, old |-> FALSE] \in PsRowType
        BY <3>1 DEF PsPos, PsRowType
      <3> QED BY <1>11, <3>1, <3>2 DEF PsWrite
    <2>2. psOrder' \in PsOrderType /\ psPass' \in PsPassType /\ psPass'.pc = psPass.pc /\ psPass'.kind = psPass.kind
      BY <1>11 DEF PsWrite, PsTyped, PsOrderType, PsPassType
    <2>3. psCount' \in PsCountType
      BY <1>10, <1>11 DEF PsWrite, PsTyped
    <2> QED BY <1>11, <2>1, <2>2, <2>3 DEF PsWrite, PsTyped, PsEntered
  <1>12. CASE PsStub
    <2>1. psRow' \in PsRowType
      <3>1. [qty |-> psRow.qty, era |-> psRow.era] \in PsPos
        BY DEF PsTyped, PsRowType, PsPos
      <3>2. PsBooked([qty |-> psRow.qty, era |-> psRow.era]) \in PsPos
        BY <1>8, <1>12, <3>1 DEF PsStub
      <3> QED BY <1>12, <3>2 DEF PsStub, PsRowType, PsPos
    <2>2. psOrder' \in PsOrderType /\ psPass' \in PsPassType /\ psPass'.pc = psPass.pc /\ psPass'.kind = psPass.kind
      BY <1>12 DEF PsStub, PsTyped, PsOrderType, PsPassType
    <2> QED BY <1>12, <2>1, <2>2 DEF PsStub, PsTyped, PsEntered
  <1>13. CASE PsAge
    <2>1. psOrder' \in PsOrderType
      BY <1>13 DEF PsAge, PsOrderType, PsNoOrder
    <2>2. psRow' \in PsRowType
      BY <1>13 DEF PsAge, PsTyped, PsRowType
    <2> QED BY <1>13, <2>1, <2>2 DEF PsAge, PsTyped, PsEntered
  <1>14. CASE PsOutside
    <2>1. psBroker' \in PsPos
      BY <1>14 DEF PsOutside, PsTyped, PsPos
    <2>2. psCount' \in PsCountType
      BY <1>14 DEF PsOutside, PsTyped, PsCountType
    <2> QED BY <1>14, <2>1, <2>2 DEF PsOutside, PsTyped, PsEntered
  <1>15. CASE PsFetch
    <2>0. PICK own \in BOOLEAN :
            /\ psCount' = [psCount EXCEPT !.passes = @ + 1, !.post = @ /\ own]
            /\ psPass' = [PsNoPass EXCEPT !.pc = "fetched", !.b = psBroker, !.own = own]
      BY <1>15 DEF PsFetch
    <2>1. psPass' \in PsPassType /\ psPass'.pc = "fetched"
      <3>1. psBroker \in PsPos
        BY DEF PsTyped
      <3> QED BY <1>0, <2>0, <3>1 DEF PsPassType, PsNoPass
    <2>2. psCount' \in PsCountType
      <3>1. psCount \in PsCountType /\ psCount.passes + 1 \in Nat
        BY DEF PsTyped, PsCountType
      <3>2. PICK hit \in BOOLEAN : psCount' = [psCount EXCEPT !.passes = psCount.passes + 1, !.post = hit]
        BY <2>0, <3>1 DEF PsCountType
      <3> QED BY <3>1, <3>2 DEF PsCountType
    <2> QED BY <1>15, <2>1, <2>2 DEF PsFetch, PsTyped, PsEntered
  <1>16. CASE PsRead
    <2>1. [qty |-> psRow.qty, era |-> psRow.era] \in PsPos
      BY DEF PsTyped, PsRowType, PsPos
    <2>2. psPass' \in PsPassType /\ psPass'.pc = "read"
      BY <1>16, <2>1 DEF PsRead, PsTyped, PsPassType
    <2> QED BY <1>16, <2>2 DEF PsRead, PsTyped, PsEntered
  <1>17. CASE PsJudge
    <2>1. PsJudged(psPass.b, psPass.r) \in {"none", "insert", "average", "confirmed", "unknown", "delete"}
      BY DEF PsJudged, PsClassified
    <2>2. psPass' \in PsPassType /\ psPass'.pc \in {"orders", "lock"}
      BY <1>17, <2>1 DEF PsJudge, PsTyped, PsPassType
    <2> QED BY <1>17, <2>2 DEF PsJudge, PsTyped, PsEntered
  <1>18. CASE PsLock
    <2>1. psPass' \in PsPassType /\ psPass'.kind = psPass.kind /\ psPass'.pc \in {"orders", "locked"}
      BY <1>18 DEF PsLock, PsTyped, PsPassType
    <2>2. psCount' \in PsCountType
      BY <1>10, <1>18 DEF PsLock, PsTyped
    <2>3. /\ PsRecorded(psGate, psPass.kind) \in PsGateType
          /\ psPass.kind = "confirmed" => PsRecorded(psGate, psPass.kind).c > 0
      <3>1. psGate \in PsGateType /\ psGate.c + 1 \in Nat /\ psGate.c + 1 > 0 /\ psGate.u + 1 \in Nat
        BY DEF PsTyped, PsGateType
      <3>2. CASE psPass.kind = "confirmed"
        BY <3>1, <3>2 DEF PsGateType, PsRecorded
      <3>3. CASE psPass.kind # "confirmed"
        BY <3>1, <3>3 DEF PsGateType, PsRecorded
      <3> QED BY <3>2, <3>3
    <2>4. psGate' \in PsGateType
      BY <1>18, <2>3 DEF PsLock, PsTyped, PsGateType
    <2>5. psPass'.pc = "locked" /\ psPass.kind = "confirmed" => psGate'.c > 0
      BY <1>18, <2>3 DEF PsLock, PsTyped, PsGateType, PsPassType
    <2> QED BY <1>18, <2>1, <2>2, <2>4, <2>5 DEF PsLock, PsTyped, PsEntered
  <1>19. CASE PsCommit
    <2>1. psRow' \in PsRowType
      <3>1. psPass.b \in PsPos
        BY DEF PsTyped, PsPassType
      <3>2. psRow \in PsRowType
        BY DEF PsTyped
      <3>3. [qty |-> 0, era |-> 0, old |-> FALSE] \in PsRowType
        BY DEF PsRowType
      <3>4. [psRow EXCEPT !.era = psPass.b.era, !.old = FALSE] \in PsRowType
        BY <3>1, <3>2 DEF PsRowType, PsPos
      <3>5. [qty |-> psPass.b.qty, era |-> psPass.b.era, old |-> FALSE] \in PsRowType
        BY <3>1 DEF PsRowType, PsPos
      <3>6. PsNewRow \in PsRowType
        BY <3>3, <3>4, <3>5 DEF PsNewRow
      <3> QED BY <1>19, <3>2, <3>6 DEF PsCommit
    <2>2. /\ psPass' \in PsPassType
          /\ psPass'.pc = "apply" => psPass.kind = "confirmed"
          /\ psPass'.pc # "locked"
      <3>1. psPass \in PsPassType
        BY DEF PsTyped
      <3>2. /\ [psPass EXCEPT !.pc = "apply"] \in PsPassType /\ [psPass EXCEPT !.pc = "orders"] \in PsPassType
            /\ [psPass EXCEPT !.pc = "orders"].pc = "orders" /\ [psPass EXCEPT !.pc = "apply"].pc = "apply"
        BY <3>1 DEF PsPassType
      <3>3. CASE psPass.kind = "confirmed" /\ psPass' = [psPass EXCEPT !.pc = "apply"]
        BY <3>2, <3>3
      <3>4. CASE psPass' = [psPass EXCEPT !.pc = "orders"]
        BY <3>2, <3>4
      <3>5. CASE psPass' = PsNoPass
        BY <1>0, <3>5
      <3> QED BY <1>19, <3>3, <3>4, <3>5 DEF PsCommit
    <2>3. psCount' \in PsCountType
      <3>1. psCount \in PsCountType
        BY DEF PsTyped
      <3>2. CASE psCount' = [psCount EXCEPT !.booked = TRUE]
        BY <3>1, <3>2 DEF PsCountType
      <3>3. CASE psCount' = [psCount EXCEPT !.blind = @ \/ (psPass.kind = "insert" /\ PsMoving)]
        BY <3>1, <3>3 DEF PsCountType
      <3>4. CASE psCount' = [psCount EXCEPT !.faults = @ + 1]
        BY <3>1, <3>4 DEF PsCountType
      <3> QED BY <1>19, <3>2, <3>3, <3>4 DEF PsCommit
    <2> QED BY <1>19, <2>1, <2>2, <2>3 DEF PsCommit, PsTyped, PsEntered
  <1>20. CASE PsApply
    <2>1. psPass' \in PsPassType /\ psPass'.pc = "orders"
      BY <1>20 DEF PsApply, PsTyped, PsPassType
    <2>2. psCount' \in PsCountType
      BY <1>10, <1>20 DEF PsApply, PsTyped
    <2>3. psGate' \in PsGateType
      <3>1. psGate \in PsGateType /\ psGate.c - 1 \in Nat
        BY <1>20 DEF PsApply, PsTyped, PsGateType, PsEntered
      <3>2. PsApplied(psGate) \in PsGateType /\ [PsApplied(psGate) EXCEPT !.split = psGate.split] \in PsGateType
        BY <3>1 DEF PsApplied, PsGateType
      <3> QED BY <1>20, <3>2 DEF PsApply
    <2> QED BY <1>20, <2>1, <2>2, <2>3 DEF PsApply, PsTyped, PsEntered
  <1>21. CASE PsOrders
    <2>1. psPass' \in PsPassType /\ psPass'.pc = "idle"
      BY <1>21 DEF PsOrders, PsTyped, PsPassType, PsNoPass, PsFlat, PsPos
    <2>2. psOrder' \in PsOrderType
      BY <1>21 DEF PsOrders, PsTyped, PsOrderType
    <2>3. psCount' \in PsCountType
      BY <1>21 DEF PsOrders, PsTyped, PsCountType, PsPassType
    <2> QED BY <1>21, <2>1, <2>2, <2>3 DEF PsOrders, PsTyped, PsEntered
  <1>22. CASE PsEnd
    <2>1. psPass' \in PsPassType /\ psPass'.pc = "idle"
      BY <1>22 DEF PsEnd, PsTyped, PsPassType, PsNoPass, PsFlat, PsPos
    <2>2. psOrder' \in PsOrderType
      BY <1>22 DEF PsEnd, PsTyped, PsOrderType
    <2>3. psCount' \in PsCountType
      <3>1. psCount \in PsCountType /\ psCount.ends + 1 \in Nat
        BY DEF PsTyped, PsCountType
      <3>2. PICK hit \in BOOLEAN :
              psCount' = [psCount EXCEPT !.ends = psCount.ends + 1, !.up = "down", !.post = FALSE, !.cut = hit]
        BY <1>22, <3>1 DEF PsEnd, PsCountType
      <3> QED BY <3>1, <3>2 DEF PsCountType
    <2>4. psTracker' \in PsPos /\ psExit' \in PsExitType /\ psGate' \in PsGateType
      <3>1. psTracker' \in PsPos
        BY <1>0, <1>22 DEF PsEnd
      <3>2. psExit' \in PsExitType
        BY <1>22 DEF PsEnd, PsTyped, PsExitType
      <3>3. psGate' \in PsGateType
        BY <1>22 DEF PsEnd, PsTyped, PsGateType
      <3> QED BY <3>1, <3>2, <3>3
    <2> QED BY <1>22, <2>1, <2>2, <2>3, <2>4 DEF PsEnd, PsTyped, PsEntered
  <1>23. CASE PsRegister
    <2>1. psOrder' \in PsOrderType
      BY <1>23 DEF PsRegister, PsTyped, PsOrderType
    <2>2. psCount' \in PsCountType
      BY <1>23 DEF PsRegister, PsTyped, PsCountType
    <2>3. psGate' \in PsGateType
      <3>1. psGate \in PsGateType
        BY DEF PsTyped
      <3> DEFINE m == psGate.c + IF psGate.split = "confirmed" THEN 1 ELSE 0
                 n == psGate.u + IF psGate.odd THEN 1 ELSE 0
      <3>2. m \in Nat /\ n \in Nat
        BY <3>1 DEF PsGateType
      <3>3. psGate' = [psGate EXCEPT !.c = m, !.u = n]
        BY <1>23 DEF PsRegister, PsRestored
      <3> HIDE DEF m, n
      <3> QED BY <3>1, <3>2, <3>3 DEF PsGateType
    <2> QED BY <1>23, <2>1, <2>2, <2>3 DEF PsRegister, PsTyped, PsEntered
  <1>24. CASE PsSession
    <2>1. psOrder' \in PsOrderType
      BY <1>24 DEF PsSession, PsTyped, PsOrderType
    <2>2. psCount' \in PsCountType
      BY <1>24 DEF PsSession, PsTyped, PsCountType
    <2>3. psTracker' \in PsPos
      BY <1>24 DEF PsSession, PsTyped, PsRowType, PsPos
    <2> QED BY <1>24, <2>1, <2>2, <2>3 DEF PsSession, PsTyped, PsEntered
  <1> QED BY <1>2, <1>3, <1>4, <1>5, <1>6, <1>7, <1>9, <1>11, <1>12, <1>13, <1>14, <1>15,
             <1>16, <1>17, <1>18,
             <1>19, <1>20, <1>21, <1>22, <1>23, <1>24 DEF PsNext

-----------------------------------------------------------------------------
\* The gate: what stays of a split and of a jump nobody could explain.
PsActed ==
    /\ psGate.odd /\ psCount.up \in {"stub", "up"} => psGate.u > 0
    /\ psGate.split = "applied" => psCount.booked
    /\ psPass.pc = "apply" => psCount.booked
    /\ psCount.ends = 0 => psCount.up = "up"
    /\ psCount.ends = 0 /\ psCount.faults = 0 => psGate.c = IF PsEntered THEN 1 ELSE 0

\* What is kept of splits and jumps is what the gate promises.
LEMMA PsActedHolds == PsActed => PsActionInv
  BY DEF PsActed, PsActionInv, PsUnexplainedBlocks, PsAppliedIsBooked, PsGateOpens, PsUp,
     PsEntered

\* It holds at first.
LEMMA PsActedInit == PsInit => PsActed
  BY DEF PsInit, PsActed, PsNoPass, PsEntered

\* Every step keeps it, failures and restarts included.
LEMMA PsActedStep == ASSUME PsAssumption, PsTyped, PsTyped', PsActed, PsNext PROVE PsActed'
  <1> USE DEF PsActed, PsEntered
  <1>0. /\ psCount \in PsCountType /\ psCount' \in PsCountType /\ psPass \in PsPassType /\ psGate \in PsGateType
        /\ (PsEntered => psGate.c > 0)
    BY DEF PsTyped
\* The steps that leave the pass and the gate alone, and count no fault but their own.
  <1>1. ASSUME UNCHANGED <<psGate>>, psPass'.pc = psPass.pc, psPass'.kind = psPass.kind,
               psCount'.up = psCount.up, psCount'.booked = psCount.booked,
               psCount'.ends = psCount.ends, psCount'.faults >= psCount.faults
        PROVE PsActed'
    BY <1>0, <1>1 DEF PsCountType
  <1>2. CASE PsPlace
    <2>1. psCount'.up = psCount.up /\ psCount'.booked = psCount.booked /\ psCount'.ends = psCount.ends
          /\ psCount'.faults = psCount.faults
      BY <1>0, <1>2 DEF PsPlace, PsSend, PsCountType
    <2> QED BY <1>0, <1>1, <1>2, <2>1 DEF PsPlace, PsCountType
  <1>3. CASE PsExitLook \/ PsStored \/ PsTrack \/ PsAge
    BY <1>0, <1>1, <1>3 DEF PsExitLook, PsStored, PsTrack, PsAge, PsCountType
  <1>4. CASE PsExitClaim
    <2>1. psCount'.up = psCount.up /\ psCount'.booked = psCount.booked /\ psCount'.ends = psCount.ends
          /\ psCount'.faults = psCount.faults
      BY <1>0, <1>4 DEF PsExitClaim, PsSend, PsCountType
    <2> QED BY <1>0, <1>1, <1>4, <2>1 DEF PsExitClaim, PsCountType
  <1>5. CASE PsFill \/ PsRowFilled \/ PsOutside
    <2>1. psCount'.up = psCount.up /\ psCount'.booked = psCount.booked /\ psCount'.ends = psCount.ends
          /\ psCount'.faults = psCount.faults
      BY <1>0, <1>5 DEF PsFill, PsRowFilled, PsOutside, PsCountType
    <2> QED BY <1>0, <1>1, <1>5, <2>1 DEF PsFill, PsRowFilled, PsOutside, PsCountType
  <1>6. PsFault => psCount'.up = psCount.up /\ psCount'.booked = psCount.booked /\ psCount'.ends = psCount.ends
                   /\ psCount'.faults = psCount.faults + 1
    BY <1>0 DEF PsFault, PsCountType
  <1>7. CASE PsWrite \/ PsStub
    <2>1. psPass'.pc = psPass.pc /\ psPass'.kind = psPass.kind
      BY <1>0, <1>7 DEF PsWrite, PsStub, PsPassType
    <2>2. psCount'.up = psCount.up /\ psCount'.booked = psCount.booked /\ psCount'.ends = psCount.ends
          /\ psCount'.faults >= psCount.faults
      BY <1>0, <1>6, <1>7 DEF PsWrite, PsStub, PsCountType
    <2> QED BY <1>1, <1>7, <2>1, <2>2 DEF PsWrite, PsStub
  <1>8. CASE PsFetch
    <2>1. psPass'.pc = "fetched" /\ psPass.pc = "idle"
      BY <1>8 DEF PsFetch, PsNoPass
    <2>2. psCount'.up = psCount.up /\ psCount'.booked = psCount.booked /\ psCount'.ends = psCount.ends
          /\ psCount'.faults = psCount.faults
      BY <1>0, <1>8 DEF PsFetch, PsCountType
    <2> QED BY <1>8, <2>1, <2>2 DEF PsFetch
  <1>9. CASE PsRead
    <2>1. psPass'.pc = "read" /\ psPass.pc = "fetched"
      BY <1>0, <1>9 DEF PsRead, PsPassType
    <2> QED BY <1>9, <2>1 DEF PsRead
  <1>10. CASE PsJudge
    <2>1. psPass'.pc \in {"orders", "lock"} /\ psPass.pc = "read"
      BY <1>0, <1>10 DEF PsJudge, PsPassType
    <2> QED BY <1>10, <2>1 DEF PsJudge
  <1>11. CASE PsLock
    <2>1. psPass.pc = "lock" /\ psPass'.kind = psPass.kind /\ psPass'.pc \in {"orders", "locked"}
      BY <1>0, <1>11 DEF PsLock, PsPassType
    <2>2. CASE UNCHANGED <<psGate, psCount>> /\ (psPass'.pc = "orders" \/ psPass.kind \notin {"confirmed", "unknown"})
      BY <2>1, <2>2
    <2>3. CASE /\ psPass.kind \in {"confirmed", "unknown"}
               /\ \/ psGate' = PsRecorded(psGate, psPass.kind) /\ UNCHANGED psCount
                  \/ /\ psGate' = [PsRecorded(psGate, psPass.kind) EXCEPT !.split = psGate.split, !.odd = psGate.odd]
                     /\ PsFault
               /\ psPass'.pc = "locked"
      <3>1. /\ psGate'.c = IF psPass.kind = "confirmed" THEN psGate.c + 1 ELSE psGate.c
            /\ psGate'.u = IF psPass.kind = "confirmed" THEN psGate.u ELSE psGate.u + 1
            /\ psGate'.split \in {psGate.split, "confirmed"}
            /\ psGate'.odd => psGate.odd \/ psPass.kind # "confirmed"
        BY <1>0, <2>3 DEF PsRecorded, PsGateType
      <3>2. psCount'.up = psCount.up /\ psCount'.booked = psCount.booked /\ psCount'.ends = psCount.ends
            /\ psCount'.faults >= psCount.faults
        BY <1>0, <1>6, <2>3 DEF PsCountType
      <3>3. psGate.c \in Nat /\ psGate.u \in Nat /\ psCount.faults \in Nat /\ psCount'.faults \in Nat
        BY <1>0 DEF PsGateType, PsCountType
      <3> QED BY <2>1, <2>3, <3>1, <3>2, <3>3
    <2> QED BY <1>0, <1>11, <2>1, <2>2, <2>3 DEF PsLock, PsPassType
  <1>12. CASE PsCommit
    <2>1. psPass.pc = "locked" /\ psGate' = psGate
      BY <1>12 DEF PsCommit
    <2>2. CASE psPass.kind = "confirmed" /\ psPass' = [psPass EXCEPT !.pc = "apply"] /\ psCount' = [psCount EXCEPT !.booked = TRUE]
      <3>1. psPass'.pc = "apply" /\ psCount'.booked /\ psCount'.up = psCount.up /\ psCount'.ends = psCount.ends
            /\ psCount'.faults = psCount.faults
        BY <1>0, <2>2 DEF PsPassType, PsCountType
      <3> QED BY <2>1, <2>2, <3>1
    <2>3. CASE /\ psPass.kind # "confirmed" /\ psPass' = [psPass EXCEPT !.pc = "orders"]
               /\ psCount' = [psCount EXCEPT !.blind = @ \/ (psPass.kind = "insert" /\ PsMoving)]
      <3>1. psPass'.pc = "orders" /\ psCount'.booked = psCount.booked /\ psCount'.up = psCount.up /\ psCount'.ends = psCount.ends
            /\ psCount'.faults = psCount.faults
        BY <1>0, <2>3 DEF PsPassType, PsCountType
      <3> QED BY <2>1, <2>3, <3>1
    <2>4. CASE psCount' = [psCount EXCEPT !.faults = @ + 1] /\ psPass' = PsNoPass
      <3>1. psPass'.pc = "idle" /\ psCount'.booked = psCount.booked /\ psCount'.up = psCount.up /\ psCount'.ends = psCount.ends
            /\ psCount'.faults # 0
        BY <1>0, <2>4 DEF PsNoPass, PsCountType
      <3> QED BY <2>1, <3>1
    <2> QED BY <1>12, <2>2, <2>3, <2>4 DEF PsCommit
  <1>13. CASE PsApply
    <2>1. psPass.pc = "apply" /\ psPass'.pc = "orders"
      BY <1>0, <1>13 DEF PsApply, PsPassType
    <2>2. /\ psGate'.c = psGate.c - 1 /\ psGate'.u = psGate.u /\ psGate'.odd = psGate.odd
      BY <1>0, <1>13 DEF PsApply, PsApplied, PsGateType
    <2>3. psCount'.up = psCount.up /\ psCount'.booked = psCount.booked /\ psCount'.ends = psCount.ends
            /\ psCount'.faults >= psCount.faults /\ psCount.faults \in Nat /\ psCount'.faults \in Nat
      BY <1>0, <1>6, <1>13 DEF PsApply, PsCountType
    <2>4. psGate.c \in Nat
      BY <1>0 DEF PsGateType
    <2> QED BY <2>1, <2>2, <2>3, <2>4
  <1>14. CASE PsOrders
    <2>1. psPass.pc = "orders" /\ psPass'.pc = "idle" /\ psGate' = psGate
      BY <1>14 DEF PsOrders, PsNoPass
    <2>2. /\ psCount'.up = (IF psCount.up = "down" THEN "checked" ELSE psCount.up) /\ psCount'.booked = psCount.booked
          /\ psCount'.ends = psCount.ends /\ psCount'.faults = psCount.faults
      BY <1>0, <1>14 DEF PsOrders, PsCountType
    <2> QED BY <2>1, <2>2
  <1>15. CASE PsEnd
    <2>1. psPass'.pc = "idle" /\ psGate'.split = psGate.split
      BY <1>0, <1>15 DEF PsEnd, PsNoPass, PsGateType
    <2>2. psCount'.up = "down" /\ psCount'.booked = psCount.booked /\ psCount'.ends = psCount.ends + 1
      BY <1>0, <1>15 DEF PsEnd, PsCountType
    <2>3. psCount.ends \in Nat
      BY <1>0 DEF PsCountType
    <2> QED BY <2>1, <2>2, <2>3
  <1>16. CASE PsRegister
    <2>1. psCount.up = "checked" /\ psPass' = psPass /\ psCount'.up = "stub" /\ psCount'.booked = psCount.booked
          /\ psCount'.ends = psCount.ends
      BY <1>0, <1>16 DEF PsRegister, PsCountType
    <2>2. /\ psGate'.odd = psGate.odd /\ psGate'.split = psGate.split
          /\ psGate'.u = psGate.u + IF psGate.odd THEN 1 ELSE 0
      BY <1>0, <1>16 DEF PsRegister, PsRestored, PsGateType
    <2>3. psGate.u \in Nat
      BY <1>0 DEF PsGateType
    <2> QED BY <2>1, <2>2, <2>3
  <1>17. CASE PsSession
    <2>1. psCount.up = "stub" /\ psCount'.up = "up" /\ psCount'.booked = psCount.booked
          /\ psCount'.ends = psCount.ends /\ psCount'.faults = psCount.faults
      BY <1>0, <1>17 DEF PsSession, PsCountType
    <2> QED BY <1>17, <2>1 DEF PsSession
  <1> QED BY <1>2, <1>3, <1>4, <1>5, <1>7, <1>8, <1>9, <1>10, <1>11, <1>12, <1>13, <1>14,
             <1>15, <1>16, <1>17 DEF PsNext
-----------------------------------------------------------------------------
(* The position: the pass and the strategy's own fills.                       *)

\* Nothing but the strategy's orders and passes that could see them.
PsCalm == PsOwnOnly /\ ~psCount.blind /\ ~psCount.shut

\* A pass that holds the row, or still may, knows what it says.
PsJudgedStill ==
    /\ psPass.pc = "locked" => psPass.same
    /\ psPass.pc \in {"read", "lock", "locked"} /\ psPass.same =>
           psRow.qty = psPass.r.qty /\ psRow.era = psPass.r.era

\* Without a split or a jump there is one era, and nothing blocks.
PsOneEra ==
    /\ psBroker.era = 0 /\ psRow.era = 0 /\ psTracker.era = 0 /\ psPass.b.era = 0 /\ psPass.r.era = 0
    /\ psExit.pc = "none"
    /\ psGate.c = 0 /\ psGate.u = 0 /\ psGate.split = "none" /\ ~psGate.odd

\* Where an order is says what its row says, and who has it.
PsOwned ==
    /\ psOrder.pc # "early"
    /\ psOrder.db = "open" <=> psOrder.pc \in {"open", "filled"}
    /\ psOrder.pc \in {"rowed", "booked"} => psOrder.db = "filled"
    /\ psOrder.pc \in {"placed", "rowed", "booked"} => psCount.up = "up"
    /\ psOrder.pc = "placed" => psOrder.who = "session"
    /\ psOrder.pc \in {"open", "filled"} =>
          CASE psCount.up = "up" -> psOrder.who \in {"session", "restored"}
            [] psCount.up = "stub" -> psOrder.who = "stub"
            [] OTHER -> psOrder.who = "nobody"

\* How far a fill has come says by how much row, tracker and broker differ.
PsCarried ==
    /\ psOrder.pc \in {"none", "placed", "open"} => psRow.qty = psBroker.qty
    /\ psOrder.pc \in {"placed", "open"} /\ psOrder.side = "sell" => psOrder.qty = psBroker.qty /\ psBroker.qty > 0
    /\ psOrder.pc \in {"filled", "rowed", "booked"} =>
          IF psOrder.side = "buy" THEN psBroker.qty = psRow.qty + 1
          ELSE psBroker.qty = 0 /\ psOrder.qty = psRow.qty /\ psRow.qty > 0
    /\ psCount.up = "up" =>
          psTracker.qty = IF psOrder.pc \in {"none", "booked"} THEN psBroker.qty ELSE psRow.qty

\* A pass that sees no order moving has read what the broker has; one that does
\* writes nothing, but for the insert.
PsSeen ==
    /\ psPass.pc = "fetched" /\ psOrder.db = "none" => psPass.b.qty = psBroker.qty
    /\ psPass.pc = "read" /\ psOrder.db = "none" => psPass.b.qty = psPass.r.qty
    /\ psPass.pc \in {"lock", "locked"} => psPass.kind = "insert" /\ psOrder.db # "none"
    /\ psPass.pc # "apply"

PsKept == PsCalm => PsOneEra /\ PsOwned /\ PsCarried /\ PsSeen

\* Every step keeps a pass's knowledge of its row, and overwrites nothing else.
LEMMA PsJudgedStep ==
    ASSUME PsAssumption, PsTyped, PsJudgedStill, PsNext
    PROVE  /\ PsJudgedStill'
           /\ psPass.pc = "locked" /\ psRow' # psRow =>
                 <<psRow.qty, psRow.era>> = <<psPass.r.qty, psPass.r.era>>
  <1> USE DEF PsJudgedStill
  <1>0. psPass \in PsPassType /\ psRow \in PsRowType
    BY DEF PsTyped
  <1>1. CASE PsPlace \/ PsExitLook \/ PsExitClaim \/ PsStored \/ PsFill \/ PsRowFilled \/ PsTrack \/ PsOutside
             \/ PsSession \/ PsRegister
    BY <1>1 DEF PsPlace, PsExitLook, PsExitClaim, PsStored, PsFill, PsRowFilled, PsTrack,
       PsOutside, PsSession, PsRegister
  <1>2. CASE PsWrite \/ PsStub
    <2>1. psPass.pc # "locked"
      BY <1>2 DEF PsWrite, PsStub, PsRowHeld
    <2>2. psPass'.pc = psPass.pc
          /\ (~psPass'.same \/ (UNCHANGED psRow /\ psPass' = psPass))
      BY <1>0, <1>2 DEF PsWrite, PsStub, PsPassType
    <2> QED BY <2>1, <2>2
  <1>3. CASE PsAge
    <2>1. psPass.pc = "idle" /\ psPass' = psPass
      BY <1>3 DEF PsAge
    <2> QED BY <2>1
  <1>4. CASE PsFetch
    <2>1. psPass.pc = "idle" /\ psPass'.pc = "fetched"
      BY <1>4 DEF PsFetch, PsNoPass
    <2> QED BY <2>1
  <1>5. CASE PsRead
    <2>1. psPass.pc = "fetched" /\ psPass'.pc = "read" /\ UNCHANGED psRow
          /\ psPass'.r = [qty |-> psRow.qty, era |-> psRow.era]
      BY <1>0, <1>5 DEF PsRead, PsPassType
    <2> QED BY <2>1
  <1>6. CASE PsJudge
    <2>1. /\ psPass.pc = "read" /\ psPass'.pc \in {"orders", "lock"} /\ UNCHANGED psRow
          /\ psPass'.same = psPass.same /\ psPass'.r = psPass.r
      BY <1>0, <1>6 DEF PsJudge, PsPassType
    <2> QED BY <2>1
  <1>7. CASE PsLock
    <2>1. /\ psPass.pc = "lock" /\ psPass'.pc \in {"orders", "locked"} /\ UNCHANGED psRow
          /\ psPass'.same = psPass.same /\ psPass'.r = psPass.r
          /\ psPass'.pc = "locked" => psPass.same
      BY <1>0, <1>7 DEF PsLock, PsPassType, PsUnchanged
    <2> QED BY <2>1
  <1>8. CASE PsCommit
    <2>1. psPass.pc = "locked" /\ psPass'.pc \in {"apply", "orders", "idle"}
      BY <1>0, <1>8 DEF PsCommit, PsPassType, PsNoPass
    <2> QED BY <1>0, <2>1
  <1>9. CASE PsApply \/ PsOrders \/ PsEnd
    <2>1. psPass'.pc \in {"orders", "idle"} /\ UNCHANGED psRow
      BY <1>0, <1>9 DEF PsApply, PsOrders, PsEnd, PsPassType, PsNoPass
    <2> QED BY <2>1
  <1> QED BY <1>1, <1>2, <1>3, <1>4, <1>5, <1>6, <1>7, <1>8, <1>9 DEF PsNext

\* What was not calm once is not calm again, and what makes it so is no step
\* of a calm behaviour.
LEMMA PsCalmBefore ==
    ASSUME PsAssumption, PsTyped, PsNext, PsCalm'
    PROVE  PsCalm /\ ~PsOutside /\ ~PsFault
  <1> USE DEF PsCalm, PsOwnOnly
  <1>0. psCount \in PsCountType /\ psCount.faults \in Nat /\ psCount.outside \in Nat
    BY DEF PsTyped, PsCountType
  <1>1. ~PsFault
    <2>1. PsFault => psCount'.faults = psCount.faults + 1
      BY <1>0 DEF PsFault, PsCountType
    <2> QED BY <1>0, <2>1
  <1>2. ~PsOutside
    <2>1. PsOutside => psCount'.outside = psCount.outside + 1
      BY <1>0 DEF PsOutside, PsCountType
    <2> QED BY <1>0, <2>1
  <1>3. ~PsCommit \/ psCount'.faults = psCount.faults
    <2>1. psCount' = [psCount EXCEPT !.faults = @ + 1] => psCount'.faults = psCount.faults + 1
      BY <1>0 DEF PsCountType
    <2>2. psCount'.faults # psCount.faults + 1
      BY <1>0
    <2> QED BY <1>0, <2>1, <2>2 DEF PsCommit, PsCountType
  <1>4. CASE PsPlace \/ PsExitClaim
    <2>1. psCount' = psCount \/ psCount' = [psCount EXCEPT !.orders = @ + 1]
      BY <1>4 DEF PsPlace, PsExitClaim, PsSend
    <2> QED BY <1>0, <1>1, <1>2, <2>1 DEF PsCountType
  <1>5. CASE PsExitLook \/ PsStored \/ PsTrack \/ PsWrite \/ PsStub \/ PsAge \/ PsRead \/ PsJudge \/ PsLock \/ PsApply
    <2>1. UNCHANGED psCount
      BY <1>1, <1>5 DEF PsExitLook, PsStored, PsTrack, PsWrite, PsStub, PsAge, PsRead, PsJudge,
         PsLock, PsApply
    <2> QED BY <1>1, <1>2, <2>1
  <1>6. CASE PsFill \/ PsRowFilled
    BY <1>0, <1>1, <1>2, <1>6 DEF PsFill, PsRowFilled, PsCountType
  <1>7. CASE PsFetch \/ PsRegister \/ PsSession
    BY <1>0, <1>1, <1>2, <1>7 DEF PsFetch, PsRegister, PsSession, PsCountType
  <1>8. CASE PsCommit
    BY <1>0, <1>1, <1>2, <1>3, <1>8 DEF PsCommit, PsCountType
  <1>9. CASE PsOrders \/ PsEnd
    BY <1>0, <1>1, <1>2, <1>9 DEF PsOrders, PsEnd, PsCountType
  <1> QED BY <1>1, <1>2, <1>4, <1>5, <1>6, <1>7, <1>8, <1>9 DEF PsNext

\* Every step of a calm behaviour keeps the books.
LEMMA PsKeptStep ==
    ASSUME PsAssumption, PsTyped, PsTyped', PsKept, PsNext, PsCalm'
    PROVE  (PsOneEra /\ PsOwned /\ PsCarried /\ PsSeen)'
  <1>0. PsCalm /\ ~PsOutside /\ ~PsFault /\ PsOneEra /\ PsOwned /\ PsCarried /\ PsSeen
    BY PsCalmBefore DEF PsKept
  <1>t. /\ psCount \in PsCountType /\ psPass \in PsPassType /\ psGate \in PsGateType /\ psRow \in PsRowType
        /\ psOrder \in PsOrderType /\ psTracker \in PsPos /\ psBroker \in PsPos /\ psExit \in PsExitType
    BY DEF PsTyped
  <1>n. /\ psRow.qty \in Nat /\ psBroker.qty \in Nat /\ psTracker.qty \in Nat /\ psOrder.qty \in Nat
        /\ psPass.b.qty \in Nat /\ psPass.r.qty \in Nat
    BY <1>t DEF PsAssumption, PsRowType, PsOrderType, PsPos, PsPassType
  <1>c. /\ psCount'.outside = 0 /\ psCount'.faults = 0 /\ ~psCount'.cut /\ ~psCount'.early /\ ~psCount'.blind
        /\ ~psCount'.shut
    BY DEF PsCalm, PsOwnOnly
  <1>b. ~PsBlocked
    BY <1>0 DEF PsBlocked, PsOneEra
  <1>f. PsFlat.qty = 0 /\ PsFlat.era = 0 /\ PsNoPass.pc = "idle" /\ PsNoPass.b = PsFlat /\ PsNoPass.r = PsFlat
    BY DEF PsFlat, PsNoPass
  <1>1. CASE PsPlace
    <2>1. /\ psOrder.pc = "none" /\ psOrder'.pc = "placed" /\ psOrder'.db = psOrder.db /\ psCount'.up = psCount.up
          /\ psCount.up = "up" /\ psOrder'.who = "session"
          /\ (psOrder'.side = "sell" => psOrder'.qty = psTracker.qty /\ psTracker.qty > 0)
          /\ UNCHANGED <<psBroker, psRow, psTracker, psExit, psPass, psGate>>
      <3>1. PICK side \in {"buy", "sell"}, qty \in Nat :
              PsSend(side, qty) /\ (side = "sell" => qty = psTracker.qty /\ psTracker.qty > 0)
        <4>1. psTracker.qty \in 1..psBroker.qty => psTracker.qty > 0
          BY <1>n
        <4> QED BY <1>1, <1>n, <4>1 DEF PsPlace
      <3>2. psOrder'.pc = "placed" /\ psOrder'.db = psOrder.db /\ psOrder'.side = side /\ psOrder'.qty = qty
            /\ psOrder'.who = "session"
        BY <1>t, <3>1 DEF PsSend, PsOrderType
      <3>3. psOrder.pc = "none" /\ psCount'.up = psCount.up
        BY <1>t, <3>1 DEF PsSend, PsCountType
      <3> QED BY <1>1, <3>1, <3>2, <3>3 DEF PsPlace, PsUp
    <2> QED BY <1>0, <2>1 DEF PsOneEra, PsOwned, PsCarried, PsSeen
  <1>2. CASE PsExitLook \/ PsExitClaim \/ PsApply
    BY <1>0, <1>2, <1>b DEF PsExitLook, PsExitClaim, PsApply, PsOneEra, PsSeen
  <1>3. CASE PsStored
    <2>1. /\ psOrder.pc = "placed" /\ psOrder'.pc = "open" /\ psOrder'.db = "open" /\ psOrder'.side = psOrder.side
          /\ psOrder'.qty = psOrder.qty /\ psOrder'.who = psOrder.who
          /\ UNCHANGED <<psBroker, psRow, psTracker, psExit, psPass, psGate, psCount>>
      BY <1>0, <1>3, <1>t DEF PsStored, PsOrderType, PsOwned
    <2> QED BY <1>0, <2>1 DEF PsOneEra, PsOwned, PsCarried, PsSeen
  <1>4. CASE PsFill
    <2>1. psOrder.pc # "placed"
      BY <1>4, <1>t, <1>c DEF PsFill, PsCountType
    <2>2. /\ psOrder.pc = "open" /\ psOrder'.pc = "filled" /\ psOrder'.db = psOrder.db /\ psOrder'.side = psOrder.side
          /\ psOrder'.qty = psOrder.qty /\ psOrder'.who = psOrder.who /\ psCount'.up = psCount.up
          /\ psBroker'.era = psBroker.era
          /\ psBroker'.qty = IF psOrder.side = "buy" THEN psBroker.qty + 1
                             ELSE IF psOrder.qty <= psBroker.qty THEN psBroker.qty - psOrder.qty ELSE 0
          /\ UNCHANGED <<psRow, psTracker, psExit, psPass, psGate>>
      BY <1>4, <1>t, <2>1 DEF PsFill, PsOrderType, PsCountType, PsPos
    <2>3. psOrder.side \in {"buy", "sell"}
      BY <1>t DEF PsOrderType
    <2> QED BY <1>0, <1>n, <2>2, <2>3 DEF PsOneEra, PsOwned, PsCarried, PsSeen
  <1>5. CASE PsRowFilled
    <2>1. /\ psOrder.pc = "filled" /\ psOrder'.pc = "rowed" /\ psOrder'.db = "filled" /\ psOrder'.side = psOrder.side
          /\ psOrder'.qty = psOrder.qty /\ psCount'.up = psCount.up /\ psCount.up = "up"
          /\ UNCHANGED <<psBroker, psRow, psTracker, psExit, psPass, psGate>>
      BY <1>0, <1>5, <1>t DEF PsRowFilled, PsOrderType, PsCountType, PsOwned, PsUp
    <2> QED BY <1>0, <2>1 DEF PsOneEra, PsOwned, PsCarried, PsSeen
  <1>6. CASE PsTrack
    <2>1. /\ psOrder.pc = "rowed" /\ psOrder'.pc = "booked" /\ psOrder'.db = psOrder.db /\ psOrder'.side = psOrder.side
          /\ psOrder'.qty = psOrder.qty
          /\ UNCHANGED <<psBroker, psRow, psExit, psPass, psGate, psCount>>
      BY <1>6, <1>t DEF PsTrack, PsOrderType
    <2>2. psTracker.qty = psRow.qty /\ psCount.up = "up"
      BY <1>0, <2>1 DEF PsCarried, PsOwned
    <2>3. psOrder.side \in {"buy", "sell"}
      BY <1>t DEF PsOrderType
    <2>4. psTracker'.qty = psBroker.qty /\ psTracker'.era = 0
      BY <1>0, <1>n, <1>f, <1>6, <2>1, <2>2, <2>3 DEF PsTrack, PsBooked, PsCarried, PsOneEra
    <2> QED BY <1>0, <2>1, <2>4 DEF PsOneEra, PsOwned, PsCarried, PsSeen
  <1>7. CASE PsWrite
    <2>1. /\ psOrder.pc = "booked" /\ psOrder'.pc = "none" /\ psOrder'.db = psOrder.db
          /\ psRow' = [qty |-> psTracker.qty, era |-> psTracker.era, old |-> FALSE]
          /\ psPass' = [psPass EXCEPT !.same = FALSE]
          /\ UNCHANGED <<psBroker, psTracker, psExit, psGate, psCount>> /\ psPass.pc # "locked"
      BY <1>0, <1>7, <1>t DEF PsWrite, PsOrderType, PsRowHeld
    <2>2. psPass'.pc = psPass.pc /\ psPass'.b = psPass.b /\ psPass'.r = psPass.r /\ psPass'.kind = psPass.kind
      BY <1>t, <2>1 DEF PsPassType
    <2>3. psCount.up = "up" /\ psRow'.qty = psBroker.qty /\ psRow'.era = 0
      BY <1>0, <2>1 DEF PsOneEra, PsOwned, PsCarried
    <2> QED BY <1>0, <2>1, <2>2, <2>3 DEF PsOneEra, PsOwned, PsCarried, PsSeen
  <1>8. CASE PsStub
    <2>1. /\ psOrder.pc = "filled" /\ psOrder'.pc = "none" /\ psOrder'.db = "filled" /\ psOrder.who = "stub"
          /\ psPass' = [psPass EXCEPT !.same = FALSE]
          /\ psRow'.qty = PsBooked([qty |-> psRow.qty, era |-> psRow.era]).qty
          /\ psRow'.era = PsBooked([qty |-> psRow.qty, era |-> psRow.era]).era
          /\ UNCHANGED <<psBroker, psTracker, psExit, psGate, psCount>> /\ psPass.pc # "locked"
      BY <1>8, <1>t DEF PsStub, PsOrderType, PsRowHeld
    <2>2. psPass'.pc = psPass.pc /\ psPass'.b = psPass.b /\ psPass'.r = psPass.r /\ psPass'.kind = psPass.kind
      BY <1>t, <2>1 DEF PsPassType
    <2>3. psOrder.side \in {"buy", "sell"}
      BY <1>t DEF PsOrderType
    <2>4. psRow'.qty = psBroker.qty /\ psRow'.era = 0
      BY <1>0, <1>n, <1>f, <2>1, <2>3 DEF PsBooked, PsCarried, PsOneEra
    <2>5. psCount.up # "up"
      BY <1>0, <2>1 DEF PsOwned
    <2> QED BY <1>0, <2>1, <2>2, <2>4, <2>5 DEF PsOneEra, PsOwned, PsCarried, PsSeen
  <1>9. CASE PsAge
    <2>1. /\ psOrder.pc = "none" /\ psOrder'.pc = "none" /\ psOrder'.db = "none" /\ psPass.pc = "idle"
          /\ psRow'.qty = psRow.qty /\ psRow'.era = psRow.era
          /\ UNCHANGED <<psBroker, psTracker, psExit, psPass, psGate, psCount>>
      BY <1>9, <1>t DEF PsAge, PsNoOrder, PsRowType
    <2> QED BY <1>0, <2>1 DEF PsOneEra, PsOwned, PsCarried, PsSeen
  <1>10. CASE PsFetch
    <2>1. /\ psPass'.pc = "fetched" /\ psPass'.b = psBroker /\ psPass'.r = PsFlat /\ psCount'.up = psCount.up
          /\ UNCHANGED <<psBroker, psRow, psTracker, psOrder, psExit, psGate>>
      BY <1>10, <1>t DEF PsFetch, PsNoPass, PsCountType
    <2> QED BY <1>0, <1>f, <2>1 DEF PsOneEra, PsOwned, PsCarried, PsSeen
  <1>11. CASE PsRead
    <2>1. /\ psPass.pc = "fetched" /\ psPass'.pc = "read" /\ psPass'.b = psPass.b
          /\ psPass'.r = [qty |-> psRow.qty, era |-> psRow.era]
          /\ UNCHANGED <<psBroker, psRow, psTracker, psOrder, psExit, psGate, psCount>>
      BY <1>11, <1>t DEF PsRead, PsPassType
    <2>2. psOrder.db = "none" => psRow.qty = psBroker.qty
      BY <1>0, <1>t DEF PsOwned, PsCarried, PsOrderType
    <2> QED BY <1>0, <2>1, <2>2 DEF PsOneEra, PsOwned, PsCarried, PsSeen
  <1>12. CASE PsJudge
    <2> DEFINE k == PsJudged(psPass.b, psPass.r)
    <2>1. /\ psPass.pc = "read" /\ psPass'.b = psPass.b /\ psPass'.r = psPass.r /\ psPass'.kind = k
          /\ psPass'.pc = IF k = "none" THEN "orders" ELSE "lock"
          /\ UNCHANGED <<psBroker, psRow, psTracker, psOrder, psExit, psGate, psCount>>
      BY <1>12, <1>t DEF PsJudge, PsPassType
    <2>2. psPass.b.qty = psPass.r.qty => psPass.b = psPass.r
      BY <1>0, <1>t DEF PsOneEra, PsPassType, PsPos
    <2>3. k # "none" => k = "insert" /\ psOrder.db # "none"
      <3>1. CASE psOrder.db = "none"
        <4>1. psPass.b = psPass.r
          BY <1>0, <2>1, <2>2, <3>1 DEF PsSeen
        <4> QED BY <4>1 DEF PsJudged
      <3>2. CASE psOrder.db # "none"
        <4>1. k \in {"none", "insert"}
          <5>1. CASE psPass.b.qty = psPass.r.qty
            BY <2>2, <5>1 DEF PsJudged
          <5>2. CASE psPass.b.qty # psPass.r.qty
            BY <3>2, <5>2 DEF PsJudged, PsMoving
          <5> QED BY <5>1, <5>2
        <4> QED BY <3>2, <4>1
      <3> QED BY <3>1, <3>2
    <2> HIDE DEF k
    <2> QED BY <1>0, <2>1, <2>3 DEF PsOneEra, PsOwned, PsCarried, PsSeen
  <1>13. CASE PsLock
    <2>1. /\ psPass.pc = "lock" /\ psPass'.b = psPass.b /\ psPass'.r = psPass.r /\ psPass'.kind = psPass.kind
          /\ psPass'.pc \in {"orders", "locked"} /\ psPass.kind = "insert"
          /\ UNCHANGED <<psBroker, psRow, psTracker, psOrder, psExit, psGate, psCount>>
      BY <1>0, <1>13, <1>t DEF PsLock, PsPassType, PsSeen
    <2> QED BY <1>0, <2>1 DEF PsOneEra, PsOwned, PsCarried, PsSeen
  <1>14. CASE PsCommit
    <2>1. psPass.kind = "insert" /\ PsMoving
      BY <1>0, <1>14 DEF PsCommit, PsSeen, PsMoving
    <2>2. psCount' = [psCount EXCEPT !.faults = @ + 1] => psCount'.faults = psCount.faults + 1
      BY <1>t DEF PsCountType
    <2>3. psCount.faults = 0
      BY <1>0 DEF PsCalm, PsOwnOnly
    <2>4. psCount' = [psCount EXCEPT !.blind = @ \/ (psPass.kind = "insert" /\ PsMoving)]
      BY <1>14, <1>c, <2>1, <2>2, <2>3 DEF PsCommit
    <2> QED BY <1>t, <1>c, <2>1, <2>4 DEF PsCountType
  <1>15. CASE PsOrders
    <2>1. ~(~psPass.own /\ psOrder.pc = "filled" /\ psOrder.db = "open")
      BY <1>15, <1>t, <1>c DEF PsOrders, PsCountType
    <2>2. /\ psPass' = PsNoPass /\ psCount'.up = IF psCount.up = "down" THEN "checked" ELSE psCount.up
          /\ UNCHANGED <<psBroker, psRow, psTracker, psOrder, psExit, psGate>>
      BY <1>15, <1>t, <2>1 DEF PsOrders, PsCountType
    <2> QED BY <1>0, <1>f, <2>2 DEF PsOneEra, PsOwned, PsCarried, PsSeen
  <1>16. CASE PsEnd
    <2> DEFINE kept == psOrder.pc \in {"open", "filled"} /\ psOrder.db = "open"
    <2>1. kept \/ psOrder.pc = "none"
      BY <1>16, <1>t, <1>c DEF PsEnd, PsCountType
    <2>2. /\ psOrder'.pc = psOrder.pc /\ psOrder'.who = "nobody" /\ psOrder'.db = psOrder.db
          /\ psOrder'.side = psOrder.side /\ psOrder'.qty = psOrder.qty
          /\ psCount'.up = "down" /\ psPass' = PsNoPass /\ psTracker' = PsFlat /\ psExit'.pc = "none"
          /\ psGate'.c = 0 /\ psGate'.u = 0 /\ psGate'.split = psGate.split /\ psGate'.odd = psGate.odd
          /\ UNCHANGED <<psBroker, psRow>>
      BY <1>16, <1>t, <2>1 DEF PsEnd, PsCountType, PsOrderType, PsExitType, PsGateType
    <2> QED BY <1>0, <1>f, <2>1, <2>2 DEF PsOneEra, PsOwned, PsCarried, PsSeen
  <1>17. CASE PsRegister
    <2>1. /\ psOrder'.pc = psOrder.pc /\ psOrder'.db = psOrder.db /\ psOrder'.side = psOrder.side
          /\ psOrder'.qty = psOrder.qty /\ (psOrder.db = "open" => psOrder'.who = "stub")
          /\ psCount.up = "checked" /\ psCount'.up = "stub"
          /\ UNCHANGED <<psBroker, psRow, psTracker, psExit, psPass>>
      BY <1>17, <1>t DEF PsRegister, PsCountType, PsOrderType
    <2>2. psGate' = [psGate EXCEPT !.c = 0, !.u = 0]
      BY <1>0, <1>17 DEF PsRegister, PsRestored, PsOneEra
    <2>3. psGate'.c = 0 /\ psGate'.u = 0 /\ psGate'.split = psGate.split /\ psGate'.odd = psGate.odd
      BY <1>t, <2>2 DEF PsGateType
    <2> QED BY <1>0, <2>1, <2>3 DEF PsOneEra, PsOwned, PsCarried, PsSeen
  <1>18. CASE PsSession
    <2>1. /\ psOrder'.pc = psOrder.pc /\ psOrder'.db = psOrder.db /\ psOrder'.side = psOrder.side
          /\ psOrder'.qty = psOrder.qty /\ (psOrder.db = "open" => psOrder'.who = "restored")
          /\ psCount.up = "stub" /\ psCount'.up = "up" /\ psTracker'.qty = psRow.qty /\ psTracker'.era = psRow.era
          /\ UNCHANGED <<psBroker, psRow, psExit, psPass, psGate>>
      BY <1>18, <1>t DEF PsSession, PsCountType, PsOrderType
    <2> QED BY <1>0, <2>1 DEF PsOneEra, PsOwned, PsCarried, PsSeen
  <1> QED BY <1>0, <1>1, <1>2, <1>3, <1>4, <1>5, <1>6, <1>7, <1>8, <1>9, <1>10, <1>11, <1>12,
             <1>13, <1>14, <1>15,
             <1>16, <1>17, <1>18 DEF PsNext

\* What the books say of a quiet moment.
LEMMA PsKeptHolds == PsTyped /\ PsKept => PsFillKept /\ PsNotMisread
  <1> SUFFICES ASSUME PsTyped, PsKept, PsCalm PROVE (PsQuiet => psRow.qty = psBroker.qty /\ psTracker = psBroker) /\ ~PsBlocked
    BY DEF PsCalm, PsFillKept, PsNotMisread
  <1>1. PsOneEra /\ PsCarried
    BY DEF PsKept
  <1>2. psTracker \in PsPos /\ psBroker \in PsPos
    BY DEF PsTyped
  <1>3. PsQuiet => psRow.qty = psBroker.qty /\ psTracker.qty = psBroker.qty /\ psTracker.era = psBroker.era
    BY <1>1 DEF PsQuiet, PsUp, PsOneEra, PsCarried
  <1>4. psTracker.qty = psBroker.qty /\ psTracker.era = psBroker.era => psTracker = psBroker
    BY <1>2 DEF PsPos
  <1>5. ~PsBlocked
    BY <1>1 DEF PsBlocked, PsOneEra
  <1> QED BY <1>3, <1>4, <1>5

\* The strategy's own fills stand whatever passes run over them, and the
\* corporate-action gate agrees with its rows and the position.
THEOREM PositionsHold == PsSpec => PsFillsStand /\ []PsActionInv
  <1> DEFINE PsAll == PsTyped /\ PsActed /\ PsJudgedStill /\ PsKept
  <1>1. PsInit => PsAll
    <2> SUFFICES ASSUME PsInit PROVE PsAll
      OBVIOUS
    <2>1. PsTyped /\ PsActed
      BY PsAssumption, PsTypedInit, PsActedInit
    <2>2. PsJudgedStill
      BY DEF PsInit, PsNoPass, PsJudgedStill
    <2>3. psBroker.qty \in 1..PsMaxQty /\ psBroker.era = 0
      BY DEF PsInit
    <2>4. PsOneEra /\ PsOwned /\ PsCarried /\ PsSeen
      BY <2>3 DEF PsInit, PsNoOrder, PsNoPass, PsFlat, PsOneEra, PsOwned, PsCarried, PsSeen
    <2> QED BY <2>1, <2>2, <2>4 DEF PsKept
  <1>2. PsAll /\ PsNext => PsAll'
    <2> SUFFICES ASSUME PsTyped, PsActed, PsJudgedStill, PsKept, PsNext PROVE PsAll'
      OBVIOUS
    <2>1. PsTyped'
      BY PsAssumption, PsTypedStep
    <2>2. PsActed'
      BY <2>1, PsAssumption, PsActedStep
    <2>3. PsJudgedStill'
      BY PsAssumption, PsJudgedStep
    <2>4. PsKept'
      BY <2>1, PsAssumption, PsKeptStep DEF PsKept
    <2> QED BY <2>1, <2>2, <2>3, <2>4
  <1>3. PsAll /\ UNCHANGED psVars => PsAll'
    BY DEF psVars, PsTyped, PsActed, PsEntered, PsJudgedStill, PsKept, PsCalm, PsOwnOnly,
       PsOneEra, PsOwned,
           PsCarried, PsSeen
  <1>4. PsAll => PsTypeOK /\ PsFillKept /\ PsNotMisread /\ PsActionInv
    BY PsTypes, PsActedHolds, PsKeptHolds
  <1>5. PsAll /\ [PsNext]_psVars =>
            [psPass.pc = "locked" /\ psRow' # psRow
                => <<psRow.qty, psRow.era>> = <<psPass.r.qty, psPass.r.era>>]_psVars
    BY PsAssumption, PsJudgedStep
  <1> HIDE DEF PsAll
  <1> QED BY <1>1, <1>2, <1>3, <1>4, <1>5, PTL DEF PsSpec, PsFillsStand, PsJudgedOverwritten

HIDE DEF PsEra

-----------------------------------------------------------------------------
(* The kill switch.                                                          *)

\* A halt is stored, or a report that no resume has crossed is about to store it.
KsFresh(t) == ksCall[t].clean /\ ksCall[t].to = "halted" /\ ksCall[t].pc \in {"record", "store"}
KsHolding == ksStands \/ \E t \in KsThreads : KsFresh(t)

\* Such a halt is in force and on file; nobody has begun to clear the rows, and
\* a resume that is let through has seen the halt past its cooldown.
KsHeld ==
    /\ ksStands => KsRestored
    /\ ksGate.state = "halted" => ksGate.since # "none"
    /\ \A t \in KsThreads : ksCall[t].pc = "store" => ksCall[t].to = "halted"
    /\ KsHolding =>
          /\ ksGate.state = "halted"
          /\ \A t \in KsThreads :
                /\ ksCall[t].pc \notin {"note", "clear"}
                /\ ksCall[t].pc = "apply" \/ (ksCall[t].pc = "judge" /\ ksCall[t].since # "hot")
                      => ksGate.since = "cool"

\* A change that was made and not yet announced, or not yet logged, is a
\* thread's to tell, and each thread has at most one.
KsUntold(pcs) == {t \in KsThreads : ksCall[t].pc \in pcs}
KsToAnnounce == KsUntold({"record", "store", "announce", "note", "clear"})
KsToLog == KsUntold({"record", "note"})
KsTelling ==
    /\ ksTold.made = ksTold.announced + Cardinality(KsToAnnounce)
    /\ ksTold.made = ksTold.logged + Cardinality(KsToLog)

KsInductive == KsTypeOK /\ KsHeld /\ KsTelling

KsGateType == [state : KsState, since : KsSince]
KsPcs == {"idle", "record", "log", "store", "announce", "judge", "apply", "note", "clear"}
KsCallType == [pc : KsPcs, from : KsState, to : KsState, since : KsSince, clean : BOOLEAN]
KsTellType == [made : Nat, logged : Nat, announced : Nat]
KsCountType == [calls : 0..KsMaxCalls, faults : 0..KsMaxFaults, ends : 0..KsMaxEnds, today : 1..KsDays]

\* The inductive types are those of the type invariant.
LEMMA KsTypes ==
    KsTypeOK <=> /\ ksGate \in KsGateType /\ ksCall \in [KsThreads -> KsCallType]
                 /\ ksRow \in [1..KsDays -> BOOLEAN] /\ ksTold \in KsTellType
                 /\ ksStands \in BOOLEAN /\ ksCount \in KsCountType
  BY DEF KsTypeOK, KsGateType, KsCallType, KsPcs, KsTellType, KsCountType

\* What a step of a thread makes of its call, and of the others'.
LEMMA KsCallMoves ==
    ASSUME KsTypeOK, NEW t \in KsThreads, KsReport(t) \/ KsResume(t) \/ KsCallStep(t)
    PROVE  /\ ksCall' \in [KsThreads -> KsCallType]
           /\ \A u \in KsThreads \ {t} : ksCall'[u].pc = ksCall[u].pc /\ ksCall'[u].to = ksCall[u].to
                                         /\ ksCall'[u].since = ksCall[u].since
           /\ ~KsApply(t) => \A u \in KsThreads \ {t} : ksCall'[u] = ksCall[u]
           /\ KsReport(t) => /\ ksCall'[t].pc \in {"record", "log"} /\ ksCall[t].pc = "idle"
                             /\ ksCall'[t].clean = ~KsResuming /\ ksCall'[t].to = ksGate'.state
           /\ KsResume(t) => ksCall'[t].pc = "judge" /\ ksCall'[t].since = ksGate.since
           /\ KsRecord(t) => ksCall'[t] = KsFree
                             \/ /\ ksCall[t].pc = "record" /\ ksCall'[t].to = ksCall[t].to
                                /\ ksCall'[t].clean = ksCall[t].clean
                                /\ ksCall'[t].pc = IF ksCall[t].to = "halted" THEN "store" ELSE "announce"
           /\ KsRecord(t) => (ksCall'[t] = KsFree <=> ksCall[t].pc = "log")
           /\ KsStore(t) => ksCall'[t].pc = "announce"
           /\ KsAnnounce(t) => ksCall'[t].pc = "idle"
           /\ KsJudge(t) => ksCall'[t].pc = "idle"
                            \/ (ksCall'[t].pc = "apply" /\ ksCall[t].since # "hot")
           /\ KsApply(t) => /\ \A u \in KsThreads : ~ksCall'[u].clean
                            /\ ksCall'[t].pc = "note"
           /\ KsNote(t) => ksCall'[t].pc = "clear"
           /\ KsClear(t) => ksCall'[t].pc = "announce"
  <1>1. ksCall \in [KsThreads -> KsCallType] /\ ksGate \in KsGateType
    BY KsTypes
  <1>2. KsFree \in KsCallType /\ KsFree.pc = "idle"
    BY DEF KsFree, KsCallType, KsPcs, KsState, KsSince
\* One call changes, ...
  <1>3. ASSUME NEW c \in KsCallType, ksCall' = [ksCall EXCEPT ![t] = c]
        PROVE  ksCall' \in [KsThreads -> KsCallType] /\ ksCall'[t] = c /\ \A u \in KsThreads \ {t} : ksCall'[u] = ksCall[u]
    BY <1>1, <1>3
\* ... or goes on to its next step.
  <1>4. ASSUME NEW pc \in KsPcs, KsGoto(t, pc)
        PROVE  /\ ksCall' \in [KsThreads -> KsCallType] /\ ksCall'[t].pc = pc /\ ksCall'[t].to = ksCall[t].to
               /\ ksCall'[t].clean = ksCall[t].clean
               /\ \A u \in KsThreads \ {t} : ksCall'[u] = ksCall[u]
    <2> DEFINE c == [ksCall[t] EXCEPT !.pc = pc]
    <2>1. c \in KsCallType /\ c.pc = pc /\ c.to = ksCall[t].to /\ c.clean = ksCall[t].clean
      BY <1>1 DEF KsCallType
    <2>2. ksCall' = [ksCall EXCEPT ![t] = c]
      BY <1>4 DEF KsGoto
    <2> HIDE DEF c
    <2> QED BY <1>3, <2>1, <2>2
  <1>5. ASSUME KsReport(t)
        PROVE /\ ksCall' \in [KsThreads -> KsCallType] /\ ksCall'[t].pc \in {"record", "log"} /\ ksCall[t].pc = "idle"
              /\ ksCall'[t].clean = ~KsResuming /\ ksCall'[t].to = ksGate'.state
              /\ \A u \in KsThreads \ {t} : ksCall'[u] = ksCall[u]
    <2>1. PICK target \in {"warning", "halted"} :
            LET from == ksGate.state
                to == IF KsEscalates(from, target) THEN target ELSE from
                moved == KsEscalates(from, target)
            IN /\ ksGate' = [state |-> to, since |-> IF moved /\ to = "halted" THEN "hot" ELSE ksGate.since]
               /\ ksCall' = [ksCall EXCEPT ![t] = [pc |-> IF moved THEN "record" ELSE "log",
                                 from |-> from, to |-> to, since |-> "none", clean |-> ~KsResuming]]
      BY <1>5 DEF KsReport
    <2> DEFINE moved == KsEscalates(ksGate.state, target)
               to == IF moved THEN target ELSE ksGate.state
               pc == IF moved THEN "record" ELSE "log"
               clean == ~KsResuming
               c == [pc |-> pc, from |-> ksGate.state, to |-> to, since |-> "none", clean |-> clean]
    <2>2. to \in KsState /\ ksGate.state \in KsState /\ pc \in {"record", "log"} /\ clean \in BOOLEAN
      BY <1>1 DEF KsState, KsGateType
    <2>3. ksCall' = [ksCall EXCEPT ![t] = c] /\ ksGate'.state = to
      BY <2>1
    <2> HIDE DEF moved, to, pc, clean
    <2>4. c \in KsCallType /\ c.pc = pc /\ c.to = to /\ c.clean = clean
      BY <2>2 DEF KsCallType, KsPcs, KsSince
    <2> HIDE DEF c
    <2>5. ksCall[t].pc = "idle"
      BY <1>5 DEF KsReport
    <2> QED BY <1>3, <2>2, <2>3, <2>4, <2>5 DEF clean
  <1>6. ASSUME KsResume(t)
        PROVE /\ ksCall' \in [KsThreads -> KsCallType] /\ ksCall'[t].pc = "judge" /\ ksCall'[t].since = ksGate.since
              /\ \A u \in KsThreads \ {t} : ksCall'[u] = ksCall[u]
    <2> DEFINE c == [pc |-> "judge", from |-> ksGate.state, to |-> "running", since |-> ksGate.since, clean |-> TRUE]
    <2>1. c \in KsCallType /\ c.pc = "judge" /\ c.since = ksGate.since
      BY <1>1 DEF KsCallType, KsPcs, KsState, KsGateType
    <2>2. ksCall' = [ksCall EXCEPT ![t] = c]
      BY <1>6 DEF KsResume
    <2> HIDE DEF c
    <2> QED BY <1>3, <2>1, <2>2
  <1>7. ASSUME KsRecord(t)
        PROVE /\ ksCall' \in [KsThreads -> KsCallType]
              /\ \/ ksCall'[t] = KsFree /\ ksCall[t].pc = "log"
                 \/ /\ ksCall[t].pc = "record" /\ ksCall'[t].to = ksCall[t].to /\ ksCall'[t].clean = ksCall[t].clean
                    /\ ksCall'[t].pc = IF ksCall[t].to = "halted" THEN "store" ELSE "announce"
              /\ \A u \in KsThreads \ {t} : ksCall'[u] = ksCall[u]
    <2>1. ksCall[t].pc \in {"record", "log"}
      BY <1>7 DEF KsRecord
    <2>2. CASE ksCall[t].pc = "log"
      <3>1. ksCall' = [ksCall EXCEPT ![t] = KsFree]
        BY <1>7, <2>2 DEF KsRecord
      <3> QED BY <1>2, <1>3, <2>2, <3>1
    <2>3. CASE ksCall[t].pc = "record"
      <3> DEFINE pc == IF ksCall[t].to = "halted" THEN "store" ELSE "announce"
      <3>1. KsGoto(t, pc) /\ pc \in KsPcs
        BY <1>1, <1>7, <2>3 DEF KsRecord, KsGoto, KsPcs
      <3> QED BY <1>4, <2>3, <3>1
    <2> QED BY <2>1, <2>2, <2>3
  <1>8. ASSUME KsStore(t) \/ KsClear(t) \/ KsNote(t)
        PROVE /\ ksCall' \in [KsThreads -> KsCallType]
              /\ ksCall'[t].pc = IF KsNote(t) THEN "clear" ELSE "announce"
              /\ \A u \in KsThreads \ {t} : ksCall'[u] = ksCall[u]
    <2>1. CASE KsNote(t)
      BY <1>4, <2>1 DEF KsNote, KsPcs
    <2>2. CASE KsStore(t) /\ ~KsNote(t)
      BY <1>4, <2>2 DEF KsStore, KsPcs
    <2>3. CASE KsClear(t) /\ ~KsNote(t)
      BY <1>4, <2>3 DEF KsClear, KsPcs
    <2> QED BY <1>8, <2>1, <2>2, <2>3
  <1>9. ASSUME KsAnnounce(t) \/ KsJudge(t)
        PROVE /\ ksCall' \in [KsThreads -> KsCallType]
              /\ \/ ksCall'[t] = KsFree
                 \/ KsJudge(t) /\ ksCall'[t].pc = "apply" /\ ksCall[t].since # "hot"
              /\ \A u \in KsThreads \ {t} : ksCall'[u] = ksCall[u]
    <2>1. CASE ksCall' = [ksCall EXCEPT ![t] = KsFree]
      BY <1>2, <1>3, <2>1
    <2>2. CASE KsJudge(t) /\ KsCooled(ksCall[t].since) /\ KsGoto(t, "apply")
      BY <1>4, <2>2 DEF KsCooled, KsPcs
    <2> QED BY <1>9, <2>1, <2>2 DEF KsAnnounce, KsJudge
  <1>10. ASSUME KsApply(t)
         PROVE /\ ksCall' \in [KsThreads -> KsCallType] /\ \A u \in KsThreads : ~ksCall'[u].clean
               /\ ksCall'[t].pc = "note"
               /\ \A u \in KsThreads \ {t} : ksCall'[u].pc = ksCall[u].pc /\ ksCall'[u].to = ksCall[u].to
                                             /\ ksCall'[u].since = ksCall[u].since
    <2>1. ksCall' = [u \in KsThreads |-> [ksCall[u] EXCEPT !.clean = FALSE, !.pc = IF u = t THEN "note" ELSE ksCall[u].pc]]
      BY <1>10 DEF KsApply
    <2>2. ASSUME NEW u \in KsThreads
          PROVE /\ ksCall'[u] \in KsCallType /\ ~ksCall'[u].clean /\ ksCall'[u].to = ksCall[u].to
                /\ ksCall'[u].since = ksCall[u].since
                /\ ksCall'[u].pc = IF u = t THEN "note" ELSE ksCall[u].pc
      <3>1. ksCall[u] \in KsCallType /\ (IF u = t THEN "note" ELSE ksCall[u].pc) \in KsPcs
        BY <1>1 DEF KsCallType, KsPcs
      <3>2. ksCall'[u] = [ksCall[u] EXCEPT !.clean = FALSE, !.pc = IF u = t THEN "note" ELSE ksCall[u].pc]
        BY <2>1
      <3> QED BY <3>1, <3>2 DEF KsCallType
    <2>3. ksCall' = [u \in KsThreads |-> ksCall'[u]]
      BY <2>1
    <2> QED BY <2>2, <2>3
  <1>11. /\ KsReport(t) \/ KsResume(t) => ksCall[t].pc = "idle"
         /\ KsRecord(t) => ksCall[t].pc \in {"record", "log"}
         /\ KsStore(t) => ksCall[t].pc = "store"
         /\ KsAnnounce(t) => ksCall[t].pc = "announce"
         /\ KsJudge(t) => ksCall[t].pc = "judge"
         /\ KsApply(t) => ksCall[t].pc = "apply"
         /\ KsNote(t) => ksCall[t].pc = "note"
         /\ KsClear(t) => ksCall[t].pc = "clear"
    BY DEF KsReport, KsResume, KsRecord, KsStore, KsAnnounce, KsJudge, KsApply, KsNote, KsClear
  <1>12. CASE KsReport(t)
    BY <1>5, <1>6, <1>11, <1>12
  <1>13. CASE KsResume(t)
    BY <1>5, <1>6, <1>11, <1>13
  <1>14. CASE KsRecord(t)
    BY <1>2, <1>7, <1>11, <1>14
  <1>15. CASE KsStore(t) \/ KsClear(t) \/ KsNote(t)
    BY <1>8, <1>11, <1>15
  <1>16. CASE KsAnnounce(t) \/ KsJudge(t)
    BY <1>2, <1>9, <1>11, <1>16
  <1>17. CASE KsApply(t)
    BY <1>10, <1>11, <1>17
  <1> QED BY <1>12, <1>13, <1>14, <1>15, <1>16, <1>17 DEF KsCallStep

\* Every step keeps the types.
LEMMA KsTypeStep == KsTypeOK /\ [KsNext]_ksVars => KsTypeOK'
  <1> SUFFICES ASSUME KsTypeOK, [KsNext]_ksVars PROVE KsTypeOK'
    OBVIOUS
  <1>0. /\ ksGate \in KsGateType /\ ksCall \in [KsThreads -> KsCallType]
        /\ ksRow \in [1..KsDays -> BOOLEAN] /\ ksTold \in KsTellType
        /\ ksStands \in BOOLEAN /\ ksCount \in KsCountType
    BY KsTypes
  <1> SUFFICES /\ ksGate' \in KsGateType /\ ksCall' \in [KsThreads -> KsCallType]
               /\ ksRow' \in [1..KsDays -> BOOLEAN] /\ ksTold' \in KsTellType
               /\ ksStands' \in BOOLEAN /\ ksCount' \in KsCountType
    BY KsTypes DEF KsTypeOK, KsGateType, KsCallType, KsPcs, KsTellType, KsCountType
  <1>a. KsFault => ksCount' \in KsCountType
    BY <1>0, KsAssumption DEF KsFault, KsCountType
  <1>b. [state |-> "running", since |-> "none"] \in KsGateType /\ [state |-> "halted", since |-> "hot"] \in KsGateType
    BY DEF KsGateType, KsState, KsSince
  <1>1. ASSUME NEW t \in KsThreads, KsReport(t)
        PROVE ksGate' \in KsGateType /\ ksTold' \in KsTellType /\ ksCount' \in KsCountType
              /\ UNCHANGED <<ksRow, ksStands>>
    <2>1. ksGate' \in KsGateType
      BY <1>0, <1>1 DEF KsReport, KsGateType, KsState, KsSince
    <2>2. ksTold' \in KsTellType
      BY <1>0, <1>1 DEF KsReport, KsTellType
    <2>3. ksCount' \in KsCountType
      BY <1>0, <1>1, KsAssumption DEF KsReport, KsCountType
    <2> QED BY <1>1, <2>1, <2>2, <2>3 DEF KsReport
  <1>2. ASSUME NEW t \in KsThreads, KsResume(t)
        PROVE ksCount' \in KsCountType /\ UNCHANGED <<ksGate, ksRow, ksTold, ksStands>>
    BY <1>0, <1>2, KsAssumption DEF KsResume, KsCountType
  <1>3. ASSUME NEW t \in KsThreads, KsCallStep(t)
        PROVE ksGate' \in KsGateType /\ ksTold' \in KsTellType /\ ksCount' \in KsCountType
              /\ ksRow' \in [1..KsDays -> BOOLEAN] /\ ksStands' \in BOOLEAN
    <2>1. CASE KsRecord(t) \/ KsAnnounce(t) \/ KsNote(t)
      <3>1. ksTold' \in KsTellType
        BY <1>0, <2>1 DEF KsRecord, KsAnnounce, KsNote, KsTellType
      <3> QED BY <1>0, <2>1, <3>1 DEF KsRecord, KsAnnounce, KsNote
    <2>2. CASE KsStore(t)
      <3>1. (ksStands \/ ksCall[t].clean) \in BOOLEAN
        OBVIOUS
      <3> QED BY <1>0, <1>a, <2>2, <3>1 DEF KsStore
    <2>3. CASE KsJudge(t)
      BY <1>0, <2>3 DEF KsJudge
    <2>4. CASE KsApply(t)
      <3>1. ksTold' \in KsTellType
        <4>1. ksTold' = [ksTold EXCEPT !.made = ksTold.made + 1]
          BY <2>4 DEF KsApply
        <4>2. ksTold.made + 1 \in Nat
          BY <1>0 DEF KsTellType
        <4> QED BY <1>0, <4>1, <4>2 DEF KsTellType
      <3> QED BY <1>0, <1>b, <2>4, <3>1 DEF KsApply
    <2>5. CASE KsClear(t)
      BY <1>0, <1>a, <2>5 DEF KsClear
    <2> QED BY <1>3, <2>1, <2>2, <2>3, <2>4, <2>5 DEF KsCallStep
  <1>4. CASE KsCool
    <2>1. ksGate' \in KsGateType
      BY <1>0, <1>4 DEF KsCool, KsGateType, KsSince
    <2> QED BY <1>0, <1>4, <2>1 DEF KsCool
  <1>5. CASE KsRestart
    <2>1. ksGate' \in KsGateType
      BY <1>b, <1>5 DEF KsRestart
    <2>2. ksCall' \in [KsThreads -> KsCallType] /\ ksTold' \in KsTellType
      BY <1>5 DEF KsRestart, KsFree, KsCallType, KsPcs, KsState, KsSince, KsTellType
    <2>3. ksCount' \in KsCountType
      <3>1. CASE ksCount' = [ksCount EXCEPT !.ends = ksCount.ends + 1] /\ ksCount.ends < KsMaxEnds
        BY <1>0, <3>1, KsAssumption DEF KsCountType
      <3>2. CASE /\ ksCount' = [ksCount EXCEPT !.ends = ksCount.ends + 1, !.faults = ksCount.faults + 1]
                 /\ ksCount.ends < KsMaxEnds /\ ksCount.faults < KsMaxFaults
        <4>1. ksCount.ends + 1 \in 0..KsMaxEnds /\ ksCount.faults + 1 \in 0..KsMaxFaults
          BY <1>0, <3>2, KsAssumption DEF KsCountType
        <4> QED BY <1>0, <3>2, <4>1 DEF KsCountType
      <3> QED BY <1>5, <3>1, <3>2 DEF KsRestart
    <2> QED BY <1>0, <1>5, <2>1, <2>2, <2>3 DEF KsRestart
  <1>6. CASE KsNewDay
    <2>1. ksCount' \in KsCountType
      <3>1. /\ ksCount' = [ksCount EXCEPT !.ends = ksCount.ends + 1, !.today = ksCount.today + 1]
            /\ ksCount.ends < KsMaxEnds /\ ksCount.today < KsDays
        BY <1>6 DEF KsNewDay
      <3>2. ksCount.ends + 1 \in 0..KsMaxEnds /\ ksCount.today + 1 \in 1..KsDays
        BY <1>0, <3>1, KsAssumption DEF KsCountType
      <3> QED BY <1>0, <3>1, <3>2 DEF KsCountType
    <2> QED BY <1>0, <1>6, <2>1 DEF KsNewDay
  <1>7. CASE UNCHANGED ksVars
    BY <1>0, <1>7 DEF ksVars
  <1>8. ASSUME NEW t \in KsThreads, KsReport(t) \/ KsResume(t) \/ KsCallStep(t)
        PROVE ksCall' \in [KsThreads -> KsCallType]
    BY <1>8, KsCallMoves
  <1> QED BY <1>0, <1>1, <1>2, <1>3, <1>4, <1>5, <1>6, <1>7, <1>8 DEF KsNext

\* Every step keeps what a standing halt rests on.
LEMMA KsHeldStep == KsTypeOK /\ KsHeld /\ [KsNext]_ksVars => KsHeld'
  <1> SUFFICES ASSUME KsTypeOK, KsHeld, [KsNext]_ksVars PROVE KsHeld'
    OBVIOUS
  <1>0. /\ ksGate \in KsGateType /\ ksCall \in [KsThreads -> KsCallType]
        /\ ksRow \in [1..KsDays -> BOOLEAN] /\ ksCount \in KsCountType
    BY KsTypes
  <1>1. ASSUME NEW t \in KsThreads, KsReport(t) PROVE KsHeld'
    <2>1. /\ ksCall'[t].pc \in {"record", "log"} /\ ksCall[t].pc = "idle"
          /\ ksCall'[t].clean = ~KsResuming /\ ksCall'[t].to = ksGate'.state
          /\ \A u \in KsThreads \ {t} : ksCall'[u] = ksCall[u]
      <3>1. ~KsApply(t)
        BY <1>1 DEF KsReport, KsApply
      <3> QED BY <1>1, <3>1, KsCallMoves
    <2>2. UNCHANGED <<ksRow, ksStands>>
      BY <1>1 DEF KsReport
    <2>3. /\ ksGate'.state = "halted" => ksGate'.since # "none"
          /\ ksGate.state = "halted" => ksGate' = ksGate
      BY <1>0, <1>1 DEF KsReport, KsEscalates, KsRank, KsGateType, KsState, KsHeld
    <2>4. CASE KsHolding
      <3>1. ksGate.state = "halted" /\ ksGate' = ksGate
        BY <2>3, <2>4 DEF KsHeld
      <3> QED BY <2>1, <2>2, <2>3, <2>4, <3>1 DEF KsHeld, KsRestored
    <2>5. CASE ~KsHolding
      <3>1. KsHolding' => ksGate'.state = "halted" /\ ~KsResuming
        BY <2>1, <2>2, <2>5 DEF KsHolding, KsFresh
      <3> QED BY <2>1, <2>2, <2>3, <2>5, <3>1 DEF KsHeld, KsHolding, KsResuming, KsRestored
    <2> QED BY <2>4, <2>5
  <1>2. ASSUME NEW t \in KsThreads, KsResume(t) PROVE KsHeld'
    <2>1. /\ ksCall'[t].pc = "judge" /\ ksCall'[t].since = ksGate.since
          /\ \A u \in KsThreads \ {t} : ksCall'[u] = ksCall[u]
      <3>1. ~KsApply(t)
        BY <1>2 DEF KsResume, KsApply
      <3> QED BY <1>2, <3>1, KsCallMoves
    <2>2. UNCHANGED <<ksGate, ksRow, ksStands>>
      BY <1>2 DEF KsResume
    <2>3. ksGate.since \in {"none", "hot", "cool"}
      BY <1>0 DEF KsGateType, KsSince
    <2> QED BY <2>1, <2>2, <2>3 DEF KsHeld, KsHolding, KsFresh, KsRestored
  <1>3. ASSUME NEW t \in KsThreads, KsCallStep(t) PROVE KsHeld'
    <2>1. CASE KsRecord(t)
      <3>0. ~KsApply(t) /\ UNCHANGED <<ksGate, ksRow, ksStands>>
        BY <2>1 DEF KsRecord, KsApply
      <3>1. \A u \in KsThreads \ {t} : ksCall'[u] = ksCall[u]
        BY <1>3, <3>0, KsCallMoves
      <3>2. \/ ksCall'[t].pc \in {"idle", "announce"}
            \/ /\ ksCall[t].pc = "record" /\ ksCall'[t].to = ksCall[t].to /\ ksCall'[t].clean = ksCall[t].clean
               /\ ksCall'[t].pc = "store" /\ ksCall[t].to = "halted"
        BY <1>3, <2>1, KsCallMoves DEF KsFree
      <3> QED BY <3>0, <3>1, <3>2 DEF KsHeld, KsHolding, KsFresh, KsRestored
    <2>2. CASE KsStore(t)
      <3>0. ~KsApply(t) /\ UNCHANGED ksGate /\ ksCall[t].pc = "store"
        BY <2>2 DEF KsStore, KsApply
      <3>1. ksCall'[t].pc = "announce" /\ \A u \in KsThreads \ {t} : ksCall'[u] = ksCall[u]
        BY <1>3, <2>2, <3>0, KsCallMoves
      <3>2. ksCall[t].to = "halted"
        BY <3>0 DEF KsHeld
      <3>3. ksStands' => ksStands \/ KsFresh(t)
        BY <2>2, <3>0, <3>2 DEF KsStore, KsFresh
      <3>4. KsHolding' => KsHolding
        BY <3>1, <3>3 DEF KsHolding, KsFresh
      <3>5. ksStands' => KsRestored'
        <4>1. CASE ksRow' = [ksRow EXCEPT ![ksCount.today] = TRUE]
          <5>1. ksCount.today \in 1..KsDays
            BY <1>0 DEF KsCountType
          <5>2. ksRow'[ksCount.today] = TRUE
            BY <1>0, <4>1, <5>1
          <5> QED BY <5>1, <5>2 DEF KsRestored
        <4>2. CASE UNCHANGED <<ksRow, ksStands>>
          BY <4>2 DEF KsHeld, KsRestored
        <4> QED BY <2>2, <4>1, <4>2 DEF KsStore
      <3> QED BY <3>0, <3>1, <3>4, <3>5 DEF KsHeld
    <2>3. CASE KsAnnounce(t) \/ KsNote(t)
      <3>0. ~KsApply(t) /\ UNCHANGED <<ksGate, ksRow, ksStands>>
        BY <2>3 DEF KsAnnounce, KsNote, KsApply
      <3>1. \A u \in KsThreads \ {t} : ksCall'[u] = ksCall[u]
        BY <1>3, <3>0, KsCallMoves
      <3>2. ksCall'[t].pc = "idle" \/ (ksCall'[t].pc = "clear" /\ ksCall[t].pc = "note")
        BY <1>3, <2>3, KsCallMoves DEF KsNote
      <3> QED BY <3>0, <3>1, <3>2 DEF KsHeld, KsHolding, KsFresh, KsRestored
    <2>4. CASE KsApply(t)
      <3>1. \A u \in KsThreads : ~ksCall'[u].clean
        BY <1>3, <2>4, KsCallMoves
      <3>2. ~ksStands' /\ ksGate'.state = "running"
        BY <2>4 DEF KsApply
      <3>3. /\ ksCall'[t].pc = "note"
            /\ \A u \in KsThreads \ {t} : ksCall'[u].pc = ksCall[u].pc /\ ksCall'[u].to = ksCall[u].to
        BY <1>3, <2>4, KsCallMoves
      <3>4. ~KsHolding'
        BY <3>1, <3>2 DEF KsHolding, KsFresh
      <3> QED BY <3>2, <3>3, <3>4 DEF KsHeld
    <2>5. CASE KsJudge(t)
      <3>0. ~KsApply(t) /\ UNCHANGED <<ksGate, ksRow, ksStands>> /\ ksCall[t].pc = "judge"
        BY <2>5 DEF KsJudge, KsApply
      <3>1. \A u \in KsThreads \ {t} : ksCall'[u] = ksCall[u]
        BY <1>3, <3>0, KsCallMoves
      <3>2. ksCall'[t].pc = "idle" \/ (ksCall'[t].pc = "apply" /\ ksCall[t].since # "hot")
        BY <1>3, <2>5, KsCallMoves
      <3> QED BY <3>0, <3>1, <3>2 DEF KsHeld, KsHolding, KsFresh, KsRestored
    <2>6. CASE KsClear(t)
      <3>0. ~KsApply(t) /\ UNCHANGED <<ksGate, ksStands>> /\ ksCall[t].pc = "clear"
        BY <2>6 DEF KsClear, KsApply
      <3>1. ksCall'[t].pc = "announce" /\ \A u \in KsThreads \ {t} : ksCall'[u] = ksCall[u]
        BY <1>3, <2>6, <3>0, KsCallMoves
      <3>2. ~KsHolding
        BY <3>0 DEF KsHeld
      <3> QED BY <3>0, <3>1, <3>2 DEF KsHeld, KsHolding, KsFresh
    <2> QED BY <1>3, <2>1, <2>2, <2>3, <2>4, <2>5, <2>6 DEF KsCallStep
  <1>4. CASE KsCool
    <2>1. ksGate.since = "hot" /\ ksGate'.since = "cool" /\ ksGate'.state = ksGate.state
          /\ UNCHANGED <<ksCall, ksRow, ksStands>>
      BY <1>0, <1>4 DEF KsCool, KsGateType
    <2> QED BY <2>1 DEF KsHeld, KsHolding, KsFresh, KsRestored
  <1>5. CASE KsRestart
    <2>1. \A u \in KsThreads : ksCall'[u].pc = "idle"
      BY <1>5 DEF KsRestart, KsFree
    <2>2. ksRow' = ksRow /\ ksGate'.since = (IF ksGate'.state = "halted" THEN "hot" ELSE "none")
          /\ (ksStands' => ksStands /\ (KsRestored => ksGate'.state = "halted"))
      BY <1>5 DEF KsRestart
    <2> QED BY <2>1, <2>2 DEF KsHeld, KsHolding, KsFresh, KsRestored
  <1>6. CASE KsNewDay \/ UNCHANGED ksVars
    BY <1>6 DEF KsNewDay, ksVars, KsHeld, KsHolding, KsFresh, KsRestored
  <1> QED BY <1>1, <1>2, <1>3, <1>4, <1>5, <1>6 DEF KsNext

\* The threads at some steps, when one thread alone goes on.
LEMMA KsOneMoves ==
    ASSUME KsTypeOK, NEW t \in KsThreads, NEW pcs, KsTypeOK',
           \A u \in KsThreads \ {t} : ksCall'[u].pc = ksCall[u].pc
    PROVE  /\ IsFiniteSet(KsUntold(pcs)) /\ Cardinality(KsUntold(pcs)) \in Nat
           /\ (ksCall[t].pc \in pcs <=> ksCall'[t].pc \in pcs)
                 => Cardinality(KsUntold(pcs)') = Cardinality(KsUntold(pcs))
           /\ ksCall[t].pc \in pcs /\ ksCall'[t].pc \notin pcs
                 => Cardinality(KsUntold(pcs)) = Cardinality(KsUntold(pcs)') + 1
           /\ ksCall[t].pc \notin pcs /\ ksCall'[t].pc \in pcs
                 => Cardinality(KsUntold(pcs)') = Cardinality(KsUntold(pcs)) + 1
           /\ Cardinality(KsUntold(pcs)') \in Nat
  <1> DEFINE S == KsUntold(pcs)  T == KsUntold(pcs)'
  <1>1. S \subseteq KsThreads /\ T \subseteq KsThreads
    BY DEF KsUntold
  <1>2. IsFiniteSet(S) /\ IsFiniteSet(T) /\ Cardinality(S) \in Nat /\ Cardinality(T) \in Nat
    BY <1>1, FS_Subset, FS_CardinalityType, KsAssumption
  <1>3. (ksCall[t].pc \in pcs <=> ksCall'[t].pc \in pcs) => S = T
    BY DEF KsUntold
  <1>4. ASSUME ksCall[t].pc \in pcs, ksCall'[t].pc \notin pcs PROVE t \in S /\ T = S \ {t}
    BY <1>4 DEF KsUntold
  <1>5. ASSUME ksCall[t].pc \notin pcs, ksCall'[t].pc \in pcs PROVE t \in T /\ S = T \ {t}
    BY <1>5 DEF KsUntold
  <1> HIDE DEF S, T
  <1>6. ASSUME ksCall[t].pc \in pcs, ksCall'[t].pc \notin pcs PROVE Cardinality(S) = Cardinality(T) + 1
    <2>1. t \in S /\ T = S \ {t} BY <1>4, <1>6
    <2>2. Cardinality(T) = Cardinality(S) - 1 BY <2>1, <1>2, FS_RemoveElement
    <2> QED BY <2>2, <1>2
  <1>7. ASSUME ksCall[t].pc \notin pcs, ksCall'[t].pc \in pcs PROVE Cardinality(T) = Cardinality(S) + 1
    <2>1. t \in T /\ S = T \ {t} BY <1>5, <1>7
    <2>2. Cardinality(S) = Cardinality(T) - 1 BY <2>1, <1>2, FS_RemoveElement
    <2> QED BY <2>2, <1>2
  <1>8. (ksCall[t].pc \in pcs <=> ksCall'[t].pc \in pcs) => Cardinality(T) = Cardinality(S)
    BY <1>3
  <1> QED BY <1>2, <1>6, <1>7, <1>8 DEF S, T

\* Every step accounts for the changes that are still to be told.
LEMMA KsTellingStep == KsTypeOK /\ KsTelling /\ [KsNext]_ksVars => KsTelling'
  <1> SUFFICES ASSUME KsTypeOK, KsTelling, [KsNext]_ksVars PROVE KsTelling'
    OBVIOUS
  <1>0. KsTypeOK'
    BY KsTypeStep
  <1> DEFINE A == {"record", "store", "announce", "note", "clear"}  L == {"record", "note"}
  <1>1. ASSUME NEW t \in KsThreads, KsReport(t) \/ KsResume(t) \/ KsCallStep(t)
        PROVE  KsTelling'
    <2>1. \A u \in KsThreads \ {t} : ksCall'[u].pc = ksCall[u].pc
      BY <1>1, KsCallMoves
    <2>2. /\ ksTold'.made - ksTold.made = IF ksCall[t].pc \notin A /\ ksCall'[t].pc \in A THEN 1 ELSE 0
          /\ ksTold'.announced - ksTold.announced = IF ksCall[t].pc \in A /\ ksCall'[t].pc \notin A THEN 1 ELSE 0
          /\ ksTold'.logged - ksTold.logged = IF ksCall[t].pc \in L /\ ksCall'[t].pc \notin L THEN 1 ELSE 0
          /\ ksCall[t].pc \notin L /\ ksCall'[t].pc \in L <=> ksCall[t].pc \notin A /\ ksCall'[t].pc \in A
      <3>0. ksTold \in KsTellType /\ ksCall \in [KsThreads -> KsCallType] /\ ksGate \in KsGateType
        BY KsTypes
      <3>1. CASE KsReport(t)
        <4>1. PICK target \in {"warning", "halted"} :
                LET from == ksGate.state
                    to == IF KsEscalates(from, target) THEN target ELSE from
                    moved == KsEscalates(from, target)
                IN /\ ksCall' = [ksCall EXCEPT ![t] = [pc |-> IF moved THEN "record" ELSE "log",
                                     from |-> from, to |-> to, since |-> "none", clean |-> ~KsResuming]]
                   /\ ksTold' = [ksTold EXCEPT !.made = @ + IF to # from THEN 1 ELSE 0]
          BY <3>1 DEF KsReport
        <4> DEFINE moved == KsEscalates(ksGate.state, target)
        <4>2. ksCall'[t].pc = IF moved THEN "record" ELSE "log"
          BY <3>0, <4>1
        <4>3. moved => target # ksGate.state
          BY DEF KsEscalates, KsRank
        <4>4. ksTold'.made = ksTold.made + (IF moved THEN 1 ELSE 0) /\ ksTold'.announced = ksTold.announced
              /\ ksTold'.logged = ksTold.logged
          BY <3>0, <4>1, <4>3 DEF KsTellType
        <4>5. ksCall[t].pc = "idle"
          BY <3>1 DEF KsReport
        <4> HIDE DEF moved
        <4> QED BY <3>0, <4>2, <4>4, <4>5 DEF KsTellType
      <3>2. CASE KsResume(t)
        <4>1. ksCall'[t].pc = "judge" /\ ksCall[t].pc = "idle" /\ ksTold' = ksTold
          BY <1>1, <3>2, KsCallMoves DEF KsResume
        <4> QED BY <3>0, <4>1 DEF KsTellType
      <3>3. CASE KsRecord(t)
        <4>1. \/ ksCall'[t].pc = "idle" /\ ksCall[t].pc = "log"
              \/ ksCall[t].pc = "record" /\ ksCall'[t].pc \in {"store", "announce"}
          <5>1. ksCall[t].pc \in {"record", "log"}
            BY <3>3 DEF KsRecord
          <5>2. /\ \/ ksCall'[t] = KsFree
                   \/ /\ ksCall[t].pc = "record"
                      /\ ksCall'[t].pc = IF ksCall[t].to = "halted" THEN "store" ELSE "announce"
                /\ ksCall'[t] = KsFree <=> ksCall[t].pc = "log"
            BY <1>1, <3>3, KsCallMoves
          <5>3. KsFree.pc = "idle"
            BY DEF KsFree
          <5> QED BY <5>1, <5>2, <5>3
        <4>2. /\ ksTold'.logged = ksTold.logged + (IF ksCall[t].pc = "record" THEN 1 ELSE 0)
              /\ ksTold'.made = ksTold.made /\ ksTold'.announced = ksTold.announced
          BY <3>0, <3>3 DEF KsRecord, KsTellType
        <4> QED BY <3>0, <4>1, <4>2 DEF KsTellType
      <3>4. CASE KsStore(t) \/ KsClear(t) \/ KsNote(t)
        <4>1. /\ ksCall[t].pc = (IF KsStore(t) THEN "store" ELSE IF KsNote(t) THEN "note" ELSE "clear")
              /\ ksCall'[t].pc = (IF KsNote(t) THEN "clear" ELSE "announce")
          BY <1>1, <3>4, KsCallMoves DEF KsStore, KsClear, KsNote
        <4>2. /\ ksTold'.logged = ksTold.logged + (IF KsNote(t) THEN 1 ELSE 0)
              /\ ksTold'.made = ksTold.made /\ ksTold'.announced = ksTold.announced
          BY <3>0, <3>4, <4>1 DEF KsStore, KsClear, KsNote, KsTellType
        <4> QED BY <3>0, <3>4, <4>1, <4>2 DEF KsTellType, KsStore, KsNote
      <3>5. CASE KsAnnounce(t)
        <4>1. ksCall[t].pc = "announce" /\ ksCall'[t].pc = "idle"
          BY <1>1, <3>5, KsCallMoves DEF KsAnnounce
        <4>2. ksTold'.announced = ksTold.announced + 1 /\ ksTold'.made = ksTold.made /\ ksTold'.logged = ksTold.logged
          BY <3>0, <3>5 DEF KsAnnounce, KsTellType
        <4> QED BY <3>0, <4>1, <4>2 DEF KsTellType
      <3>6. CASE KsApply(t)
        <4>1. ksCall[t].pc = "apply" /\ ksCall'[t].pc = "note"
          BY <1>1, <3>6, KsCallMoves DEF KsApply
        <4>2. ksTold'.made = ksTold.made + 1 /\ ksTold'.announced = ksTold.announced /\ ksTold'.logged = ksTold.logged
          BY <3>0, <3>6 DEF KsApply, KsTellType
        <4> QED BY <3>0, <4>1, <4>2 DEF KsTellType
      <3>7. CASE KsJudge(t)
        <4>1. ksCall[t].pc = "judge" /\ ksCall'[t].pc \in {"idle", "apply"} /\ ksTold' = ksTold
          BY <1>1, <3>7, KsCallMoves DEF KsJudge
        <4> QED BY <3>0, <4>1 DEF KsTellType
      <3> QED BY <1>1, <3>1, <3>2, <3>3, <3>4, <3>5, <3>6, <3>7 DEF KsCallStep
    <2>3. /\ ksTold \in [made : Nat, logged : Nat, announced : Nat]
          /\ ksTold' \in [made : Nat, logged : Nat, announced : Nat]
      BY <1>0 DEF KsTypeOK
    <2>a. /\ ksTold.made = ksTold.announced + Cardinality(KsUntold(A))
          /\ ksTold.made = ksTold.logged + Cardinality(KsUntold(L))
      BY DEF KsTelling, KsToAnnounce, KsToLog
    <2>b. SUFFICES /\ ksTold'.made = ksTold'.announced + Cardinality(KsUntold(A)')
                   /\ ksTold'.made = ksTold'.logged + Cardinality(KsUntold(L)')
      BY DEF KsTelling, KsToAnnounce, KsToLog
    <2> HIDE DEF A, L
    <2>4. ksTold'.made = ksTold'.announced + Cardinality(KsUntold(A)')
      <3> HIDE <2>a
      <3> DEFINE c == Cardinality(KsUntold(A))  d == Cardinality(KsUntold(A)')
      <3>1. /\ c \in Nat /\ d \in Nat
            /\ (ksCall[t].pc \in A <=> ksCall'[t].pc \in A) => d = c
            /\ ksCall[t].pc \in A /\ ksCall'[t].pc \notin A => c = d + 1
            /\ ksCall[t].pc \notin A /\ ksCall'[t].pc \in A => d = c + 1
        BY KsOneMoves, <2>1, <1>0
      <3>2. ksTold.made = ksTold.announced + c
        BY <2>a
      <3> HIDE DEF c, d
      <3>3. ksTold'.made = ksTold'.announced + d
        BY <3>1, <3>2, <2>2, <2>3
      <3> QED BY <3>3 DEF d
    <2>5. ksTold'.made = ksTold'.logged + Cardinality(KsUntold(L)')
      <3> DEFINE c == Cardinality(KsUntold(L))  d == Cardinality(KsUntold(L)')
      <3>1. /\ c \in Nat /\ d \in Nat
            /\ (ksCall[t].pc \in L <=> ksCall'[t].pc \in L) => d = c
            /\ ksCall[t].pc \in L /\ ksCall'[t].pc \notin L => c = d + 1
            /\ ksCall[t].pc \notin L /\ ksCall'[t].pc \in L => d = c + 1
        BY KsOneMoves, <2>1, <1>0
      <3>2. ksTold.made = ksTold.logged + c
        BY <2>a
      <3> HIDE DEF c, d
      <3>3. ksTold'.made = ksTold'.logged + d
        BY <3>1, <3>2, <2>2, <2>3
      <3> QED BY <3>3 DEF d
    <2> QED BY <2>4, <2>5
  <1>2. CASE KsRestart
    <2>1. KsToAnnounce' = {} /\ KsToLog' = {}
      BY <1>2 DEF KsRestart, KsToAnnounce, KsToLog, KsUntold, KsFree
    <2> QED BY <1>2, <2>1, FS_EmptySet DEF KsRestart, KsTelling
  <1>3. CASE KsCool \/ KsNewDay \/ UNCHANGED ksVars
    BY <1>3 DEF KsCool, KsNewDay, ksVars, KsTelling, KsToAnnounce, KsToLog, KsUntold
  <1> QED BY <1>1, <1>2, <1>3 DEF KsNext

\* The strengthened invariant of the kill switch.
LEMMA KsInvariant == KsInit /\ [][KsNext]_ksVars => []KsInductive
  <1>1. KsInit => KsInductive
    <2> SUFFICES ASSUME KsInit PROVE KsInductive
      OBVIOUS
    <2>1. KsTypeOK /\ KsHeld
      <3>1. KsTypeOK
        <4>1. ksGate \in KsGateType /\ ksRow \in [1..KsDays -> BOOLEAN] /\ ksTold \in KsTellType /\ ksStands \in BOOLEAN
          BY DEF KsInit, KsGateType, KsState, KsSince, KsTellType
        <4>2. ksCall \in [KsThreads -> KsCallType]
          BY DEF KsInit, KsFree, KsCallType, KsPcs, KsState, KsSince
        <4>3. ksCount \in KsCountType
          BY KsAssumption DEF KsInit, KsCountType
        <4> QED BY <4>1, <4>2, <4>3, KsTypes
      <3>2. KsHeld
        BY DEF KsInit, KsHeld, KsHolding, KsFresh, KsFree
      <3> QED BY <3>1, <3>2
    <2>2. KsToAnnounce = {} /\ KsToLog = {}
      BY DEF KsInit, KsToAnnounce, KsToLog, KsUntold, KsFree
    <2> QED BY <2>1, <2>2, FS_EmptySet DEF KsInit, KsTelling, KsInductive
  <1>2. KsInductive /\ [KsNext]_ksVars => KsInductive'
    BY KsTypeStep, KsHeldStep, KsTellingStep DEF KsInductive
  <1> QED BY <1>1, <1>2, PTL

\* With nothing left to tell, each change was told once.
LEMMA KsToldOnceHolds == KsInductive => KsToldOnce
  <1> SUFFICES ASSUME KsInductive PROVE KsToldOnce
    OBVIOUS
  <1>1. /\ IsFiniteSet(KsToAnnounce) /\ IsFiniteSet(KsToLog)
    BY FS_Subset, KsAssumption DEF KsToAnnounce, KsToLog, KsUntold
  <1>2. Cardinality(KsToAnnounce) \in Nat /\ Cardinality(KsToLog) \in Nat
    BY <1>1, FS_CardinalityType
  <1>3. ksTold \in [made : Nat, logged : Nat, announced : Nat]
    BY DEF KsInductive, KsTypeOK
  <1>4. KsIdle => KsToAnnounce = {} /\ KsToLog = {}
    BY DEF KsIdle, KsToAnnounce, KsToLog, KsUntold
  <1>5. KsIdle => Cardinality(KsToAnnounce) = 0 /\ Cardinality(KsToLog) = 0
    BY <1>4, FS_EmptySet
  <1> QED BY <1>2, <1>3, <1>5 DEF KsInductive, KsTelling, KsToldOnce

\* The kill switch tells each change once, holds a stored halt over triggers,
\* failed writes, restarts and new days, and is not resumed before the cooldown
\* (KillTriggerEngine, RecoveryManager of risk/kill_switch.py).
LEMMA KsSafeHolds == KsInit /\ [][KsNext]_ksVars => KsSafe
  <1>1. KsInductive => KsTypeOK /\ KsToldOnce /\ KsHaltStands
    BY KsToldOnceHolds DEF KsInductive, KsHeld, KsHolding, KsHaltStands
  <1> DEFINE Kept == ksGate.state = "halted" /\ ksGate'.state = "running" /\ ksStands
                        => ksGate.since = "cool" \/ ksCount'.faults > ksCount.faults
  <1>2. KsInductive /\ [KsNext]_ksVars => [Kept]_ksVars
    <2> SUFFICES ASSUME KsInductive, KsNext PROVE Kept
      OBVIOUS
    <2> SUFFICES ASSUME ksGate.state = "halted", ksGate'.state = "running", ksStands
                 PROVE  ksGate.since = "cool" \/ ksCount'.faults > ksCount.faults
      OBVIOUS
    <2>0. ksGate \in KsGateType /\ ksCount \in KsCountType
      BY KsTypes DEF KsInductive
    <2>1. ASSUME NEW t \in KsThreads, KsReport(t) PROVE FALSE
      BY <2>0, <2>1 DEF KsReport, KsEscalates, KsRank
    <2>2. ASSUME NEW t \in KsThreads, KsResume(t) \/ KsCallStep(t), ~KsApply(t) PROVE FALSE
      BY <2>2 DEF KsResume, KsCallStep, KsRecord, KsStore, KsAnnounce, KsJudge, KsNote, KsClear
    <2>3. ASSUME NEW t \in KsThreads, KsApply(t) PROVE ksGate.since = "cool"
      BY <2>3 DEF KsApply, KsInductive, KsHeld, KsHolding
    <2>4. CASE KsCool \/ KsNewDay
      BY <2>0, <2>4 DEF KsCool, KsNewDay, KsGateType
    <2>5. CASE KsRestart
      <3>1. KsRestored
        BY DEF KsInductive, KsHeld
      <3>2. ksCount' = [ksCount EXCEPT !.ends = @ + 1, !.faults = @ + 1]
        <4>1. CASE ksGate' = IF KsRestored THEN [state |-> "halted", since |-> "hot"] ELSE [state |-> "running", since |-> "none"]
          <5>1. ksGate' = [state |-> "halted", since |-> "hot"]
            BY <3>1, <4>1
          <5>2. ksGate'.state = "halted"
            BY <5>1
          <5> QED BY <5>2
        <4>2. CASE ksCount' = [ksCount EXCEPT !.ends = @ + 1, !.faults = @ + 1]
          BY <4>2
        <4> QED BY <2>5, <4>1, <4>2 DEF KsRestart
      <3>3. ksCount'.faults = ksCount.faults + 1 /\ ksCount.faults \in Int
        BY <2>0, <3>2, KsAssumption DEF KsCountType
      <3> QED BY <3>3
    <2> QED BY <2>1, <2>2, <2>3, <2>4, <2>5 DEF KsNext
  <1> QED BY <1>1, <1>2, KsInvariant, PTL DEF KsSafe, KsCooldownKept

-----------------------------------------------------------------------------
(* The idempotency store.                                                    *)

IdPcs == {"idle", "seen", "checked", "inside", "placed", "marked", "verify"}
IdWorkerType == [pc : IdPcs, order : 0..IdMaxOrders, told : {IdNone, "unknown", "not_found", "completed", "in_flight"}]
IdPastType == [marked : BOOLEAN, lossy : BOOLEAN, open : BOOLEAN, missed : BOOLEAN]
IdTyped ==
    /\ idRedis \in [up : BOOLEAN, rec : IdStatus, lock : BOOLEAN]
    /\ idDb \in IdStatus
    /\ idOrders \in Seq({"open", "done", "void"}) /\ Len(idOrders) <= IdMaxOrders
    /\ idWorker \in [IdWorkers -> IdWorkerType]
    /\ idPast \in IdPastType

\* While no lock was passed or lost, who is inside has it, and is alone.
IdIsIn(w) == idWorker[w].pc \in {"inside", "placed", "marked"}
IdLocked ==
    ~idPast.open =>
        /\ \A v, w \in IdWorkers : IdIsIn(v) /\ IdIsIn(w) => v = w
        /\ \A w \in IdWorkers : IdIsIn(w) => idRedis.lock

\* A record that was stored where it can be read is read.
IdFound == idPast.marked /\ ~idPast.lossy => IdGet # IdNone

\* A worker knows orders that were placed, and was told of one of them.
IdKnown ==
    \A w \in IdWorkers :
        /\ idWorker[w].order <= Len(idOrders)
        /\ idWorker[w].pc = "verify" => idWorker[w].order # 0
        /\ idWorker[w].told = "not_found" => idWorker[w].order # 0 /\ idOrders[idWorker[w].order] = "void"

\* With one order placed, nobody and no store takes it for done before it is.
IdTakenForDone ==
    idRedis.rec = "done" \/ idDb = "done" \/ \E w \in IdWorkers : idWorker[w].told = "completed"
IdDone == Len(idOrders) <= 1 /\ IdTakenForDone => Len(idOrders) = 1 /\ idOrders[1] = "done"

IdInductive == IdTyped /\ IdLocked /\ IdFound /\ IdKnown /\ IdDone /\ IdSeen

\* Every step keeps the types.
LEMMA IdTypedStep == IdTyped /\ IdKnown /\ [IdNext]_idVars => IdTyped'
  <1> SUFFICES ASSUME IdTyped, IdKnown, [IdNext]_idVars PROVE IdTyped'
    OBVIOUS
  <1> USE IdAssumption DEF IdTyped, IdStatus, IdNone, IdPcs
  <1>a. ASSUME NEW w \in IdWorkers, NEW pc \in IdPcs, IdStep(w, pc)
        PROVE  idWorker' \in [IdWorkers -> IdWorkerType]
    <2>1. [idWorker[w] EXCEPT !.pc = pc] \in IdWorkerType
      BY DEF IdWorkerType
    <2> QED BY <1>a, <2>1 DEF IdStep
  <1>1. ASSUME NEW w \in IdWorkers, IdCheck(w) \/ IdLock(w) \/ IdRelease(w) \/ IdEnd(w) PROVE IdTyped'
    BY <1>1, <1>a DEF IdCheck, IdLock, IdRelease, IdEnd, IdPastType
  <1>2. ASSUME NEW w \in IdWorkers, IdPlace(w) PROVE IdTyped'
    <2>1. idOrders' \in Seq({"open", "done", "void"}) /\ Len(idOrders') = Len(idOrders) + 1 /\ Len(idOrders') <= IdMaxOrders
      BY <1>2 DEF IdPlace
    <2>2. idWorker' \in [IdWorkers -> IdWorkerType]
      <3> DEFINE n == Len(idOrders) + 1
      <3>1. n \in 0..IdMaxOrders /\ 0 \in 0..IdMaxOrders
        BY <2>1
      <3>2. idWorker' = [idWorker EXCEPT ![w] = [IdIdle EXCEPT !.pc = "placed", !.order = n]]
        BY <1>2 DEF IdPlace
      <3> HIDE DEF n
      <3>3. [IdIdle EXCEPT !.pc = "placed", !.order = n] \in IdWorkerType
        BY <3>1 DEF IdIdle, IdWorkerType
      <3> QED BY <3>2, <3>3
    <2> QED BY <1>2, <2>1, <2>2 DEF IdPlace
  <1>3. ASSUME NEW w \in IdWorkers, IdMark(w) PROVE IdTyped'
    BY <1>3, <1>a DEF IdMark, IdSet, IdPastType
  <1>4. ASSUME NEW w \in IdWorkers, IdVerify(w) PROVE IdTyped'
    <2>1. PICK failed \in BOOLEAN, stored \in BOOLEAN :
          LET asked == IdAnswer(idOrders[idWorker[w].order], failed)
              told == IF IdFinished(IdGet) THEN "completed" ELSE asked
          IN /\ idWorker' = [idWorker EXCEPT ![w].told = told,
                                ![w].pc = CASE told = "unknown" -> "verify"
                                            [] told = "not_found" -> "idle"
                                            [] OTHER -> "seen"]
             /\ IF told = "completed" /\ ~IdFinished(IdGet)
                  THEN IdSet("done", stored) /\ idPast' = [idPast EXCEPT !.marked = TRUE,
                                                             !.lossy = @ \/ (~idRedis.up /\ ~stored)]
                  ELSE UNCHANGED <<idRedis, idDb, idPast>>
      BY <1>4 DEF IdVerify
    <2> DEFINE asked == IdAnswer(idOrders[idWorker[w].order], failed)
               told == IF IdFinished(IdGet) THEN "completed" ELSE asked
               pc == CASE told = "unknown" -> "verify" [] told = "not_found" -> "idle" [] OTHER -> "seen"
    <2>2. told \in {"unknown", "not_found", "completed", "in_flight"} /\ pc \in IdPcs
      BY DEF IdAnswer
    <2>3. idWorker' = [idWorker EXCEPT ![w].told = told, ![w].pc = pc]
      BY <2>1
    <2> HIDE DEF told, pc
    <2>4. idWorker' \in [IdWorkers -> IdWorkerType]
      BY <2>2, <2>3 DEF IdWorkerType
    <2>5. CASE told = "completed" /\ ~IdFinished(IdGet)
      <3>1. IdSet("done", stored)
        BY <2>1, <2>5 DEF told
      <3>2. idPast' = [idPast EXCEPT !.marked = TRUE, !.lossy = @ \/ (~idRedis.up /\ ~stored)]
        BY <2>1, <2>5 DEF told
      <3>3. idPast' \in IdPastType
        BY <3>2 DEF IdPastType
      <3>4. idRedis' \in [up : BOOLEAN, rec : IdStatus, lock : BOOLEAN] /\ idDb' \in IdStatus
        BY <3>1 DEF IdSet
      <3> QED BY <3>3, <3>4, <2>4, <1>4 DEF IdVerify
    <2>6. CASE ~(told = "completed" /\ ~IdFinished(IdGet))
      <3>1. UNCHANGED <<idRedis, idDb, idPast>>
        BY <2>1, <2>6 DEF told
      <3> QED BY <3>1, <2>4, <1>4 DEF IdVerify
    <2> QED BY <2>5, <2>6
  <1>5. CASE IdBroker
    BY <1>5 DEF IdBroker
  <1>6. CASE IdTurn \/ IdExpire
    BY <1>6 DEF IdTurn, IdExpire, IdPastType
  <1>7. CASE UNCHANGED idVars
    BY <1>7 DEF idVars
  <1> QED BY <1>1, <1>2, <1>3, <1>4, <1>5, <1>6, <1>7 DEF IdNext

\* Verification: what is told, and what is stored of it.
IdVerifiedAs(w, told, pc) ==
    LET order == idOrders[idWorker[w].order] IN
    /\ idWorker[w].pc = "verify" /\ pc \in {"verify", "idle", "seen"}
    /\ idWorker'[w].told = told /\ idWorker'[w].pc = pc /\ idWorker'[w].order = idWorker[w].order
    /\ \A v \in IdWorkers \ {w} : idWorker'[v] = idWorker[v]
    /\ told = "not_found" => order = "void"
    /\ told = "completed" => IdGet = "done" \/ order = "done"
    /\ \/ UNCHANGED <<idRedis, idDb, idPast>>
       \/ /\ order = "done"
          /\ \E stored \in BOOLEAN :
               /\ IdSet("done", stored)
               /\ idPast' = [idPast EXCEPT !.marked = TRUE, !.lossy = @ \/ (~idRedis.up /\ ~stored)]
    /\ UNCHANGED idOrders

\* What a verification says and stores is one of the cases above.
LEMMA IdVerifies ==
    ASSUME IdTyped, NEW w \in IdWorkers, IdVerify(w)
    PROVE  \E told, pc : IdVerifiedAs(w, told, pc)
  <1>1. PICK failed \in BOOLEAN, stored \in BOOLEAN :
          LET asked == IdAnswer(idOrders[idWorker[w].order], failed)
              told == IF IdFinished(IdGet) THEN "completed" ELSE asked
          IN /\ idWorker' = [idWorker EXCEPT ![w].told = told,
                                ![w].pc = CASE told = "unknown" -> "verify"
                                            [] told = "not_found" -> "idle"
                                            [] OTHER -> "seen"]
             /\ IF told = "completed" /\ ~IdFinished(IdGet)
                  THEN IdSet("done", stored) /\ idPast' = [idPast EXCEPT !.marked = TRUE,
                                                             !.lossy = @ \/ (~idRedis.up /\ ~stored)]
                  ELSE UNCHANGED <<idRedis, idDb, idPast>>
    BY DEF IdVerify
  <1> DEFINE order == idOrders[idWorker[w].order]
             asked == IdAnswer(order, failed)
             told == IF IdFinished(IdGet) THEN "completed" ELSE asked
             pc == CASE told = "unknown" -> "verify" [] told = "not_found" -> "idle" [] OTHER -> "seen"
  <1>2. /\ idWorker' = [idWorker EXCEPT ![w].told = told, ![w].pc = pc]
        /\ IF told = "completed" /\ ~IdFinished(IdGet)
             THEN IdSet("done", stored) /\ idPast' = [idPast EXCEPT !.marked = TRUE,
                                                        !.lossy = @ \/ (~idRedis.up /\ ~stored)]
             ELSE UNCHANGED <<idRedis, idDb, idPast>>
    BY <1>1
  <1>3. IdGet \in IdStatus
    BY DEF IdGet, IdTyped
  <1>4. /\ told = "not_found" => order = "void"
        /\ told = "completed" => IdGet = "done" \/ order = "done"
        /\ told = "completed" /\ ~IdFinished(IdGet) => order = "done"
        /\ pc \in {"verify", "idle", "seen"}
    BY <1>3 DEF IdAnswer, IdFinished, IdStatus
  <1>5. idWorker[w].pc = "verify" /\ UNCHANGED idOrders
    BY DEF IdVerify
  <1> HIDE DEF told, pc, order
  <1>6. \/ UNCHANGED <<idRedis, idDb, idPast>>
        \/ order = "done" /\ \E b \in BOOLEAN :
                         /\ IdSet("done", b)
                         /\ idPast' = [idPast EXCEPT !.marked = TRUE, !.lossy = @ \/ (~idRedis.up /\ ~b)]
    BY <1>2, <1>4
  <1>7. /\ idWorker'[w].told = told /\ idWorker'[w].pc = pc /\ idWorker'[w].order = idWorker[w].order
        /\ \A v \in IdWorkers \ {w} : idWorker'[v] = idWorker[v]
    BY <1>2 DEF IdTyped, IdWorkerType
  <1>8. IdVerifiedAs(w, told, pc)
    BY <1>4, <1>5, <1>6, <1>7 DEF order, IdVerifiedAs
  <1> QED BY <1>8

\* Every step keeps the lock with the one who is inside.
LEMMA IdLockedStep == IdTyped /\ IdKnown /\ IdLocked /\ [IdNext]_idVars => IdLocked'
  <1> SUFFICES ASSUME IdTyped, IdKnown, IdLocked, [IdNext]_idVars PROVE IdLocked'
    OBVIOUS
  <1>v. ASSUME NEW w \in IdWorkers, IdVerify(w) PROVE \E told, pc : IdVerifiedAs(w, told, pc)
    BY <1>v, IdVerifies
  <1> USE DEF IdTyped, IdLocked, IdIsIn, IdWorkerType, IdPastType
  <1>1. ASSUME NEW w \in IdWorkers, IdCheck(w) \/ IdEnd(w) \/ IdPlace(w) PROVE IdLocked'
    <2>1. CASE IdCheck(w)
      BY <2>1 DEF IdCheck, IdStep
    <2>2. CASE IdEnd(w)
      BY <2>2 DEF IdEnd, IdStep
    <2>3. CASE IdPlace(w)
      BY <2>3 DEF IdPlace, IdIdle
    <2> QED BY <1>1, <2>1, <2>2, <2>3
  <1>2. ASSUME NEW w \in IdWorkers, IdLock(w) PROVE IdLocked'
    BY <1>2 DEF IdLock, IdStep, IdTakes
  <1>3. ASSUME NEW w \in IdWorkers, IdMark(w) PROVE IdLocked'
    BY <1>3 DEF IdMark, IdStep, IdSet
  <1>4. ASSUME NEW w \in IdWorkers, IdRelease(w) PROVE IdLocked'
    BY <1>4 DEF IdRelease, IdStep
  <1>5. ASSUME NEW w \in IdWorkers, IdVerify(w) PROVE IdLocked'
    <2>1. PICK told, pc : IdVerifiedAs(w, told, pc)
      BY <1>5, <1>v
    <2>2. idRedis'.lock = idRedis.lock /\ idPast'.open = idPast.open
      BY <2>1 DEF IdVerifiedAs, IdSet
    <2>3. ASSUME NEW v \in IdWorkers, IdIsIn(v)' PROVE IdIsIn(v)
      BY <2>1, <2>3 DEF IdVerifiedAs
    <2> QED BY <2>2, <2>3
  <1>6. CASE IdBroker \/ IdTurn
    BY <1>6 DEF IdBroker, IdTurn
  <1>7. CASE IdExpire
    BY <1>7 DEF IdExpire, IdInside
  <1>8. CASE UNCHANGED idVars
    BY <1>8 DEF idVars
  <1> QED BY <1>1, <1>2, <1>3, <1>4, <1>5, <1>6, <1>7, <1>8 DEF IdNext

\* Every step keeps a marked intent within reach of a lookup.
LEMMA IdFoundStep == IdTyped /\ IdKnown /\ IdFound /\ IdSeen /\ [IdNext]_idVars => (IdFound /\ IdSeen)'
  <1> SUFFICES ASSUME IdTyped, IdKnown, IdFound, IdSeen, [IdNext]_idVars PROVE (IdFound /\ IdSeen)'
    OBVIOUS
  <1>v. ASSUME NEW w \in IdWorkers, IdVerify(w) PROVE \E told, pc : IdVerifiedAs(w, told, pc)
    BY <1>v, IdVerifies
  <1> USE DEF IdTyped, IdFound, IdGet, IdPastType, IdStatus, IdNone, IdSeen
  <1>1. ASSUME NEW w \in IdWorkers, IdCheck(w) \/ IdEnd(w) \/ IdPlace(w) \/ IdLock(w) \/ IdRelease(w)
        PROVE  (IdFound /\ IdSeen)'
    BY <1>1 DEF IdCheck, IdEnd, IdPlace, IdLock, IdRelease
  <1>2. ASSUME NEW w \in IdWorkers, IdMark(w) PROVE (IdFound /\ IdSeen)'
    BY <1>2 DEF IdMark, IdSet
  <1>3. ASSUME NEW w \in IdWorkers, IdVerify(w) PROVE (IdFound /\ IdSeen)'
    <2>1. PICK told, pc : IdVerifiedAs(w, told, pc)
      BY <1>3, <1>v
    <2>2. \/ UNCHANGED <<idRedis, idDb, idPast>>
          \/ \E stored \in BOOLEAN :
               /\ IdSet("done", stored)
               /\ idPast' = [idPast EXCEPT !.marked = TRUE, !.lossy = @ \/ (~idRedis.up /\ ~stored)]
      BY <2>1 DEF IdVerifiedAs
    <2> QED BY <2>2 DEF IdSet
  <1>4. CASE IdBroker \/ IdTurn \/ IdExpire
    BY <1>4 DEF IdBroker, IdTurn, IdExpire
  <1>5. CASE UNCHANGED idVars
    BY <1>5 DEF idVars
  <1> QED BY <1>1, <1>2, <1>3, <1>4, <1>5 DEF IdNext

\* Every step keeps what a worker knows of its order.
LEMMA IdKnownStep == IdTyped /\ IdKnown /\ [IdNext]_idVars => IdKnown'
  <1> SUFFICES ASSUME IdTyped, IdKnown, [IdNext]_idVars PROVE IdKnown'
    OBVIOUS
  <1>v. ASSUME NEW w \in IdWorkers, IdVerify(w) PROVE \E told, pc : IdVerifiedAs(w, told, pc)
    BY <1>v, IdVerifies
  <1> USE DEF IdTyped, IdKnown, IdWorkerType
  <1>1. ASSUME NEW w \in IdWorkers, IdCheck(w) \/ IdEnd(w) \/ IdLock(w) \/ IdRelease(w) \/ IdMark(w)
        PROVE  IdKnown'
    <2>1. UNCHANGED idOrders
      BY <1>1 DEF IdCheck, IdEnd, IdLock, IdRelease, IdMark
    <2>2. PICK pc \in IdPcs : IdStep(w, pc) /\ (pc = "verify" => idWorker[w].order # 0)
      BY <1>1 DEF IdCheck, IdEnd, IdLock, IdRelease, IdMark, IdPcs
    <2> QED BY <2>1, <2>2 DEF IdStep
  <1>2. ASSUME NEW w \in IdWorkers, IdPlace(w) PROVE IdKnown'
    <2>1. \A v \in IdWorkers : idWorker[v].order \in 0..Len(idOrders)
      OBVIOUS
    <2>2. /\ Len(idOrders') = Len(idOrders) + 1
          /\ \A i \in 1..Len(idOrders) : idOrders'[i] = idOrders[i]
      BY <1>2 DEF IdPlace
    <2>3. idWorker' = [idWorker EXCEPT ![w] = [IdIdle EXCEPT !.pc = "placed", !.order = Len(idOrders) + 1]]
      BY <1>2 DEF IdPlace
    <2>4. ASSUME NEW v \in IdWorkers
          PROVE  /\ idWorker'[v].order <= Len(idOrders')
                 /\ idWorker'[v].pc = "verify" => idWorker'[v].order # 0
                 /\ idWorker'[v].told = "not_found" =>
                       idWorker'[v].order # 0 /\ idOrders'[idWorker'[v].order] = "void"
      <3>1. CASE v = w
        BY <3>1, <2>2, <2>3 DEF IdIdle, IdNone
      <3>2. CASE v # w
        BY <3>2, <2>1, <2>2, <2>3
      <3> QED BY <3>1, <3>2
    <2> QED BY <2>4
  <1>3. ASSUME NEW w \in IdWorkers, IdVerify(w) PROVE IdKnown'
    <2>1. PICK told, pc : IdVerifiedAs(w, told, pc)
      BY <1>3, <1>v
    <2>2. UNCHANGED idOrders /\ idWorker[w].order \in 1..Len(idOrders)
      <3>0. idWorker[w] \in IdWorkerType
        OBVIOUS
      <3>1. idWorker[w].order \in Nat
        BY <3>0, IdAssumption
      <3>2. idWorker[w].pc = "verify" /\ UNCHANGED idOrders
        BY ONLY <2>1 DEF IdVerifiedAs
      <3> QED BY <3>1, <3>2
    <2>3. ASSUME NEW v \in IdWorkers
          PROVE  /\ idWorker'[v].order <= Len(idOrders)
                 /\ idWorker'[v].pc = "verify" => idWorker'[v].order # 0
                 /\ idWorker'[v].told = "not_found" =>
                       idWorker'[v].order # 0 /\ idOrders[idWorker'[v].order] = "void"
      <3>1. CASE v = w
        BY <3>1, <2>1, <2>2 DEF IdVerifiedAs
      <3>2. CASE v # w
        BY <3>2, <2>1, <2>2 DEF IdVerifiedAs
      <3> QED BY <3>1, <3>2
    <2> QED BY <2>2, <2>3
  <1>4. CASE IdBroker
    BY <1>4 DEF IdBroker
  <1>5. CASE IdTurn \/ IdExpire \/ UNCHANGED idVars
    BY <1>5 DEF IdTurn, IdExpire, idVars
  <1> QED BY <1>1, <1>2, <1>3, <1>4, <1>5 DEF IdNext

\* Every step keeps a single order from being taken for done too early.
LEMMA IdDoneStep == IdTyped /\ IdKnown /\ IdDone /\ [IdNext]_idVars => IdDone'
  <1> SUFFICES ASSUME IdTyped, IdKnown, IdDone, [IdNext]_idVars PROVE IdDone'
    OBVIOUS
  <1>v. ASSUME NEW w \in IdWorkers, IdVerify(w) PROVE \E told, pc : IdVerifiedAs(w, told, pc)
    BY <1>v, IdVerifies
  <1> USE DEF IdTyped, IdKnown, IdDone, IdTakenForDone, IdWorkerType
  <1>1. ASSUME NEW w \in IdWorkers, IdCheck(w) \/ IdEnd(w) \/ IdLock(w) \/ IdRelease(w)
        PROVE  IdDone'
    BY <1>1 DEF IdCheck, IdEnd, IdLock, IdRelease, IdStep
  <1>2. ASSUME NEW w \in IdWorkers, IdMark(w) PROVE IdDone'
    BY <1>2 DEF IdMark, IdStep, IdSet
  <1>3. ASSUME NEW w \in IdWorkers, IdPlace(w) PROVE IdDone'
    BY <1>3 DEF IdPlace, IdIdle, IdNone
  <1>4. ASSUME NEW w \in IdWorkers, IdVerify(w) PROVE IdDone'
    <2>1. PICK told, pc : IdVerifiedAs(w, told, pc)
      BY <1>4, <1>v
    <2>2. idWorker[w].order \in 1..Len(idOrders) /\ UNCHANGED idOrders
      <3>0. idWorker[w] \in IdWorkerType
        OBVIOUS
      <3>1. idWorker[w].order \in Nat
        BY <3>0, IdAssumption
      <3>2. idWorker[w].pc = "verify" /\ UNCHANGED idOrders
        BY ONLY <2>1 DEF IdVerifiedAs
      <3>3. Len(idOrders) \in Nat
        OBVIOUS
      <3> QED BY <3>1, <3>2, <3>3
    <2>3. CASE idOrders[idWorker[w].order] = "done"
      <3>1. Len(idOrders) <= 1 => Len(idOrders) = 1 /\ idOrders[1] = "done"
        <4>0. SUFFICES ASSUME Len(idOrders) <= 1 PROVE Len(idOrders) = 1 /\ idOrders[1] = "done"
          OBVIOUS
        <4>1. Len(idOrders) \in Nat
          OBVIOUS
        <4>2. \A i, n \in Nat : n <= 1 /\ 1 <= i /\ i <= n => i = 1 /\ n = 1
          OBVIOUS
        <4>3. /\ idWorker[w].order \in Nat /\ 1 <= idWorker[w].order
              /\ idWorker[w].order <= Len(idOrders)
          BY <2>2
        <4>4. idWorker[w].order = 1 /\ Len(idOrders) = 1
          BY ONLY <4>0, <4>1, <4>2, <4>3
        <4> QED BY <4>4, <2>3
      <3> QED BY ONLY <3>1, <2>2 DEF IdDone
    <2>4. CASE idOrders[idWorker[w].order] # "done"
      <3>1. UNCHANGED <<idRedis, idDb>> /\ (told = "completed" => IdGet = "done")
        BY <2>1, <2>4 DEF IdVerifiedAs
      <3>2. told = "completed" => IdTakenForDone
        BY <3>1 DEF IdGet
      <3>3. IdTakenForDone' => IdTakenForDone
        <4>1. ASSUME NEW v \in IdWorkers, idWorker'[v].told = "completed" PROVE IdTakenForDone
          <5>1. CASE v = w
            <6>1. told = "completed"
              BY ONLY <2>1, <4>1, <5>1 DEF IdVerifiedAs
            <6> QED BY <6>1, <3>2
          <5>2. CASE v # w
            <6>1. idWorker'[v] = idWorker[v]
              BY ONLY <2>1, <5>2, <4>1 DEF IdVerifiedAs
            <6> QED BY <6>1, <4>1
          <5> QED BY <5>1, <5>2
        <4> QED BY <3>1, <4>1
      <3> QED BY <2>2, <3>3
    <2> QED BY <2>3, <2>4
  <1>5. CASE IdBroker
    BY <1>5 DEF IdBroker
  <1>6. CASE IdTurn \/ IdExpire \/ UNCHANGED idVars
    BY <1>6 DEF IdTurn, IdExpire, idVars, IdNone
  <1> QED BY <1>1, <1>2, <1>3, <1>4, <1>5, <1>6 DEF IdNext

\* The store's invariant, by the strengthened one.
LEMMA IdInvariant == IdInit /\ [][IdNext]_idVars => []IdInv
  <1>1. IdInit => IdInductive
    BY IdAssumption
    DEF IdInit, IdInductive, IdTyped, IdWorkerType, IdPastType, IdPcs, IdIdle, IdStatus, IdNone, IdLocked, IdIsIn,
        IdFound, IdKnown, IdDone, IdTakenForDone, IdSeen
  <1>2. IdInductive /\ [IdNext]_idVars => IdInductive'
    BY IdTypedStep, IdLockedStep, IdFoundStep, IdKnownStep, IdDoneStep DEF IdInductive
  <1>3. IdInductive => IdInv
    <2> SUFFICES ASSUME IdInductive PROVE IdInv
      OBVIOUS
    <2>1. IdTypeOK /\ IdSeen /\ IdNoResubmit /\ IdCompletedIsDone
      <3>1. IdTypeOK
        BY DEF IdInductive, IdTyped, IdTypeOK, IdWorkerType, IdPcs
      <3>2. IdSeen /\ IdNoResubmit
        BY DEF IdInductive, IdKnown, IdNoResubmit
      <3>3. IdCompletedIsDone
        BY DEF IdInductive, IdDone, IdTakenForDone, IdCompletedIsDone
      <3> QED BY <3>1, <3>2, <3>3
    <2>2. IdOneInside
      <3> SUFFICES ASSUME ~idPast.open PROVE Cardinality(IdInside) <= 1
        BY DEF IdOneInside
      <3>1. \A v, w \in IdInside : v = w
        BY DEF IdInductive, IdLocked, IdIsIn, IdInside
      <3>2. CASE IdInside = {}
        BY <3>2, FS_EmptySet
      <3>3. CASE IdInside # {}
        <4>0. PICK w \in IdInside : TRUE
          BY <3>3
        <4>1. IdInside = {w}
          BY <3>1, <4>0
        <4>2. Cardinality({w}) = 1
          BY FS_Singleton
        <4> QED BY <4>1, <4>2
      <3> QED BY <3>2, <3>3
    <2> QED BY <2>1, <2>2 DEF IdInv
  <1> QED BY <1>1, <1>2, <1>3, PTL

-----------------------------------------------------------------------------
(* The freshness gate.                                                       *)

FrStamp == 0..FrNone
FrRecord == [ts : FrStamp, status : {"unknown", "connected", "disconnected"}, fails : 0..FrFailLimit]
FrCalling == [op : {"none", "update", "failure", "disconnect", "ask"}, tier : FrTiers, ts : FrStamp,
              alone : BOOLEAN]
FrPastType == [came : [FrTiers -> FrStamp], gone : [FrTiers -> BOOLEAN], wrong : SUBSET {"shut", "halt", "pass"}]

\* No record is younger than the clock.
FrMet(ts) == ts = FrNone \/ ts <= frNow

\* What the tracker has of a tier is what came in for it last; and a call nobody
\* came after still finds what it recorded.
FrMatches(t) ==
    /\ frFeed[t].ts = frPast.came[t] /\ FrMet(frFeed[t].ts)
    /\ frFeed[t].status = "disconnected" <=> frPast.gone[t]
FrUntouched(s) ==
    LET c == frThread[s] IN
    c.op = "update" /\ c.ts # FrNone /\ c.alone =>
        frFeed[c.tier].ts = c.ts /\ frFeed[c.tier].status = "connected"

FrInductive ==
    /\ FrTypeOK /\ frPast \in FrPastType
    /\ \A t \in FrTiers : FrMatches(t)
    /\ \A s \in FrThreads : FrUntouched(s)
    /\ FrReopens /\ FrHaltEarned /\ FrPassIsFresh

\* What a call records for its tier.
LEMMA FrRecordedFeed ==
    ASSUME FrInductive, NEW t \in FrTiers, NEW ts \in (0..frNow) \cup {FrNone},
           NEW op \in {"update", "failure", "disconnect", "ask"}, op # "update" => ts = FrNone
    PROVE  LET feed == FrRecorded(op, frFeed[t], ts)
               new == op = "update" /\ ts # FrNone
           IN /\ feed \in FrRecord
              /\ feed.ts = IF new THEN ts ELSE frPast.came[t]
              /\ new => feed.status = "connected"
              /\ ~new => (feed.status = "disconnected" <=>
                             \/ frPast.gone[t] \/ op = "disconnect"
                             \/ (op = "failure" /\ feed.status = "disconnected"))
  <1> DEFINE f == frFeed[t]
  <1>1. f \in FrRecord /\ ts \in FrStamp
    BY FrAssumption DEF FrInductive, FrTypeOK, FrRecord, FrStamp, FrNone
  <1>2. f.ts = frPast.came[t] /\ (f.status = "disconnected" <=> frPast.gone[t])
    BY DEF FrInductive, FrMatches
  <1> HIDE DEF f
  <1>3. CASE op = "update" /\ ts # FrNone
    <2>1. FrRecorded(op, f, ts) = [ts |-> ts, status |-> "connected", fails |-> 0]
      BY <1>3 DEF FrRecorded, FrUpdated
    <2> QED BY <2>1, <1>1, <1>3, FrAssumption DEF FrRecord, f
  <1>4. CASE op = "ask" \/ (op = "update" /\ ts = FrNone)
    <2>1. FrRecorded(op, f, ts) = f
      BY <1>4 DEF FrRecorded
    <2> QED BY <2>1, <1>1, <1>2, <1>4 DEF f
  <1>5. CASE op = "disconnect"
    <2>1. FrRecorded(op, f, ts) = [f EXCEPT !.status = "disconnected"]
      BY <1>5 DEF FrRecorded, FrGone
    <2> QED BY <2>1, <1>1, <1>2, <1>5 DEF f, FrRecord
  <1>6. CASE op = "failure"
    <2>1. FrRecorded(op, f, ts) = FrFailed(f)
      BY <1>6 DEF FrRecorded
    <2>2. FrFailed(f) \in FrRecord /\ FrFailed(f).ts = f.ts
      <3> DEFINE n == IF f.fails < FrFailLimit THEN f.fails + 1 ELSE f.fails
                 up == IF f.fails + 1 >= FrFailLimit THEN "disconnected" ELSE f.status
      <3>1. f.fails \in 0..FrFailLimit /\ f.status \in {"unknown", "connected", "disconnected"}
        BY <1>1 DEF FrRecord
      <3>2. n \in 0..FrFailLimit
        BY <3>1, FrAssumption
      <3>3. up \in {"unknown", "connected", "disconnected"}
        BY <3>1
      <3>4. FrFailed(f) = [f EXCEPT !.fails = n, !.status = up]
        BY <1>1 DEF FrFailed, FrRecord
      <3> HIDE DEF n, up
      <3> QED BY <1>1, <3>2, <3>3, <3>4 DEF FrRecord
    <2>3. f.status = "disconnected" => FrFailed(f).status = "disconnected"
      BY <1>1 DEF FrFailed, FrRecord
    <2> QED BY <2>1, <2>2, <2>3, <1>2, <1>6 DEF f
  <1> QED BY <1>3, <1>4, <1>5, <1>6

\* A call records what came in, and leaves the calls on the other tier alone.
LEMMA FrCallStep == ASSUME FrInductive, NEW s \in FrThreads, FrCall(s) PROVE FrInductive'
  <1>1. PICK op \in {"update", "failure", "disconnect", "ask"}, t \in FrTiers,
             ts \in (0..frNow) \cup {FrNone} :
          LET feed == FrRecorded(op, frFeed[t], ts)
          IN /\ op # "update" => ts = FrNone
             /\ frFeed' = [frFeed EXCEPT ![t] = feed]
             /\ frThread' = [x \in FrThreads |->
                   IF x = s THEN [FrIdle EXCEPT !.op = op, !.tier = t, !.ts = ts]
                   ELSE [frThread[x] EXCEPT !.alone = @ /\ frThread[x].tier # t]]
             /\ frPast' = [frPast EXCEPT
                   !.came[t] = IF op = "update" /\ ts # FrNone THEN ts ELSE @,
                   !.gone[t] = IF op = "update" /\ ts # FrNone THEN FALSE
                               ELSE @ \/ op = "disconnect" \/ (op = "failure" /\ feed.status = "disconnected")]
    BY DEF FrCall, FrKey
  <1> DEFINE feed == FrRecorded(op, frFeed[t], ts)
             new == op = "update" /\ ts # FrNone
  <1>2. /\ feed \in FrRecord
        /\ feed.ts = IF new THEN ts ELSE frPast.came[t]
        /\ new => feed.status = "connected"
        /\ ~new => (feed.status = "disconnected" <=>
                       frPast.gone[t] \/ op = "disconnect" \/ (op = "failure" /\ feed.status = "disconnected"))
    BY <1>1, FrRecordedFeed
  <1>3. UNCHANGED frNow /\ s \in FrThreads /\ ts \in FrStamp
    BY <1>1, FrAssumption DEF FrCall, FrStamp, FrNone, FrInductive, FrTypeOK
  <1>4. /\ frFeed' = [frFeed EXCEPT ![t] = feed]
        /\ frThread' = [x \in FrThreads |->
                   IF x = s THEN [FrIdle EXCEPT !.op = op, !.tier = t, !.ts = ts]
                   ELSE [frThread[x] EXCEPT !.alone = @ /\ frThread[x].tier # t]]
        /\ frPast' = [frPast EXCEPT !.came[t] = IF new THEN ts ELSE @,
                   !.gone[t] = IF new THEN FALSE
                               ELSE @ \/ op = "disconnect" \/ (op = "failure" /\ feed.status = "disconnected")]
    BY <1>1
  <1> HIDE DEF feed
  <1>5. frFeed \in [FrTiers -> FrRecord] /\ frThread \in [FrThreads -> FrCalling] /\ frNow \in 0..FrMaxTime
    BY DEF FrInductive, FrTypeOK, FrRecord, FrCalling, FrStamp
  <1>6. frFeed' \in [FrTiers -> FrRecord] /\ frThread' \in [FrThreads -> FrCalling]
    <2>1. frFeed' \in [FrTiers -> FrRecord]
      BY <1>2, <1>4, <1>5
    <2>2. \A x \in FrThreads : frThread'[x] \in FrCalling
      <3>1. ASSUME NEW x \in FrThreads PROVE frThread'[x] \in FrCalling
        <4>1. CASE x = s
          <5>1. FrIdle \in FrCalling
            BY FrAssumption DEF FrIdle, FrCalling, FrStamp, FrNone, FrTiers
          <5>2. frThread'[x] = [FrIdle EXCEPT !.op = op, !.tier = t, !.ts = ts]
            BY <4>1, <1>4
          <5>3. op \in {"none", "update", "failure", "disconnect", "ask"}
            BY <1>1
          <5> QED BY <5>1, <5>2, <5>3, <1>3 DEF FrCalling
        <4>2. CASE x # s
          <5>1. frThread[x] \in FrCalling
            BY <1>5
          <5>2. frThread'[x] = [frThread[x] EXCEPT !.alone = @ /\ frThread[x].tier # t]
            BY <4>2, <1>4
          <5> QED BY <5>1, <5>2 DEF FrCalling
        <4> QED BY <4>1, <4>2
      <3> QED BY <3>1
    <2> QED BY <2>1, <2>2, <1>4
  <1>7. /\ frPast' \in FrPastType /\ frPast'.wrong = frPast.wrong
        /\ frPast'.came = [frPast.came EXCEPT ![t] = IF new THEN ts ELSE @]
        /\ frPast'.gone = [frPast.gone EXCEPT ![t] = IF new THEN FALSE ELSE
                @ \/ op = "disconnect" \/ (op = "failure" /\ feed.status = "disconnected")]
    <2>1. frPast \in FrPastType
      BY DEF FrInductive
    <2> QED BY <1>3, <1>4, <2>1 DEF FrPastType
  <1>8. \A u \in FrTiers : FrMatches(u)'
    <2>1. ASSUME NEW u \in FrTiers PROVE FrMatches(u)'
      <3>1. FrMatches(u) /\ frPast \in FrPastType
        BY DEF FrInductive
      <3>2. CASE u # t
        BY <3>1, <3>2, <1>3, <1>4, <1>5, <1>7 DEF FrMatches, FrMet, FrPastType
      <3>3. CASE u = t
        <4>1. frFeed'[t] = feed /\ frPast'.came[t] = feed.ts /\ FrMet(feed.ts)
          BY <3>1, <3>3, <1>1, <1>2, <1>4, <1>5, <1>7 DEF FrPastType, FrMet, FrMatches
        <4>2. frPast'.gone[t] <=> feed.status = "disconnected"
          BY <1>2, <1>7, <3>1 DEF FrPastType
        <4> QED BY <3>3, <4>1, <4>2, <1>3 DEF FrMatches, FrMet
      <3> QED BY <3>2, <3>3
    <2> QED BY <2>1
  <1>9. \A x \in FrThreads : FrUntouched(x)'
    <2>1. ASSUME NEW x \in FrThreads PROVE FrUntouched(x)'
      <3>1. CASE x = s
        <4>1. frThread'[s].op = op /\ frThread'[s].tier = t /\ frThread'[s].ts = ts
          BY <1>4 DEF FrIdle
        <4>2. frFeed'[t] = feed
          BY <1>4, <1>5
        <4> QED BY <3>1, <4>1, <4>2, <1>2 DEF FrUntouched
      <3>2. CASE x # s
        <4>1. FrUntouched(x) /\ frThread[x] \in FrCalling
          BY <1>5 DEF FrInductive
        <4>2. frThread'[x] = [frThread[x] EXCEPT !.alone = @ /\ frThread[x].tier # t]
          BY <3>2, <1>4
        <4>3. /\ frThread'[x].op = frThread[x].op /\ frThread'[x].ts = frThread[x].ts
              /\ frThread'[x].tier = frThread[x].tier
              /\ frThread'[x].alone => frThread[x].alone /\ frThread[x].tier # t
          BY <4>1, <4>2 DEF FrCalling
        <4>4. frThread[x].tier # t => frFeed'[frThread[x].tier] = frFeed[frThread[x].tier]
          BY <4>1, <1>4, <1>5 DEF FrCalling
        <4> QED BY <4>1, <4>3, <4>4 DEF FrUntouched
      <3> QED BY <3>1, <3>2
    <2> QED BY <2>1
  <1> QED
    BY <1>3, <1>5, <1>6, <1>7, <1>8, <1>9
    DEF FrInductive, FrTypeOK, FrRecord, FrCalling, FrStamp, FrReopens, FrHaltEarned, FrPassIsFresh

\* What the answer makes of a feed is what is true of it.
LEMMA FrClassifiedTruly ==
    ASSUME FrInductive, NEW t \in FrTiers
    PROVE  /\ FrClassified(frFeed[t], t) = "stale" <=> FrTruth(t) = "stale"
           /\ FrClassified(frFeed[t], t) \notin {"stale", "unknown"} <=> FrTruth(t) = "fresh"
  <1>1. FrMatches(t) /\ frPast.gone[t] \in BOOLEAN
    BY DEF FrInductive, FrPastType
  <1> QED BY <1>1 DEF FrMatches, FrClassified, FrTruth

\* An answer halts for what is stale only, and lets through what is fresh.
LEMMA FrAnswerStep == ASSUME FrInductive, NEW s \in FrThreads, FrAnswer(s) PROVE FrInductive'
  <1> DEFINE c == frThread[s]
  <1>1. PICK failed \in BOOLEAN :
          LET intime == c.op = "update" /\ c.ts # FrNone /\ frNow - c.ts <= FrStale(c.tier)
              bare == c.op = "update" /\ c.ts = FrNone
              state == IF bare THEN "unknown" ELSE IF failed THEN "stale" ELSE FrClassified(frFeed[c.tier], c.tier)
              truth == IF failed THEN "stale" ELSE FrTruth(c.tier)
          IN frPast' = [frPast EXCEPT !.wrong = @
                \cup (IF intime /\ c.alone /\ ~failed /\ FrBlocks(state) THEN {"shut"} ELSE {})
                \cup (IF c.op \in {"update", "ask"} /\ FrHalts(state) /\ truth # "stale" THEN {"halt"} ELSE {})
                \cup (IF c.op = "ask" /\ ~FrBlocks(state) /\ truth # "fresh" THEN {"pass"} ELSE {})]
    BY DEF FrAnswer, FrKey
  <1> DEFINE intime == c.op = "update" /\ c.ts # FrNone /\ frNow - c.ts <= FrStale(c.tier)
             state == IF c.op = "update" /\ c.ts = FrNone THEN "unknown"
                      ELSE IF failed THEN "stale" ELSE FrClassified(frFeed[c.tier], c.tier)
             truth == IF failed THEN "stale" ELSE FrTruth(c.tier)
  <1>2. c \in FrCalling /\ frPast \in FrPastType
    BY DEF FrInductive, FrTypeOK, FrCalling, FrStamp
  <1>3. c.tier \in FrTiers
    BY <1>2 DEF FrCalling
  <1>4. ~(intime /\ c.alone /\ ~failed /\ FrBlocks(state))
    <2> SUFFICES ASSUME intime, c.alone, ~failed PROVE ~FrBlocks(state)
      OBVIOUS
    <2>1. frFeed[c.tier].ts = c.ts /\ frFeed[c.tier].status = "connected"
      BY DEF FrInductive, FrUntouched
    <2>2. c.ts # FrNone /\ ~(frNow - c.ts > FrStale(c.tier))
      <3>1. frNow \in Int /\ c.ts \in Int /\ FrStale(c.tier) \in Int
        BY <1>2, <1>3, FrAssumption DEF FrCalling, FrStamp, FrNone, FrInductive, FrTypeOK, FrStale
      <3> QED BY <3>1
    <2>3. FrClassified(frFeed[c.tier], c.tier) \in {"warning", "fresh"}
      BY <2>1, <2>2 DEF FrClassified
    <2> QED BY <2>3 DEF FrBlocks
  <1>5. ~(c.op \in {"update", "ask"} /\ FrHalts(state) /\ truth # "stale")
    BY <1>3, FrClassifiedTruly DEF FrHalts
  <1>6. FrBlockUnknown => ~(c.op = "ask" /\ ~FrBlocks(state) /\ truth # "fresh")
    BY <1>3, FrClassifiedTruly DEF FrBlocks
  <1>7. frPast' = [frPast EXCEPT !.wrong = @ \cup (IF c.op = "ask" /\ ~FrBlocks(state) /\ truth # "fresh"
                                                     THEN {"pass"} ELSE {})]
    BY <1>1, <1>4, <1>5
  <1> HIDE DEF c, state, truth
  <1>8. /\ frPast' \in FrPastType /\ frPast'.came = frPast.came /\ frPast'.gone = frPast.gone
        /\ frPast'.wrong \subseteq frPast.wrong \cup {"pass"}
        /\ FrBlockUnknown => frPast'.wrong = frPast.wrong
    BY <1>2, <1>6, <1>7 DEF FrPastType
  <1>9. frThread' = [frThread EXCEPT ![s] = FrIdle] /\ UNCHANGED <<frNow, frFeed>>
    BY DEF FrAnswer
  <1>10. FrTypeOK'
    BY <1>9, FrAssumption DEF FrInductive, FrTypeOK, FrIdle, FrNone, FrTiers
  <1>11. \A x \in FrThreads : FrUntouched(x)'
    BY <1>9 DEF FrInductive, FrTypeOK, FrUntouched, FrIdle
  <1>12. \A t \in FrTiers : FrMatches(t)'
    BY <1>8, <1>9 DEF FrInductive, FrMatches, FrMet
  <1> QED
    BY <1>8, <1>10, <1>11, <1>12 DEF FrInductive, FrReopens, FrHaltEarned, FrPassIsFresh

\* The gate's invariant, by the strengthened one.
LEMMA FrInvariant == FrInit /\ [][FrNext]_frVars => []FrInv
  <1>1. FrInit => FrInductive
    BY FrAssumption
    DEF FrInit, FrInductive, FrTypeOK, FrPastType, FrMatches, FrMet, FrUntouched, FrUnseen, FrIdle, FrNone,
        FrStamp, FrTiers, FrReopens, FrHaltEarned, FrPassIsFresh
  <1>2. FrInductive /\ [FrNext]_frVars => FrInductive'
    <2> SUFFICES ASSUME FrInductive, [FrNext]_frVars PROVE FrInductive'
      OBVIOUS
    <2>1. CASE FrTick
      <3>1. frNow' \in 0..FrMaxTime /\ frNow <= frNow'
        BY <2>1, FrAssumption DEF FrTick, FrInductive, FrTypeOK
      <3>2. frFeed \in [FrTiers -> FrRecord]
        BY DEF FrInductive, FrTypeOK, FrRecord, FrStamp
      <3>3. \A t \in FrTiers : FrMatches(t)'
        BY <2>1, <3>1, <3>2, FrAssumption DEF FrTick, FrInductive, FrTypeOK, FrMatches, FrMet,
           FrRecord, FrStamp, FrNone
      <3> QED
        BY <2>1, <3>1, <3>3
        DEF FrTick, FrInductive, FrTypeOK, FrUntouched, FrReopens, FrHaltEarned, FrPassIsFresh
    <2>2. CASE UNCHANGED frVars
      BY <2>2
      DEF frVars, FrInductive, FrTypeOK, FrMatches, FrMet, FrUntouched, FrReopens, FrHaltEarned, FrPassIsFresh
    <2> QED BY <2>1, <2>2, FrCallStep, FrAnswerStep DEF FrNext
  <1>3. FrInductive => FrInv
    BY DEF FrInductive, FrInv
  <1> QED BY <1>1, <1>2, <1>3, PTL

-----------------------------------------------------------------------------
(* The emergency flatten.                                                    *)

EfBrokerType == [held : 0..EfHeld, rest : 0..EfHeld, auto : 0..EfHeld]

EfRunType ==
    [pc : {"idle", "sells", "armed", "done"}, dry : BOOLEAN, held : [EfSymbols -> 0..EfHeld],
     report : [EfSymbols -> Nat], todo : SUBSET EfSymbols, sent : Nat, failed : Nat,
     whole : SUBSET EfSymbols, missed : SUBSET EfSymbols, twice : Nat, calm : BOOLEAN]

EfPastType == [again : BOOLEAN, over : BOOLEAN, left : BOOLEAN, odd : BOOLEAN]

EfTyped ==
    /\ efBroker \in [EfSymbols -> EfBrokerType]
    /\ efRun \in [EfRuns -> EfRunType]
    /\ efPast \in EfPastType

\* What is sold is held, and what the automatic one sells is among it.
EfCovered == \A s \in EfSymbols : efBroker[s].auto <= efBroker[s].rest /\ efBroker[s].rest <= efBroker[s].held

\* The books of one flatten: between two requests they are empty; a position it
\* was given is still to come, asked for in full, or counted as failed.
EfBooked(run) ==
    /\ run.pc # "sells" => /\ run.todo = {} /\ run.sent = 0 /\ run.failed = 0 /\ run.whole = {}
                           /\ run.missed = {} /\ run.twice = 0
    /\ run.pc # "sells" => \A s \in EfSymbols : run.held[s] = 0
    /\ \A s \in EfSymbols : run.held[s] > 0 => s \in run.todo \cup run.whole \cup run.missed
    /\ \A s \in run.todo : s \notin run.missed
    /\ run.failed = Cardinality(run.missed) + run.twice

\* What is still to come of an undisturbed flatten is still to be had.
EfHad(run) == run.calm => \A s \in run.todo : run.report[s] # EfUnknown => run.report[s] <= EfFree(s)

\* The automatic one no order of which came back has nothing resting.
EfClean ==
    efRun[EfAuto].sent = 0 /\ efRun[EfAuto].pc # "done" =>
        \A s \in EfSymbols : efBroker[s].auto = 0

EfInductive ==
    /\ EfTyped /\ EfCovered
    /\ \A r \in EfRuns : EfBooked(efRun[r]) /\ EfHad(efRun[r])
    /\ EfOnePerProcess /\ EfClean
    /\ EfAllTried /\ EfCounted /\ EfNotAgain /\ EfWithinSellable

\* The strengthened invariant says all the flatten promises.
LEMMA EfHolds == ASSUME EfInductive PROVE EfInv
  <1>1. EfTypeOK
    <2>1. efBroker \in [EfSymbols -> [held : 0..EfHeld, rest : 0..EfHeld, auto : 0..EfHeld]]
      BY DEF EfInductive, EfTyped, EfBrokerType
    <2>2. ASSUME NEW r \in EfRuns PROVE efRun[r].pc \in {"idle", "sells", "armed", "done"} /\ efRun[r].todo \subseteq EfSymbols
                                        /\ efRun[r].failed \in Nat
      BY <2>2 DEF EfInductive, EfTyped, EfRunType
    <2>3. ASSUME NEW s \in EfSymbols PROVE EfFree(s) >= 0
      BY <2>3 DEF EfInductive, EfTyped, EfBrokerType, EfCovered, EfFree
    <2> QED BY <2>1, <2>2, <2>3 DEF EfTypeOK
  <1> QED BY <1>1 DEF EfInductive, EfInv

\* It holds before anything was sold.
LEMMA EfBegins == ASSUME EfAssumption, EfInit PROVE EfInductive
  <1> EfHeld \in Nat /\ EfManual \in Nat
    BY DEF EfAssumption
  <1>0. 0 \in EfRuns
    BY DEF EfRuns
  <1>1. /\ efBroker \in [EfSymbols -> EfBrokerType] /\ efPast \in EfPastType
        /\ \A s \in EfSymbols : efBroker[s].auto = 0 /\ efBroker[s].rest = 0 /\ efBroker[s].held \in Nat
    <2>1. efBroker \in [EfSymbols -> [held : 0..EfHeld, rest : {0}, auto : {0}]]
      BY DEF EfInit
    <2>2. efPast = [again |-> FALSE, over |-> FALSE, left |-> FALSE, odd |-> FALSE]
      BY DEF EfInit
    <2>3. ASSUME NEW s \in EfSymbols PROVE efBroker[s] \in EfBrokerType
      BY <2>1 DEF EfBrokerType
    <2>4. efPast \in EfPastType
      BY <2>2 DEF EfPastType
    <2> QED BY <2>1, <2>3, <2>4
  <1>2. PICK off \in {{}, {EfAuto}} : efRun = [r \in EfRuns |-> [EfNoRun EXCEPT !.dry = r \in off]]
    BY DEF EfInit
  <1>3. ASSUME NEW r \in EfRuns
        PROVE /\ efRun[r] \in EfRunType /\ efRun[r].pc = "idle" /\ efRun[r].todo = {} /\ efRun[r].missed = {}
              /\ efRun[r].failed = 0 /\ efRun[r].twice = 0 /\ efRun[r].whole = {} /\ efRun[r].sent = 0
              /\ efRun[r].held = EfNone
    <2>1. efRun[r] = [EfNoRun EXCEPT !.dry = r \in off]
      BY <1>2, <1>3
    <2>2. EfNone \in [EfSymbols -> 0..EfHeld] /\ EfNone \in [EfSymbols -> Nat] /\ (r \in off) \in BOOLEAN
      BY DEF EfNone
    <2>3. EfNoRun \in EfRunType
      BY <2>2 DEF EfNoRun, EfRunType
    <2> QED BY <2>1, <2>2, <2>3 DEF EfNoRun, EfRunType
  <1>4. efRun \in [EfRuns -> EfRunType]
    BY <1>2, <1>3
  <1>5. ASSUME NEW r \in EfRuns PROVE EfBooked(efRun[r]) /\ EfHad(efRun[r])
    <2>1. /\ efRun[r].pc = "idle" /\ efRun[r].todo = {} /\ efRun[r].missed = {} /\ efRun[r].failed = 0
          /\ efRun[r].twice = 0 /\ efRun[r].whole = {} /\ efRun[r].sent = 0
          /\ \A s \in EfSymbols : efRun[r].held[s] = 0
      BY <1>3, <1>5 DEF EfNone
    <2>2. Cardinality(efRun[r].missed) = 0
      BY <2>1, FS_EmptySet
    <2> QED BY <2>1, <2>2 DEF EfBooked, EfHad
  <1>6. EfOnePerProcess
    BY <1>3 DEF EfOnePerProcess, EfAt
  <1>7. EfAllTried /\ EfCounted /\ EfNotAgain /\ EfWithinSellable
    BY DEF EfInit, EfAllTried, EfCounted, EfNotAgain, EfWithinSellable
  <1> QED BY <1>1, <1>4, <1>5, <1>6, <1>7 DEF EfInductive, EfTyped, EfCovered, EfClean

-----------------------------------------------------------------------------
\* One position of the loop, field by field.
LEMMA EfStepFields ==
    ASSUME EfAssumption, EfTyped, NEW r \in EfRuns, NEW s \in EfSymbols, NEW fine \in BOOLEAN
    PROVE  LET run == efRun[r]  st == EfStep(r, s, fine) IN
           /\ st \in EfRunType
           /\ st.pc = run.pc /\ st.dry = run.dry /\ st.held = run.held /\ st.report = run.report
           /\ st.sent = run.sent /\ st.twice = run.twice /\ st.calm = run.calm
           /\ st.todo = run.todo \ {s}
           /\ st.failed = IF EfShort(run, s) THEN run.failed + 1 ELSE run.failed
           /\ st.missed = IF EfShort(run, s) \/ ~fine THEN run.missed \cup {s} ELSE run.missed
           /\ st.whole = IF fine /\ ~EfShort(run, s) THEN run.whole \cup {s} ELSE run.whole
           /\ EfShort(st, s) = EfShort(run, s)
  <1> DEFINE run == efRun[r]
  <1>1. run \in EfRunType
    BY DEF EfTyped
  <1> HIDE DEF run
  <1>2. EfStep(r, s, fine) =
          [run EXCEPT !.todo = run.todo \ {s},
                      !.failed = IF EfShort(run, s) THEN run.failed + 1 ELSE run.failed,
                      !.missed = IF EfShort(run, s) \/ ~fine THEN run.missed \cup {s} ELSE run.missed,
                      !.whole = IF fine /\ ~EfShort(run, s) THEN run.whole \cup {s} ELSE run.whole]
    BY DEF EfStep, EfLeft, run
  <1> DEFINE st == EfStep(r, s, fine)
  <1>3. /\ run.failed + 1 \in Nat /\ run.failed \in Nat
        /\ run.todo \ {s} \in SUBSET EfSymbols /\ run.missed \in SUBSET EfSymbols /\ run.missed \cup {s} \in SUBSET EfSymbols
        /\ run.whole \in SUBSET EfSymbols /\ run.whole \cup {s} \in SUBSET EfSymbols
    BY <1>1 DEF EfRunType
  <1>4. /\ st \in EfRunType
        /\ st.pc = run.pc /\ st.dry = run.dry /\ st.held = run.held /\ st.report = run.report
        /\ st.sent = run.sent /\ st.twice = run.twice /\ st.calm = run.calm
    BY <1>1, <1>2, <1>3 DEF EfRunType
  <1>5. /\ st.todo = run.todo \ {s}
        /\ st.failed = IF EfShort(run, s) THEN run.failed + 1 ELSE run.failed
        /\ st.missed = IF EfShort(run, s) \/ ~fine THEN run.missed \cup {s} ELSE run.missed
        /\ st.whole = IF fine /\ ~EfShort(run, s) THEN run.whole \cup {s} ELSE run.whole
    BY <1>1, <1>2 DEF EfRunType
  <1>6. EfShort(st, s) = EfShort(run, s)
    BY <1>4 DEF EfShort
  <1> QED BY <1>4, <1>5, <1>6 DEF run

\* The books after a turn: fine, or failed for want of a price or as the order raised.
LEMMA EfTurnBooked ==
    ASSUME EfAssumption, NEW run \in EfRunType, NEW new \in EfRunType, NEW s \in EfSymbols,
           EfBooked(run), run.pc = "sells", s \in run.todo, new.pc = "sells", new.held = run.held,
           new.todo = run.todo \ {s},
           \/ /\ new.whole = run.whole \cup {s} /\ new.missed = run.missed
              /\ new.failed = run.failed /\ new.twice = run.twice
           \/ /\ new.whole = run.whole /\ new.missed = run.missed \cup {s}
              /\ new.failed = run.failed + 1 /\ new.twice = run.twice
           \/ /\ new.whole = run.whole /\ new.missed = run.missed \cup {s}
              /\ new.failed = run.failed + 2 /\ new.twice = run.twice + 1
    PROVE  EfBooked(new)
  <1>1. IsFiniteSet(run.missed) /\ run.missed \subseteq EfSymbols /\ s \notin run.missed
    BY FS_Subset DEF EfAssumption, EfRunType, EfBooked
  <1>2. Cardinality(run.missed \cup {s}) = Cardinality(run.missed) + 1 /\ Cardinality(run.missed) \in Nat
    BY <1>1, FS_AddElement, FS_CardinalityType
  <1>3. run.failed \in Nat /\ run.twice \in Nat /\ run.failed = Cardinality(run.missed) + run.twice
    BY DEF EfRunType, EfBooked
  <1>4. new.failed = Cardinality(new.missed) + new.twice
    <2>1. CASE new.missed = run.missed /\ new.failed = run.failed /\ new.twice = run.twice
      BY <1>3, <2>1
    <2>2. CASE new.missed = run.missed \cup {s}
      <3>1. Cardinality(new.missed) = Cardinality(run.missed) + 1
        BY <1>2, <2>2
      <3>2. CASE new.failed = run.failed + 1 /\ new.twice = run.twice
        BY <1>2, <1>3, <3>1, <3>2
      <3>3. CASE new.failed = run.failed + 2 /\ new.twice = run.twice + 1
        BY <1>2, <1>3, <3>1, <3>3
      <3>4. CASE new.failed = run.failed /\ new.missed = run.missed
        BY <1>1, <2>2, <3>4
      <3> QED BY <3>2, <3>3, <3>4
    <2> QED BY <2>1, <2>2
  <1>5. \A x \in new.todo : x \notin new.missed
    BY DEF EfBooked
  <1>6. ASSUME NEW x \in EfSymbols, new.held[x] > 0 PROVE x \in new.todo \cup new.whole \cup new.missed
    BY <1>6 DEF EfBooked
  <1> QED BY <1>4, <1>5, <1>6 DEF EfBooked

-----------------------------------------------------------------------------
\* The end of a flatten: nothing is left out, and the count is right.
LEMMA EfEndStep ==
    ASSUME EfAssumption, EfInductive, NEW r \in EfRuns, NEW run \in EfRunType, EfEnd(r, run),
           UNCHANGED <<efBroker, efOthers>>,
           run.dry = efRun[r].dry,
           \A s \in EfSymbols : run.held[s] > 0 => s \in run.whole \cup run.missed,
           (\E s \in EfSymbols : run.held[s] > 0) => run.failed = Cardinality(run.missed) + run.twice,
           r = EfAuto /\ run.sent = 0 => efRun[r].sent = 0 /\ efRun[r].pc # "done"
    PROVE  EfInductive'
  <1> EfHeld \in Nat /\ EfManual \in Nat
    BY DEF EfAssumption
  <1> DEFINE pc == IF r = EfAuto /\ ~run.dry /\ EfRetries(run) THEN "armed" ELSE "done"
             new == [EfNoRun EXCEPT !.dry = run.dry, !.pc = pc]
             listed == {s \in EfSymbols : run.held[s] > 0}
  <1>1. efRun' = [efRun EXCEPT ![r] = new]
    BY DEF EfEnd
  <1>2. efPast' = [efPast EXCEPT !.left = @ \/ ~(listed \subseteq run.whole \cup run.missed),
                                 !.odd = @ \/ (listed # {} /\ run.failed # Cardinality(run.missed) + run.twice)]
    BY DEF EfEnd
  <1>3. efPast \in EfPastType /\ efPast.left = FALSE /\ efPast.odd = FALSE
    BY DEF EfInductive, EfTyped, EfAllTried, EfCounted, EfPastType
  <1>4. listed \subseteq run.whole \cup run.missed /\ ~(listed # {} /\ run.failed # Cardinality(run.missed) + run.twice)
    OBVIOUS
  <1>5. efPast' = efPast
    BY <1>2, <1>3, <1>4 DEF EfPastType
  <1>6. new \in EfRunType /\ new.pc = pc /\ new.todo = {} /\ new.sent = 0 /\ new.failed = 0 /\ new.whole = {}
        /\ new.missed = {} /\ new.twice = 0 /\ new.held = EfNone
    <2>1. EfNone \in [EfSymbols -> 0..EfHeld] /\ EfNone \in [EfSymbols -> Nat]
      BY DEF EfNone
    <2>2. EfNoRun \in EfRunType
      BY <2>1 DEF EfNoRun, EfRunType
    <2>3. run.dry \in BOOLEAN /\ pc \in {"armed", "done"}
      BY DEF EfRunType
    <2> QED BY <2>2, <2>3 DEF EfNoRun, EfRunType
  <1>7. EfBooked(new) /\ pc # "sells"
    <2>1. \A s \in EfSymbols : new.held[s] = 0
      BY <1>6 DEF EfNone
    <2>2. Cardinality(new.missed) = 0
      BY <1>6, FS_EmptySet
    <2>3. EfBooked(new)
      BY <1>6, <2>1, <2>2 DEF EfBooked
    <2>4. pc # "sells"
      OBVIOUS
    <2> QED BY <2>3, <2>4
  <1> HIDE DEF new, pc
  <1>8. efRun \in [EfRuns -> EfRunType]
    BY DEF EfInductive, EfTyped
  <1>9. efRun' \in [EfRuns -> EfRunType] /\ \A x \in EfRuns : efRun'[x] = IF x = r THEN new ELSE efRun[x]
    BY <1>1, <1>6, <1>8
  <1>10. EfTyped' /\ EfCovered'
    BY <1>5, <1>9 DEF EfInductive, EfTyped, EfCovered
  <1>11. ASSUME NEW x \in EfRuns PROVE EfBooked(efRun[x])' /\ EfHad(efRun[x])'
    <2>1. EfBooked(efRun[x]) /\ EfHad(efRun[x])
      BY <1>11 DEF EfInductive
    <2>2. CASE x = r
      BY <1>6, <1>7, <1>9, <2>2 DEF EfBooked, EfHad
    <2>3. CASE x # r
      BY <1>9, <2>1, <2>3 DEF EfBooked, EfHad, EfFree
    <2> QED BY <2>2, <2>3
  <1>12. EfOnePerProcess'
    <2>1. EfAt({"sells"})' \subseteq EfAt({"sells"})
      BY <1>6, <1>7, <1>9 DEF EfAt
    <2> QED BY <2>1 DEF EfInductive, EfOnePerProcess, EfAt
  <1>13. EfClean'
    <2>1. CASE r = EfAuto
      <3>1. pc = "armed" => run.sent = 0
        BY DEF pc, EfRetries
      <3>2. EfAuto \in EfRuns /\ efRun'[EfAuto].pc = pc
        BY <1>6, <1>9, <2>1
      <3>3. pc \in {"armed", "done"}
        BY DEF pc
      <3> QED BY <1>5, <2>1, <3>1, <3>2, <3>3 DEF EfInductive, EfClean
    <2>2. CASE r # EfAuto
      <3>1. EfAuto \in EfRuns
        BY DEF EfAuto, EfRuns
      <3> QED BY <1>5, <1>9, <2>2, <3>1 DEF EfInductive, EfClean
    <2> QED BY <2>1, <2>2
  <1>14. EfAllTried' /\ EfCounted' /\ EfNotAgain' /\ EfWithinSellable'
    BY <1>5 DEF EfInductive, EfAllTried, EfCounted, EfNotAgain, EfWithinSellable
  <1> QED BY <1>10, <1>11, <1>12, <1>13, <1>14 DEF EfInductive

-----------------------------------------------------------------------------
\* A refused trigger changes nothing that was counted.
LEMMA EfRefusedStep == ASSUME EfAssumption, EfInductive, NEW r \in EfRuns, EfRefused(r) PROVE EfInductive'
  <1>1. /\ efRun' = [efRun EXCEPT ![r].pc = "done"] /\ efRun[r].pc \in {"idle", "armed"}
        /\ efBroker' = efBroker /\ efPast' = efPast
    BY DEF EfRefused, EfCalled
  <1>2. efRun \in [EfRuns -> EfRunType] /\ EfBooked(efRun[r]) /\ EfHad(efRun[r])
    BY DEF EfInductive, EfTyped
  <1> DEFINE new == [efRun[r] EXCEPT !.pc = "done"]
  <1>3. /\ new \in EfRunType /\ new.pc = "done"
        /\ new.todo = efRun[r].todo /\ new.sent = efRun[r].sent /\ new.failed = efRun[r].failed
        /\ new.whole = efRun[r].whole /\ new.missed = efRun[r].missed /\ new.twice = efRun[r].twice
        /\ new.held = efRun[r].held /\ new.calm = efRun[r].calm /\ new.report = efRun[r].report
    BY <1>2 DEF EfRunType
  <1>4. EfBooked(new)
    BY <1>1, <1>2, <1>3 DEF EfBooked
  <1>5. efRun' = [efRun EXCEPT ![r] = new]
    BY <1>1
  <1> HIDE DEF new
  <1>6. efRun' \in [EfRuns -> EfRunType] /\ \A x \in EfRuns : efRun'[x] = IF x = r THEN new ELSE efRun[x]
    BY <1>2, <1>3, <1>5
  <1>7. EfTyped' /\ EfCovered'
    BY <1>1, <1>6 DEF EfInductive, EfTyped, EfCovered
  <1>8. ASSUME NEW x \in EfRuns PROVE EfBooked(efRun[x])' /\ EfHad(efRun[x])'
    <2>1. EfBooked(efRun[x]) /\ EfHad(efRun[x])
      BY <1>8 DEF EfInductive
    <2>2. CASE x = r
      BY <1>1, <1>3, <1>4, <1>6, <2>1, <2>2 DEF EfBooked, EfHad, EfFree
    <2>3. CASE x # r
      BY <1>1, <1>6, <2>1, <2>3 DEF EfBooked, EfHad, EfFree
    <2> QED BY <2>2, <2>3
  <1>9. EfOnePerProcess'
    BY <1>3, <1>6 DEF EfInductive, EfOnePerProcess, EfAt
  <1>10. EfClean'
    <2>1. EfAuto \in EfRuns
      BY DEF EfAuto, EfRuns, EfAssumption
    <2> QED BY <1>1, <1>3, <1>6, <2>1 DEF EfInductive, EfClean
  <1>11. EfAllTried' /\ EfCounted' /\ EfNotAgain' /\ EfWithinSellable'
    BY <1>1 DEF EfInductive, EfAllTried, EfCounted, EfNotAgain, EfWithinSellable
  <1> QED BY <1>7, <1>8, <1>9, <1>10, <1>11 DEF EfInductive

\* A flatten that gets no positions has nothing to report but that.
LEMMA EfFailsStep == ASSUME EfAssumption, EfInductive, NEW r \in EfRuns, EfFails(r) PROVE EfInductive'
  <1> DEFINE run == [efRun[r] EXCEPT !.failed = 1]
  <1>1. /\ efRun[r].pc \in {"idle", "armed"} /\ EfEnd(r, run) /\ UNCHANGED <<efBroker, efOthers>>
    BY DEF EfFails, EfCalled
  <1>2. efRun[r] \in EfRunType /\ EfBooked(efRun[r])
    BY DEF EfInductive, EfTyped
  <1>3. run \in EfRunType /\ run.dry = efRun[r].dry /\ run.held = efRun[r].held /\ run.sent = efRun[r].sent
    BY <1>2 DEF EfRunType
  <1> HIDE DEF run
  <1>4. \A s \in EfSymbols : ~(run.held[s] > 0)
    <2>1. \A s \in EfSymbols : efRun[r].held[s] = 0
      BY <1>1, <1>2 DEF EfBooked
    <2> QED BY <1>3, <2>1
  <1>5. efRun[r].sent = 0
    BY <1>1, <1>2 DEF EfBooked
  <1> QED BY <1>1, <1>3, <1>4, <1>5, EfEndStep

\* A flatten starts its books with the positions it is told of.
LEMMA EfFetchStep == ASSUME EfAssumption, EfInductive, NEW r \in EfRuns, EfFetch(r) PROVE EfInductive'
  <1> EfHeld \in Nat /\ EfManual \in Nat
    BY DEF EfAssumption
  <1>1. /\ efRun[r].pc \in {"idle", "armed"} /\ EfLockFree(r) /\ efBroker' = efBroker /\ efOthers' = efOthers
    BY DEF EfFetch, EfCalled
  <1>2. /\ efRun \in [EfRuns -> EfRunType] /\ EfBooked(efRun[r])
        /\ efBroker \in [EfSymbols -> EfBrokerType] /\ efPast \in EfPastType
    BY DEF EfInductive, EfTyped
  <1>3. efPast' = [efPast EXCEPT !.again = @ \/ (r = EfAuto /\ \E s \in EfSymbols : efBroker[s].auto > 0)]
    BY DEF EfFetch
  <1>4. ASSUME NEW known \in BOOLEAN, NEW todo \in EfListings,
               efRun' = [efRun EXCEPT ![r] = [efRun[r] EXCEPT !.pc = "sells", !.calm = TRUE, !.todo = todo,
                     !.held = [s \in EfSymbols |-> IF s \in todo THEN efBroker[s].held ELSE 0],
                     !.report = [s \in EfSymbols |-> IF known THEN EfFree(s) ELSE EfUnknown]]]
        PROVE EfInductive'
    <2> DEFINE held == [s \in EfSymbols |-> IF s \in todo THEN efBroker[s].held ELSE 0]
               report == [s \in EfSymbols |-> IF known THEN EfFree(s) ELSE EfUnknown]
               new == [efRun[r] EXCEPT !.pc = "sells", !.calm = TRUE, !.todo = todo, !.held = held, !.report = report]
    <2>1. held \in [EfSymbols -> 0..EfHeld] /\ report \in [EfSymbols -> Nat] /\ todo \in SUBSET EfSymbols
      BY <1>2 DEF EfBrokerType, EfInductive, EfCovered, EfFree, EfUnknown, EfListings
    <2>2. \A s \in EfSymbols : (s \notin todo => held[s] = 0) /\ (report[s] = EfFree(s) \/ report[s] = EfUnknown)
      OBVIOUS
    <2>3. \A s \in EfSymbols : held[s] > 0 => s \in todo
      BY <2>2
    <2>4. efRun' = [efRun EXCEPT ![r] = new]
      BY <1>4
    <2> HIDE DEF held, report
    <2>5. /\ new \in EfRunType /\ new.pc = "sells" /\ new.todo = todo /\ new.held = held /\ new.report = report
          /\ new.sent = efRun[r].sent /\ new.failed = efRun[r].failed /\ new.whole = efRun[r].whole
          /\ new.missed = efRun[r].missed /\ new.twice = efRun[r].twice
      BY <1>2, <2>1 DEF EfRunType
    <2> HIDE DEF new
    <2>6. EfBooked(new)
      BY <1>1, <1>2, <2>3, <2>5, FS_EmptySet DEF EfBooked
    <2>7. \A s \in new.todo : EfFree(s)' = EfFree(s) /\ (new.report[s] = EfFree(s) \/ new.report[s] = EfUnknown)
      BY <1>1, <2>1, <2>2, <2>5 DEF EfFree
    <2>8. efRun' \in [EfRuns -> EfRunType] /\ \A x \in EfRuns : efRun'[x] = IF x = r THEN new ELSE efRun[x]
      BY <1>2, <2>4, <2>5
    <2>9. efPast' \in EfPastType /\ efPast'.over = efPast.over /\ efPast'.left = efPast.left
          /\ efPast'.odd = efPast.odd
          /\ efPast'.again = (efPast.again \/ (r = EfAuto /\ \E s \in EfSymbols : efBroker[s].auto > 0))
      BY <1>2, <1>3 DEF EfPastType
    <2>10. EfTyped' /\ EfCovered'
      BY <1>1, <2>8, <2>9 DEF EfInductive, EfTyped, EfCovered
    <2>11. ASSUME NEW x \in EfRuns PROVE EfBooked(efRun[x])' /\ EfHad(efRun[x])'
      <3>1. EfBooked(efRun[x]) /\ EfHad(efRun[x])
        BY <2>11 DEF EfInductive
      <3>2. CASE x = r
        <4>1. EfBooked(efRun[x])'
          BY <2>6, <2>8, <3>2 DEF EfBooked
        <4>2. \A s \in new.todo : EfFree(s) \in Int
          BY <1>2, <2>1, <2>5 DEF EfFree, EfBrokerType
        <4>3. EfHad(efRun[x])'
          BY <2>7, <2>8, <3>2, <4>2 DEF EfHad, EfUnknown
        <4> QED BY <4>1, <4>3
      <3>3. CASE x # r
        BY <1>1, <2>8, <3>1, <3>3 DEF EfBooked, EfHad, EfFree
      <3> QED BY <3>2, <3>3
    <2>12. EfOnePerProcess'
      <3>1. EfAt({"sells"})' \subseteq EfAt({"sells"}) \cup {r}
        BY <2>8 DEF EfAt
      <3>2. \A x \in EfAt({"sells"}) : EfProcess(x) # EfProcess(r)
        BY <1>1 DEF EfLockFree
      <3>3. \A x, y \in EfAt({"sells"}) : EfProcess(x) = EfProcess(y) => x = y
        BY DEF EfInductive, EfOnePerProcess
      <3>4. \A x, y \in EfAt({"sells"})' : EfProcess(x) = EfProcess(y) => x = y
        BY <3>1, <3>2, <3>3
      <3> QED BY <3>4 DEF EfOnePerProcess, EfProcess
    <2>13. EfAuto \in EfRuns /\ (r = EfAuto => efRun[EfAuto].pc # "done" /\ efRun[EfAuto].sent = 0)
      BY <1>1, <1>2 DEF EfAuto, EfRuns, EfBooked
    <2>14. EfClean'
      BY <1>1, <2>5, <2>8, <2>9, <2>13 DEF EfInductive, EfClean
    <2>15. EfNotAgain'
      <3>1. r = EfAuto => \A s \in EfSymbols : efBroker[s].auto = 0
        BY <2>13 DEF EfInductive, EfClean
      <3>2. r = EfAuto => ~\E s \in EfSymbols : efBroker[s].auto > 0
        BY <3>1
      <3>3. ~efPast.again
        BY DEF EfInductive, EfNotAgain
      <3> QED BY <2>9, <3>2, <3>3 DEF EfNotAgain
    <2>16. EfAllTried' /\ EfCounted' /\ EfWithinSellable'
      BY <2>9 DEF EfInductive, EfAllTried, EfCounted, EfWithinSellable
    <2> QED BY <2>10, <2>11, <2>12, <2>14, <2>15, <2>16 DEF EfInductive
  <1> QED BY <1>4 DEF EfFetch

\* A flatten that is through reports what its books say.
LEMMA EfFinishStep == ASSUME EfAssumption, EfInductive, NEW r \in EfRuns, EfFinish(r) PROVE EfInductive'
  <1>1. efRun[r].pc = "sells" /\ efRun[r].todo = {} /\ EfEnd(r, efRun[r]) /\ UNCHANGED <<efBroker, efOthers>>
    BY DEF EfFinish
  <1>2. efRun[r] \in EfRunType /\ EfBooked(efRun[r])
    BY DEF EfInductive, EfTyped
  <1> QED BY <1>1, <1>2, EfEndStep DEF EfBooked

-----------------------------------------------------------------------------
\* A turn that asks for nothing.
LEMMA EfQuietTurn ==
    ASSUME EfAssumption, EfInductive, NEW r \in EfRuns, NEW s \in EfSymbols, EfTurn(r, s), NEW new \in EfRunType,
           efRun' = [efRun EXCEPT ![r] = new], UNCHANGED <<efBroker, efOthers, efPast>>,
           new.pc = "sells", new.calm = efRun[r].calm, new.report = efRun[r].report, new.sent = efRun[r].sent,
           new.todo = efRun[r].todo \ {s}, EfBooked(new)
    PROVE  EfInductive'
  <1>1. efRun \in [EfRuns -> EfRunType] /\ efRun[r].pc = "sells"
    BY DEF EfInductive, EfTyped, EfTurn
  <1>2. efRun' \in [EfRuns -> EfRunType] /\ \A x \in EfRuns : efRun'[x] = IF x = r THEN new ELSE efRun[x]
    BY <1>1
  <1>3. EfTyped' /\ EfCovered'
    BY <1>2 DEF EfInductive, EfTyped, EfCovered
  <1>4. ASSUME NEW x \in EfRuns PROVE EfBooked(efRun[x])' /\ EfHad(efRun[x])'
    <2>1. EfBooked(efRun[x]) /\ EfHad(efRun[x]) /\ efRun[x] \in EfRunType
      BY <1>1, <1>4 DEF EfInductive
    <2>2. CASE x = r
      <3>1. EfHad(new)'
        BY <2>1, <2>2 DEF EfHad, EfFree
      <3> QED BY <1>2, <2>2, <3>1 DEF EfBooked, EfHad, EfFree
    <2>3. CASE x # r
      BY <1>2, <2>1, <2>3 DEF EfBooked, EfHad, EfFree
    <2> QED BY <2>2, <2>3
  <1>5. EfOnePerProcess'
    <2>1. EfAt({"sells"})' = EfAt({"sells"})
      BY <1>1, <1>2 DEF EfAt
    <2> QED BY <2>1 DEF EfInductive, EfOnePerProcess, EfProcess
  <1>6. EfClean'
    <2>1. EfAuto \in EfRuns
      BY DEF EfAuto, EfRuns, EfAssumption
    <2> QED BY <1>1, <1>2, <2>1 DEF EfInductive, EfClean
  <1>7. EfAllTried' /\ EfCounted' /\ EfNotAgain' /\ EfWithinSellable'
    BY DEF EfInductive, EfAllTried, EfCounted, EfNotAgain, EfWithinSellable
  <1> QED BY <1>3, <1>4, <1>5, <1>6, <1>7 DEF EfInductive

\* A position that cannot be sold is counted as failed.
LEMMA EfNoOrderStep ==
    ASSUME EfAssumption, EfInductive, NEW r \in EfRuns, NEW s \in EfSymbols, EfNoOrder(r, s) PROVE EfInductive'
  <1> DEFINE run == efRun[r]  new == EfStep(r, s, TRUE)
  <1>1. EfTurn(r, s) /\ efRun' = [efRun EXCEPT ![r] = new] /\ UNCHANGED <<efBroker, efOthers, efPast>>
    BY DEF EfNoOrder
  <1>2. EfTyped /\ run \in EfRunType /\ EfBooked(run) /\ run.pc = "sells" /\ s \in run.todo
    BY <1>1 DEF EfInductive, EfTyped, EfTurn
  <1>3. /\ new \in EfRunType /\ new.pc = run.pc /\ new.held = run.held /\ new.report = run.report
        /\ new.sent = run.sent /\ new.twice = run.twice /\ new.calm = run.calm /\ new.todo = run.todo \ {s}
        /\ new.failed = IF EfShort(run, s) THEN run.failed + 1 ELSE run.failed
        /\ new.missed = IF EfShort(run, s) THEN run.missed \cup {s} ELSE run.missed
        /\ new.whole = IF ~EfShort(run, s) THEN run.whole \cup {s} ELSE run.whole
    BY <1>2, EfStepFields
  <1> HIDE DEF run, new
  <1>4. EfBooked(new)
    <2>1. CASE EfShort(run, s)
      BY <1>2, <1>3, <2>1, EfTurnBooked
    <2>2. CASE ~EfShort(run, s)
      BY <1>2, <1>3, <2>2, EfTurnBooked
    <2> QED BY <2>1, <2>2
  <1> QED BY <1>1, <1>2, <1>3, <1>4, EfQuietTurn DEF run

\* A position without a price is counted as failed.
LEMMA EfNoPriceStep ==
    ASSUME EfAssumption, EfInductive, NEW r \in EfRuns, NEW s \in EfSymbols, EfNoPrice(r, s) PROVE EfInductive'
  <1> DEFINE run == efRun[r]  step == EfStep(r, s, FALSE)
             new == [step EXCEPT !.failed = EfPriceless(step, s)]
  <1>1. EfTurn(r, s) /\ efRun' = [efRun EXCEPT ![r] = new] /\ UNCHANGED <<efBroker, efOthers, efPast>>
    BY DEF EfNoPrice
  <1>2. EfTyped /\ run \in EfRunType /\ EfBooked(run) /\ run.pc = "sells" /\ s \in run.todo
    BY <1>1 DEF EfInductive, EfTyped, EfTurn
  <1>3. /\ step \in EfRunType /\ step.pc = run.pc /\ step.held = run.held /\ step.report = run.report
        /\ step.sent = run.sent /\ step.twice = run.twice /\ step.calm = run.calm /\ step.todo = run.todo \ {s}
        /\ step.failed = IF EfShort(run, s) THEN run.failed + 1 ELSE run.failed
        /\ step.missed = run.missed \cup {s} /\ step.whole = run.whole /\ EfShort(step, s) = EfShort(run, s)
    BY <1>2, EfStepFields
  <1>4. EfPriceless(step, s) = run.failed + 1 /\ run.failed + 1 \in Nat
    <2>1. run.failed \in Nat
      BY <1>2 DEF EfRunType
    <2> HIDE DEF step, run
    <2> QED BY <1>3, <2>1 DEF EfPriceless
  <1>5. /\ new \in EfRunType /\ new.pc = run.pc /\ new.held = run.held /\ new.report = run.report
        /\ new.sent = run.sent /\ new.twice = run.twice /\ new.calm = run.calm /\ new.todo = run.todo \ {s}
        /\ new.failed = run.failed + 1 /\ new.missed = run.missed \cup {s} /\ new.whole = run.whole
    BY <1>3, <1>4 DEF EfRunType
  <1> HIDE DEF run, new, step
  <1>6. EfBooked(new)
    BY <1>2, <1>5, EfTurnBooked
  <1> QED BY <1>1, <1>2, <1>5, <1>6, EfQuietTurn DEF run

-----------------------------------------------------------------------------
\* An order takes its position out of what is still to come, whatever became of it.
LEMMA EfOrderStep ==
    ASSUME EfAssumption, EfInductive, NEW r \in EfRuns, NEW s \in EfSymbols, EfOrder(r, s) PROVE EfInductive'
  <1> EfHeld \in Nat /\ EfManual \in Nat /\ EfAuto \in EfRuns
    BY DEF EfAssumption, EfAuto, EfRuns
  <1> DEFINE run == efRun[r]
             qty == EfAsked(run, s)
  <1>1. EfTurn(r, s) /\ qty > 0 /\ efOthers' = efOthers
    BY DEF EfOrder
  <1>2. PICK o \in EfOutcomes(s, qty) :
          /\ efRun' = [x \in EfRuns |->
                IF x # r THEN [efRun[x] EXCEPT !.calm = @ /\ o # "taken"]
                ELSE IF o # "raised" THEN [EfStep(r, s, o # "raised") EXCEPT !.sent = @ + 1]
                ELSE [EfStep(r, s, o # "raised") EXCEPT !.failed = @ + 1,
                        !.twice = IF EfShort(EfStep(r, s, o # "raised"), s) THEN @ + 1 ELSE @]]
          /\ efBroker' = IF o = "taken" THEN [efBroker EXCEPT ![s].rest = @ + qty,
                                      ![s].auto = IF r = EfAuto THEN @ + qty ELSE @]
                         ELSE efBroker
    BY DEF EfOrder
  <1> DEFINE taken == o = "taken"
             fine == o # "raised"
  <1>3. /\ efBroker' = IF taken THEN [efBroker EXCEPT ![s].rest = @ + qty,
                                      ![s].auto = IF r = EfAuto THEN @ + qty ELSE @]
                       ELSE efBroker
        /\ efPast' = [efPast EXCEPT !.over = @ \/
             (qty > EfFree(s) /\ efRun[r].calm /\ efRun[r].report[s] # EfUnknown)]
        /\ taken => fine /\ qty <= EfFree(s)
    BY <1>2 DEF EfOrder, EfOutcomes
  <1>4. /\ EfTyped /\ run \in EfRunType /\ EfBooked(run) /\ EfHad(run) /\ run.pc = "sells" /\ s \in run.todo
        /\ efRun \in [EfRuns -> EfRunType] /\ efBroker \in [EfSymbols -> EfBrokerType] /\ efPast \in EfPastType
        /\ EfCovered
    BY <1>1 DEF EfInductive, EfTyped, EfTurn
  <1>5. qty \in Nat /\ (qty = run.held[s] \/ (qty = run.report[s] /\ run.report[s] # EfUnknown))
        /\ (run.report[s] # EfUnknown => qty = run.report[s])
    BY <1>4 DEF EfAsked, EfRunType
  <1> DEFINE step == EfStep(r, s, fine)
             new == IF fine THEN [step EXCEPT !.sent = step.sent + 1]
                    ELSE [step EXCEPT !.failed = step.failed + 1,
                                      !.twice = IF EfShort(step, s) THEN step.twice + 1 ELSE step.twice]
  <1>6. taken \in BOOLEAN /\ fine \in BOOLEAN
    OBVIOUS
  <1>7. /\ step \in EfRunType /\ step.pc = run.pc /\ step.held = run.held /\ step.report = run.report
        /\ step.sent = run.sent /\ step.twice = run.twice /\ step.calm = run.calm /\ step.todo = run.todo \ {s}
        /\ step.failed = IF EfShort(run, s) THEN run.failed + 1 ELSE run.failed
        /\ step.missed = IF EfShort(run, s) \/ ~fine THEN run.missed \cup {s} ELSE run.missed
        /\ step.whole = IF fine /\ ~EfShort(run, s) THEN run.whole \cup {s} ELSE run.whole
        /\ EfShort(step, s) = EfShort(run, s)
    <2>1. CASE fine
      <3>1. fine = TRUE
        BY <2>1
      <3>2. step = EfStep(r, s, TRUE)
        BY <3>1
      <3> DEFINE all == EfStep(r, s, TRUE)
      <3>3. /\ all \in EfRunType /\ all.pc = run.pc /\ all.held = run.held /\ all.report = run.report
            /\ all.sent = run.sent /\ all.twice = run.twice /\ all.calm = run.calm /\ all.todo = run.todo \ {s}
            /\ all.failed = IF EfShort(run, s) THEN run.failed + 1 ELSE run.failed
            /\ all.missed = IF EfShort(run, s) THEN run.missed \cup {s} ELSE run.missed
            /\ all.whole = IF ~EfShort(run, s) THEN run.whole \cup {s} ELSE run.whole
            /\ EfShort(all, s) = EfShort(run, s)
        <4>1. EfTyped
          BY <1>4
        <4> QED BY ONLY EfAssumption, r \in EfRuns, s \in EfSymbols, <4>1, EfStepFields
      <3>4. step = all
        BY <3>2
      <3> HIDE DEF fine, step, all, run
      <3> QED BY <2>1, <3>3, <3>4
    <2>2. CASE ~fine
      <3>1. fine = FALSE
        BY <2>2
      <3>2. step = EfStep(r, s, FALSE)
        BY <3>1
      <3> DEFINE some == EfStep(r, s, FALSE)
      <3>3. /\ some \in EfRunType /\ some.pc = run.pc /\ some.held = run.held /\ some.report = run.report
            /\ some.sent = run.sent /\ some.twice = run.twice /\ some.calm = run.calm /\ some.todo = run.todo \ {s}
            /\ some.failed = IF EfShort(run, s) THEN run.failed + 1 ELSE run.failed
            /\ some.missed = run.missed \cup {s}
            /\ some.whole = run.whole
            /\ EfShort(some, s) = EfShort(run, s)
        <4>1. EfTyped
          BY <1>4
        <4> QED BY ONLY EfAssumption, r \in EfRuns, s \in EfSymbols, <4>1, EfStepFields
      <3>4. step = some
        BY <3>2
      <3> HIDE DEF fine, step, some, run
      <3> QED BY <2>2, <3>3, <3>4
    <2> QED BY <2>1, <2>2
  <1>8. \A x \in EfRuns : efRun'[x] = IF x = r THEN new ELSE [efRun[x] EXCEPT !.calm = efRun[x].calm /\ ~taken]
    BY <1>2
  <1>9. efRun' = [x \in EfRuns |-> efRun'[x]]
    BY <1>2
  <1> HIDE DEF taken, fine, step, qty, run
  <1>10. /\ new \in EfRunType /\ new.pc = run.pc /\ new.held = run.held /\ new.report = run.report
         /\ new.calm = run.calm /\ new.todo = run.todo \ {s}
         /\ new.sent = IF fine THEN run.sent + 1 ELSE run.sent
         /\ new.failed = IF fine THEN step.failed ELSE step.failed + 1
         /\ new.twice = IF ~fine /\ EfShort(run, s) THEN run.twice + 1 ELSE run.twice
         /\ new.missed = step.missed /\ new.whole = step.whole
    <2>1. step.sent + 1 \in Nat /\ step.failed + 1 \in Nat /\ step.twice + 1 \in Nat /\ step.twice \in Nat
      BY <1>7 DEF EfRunType
    <2>2. CASE fine
      BY <1>7, <2>1, <2>2 DEF EfRunType
    <2>3. CASE ~fine
      BY <1>7, <2>1, <2>3 DEF EfRunType
    <2> QED BY <2>2, <2>3
  <1>11. EfBooked(new)
    <2>0. run.failed \in Nat
      BY <1>4 DEF EfRunType
    <2>1. CASE EfShort(run, s) /\ fine
      BY <1>4, <1>7, <1>10, <2>0, <2>1, EfTurnBooked
    <2>2. CASE EfShort(run, s) /\ ~fine
      <3>1. /\ new.whole = run.whole /\ new.missed = run.missed \cup {s} /\ new.failed = run.failed + 2
            /\ new.twice = run.twice + 1 /\ new.pc = "sells" /\ new.held = run.held /\ new.todo = run.todo \ {s}
        BY <1>4, <1>7, <1>10, <2>0, <2>2
      <3> QED BY <1>4, <1>10, <3>1, EfTurnBooked
    <2>3. CASE ~EfShort(run, s) /\ fine
      BY <1>4, <1>7, <1>10, <2>0, <2>3, EfTurnBooked
    <2>4. CASE ~EfShort(run, s) /\ ~fine
      <3>1. /\ new.whole = run.whole /\ new.missed = run.missed \cup {s} /\ new.failed = run.failed + 1
            /\ new.twice = run.twice /\ new.pc = "sells" /\ new.held = run.held /\ new.todo = run.todo \ {s}
        BY <1>4, <1>7, <1>10, <2>0, <2>4
      <3> QED BY <1>4, <1>10, <3>1, EfTurnBooked
    <2> QED BY <2>1, <2>2, <2>3, <2>4
  <1> HIDE DEF new
\* The others: disturbed if the broker took the order.
  <1>12. ASSUME NEW x \in EfRuns, x # r
         PROVE LET old == efRun[x]  nxt == efRun'[x] IN
               /\ nxt \in EfRunType /\ nxt.pc = old.pc /\ nxt.todo = old.todo /\ nxt.held = old.held
               /\ nxt.report = old.report /\ nxt.sent = old.sent /\ nxt.failed = old.failed /\ nxt.whole = old.whole
               /\ nxt.missed = old.missed /\ nxt.twice = old.twice
               /\ nxt.calm = (old.calm /\ ~taken)
    <2>1. efRun[x] \in EfRunType /\ (efRun[x].calm /\ ~taken) \in BOOLEAN
      BY <1>4, <1>12
    <2>2. efRun'[x] = [efRun[x] EXCEPT !.calm = efRun[x].calm /\ ~taken]
      BY <1>8, <1>12
    <2> QED BY <2>1, <2>2 DEF EfRunType
  <1>13. efRun'[r] = new
    BY <1>8
  <1>14. efRun' \in [EfRuns -> EfRunType]
    <2>1. \A x \in EfRuns : efRun'[x] \in EfRunType
      BY <1>10, <1>12, <1>13
    <2> QED BY <1>9, <2>1
\* The broker.
  <1>15. efBroker[s] \in EfBrokerType /\ efBroker[s].auto <= efBroker[s].rest /\ efBroker[s].rest <= efBroker[s].held
    BY <1>4 DEF EfCovered
  <1>16. taken => qty <= efBroker[s].held - efBroker[s].rest
    BY <1>3 DEF EfFree
  <1>17. taken => /\ efBroker'[s] \in EfBrokerType /\ efBroker'[s].held = efBroker[s].held
                  /\ efBroker'[s].rest = efBroker[s].rest + qty
                  /\ efBroker'[s].auto = IF r = EfAuto THEN efBroker[s].auto + qty ELSE efBroker[s].auto
    <2> SUFFICES ASSUME taken PROVE /\ efBroker'[s] \in EfBrokerType /\ efBroker'[s].held = efBroker[s].held
                  /\ efBroker'[s].rest = efBroker[s].rest + qty
                  /\ efBroker'[s].auto = IF r = EfAuto THEN efBroker[s].auto + qty ELSE efBroker[s].auto
      OBVIOUS
    <2>1. efBroker' = [efBroker EXCEPT ![s] = [efBroker[s] EXCEPT !.rest = efBroker[s].rest + qty,
                          !.auto = IF r = EfAuto THEN efBroker[s].auto + qty ELSE efBroker[s].auto]]
      BY <1>3, <1>4
    <2>2. efBroker'[s] = [efBroker[s] EXCEPT !.rest = efBroker[s].rest + qty,
                          !.auto = IF r = EfAuto THEN efBroker[s].auto + qty ELSE efBroker[s].auto]
      BY <1>4, <2>1
    <2>3. /\ efBroker[s].held \in 0..EfHeld /\ efBroker[s].rest \in 0..EfHeld /\ efBroker[s].auto \in 0..EfHeld
      BY <1>15 DEF EfBrokerType
    <2>4. efBroker[s].rest + qty \in 0..EfHeld /\ efBroker[s].auto + qty \in 0..EfHeld
      BY <1>5, <1>15, <1>16, <2>3
    <2> QED BY <1>15, <2>2, <2>3, <2>4 DEF EfBrokerType
  <1>18. /\ \A y \in EfSymbols : y # s \/ ~taken => efBroker'[y] = efBroker[y]
         /\ efBroker' \in [EfSymbols -> EfBrokerType]
    <2>1. CASE taken
      <3>1. efBroker' = [efBroker EXCEPT ![s] = efBroker'[s]]
        BY <1>3, <1>4, <2>1
      <3> QED BY <1>4, <1>17, <2>1, <3>1
    <2>2. CASE ~taken
      BY <1>3, <1>4, <2>2
    <2> QED BY <2>1, <2>2
  <1>19. EfCovered'
    <2> SUFFICES ASSUME NEW y \in EfSymbols
                 PROVE efBroker'[y].auto <= efBroker'[y].rest /\ efBroker'[y].rest <= efBroker'[y].held
      BY DEF EfCovered
    <2>1. CASE y = s /\ taken
      BY <1>5, <1>15, <1>16, <1>17, <2>1 DEF EfBrokerType
    <2>2. CASE y # s \/ ~taken
      BY <1>4, <1>18, <2>2 DEF EfCovered
    <2> QED BY <2>1, <2>2
\* What is told of it.
  <1>20. /\ efPast' \in EfPastType /\ efPast'.again = efPast.again /\ efPast'.left = efPast.left /\ efPast'.odd = efPast.odd
         /\ efPast'.over = (efPast.over \/ (qty > EfFree(s) /\ run.calm /\ run.report[s] # EfUnknown))
    BY <1>3, <1>4 DEF EfPastType, run
  <1>21. ~(qty > EfFree(s) /\ run.calm /\ run.report[s] # EfUnknown)
    BY <1>4, <1>5, <1>15 DEF EfHad, EfFree, EfBrokerType
  <1>22. EfTyped'
    BY <1>14, <1>18, <1>20 DEF EfTyped
  <1>23. EfAllTried' /\ EfCounted' /\ EfWithinSellable'
    BY <1>20, <1>21 DEF EfInductive, EfAllTried, EfCounted, EfWithinSellable
  <1>24. EfNotAgain'
    BY <1>20 DEF EfInductive, EfNotAgain
  <1>25. ASSUME NEW x \in EfRuns PROVE EfBooked(efRun[x])' /\ EfHad(efRun[x])'
    <2>0. EfBooked(efRun[x]) /\ EfHad(efRun[x]) /\ efRun[x] \in EfRunType
      BY <1>4, <1>25 DEF EfInductive
    <2>1. CASE x = r
      <3>1. EfHad(efRun[r])'
        <4>1. \A y \in run.todo \ {s} : y \in EfSymbols /\ efBroker'[y] = efBroker[y]
          BY <1>4, <1>18 DEF EfRunType
        <4> QED BY <1>4, <1>10, <1>13, <4>1 DEF EfHad, EfFree
      <3>2. EfBooked(efRun[r])'
        BY <1>11, <1>13 DEF EfBooked
      <3> QED BY <2>1, <3>1, <3>2
    <2>2. CASE x # r
      <3>1. EfBooked(efRun[x])'
        BY <1>12, <2>0, <2>2 DEF EfBooked
      <3>2. EfHad(efRun[x])'
        <4>1. efRun'[x].calm => \A y \in efRun[x].todo : y \in EfSymbols /\ efBroker'[y] = efBroker[y]
          BY <1>12, <1>18, <2>0, <2>2 DEF EfRunType
        <4> QED BY <1>12, <2>0, <2>2, <4>1 DEF EfHad, EfFree
      <3> QED BY <3>1, <3>2
    <2> QED BY <2>1, <2>2
  <1>26. EfOnePerProcess'
    <2>1. \A x \in EfRuns : efRun'[x].pc = efRun[x].pc
      BY <1>10, <1>12, <1>13 DEF run
    <2>2. EfAt({"sells"})' = EfAt({"sells"})
      BY <2>1 DEF EfAt
    <2> QED BY <2>2 DEF EfInductive, EfOnePerProcess, EfProcess
  <1>27. EfClean'
    <2> SUFFICES ASSUME efRun'[EfAuto].sent = 0, efRun'[EfAuto].pc # "done", NEW y \in EfSymbols
                 PROVE efBroker'[y].auto = 0
      BY DEF EfClean
    <2>1. CASE r = EfAuto
      <3>1. ~fine /\ run.sent = 0
        BY <1>4, <1>10, <1>13, <2>1 DEF EfRunType
      <3>2. ~taken
        BY <1>3, <3>1
      <3>3. efBroker[y].auto = 0
        BY <1>4, <2>1, <3>1 DEF EfInductive, EfClean, run
      <3> QED BY <1>18, <3>2, <3>3
    <2>2. CASE r # EfAuto
      <3>1. efRun[EfAuto].sent = 0 /\ efRun[EfAuto].pc # "done"
        BY <1>12, <2>2
      <3>2. efBroker[y].auto = 0
        BY <3>1 DEF EfInductive, EfClean
      <3> QED BY <1>17, <1>18, <2>2, <3>2
    <2> QED BY <2>1, <2>2
  <1> QED BY <1>19, <1>22, <1>23, <1>24, <1>25, <1>26, <1>27 DEF EfInductive

-----------------------------------------------------------------------------
\* A fill takes from what is held and what rests alike.
LEMMA EfFillStep == ASSUME EfAssumption, EfInductive, NEW s \in EfSymbols, EfFill(s) PROVE EfInductive'
  <1> EfHeld \in Nat
    BY DEF EfAssumption
  <1>1. /\ efBroker[s].rest > 0 /\ UNCHANGED <<efRun, efOthers, efPast>>
        /\ efBroker' = [efBroker EXCEPT ![s] = [held |-> efBroker[s].held - 1, rest |-> efBroker[s].rest - 1,
                          auto |-> IF efBroker[s].auto > 0 THEN efBroker[s].auto - 1 ELSE 0]]
    BY DEF EfFill, EfInductive, EfTyped
  <1>2. /\ efBroker \in [EfSymbols -> EfBrokerType] /\ efBroker[s].held \in 0..EfHeld /\ efBroker[s].rest \in 0..EfHeld
        /\ efBroker[s].auto \in 0..EfHeld /\ efBroker[s].auto <= efBroker[s].rest
        /\ efBroker[s].rest <= efBroker[s].held
    BY DEF EfInductive, EfTyped, EfBrokerType, EfCovered
  <1>3. /\ efBroker'[s].held = efBroker[s].held - 1 /\ efBroker'[s].rest = efBroker[s].rest - 1
        /\ efBroker'[s].auto = IF efBroker[s].auto > 0 THEN efBroker[s].auto - 1 ELSE 0
        /\ efBroker'[s] \in EfBrokerType
    BY <1>1, <1>2 DEF EfBrokerType
  <1>4. efBroker' \in [EfSymbols -> EfBrokerType] /\ \A y \in EfSymbols : y # s => efBroker'[y] = efBroker[y]
    BY <1>1, <1>2, <1>3
  <1>5. EfTyped'
    BY <1>1, <1>4 DEF EfInductive, EfTyped
  <1>6. EfCovered'
    BY <1>1, <1>2, <1>3, <1>4 DEF EfInductive, EfCovered
  <1>7. \A y \in EfSymbols : EfFree(y)' = EfFree(y)
    BY <1>1, <1>2, <1>3, <1>4 DEF EfFree
  <1>8. ASSUME NEW x \in EfRuns PROVE EfBooked(efRun[x])' /\ EfHad(efRun[x])'
    <2>1. EfBooked(efRun[x]) /\ EfHad(efRun[x]) /\ efRun[x] \in EfRunType
      BY <1>8 DEF EfInductive, EfTyped
    <2> QED BY <1>1, <1>7, <2>1 DEF EfBooked, EfHad, EfRunType
  <1>9. EfClean'
    BY <1>1, <1>3, <1>4 DEF EfInductive, EfClean
  <1>10. EfOnePerProcess' /\ EfAllTried' /\ EfCounted' /\ EfNotAgain' /\ EfWithinSellable'
    BY <1>1 DEF EfInductive, EfOnePerProcess, EfAt, EfAllTried, EfCounted, EfNotAgain,
       EfWithinSellable
  <1> QED BY <1>5, <1>6, <1>8, <1>9, <1>10 DEF EfInductive

\* Another sell ends the calm of the runs that count on there being none.
LEMMA EfOtherStep == ASSUME EfAssumption, EfInductive, NEW s \in EfSymbols, EfOther(s) PROVE EfInductive'
  <1> EfHeld \in Nat /\ EfAuto \in EfRuns
    BY DEF EfAssumption, EfAuto, EfRuns
  <1>1. /\ EfFree(s) > 0 /\ efPast' = efPast
        /\ efBroker' = [efBroker EXCEPT ![s] = [efBroker[s] EXCEPT !.rest = efBroker[s].rest + 1]]
        /\ efRun' = [r \in EfRuns |-> [efRun[r] EXCEPT !.calm = FALSE]]
    BY DEF EfOther, EfInductive, EfTyped
  <1>2. /\ efBroker \in [EfSymbols -> EfBrokerType] /\ efBroker[s].held \in 0..EfHeld /\ efBroker[s].rest \in 0..EfHeld
        /\ efBroker[s].auto \in 0..EfHeld /\ efBroker[s].auto <= efBroker[s].rest
        /\ efBroker[s].rest < efBroker[s].held
    BY <1>1 DEF EfInductive, EfTyped, EfBrokerType, EfCovered, EfFree
  <1>3. /\ efBroker'[s].held = efBroker[s].held /\ efBroker'[s].rest = efBroker[s].rest + 1
        /\ efBroker'[s].auto = efBroker[s].auto /\ efBroker'[s] \in EfBrokerType
    BY <1>1, <1>2 DEF EfBrokerType
  <1>4. efBroker' \in [EfSymbols -> EfBrokerType] /\ \A y \in EfSymbols : y # s => efBroker'[y] = efBroker[y]
    BY <1>1, <1>2, <1>3
  <1>5. EfCovered'
    BY <1>2, <1>3, <1>4 DEF EfInductive, EfCovered
  <1>6. ASSUME NEW x \in EfRuns
        PROVE /\ efRun'[x] \in EfRunType /\ efRun'[x].pc = efRun[x].pc /\ efRun'[x].sent = efRun[x].sent
              /\ EfBooked(efRun[x])' /\ EfHad(efRun[x])'
    <2>1. EfBooked(efRun[x]) /\ efRun[x] \in EfRunType
      BY <1>6 DEF EfInductive, EfTyped
    <2>2. LET old == efRun[x]  nxt == efRun'[x] IN
          /\ nxt \in EfRunType /\ nxt.pc = old.pc /\ nxt.todo = old.todo /\ nxt.held = old.held
          /\ nxt.sent = old.sent /\ nxt.failed = old.failed /\ nxt.whole = old.whole
          /\ nxt.missed = old.missed /\ nxt.twice = old.twice /\ nxt.calm = FALSE
      BY <1>1, <1>6, <2>1 DEF EfRunType
    <2> QED BY <2>1, <2>2 DEF EfBooked, EfHad
  <1>7. EfTyped'
    BY <1>1, <1>4, <1>6 DEF EfInductive, EfTyped
  <1>8. EfClean'
    BY <1>1, <1>3, <1>4, <1>6 DEF EfInductive, EfClean
  <1>9. EfOnePerProcess'
    <2>1. EfAt({"sells"})' = EfAt({"sells"})
      BY <1>6 DEF EfAt
    <2> QED BY <2>1 DEF EfInductive, EfOnePerProcess, EfProcess
  <1>10. EfAllTried' /\ EfCounted' /\ EfNotAgain' /\ EfWithinSellable'
    BY <1>1 DEF EfInductive, EfAllTried, EfCounted, EfNotAgain, EfWithinSellable
  <1> QED BY <1>5, <1>6, <1>7, <1>8, <1>9, <1>10 DEF EfInductive

-----------------------------------------------------------------------------
\* Every step of the flatten keeps the strengthened invariant.
LEMMA EfStepHolds == ASSUME EfAssumption, EfInductive, [EfNext]_efVars PROVE EfInductive'
  <1>1. ASSUME NEW r \in EfRuns, EfRefused(r) \/ EfFails(r) \/ EfFetch(r) \/ EfFinish(r) PROVE EfInductive'
    BY <1>1, EfRefusedStep, EfFailsStep, EfFetchStep, EfFinishStep
  <1>2. ASSUME NEW r \in EfRuns, NEW s \in EfSymbols, EfNoOrder(r, s) \/ EfNoPrice(r, s) \/ EfOrder(r, s)
        PROVE EfInductive'
    BY <1>2, EfNoOrderStep, EfNoPriceStep, EfOrderStep
  <1>3. ASSUME NEW s \in EfSymbols, EfFill(s) \/ EfOther(s) PROVE EfInductive'
    BY <1>3, EfFillStep, EfOtherStep
  <1>4. CASE UNCHANGED efVars
    <2>1. EfTyped' /\ EfCovered' /\ EfOnePerProcess' /\ EfClean' /\ EfAllTried' /\ EfCounted' /\ EfNotAgain' /\ EfWithinSellable'
      BY <1>4 DEF EfInductive, efVars, EfTyped, EfCovered, EfOnePerProcess, EfAt, EfClean,
         EfAllTried, EfCounted,
                  EfNotAgain, EfWithinSellable
    <2>2. ASSUME NEW x \in EfRuns PROVE EfBooked(efRun[x])' /\ EfHad(efRun[x])'
      <3>1. EfBooked(efRun[x]) /\ EfHad(efRun[x])
        BY <2>2 DEF EfInductive
      <3> QED BY <1>4, <3>1 DEF efVars, EfBooked, EfHad, EfFree
    <2> QED BY <2>1, <2>2 DEF EfInductive
  <1> QED BY <1>1, <1>2, <1>3, <1>4 DEF EfNext

\* The flatten's invariant, by the strengthened one.
LEMMA EfInvariant == EfInit /\ [][EfNext]_efVars => []EfInv
  <1>1. EfInit => EfInductive
    BY EfBegins, EfAssumption
  <1>2. EfInductive /\ [EfNext]_efVars => EfInductive'
    BY EfStepHolds, EfAssumption
  <1>3. EfInductive => EfInv
    BY EfHolds
  <1> QED BY <1>1, <1>2, <1>3, PTL

-----------------------------------------------------------------------------
(* The start of the worker.                                                  *)

BoMainType == [at : {"step", "enabling", "after", "running", "leaving"}, n : 1..9, halt : {"no", "row", "unread"},
               recovered : BOOLEAN, byRisk : BOOLEAN, allowed : BOOLEAN, why : {"starting", "stop", "failed"}]
BoPassType == [at : {"none", "positions", "orders", "asked", "lost", "commit", "done"}, todo : SUBSET BoOrders,
               on : SUBSET BoOrders, errors : BOOLEAN, shut : BOOLEAN]
BoOrderType == [row : {"open", "canceled", "filled"}, broker : {"live", "filled", "unlisted"}, sent : BOOLEAN]
BoGateType == [open : BOOLEAN, cause : BoCauses, latch : BOOLEAN]
BoWorldType == [halted : BOOLEAN, stop : BOOLEAN]
BoPastType == [faults : Nat, boots : Nat, sound : BOOLEAN, broke : BOOLEAN]
BoTyped ==
    /\ boMain \in BoMainType /\ boPass \in BoPassType /\ boOrder \in [BoOrders -> BoOrderType]
    /\ boGate \in BoGateType /\ boWorld \in BoWorldType
    /\ boPast \in BoPastType

\* The pass has one order in hand, whose cancel is out before its row is closed.
BoOneInHand == \A o, q \in boPass.on : o = q
BoSentFirst ==
    /\ BoLostIsSent
    /\ boPass.at = "commit" => \A o \in boPass.on : boOrder[o].sent

\* Whoever may open the gate comes from a recovery that was sound.
BoMayOpen ==
    /\ BoGateEarned
    /\ boMain.recovered => boPast.sound
    /\ boMain.allowed => boMain.recovered \/ boMain.byRisk

\* A failure that stops the start, and is not the stop's own, was one.
BoToldApart ==
    /\ BoStopToldApart
    /\ boGate.latch \/ boMain.halt = "unread" => boPast.broke
    /\ boPass.errors => boPast.broke \/ boWorld.stop \/ boPass.shut
    /\ boMain.at = "step" /\ boPass.shut => boMain.n > 6

BoInductive == BoTyped /\ BoOneInHand /\ BoSentFirst /\ BoMayOpen /\ BoToldApart

\* A failure of the broker or the database.
LEMMA BoFaulted ==
    ASSUME boPast \in BoPastType, BoFault
    PROVE  boPast' \in BoPastType /\ boPast'.broke /\ boPast'.sound = boPast.sound
  <1> DEFINE n == boPast.faults + 1
  <1>1. n \in Nat /\ boPast' = [boPast EXCEPT !.faults = n, !.broke = TRUE]
    BY DEF BoFault, BoPastType
  <1> HIDE DEF n
  <1> QED BY <1>1 DEF BoPastType

\* The step a number stands for.
LEMMA BoStepNumbers ==
    ASSUME BoTyped
    PROVE  /\ boMain.n \in 1..9 /\ boMain.at \in {"step", "enabling", "after", "running", "leaving"}
           /\ BoIn("db") <=> boMain.at = "step" /\ boMain.n = 1
           /\ BoIn("redis") <=> boMain.at = "step" /\ boMain.n = 2
           /\ BoIn("risk") <=> boMain.at = "step" /\ boMain.n = 3
           /\ BoIn("balance") <=> boMain.at = "step" /\ boMain.n = 4
           /\ BoIn("positions") <=> boMain.at = "step" /\ boMain.n = 5
           /\ BoIn("reconcile") <=> boMain.at = "step" /\ boMain.n = 6
           /\ BoIn("pending") <=> boMain.at = "step" /\ boMain.n = 7
           /\ BoIn("validate") <=> boMain.at = "step" /\ boMain.n = 8
           /\ BoIn("enable") <=> boMain.at = "step" /\ boMain.n = 9
  <1>1. /\ boMain.n \in 1..9 /\ boMain.at \in {"step", "enabling", "after", "running", "leaving"}
    BY DEF BoTyped, BoMainType
  <1>2. /\ BoSteps[1] = "db" /\ BoSteps[2] = "redis" /\ BoSteps[3] = "risk" /\ BoSteps[4] = "balance"
        /\ BoSteps[5] = "positions" /\ BoSteps[6] = "reconcile" /\ BoSteps[7] = "pending"
        /\ BoSteps[8] = "validate" /\ BoSteps[9] = "enable"
    BY DEF BoSteps
  <1>3. \/ boMain.n = 1 \/ boMain.n = 2 \/ boMain.n = 3 \/ boMain.n = 4 \/ boMain.n = 5
        \/ boMain.n = 6 \/ boMain.n = 7 \/ boMain.n = 8 \/ boMain.n = 9
    BY <1>1
  <1> QED BY <1>1, <1>2, <1>3 DEF BoIn, BoStep

\* What shutting the gate leaves of it.
LEMMA BoGateMoves ==
    ASSUME BoTyped, BoGateEarned
    PROVE  /\ \A cause \in {"untrusted", "risk"} :
                /\ BoDisabled(cause) \in BoGateType /\ ~BoDisabled(cause).open
                /\ BoDisabled(cause).latch = boGate.latch
                /\ boGate.latch => BoDisabled(cause).cause \in {"record", "untrusted"}
           /\ BoLatched \in BoGateType /\ ~BoLatched.open /\ BoLatched.cause \in {"record", "untrusted"}
           /\ BoEnabled \in BoGateType /\ BoEnabled.latch = boGate.latch
           /\ boGate.latch => BoEnabled = boGate
           /\ ~boGate.latch => BoEnabled.cause = "none"
  BY DEF BoTyped, BoGateType, BoCauses, BoGateEarned, BoDisabled, BoLatched, BoEnabled

\* What the main thread gives up with.
LEMMA BoGivesUpGate ==
    ASSUME BoTyped, BoGateEarned, NEW why \in {"stop", "failed"}, BoGivesUp(why)
    PROVE  /\ boMain' \in BoMainType /\ boMain'.at = "after" /\ boMain'.why = why /\ boMain'.halt = boMain.halt
           /\ boMain'.recovered = boMain.recovered /\ boMain'.byRisk = boMain.byRisk
           /\ boMain'.allowed = boMain.allowed
           /\ boGate' \in BoGateType /\ ~boGate'.open /\ boGate'.latch = boGate.latch
           /\ boGate.latch => boGate'.cause \in {"record", "untrusted"}
  BY BoGateMoves DEF BoGivesUp, BoTyped, BoMainType

\* The main thread's steps.
LEMMA BoMainStep ==
    ASSUME BoInductive,
           BoAborts \/ BoStores \/ BoRisk \/ BoProbe \/ BoReconcile \/ BoPending \/ BoValidate \/ BoEnableCheck
    PROVE  BoInductive'
  <1> USE DEF BoInductive, BoOneInHand, BoSentFirst, BoLostIsSent, BoMayOpen, BoGateEarned, BoToldApart, BoStopToldApart
  <1>0. /\ boMain \in BoMainType /\ boPass \in BoPassType /\ boGate \in BoGateType
        /\ boWorld \in BoWorldType
        /\ boPast \in BoPastType
    BY DEF BoTyped
  <1>a. ASSUME BoFault PROVE boPast' \in BoPastType /\ boPast'.broke /\ boPast'.sound = boPast.sound
    BY <1>0, <1>a, BoFaulted
  <1>1. CASE BoAborts
    <2>1. boPass' \in BoPassType /\ boPass' = [boPass EXCEPT !.shut = TRUE]
      BY <1>0, <1>1 DEF BoAborts, BoPassType
    <2>2. /\ BoGivesUp("stop") /\ boWorld.stop /\ UNCHANGED <<boOrder, boWorld, boPast>>
          /\ boPass'.on = boPass.on /\ boPass'.at = boPass.at
      BY <1>0, <1>1, <2>1 DEF BoAborts, BoPassType
    <2> QED BY <1>0, <2>1, <2>2, BoGivesUpGate DEF BoTyped
  <1>2. CASE BoStores \/ BoProbe \/ BoPending
    <2>1. boMain.at = "step" /\ boMain.n \in {1, 2, 4, 5, 7} /\ UNCHANGED <<boPass, boOrder, boWorld>>
      BY <1>2, BoStepNumbers DEF BoStores, BoProbe, BoPending
    <2>2. \/ boMain' = BoNext(boMain) /\ BoWell /\ UNCHANGED boGate
          \/ BoFault /\ BoGivesUp("failed")
      BY <1>2 DEF BoStores, BoProbe, BoPending
    <2>3. CASE boMain' = BoNext(boMain) /\ BoWell /\ UNCHANGED boGate
      <3>1. boMain' \in BoMainType /\ boMain' = [boMain EXCEPT !.n = @ + 1]
        BY <1>0, <2>1, <2>3 DEF BoNext, BoMainType
      <3> QED BY <1>0, <2>1, <2>3, <3>1 DEF BoWell, BoTyped, BoMainType
    <2>4. CASE BoFault /\ BoGivesUp("failed")
      BY <1>0, <1>a, <2>1, <2>4, BoGivesUpGate DEF BoTyped, BoMainType
    <2> QED BY <2>2, <2>3, <2>4
  <1>3. CASE BoRisk \/ BoValidate
    <2>1. boMain.at = "step" /\ boMain.n \in {3, 8} /\ UNCHANGED <<boPass, boOrder, boGate, boWorld>>
      BY <1>3, BoStepNumbers DEF BoRisk, BoValidate
    <2>2. /\ boMain' \in BoMainType /\ boMain'.at = "step" /\ boMain'.n = boMain.n + 1 /\ boMain'.why = boMain.why
          /\ boMain'.recovered = boMain.recovered /\ boMain'.byRisk = boMain.byRisk /\ boMain'.allowed = boMain.allowed
          /\ boMain'.halt = "unread" => boMain.halt = "unread" \/ boPast'.broke
          /\ boPast' \in BoPastType
          /\ boPast'.sound = boPast.sound /\ (boPast.broke => boPast'.broke)
      <3>1. [boMain EXCEPT !.n = @ + 1] \in BoMainType
        BY <1>0, <2>1 DEF BoMainType
      <3>2. CASE BoValidate
        BY <1>0, <2>1, <3>1, <3>2 DEF BoValidate, BoNext, BoMainType
      <3>3. ASSUME NEW halt \in {"no", "row", "unread"}, boMain' = [BoNext(boMain) EXCEPT !.halt = halt]
            PROVE  /\ boMain' \in BoMainType /\ boMain'.at = "step" /\ boMain'.n = boMain.n + 1
                   /\ boMain'.why = boMain.why /\ boMain'.recovered = boMain.recovered
                   /\ boMain'.byRisk = boMain.byRisk /\ boMain'.allowed = boMain.allowed /\ boMain'.halt = halt
        BY <1>0, <2>1, <3>1, <3>3 DEF BoNext, BoMainType
      <3>4. CASE BoWell /\ boMain' = [BoNext(boMain) EXCEPT !.halt = IF boWorld.halted THEN "row" ELSE "no"]
        <4> DEFINE halt == IF boWorld.halted THEN "row" ELSE "no"
        <4>1. halt \in {"no", "row", "unread"} /\ halt # "unread" /\ boMain' = [BoNext(boMain) EXCEPT !.halt = halt]
          BY <3>4
        <4> HIDE DEF halt
        <4> QED BY <1>0, <3>3, <3>4, <4>1 DEF BoWell
      <3>5. CASE BoFault /\ boMain' = [BoNext(boMain) EXCEPT !.halt = "unread"]
        BY <1>0, <1>a, <3>3, <3>5
      <3> QED BY <1>3, <3>2, <3>4, <3>5 DEF BoRisk
    <2> QED BY <1>0, <2>1, <2>2 DEF BoTyped
  <1>4. CASE BoReconcile
    <2>1. boPass' = [BoNoPass EXCEPT !.at = "positions"] /\ boPass' \in BoPassType
      BY <1>4 DEF BoReconcile, BoNoPass, BoPassType
    <2> QED BY <1>0, <1>4, <2>1 DEF BoReconcile, BoNoPass, BoTyped
  <1>5. CASE BoEnableCheck
    <2>1. boMain.at = "step" /\ boMain.n = 9 /\ UNCHANGED <<boPass, boOrder, boWorld>>
      BY <1>5, BoStepNumbers DEF BoEnableCheck
    <2>2. CASE BoGivesUp("failed") /\ (BoFault \/ ((boGate.latch \/ boMain.halt = "unread") /\ BoWell))
      BY <1>0, <1>a, <2>1, <2>2, BoGivesUpGate DEF BoWell, BoTyped, BoMainType
    <2>3. CASE /\ boMain.halt = "row" /\ BoWell /\ boGate' = BoDisabled("risk") /\ ~boGate.latch
               /\ boMain' = [boMain EXCEPT !.at = "after", !.byRisk = TRUE]
      <3>1. boMain' \in BoMainType
        BY <1>0, <2>3 DEF BoMainType
      <3>2. boGate' \in BoGateType /\ ~boGate'.open /\ ~boGate'.latch
        BY <1>0, <2>3, BoGateMoves DEF BoGateType
      <3> QED BY <1>0, <2>1, <2>3, <3>1, <3>2 DEF BoWell, BoTyped, BoMainType
    <2>4. CASE boMain.halt = "no" /\ BoWell /\ UNCHANGED boGate /\ boMain' = [boMain EXCEPT !.at = "enabling"]
      <3>1. boMain' \in BoMainType
        BY <1>0, <2>4 DEF BoMainType
      <3> QED BY <1>0, <2>1, <2>4, <3>1 DEF BoWell, BoTyped, BoMainType
    <2> QED BY <1>5, <2>2, <2>3, <2>4 DEF BoEnableCheck
  <1> QED BY <1>1, <1>2, <1>3, <1>4, <1>5

\* The end of the wait for the pass.
LEMMA BoWaitStep == ASSUME BoInductive, BoWait PROVE BoInductive'
  <1> USE DEF BoInductive, BoOneInHand, BoSentFirst, BoLostIsSent, BoMayOpen, BoGateEarned, BoToldApart, BoStopToldApart
  <1>0. /\ boMain \in BoMainType /\ boPass \in BoPassType /\ boGate \in BoGateType
        /\ boWorld \in BoWorldType
        /\ boPast \in BoPastType
    BY DEF BoTyped
  <1>a. ASSUME BoFault PROVE boPast' \in BoPastType /\ boPast'.broke /\ boPast'.sound = boPast.sound
    BY <1>0, <1>a, BoFaulted
  <1>1. /\ boMain.at = "step" /\ boMain.n = 6 /\ UNCHANGED <<boOrder, boWorld>>
        /\ boPass' = [boPass EXCEPT !.shut = TRUE] /\ ~boPass.shut
    BY <1>0, BoStepNumbers DEF BoWait, BoWaitOver, BoPassType
  <1>2. boPass' \in BoPassType
    BY <1>0, <1>1 DEF BoPassType
  <1>b. boPass'.shut /\ boPass'.on = boPass.on /\ boPass'.at = boPass.at /\ boPass'.errors = boPass.errors
    BY <1>0, <1>1 DEF BoPassType
  <1>3. \/ BoGivesUp("stop") /\ BoWell
        \/ ~boWorld.stop /\ boPass.errors /\ BoGivesUp("failed") /\ BoWell
        \/ boMain' = BoNext(boMain) /\ BoWell /\ UNCHANGED boGate
        \/ BoFault /\ BoGivesUp("failed")
    BY DEF BoWait, BoWaitOver, BoStopSeen
  <1>4. CASE BoGivesUp("stop") /\ BoWell
    BY <1>0, <1>1, <1>2, <1>b, <1>4, BoGivesUpGate DEF BoWell, BoTyped
  <1>5. CASE ~boWorld.stop /\ boPass.errors /\ BoGivesUp("failed") /\ BoWell
    <2>1. boPast.broke
      BY <1>1, <1>5
    <2> QED BY <1>0, <1>1, <1>2, <1>b, <1>5, <2>1, BoGivesUpGate DEF BoWell, BoTyped
  <1>6. CASE boMain' = BoNext(boMain) /\ BoWell /\ UNCHANGED boGate
    <2>1. boMain' \in BoMainType /\ boMain' = [boMain EXCEPT !.n = @ + 1]
      BY <1>0, <1>1, <1>6 DEF BoNext, BoMainType
    <2> QED BY <1>0, <1>1, <1>2, <1>6, <2>1 DEF BoWell, BoTyped, BoMainType, BoPassType
  <1>7. CASE BoFault /\ BoGivesUp("failed")
    BY <1>0, <1>a, <1>1, <1>2, <1>b, <1>7, BoGivesUpGate DEF BoTyped
  <1> QED BY <1>3, <1>4, <1>5, <1>6, <1>7

\* The steps of the pass.
LEMMA BoPassStep ==
    ASSUME BoInductive,
           \/ BoPassPositions \/ BoPassOver
           \/ \E o \in BoOrders : BoPassAsk(o) \/ BoPassAnswer(o) \/ BoPassCancel(o) \/ BoPassCommit(o)
    PROVE  BoInductive'
  <1> USE DEF BoInductive, BoOneInHand, BoSentFirst, BoLostIsSent, BoMayOpen, BoGateEarned, BoToldApart, BoStopToldApart
  <1>0. /\ boMain \in BoMainType /\ boPass \in BoPassType /\ boGate \in BoGateType
        /\ boOrder \in [BoOrders -> BoOrderType]
        /\ boWorld \in BoWorldType
        /\ boPast \in BoPastType
    BY DEF BoTyped
  <1>a. ASSUME BoFault PROVE boPast' \in BoPastType /\ boPast'.broke /\ boPast'.sound = boPast.sound
    BY <1>0, <1>a, BoFaulted
  <1>1. UNCHANGED <<boMain, boGate, boWorld>> /\ boPass'.shut = boPass.shut
    BY <1>0 DEF BoPassPositions, BoPassOver, BoPassAsk, BoPassAnswer, BoPassCancel,
       BoPassCommit, BoPassType
  <1>2. /\ boPast' \in BoPastType
        /\ boPast'.sound = boPast.sound /\ (boPast.broke => boPast'.broke)
    BY <1>0, <1>a DEF BoPassPositions, BoPassOver, BoPassAsk, BoPassAnswer, BoPassCancel,
       BoPassCommit, BoWell
  <1>3. /\ boPass' \in BoPassType /\ \A o, q \in boPass'.on : o = q
        /\ boPass'.errors => boPass.errors \/ boPast'.broke \/ boWorld.stop \/ boPass.shut
    <2>1. CASE BoPassPositions \/ BoPassOver
      BY <1>0, <1>a, <2>1 DEF BoPassPositions, BoPassOver, BoPassType, BoOpenRows, BoGateStops
    <2>2. ASSUME NEW o \in BoOrders, BoPassAsk(o)
          PROVE /\ boPass' \in BoPassType /\ \A p, q \in boPass'.on : p = q
                /\ boPass'.errors => boPass.errors \/ boPast'.broke \/ boWorld.stop \/ boPass.shut
      BY <1>0, <2>2 DEF BoPassAsk, BoPassType, BoGateStops
    <2>3. ASSUME NEW o \in BoOrders, BoPassAnswer(o)
          PROVE /\ boPass' \in BoPassType /\ \A p, q \in boPass'.on : p = q
                /\ boPass'.errors => boPass.errors \/ boPast'.broke \/ boWorld.stop \/ boPass.shut
      BY <1>0, <1>a, <2>3 DEF BoPassAnswer, BoPassType, BoGateStops
    <2>4. ASSUME NEW o \in BoOrders, BoPassCancel(o) \/ BoPassCommit(o)
          PROVE /\ boPass' \in BoPassType /\ \A p, q \in boPass'.on : p = q
                /\ boPass'.errors => boPass.errors \/ boPast'.broke \/ boWorld.stop \/ boPass.shut
      BY <1>0, <1>a, <2>4 DEF BoPassCancel, BoPassCommit, BoPassType
    <2> QED BY <2>1, <2>2, <2>3, <2>4
  <1>4. /\ boOrder' \in [BoOrders -> BoOrderType]
        /\ \A o \in BoOrders : boOrder'[o].row = "canceled" => boOrder'[o].sent
        /\ boPass'.at = "commit" => \A o \in boPass'.on : boOrder'[o].sent
    <2>1. CASE BoPassPositions \/ BoPassOver
      BY <1>0, <2>1 DEF BoPassPositions, BoPassOver, BoPassType
    <2>2. ASSUME NEW o \in BoOrders, BoPassAsk(o)
          PROVE UNCHANGED boOrder /\ boPass'.at # "commit"
      BY <1>0, <2>2 DEF BoPassAsk, BoPassType
    <2>3. ASSUME NEW o \in BoOrders, BoPassAnswer(o)
          PROVE /\ boOrder' \in [BoOrders -> BoOrderType] /\ boPass'.at # "commit"
                /\ \A p \in BoOrders : boOrder'[p].row = "canceled" => boOrder'[p].sent
      <3>1. boPass'.at # "commit"
        BY <1>0, <2>3 DEF BoPassAnswer, BoPassType
      <3> DEFINE filled == [boOrder[o] EXCEPT !.row = "filled"]
      <3>2. boOrder' = boOrder \/ boOrder' = [boOrder EXCEPT ![o] = filled]
        <4>1. [boOrder EXCEPT ![o].row = @] = boOrder
          BY <1>0 DEF BoOrderType
        <4> QED BY <2>3, <4>1 DEF BoPassAnswer
      <3>3. filled \in BoOrderType /\ filled.row = "filled"
        BY <1>0 DEF BoOrderType
      <3> HIDE DEF filled
      <3> QED BY <1>0, <3>1, <3>2, <3>3
    <2>4. ASSUME NEW o \in BoOrders, BoPassCancel(o)
          PROVE /\ boOrder' \in [BoOrders -> BoOrderType]
                /\ \A p \in BoOrders : boOrder'[p].row = "canceled" => boOrder'[p].sent
                /\ \A p \in boPass'.on : boOrder'[p].sent
      <3>1. \A p \in boPass'.on : p = o
        BY <1>0, <2>4 DEF BoPassCancel, BoPassType
      <3>2. [boOrder[o] EXCEPT !.sent = TRUE] \in BoOrderType
        BY <1>0 DEF BoOrderType
      <3>3. boOrder' = [boOrder EXCEPT ![o] = [boOrder[o] EXCEPT !.sent = TRUE]]
        BY <2>4 DEF BoPassCancel, BoCancelSent
      <3>4. boOrder'[o].sent
        BY <1>0, <3>3 DEF BoOrderType
      <3> QED BY <1>0, <3>1, <3>2, <3>3, <3>4
    <2>5. ASSUME NEW o \in BoOrders, BoPassCommit(o)
          PROVE /\ boOrder' \in [BoOrders -> BoOrderType] /\ boPass'.at # "commit"
                /\ \A p \in BoOrders : boOrder'[p].row = "canceled" => boOrder'[p].sent
      <3>1. boPass'.at # "commit" /\ boOrder[o].sent
        BY <1>0, <2>5 DEF BoPassCommit, BoPassType
      <3> DEFINE closed == [boOrder[o] EXCEPT !.row = "canceled"]
      <3>2. boOrder' = boOrder \/ boOrder' = [boOrder EXCEPT ![o] = closed]
        BY <2>5 DEF BoPassCommit
      <3>3. closed \in BoOrderType /\ closed.sent
        BY <1>0, <3>1 DEF BoOrderType
      <3> HIDE DEF closed
      <3> QED BY <1>0, <3>1, <3>2, <3>3
    <2> QED BY <1>0, <2>1, <2>2, <2>3, <2>4, <2>5
  <1> QED BY <1>0, <1>1, <1>2, <1>3, <1>4 DEF BoTyped

\* The gate, its resume poll, and the world.
LEMMA BoOtherStep ==
    ASSUME BoInductive,
           \/ BoFillLost \/ BoEnable \/ BoAfter \/ BoHalt \/ BoResume \/ BoRelease \/ BoSignal \/ BoRestart
           \/ \E o \in BoOrders : BoFilled(o)
    PROVE  BoInductive'
  <1> USE DEF BoInductive, BoOneInHand, BoSentFirst, BoLostIsSent, BoMayOpen, BoGateEarned, BoToldApart, BoStopToldApart
  <1>0. /\ boMain \in BoMainType /\ boPass \in BoPassType /\ boGate \in BoGateType
        /\ boOrder \in [BoOrders -> BoOrderType]
        /\ boWorld \in BoWorldType
        /\ boPast \in BoPastType
    BY DEF BoTyped
  <1>1. CASE BoFillLost
    BY <1>0, <1>1, BoFaulted, BoGateMoves DEF BoFillLost, BoTyped, BoLatched
  <1>2. CASE BoEnable
    <2>1. boMain' \in BoMainType /\ boMain' = [boMain EXCEPT !.at = "after", !.recovered = TRUE]
      BY <1>0, <1>2 DEF BoEnable, BoMainType
    <2>2. boPast' \in BoPastType
          /\ boPast'.sound /\ boPast'.broke = boPast.broke
      BY <1>0, <1>2 DEF BoEnable, BoPastType
    <2> QED BY <1>0, <1>2, <2>1, <2>2, BoGateMoves DEF BoEnable, BoTyped, BoMainType
  <1>3. CASE BoAfter
    <2>1. /\ boMain' \in BoMainType /\ boMain'.at # "step" /\ boMain'.why = boMain.why /\ boMain'.halt = boMain.halt
          /\ boMain'.recovered = boMain.recovered /\ boMain'.byRisk = boMain.byRisk
          /\ boMain'.allowed => boMain.allowed \/ boMain.recovered \/ boMain.byRisk
      BY <1>0, <1>3 DEF BoAfter, BoMainType, BoMayResume
    <2> QED BY <1>0, <1>3, <2>1 DEF BoAfter, BoTyped
  <1>4. CASE BoHalt
    BY <1>0, <1>4, BoGateMoves DEF BoHalt, BoTyped, BoWorldType
  <1>5. CASE BoResume
    <2>1. /\ boPast' \in BoPastType
          /\ boPast'.sound /\ boPast'.broke = boPast.broke
      BY <1>0, <1>5 DEF BoResume, BoMainType, BoPastType
    <2> QED BY <1>0, <1>5, <2>1, BoGateMoves DEF BoResume, BoTyped
  <1>6. CASE BoRelease \/ BoSignal
    BY <1>0, <1>6 DEF BoRelease, BoSignal, BoTyped, BoWorldType
  <1>7. CASE BoRestart
    <2>1. /\ boMain' = BoMainAtStart /\ boMain' \in BoMainType /\ boPass' = BoNoPass /\ boPass' \in BoPassType
          /\ boGate' = BoGateAtStart(boWorld.halted) /\ boGate' \in BoGateType
          /\ boPast' \in BoPastType
          /\ boWorld' \in BoWorldType /\ UNCHANGED boOrder
      <3>1. BoMainAtStart \in BoMainType
        BY DEF BoMainAtStart, BoMainType
      <3>2. BoNoPass \in BoPassType
        BY DEF BoNoPass, BoPassType
      <3>3. BoGateAtStart(boWorld.halted) \in BoGateType
        BY DEF BoGateAtStart, BoGateType, BoCauses
      <3>4. boWorld' \in BoWorldType
        BY <1>0, <1>7 DEF BoRestart, BoWorldType
      <3>5. boPast' \in BoPastType
        <4> DEFINE n == boPast.boots + 1
        <4>1. n \in Nat
          BY <1>0 DEF BoPastType
        <4>2. boPast' = [boPast EXCEPT !.boots = n, !.sound = FALSE, !.broke = FALSE]
          BY <1>7 DEF BoRestart
        <4> HIDE DEF n
        <4> QED BY <1>0, <4>1, <4>2 DEF BoPastType
      <3> QED BY <1>7, <3>1, <3>2, <3>3, <3>4, <3>5 DEF BoRestart
    <2> QED BY <1>0, <2>1 DEF BoTyped, BoMainAtStart, BoNoPass, BoGateAtStart
  <1>8. ASSUME NEW o \in BoOrders, BoFilled(o) PROVE BoInductive'
    <2>1. /\ boOrder' \in [BoOrders -> BoOrderType]
          /\ \A p \in BoOrders : boOrder'[p].row = boOrder[p].row /\ boOrder'[p].sent = boOrder[p].sent
      BY <1>0, <1>8 DEF BoFilled, BoOrderType
    <2> QED BY <1>0, <1>8, <2>1 DEF BoFilled, BoTyped, BoPassType
  <1> QED BY <1>1, <1>2, <1>3, <1>4, <1>5, <1>6, <1>7, <1>8

\* The start's invariant, by the strengthened one.
LEMMA BoInvariant == BoInit /\ [][BoNextStep]_boVars => []BoInv
  <1>1. BoInit => BoInductive
    <2> SUFFICES ASSUME BoInit PROVE BoInductive
      OBVIOUS
    <2>1. BoMainAtStart \in BoMainType /\ BoNoPass \in BoPassType
      BY DEF BoMainAtStart, BoMainType, BoNoPass, BoPassType
    <2>2. boGate \in BoGateType /\ boWorld \in BoWorldType /\ ~boGate.open /\ ~boGate.latch
      BY DEF BoInit, BoGateAtStart, BoGateType, BoCauses, BoWorldType
    <2>3. boPast \in BoPastType
      BY DEF BoInit, BoPastType
    <2>4. boOrder \in [BoOrders -> BoOrderType] /\ \A o \in BoOrders : boOrder[o].row = "open"
      BY DEF BoInit, BoOrderType
    <2> QED
      BY <2>1, <2>2, <2>3, <2>4
      DEF BoInit, BoInductive, BoTyped, BoMainAtStart, BoNoPass, BoOneInHand, BoSentFirst, BoLostIsSent, BoMayOpen,
          BoGateEarned, BoToldApart, BoStopToldApart
  <1>2. BoInductive /\ [BoNextStep]_boVars => BoInductive'
    <2> SUFFICES ASSUME BoInductive, [BoNextStep]_boVars PROVE BoInductive'
      OBVIOUS
    <2>1. CASE UNCHANGED boVars
      BY <2>1 DEF boVars, BoInductive, BoTyped, BoOneInHand, BoSentFirst, BoLostIsSent,
         BoMayOpen, BoGateEarned,
                  BoToldApart, BoStopToldApart
    <2> QED BY <2>1, BoMainStep, BoWaitStep, BoPassStep, BoOtherStep DEF BoNextStep
  <1>3. BoInductive => BoInv
    <2> SUFFICES ASSUME BoInductive PROVE BoInv
      OBVIOUS
    <2>1. Cardinality(boPass.on) <= 1
      <3>1. CASE boPass.on = {}
        BY <3>1, FS_EmptySet
      <3>2. CASE boPass.on # {}
        <4>1. PICK o : boPass.on = {o}
          BY <3>2 DEF BoInductive, BoOneInHand
        <4>2. Cardinality({o}) = 1
          BY FS_Singleton
        <4> QED BY <4>1, <4>2
      <3> QED BY <3>1, <3>2
    <2>2. Len(BoSteps) = 9
      BY DEF BoSteps
    <2> QED
      BY <2>1, <2>2 DEF BoInductive, BoTyped, BoMainType, BoPassType, BoOrderType, BoGateType,
         BoSentFirst, BoMayOpen,
                        BoToldApart, BoInv, BoTypeOK
  <1> QED BY <1>1, <1>2, <1>3, PTL

-----------------------------------------------------------------------------
(* The watchdog.                                                             *)

WdKinds == {"thread_dead", "thread_hung", "heartbeat_missing"}
WdFindings == [kind : WdKinds, comp : WdThreads \union {"threads", "poller", "proc"}]
WdActions ==
    [type : {"restart_worker", "disable_strategy", "emergency_stop"}, target : WdRuns \union {"worker", ""}]
WdRoundType ==
    [pc : {"wait", "threads", "proc", "act"}, todo : SUBSET WdThreads, found : SUBSET WdFindings,
     acted : SUBSET [of : WdFindings, did : WdActions], ill : SUBSET WdThreads, proc : WdAge]
WdTyped ==
    /\ wdThread \in [WdThreads -> [alive : BOOLEAN, age : WdAge]]
    /\ wdProc \in WdAge
    /\ wdRound \in WdRoundType
    /\ wdCount \in [restarts : 0..WdMaxRestarts, done : 0..WdMaxRestarts]

\* Who counts as sick in a round is: a beat takes him off the list.
WdStillIll ==
    wdRound.pc # "wait" =>
        \A t \in wdRound.ill : ~wdThread[t].alive \/ WdOver(wdThread[t].age, WdHang)

\* The process's record is as old as when the round began, or fresh.
WdSameProc == wdRound.pc # "wait" => wdProc \in {wdRound.proc, 0}

\* A sick thread is still to be probed or has been found.
WdTells(f, t) == f.comp \in {t, "threads"} /\ f.kind \in {"thread_dead", "thread_hung"}
WdIllIsFound ==
    wdRound.pc # "wait" =>
        \A t \in wdRound.ill :
            \/ wdRound.pc = "threads" /\ t \in wdRound.todo
            \/ \E f \in wdRound.found : WdTells(f, t)

\* What was done is what the finding calls for, and a missing heartbeat was found
\* where it was missing.
WdDoneAsMapped ==
    /\ \A x \in wdRound.acted : x.did = WdAction(x.of) /\ x.of \in wdRound.found
    /\ \A f \in wdRound.found : f.kind = "heartbeat_missing" => WdOver(wdRound.proc, WdCritical)

WdInductive ==
    WdTyped /\ WdStillIll /\ WdSameProc /\ WdIllIsFound /\ WdDoneAsMapped /\ WdIllIsMet /\ WdRestartsCounted

\* The fields of a round after a step of it.
LEMMA WdProbes ==
    ASSUME WdTyped, WdProbeThreads
    PROVE  \/ /\ wdRound'.pc = "threads" /\ wdRound'.todo = {} /\ wdRound.todo = WdThreads
              /\ wdRound'.found = wdRound.found \union {WdFinding("thread_dead", "threads")}
              /\ UNCHANGED <<wdRound.acted, wdRound.ill, wdRound.proc>> /\ wdRound' \in WdRoundType
           \/ \E t \in wdRound.todo, broken \in BOOLEAN :
              /\ wdRound'.pc = "threads" /\ wdRound'.todo = wdRound.todo \ {t}
              /\ wdRound'.found = wdRound.found \union WdSeen(t, broken)
              /\ UNCHANGED <<wdRound.acted, wdRound.ill, wdRound.proc>> /\ wdRound' \in WdRoundType
           \/ /\ wdRound'.pc = "proc" /\ wdRound.todo = {}
              /\ \E found \in {{}, {WdFinding("thread_dead", "poller")}} : wdRound'.found = wdRound.found \union found
              /\ UNCHANGED <<wdRound.todo, wdRound.acted, wdRound.ill, wdRound.proc>> /\ wdRound' \in WdRoundType
  <1>1. CASE /\ wdRound.todo = WdThreads
             /\ wdRound' = [wdRound EXCEPT !.todo = {}, !.found = @ \union {WdFinding("thread_dead", "threads")}]
    <2>1. WdFinding("thread_dead", "threads") \in WdFindings
      BY DEF WdFinding, WdFindings, WdKinds
    <2> QED BY <1>1, <2>1 DEF WdTyped, WdRoundType, WdProbeThreads
  <1>2. ASSUME NEW t \in wdRound.todo, NEW broken \in BOOLEAN,
               wdRound' = [wdRound EXCEPT !.todo = WdLeft(@, t, broken), !.found = @ \union WdSeen(t, broken)]
        PROVE  /\ wdRound'.pc = "threads" /\ wdRound'.todo = wdRound.todo \ {t}
               /\ wdRound'.found = wdRound.found \union WdSeen(t, broken)
               /\ UNCHANGED <<wdRound.acted, wdRound.ill, wdRound.proc>> /\ wdRound' \in WdRoundType
    <2>1. t \in WdThreads /\ wdRound.pc = "threads"
      BY DEF WdTyped, WdRoundType, WdProbeThreads
    <2>2. WdSeen(t, broken) \subseteq WdFindings
      BY <2>1 DEF WdSeen, WdFinding, WdFindings, WdKinds
    <2> QED BY <1>2, <2>1, <2>2 DEF WdTyped, WdRoundType, WdLeft
  <1>3. ASSUME wdRound.todo = {}, NEW found \in {{}, {WdFinding("thread_dead", "poller")}},
               wdRound' = [wdRound EXCEPT !.pc = "proc", !.found = @ \union found]
        PROVE  /\ wdRound'.pc = "proc" /\ wdRound'.found = wdRound.found \union found
               /\ UNCHANGED <<wdRound.todo, wdRound.acted, wdRound.ill, wdRound.proc>> /\ wdRound' \in WdRoundType
    <2>1. found \subseteq WdFindings
      BY DEF WdFinding, WdFindings, WdKinds
    <2> QED BY <1>3, <2>1 DEF WdTyped, WdRoundType
  <1> QED BY <1>1, <1>2, <1>3 DEF WdProbeThreads

\* What the probe of the process does to the round.
LEMMA WdJudges ==
    ASSUME WdTyped, WdProbeProc
    PROVE  /\ wdRound.pc = "proc" /\ wdRound'.pc = "act" /\ wdRound'.found = wdRound.found \union WdAged(wdProc)
           /\ UNCHANGED <<wdRound.todo, wdRound.acted, wdRound.ill, wdRound.proc>> /\ wdRound' \in WdRoundType
  <1>1. WdAged(wdProc) \subseteq WdFindings
    BY DEF WdAged, WdFinding, WdFindings, WdKinds
  <1> QED BY <1>1 DEF WdProbeProc, WdTyped, WdRoundType

\* What an action, or the end of a round, does to the round.
LEMMA WdActs ==
    ASSUME WdTyped, WdAct
    PROVE  /\ wdRound.pc = "act"
           /\ UNCHANGED <<wdRound.todo, wdRound.found, wdRound.ill, wdRound.proc>> /\ wdRound' \in WdRoundType
           /\ \/ /\ wdRound'.pc = "act"
                 /\ \E f \in wdRound.found : wdRound'.acted = wdRound.acted \union {[of |-> f, did |-> WdAction(f)]}
              \/ /\ wdRound'.pc = "wait" /\ wdRound.found \subseteq {x.of : x \in wdRound.acted}
                 /\ wdRound'.acted = wdRound.acted
  <1>1. ASSUME NEW f \in wdRound.found,
               wdRound' = [wdRound EXCEPT !.acted = @ \union {[of |-> f, did |-> WdAction(f)]}]
        PROVE  /\ UNCHANGED <<wdRound.todo, wdRound.found, wdRound.ill, wdRound.proc>> /\ wdRound' \in WdRoundType
               /\ wdRound'.pc = wdRound.pc
               /\ wdRound'.acted = wdRound.acted \union {[of |-> f, did |-> WdAction(f)]}
    <2>1. f \in WdFindings
      BY DEF WdTyped, WdRoundType
    <2>2. WdAction(f) \in WdActions
      BY DEF WdAction, WdActions
    <2> DEFINE x == [of |-> f, did |-> WdAction(f)]
    <2>3. x \in [of : WdFindings, did : WdActions]
      BY <2>1, <2>2
    <2> HIDE DEF x
    <2> QED BY <1>1, <2>3 DEF WdTyped, WdRoundType, x
  <1>2. ASSUME wdRound' = [wdRound EXCEPT !.pc = "wait"]
        PROVE  /\ UNCHANGED <<wdRound.todo, wdRound.found, wdRound.ill, wdRound.proc, wdRound.acted>>
               /\ wdRound' \in WdRoundType /\ wdRound'.pc = "wait"
    BY <1>2 DEF WdTyped, WdRoundType
  <1>3. wdRound.pc = "act"
    BY DEF WdAct
  <1>4. \/ \E f \in wdRound.found : wdRound' = [wdRound EXCEPT !.acted = @ \union {[of |-> f, did |-> WdAction(f)]}]
        \/ wdRound.found \subseteq {x.of : x \in wdRound.acted} /\ wdRound' = [wdRound EXCEPT !.pc = "wait"]
    BY DEF WdAct
  <1> QED BY <1>1, <1>2, <1>3, <1>4

\* Every step keeps the types.
LEMMA WdTypedStep == WdTyped /\ [WdNext]_wdVars => WdTyped'
  <1> SUFFICES ASSUME WdTyped, [WdNext]_wdVars PROVE WdTyped'
    OBVIOUS
  <1>n. 0 \in WdAge /\ WdNever \in WdAge /\ (\A age \in WdAge : WdOlder(age) \in WdAge)
    BY WdAssumption DEF WdAge, WdNever, WdOldest, WdOlder
  <1>1. ASSUME NEW t \in WdThreads, WdBeat(t) \/ WdDie(t) PROVE WdTyped'
    <2>1. wdThread' \in [WdThreads -> [alive : BOOLEAN, age : WdAge]]
      BY <1>1, <1>n DEF WdTyped, WdBeat, WdDie
    <2>2. wdRound' \in WdRoundType
      BY <1>1 DEF WdTyped, WdBeat, WdDie, WdRoundType
    <2> QED BY <1>1, <2>1, <2>2 DEF WdTyped, WdBeat, WdDie
  <1>2. CASE WdProcBeat
    BY <1>2, <1>n DEF WdProcBeat, WdTyped
  <1>3. CASE WdTick
    <2>1. wdThread' \in [WdThreads -> [alive : BOOLEAN, age : WdAge]]
      BY <1>3, <1>n DEF WdTick, WdTyped
    <2>2. wdRound' \in WdRoundType /\ wdProc' \in WdAge
      BY <1>3, <1>n DEF WdTick, WdTyped, WdNoRound, WdRoundType
    <2> QED BY <1>3, <2>1, <2>2 DEF WdTick, WdTyped
  <1>4. CASE WdStart
    <2>1. wdRound' \in WdRoundType
      BY <1>4, <1>n DEF WdStart, WdTyped, WdNoRound, WdRoundType
    <2> QED BY <1>4, <2>1 DEF WdStart, WdTyped
  <1>5. CASE WdProbeThreads
    <2>1. wdRound' \in WdRoundType
      BY <1>5, WdProbes
    <2> QED BY <1>5, <2>1 DEF WdProbeThreads, WdTyped
  <1>6. CASE WdProbeProc
    <2>1. wdRound' \in WdRoundType
      BY <1>6, WdJudges
    <2> QED BY <1>6, <2>1 DEF WdProbeProc, WdTyped
  <1>7. CASE WdAct
    <2>1. wdRound' \in WdRoundType
      BY <1>7, WdActs
    <2>2. wdCount' \in [restarts : 0..WdMaxRestarts, done : 0..WdMaxRestarts]
      BY <1>7, WdAssumption DEF WdAct, WdTyped, WdCounted
    <2> QED BY <1>7, <2>1, <2>2 DEF WdAct, WdTyped
  <1>8. CASE UNCHANGED wdVars
    BY <1>8 DEF wdVars, WdTyped
  <1> QED BY <1>1, <1>2, <1>3, <1>4, <1>5, <1>6, <1>7, <1>8 DEF WdNext

\* Every step keeps a sick thread to be probed, found or answered.
LEMMA WdIllStep ==
    WdTyped /\ WdStillIll /\ WdSameProc /\ WdIllIsFound /\ WdIllIsMet /\ [WdNext]_wdVars =>
        WdStillIll' /\ WdSameProc' /\ WdIllIsFound' /\ WdIllIsMet'
  <1> DEFINE Ill == WdStillIll /\ WdSameProc /\ WdIllIsFound /\ WdIllIsMet
  <1> SUFFICES ASSUME WdTyped, Ill, [WdNext]_wdVars PROVE Ill'
    OBVIOUS
  <1> USE DEF WdStillIll, WdSameProc, WdIllIsFound, WdIllIsMet
  <1>1. ASSUME NEW t \in WdThreads, WdBeat(t) PROVE Ill'
    <2>1. /\ wdRound'.pc = wdRound.pc /\ wdRound'.ill = wdRound.ill \ {t} /\ wdRound'.found = wdRound.found
          /\ wdRound'.acted = wdRound.acted /\ wdRound'.proc = wdRound.proc /\ wdRound'.todo = wdRound.todo
          /\ wdProc' = wdProc
      BY <1>1 DEF WdBeat, WdTyped, WdRoundType
    <2>2. \A u \in WdThreads \ {t} : wdThread'[u] = wdThread[u]
      BY <1>1 DEF WdBeat, WdTyped
    <2>3. wdRound.ill \subseteq WdThreads
      BY DEF WdTyped, WdRoundType
    <2> QED BY <2>1, <2>2, <2>3
  <1>2. ASSUME NEW t \in WdThreads, WdDie(t) PROVE Ill'
    <2>1. wdRound' = wdRound /\ wdProc' = wdProc
      BY <1>2 DEF WdDie
    <2>2. \A u \in WdThreads : wdThread'[u].age = wdThread[u].age /\ (wdThread'[u].alive => wdThread[u].alive)
      BY <1>2 DEF WdDie, WdTyped
    <2>3. wdRound.ill \subseteq WdThreads
      BY DEF WdTyped, WdRoundType
    <2> QED BY <2>1, <2>2, <2>3
  <1>3. CASE WdProcBeat
    BY <1>3 DEF WdProcBeat
  <1>4. CASE WdTick
    BY <1>4 DEF WdTick, WdNoRound
  <1>5. CASE WdStart
    <2>1. /\ wdRound'.pc = "threads" /\ wdRound'.todo = WdThreads /\ wdRound'.proc = wdProc
          /\ wdRound'.ill = {t \in WdThreads : ~wdThread[t].alive \/ WdOver(wdThread[t].age, WdHang)}
          /\ wdThread' = wdThread /\ wdProc' = wdProc
      BY <1>5 DEF WdStart, WdNoRound
    <2> QED BY <2>1
  <1>6. CASE WdProbeThreads
    <2>1. wdRound.pc = "threads" /\ wdThread' = wdThread /\ wdProc' = wdProc
      BY <1>6 DEF WdProbeThreads
    <2>2. wdRound.ill \subseteq WdThreads
      BY DEF WdTyped, WdRoundType
    <2>3. CASE /\ wdRound'.pc = "threads" /\ wdRound'.todo = {} /\ wdRound.todo = WdThreads
               /\ wdRound'.found = wdRound.found \union {WdFinding("thread_dead", "threads")}
               /\ UNCHANGED <<wdRound.acted, wdRound.ill, wdRound.proc>>
      <3>1. \A u \in WdThreads : WdTells(WdFinding("thread_dead", "threads"), u)
        BY DEF WdTells, WdFinding
      <3> QED BY <2>1, <2>2, <2>3, <3>1
    <2>4. ASSUME NEW t \in wdRound.todo, NEW broken \in BOOLEAN,
                 wdRound'.pc = "threads", wdRound'.todo = wdRound.todo \ {t},
                 wdRound'.found = wdRound.found \union WdSeen(t, broken),
                 UNCHANGED <<wdRound.acted, wdRound.ill, wdRound.proc>>
          PROVE  Ill'
      <3>1. ASSUME t \in wdRound.ill PROVE \E f \in WdSeen(t, broken) : WdTells(f, t)
        <4>1. ~wdThread[t].alive \/ WdOver(wdThread[t].age, WdHang)
          BY <2>1, <3>1
        <4>2. WdTells(WdFinding("thread_dead", t), t) /\ WdTells(WdFinding("thread_hung", t), t)
          BY DEF WdTells, WdFinding
        <4> QED BY <4>1, <4>2 DEF WdSeen
      <3>2. \A u \in wdRound.ill : u \in wdRound'.todo \/ \E f \in wdRound'.found : WdTells(f, u)
        BY <2>1, <2>4, <3>1
      <3> QED BY <2>1, <2>4, <3>2
    <2>5. CASE /\ wdRound'.pc = "proc" /\ wdRound.todo = {} /\ wdRound.found \subseteq wdRound'.found
               /\ UNCHANGED <<wdRound.todo, wdRound.acted, wdRound.ill, wdRound.proc>>
      BY <2>1, <2>5
    <2> QED BY <1>6, WdProbes, <2>3, <2>4, <2>5
  <1>7. CASE WdProbeProc
    <2>1. wdThread' = wdThread /\ wdProc' = wdProc
      BY <1>7 DEF WdProbeProc
    <2> QED BY <1>7, <2>1, WdJudges
  <1>8. CASE WdAct
    <2>1. wdThread' = wdThread /\ wdProc' = wdProc /\ wdRound.pc = "act"
      BY <1>8 DEF WdAct
    <2>2. UNCHANGED <<wdRound.todo, wdRound.found, wdRound.ill, wdRound.proc>>
      BY <1>8, WdActs
    <2>3. CASE wdRound'.pc = "act"
      BY <2>1, <2>2, <2>3
    <2>4. CASE wdRound'.pc = "wait"
      <3>1. wdRound.found \subseteq {x.of : x \in wdRound.acted} /\ wdRound'.acted = wdRound.acted
        BY <1>8, <2>4, WdActs
      <3>2. ASSUME NEW t \in wdRound.ill
            PROVE  \E x \in wdRound.acted : x.of.comp \in {t, "threads"} /\ x.of.kind \in {"thread_dead", "thread_hung"}
        <4>1. PICK f \in wdRound.found : WdTells(f, t)
          BY <2>1, <3>2
        <4>2. PICK x \in wdRound.acted : x.of = f
          BY <3>1
        <4> QED BY <4>1, <4>2 DEF WdTells
      <3> QED BY <2>2, <2>4, <3>1, <3>2
    <2> QED BY <1>8, <2>3, <2>4, WdActs
  <1>9. CASE UNCHANGED wdVars
    BY <1>9 DEF wdVars
  <1> QED BY <1>1, <1>2, <1>3, <1>4, <1>5, <1>6, <1>7, <1>8, <1>9 DEF WdNext

\* What was done is what was found calls for.
LEMMA WdMappedStep == WdTyped /\ WdSameProc /\ WdDoneAsMapped /\ [WdNext]_wdVars => WdDoneAsMapped'
  <1> SUFFICES ASSUME WdTyped, WdSameProc, WdDoneAsMapped, [WdNext]_wdVars PROVE WdDoneAsMapped'
    OBVIOUS
  <1> USE DEF WdDoneAsMapped
  <1>1. ASSUME NEW t \in WdThreads, WdBeat(t) \/ WdDie(t) PROVE WdDoneAsMapped'
    <2>1. wdRound'.found = wdRound.found /\ wdRound'.acted = wdRound.acted /\ wdRound'.proc = wdRound.proc
      BY <1>1 DEF WdBeat, WdDie, WdTyped, WdRoundType
    <2> QED BY <2>1
  <1>2. CASE WdProcBeat
    BY <1>2 DEF WdProcBeat
  <1>3. CASE WdTick \/ WdStart
    <2>1. wdRound'.found = {} /\ wdRound'.acted = {}
      <3>1. CASE WdTick
        BY <3>1 DEF WdTick, WdNoRound
      <3>2. CASE WdStart
        BY <3>2 DEF WdStart, WdNoRound
      <3> QED BY <1>3, <3>1, <3>2
    <2> QED BY <2>1
  <1>4. CASE WdProbeThreads
    <2>1. /\ UNCHANGED <<wdRound.acted, wdRound.proc>> /\ wdRound.found \subseteq wdRound'.found
          /\ \A f \in wdRound'.found \ wdRound.found : f.kind # "heartbeat_missing"
      BY <1>4, WdProbes DEF WdSeen, WdFinding
    <2> QED BY <2>1
  <1>5. CASE WdProbeProc
    <2>1. /\ UNCHANGED <<wdRound.acted, wdRound.proc>> /\ wdRound'.found = wdRound.found \union WdAged(wdProc)
          /\ wdRound.pc = "proc"
      BY <1>5, WdJudges
    <2>2. WdOver(wdProc, WdCritical) => WdOver(wdRound.proc, WdCritical)
      <3>1. wdProc \in {wdRound.proc, 0}
        BY <2>1 DEF WdSameProc
      <3>2. ~WdOver(0, WdCritical)
        BY WdAssumption DEF WdOver
      <3> QED BY <3>1, <3>2
    <2>3. \A f \in WdAged(wdProc) : WdOver(wdRound.proc, WdCritical)
      BY <2>2 DEF WdAged
    <2> QED BY <2>1, <2>3
  <1>6. CASE WdAct
    <2>1. UNCHANGED <<wdRound.found, wdRound.proc>>
      BY <1>6, WdActs
    <2>2. \A x \in wdRound'.acted : x \in wdRound.acted \/ \E f \in wdRound.found : x = [of |-> f, did |-> WdAction(f)]
      BY <1>6, WdActs
    <2> QED BY <2>1, <2>2
  <1>7. CASE UNCHANGED wdVars
    BY <1>7 DEF wdVars
  <1> QED BY <1>1, <1>2, <1>3, <1>4, <1>5, <1>6, <1>7 DEF WdNext

\* The strengthened invariant of the watchdog.
LEMMA WdInvariant == WdInit /\ [][WdNext]_wdVars => []WdInv
  <1>1. WdInit => WdInductive
    <2> SUFFICES ASSUME WdInit PROVE WdInductive
      OBVIOUS
    <2>1. WdTyped
      <3>1. WdNever \in WdAge /\ 0 \in 0..WdMaxRestarts
        BY WdAssumption DEF WdAge, WdNever, WdOldest
      <3>2. WdNoRound \in WdRoundType
        BY <3>1 DEF WdNoRound, WdRoundType
      <3> QED BY <3>1, <3>2 DEF WdInit, WdTyped
    <2>2. WdStillIll /\ WdSameProc /\ WdIllIsFound /\ WdDoneAsMapped /\ WdIllIsMet /\ WdRestartsCounted
      BY DEF WdInit, WdNoRound, WdStillIll, WdSameProc, WdIllIsFound, WdDoneAsMapped,
         WdIllIsMet, WdRestartsCounted
    <2> QED BY <2>1, <2>2 DEF WdInductive
  <1>2. WdInductive /\ [WdNext]_wdVars => WdInductive'
    <2>1. WdRestartsCounted /\ [WdNext]_wdVars => WdRestartsCounted'
      <3>1. WdAct /\ WdRestartsCounted => WdRestartsCounted'
        BY DEF WdAct, WdCounted, WdRestartsCounted
      <3>2. [WdNext]_wdVars /\ ~WdAct => wdCount' = wdCount
        BY DEF WdNext, WdBeat, WdDie, WdProcBeat, WdTick, WdStart, WdProbeThreads, WdProbeProc,
           wdVars
      <3> QED BY <3>1, <3>2 DEF WdRestartsCounted
    <2> QED BY <2>1, WdTypedStep, WdIllStep, WdMappedStep DEF WdInductive
  <1>3. WdInductive => WdInv
    <2> SUFFICES ASSUME WdInductive PROVE WdInv
      OBVIOUS
    <2>1. WdTypeOK
      BY DEF WdInductive, WdTyped, WdRoundType, WdTypeOK
    <2>2. WdRestartEarned /\ WdDisablesNamed
      <3> SUFFICES ASSUME NEW x \in wdRound.acted
                   PROVE  /\ x.did.type = "restart_worker" => WdOver(wdRound.proc, WdCritical)
                          /\ x.did.type = "disable_strategy" => x.did.target \in WdRuns /\ x.of.comp = x.did.target
        BY DEF WdRestartEarned, WdDisablesNamed
      <3>1. x.did = WdAction(x.of) /\ x.of \in wdRound.found
        BY DEF WdInductive, WdDoneAsMapped
      <3>2. CASE x.of.kind = "heartbeat_missing"
        <4>1. x.did = [type |-> "restart_worker", target |-> "worker"]
          BY <3>1, <3>2 DEF WdAction
        <4>2. x.did.type = "restart_worker"
          BY <4>1
        <4>3. WdOver(wdRound.proc, WdCritical)
          BY <3>1, <3>2 DEF WdInductive, WdDoneAsMapped
        <4> QED BY <4>2, <4>3
      <3>3. CASE x.of.kind # "heartbeat_missing" /\ x.of.comp \in WdRuns
        BY <3>1, <3>3 DEF WdAction
      <3>4. CASE x.of.kind # "heartbeat_missing" /\ x.of.comp \notin WdRuns
        <4>1. x.did = [type |-> "emergency_stop", target |-> ""]
          BY <3>1, <3>4 DEF WdAction
        <4>2. \A a, b : [type |-> a, target |-> b].type = a
          OBVIOUS
        <4>3. x.did.type = "emergency_stop"
          BY ONLY <4>1, <4>2
        <4> QED BY <4>3
      <3> QED BY <3>2, <3>3, <3>4
    <2> QED BY <2>1, <2>2 DEF WdInductive, WdInv
  <1> QED BY <1>1, <1>2, <1>3, PTL

-----------------------------------------------------------------------------
(* The live feed.                                                            *)

LfPcs == {"idle", "enter", "clear", "read", "publish", "keep", "check", "final"}
LfThreadType == [at : LfPcs, ch : LfChannels \union {"none"}, seen : 0..LfFills]
LfScreenType ==
    [at : {"away", "get", "send", "up"}, ch : LfChannels \union {"none"}, got : 0..LfFills,
     shows : [LfChannels -> 0..LfFills], passed : SUBSET LfChannels]
LfTyped ==
    /\ lfAccount \in 0..LfFills
    /\ lfRunning \in BOOLEAN /\ lfPending \in BOOLEAN /\ lfListening \in BOOLEAN /\ lfCut \in BOOLEAN
    /\ lfThread \in [LfThreads -> LfThreadType]
    /\ \A t \in LfThreads : lfThread[t].at \in {"read", "publish", "keep"} => lfThread[t].ch \in LfChannels
    /\ lfKept \in [LfChannels -> 0..LfFills] /\ lfFaults \in 0..LfFaults /\ lfMissed \subseteq LfChannels
    /\ lfScreen \in LfScreenType
    /\ lfScreen.at \in {"get", "send"} => lfScreen.ch \in LfChannels

\* The flag is up exactly while one thread publishes.
LfWorks(t) == lfThread[t].at \in {"clear", "read", "publish", "keep", "check"}
LfAlone ==
    ~lfCut => /\ \A t, u \in LfThreads : LfWorks(t) /\ LfWorks(u) => t = u
              /\ lfRunning = (\E t \in LfThreads : LfWorks(t))

\* Someone has still to see the last fill: who is about to ask, or who publishes
\* and will find the note.  If nobody has, what is on its way is the account as it
\* is, and every channel has its news or will come to it in this round.
LfAsked ==
    \/ \E t \in LfThreads : lfThread[t].at = "enter"
    \/ lfPending /\ \E t \in LfThreads : LfWorks(t)
LfAhead(t, ch) ==
    \/ lfThread[t].at = "clear"
    \/ lfThread[t].at \in {"read", "publish", "keep"} /\ lfThread[t].ch \in {"equity", ch}
LfFresh ==
    ~lfCut /\ ~LfAsked =>
        /\ \A t \in LfThreads : lfThread[t].at \in {"publish", "keep"} => lfThread[t].seen = lfAccount
        /\ \A ch \in LfChannels \ lfMissed : lfKept[ch] = lfAccount \/ \E t \in LfThreads : LfAhead(t, ch)

\* What the screen has been sent of a channel, if no news passed it by, is what is
\* kept of it, or what is about to be kept.
LfSent(ch) ==
    \/ lfScreen.at = "up" /\ ch \notin lfMissed
    \/ lfScreen.at \in {"get", "send"} /\ lfScreen.ch = "equity" /\ ch = "position"
LfNews(ch) == {t \in LfThreads : lfThread[t].at = "keep" /\ lfThread[t].ch = ch}
LfTold(ch) ==
    /\ lfScreen.at # "away" => \A t \in LfNews(ch) : lfScreen.at = "up" /\ lfScreen.shows[ch] = lfThread[t].seen
    /\ LfNews(ch) = {} /\ LfSent(ch) => lfScreen.shows[ch] = lfKept[ch]
    /\ LfNews(ch) = {} /\ lfScreen.at = "send" /\ lfScreen.ch = ch => lfScreen.got = lfKept[ch]
LfToldOf == ~lfCut => \A ch \in LfChannels \ lfScreen.passed : LfTold(ch)

LfInductive == LfTyped /\ LfAlone /\ LfFresh /\ LfToldOf


\* Every step keeps the types.
LEMMA LfTypedStep == LfTyped /\ [LfNext]_lfVars => LfTyped'
  <1> SUFFICES ASSUME LfTyped, [LfNext]_lfVars PROVE LfTyped'
    OBVIOUS
  <1>n. LfFills \in Nat /\ LfFaults \in Nat
    BY LfAssumption
  <1> USE DEF LfTyped, LfChannels, LfPcs, LfThreadType
  <1>a. ASSUME NEW t \in LfThreads, lfThread[t].at \in {"read", "publish", "keep"}, LfNextChannel(t)
        PROVE  /\ lfThread' \in [LfThreads -> LfThreadType]
               /\ \A u \in LfThreads : lfThread'[u].at \in {"read", "publish", "keep"} => lfThread'[u].ch \in LfChannels
    <2>1. lfThread[t].ch \in LfChannels
      BY <1>a
    <2>2. /\ LfAfter(lfThread[t].ch) \in LfPcs /\ LfNext1(lfThread[t].ch) \in LfChannels \union {"none"}
          /\ LfAfter(lfThread[t].ch) = "read" => LfNext1(lfThread[t].ch) \in LfChannels
          /\ LfAfter(lfThread[t].ch) \in {"read", "check"}
      BY <2>1 DEF LfAfter, LfNext1
    <2> DEFINE pc == LfAfter(lfThread[t].ch)
               ch == LfNext1(lfThread[t].ch)
    <2>3. 0 \in 0..LfFills
      BY <1>n
    <2>4. lfThread' = [lfThread EXCEPT ![t].at = pc, ![t].ch = ch, ![t].seen = 0]
      BY <1>a DEF LfNextChannel
    <2>5. pc \in LfPcs /\ ch \in LfChannels \union {"none"} /\ (pc = "read" => ch \in LfChannels)
          /\ pc \in {"read", "check"}
      BY <2>2
    <2> HIDE DEF pc, ch
    <2>6. [lfThread[t] EXCEPT !.at = pc, !.ch = ch, !.seen = 0] \in LfThreadType
      BY <2>3, <2>5
    <2>7. lfThread' = [lfThread EXCEPT ![t] = [lfThread[t] EXCEPT !.at = pc, !.ch = ch, !.seen = 0]]
      BY <2>4
    <2>8. lfThread'[t].at = pc /\ lfThread'[t].ch = ch
      BY <2>7
    <2> HIDE DEF LfThreadType
    <2>9. lfThread' \in [LfThreads -> LfThreadType]
      BY <2>6, <2>7
    <2>10. \A u \in LfThreads \ {t} : lfThread'[u] = lfThread[u]
      BY <2>7
    <2> QED BY <2>5, <2>8, <2>9, <2>10
  <1>b. ASSUME NEW t \in LfThreads, NEW pc \in LfPcs, NEW ch \in LfChannels \union {"none"}, LfGo(t, pc, ch),
               pc \in {"read", "publish", "keep"} => ch \in LfChannels
        PROVE  /\ lfThread' \in [LfThreads -> LfThreadType]
               /\ \A u \in LfThreads : lfThread'[u].at \in {"read", "publish", "keep"} => lfThread'[u].ch \in LfChannels
    BY <1>b DEF LfGo
  <1>1. ASSUME NEW t \in LfThreads, LfFill(t) \/ LfEnter(t) \/ LfClear(t) PROVE LfTyped'
    <2>1. CASE LfFill(t)
      <3>1. lfAccount' \in 0..LfFills
        BY <2>1, <1>n DEF LfFill
      <3> QED BY <2>1, <3>1, <1>b DEF LfFill
    <2>2. CASE LfEnter(t)
      BY <2>2, <1>b DEF LfEnter
    <2>3. CASE LfClear(t)
      BY <2>3, <1>b DEF LfClear
    <2> QED BY <1>1, <2>1, <2>2, <2>3
  <1>2. ASSUME NEW t \in LfThreads, LfCheck(t) \/ LfFinal(t) PROVE LfTyped'
    BY <1>2, <1>b DEF LfCheck, LfFinal
  <1>3. ASSUME NEW t \in LfThreads, LfRead(t) PROVE LfTyped'
    BY <1>3 DEF LfRead
  <1>4. ASSUME NEW t \in LfThreads, LfFails(t) PROVE LfTyped'
    <2>1. lfFaults' \in 0..LfFaults
      BY <1>4, <1>n DEF LfFails, LfFault
    <2>2. lfMissed' \subseteq LfChannels
      BY <1>4 DEF LfFails
    <2>3. /\ lfThread[t].at \in {"read", "publish"} /\ LfNextChannel(t)
          /\ UNCHANGED <<lfAccount, lfRunning, lfPending, lfKept, lfListening, lfScreen, lfCut>>
      BY <1>4 DEF LfFails
    <2> QED BY <1>a, <2>1, <2>2, <2>3
  <1>5. ASSUME NEW t \in LfThreads, LfPublish(t) PROVE LfTyped'
    <2>1. lfThread[t].ch \in LfChannels /\ lfThread[t].seen \in 0..LfFills
      BY <1>5 DEF LfPublish
    <2>2. lfScreen' \in LfScreenType /\ lfScreen'.at = lfScreen.at /\ lfScreen'.ch = lfScreen.ch
      BY <1>5, <2>1 DEF LfPublish, LfScreenType
    <2>3. LfGo(t, "keep", lfThread[t].ch)
      BY <1>5 DEF LfPublish
    <2>4. UNCHANGED <<lfAccount, lfRunning, lfPending, lfKept, lfListening, lfFaults, lfMissed, lfCut>>
      BY <1>5 DEF LfPublish
    <2> QED BY <1>b, <2>1, <2>2, <2>3, <2>4
  <1>6. ASSUME NEW t \in LfThreads, LfKeep(t) PROVE LfTyped'
    <2>1. lfThread[t].ch \in LfChannels /\ lfThread[t].seen \in 0..LfFills /\ LfNextChannel(t)
      BY <1>6 DEF LfKeep
    <2>2. lfKept' \in [LfChannels -> 0..LfFills] /\ lfFaults' \in 0..LfFaults /\ lfMissed' \subseteq LfChannels
      <3>1. lfFaults' \in 0..LfFaults
        BY <1>6, <1>n DEF LfKeep, LfFault
      <3>2. lfKept' \in [LfChannels -> 0..LfFills]
        BY <1>6, <2>1 DEF LfKeep
      <3>3. lfMissed' \subseteq LfChannels
        BY <1>6, <2>1 DEF LfKeep
      <3> QED BY <3>1, <3>2, <3>3
    <2>3. UNCHANGED <<lfAccount, lfRunning, lfPending, lfListening, lfScreen, lfCut>> /\ lfThread[t].at = "keep"
      BY <1>6 DEF LfKeep
    <2> QED BY <1>a, <2>1, <2>2, <2>3
  <1>7. CASE LfListener
    BY <1>7, <1>n DEF LfListener, LfFault
  <1>8. CASE LfJoin
    <2>1. {lfThread[t].ch : t \in {u \in LfThreads : lfThread[u].at = "keep"}} \in SUBSET LfChannels
      OBVIOUS
    <2>2. lfScreen' \in LfScreenType /\ lfScreen'.ch \in LfChannels
      BY <1>8, <2>1 DEF LfJoin, LfScreenType
    <2> QED BY <1>8, <2>2 DEF LfJoin
  <1>9. CASE LfGet
    BY <1>9 DEF LfGet, LfScreenType
  <1>10. CASE LfSend
    <2>1. lfScreen.ch \in LfChannels /\ lfScreen.got \in 0..LfFills
      BY <1>10 DEF LfSend, LfScreenType
    <2>2. lfScreen' \in LfScreenType /\ (lfScreen'.at \in {"get", "send"} => lfScreen'.ch \in LfChannels)
      <3> DEFINE after == [lfScreen EXCEPT !.at = IF lfScreen.ch = "position" THEN "get" ELSE "up", !.got = 0,
                                           !.ch = IF lfScreen.ch = "position" THEN "equity" ELSE "none"]
      <3>1. after \in LfScreenType /\ (after.at \in {"get", "send"} => after.ch \in LfChannels)
        <4>1. 0 \in 0..LfFills
          BY <1>n
        <4>2. CASE lfScreen.ch = "position"
          BY <4>1, <4>2 DEF LfScreenType
        <4>3. CASE lfScreen.ch # "position"
          BY <4>1, <4>3 DEF LfScreenType
        <4> QED BY <4>2, <4>3
      <3>2. \/ lfScreen' = [after EXCEPT !.shows[lfScreen.ch] = lfScreen.got]
            \/ lfScreen' = [after EXCEPT !.passed = @ \union {lfScreen.ch}]
        BY <1>10 DEF LfSend
      <3> HIDE DEF after
      <3> QED BY <2>1, <3>1, <3>2 DEF LfScreenType
    <2> QED BY <1>10, <2>2, <1>n DEF LfSend, LfFault
  <1>11. CASE UNCHANGED lfVars
    BY <1>11 DEF lfVars
  <1> QED BY <1>1, <1>2, <1>3, <1>4, <1>5, <1>6, <1>7, <1>8, <1>9, <1>10, <1>11 DEF LfNext

\* A step of one thread leaves the others where they are, and takes it along its
\* way.
LfOnly(t) == \A u \in LfThreads \ {t} : lfThread'[u] = lfThread[u]
\* A step of one thread leaves the others where they are.
LEMMA LfMoves ==
    ASSUME LfTyped, NEW t \in LfThreads
    PROVE  /\ \A pc, ch : LfGo(t, pc, ch) =>
                 /\ LfOnly(t) /\ lfThread'[t].at = pc /\ lfThread'[t].ch = ch
                 /\ lfThread'[t].seen = lfThread[t].seen
           /\ LfNextChannel(t) /\ lfThread[t].at \in {"read", "publish", "keep"} =>
                 /\ LfOnly(t)
                 /\ \/ /\ lfThread[t].ch = "equity" /\ lfThread'[t].at = "read" /\ lfThread'[t].ch = "position"
                    \/ lfThread[t].ch = "position" /\ lfThread'[t].at = "check" /\ lfThread'[t].ch = "none"
  <1> USE DEF LfTyped, LfThreadType, LfOnly
  <1>1. ASSUME NEW pc, NEW ch, LfGo(t, pc, ch)
        PROVE  /\ LfOnly(t) /\ lfThread'[t].at = pc /\ lfThread'[t].ch = ch
               /\ lfThread'[t].seen = lfThread[t].seen
    BY <1>1 DEF LfGo
  <1>2. ASSUME LfNextChannel(t), lfThread[t].at \in {"read", "publish", "keep"}
        PROVE  /\ LfOnly(t)
               /\ \/ /\ lfThread[t].ch = "equity" /\ lfThread'[t].at = "read" /\ lfThread'[t].ch = "position"
                  \/ lfThread[t].ch = "position" /\ lfThread'[t].at = "check" /\ lfThread'[t].ch = "none"
    <2>1. lfThread[t].ch \in {"equity", "position"}
      BY <1>2 DEF LfChannels
    <2> QED BY <1>2, <2>1 DEF LfNextChannel, LfAfter, LfNext1
  <1> QED BY <1>1, <1>2

\* Every step keeps the flag with the one thread that publishes.
LEMMA LfAloneStep == LfTyped /\ LfAlone /\ [LfNext]_lfVars => LfAlone'
  <1> SUFFICES ASSUME LfTyped, LfAlone, [LfNext]_lfVars PROVE LfAlone'
    OBVIOUS
  <1> USE DEF LfAlone, LfWorks, LfOnly
  <1>1. ASSUME NEW t \in LfThreads, LfFill(t) PROVE LfAlone'
    <2>1. LfOnly(t) /\ lfThread'[t].at = "enter" /\ UNCHANGED <<lfRunning, lfCut>>
      BY <1>1, LfMoves DEF LfFill
    <2>2. lfThread[t].at = "idle"
      BY <1>1 DEF LfFill, LfIdle
    <2> QED BY <2>1, <2>2
  <1>2. ASSUME NEW t \in LfThreads, LfEnter(t) PROVE LfAlone'
    <2>1. lfThread[t].at = "enter" /\ UNCHANGED lfCut /\ LfOnly(t)
      BY <1>2, LfMoves DEF LfEnter
    <2>2. CASE lfRunning
      BY <1>2, <2>1, <2>2, LfMoves DEF LfEnter
    <2>3. CASE ~lfRunning
      BY <1>2, <2>1, <2>3, LfMoves DEF LfEnter
    <2> QED BY <2>2, <2>3
  <1>3. ASSUME NEW t \in LfThreads, LfClear(t) \/ LfPublish(t) \/ LfRead(t) PROVE LfAlone'
    <2>1. LfOnly(t) /\ lfThread'[t].at \in {"read", "keep", "publish"} /\ UNCHANGED <<lfRunning, lfCut>>
      <3>1. CASE LfClear(t)
        BY <3>1, LfMoves DEF LfClear
      <3>2. CASE LfPublish(t)
        BY <3>2, LfMoves DEF LfPublish
      <3>3. CASE LfRead(t)
        BY <3>3 DEF LfRead, LfTyped, LfThreadType
      <3> QED BY <1>3, <3>1, <3>2, <3>3
    <2>2. lfThread[t].at \in {"clear", "publish", "read"}
      BY <1>3 DEF LfClear, LfPublish, LfRead
    <2> QED BY <2>1, <2>2
  <1>4. ASSUME NEW t \in LfThreads, LfFails(t) \/ LfKeep(t) PROVE LfAlone'
    <2>1. lfThread[t].at \in {"read", "publish", "keep"} /\ LfNextChannel(t) /\ UNCHANGED <<lfRunning, lfCut>>
      BY <1>4 DEF LfFails, LfKeep
    <2>2. LfOnly(t) /\ lfThread'[t].at \in {"read", "check"}
      BY <2>1, LfMoves
    <2> QED BY <2>1, <2>2
  <1>5. ASSUME NEW t \in LfThreads, LfCheck(t) PROVE LfAlone'
    <2>1. lfThread[t].at = "check" /\ UNCHANGED lfCut /\ LfOnly(t)
      BY <1>5, LfMoves DEF LfCheck
    <2>2. CASE lfPending
      BY <1>5, <2>1, <2>2, LfMoves DEF LfCheck, LfMore
    <2>3. CASE ~lfPending
      <3>1. lfRunning' = FALSE /\ lfThread'[t].at = "final"
        BY <1>5, <2>3, LfMoves DEF LfCheck, LfMore
      <3> QED BY <2>1, <3>1
    <2> QED BY <2>2, <2>3
  <1>6. ASSUME NEW t \in LfThreads, LfFinal(t) PROVE LfAlone'
    <2>1. /\ lfThread[t].at = "final" /\ LfOnly(t) /\ lfThread'[t].at = "idle"
          /\ lfRunning' = FALSE /\ lfCut' = (lfCut \/ lfRunning)
      BY <1>6, LfMoves DEF LfFinal
    <2> QED BY <2>1
  <1>7. CASE LfListener \/ LfJoin \/ LfGet \/ LfSend
    BY <1>7 DEF LfListener, LfJoin, LfGet, LfSend
  <1>8. CASE UNCHANGED lfVars
    BY <1>8 DEF lfVars
  <1> QED BY <1>1, <1>2, <1>3, <1>4, <1>5, <1>6, <1>7, <1>8 DEF LfNext

\* Every step keeps the last fill in sight of a publisher.
LEMMA LfFreshStep == LfTyped /\ LfAlone /\ LfFresh /\ [LfNext]_lfVars => LfFresh'
  <1> SUFFICES ASSUME LfTyped, LfAlone, LfFresh, [LfNext]_lfVars, ~lfCut', ~LfAsked' PROVE LfFresh'
    BY DEF LfFresh
  <1> USE DEF LfOnly
  <1>0. \A t \in LfThreads : lfThread'[t].at # "enter"
    BY DEF LfAsked
  <1>1. ASSUME NEW t \in LfThreads, LfFill(t) PROVE LfFresh'
    BY <1>0, <1>1, LfMoves DEF LfFill
  <1>2. ASSUME NEW t \in LfThreads, LfEnter(t) PROVE LfFresh'
    <2>1. lfThread[t].at = "enter" /\ LfOnly(t) /\ UNCHANGED <<lfCut, lfKept, lfAccount, lfMissed>>
      BY <1>2, LfMoves DEF LfEnter
    <2>2. CASE lfRunning
      <3>1. lfPending' /\ (\E u \in LfThreads \ {t} : LfWorks(u))
        BY <1>2, <2>1, <2>2 DEF LfEnter, LfAlone, LfWorks
      <3>2. LfAsked'
        BY <2>1, <3>1 DEF LfAsked, LfWorks
      <3> QED BY <3>2
    <2>3. CASE ~lfRunning
      <3>1. lfThread'[t].at = "clear" /\ (\A u \in LfThreads \ {t} : ~LfWorks(u)')
        BY <1>2, <2>1, <2>3, LfMoves DEF LfEnter, LfAlone, LfWorks
      <3> QED BY <2>1, <3>1 DEF LfFresh, LfAhead, LfWorks
    <2> QED BY <2>2, <2>3
  <1>3. ASSUME NEW t \in LfThreads, LfClear(t) PROVE LfFresh'
    <2>1. /\ lfThread[t].at = "clear" /\ LfOnly(t) /\ lfThread'[t].at = "read" /\ lfThread'[t].ch = "equity"
          /\ UNCHANGED lfCut
      BY <1>3, LfMoves DEF LfClear
    <2>2. \A u \in LfThreads \ {t} : ~LfWorks(u)'
      BY <2>1 DEF LfAlone, LfWorks
    <2> QED BY <2>1, <2>2 DEF LfFresh, LfAhead, LfWorks
  <1>4. ASSUME NEW t \in LfThreads, LfRead(t) PROVE LfFresh'
    <2>1. /\ lfThread[t].at = "read" /\ LfOnly(t) /\ lfThread'[t].at = "publish"
          /\ lfThread'[t].ch = lfThread[t].ch /\ lfThread'[t].seen = lfAccount
          /\ UNCHANGED <<lfCut, lfAccount, lfKept, lfMissed, lfPending>>
      BY <1>4 DEF LfRead, LfTyped, LfThreadType
    <2>2. \A u \in LfThreads \ {t} : ~LfWorks(u)'
      BY <2>1 DEF LfAlone, LfWorks
    <2>3. ~LfAsked
      BY <2>1 DEF LfAsked, LfWorks
    <2>4. \A u \in LfThreads, ch \in LfChannels : LfAhead(u, ch) => LfAhead(u, ch)'
      BY <2>1 DEF LfAhead
    <2> QED BY <2>1, <2>2, <2>3, <2>4 DEF LfFresh, LfWorks
  <1>5. ASSUME NEW t \in LfThreads, LfFails(t) PROVE LfFresh'
    <2>1. /\ lfThread[t].at \in {"read", "publish"} /\ LfNextChannel(t)
          /\ lfMissed' = lfMissed \union {lfThread[t].ch} /\ UNCHANGED <<lfCut, lfAccount, lfKept, lfPending>>
      BY <1>5 DEF LfFails
    <2>2. /\ LfOnly(t)
          /\ \/ lfThread[t].ch = "equity" /\ lfThread'[t].at = "read" /\ lfThread'[t].ch = "position"
             \/ lfThread[t].ch = "position" /\ lfThread'[t].at = "check" /\ lfThread'[t].ch = "none"
      BY <2>1, LfMoves
    <2>3. ~LfAsked
      BY <1>0, <2>1, <2>2 DEF LfAsked, LfWorks
    <2>4. \A u \in LfThreads, ch \in LfChannels \ lfMissed' : LfAhead(u, ch) => LfAhead(u, ch)'
      BY <2>1, <2>2 DEF LfAhead, LfChannels
    <2>5. \A u \in LfThreads : lfThread'[u].at \in {"publish", "keep"} => lfThread'[u] = lfThread[u]
      BY <2>2
    <2> QED BY <2>1, <2>3, <2>4, <2>5 DEF LfFresh
  <1>6. ASSUME NEW t \in LfThreads, LfPublish(t) PROVE LfFresh'
    <2>1. /\ lfThread[t].at = "publish" /\ LfOnly(t) /\ lfThread'[t].at = "keep"
          /\ lfThread'[t].ch = lfThread[t].ch /\ lfThread'[t].seen = lfThread[t].seen
          /\ UNCHANGED <<lfCut, lfAccount, lfKept, lfMissed, lfPending>>
      BY <1>6, LfMoves DEF LfPublish
    <2>2. ~LfAsked
      BY <1>0, <2>1 DEF LfAsked, LfWorks
    <2>3. \A u \in LfThreads, ch \in LfChannels : LfAhead(u, ch) => LfAhead(u, ch)'
      BY <2>1 DEF LfAhead
    <2> QED BY <2>1, <2>2, <2>3 DEF LfFresh
  <1>7. ASSUME NEW t \in LfThreads, LfKeep(t) PROVE LfFresh'
    <2>1. /\ lfThread[t].at = "keep" /\ LfNextChannel(t) /\ UNCHANGED <<lfCut, lfAccount, lfPending>>
          /\ lfThread[t].ch \in LfChannels
          /\ \/ lfKept' = [lfKept EXCEPT ![lfThread[t].ch] = lfThread[t].seen] /\ lfMissed' = lfMissed \ {lfThread[t].ch}
             \/ lfKept' = lfKept /\ lfMissed' = lfMissed \union {lfThread[t].ch}
      BY <1>7 DEF LfKeep, LfTyped
    <2>2. /\ LfOnly(t)
          /\ \/ lfThread[t].ch = "equity" /\ lfThread'[t].at = "read" /\ lfThread'[t].ch = "position"
             \/ lfThread[t].ch = "position" /\ lfThread'[t].at = "check" /\ lfThread'[t].ch = "none"
      BY <2>1, LfMoves
    <2>3. ~LfAsked
      BY <1>0, <2>1, <2>2 DEF LfAsked, LfWorks
    <2>4. ASSUME NEW u \in LfThreads, NEW ch \in LfChannels \ {lfThread[t].ch}, LfAhead(u, ch)
          PROVE  LfAhead(u, ch)'
      <3>1. CASE u = t
        BY <2>1, <2>2, <2>4, <3>1 DEF LfAhead, LfChannels
      <3>2. CASE u # t
        BY <2>2, <2>4, <3>2 DEF LfAhead
      <3> QED BY <3>1, <3>2
    <2>5. \A u \in LfThreads : lfThread'[u].at \in {"publish", "keep"} => lfThread'[u] = lfThread[u]
      BY <2>2
    <2>6. lfThread[t].seen = lfAccount
      BY <2>1, <2>3 DEF LfFresh
    <2>7. ASSUME NEW ch \in LfChannels \ lfMissed'
          PROVE  lfKept'[ch] = lfAccount \/ \E u \in LfThreads : LfAhead(u, ch)'
      <3>1. CASE ch = lfThread[t].ch
        BY <2>1, <2>6, <2>7, <3>1 DEF LfTyped
      <3>2. CASE ch # lfThread[t].ch
        <4>1. lfKept'[ch] = lfKept[ch] /\ ch \notin lfMissed
          BY <2>1, <2>7, <3>2 DEF LfTyped
        <4> QED BY <2>1, <2>3, <2>4, <3>2, <4>1 DEF LfFresh
      <3> QED BY <3>1, <3>2
    <2> QED BY <2>1, <2>3, <2>5, <2>7 DEF LfFresh
  <1>8. ASSUME NEW t \in LfThreads, LfCheck(t) PROVE LfFresh'
    <2>1. lfThread[t].at = "check" /\ UNCHANGED <<lfCut, lfPending, lfKept, lfAccount, lfMissed>> /\ LfOnly(t)
      BY <1>8, LfMoves DEF LfCheck
    <2>2. CASE lfPending
      <3>1. lfThread'[t].at = "clear" /\ lfPending'
        BY <1>8, <2>1, <2>2, LfMoves DEF LfCheck, LfMore
      <3> QED BY <3>1 DEF LfAsked, LfWorks
    <2>3. CASE ~lfPending
      <3>1. lfThread'[t].at = "final"
        BY <1>8, <2>3, LfMoves DEF LfCheck, LfMore
      <3>2. ~LfAsked
        BY <1>0, <2>1, <2>3 DEF LfAsked
      <3>3. \A u \in LfThreads, ch \in LfChannels : LfAhead(u, ch) => LfAhead(u, ch)'
        BY <2>1 DEF LfAhead
      <3>4. \A u \in LfThreads : lfThread'[u].at \in {"publish", "keep"} => lfThread'[u] = lfThread[u]
        BY <2>1, <3>1
      <3> QED BY <2>1, <3>2, <3>3, <3>4 DEF LfFresh
    <2> QED BY <2>2, <2>3
  <1>9. ASSUME NEW t \in LfThreads, LfFinal(t) PROVE LfFresh'
    <2>1. /\ lfThread[t].at = "final" /\ LfOnly(t) /\ lfThread'[t].at = "idle" /\ ~lfCut
          /\ UNCHANGED <<lfPending, lfKept, lfAccount, lfMissed>>
      BY <1>9, LfMoves DEF LfFinal
    <2>2. ~LfAsked
      BY <1>0, <2>1 DEF LfAsked, LfWorks
    <2>3. \A u \in LfThreads, ch \in LfChannels : LfAhead(u, ch) => LfAhead(u, ch)'
      BY <2>1 DEF LfAhead
    <2>4. \A u \in LfThreads : lfThread'[u].at \in {"publish", "keep"} => lfThread'[u] = lfThread[u]
      BY <2>1
    <2> QED BY <2>1, <2>2, <2>3, <2>4 DEF LfFresh
  <1>10. CASE LfListener \/ LfJoin \/ LfGet \/ LfSend \/ UNCHANGED lfVars
    <2>1. UNCHANGED <<lfThread, lfPending, lfKept, lfAccount, lfMissed, lfCut>>
      BY <1>10 DEF LfListener, LfJoin, LfGet, LfSend, lfVars
    <2> QED BY <2>1 DEF LfFresh, LfAsked, LfAhead, LfWorks
  <1> QED BY <1>1, <1>2, <1>3, <1>4, <1>5, <1>6, <1>7, <1>8, <1>9, <1>10 DEF LfNext

\* Every step keeps the screen's news with what is kept.
LEMMA LfToldStep == LfTyped /\ LfAlone /\ LfToldOf /\ [LfNext]_lfVars => LfToldOf'
  <1> SUFFICES ASSUME LfTyped, LfAlone, LfToldOf, [LfNext]_lfVars, ~lfCut' PROVE LfToldOf'
    BY DEF LfToldOf
  <1> USE DEF LfOnly
  <1>k. ASSUME NEW t \in LfThreads, LfOnly(t), lfThread[t].at # "keep", lfThread'[t].at # "keep"
        PROVE  \A ch \in LfChannels : LfNews(ch)' = LfNews(ch) /\ \A u \in LfNews(ch) : lfThread'[u] = lfThread[u]
    BY <1>k DEF LfNews
  <1>q. ASSUME UNCHANGED <<lfScreen, lfKept>>, lfMissed \subseteq lfMissed', ~lfCut,
               \A ch \in LfChannels : LfNews(ch)' = LfNews(ch) /\ \A u \in LfNews(ch) : lfThread'[u] = lfThread[u]
        PROVE  LfToldOf'
    BY <1>q DEF LfToldOf, LfTold, LfSent
  <1>1. ASSUME NEW t \in LfThreads, LfFill(t) \/ LfEnter(t) \/ LfClear(t) \/ LfCheck(t) \/ LfFinal(t)
        PROVE  LfToldOf'
    <2>1. lfThread[t].at # "keep"
      BY <1>1 DEF LfFill, LfEnter, LfClear, LfCheck, LfFinal, LfIdle
    <2>2. \E pc \in LfPcs \ {"keep"}, ch \in {"none", "equity"} : LfGo(t, pc, ch)
      BY <1>1 DEF LfFill, LfEnter, LfClear, LfCheck, LfFinal, LfPcs
    <2>3. LfOnly(t) /\ lfThread'[t].at # "keep"
      BY <2>2, LfMoves
    <2>4. UNCHANGED <<lfScreen, lfKept, lfMissed>> /\ ~lfCut
      <3>1. UNCHANGED <<lfScreen, lfKept, lfMissed>>
        BY <1>1 DEF LfFill, LfEnter, LfClear, LfCheck, LfFinal
      <3>2. CASE LfFinal(t)
        <4>1. lfCut' = (lfCut \/ lfRunning)
          BY <3>2 DEF LfFinal
        <4> QED BY <3>1, <4>1
      <3>3. CASE ~LfFinal(t)
        <4>1. lfCut' = lfCut
          BY <1>1, <3>3 DEF LfFill, LfEnter, LfClear, LfCheck
        <4> QED BY <3>1, <4>1
      <3> QED BY <3>2, <3>3
    <2> QED BY <2>1, <2>3, <2>4, <1>k, <1>q
  <1>2. ASSUME NEW t \in LfThreads, LfRead(t) PROVE LfToldOf'
    <2>1. /\ lfThread[t].at = "read" /\ LfOnly(t) /\ lfThread'[t].at = "publish"
          /\ UNCHANGED <<lfCut, lfScreen, lfKept, lfMissed>>
      BY <1>2 DEF LfRead, LfTyped, LfThreadType
    <2> QED BY <2>1, <1>k, <1>q
  <1>3. ASSUME NEW t \in LfThreads, LfFails(t) PROVE LfToldOf'
    <2>1. /\ lfThread[t].at \in {"read", "publish"} /\ LfNextChannel(t)
          /\ lfMissed \subseteq lfMissed' /\ UNCHANGED <<lfCut, lfScreen, lfKept>>
      BY <1>3 DEF LfFails
    <2>2. LfOnly(t) /\ lfThread'[t].at \in {"read", "check"}
      BY <2>1, LfMoves
    <2> QED BY <2>1, <2>2, <1>k, <1>q
  <1>4. ASSUME NEW t \in LfThreads, LfPublish(t) PROVE LfToldOf'
    <2> DEFINE c == lfThread[t].ch
    <2>1. /\ lfThread[t].at = "publish" /\ LfOnly(t) /\ lfThread'[t].at = "keep"
          /\ lfThread'[t].ch = c /\ lfThread'[t].seen = lfThread[t].seen
          /\ UNCHANGED <<lfCut, lfKept, lfMissed>>
      BY <1>4, LfMoves DEF LfPublish
    <2>2. \A u \in LfThreads \ {t} : lfThread[u].at # "keep"
      BY <2>1 DEF LfAlone, LfWorks
    <2>3. \A ch \in LfChannels : LfNews(ch) = {}
      BY <2>1, <2>2 DEF LfNews
    <2>4. \A ch \in LfChannels : LfNews(ch)' = IF ch = c THEN {t} ELSE {}
      BY <2>1, <2>2 DEF LfNews
    <2>5. c \in LfChannels
      BY <2>1 DEF LfTyped
    <2>6. lfScreen' = IF lfScreen.at = "away" THEN lfScreen
                      ELSE IF lfListening
                        THEN [lfScreen EXCEPT !.shows[c] = lfThread[t].seen,
                                              !.passed = IF lfScreen.at = "up" THEN @ \ {c} ELSE @ \union {c}]
                      ELSE [lfScreen EXCEPT !.passed = @ \union {c}]
      BY <1>4 DEF LfPublish
    <2> HIDE DEF c
    <2>7. /\ lfScreen'.at = lfScreen.at /\ lfScreen'.ch = lfScreen.ch /\ lfScreen'.got = lfScreen.got
          /\ \A ch \in LfChannels \ {c} : /\ lfScreen'.shows[ch] = lfScreen.shows[ch]
                                          /\ ch \in lfScreen.passed => ch \in lfScreen'.passed
          /\ lfScreen.at # "away" /\ c \notin lfScreen'.passed =>
                lfScreen.at = "up" /\ lfScreen'.shows[c] = lfThread[t].seen
      BY <2>5, <2>6 DEF LfTyped, LfScreenType
    <2> SUFFICES ASSUME NEW ch \in LfChannels, ch \notin lfScreen'.passed PROVE LfTold(ch)'
      BY DEF LfToldOf
    <2>8. CASE ch = c
      <3>1. LfNews(ch)' = {t}
        BY <2>4, <2>8
      <3> QED BY <2>1, <2>7, <2>8, <3>1 DEF LfTold
    <2>9. CASE ch # c
      <3>1. LfTold(ch)
        BY <2>1, <2>7, <2>9 DEF LfToldOf
      <3>2. LfNews(ch) = {} /\ LfNews(ch)' = {}
        BY <2>3, <2>4, <2>9
      <3> QED BY <2>1, <2>7, <2>9, <3>1, <3>2 DEF LfTold, LfSent
    <2> QED BY <2>8, <2>9
  <1>5. ASSUME NEW t \in LfThreads, LfKeep(t) PROVE LfToldOf'
    <2> DEFINE c == lfThread[t].ch
    <2>1. /\ lfThread[t].at = "keep" /\ LfNextChannel(t) /\ UNCHANGED <<lfCut, lfScreen>> /\ c \in LfChannels
          /\ \/ lfKept' = [lfKept EXCEPT ![c] = lfThread[t].seen] /\ lfMissed' = lfMissed \ {c}
             \/ lfKept' = lfKept /\ lfMissed' = lfMissed \union {c}
      BY <1>5 DEF LfKeep, LfTyped
    <2>2. LfOnly(t) /\ lfThread'[t].at \in {"read", "check"}
      BY <2>1, LfMoves
    <2>3. \A u \in LfThreads \ {t} : lfThread[u].at # "keep"
      BY <2>1 DEF LfAlone, LfWorks
    <2>4. \A ch \in LfChannels : LfNews(ch) = IF ch = c THEN {t} ELSE {}
      BY <2>1, <2>3 DEF LfNews
    <2>5. \A ch \in LfChannels : LfNews(ch)' = {}
      BY <2>2, <2>3 DEF LfNews
    <2> HIDE DEF c
    <2> SUFFICES ASSUME NEW ch \in LfChannels, ch \notin lfScreen.passed PROVE LfTold(ch)'
      BY <2>1 DEF LfToldOf
    <2>6. LfTold(ch)
      BY <2>1 DEF LfToldOf
    <2>7. CASE ch = c
      <3>1. LfNews(ch) = {t}
        BY <2>4, <2>7
      <3>2. lfScreen.at # "away" => lfScreen.at = "up" /\ lfScreen.shows[ch] = lfThread[t].seen
        BY <2>6, <3>1 DEF LfTold
      <3>3. ch \notin lfMissed' => lfKept'[ch] = lfThread[t].seen
        BY <2>1, <2>7 DEF LfTyped
      <3> QED BY <2>1, <2>5, <3>2, <3>3 DEF LfTold, LfSent
    <2>8. CASE ch # c
      <3>1. lfKept'[ch] = lfKept[ch] /\ (ch \in lfMissed <=> ch \in lfMissed')
        BY <2>1, <2>8 DEF LfTyped
      <3>2. LfNews(ch) = {}
        BY <2>4, <2>8
      <3> QED BY <2>1, <2>5, <2>6, <3>1, <3>2 DEF LfTold, LfSent
    <2> QED BY <2>7, <2>8
  <1>6. CASE LfJoin
    <2>1. /\ lfScreen' = [lfScreen EXCEPT !.at = "get", !.ch = "position",
                             !.passed = {lfThread[t].ch : t \in {u \in LfThreads : lfThread[u].at = "keep"}}]
          /\ UNCHANGED lfThread
      BY <1>6 DEF LfJoin
    <2>2. lfScreen'.at = "get" /\ lfScreen'.ch = "position"
      BY <2>1 DEF LfTyped, LfScreenType
    <2>3. \A ch \in LfChannels \ lfScreen'.passed : LfNews(ch)' = {}
      BY <2>1 DEF LfNews, LfTyped, LfScreenType
    <2> QED BY <2>2, <2>3 DEF LfToldOf, LfTold, LfSent
  <1>7. CASE LfGet
    <2>1. /\ lfScreen.at = "get" /\ lfScreen'.at = "send" /\ lfScreen'.got = lfKept[lfScreen.ch]
          /\ lfScreen'.ch = lfScreen.ch /\ lfScreen'.shows = lfScreen.shows /\ lfScreen'.passed = lfScreen.passed
          /\ UNCHANGED <<lfThread, lfKept, lfMissed, lfCut>>
      BY <1>7 DEF LfGet, LfTyped, LfScreenType
    <2>2. \A ch \in LfChannels : LfNews(ch)' = LfNews(ch)
      BY <2>1 DEF LfNews
    <2> QED BY <2>1, <2>2 DEF LfToldOf, LfTold, LfSent
  <1>8. CASE LfSend
    <2> DEFINE c == lfScreen.ch
    <2>1. /\ c \in {"position", "equity"} /\ lfScreen.at \in {"get", "send"}
          /\ lfScreen'.at = IF c = "position" THEN "get" ELSE "up"
          /\ c = "position" => lfScreen'.ch = "equity"
          /\ UNCHANGED <<lfThread, lfKept, lfMissed, lfCut>>
          /\ \A ch \in LfChannels \ {c} : lfScreen'.shows[ch] = lfScreen.shows[ch]
          /\ lfScreen.passed \subseteq lfScreen'.passed
          /\ \/ lfScreen.at = "send" /\ lfScreen'.shows[c] = lfScreen.got
             \/ c \in lfScreen'.passed
      <3> DEFINE after == [lfScreen EXCEPT !.at = IF c = "position" THEN "get" ELSE "up", !.got = 0,
                                           !.ch = IF c = "position" THEN "equity" ELSE "none"]
      <3>1. c \in {"position", "equity"} /\ lfScreen.at \in {"get", "send"}
        BY <1>8 DEF LfSend, LfTyped, LfChannels
      <3>2. /\ after.at = (IF c = "position" THEN "get" ELSE "up") /\ (c = "position" => after.ch = "equity")
            /\ after.shows = lfScreen.shows /\ after.passed = lfScreen.passed
            /\ DOMAIN after = {"at", "ch", "got", "shows", "passed"}
        BY DEF LfTyped, LfScreenType
      <3>3. \/ lfScreen.at = "send" /\ lfScreen' = [after EXCEPT !.shows[c] = lfScreen.got]
            \/ lfScreen' = [after EXCEPT !.passed = @ \union {c}]
        BY <1>8 DEF LfSend
      <3>4. UNCHANGED <<lfThread, lfKept, lfMissed, lfCut>> /\ lfScreen.shows \in [LfChannels -> 0..LfFills]
        BY <1>8 DEF LfSend, LfTyped, LfScreenType
      <3>5. c \in LfChannels
        BY <3>1 DEF LfChannels
      <3> HIDE DEF after, c
      <3>6. CASE lfScreen.at = "send" /\ lfScreen' = [after EXCEPT !.shows[c] = lfScreen.got]
        BY <3>1, <3>2, <3>4, <3>5, <3>6
      <3>7. CASE lfScreen' = [after EXCEPT !.passed = @ \union {c}]
        BY <3>1, <3>2, <3>4, <3>7
      <3> QED BY <3>3, <3>6, <3>7
    <2>2. \A ch \in LfChannels : LfNews(ch)' = LfNews(ch)
      BY <2>1 DEF LfNews
    <2> SUFFICES ASSUME NEW ch \in LfChannels, ch \notin lfScreen'.passed PROVE LfTold(ch)'
      BY DEF LfToldOf
    <2>3. LfTold(ch) /\ LfNews(ch) = {}
      BY <2>1 DEF LfToldOf, LfTold
    <2>4. LfNews(ch)' = {} /\ lfScreen'.at # "send"
      BY <2>1, <2>2, <2>3
    <2>5. ASSUME LfSent(ch)' PROVE lfScreen'.shows[ch] = lfKept[ch]
      <3>1. CASE ch = c
        BY <2>1, <2>3, <3>1 DEF LfTold
      <3>2. CASE ch # c
        <4>1. c = "equity" /\ ch = "position"
          BY <2>1, <2>5, <3>2 DEF LfSent, LfChannels
        <4>2. LfSent(ch)
          BY <2>1, <4>1 DEF LfSent
        <4> QED BY <2>1, <2>3, <3>2, <4>2 DEF LfTold
      <3> QED BY <3>1, <3>2
    <2> QED BY <2>1, <2>4, <2>5 DEF LfTold
  <1>9. CASE LfListener \/ UNCHANGED lfVars
    <2>1. UNCHANGED <<lfThread, lfScreen, lfKept, lfMissed, lfCut>>
      BY <1>9 DEF LfListener, lfVars
    <2> QED BY <2>1, <1>q DEF LfNews
  <1> QED BY <1>1, <1>2, <1>3, <1>4, <1>5, <1>6, <1>7, <1>8, <1>9 DEF LfNext

-----------------------------------------------------------------------------
WsSocketType == [at : {"away", "verified", "refused", "up"}, open : BOOLEAN, exp : 0..WsLast, since : 0..(WsLast + 1)]
WsTyped ==
    /\ wsClock \in 0..(WsLast + 1) /\ wsEntry \subseteq WsSockets /\ wsFailed \subseteq WsSockets
    /\ wsSocket \in [WsSockets -> WsSocketType]
    /\ wsSweeper \in [batch : SUBSET WsSockets, last : 0..(WsLast + 1)]
    /\ wsSweeper.last <= wsClock

\* An open socket is on record or about to be closed; one that is on record past
\* its expiry came there after the last sweep.
WsRecorded ==
    /\ \A s \in WsSockets \ wsFailed :
          wsSocket[s].open /\ wsSocket[s].at = "up" => s \in wsEntry \union wsSweeper.batch
    /\ \A s \in wsEntry : wsSocket[s].exp > wsSweeper.last \/ wsSocket[s].since >= wsSweeper.last

WsInductive == WsTyped /\ WsRecorded /\ WsSoonClosed

\* Every step keeps the types.
LEMMA WsTypedStep == WsTyped /\ [WsNext]_wsVars => WsTyped'
  <1> SUFFICES ASSUME WsTyped, [WsNext]_wsVars PROVE WsTyped'
    OBVIOUS
  <1>n. WsLast \in Nat
    BY LfAssumption
  <1> USE <1>n DEF WsTyped, WsSocketType
  <1>1. ASSUME NEW s \in WsSockets, WsConnect(s) PROVE WsTyped'
    <2> DEFINE good == wsSocket[s].exp > wsClock
    <2>1. good \in BOOLEAN
      OBVIOUS
    <2>2. /\ wsSocket' = [wsSocket EXCEPT ![s].at = IF good THEN "verified" ELSE "refused", ![s].open = good]
          /\ UNCHANGED <<wsClock, wsEntry, wsSweeper, wsFailed>>
      BY <1>1 DEF WsConnect
    <2> HIDE DEF good
    <2> DEFINE k == [wsSocket[s] EXCEPT !.at = IF good THEN "verified" ELSE "refused", !.open = good]
    <2>3. wsSocket' = [wsSocket EXCEPT ![s] = k]
      BY <2>2
    <2>4. k \in WsSocketType
      <3>1. wsSocket[s] \in WsSocketType
        BY DEF WsTyped
      <3> QED BY <2>1, <3>1
    <2> HIDE DEF k, WsSocketType
    <2>5. wsSocket' \in [WsSockets -> WsSocketType]
      BY <2>3, <2>4
    <2> QED BY <2>2, <2>5
  <1>2. ASSUME NEW s \in WsSockets, WsRegister(s) PROVE WsTyped'
    BY <1>2 DEF WsRegister
  <1>3. ASSUME NEW s \in WsSockets, WsLeave(s) PROVE WsTyped'
    BY <1>3 DEF WsLeave
  <1>4. ASSUME NEW s \in WsSockets, WsClose(s) PROVE WsTyped'
    <2>1. CASE wsSweeper' = [wsSweeper EXCEPT !.batch = @ \ {s}] /\ wsSocket' = [wsSocket EXCEPT ![s].open = FALSE]
                 /\ UNCHANGED <<wsFailed, wsClock, wsEntry>>
      BY <2>1
    <2>2. CASE wsFailed' = wsFailed \union {s} /\ wsSweeper' = [wsSweeper EXCEPT !.batch = wsSweeper.batch \ {s}]
                 /\ UNCHANGED <<wsSocket, wsClock, wsEntry>>
      BY <2>2
    <2> QED BY <1>4, <2>1, <2>2 DEF WsClose, WsAfterFailure
  <1>5. CASE WsTick
    BY <1>5 DEF WsTick
  <1>6. CASE WsExpire
    BY <1>6 DEF WsExpire
  <1>7. CASE UNCHANGED wsVars
    BY <1>7 DEF wsVars
  <1> QED BY <1>1, <1>2, <1>3, <1>4, <1>5, <1>6, <1>7 DEF WsNext

\* Every step keeps an open socket on record and its overtime within one sweep.
LEMMA WsRecordedStep ==
    WsTyped /\ WsRecorded /\ WsSoonClosed /\ [WsNext]_wsVars => WsRecorded' /\ WsSoonClosed'
  <1> SUFFICES ASSUME WsTyped, WsRecorded, WsSoonClosed, [WsNext]_wsVars PROVE WsRecorded' /\ WsSoonClosed'
    OBVIOUS
  <1>n. WsLast \in Nat
    BY LfAssumption
  <1> USE <1>n DEF WsTyped, WsSocketType, WsRecorded, WsSoonClosed
  <1>1. ASSUME NEW s \in WsSockets, WsConnect(s) PROVE WsRecorded' /\ WsSoonClosed'
    BY <1>1 DEF WsConnect
  <1>2. ASSUME NEW s \in WsSockets, WsRegister(s) PROVE WsRecorded' /\ WsSoonClosed'
    BY <1>2 DEF WsRegister
  <1>3. ASSUME NEW s \in WsSockets, WsLeave(s) PROVE WsRecorded' /\ WsSoonClosed'
    BY <1>3 DEF WsLeave
  <1>4. ASSUME NEW s \in WsSockets, WsClose(s) PROVE WsRecorded' /\ WsSoonClosed'
    BY <1>4 DEF WsClose, WsAfterFailure
  <1>5. CASE WsTick
    BY <1>5 DEF WsTick
  <1>6. CASE WsExpire
    BY <1>6 DEF WsExpire
  <1>7. CASE UNCHANGED wsVars
    BY <1>7 DEF wsVars
  <1> QED BY <1>1, <1>2, <1>3, <1>4, <1>5, <1>6, <1>7 DEF WsNext

\* The strengthened invariants of the publishers, the screen and the sockets.
LEMMA LfInvariant ==
    LfInit /\ WsInit /\ [][LfNext]_lfVars /\ [][WsNext]_wsVars => []LfInv
  <1>1. LfInit => LfInductive
    <2> SUFFICES ASSUME LfInit PROVE LfInductive
      OBVIOUS
    <2>1. LfTyped
      <3>1. 0 \in 0..LfFills /\ 0 \in 0..LfFaults
        BY LfAssumption
      <3>2. lfThread \in [LfThreads -> LfThreadType] /\ \A t \in LfThreads : lfThread[t].at = "idle"
        BY <3>1 DEF LfInit, LfIdle, LfThreadType, LfPcs
      <3>3. lfScreen \in LfScreenType /\ lfScreen.at = "away"
        BY <3>1 DEF LfInit, LfScreenType
      <3> QED BY <3>1, <3>2, <3>3 DEF LfInit, LfTyped
    <2>2. LfAlone /\ LfFresh /\ LfToldOf
      BY DEF LfInit, LfIdle, LfAlone, LfWorks, LfFresh, LfToldOf, LfTold, LfNews, LfSent
    <2> QED BY <2>1, <2>2 DEF LfInductive
  <1>2. LfInductive /\ [LfNext]_lfVars => LfInductive'
    BY LfTypedStep, LfAloneStep, LfFreshStep, LfToldStep DEF LfInductive
  <1>3. WsInit => WsInductive
    BY LfAssumption DEF WsInit, WsInductive, WsTyped, WsSocketType, WsRecorded, WsSoonClosed
  <1>4. WsInductive /\ [WsNext]_wsVars => WsInductive'
    BY WsTypedStep, WsRecordedStep DEF WsInductive
  <1>5. LfInductive /\ WsInductive => LfInv
    <2> SUFFICES ASSUME LfInductive, WsInductive PROVE LfInv
      OBVIOUS
    <2>1. LfTypeOK
      BY DEF LfInductive, LfTyped, LfThreadType, LfPcs, WsInductive, WsTyped, LfTypeOK
    <2>2. LfOnePublisher
      <3> SUFFICES ASSUME ~lfCut PROVE Cardinality(LfPublishing) <= 1
        BY DEF LfOnePublisher
      <3>1. \A t, u \in LfPublishing : t = u
        BY DEF LfInductive, LfAlone, LfWorks, LfPublishing
      <3>2. CASE LfPublishing = {}
        BY <3>2, FS_EmptySet
      <3>3. CASE LfPublishing # {}
        <4>1. PICK t \in LfPublishing : TRUE
          BY <3>3
        <4>2. LfPublishing = {t}
          BY <3>1, <4>1
        <4>3. Cardinality({t}) = 1
          BY FS_Singleton
        <4> QED BY <4>2, <4>3
      <3> QED BY <3>2, <3>3
    <2>3. LfQuiet /\ ~lfCut => \A ch \in LfChannels \ lfMissed : lfKept[ch] = lfAccount
      <3> SUFFICES ASSUME LfQuiet, ~lfCut PROVE \A ch \in LfChannels \ lfMissed : lfKept[ch] = lfAccount
        OBVIOUS
      <3>1. ~LfAsked /\ \A t \in LfThreads, ch \in LfChannels : ~LfAhead(t, ch)
        BY DEF LfQuiet, LfAsked, LfWorks, LfAhead
      <3> QED BY <3>1 DEF LfInductive, LfFresh
    <2>4. LfLastShown
      <3> SUFFICES ASSUME LfQuiet, ~lfCut, lfScreen.at = "up",
                          NEW ch \in LfChannels, ch \notin lfMissed, ch \notin lfScreen.passed
                   PROVE  lfScreen.shows[ch] = lfAccount
        BY DEF LfLastShown
      <3>1. LfNews(ch) = {} /\ LfSent(ch)
        BY DEF LfQuiet, LfNews, LfSent
      <3>2. lfScreen.shows[ch] = lfKept[ch]
        BY <3>1 DEF LfInductive, LfToldOf, LfTold
      <3> QED BY <2>3, <3>2
    <2> QED BY <2>1, <2>2, <2>3, <2>4 DEF LfInv, LfLastKept, WsInductive
  <1> QED BY <1>1, <1>2, <1>3, <1>4, <1>5, PTL

-----------------------------------------------------------------------------
(* The teardown.                                                             *)

TdSteps == {"run", "scheduler", "join", "poller", "late", "checkpoint", "heartbeat", "exit"}
TdTyped ==
    /\ tdThread \in [TdThreads -> [kind : TdKinds \union {"none"}, at : {"free", "listed", "alive", "ended"}]]
    /\ tdTracked \subseteq TdThreads /\ tdSeen \subseteq TdThreads
    /\ tdWaits \subseteq TdThreads /\ tdDropped \subseteq TdThreads
    /\ tdFlag \in BOOLEAN /\ tdGaveUp \in BOOLEAN /\ tdUnpolled \in BOOLEAN
    /\ tdStep \in TdSteps /\ tdPoller \in {"idle", "cycle", "ended"}
    /\ tdSpawner \in [TdKinds -> TdThreads \union {"none"}]

\* A listed thread is its spawner's; the main thread lists none once it shuts down,
\* and the poller none outside its cycle.
TdSpawned ==
    /\ \A t \in TdThreads :
          /\ tdThread[t].at # "free" => tdThread[t].kind \in TdKinds
          /\ tdThread[t].at = "listed" => tdSpawner[tdThread[t].kind] = t
    /\ \A kind \in TdKinds :
          tdSpawner[kind] # "none" => tdThread[tdSpawner[kind]] = [kind |-> kind, at |-> "listed"]
    /\ tdStep # "run" => tdSpawner["scan"] = "none"
    /\ tdPoller # "cycle" => tdSpawner["flatten"] = "none"

\* Who is listed or runs is on the list, or fell off it.
TdOnList == \A t \in TdThreads : tdThread[t].at \in {"listed", "alive"} => t \in tdTracked \union tdDropped

\* The poller ends after it was told to.
TdPollerTold == tdPoller = "ended" => tdStep \in {"poller", "late", "checkpoint", "heartbeat", "exit"}

\* What each step that did not give up leaves behind: the first pass waits for the
\* scans, the poller's join for its cycle, the second pass for the flattens.
TdRuns(t, kind) == t \notin tdDropped /\ tdThread[t].at = "alive" /\ tdThread[t].kind = kind
TdBehind ==
    ~tdGaveUp =>
        /\ tdStep \in {"run", "scheduler", "join"} => tdSeen = {}
        /\ tdStep \in {"join", "late"} => \A t \in tdWaits : tdThread[t].at \in {"alive", "ended"}
        /\ \A t \in tdSeen : tdThread[t].at = "ended"
        /\ tdStep = "join" => \A t \in TdThreads : TdRuns(t, "scan") => t \in tdWaits
        /\ tdStep \in {"poller", "late", "checkpoint", "heartbeat", "exit"} => \A t \in TdThreads : ~TdRuns(t, "scan")
        /\ tdStep \in {"late", "checkpoint", "heartbeat", "exit"} => tdPoller = "ended"
        /\ tdStep = "late" => \A t \in TdThreads : TdRuns(t, "flatten") => t \in tdWaits
        /\ tdStep \in {"checkpoint", "heartbeat", "exit"} => \A t \in TdThreads : ~TdRuns(t, "flatten")

TdInductive == TdTyped /\ TdSpawned /\ TdOnList /\ TdPollerTold /\ TdBehind /\ TdPolled

\* Every step keeps the types.
LEMMA TdTypedStep == TdTyped /\ [TdNext]_tdVars => TdTyped'
  <1> SUFFICES ASSUME TdTyped, [TdNext]_tdVars PROVE TdTyped'
    OBVIOUS
  <1> USE TdAssumption DEF TdTyped, TdKinds, TdSteps
  <1>a. ASSUME NEW kind \in TdKinds, NEW t \in TdThreads, TdList(kind, t)
        PROVE  /\ tdThread' \in [TdThreads -> [kind : TdKinds \union {"none"}, at : {"free", "listed", "alive", "ended"}]]
               /\ tdTracked' \subseteq TdThreads /\ tdDropped' \subseteq TdThreads
               /\ tdSpawner' \in [TdKinds -> TdThreads \union {"none"}]
    BY <1>a DEF TdList, TdAlive
  <1>1. ASSUME NEW t \in TdThreads, TdScan(t) \/ TdSweep(t) \/ TdFlatten(t) PROVE TdTyped'
    BY <1>1, <1>a DEF TdScan, TdSweep, TdFlatten
  <1>2. ASSUME NEW t \in TdThreads, TdEnd(t) PROVE TdTyped'
    BY <1>2 DEF TdEnd
  <1>3. ASSUME NEW kind \in TdKinds, TdStart(kind) PROVE TdTyped'
    <2>1. tdSpawner[kind] \in TdThreads
      BY <1>3 DEF TdStart
    <2> QED BY <1>3, <2>1 DEF TdStart
  <1>4. CASE TdJobChecks \/ TdCycle \/ TdCycleEnds \/ TdSignal
    BY <1>4 DEF TdJobChecks, TdCycle, TdCycleEnds, TdSignal
  <1>5. CASE TdShut
    <2>1. tdStep' \in TdSteps
      BY <1>5 DEF TdShut, TdGo, TdAfter
    <2>2. tdWaits' \subseteq TdThreads /\ tdSeen' \subseteq TdThreads
      BY <1>5 DEF TdShut, TdGo, TdLate
    <2>3. tdGaveUp' \in BOOLEAN
      BY <1>5 DEF TdShut
    <2> QED BY <1>5, <2>1, <2>2, <2>3 DEF TdShut
  <1>6. CASE UNCHANGED tdVars
    BY <1>6 DEF tdVars
  <1> QED BY <1>1, <1>2, <1>3, <1>4, <1>5, <1>6 DEF TdNext

\* Every step keeps a listed thread its spawner's.
LEMMA TdSpawnedStep == TdTyped /\ TdSpawned /\ [TdNext]_tdVars => TdSpawned'
  <1> SUFFICES ASSUME TdTyped, TdSpawned, [TdNext]_tdVars PROVE TdSpawned'
    OBVIOUS
  <1> USE TdAssumption DEF TdTyped, TdSpawned, TdKinds
  <1>a. ASSUME NEW kind \in TdKinds, NEW t \in TdThreads, TdList(kind, t)
        PROVE  /\ \A u \in TdThreads :
                     /\ tdThread'[u].at # "free" => tdThread'[u].kind \in TdKinds
                     /\ tdThread'[u].at = "listed" => tdSpawner'[tdThread'[u].kind] = u
               /\ \A k \in TdKinds :
                     tdSpawner'[k] # "none" => tdThread'[tdSpawner'[k]] = [kind |-> k, at |-> "listed"]
               /\ \A k \in TdKinds \ {kind} : tdSpawner'[k] = tdSpawner[k]
    <2>1. /\ tdThread' = [tdThread EXCEPT ![t] = [kind |-> kind, at |-> "listed"]]
          /\ tdSpawner' = [tdSpawner EXCEPT ![kind] = t]
          /\ tdSpawner[kind] = "none" /\ tdThread[t].at = "free"
      BY <1>a DEF TdList
    <2> QED BY <2>1
  <1>1. ASSUME NEW t \in TdThreads, TdScan(t) \/ TdSweep(t) \/ TdFlatten(t) PROVE TdSpawned'
    BY <1>1, <1>a DEF TdScan, TdSweep, TdFlatten
  <1>2. ASSUME NEW t \in TdThreads, TdEnd(t) PROVE TdSpawned'
    BY <1>2 DEF TdEnd
  <1>3. ASSUME NEW kind \in TdKinds, TdStart(kind) PROVE TdSpawned'
    <2>1. tdSpawner[kind] \in TdThreads /\ tdThread[tdSpawner[kind]] = [kind |-> kind, at |-> "listed"]
      BY <1>3 DEF TdStart
    <2>2. /\ tdThread' = [tdThread EXCEPT ![tdSpawner[kind]].at = "alive"]
          /\ tdSpawner' = [tdSpawner EXCEPT ![kind] = "none"]
          /\ tdStep' = tdStep /\ tdPoller' = tdPoller
      BY <1>3 DEF TdStart
    <2> QED BY <2>1, <2>2
  <1>4. CASE TdJobChecks \/ TdCycle \/ TdCycleEnds \/ TdSignal
    BY <1>4 DEF TdJobChecks, TdCycle, TdCycleEnds, TdSignal
  <1>5. CASE TdShut
    BY <1>5 DEF TdShut
  <1>6. CASE UNCHANGED tdVars
    BY <1>6 DEF tdVars
  <1> QED BY <1>1, <1>2, <1>3, <1>4, <1>5, <1>6 DEF TdNext

\* Who runs stays on the list, and the poller ends after it was told to.
LEMMA TdListedStep ==
    TdTyped /\ TdSpawned /\ TdOnList /\ TdPollerTold /\ [TdNext]_tdVars => TdOnList' /\ TdPollerTold'
  <1> SUFFICES ASSUME TdTyped, TdSpawned, TdOnList, TdPollerTold, [TdNext]_tdVars PROVE TdOnList' /\ TdPollerTold'
    OBVIOUS
  <1> USE TdAssumption DEF TdTyped, TdSpawned, TdOnList, TdPollerTold, TdKinds
  <1>a. ASSUME NEW kind \in TdKinds, NEW t \in TdThreads, TdList(kind, t)
        PROVE  TdOnList'
    BY <1>a DEF TdList, TdAlive
  <1>1. ASSUME NEW t \in TdThreads, TdScan(t) \/ TdSweep(t) \/ TdFlatten(t) PROVE TdOnList' /\ TdPollerTold'
    BY <1>1, <1>a DEF TdScan, TdSweep, TdFlatten
  <1>2. ASSUME NEW t \in TdThreads, TdEnd(t) PROVE TdOnList' /\ TdPollerTold'
    BY <1>2 DEF TdEnd
  <1>3. ASSUME NEW kind \in TdKinds, TdStart(kind) PROVE TdOnList' /\ TdPollerTold'
    BY <1>3 DEF TdStart
  <1>4. CASE TdJobChecks \/ TdCycle \/ TdCycleEnds \/ TdSignal
    BY <1>4 DEF TdJobChecks, TdCycle, TdCycleEnds, TdSignal
  <1>5. CASE TdShut
    BY <1>5 DEF TdShut, TdGo, TdAfter, TdSteps
  <1>6. CASE UNCHANGED tdVars
    BY <1>6 DEF tdVars
  <1> QED BY <1>1, <1>2, <1>3, <1>4, <1>5, <1>6 DEF TdNext

\* Every step of the teardown leaves behind what it waited for.
LEMMA TdBehindStep == TdTyped /\ TdSpawned /\ TdOnList /\ TdBehind /\ [TdNext]_tdVars => TdBehind'
  <1> SUFFICES ASSUME TdTyped, TdSpawned, TdOnList, TdBehind, [TdNext]_tdVars PROVE TdBehind'
    OBVIOUS
  <1> USE TdAssumption DEF TdTyped, TdSpawned, TdBehind, TdRuns, TdKinds
  <1>a. ASSUME NEW kind \in TdKinds, NEW t \in TdThreads, TdList(kind, t),
               UNCHANGED <<tdStep, tdSeen, tdWaits, tdPoller, tdGaveUp>>
        PROVE  TdBehind'
    <2>1. /\ tdThread' = [tdThread EXCEPT ![t] = [kind |-> kind, at |-> "listed"]]
          /\ tdDropped \subseteq tdDropped' /\ tdThread[t].at = "free"
      BY <1>a DEF TdList
    <2>2. \A u \in TdThreads, k \in TdKinds : TdRuns(u, k)' => TdRuns(u, k)
      BY <2>1
    <2>3. \A u \in TdThreads : tdThread[u].at \in {"alive", "ended"} => tdThread'[u] = tdThread[u]
      BY <2>1
    <2> QED BY <1>a, <2>2, <2>3
  <1>1. ASSUME NEW t \in TdThreads, TdScan(t) \/ TdSweep(t) \/ TdFlatten(t) PROVE TdBehind'
    BY <1>1, <1>a DEF TdScan, TdSweep, TdFlatten
  <1>2. ASSUME NEW t \in TdThreads, TdEnd(t) PROVE TdBehind'
    BY <1>2 DEF TdEnd
  <1>3. ASSUME NEW kind \in TdKinds, TdStart(kind) PROVE TdBehind'
    <2>1. tdSpawner[kind] \in TdThreads /\ tdThread[tdSpawner[kind]] = [kind |-> kind, at |-> "listed"]
      BY <1>3 DEF TdStart
    <2>2. /\ tdThread' = [tdThread EXCEPT ![tdSpawner[kind]].at = "alive"]
          /\ UNCHANGED <<tdStep, tdSeen, tdWaits, tdPoller, tdGaveUp, tdDropped>>
      BY <1>3 DEF TdStart
    <2>3. tdStep # "run" => kind # "scan"
      BY <2>1
    <2>4. tdPoller # "cycle" => kind # "flatten"
      BY <2>1
    <2>5. \A u \in TdThreads, k \in TdKinds : k # kind /\ TdRuns(u, k)' => TdRuns(u, k)
      BY <2>1, <2>2
    <2>6. \A u \in TdThreads : tdThread[u].at \in {"alive", "ended"} => tdThread'[u] = tdThread[u]
      BY <2>1, <2>2
    <2> QED BY <2>2, <2>3, <2>4, <2>5, <2>6
  <1>4. CASE TdJobChecks \/ TdCycle \/ TdCycleEnds \/ TdSignal
    BY <1>4 DEF TdJobChecks, TdCycle, TdCycleEnds, TdSignal
  <1>5. CASE TdShut
    <2> SUFFICES ASSUME ~tdGaveUp' PROVE TdBehind'
      BY DEF TdBehind
    <2>1. /\ ~tdGaveUp
          /\ tdStep \in {"join", "late"} => tdWaits \intersect TdAlive = {}
          /\ tdStep = "poller" => tdPoller = "ended"
          /\ tdStep' = TdAfter[tdStep] /\ tdStep # "exit" /\ TdGo(TdAfter[tdStep])
          /\ UNCHANGED <<tdThread, tdTracked, tdPoller, tdDropped, tdSpawner>>
      BY <1>5 DEF TdShut, TdGo
    <2>2. \A t \in TdThreads, kind \in TdKinds : TdRuns(t, kind) => t \in tdTracked \intersect TdAlive
      BY DEF TdOnList, TdAlive
    <2>3. \A t \in TdAlive : t \in TdThreads /\ tdThread[t].at = "alive"
      BY DEF TdAlive
    <2>4. \A t \in TdThreads : tdThread[t].at = "alive" => t \in TdAlive
      BY DEF TdAlive
    <2>5. CASE tdStep = "run"
      BY <2>1, <2>5 DEF TdGo, TdAfter
    <2>6. CASE tdStep = "scheduler"
      BY <2>1, <2>2, <2>3, <2>6 DEF TdGo, TdAfter
    <2>7. CASE tdStep = "join"
      BY <2>1, <2>4, <2>7 DEF TdGo, TdAfter
    <2>8. CASE tdStep = "poller"
      <3>1. tdStep' = "late" /\ tdWaits' = (tdTracked \intersect TdAlive) \ tdSeen /\ tdSeen' = tdSeen
        BY <2>1, <2>8 DEF TdGo, TdAfter, TdLate
      <3> QED BY <2>1, <2>2, <2>3, <2>8, <3>1
    <2>9. CASE tdStep = "late"
      BY <2>1, <2>4, <2>9 DEF TdGo, TdAfter
    <2>10. CASE tdStep \in {"checkpoint", "heartbeat"}
      BY <2>1, <2>10 DEF TdGo, TdAfter
    <2> QED BY <2>1, <2>5, <2>6, <2>7, <2>8, <2>9, <2>10 DEF TdSteps
  <1>6. CASE UNCHANGED tdVars
    BY <1>6 DEF tdVars
  <1> QED BY <1>1, <1>2, <1>3, <1>4, <1>5, <1>6 DEF TdNext

\* No scan ends with an order after the poller did.
LEMMA TdPolledStep ==
    TdTyped /\ TdBehind /\ TdPollerTold /\ TdPolled /\ [TdNext]_tdVars => TdPolled'
  <1> SUFFICES ASSUME TdTyped, TdBehind, TdPollerTold, TdPolled, [TdNext]_tdVars PROVE TdPolled'
    OBVIOUS
  <1> USE DEF TdTyped, TdPolled
  <1>1. ASSUME NEW t \in TdThreads, TdScan(t) \/ TdSweep(t) \/ TdFlatten(t) PROVE TdPolled'
    BY <1>1 DEF TdScan, TdSweep, TdFlatten, TdList
  <1>2. ASSUME NEW t \in TdThreads, TdEnd(t) PROVE TdPolled'
    <2> SUFFICES ASSUME ~tdGaveUp, tdDropped = {}, tdPoller = "ended", tdThread[t].kind = "scan" PROVE FALSE
      BY <1>2 DEF TdEnd
    <2>1. TdRuns(t, "scan")
      BY <1>2 DEF TdEnd, TdRuns
    <2> QED BY <2>1 DEF TdBehind, TdPollerTold
  <1>3. ASSUME NEW kind \in TdKinds, TdStart(kind) PROVE TdPolled'
    BY <1>3 DEF TdStart
  <1>4. CASE TdJobChecks \/ TdCycle \/ TdCycleEnds \/ TdSignal \/ TdShut
    BY <1>4 DEF TdJobChecks, TdCycle, TdCycleEnds, TdSignal, TdShut
  <1>5. CASE UNCHANGED tdVars
    BY <1>5 DEF tdVars
  <1> QED BY <1>1, <1>2, <1>3, <1>4, <1>5 DEF TdNext

\* The strengthened invariant of the teardown.
LEMMA TdInvariant == TdInit /\ [][TdNext]_tdVars => []TdInv
  <1>1. TdInit => TdInductive
    <2> SUFFICES ASSUME TdInit PROVE TdInductive
      OBVIOUS
    <2>1. TdTyped
      BY DEF TdInit, TdFree, TdNobody, TdTyped, TdSteps, TdKinds
    <2>2. TdSpawned
      <3>1. tdSpawner = [t \in TdKinds |-> "none"]
        BY DEF TdInit, TdNobody, TdKinds
      <3>2. \A t \in TdThreads : tdThread[t].at = "free"
        BY DEF TdInit, TdFree
      <3>3. tdStep = "run"
        BY DEF TdInit
      <3> QED BY <3>1, <3>2, <3>3 DEF TdSpawned, TdKinds
    <2>3. TdOnList /\ TdPollerTold /\ TdBehind /\ TdPolled
      BY DEF TdInit, TdFree, TdOnList, TdPollerTold, TdBehind, TdPolled
    <2> QED BY <2>1, <2>2, <2>3 DEF TdInductive
  <1>2. TdInductive /\ [TdNext]_tdVars => TdInductive'
    BY TdTypedStep, TdSpawnedStep, TdListedStep, TdBehindStep, TdPolledStep DEF TdInductive
  <1>3. TdInductive => TdInv
    <2> SUFFICES ASSUME TdInductive PROVE TdInv
      OBVIOUS
    <2>1. TdTypeOK
      BY DEF TdInductive, TdTyped, TdTypeOK
    <2>2. TdWaited
      <3> SUFFICES ASSUME tdStep \in {"checkpoint", "heartbeat", "exit"}, ~tdGaveUp,
                          NEW t \in TdThreads \ tdDropped, tdThread[t].at \in {"listed", "alive"}
                   PROVE  tdThread[t].kind = "sweep"
        BY DEF TdWaited
      <3>1. tdThread[t].kind \in TdKinds
        BY DEF TdInductive, TdSpawned
      <3>2. CASE tdThread[t].at = "alive"
        BY <3>1, <3>2 DEF TdInductive, TdBehind, TdRuns, TdKinds
      <3>3. CASE tdThread[t].at = "listed"
        <4>1. tdSpawner[tdThread[t].kind] = t /\ t # "none"
          BY <3>3, TdAssumption DEF TdInductive, TdSpawned
        <4>2. tdSpawner["scan"] = "none" /\ tdSpawner["flatten"] = "none"
          BY DEF TdInductive, TdSpawned, TdBehind
        <4> QED BY <3>1, <4>1, <4>2 DEF TdKinds
      <3> QED BY <3>2, <3>3
    <2>3. TdListed
      BY DEF TdInductive, TdOnList, TdListed, TdAlive
    <2> QED BY <2>1, <2>2, <2>3 DEF TdInductive, TdInv
  <1> QED BY <1>1, <1>2, <1>3, PTL

-----------------------------------------------------------------------------
(* The uptime of a run.                                                      *)

\* What a row counts, were there no clock: up to its end, or a grace past its last beat.
UpReach(w) == IF w.ended # UpNone THEN w.ended ELSE w.last + UpGrace
UpHas(w, x) == w.boot <= x /\ x < UpReach(w)
UpFrom(t) == t..(t + UpGrace - 1)

\* A unit of time no row has, and none will get from a beat or an end on its way.
UpSpare(x) ==
    /\ \A i \in 1..Len(upRows) : ~UpHas(upRows[i], x)
    /\ upRec.holder # "none" => x \notin UpFrom(upRec.at)
    /\ upRec.writer = "lock" => x \notin UpFrom(upRec.endAt)

\* One that no row has but the one being written.
UpOthersSpare(x) == \A i \in 1..Len(upRows) : i # upRec.row => ~UpHas(upRows[i], x)

\* Recorder, run and rows fit together.
UpRowOfRec ==
    /\ upRec.row = 0 <=> upRec.ok = UpNone
    /\ upRec.row # 0 =>
          /\ upRec.ok <= upNow
          /\ upRows[upRec.row].last = upRec.ok
          /\ upRec.writer # "done" => upRows[upRec.row].ended = UpNone
          /\ upRec.holder # "none" => upRec.ok <= upRec.at
          /\ upRec.writer = "lock" => upRec.ok <= upRec.endAt
UpThreads ==
    /\ upRec.exists <=> upRun.state # "down"
    /\ upRun.state = "down" => upRec = UpNoRec
    /\ upRun.state \in {"on", "frozen"} => upRec.writer = "none" /\ ~upRec.stop
    /\ upRun.state = "ending" => upRec.writer # "none" /\ upRec.endAt <= upNow /\ upRec.stop
    /\ upRec.holder = "loop" => upRec.loop = "lock" /\ upRec.at <= upNow
    /\ upRec.holder = "writer" => upRec.writer = "lock" /\ upRec.at = upRec.endAt
    /\ upRec.writer = "lock" /\ upRec.holder = "loop" => upRec.at <= upRec.endAt
    /\ upRec.writer = "lock" /\ upRec.holder = "none" /\ upRec.loop = "lock" => upRec.endAt = upNow
UpRowsPast ==
    \A i \in 1..Len(upRows) : /\ upRows[i].boot <= upNow /\ upRows[i].last <= upNow
                              /\ upRows[i].ended = UpNone \/ upRows[i].ended <= upNow
UpOver ==
    upRun.stopped # UpNone =>
        ~upRun.active /\ upRun.state \in {"ending", "down"} /\ upRun.stopped <= upNow
UpTyped == UpTypeOK /\ upCount \in [breaks : Nat, faults : Nat, late : BOOLEAN]
UpSound == UpTyped /\ UpRowOfRec /\ UpThreads /\ UpRowsPast /\ UpOver

\* R: the units the run was up.  While nothing failed or came late, each is in a row.
UpRanUnits(R) ==
    /\ R \subseteq 0..(upNow - 1) /\ Cardinality(R) = upRan
    /\ upRun.stopped # UpNone => \A x \in R : x < upRun.stopped
    /\ upRun.state = "ending" => \A x \in R : x < upRec.endAt
    /\ upCount.faults = 0 /\ ~upCount.late => \A x \in R : \E i \in 1..Len(upRows) : UpHas(upRows[i], x)

\* G: the graces of the interruptions that are over.  What is in neither set is in no
\* row, but for the grace of the stop that is going on.
UpCharged(G) ==
    /\ IsFiniteSet(G)
    /\ upRun.state = "ending" => upCount.breaks > 0
    /\ Cardinality(G) <= UpGrace * (IF upRun.state = "ending" THEN upCount.breaks + upCount.faults - 1
                                    ELSE upCount.breaks + upCount.faults)
UpPaid(S) ==
    /\ upRun.state = "on" => \A x \in Nat \ S : IF x < upNow THEN UpSpare(x) ELSE UpOthersSpare(x)
    /\ upRun.state \in {"down", "frozen"} => \A x \in Nat \ S : UpSpare(x)
    /\ upRun.state = "ending" /\ upRec.writer = "lock" =>
          \A x \in Nat \ S : UpSpare(x) \/ (x \in UpFrom(upRec.endAt) /\ UpOthersSpare(x))
    /\ upRun.state = "ending" /\ upRec.writer # "lock" =>
          \E e \in Nat : \A x \in Nat \ S :
              UpSpare(x) \/ (x \in UpFrom(e) /\ (upRec.loop = "wait" \/ upRec.holder = "loop"))

UpInductive ==
    /\ UpSound
    /\ \E R, G \in SUBSET Nat : UpRanUnits(R) /\ UpCharged(G) /\ UpPaid(R \cup G)

-----------------------------------------------------------------------------
(* What a write leaves of the rows.                                          *)

\* A write that goes through leaves one row changed, or one more.
UpWrites ==
    /\ UpLive /\ upRec.holder # "none"
    /\ \/ /\ UpContinues
          /\ upRows' = [upRows EXCEPT ![upRec.row].last = upRec.at,
                             ![upRec.row].ended = IF upRec.holder = "writer" THEN upRec.at ELSE @]
          /\ upRec'.row = upRec.row
       \/ /\ ~UpContinues
          /\ upRows' = Append(upRows, [boot |-> upRec.at, last |-> upRec.at,
                                       ended |-> IF upRec.holder = "writer" THEN upRec.at ELSE UpNone])
          /\ upRec'.row = Len(upRows) + 1
    /\ upRec'.ok = upRec.at
UpFails == UpLive /\ upRec.holder # "none" /\ upRows' = upRows /\ upRec'.row = upRec.row /\ upRec'.ok = upRec.ok

\* The recorder after a write: its thread is through.
UpThrough ==
    /\ upRec'.exists = upRec.exists /\ upRec'.stop = upRec.stop /\ upRec'.endAt = upRec.endAt
    /\ upRec'.at = upRec.at /\ upRec'.holder = "none"
    /\ upRec.holder = "loop" => upRec'.loop = "wait" /\ upRec'.writer = upRec.writer
    /\ upRec.holder = "writer" => upRec'.loop = upRec.loop /\ upRec'.writer = "done"

\* A write goes through, or fails and leaves the rows alone; either way its thread is done.
LEMMA UpWriteIs ==
    ASSUME UpTyped, UpWrite
    PROVE  /\ UpThrough /\ UNCHANGED <<upNow, upRun, upRan>>
           /\ \/ UpWrites /\ upCount' = upCount
              \/ UpFails /\ upCount' = [upCount EXCEPT !.faults = @ + 1]
  <1>1. PICK done : done = [upRec EXCEPT !.holder = "none",
                    !.loop = IF upRec.holder = "loop" THEN "wait" ELSE @,
                    !.writer = IF upRec.holder = "writer" THEN "done" ELSE @]
    OBVIOUS
  <1>2. /\ UpLive /\ upRec.holder # "none"
        /\ \/ /\ UpContinues
              /\ upRows' = [upRows EXCEPT ![upRec.row].last = upRec.at,
                                 ![upRec.row].ended = IF upRec.holder = "writer" THEN upRec.at ELSE @]
              /\ upRec' = [done EXCEPT !.ok = upRec.at]
              /\ UNCHANGED upCount
           \/ /\ ~UpContinues
              /\ upRows' = Append(upRows, [boot |-> upRec.at, last |-> upRec.at,
                               ended |-> IF upRec.holder = "writer" THEN upRec.at ELSE UpNone])
              /\ upRec' = [done EXCEPT !.ok = upRec.at, !.row = Len(upRows) + 1]
              /\ UNCHANGED upCount
           \/ /\ upCount' = [upCount EXCEPT !.faults = @ + 1]
              /\ upRec' = done
              /\ UNCHANGED upRows
        /\ UNCHANGED <<upNow, upRun, upRan>>
    BY <1>1 DEF UpWrite
  <1>3. upRec \in [exists : BOOLEAN, row : 0..Len(upRows), ok : 0..UpNone, stop : BOOLEAN,
                  endAt : 0..UpNone, holder : {"none", "loop", "writer"}, at : 0..UpMaxTime,
                  loop : {"wait", "lock"}, writer : {"none", "lock", "done"}]
    BY DEF UpTyped, UpTypeOK
  <1>4. /\ done.exists = upRec.exists /\ done.row = upRec.row /\ done.ok = upRec.ok /\ done.stop = upRec.stop
        /\ done.endAt = upRec.endAt /\ done.at = upRec.at /\ done.holder = "none"
        /\ upRec.holder = "loop" => done.loop = "wait" /\ done.writer = upRec.writer
        /\ upRec.holder = "writer" => done.loop = upRec.loop /\ done.writer = "done"
    BY <1>1, <1>3
  <1>5. DOMAIN done = {"exists", "row", "ok", "stop", "endAt", "holder", "at", "loop", "writer"}
    BY <1>1, <1>3
  <1>6. CASE upRec' = [done EXCEPT !.ok = upRec.at]
    BY <1>2, <1>4, <1>5, <1>6 DEF UpThrough, UpWrites, UpFails
  <1>7. CASE upRec' = [done EXCEPT !.ok = upRec.at, !.row = Len(upRows) + 1]
    BY <1>2, <1>4, <1>5, <1>7 DEF UpThrough, UpWrites, UpFails
  <1>8. CASE upRec' = done
    BY <1>2, <1>4, <1>5, <1>8 DEF UpThrough, UpWrites, UpFails
  <1> QED BY <1>2, <1>6, <1>7, <1>8

UpRow == [boot : 0..UpMaxTime, last : 0..UpMaxTime, ended : 0..UpNone]

\* The rows after a write that goes through.
LEMMA UpRowsWritten ==
    ASSUME UpAssumption, UpTyped, UpWrites
    PROVE  /\ upRows' \in Seq(UpRow)
           /\ upRec'.row \in 1..Len(upRows')
           /\ upRows'[upRec'.row].last = upRec.at
           /\ upRec.holder = "writer" => upRows'[upRec'.row].ended = upRec.at
           /\ \A i \in 1..Len(upRows') : i # upRec'.row => i \in 1..Len(upRows) /\ upRows'[i] = upRows[i]
           /\ \A i \in 1..Len(upRows) : i \in 1..Len(upRows') /\ (i # upRec.row \/ ~UpContinues => upRows'[i] = upRows[i])
           /\ \/ /\ UpContinues /\ upRec'.row = upRec.row /\ upRec.row \in 1..Len(upRows)
                 /\ upRows'[upRec.row].boot = upRows[upRec.row].boot
                 /\ upRec.holder # "writer" => upRows'[upRec.row].ended = upRows[upRec.row].ended
              \/ /\ ~UpContinues /\ upRec'.row = Len(upRows) + 1 /\ upRows'[upRec'.row].boot = upRec.at
                 /\ upRec.holder # "writer" => upRows'[upRec'.row].ended = UpNone
  <1>1. /\ upRows \in Seq(UpRow) /\ upRec.row \in 0..Len(upRows) /\ upRec.at \in 0..UpMaxTime
        /\ UpNone = UpMaxTime + 1 /\ UpMaxTime \in Nat /\ Len(upRows) \in Nat
    BY DEF UpAssumption, UpTyped, UpTypeOK, UpNone, UpRow
  <1>2. CASE UpContinues /\ upRec'.row = upRec.row
             /\ upRows' = [upRows EXCEPT ![upRec.row].last = upRec.at,
                             ![upRec.row].ended = IF upRec.holder = "writer" THEN upRec.at ELSE @]
    <2>1. upRec.row \in 1..Len(upRows)
      BY <1>1, <1>2 DEF UpContinues
    <2>2. PICK old \in UpRow : old = upRows[upRec.row]
      BY <1>1, <2>1
    <2>3. PICK new : new = [upRows[upRec.row] EXCEPT !.last = upRec.at,
                                       !.ended = IF upRec.holder = "writer" THEN upRec.at ELSE @]
      OBVIOUS
    <2>4. /\ new \in UpRow /\ new.last = upRec.at /\ new.boot = old.boot
          /\ new.ended = IF upRec.holder = "writer" THEN upRec.at ELSE old.ended
          /\ upRows' = [upRows EXCEPT ![upRec.row] = new]
      <3>1. upRows' = [upRows EXCEPT ![upRec.row] = new]
        BY ONLY <1>2, <2>3
      <3>2. CASE upRec.holder = "writer"
        <4>1. new = [old EXCEPT !.last = upRec.at, !.ended = upRec.at]
          BY <2>2, <2>3, <3>2
        <4>2. upRec.at \in 0..UpNone
          BY <1>1
        <4> QED BY ONLY <1>1, <2>2, <3>1, <3>2, <4>1, <4>2 DEF UpRow
      <3>3. CASE upRec.holder # "writer"
        <4>1. new = [old EXCEPT !.last = upRec.at, !.ended = old.ended]
          BY <2>2, <2>3, <3>3
        <4> QED BY ONLY <1>1, <2>2, <3>1, <3>3, <4>1 DEF UpRow
      <3> QED BY <3>2, <3>3
    <2>5. Len(upRows') = Len(upRows) /\ upRows' \in Seq(UpRow) /\ upRows'[upRec.row] = new
          /\ \A i \in 1..Len(upRows) : i # upRec.row => upRows'[i] = upRows[i]
      BY ONLY <1>1, <2>1, <2>4
    <2> QED BY <1>1, <1>2, <2>1, <2>2, <2>4, <2>5
  <1>3. CASE ~UpContinues /\ upRec'.row = Len(upRows) + 1
             /\ upRows' = Append(upRows, [boot |-> upRec.at, last |-> upRec.at,
                                       ended |-> IF upRec.holder = "writer" THEN upRec.at ELSE UpNone])
    <2> DEFINE new == [boot |-> upRec.at, last |-> upRec.at,
                       ended |-> IF upRec.holder = "writer" THEN upRec.at ELSE UpNone]
    <2>1. new \in UpRow /\ new.last = upRec.at /\ new.boot = upRec.at
          /\ new.ended = IF upRec.holder = "writer" THEN upRec.at ELSE UpNone
      BY <1>1 DEF UpRow
    <2> HIDE DEF new
    <2>2. upRows' = Append(upRows, new)
      BY <1>3 DEF new
    <2>3. Len(upRows') = Len(upRows) + 1 /\ upRows' \in Seq(UpRow) /\ upRows'[Len(upRows) + 1] = new
          /\ \A i \in 1..Len(upRows) : upRows'[i] = upRows[i]
      BY <1>1, <2>1, <2>2
    <2> QED BY <1>1, <1>3, <2>1, <2>3
  <1> QED BY <1>2, <1>3 DEF UpWrites

\* A write leaves the recorder, the run and the rows fitting together.
LEMMA UpSoundWrite ==
    ASSUME UpAssumption, UpSound, UpWrite
    PROVE  UpSound'
  <1>1. /\ UpThrough /\ UNCHANGED <<upNow, upRun, upRan>>
        /\ \/ UpWrites /\ upCount' = upCount
           \/ UpFails /\ upCount' = [upCount EXCEPT !.faults = @ + 1]
    BY UpWriteIs DEF UpSound
  <1>2. /\ upRows \in Seq(UpRow) /\ upRec.row \in 0..Len(upRows) /\ upRec.at \in 0..UpMaxTime
        /\ UpNone = UpMaxTime + 1 /\ UpMaxTime \in Nat /\ Len(upRows) \in Nat /\ UpGrace \in Nat
        /\ upNow \in 0..UpMaxTime /\ upRec.ok \in 0..UpNone /\ upRec.endAt \in 0..UpNone
    BY DEF UpAssumption, UpSound, UpTyped, UpTypeOK, UpNone, UpRow
  <1>3. upRec.holder \in {"loop", "writer"} /\ upRec.at <= upNow
    <2>1. upRec.holder \in {"loop", "writer"}
      BY <1>1 DEF UpSound, UpTyped, UpTypeOK, UpWrites, UpFails
    <2>2. upRec.writer = "lock" => upRun.state = "ending"
      BY DEF UpSound, UpThreads, UpTyped, UpTypeOK, UpNoRec
    <2> QED BY <2>1, <2>2 DEF UpSound, UpThreads
  <1>4. UpWrites =>
           /\ upRows' \in Seq(UpRow)
           /\ upRec'.row \in 1..Len(upRows')
           /\ upRows'[upRec'.row].last = upRec.at
           /\ upRec.holder = "writer" => upRows'[upRec'.row].ended = upRec.at
           /\ \A i \in 1..Len(upRows') : i # upRec'.row => i \in 1..Len(upRows) /\ upRows'[i] = upRows[i]
           /\ \/ /\ UpContinues /\ upRec'.row = upRec.row /\ upRec.row \in 1..Len(upRows)
                 /\ upRows'[upRec.row].boot = upRows[upRec.row].boot
                 /\ upRec.holder # "writer" => upRows'[upRec.row].ended = upRows[upRec.row].ended
              \/ /\ ~UpContinues /\ upRec'.row = Len(upRows) + 1 /\ upRows'[upRec'.row].boot = upRec.at
                 /\ upRec.holder # "writer" => upRows'[upRec'.row].ended = UpNone
    BY UpRowsWritten DEF UpSound
  <1>5. UpTyped'
    <2>1. upRows' \in Seq(UpRow) /\ upRec'.row \in 0..Len(upRows')
      BY <1>1, <1>2, <1>4 DEF UpFails
    <2>2. upCount' \in [breaks : Nat, faults : Nat, late : BOOLEAN]
      BY <1>1 DEF UpSound, UpTyped
    <2>3. upRec' \in [exists : BOOLEAN, row : 0..Len(upRows'), ok : 0..UpNone, stop : BOOLEAN,
                  endAt : 0..UpNone, holder : {"none", "loop", "writer"}, at : 0..UpMaxTime,
                  loop : {"wait", "lock"}, writer : {"none", "lock", "done"}]
      <3>1. upRec \in [exists : BOOLEAN, row : 0..Len(upRows), ok : 0..UpNone, stop : BOOLEAN,
                  endAt : 0..UpNone, holder : {"none", "loop", "writer"}, at : 0..UpMaxTime,
                  loop : {"wait", "lock"}, writer : {"none", "lock", "done"}]
        BY DEF UpSound, UpTyped, UpTypeOK
      <3>2. PICK done : done = [upRec EXCEPT !.holder = "none",
                    !.loop = IF upRec.holder = "loop" THEN "wait" ELSE @,
                    !.writer = IF upRec.holder = "writer" THEN "done" ELSE @]
        OBVIOUS
      <3>3. done \in [exists : BOOLEAN, row : 0..Len(upRows), ok : 0..UpNone, stop : BOOLEAN,
                  endAt : 0..UpNone, holder : {"none", "loop", "writer"}, at : 0..UpMaxTime,
                  loop : {"wait", "lock"}, writer : {"none", "lock", "done"}]
        BY <3>1, <3>2
      <3>4. \/ upRec' = [done EXCEPT !.ok = upRec.at]
            \/ upRec' = [done EXCEPT !.ok = upRec.at, !.row = Len(upRows) + 1]
            \/ upRec' = done
        BY <3>2 DEF UpWrite
      <3>5. upRec' \in [exists : BOOLEAN, row : 0..(Len(upRows) + 1), ok : 0..UpNone, stop : BOOLEAN,
                  endAt : 0..UpNone, holder : {"none", "loop", "writer"}, at : 0..UpMaxTime,
                  loop : {"wait", "lock"}, writer : {"none", "lock", "done"}]
        <4>1. upRec.at \in 0..UpNone /\ Len(upRows) + 1 \in 0..(Len(upRows) + 1)
              /\ 0..Len(upRows) \subseteq 0..(Len(upRows) + 1)
          BY <1>2
        <4>2. CASE upRec' = [done EXCEPT !.ok = upRec.at]
          BY ONLY <3>3, <4>1, <4>2
        <4>3. CASE upRec' = [done EXCEPT !.ok = upRec.at, !.row = Len(upRows) + 1]
          BY ONLY <3>3, <4>1, <4>3
        <4>4. CASE upRec' = done
          BY ONLY <3>3, <4>1, <4>4
        <4> QED BY <3>4, <4>2, <4>3, <4>4
      <3> QED BY <2>1, <3>5
    <2> QED BY <1>1, <2>1, <2>2, <2>3 DEF UpSound, UpTyped, UpTypeOK, UpRow, UpNone
  <1>6. UpRowOfRec'
    <2>1. CASE UpWrites
      <3>1. upRec'.row # 0 /\ upRec'.ok = upRec.at /\ upRec.at <= upNow /\ upRec'.ok # UpNone
            /\ upRows'[upRec'.row].last = upRec'.ok
        BY <1>2, <1>3, <1>4, <2>1 DEF UpWrites
      <3>2. upRec'.writer = "lock" => upRec'.ok <= upRec'.endAt
        BY <1>1, <1>2, <1>3, <2>1 DEF UpWrites, UpThrough, UpSound, UpThreads
      <3>3. upRec'.writer # "done" => upRec.holder = "loop" /\ upRec.writer # "done"
        BY <1>1, <1>3 DEF UpThrough
      <3>4. upRec'.writer # "done" => upRows'[upRec'.row].ended = UpNone
        BY <1>4, <2>1, <3>3 DEF UpSound, UpRowOfRec
      <3> QED BY <1>1, <3>1, <3>2, <3>4 DEF UpThrough, UpRowOfRec, UpNone
    <2>2. CASE UpFails
      BY <1>1, <1>2, <1>3, <2>2 DEF UpFails, UpThrough, UpSound, UpRowOfRec, UpThreads
    <2> QED BY <1>1, <2>1, <2>2
  <1>7. UpThreads'
    <2>1. upRun.state # "down"
      BY <1>1 DEF UpSound, UpThreads, UpWrites, UpFails, UpLive
    <2> QED BY <1>1, <1>2, <1>3, <2>1 DEF UpThrough, UpSound, UpThreads
  <1>8. UpRowsPast'
    <2>1. CASE UpWrites
      <3>1. upRows'[upRec'.row].boot <= upNow
        BY <1>1, <1>2, <1>3, <1>4, <2>1 DEF UpSound, UpRowsPast
      <3>2. upRows'[upRec'.row].ended = UpNone \/ upRows'[upRec'.row].ended <= upNow
        BY <1>1, <1>2, <1>3, <1>4, <2>1 DEF UpSound, UpRowsPast
      <3>3. \A i \in 1..Len(upRows') : upRows'[i].boot <= upNow /\ upRows'[i].last <= upNow
                                  /\ (upRows'[i].ended = UpNone \/ upRows'[i].ended <= upNow)
        BY <1>1, <1>2, <1>3, <1>4, <2>1, <3>1, <3>2 DEF UpSound, UpRowsPast
      <3> QED BY <1>1, <3>3 DEF UpRowsPast, UpNone
    <2>2. CASE UpFails
      BY <1>1, <2>2 DEF UpFails, UpSound, UpRowsPast, UpNone
    <2> QED BY <1>1, <2>1, <2>2
  <1>9. UpOver'
    BY <1>1 DEF UpSound, UpOver, UpNone
  <1> QED BY <1>5, <1>6, <1>7, <1>8, <1>9 DEF UpSound

\* So does every other step.
LEMMA UpSoundStep ==
    ASSUME UpAssumption, UpSound, UpNext \/ UNCHANGED upVars
    PROVE  UpSound'
  <1>1. /\ upRows \in Seq(UpRow) /\ Len(upRows) \in Nat /\ upRan \in 0..upNow
        /\ UpNone = UpMaxTime + 1 /\ UpMaxTime \in Nat /\ UpGrace \in Nat /\ upNow \in 0..UpMaxTime
        /\ upRun \in [state : {"down", "on", "ending", "frozen"}, active : BOOLEAN, stopped : 0..UpNone]
        /\ upRec \in [exists : BOOLEAN, row : 0..Len(upRows), ok : 0..UpNone, stop : BOOLEAN,
                  endAt : 0..UpNone, holder : {"none", "loop", "writer"}, at : 0..UpMaxTime,
                  loop : {"wait", "lock"}, writer : {"none", "lock", "done"}]
        /\ upCount \in [breaks : Nat, faults : Nat, late : BOOLEAN]
    BY DEF UpAssumption, UpSound, UpTyped, UpTypeOK, UpNone, UpRow
  <1>a. UpBreak => upCount' \in [breaks : Nat, faults : Nat, late : BOOLEAN]
    <2>1. upCount.breaks + 1 \in Nat /\ upCount \in [breaks : Nat, faults : Nat, late : BOOLEAN]
      BY ONLY <1>1
    <2> QED BY ONLY <2>1 DEF UpBreak
  <1>b. \A i \in 1..Len(upRows) : upRows[i].boot \in Nat /\ upRows[i].last \in Nat /\ upRows[i].ended \in Nat
    <2> SUFFICES ASSUME NEW i \in 1..Len(upRows)
                 PROVE  upRows[i].boot \in Nat /\ upRows[i].last \in Nat /\ upRows[i].ended \in Nat
      OBVIOUS
    <2>1. upRows[i] \in UpRow
      BY ONLY <1>1
    <2>2. UpMaxTime \in Nat /\ UpNone \in Nat
      BY ONLY <1>1
    <2> QED BY ONLY <2>1, <2>2 DEF UpRow
  <1>2. UpNoRec \in [exists : BOOLEAN, row : 0..Len(upRows), ok : 0..UpNone, stop : BOOLEAN,
                  endAt : 0..UpNone, holder : {"none", "loop", "writer"}, at : 0..UpMaxTime,
                  loop : {"wait", "lock"}, writer : {"none", "lock", "done"}]
    BY <1>1 DEF UpNoRec
  <1>3. CASE UpTick
    <2>1. /\ upNow' = upNow + 1 /\ upNow < UpMaxTime /\ UNCHANGED <<upRun, upRec, upRows>>
          /\ upRan' \in 0..upNow' /\ upCount' \in [breaks : Nat, faults : Nat, late : BOOLEAN]
      <3>1. PICK up \in {0, 1}, b \in BOOLEAN : upRan' = upRan + up /\ upCount' = [upCount EXCEPT !.late = b]
        <4> DEFINE up == IF upRun.state = "on" THEN 1 ELSE 0
                   b == upCount.late \/ (upRun.state = "on" /\
                            (upRec.ok = UpNone \/ upNow + 1 > upRec.ok + UpGrace))
        <4>1. upRan' = upRan + up /\ upCount' = [upCount EXCEPT !.late = b]
          BY <1>3 DEF UpTick
        <4>2. up \in {0, 1} /\ b \in BOOLEAN
          OBVIOUS
        <4> QED BY <4>1, <4>2
      <3>2. upNow' = upNow + 1 /\ upNow < UpMaxTime /\ UNCHANGED <<upRun, upRec, upRows>>
        BY <1>3 DEF UpTick
      <3>3. upCount' \in [breaks : Nat, faults : Nat, late : BOOLEAN]
        BY <1>1, <3>1
      <3>4. upRan' \in 0..upNow'
        <4>1. upRan \in 0..upNow /\ upNow \in Nat /\ up \in {0, 1} /\ upRan' = upRan + up /\ upNow' = upNow + 1
          BY <1>1, <3>1, <3>2
        <4> QED BY ONLY <4>1
      <3> QED BY <3>2, <3>3, <3>4
    <2>2. ~(upRec.exists /\ upRun.state # "frozen" /\ upRec.holder = "none" /\ upRec.loop = "lock")
      BY <1>3 DEF UpTick, UpLockWanted, UpLive
    <2>3. UpTyped'
      BY <1>1, <2>1 DEF UpTyped, UpTypeOK, UpRow, UpNone
    <2>4. UpRowOfRec'
      BY <1>1, <2>1 DEF UpSound, UpRowOfRec, UpNone
    <2>5. UpThreads'
      BY <1>1, <2>1, <2>2 DEF UpSound, UpThreads, UpNoRec, UpNone
    <2>6. UpRowsPast' /\ UpOver'
      <3>1. UpRowsPast'
        <4>1. /\ upRows' = upRows /\ upNow' = upNow + 1 /\ upNow \in Nat
              /\ \A i \in 1..Len(upRows) :
                    /\ upRows[i].boot <= upNow /\ upRows[i].last <= upNow
                    /\ upRows[i].ended = UpNone \/ upRows[i].ended <= upNow
          BY <1>1, <2>1 DEF UpSound, UpRowsPast
        <4>2. \A i \in 1..Len(upRows) :
                    /\ upRows[i].boot <= upNow' /\ upRows[i].last <= upNow'
                    /\ upRows[i].ended = UpNone \/ upRows[i].ended <= upNow'
          BY ONLY <1>b, <4>1
        <4> QED BY <4>1, <4>2 DEF UpRowsPast, UpNone
      <3>2. UpOver'
        BY <1>1, <2>1 DEF UpSound, UpOver, UpNone
      <3> QED BY <3>1, <3>2
    <2> QED BY <2>3, <2>4, <2>5, <2>6 DEF UpSound
  <1>4. CASE UpStart
    <2>1. /\ upRun' = [upRun EXCEPT !.state = "on"] /\ upRec' = [UpNoRec EXCEPT !.exists = TRUE]
          /\ UNCHANGED <<upNow, upRows, upRan, upCount>> /\ upRun.active
      BY <1>4 DEF UpStart
    <2>2. UpTyped'
      BY <1>1, <1>2, <2>1 DEF UpTyped, UpTypeOK, UpRow, UpNone
    <2>3. UpRowOfRec'
      BY <1>1, <2>1 DEF UpRowOfRec, UpNone, UpNoRec
    <2>4. UpThreads'
      BY <1>1, <2>1 DEF UpThreads, UpNoRec, UpNone
    <2>5. UpRowsPast' /\ UpOver'
      BY <1>1, <2>1 DEF UpSound, UpRowsPast, UpOver, UpNone
    <2> QED BY <2>2, <2>3, <2>4, <2>5 DEF UpSound
  <1>5. CASE UpWake
    <2>1. /\ upRec' = [upRec EXCEPT !.loop = "lock"] /\ ~upRec.stop
          /\ UNCHANGED <<upNow, upRun, upRows, upRan, upCount>> /\ upRec.exists
      BY <1>5 DEF UpWake, UpLive
    <2>2. UpTyped'
      BY <1>1, <2>1 DEF UpTyped, UpTypeOK, UpRow, UpNone
    <2>3. UpRowOfRec' /\ UpThreads' /\ UpRowsPast' /\ UpOver'
      BY <1>1, <2>1 DEF UpSound, UpRowOfRec, UpThreads, UpRowsPast, UpOver, UpNone, UpNoRec
    <2> QED BY <2>2, <2>3 DEF UpSound
  <1>6. CASE UpTake
    <2>1. /\ upRec.exists /\ upRun.state # "frozen" /\ upRec.holder = "none"
          /\ UNCHANGED <<upNow, upRun, upRows, upRan, upCount>>
          /\ \/ upRec.loop = "lock" /\ upRec' = [upRec EXCEPT !.holder = "loop", !.at = upNow]
             \/ upRec.writer = "lock" /\ upRec' = [upRec EXCEPT !.holder = "writer", !.at = upRec.endAt]
      BY <1>6 DEF UpTake, UpLive
    <2>2. upRec.writer = "lock" => upRec.endAt <= upNow
      BY <1>1 DEF UpSound, UpThreads, UpNoRec
    <2>3. CASE upRec.loop = "lock" /\ upRec' = [upRec EXCEPT !.holder = "loop", !.at = upNow]
      <3>1. UpTyped'
        BY <1>1, <2>1, <2>3 DEF UpTyped, UpTypeOK, UpRow, UpNone
      <3>2. UpRowOfRec' /\ UpRowsPast' /\ UpOver'
        BY <1>1, <2>1, <2>3 DEF UpSound, UpRowOfRec, UpRowsPast, UpOver, UpNone
      <3>3. UpThreads'
        BY <1>1, <2>1, <2>3 DEF UpSound, UpThreads, UpNone, UpNoRec
      <3> QED BY <3>1, <3>2, <3>3 DEF UpSound
    <2>4. CASE upRec.writer = "lock" /\ upRec' = [upRec EXCEPT !.holder = "writer", !.at = upRec.endAt]
      <3>1. UpTyped'
        <4>1. upRec.endAt \in 0..UpMaxTime
          BY <1>1, <2>2, <2>4
        <4> QED BY <1>1, <2>1, <2>4, <4>1 DEF UpTyped, UpTypeOK, UpRow, UpNone
      <3>2. UpRowOfRec' /\ UpRowsPast' /\ UpOver'
        BY <1>1, <2>1, <2>4 DEF UpSound, UpRowOfRec, UpRowsPast, UpOver, UpNone
      <3>3. UpThreads'
        BY <1>1, <2>1, <2>4 DEF UpSound, UpThreads, UpNone, UpNoRec
      <3> QED BY <3>1, <3>2, <3>3 DEF UpSound
    <2> QED BY <2>1, <2>3, <2>4
  <1>7. CASE UpStop
    <2>1. /\ upRun.state = "on" /\ UNCHANGED <<upNow, upRows, upRan>>
          /\ upRec' = [upRec EXCEPT !.stop = TRUE, !.endAt = upNow, !.writer = "lock"]
          /\ upCount' = [upCount EXCEPT !.breaks = @ + 1]
      BY <1>7 DEF UpStop, UpBreak
    <2>2. PICK keep \in BOOLEAN : upRun' = [upRun EXCEPT !.state = "ending", !.active = keep]
      BY <1>7 DEF UpStop
    <2>3. UpTyped'
      <3>1. /\ upNow \in 0..UpNone
            /\ upRun' \in [state : {"down", "on", "ending", "frozen"}, active : BOOLEAN, stopped : 0..UpNone]
        <4>1. /\ upRun \in [state : {"down", "on", "ending", "frozen"}, active : BOOLEAN, stopped : 0..UpNone]
              /\ upNow \in 0..UpNone
          BY <1>1
        <4> QED BY ONLY <2>2, <4>1
      <3>2. upRec' \in [exists : BOOLEAN, row : 0..Len(upRows), ok : 0..UpNone, stop : BOOLEAN,
                  endAt : 0..UpNone, holder : {"none", "loop", "writer"}, at : 0..UpMaxTime,
                  loop : {"wait", "lock"}, writer : {"none", "lock", "done"}]
        BY <1>1, <2>1, <3>1
      <3>3. upCount' \in [breaks : Nat, faults : Nat, late : BOOLEAN]
        BY <1>7, <1>a DEF UpStop
      <3> QED BY <1>1, <2>1, <3>1, <3>2, <3>3 DEF UpTyped, UpTypeOK, UpRow, UpNone
    <2>4. UpRowOfRec'
      BY <1>1, <2>1 DEF UpSound, UpRowOfRec, UpThreads, UpNone
    <2>5. UpThreads'
      BY <1>1, <2>1, <2>2 DEF UpSound, UpThreads, UpNone, UpNoRec
    <2>6. UpRowsPast' /\ UpOver'
      BY <1>1, <2>1, <2>2 DEF UpSound, UpRowsPast, UpOver, UpNone
    <2> QED BY <2>3, <2>4, <2>5, <2>6 DEF UpSound
  <1>8. CASE UpStopped \/ UpFreeze \/ UpThaw
    <2>1. /\ upRec' = upRec /\ UNCHANGED <<upNow, upRows, upRan>>
          /\ upCount' \in [breaks : Nat, faults : Nat, late : BOOLEAN]
          /\ \/ upRun' = [upRun EXCEPT !.stopped = upNow] /\ upRun.state = "ending" /\ ~upRun.active
             \/ upRun' = [upRun EXCEPT !.state = "frozen"] /\ upRun.state = "on"
             \/ upRun' = [upRun EXCEPT !.state = "on"] /\ upRun.state = "frozen"
      BY <1>1, <1>8, <1>a DEF UpStopped, UpFreeze, UpThaw
    <2>2. /\ upRun' \in [state : {"down", "on", "ending", "frozen"}, active : BOOLEAN, stopped : 0..UpNone]
          /\ upRun'.state = upRun.state \/ (upRun.state \in {"on", "frozen"} /\ upRun'.state \in {"on", "frozen"})
      <3>1. upNow \in 0..UpNone
        BY <1>1
      <3> QED BY <1>1, <2>1, <3>1
    <2>3. UpTyped'
      BY <1>1, <2>1, <2>2 DEF UpTyped, UpTypeOK, UpRow, UpNone
    <2>4. UpRowOfRec' /\ UpRowsPast'
      BY <1>1, <2>1 DEF UpSound, UpRowOfRec, UpRowsPast, UpNone
    <2>5. UpThreads'
      BY <1>1, <2>1, <2>2 DEF UpSound, UpThreads, UpNone, UpNoRec
    <2>6. UpOver'
      <3>1. /\ upRun'.active = upRun.active
            /\ upRun.stopped # UpNone => upRun.state \in {"ending", "down"}
            /\ \/ upRun'.stopped = upNow /\ upRun.state = "ending" /\ ~upRun.active /\ upRun'.state = "ending"
               \/ upRun'.stopped = upRun.stopped /\ upRun.state \notin {"ending", "down"}
        <4>1. upRun.stopped # UpNone => upRun.state \in {"ending", "down"}
          BY DEF UpSound, UpOver
        <4>2. upRun \in [state : {"down", "on", "ending", "frozen"}, active : BOOLEAN, stopped : 0..UpNone]
          BY <1>1
        <4> QED BY ONLY <2>1, <4>1, <4>2
      <3>2. upNow \in Nat /\ UpNone = UpMaxTime + 1 /\ upNow' = upNow
        BY <1>1, <2>1
      <3>3. upRun'.stopped # UpNone =>
                ~upRun'.active /\ upRun'.state \in {"ending", "down"} /\ upRun'.stopped <= upNow'
        <4>1. CASE upRun'.stopped = upNow /\ upRun.state = "ending" /\ ~upRun.active /\ upRun'.state = "ending"
          <5>1. ~upRun'.active /\ upRun'.stopped <= upNow'
            BY <3>1, <3>2, <4>1
          <5> QED BY <4>1, <5>1
        <4>2. CASE upRun'.stopped = upRun.stopped /\ upRun.state \notin {"ending", "down"}
          <5>1. upRun.stopped = UpNone
            BY <4>2 DEF UpSound, UpOver
          <5> QED BY ONLY <4>2, <5>1
        <4> QED BY ONLY <3>1, <4>1, <4>2
      <3> QED BY <3>3 DEF UpOver, UpNone
    <2> QED BY <2>3, <2>4, <2>5, <2>6 DEF UpSound
  <1>9. CASE UpDie
    <2>1. /\ upRun' = [upRun EXCEPT !.state = "down"] /\ upRec' = UpNoRec /\ UNCHANGED <<upNow, upRows, upRan>>
          /\ upCount' \in [breaks : Nat, faults : Nat, late : BOOLEAN]
      BY <1>9, <1>a DEF UpDie
    <2>2. UpTyped'
      BY <1>1, <1>2, <2>1 DEF UpTyped, UpTypeOK, UpRow, UpNone
    <2>3. UpRowOfRec' /\ UpThreads'
      BY <1>1, <2>1 DEF UpRowOfRec, UpThreads, UpNone, UpNoRec
    <2>4. UpRowsPast' /\ UpOver'
      BY <1>1, <2>1 DEF UpSound, UpRowsPast, UpOver, UpNone
    <2> QED BY <2>2, <2>3, <2>4 DEF UpSound
  <1>10. CASE UNCHANGED upVars
    BY <1>10 DEF UpSound, UpTyped, UpTypeOK, UpRowOfRec, UpThreads, UpRowsPast, UpOver, upVars, UpNone, UpNoRec
  <1> QED BY <1>3, <1>4, <1>5, <1>6, <1>7, <1>8, <1>9, <1>10, UpSoundWrite DEF UpNext

-----------------------------------------------------------------------------
(* The units the run was up.                                                 *)

\* A write takes no unit from a row, unless it is past the end written.
LEMMA UpRowsGrow ==
    ASSUME UpAssumption, UpSound, UpWrites, NEW x \in Nat, NEW i \in 1..Len(upRows), UpHas(upRows[i], x),
           upRec.holder = "writer" => x < upRec.at
    PROVE  i \in 1..Len(upRows') /\ UpHas(upRows'[i], x)
  <1>1. /\ upRows \in Seq(UpRow) /\ upRec.row \in 0..Len(upRows) /\ upRec.at \in 0..UpMaxTime /\ upRec.ok \in 0..UpNone
        /\ UpNone = UpMaxTime + 1 /\ UpMaxTime \in Nat /\ Len(upRows) \in Nat /\ UpGrace \in Nat
        /\ upRec.holder \in {"none", "loop", "writer"}
    BY DEF UpAssumption, UpSound, UpTyped, UpTypeOK, UpNone, UpRow
  <1>2. /\ upRows' \in Seq(UpRow)
        /\ upRec'.row \in 1..Len(upRows')
        /\ upRows'[upRec'.row].last = upRec.at
        /\ upRec.holder = "writer" => upRows'[upRec'.row].ended = upRec.at
        /\ i \in 1..Len(upRows') /\ (i # upRec.row \/ ~UpContinues => upRows'[i] = upRows[i])
        /\ UpContinues =>
              /\ upRec'.row = upRec.row /\ upRec.row \in 1..Len(upRows)
              /\ upRows'[upRec.row].boot = upRows[upRec.row].boot
              /\ upRec.holder # "writer" => upRows'[upRec.row].ended = upRows[upRec.row].ended
    BY UpRowsWritten DEF UpSound
  <1>3. CASE i # upRec.row \/ ~UpContinues
    BY <1>2, <1>3
  <1>4. CASE i = upRec.row /\ UpContinues
    <2>1. PICK old \in UpRow : old = upRows[i]
      BY <1>1
    <2>2. PICK new \in UpRow : new = upRows'[i]
      BY <1>2
    <2>3. /\ new.boot = old.boot /\ new.last = upRec.at
          /\ upRec.holder = "writer" => new.ended = upRec.at
          /\ upRec.holder # "writer" => new.ended = old.ended
      BY <1>2, <1>4, <2>1, <2>2
    <2>4. old.last <= upRec.at
      BY <1>1, <1>4, <2>1 DEF UpSound, UpRowOfRec, UpWrites
    <2>5. UpHas(old, x)
      BY <2>1
    <2>6. UpHas(new, x)
      <3>1. old.boot \in Nat /\ old.last \in Nat /\ old.ended \in Nat /\ new.last \in Nat /\ UpGrace \in Nat
            /\ UpNone \in Nat /\ upRec.at \in Nat /\ upRec.at # UpNone
        <4>1. /\ UpMaxTime \in Nat /\ UpNone = UpMaxTime + 1 /\ UpGrace \in Nat
              /\ upRec.at \in 0..UpMaxTime
          BY <1>1
        <4> QED BY ONLY <2>1, <2>2, <4>1 DEF UpRow
      <3>2. CASE upRec.holder = "writer"
        BY <2>3, <2>4, <2>5, <3>1, <3>2 DEF UpHas, UpReach
      <3>3. CASE upRec.holder # "writer"
        BY <2>3, <2>4, <2>5, <3>1, <3>3 DEF UpHas, UpReach
      <3> QED BY <3>2, <3>3
    <2> QED BY <1>2, <2>2, <2>6
  <1> QED BY <1>3, <1>4

\* A tick of a run that is up adds one unit, which the row has if the beats are in time.
LEMMA UpRanTick ==
    ASSUME UpAssumption, UpSound, NEW R \in SUBSET Nat, UpRanUnits(R), UpTick,
           NEW Q, Q = IF upRun.state = "on" THEN R \cup {upNow} ELSE R
    PROVE  UpRanUnits(Q)'
  <1>1. /\ upNow \in Nat /\ upNow' = upNow + 1 /\ UNCHANGED <<upRun, upRec, upRows>>
        /\ upRan' = upRan + (IF upRun.state = "on" THEN 1 ELSE 0) /\ upRan \in Nat
    BY DEF UpTick, UpSound, UpTyped, UpTypeOK
  <1>2. /\ upCount'.faults = upCount.faults
        /\ ~upCount'.late => ~upCount.late /\ (upRun.state = "on" => upRec.ok # UpNone /\ upNow + 1 <= upRec.ok + UpGrace)
    <2>1. PICK c : c = (upCount.late \/ (upRun.state = "on" /\
                            (upRec.ok = UpNone \/ upNow + 1 > upRec.ok + UpGrace)))
      OBVIOUS
    <2>2. upCount' = [upCount EXCEPT !.late = c]
      BY <2>1 DEF UpTick
    <2>3. upCount \in [breaks : Nat, faults : Nat, late : BOOLEAN]
      BY DEF UpSound, UpTyped
    <2>4. upCount'.faults = upCount.faults /\ upCount'.late = c
      BY ONLY <2>2, <2>3
    <2>5. upRec.ok \in Nat /\ UpGrace \in Nat
      BY DEF UpSound, UpTyped, UpTypeOK, UpAssumption, UpNone
    <2>6. ~c /\ upRun.state = "on" => upRec.ok # UpNone /\ upNow + 1 <= upRec.ok + UpGrace
      <3>1. ~c /\ upRun.state = "on" => upRec.ok # UpNone /\ ~(upNow + 1 > upRec.ok + UpGrace)
        BY <2>1
      <3>2. upNow + 1 \in Nat /\ upRec.ok + UpGrace \in Nat
        BY <1>1, <2>5
      <3>3. ~(upNow + 1 > upRec.ok + UpGrace) => upNow + 1 <= upRec.ok + UpGrace
        BY ONLY <3>2
      <3> QED BY <3>1, <3>3
    <2>7. ~c => ~upCount.late
      BY <2>1
    <2> QED BY <2>4, <2>6, <2>7
  <1>3. CASE upRun.state # "on"
    <2>1. Q = R /\ upRan' = upRan
      BY <1>1, <1>3
    <2>2. R \subseteq 0..(upNow' - 1)
      BY <1>1 DEF UpRanUnits
    <2> QED BY <1>1, <1>2, <2>1, <2>2 DEF UpRanUnits, UpHas, UpReach, UpNone
  <1>4. CASE upRun.state = "on"
    <2>1. Q = R \cup {upNow} /\ upRan' = upRan + 1
      BY <1>1, <1>4
    <2>2. R \subseteq 0..(upNow - 1) /\ Cardinality(R) = upRan
      BY DEF UpRanUnits
    <2>3. Q \subseteq 0..(upNow' - 1)
      BY <1>1, <2>1, <2>2
    <2>4. Cardinality(Q) = upRan'
      <3>1. IsFiniteSet(R)
        <4>1. IsFiniteSet(0..(upNow - 1))
          BY <1>1, FS_Interval
        <4> QED BY <2>2, <4>1, FS_Subset
      <3>2. upNow \notin R
        BY <1>1, <2>2
      <3> QED BY <2>1, <2>2, <3>1, <3>2, FS_AddElement
    <2>5. upRun'.stopped = UpNone
      BY <1>1, <1>4 DEF UpSound, UpOver
    <2>6. ASSUME upCount'.faults = 0, ~upCount'.late
          PROVE  \A x \in Q : \E i \in 1..Len(upRows) : UpHas(upRows[i], x)
      <3>1. upRec.ok # UpNone /\ upNow + 1 <= upRec.ok + UpGrace
        BY <1>2, <1>4, <2>6
      <3>2. /\ upRows \in Seq(UpRow) /\ upRec.row \in 1..Len(upRows) /\ upRec.ok \in Nat /\ UpGrace \in Nat
            /\ upRows[upRec.row].last = upRec.ok /\ upRows[upRec.row].ended = UpNone
            /\ upRows[upRec.row].boot <= upNow
        <4>1. /\ upRows \in Seq(UpRow) /\ upRec.row \in 0..Len(upRows) /\ upRec.ok \in Nat /\ UpGrace \in Nat
              /\ Len(upRows) \in Nat
          BY DEF UpSound, UpTyped, UpTypeOK, UpRow, UpAssumption, UpNone
        <4>2. upRec.writer = "none"
          BY <1>4 DEF UpSound, UpThreads
        <4>3. /\ upRec.row # 0 /\ upRows[upRec.row].last = upRec.ok /\ upRows[upRec.row].ended = UpNone
          BY <3>1, <4>2 DEF UpSound, UpRowOfRec
        <4>4. upRec.row \in 1..Len(upRows)
          BY <4>1, <4>3
        <4> QED BY <4>1, <4>3, <4>4 DEF UpSound, UpRowsPast
      <3>3. UpHas(upRows[upRec.row], upNow)
        BY <1>1, <3>1, <3>2 DEF UpHas, UpReach
      <3>4. \A x \in R : \E i \in 1..Len(upRows) : UpHas(upRows[i], x)
        BY <1>2, <2>6 DEF UpRanUnits
      <3> QED BY <2>1, <3>2, <3>3, <3>4
    <2>7. upRun'.state # "ending"
      BY <1>1, <1>4
    <2> QED BY <1>1, <2>3, <2>4, <2>5, <2>6, <2>7 DEF UpRanUnits, UpHas, UpReach, UpNone
  <1> QED BY <1>3, <1>4

\* No other step moves the units, nor takes one from its row.
LEMMA UpRanStays ==
    ASSUME UpAssumption, UpSound, NEW R \in SUBSET Nat, UpRanUnits(R), UpNext \/ UNCHANGED upVars, ~UpTick
    PROVE  UpRanUnits(R)'
  <1>1. upNow' = upNow /\ upRan' = upRan
    BY DEF UpNext, UpStart, UpWake, UpTake, UpWrite, UpStop, UpStopped, UpDie, UpFreeze, UpThaw, upVars
  <1>2. R \subseteq 0..(upNow - 1) /\ Cardinality(R) = upRan /\ upNow \in Nat
    BY DEF UpRanUnits, UpSound, UpTyped, UpTypeOK
  <1>3. upRun'.stopped # UpNone => \A x \in R : x < upRun'.stopped
    <2>1. CASE UpStopped
      <3>1. upRun'.stopped = upNow
        BY <2>1 DEF UpStopped, UpSound, UpTyped, UpTypeOK
      <3> QED BY <1>2, <3>1
    <2>2. CASE ~UpStopped
      <3>1. upRun'.stopped = upRun.stopped
        <4>1. upRun \in [state : {"down", "on", "ending", "frozen"}, active : BOOLEAN, stopped : 0..UpNone]
          BY DEF UpSound, UpTyped, UpTypeOK
        <4>2. \/ upRun' = upRun \/ \E k \in BOOLEAN : upRun' = [upRun EXCEPT !.state = "ending", !.active = k]
              \/ \E s \in {"on", "down", "frozen"} : upRun' = [upRun EXCEPT !.state = s]
          BY <2>2 DEF UpNext, UpStart, UpWake, UpTake, UpWrite, UpStop, UpDie, UpFreeze, UpThaw, upVars
        <4> QED BY ONLY <4>1, <4>2
      <3> QED BY <3>1 DEF UpRanUnits
    <2> QED BY <2>1, <2>2
  <1>4. upRun'.state = "ending" => \A x \in R : x < upRec'.endAt
    <2>1. CASE UpStop
      <3>1. upRec'.endAt = upNow
        BY <2>1 DEF UpStop, UpSound, UpTyped, UpTypeOK
      <3> QED BY <1>2, <3>1
    <2>2. CASE ~UpStop
      <3>1. upRun'.state = "ending" => upRun.state = "ending"
        BY <2>2 DEF UpNext, UpStart, UpWake, UpTake, UpWrite, UpStopped, UpDie, UpFreeze, UpThaw, upVars,
              UpSound, UpTyped, UpTypeOK
      <3>2. upRun.state = "ending" /\ upRun'.state = "ending" => upRec'.endAt = upRec.endAt
        <4>1. CASE UpWrite
          BY <4>1, UpWriteIs DEF UpThrough, UpSound
        <4>2. CASE ~UpWrite
          BY <2>2, <4>2 DEF UpNext, UpStart, UpWake, UpTake, UpStopped, UpDie, UpFreeze, UpThaw, upVars,
                UpSound, UpTyped, UpTypeOK
        <4> QED BY <4>1, <4>2
      <3> QED BY <3>1, <3>2 DEF UpRanUnits
    <2> QED BY <2>1, <2>2
  <1>5. ASSUME upCount'.faults = 0, ~upCount'.late
        PROVE  \A x \in R : \E i \in 1..Len(upRows') : UpHas(upRows[i], x)'
    <2>1. CASE UpWrite
      <3>1. UpWrites /\ upCount' = upCount
        <4>1. upCount' # [upCount EXCEPT !.faults = @ + 1]
          BY <1>5 DEF UpSound, UpTyped
        <4> QED BY <2>1, <4>1, UpWriteIs DEF UpSound
      <3>2. \A x \in R : \E i \in 1..Len(upRows) : UpHas(upRows[i], x)
        BY <1>5, <3>1 DEF UpRanUnits
      <3>3. \A x \in R : x \in Nat /\ (upRec.holder = "writer" => x < upRec.at)
        <4>1. upRec.holder = "writer" => upRun.state = "ending" /\ upRec.at = upRec.endAt
          BY DEF UpSound, UpThreads, UpTyped, UpTypeOK, UpNoRec
        <4> QED BY <4>1 DEF UpRanUnits
      <3>4. SUFFICES ASSUME NEW x \in R
                     PROVE  \E i \in 1..Len(upRows') : UpHas(upRows'[i], x)
        BY DEF UpHas, UpReach, UpNone
      <3>5. PICK i \in 1..Len(upRows) : UpHas(upRows[i], x)
        BY <3>2
      <3>6. i \in 1..Len(upRows') /\ UpHas(upRows'[i], x)
        BY <3>1, <3>3, <3>5, UpRowsGrow
      <3> QED BY <3>6
    <2>2. CASE ~UpWrite
      <3>1. upRows' = upRows /\ upCount'.faults = upCount.faults /\ upCount'.late = upCount.late
        BY <2>2 DEF UpNext, UpStart, UpWake, UpTake, UpStop, UpStopped, UpDie, UpFreeze, UpThaw, UpBreak, upVars,
              UpSound, UpTyped
      <3> QED BY <1>5, <3>1 DEF UpRanUnits, UpHas, UpReach, UpNone
    <2> QED BY <2>1, <2>2
  <1> QED BY <1>1, <1>2, <1>3, <1>4, <1>5 DEF UpRanUnits, UpNone

-----------------------------------------------------------------------------
(* What nobody will count.                                                   *)

\* A write puts no spare unit into a row.
LEMMA UpSpareKept ==
    ASSUME UpAssumption, UpSound, UpWrite, NEW x \in Nat, UpSpare(x)
    PROVE  UpSpare(x)'
  <1>1. /\ upRows \in Seq(UpRow) /\ upRec.row \in 0..Len(upRows) /\ upRec.at \in 0..UpMaxTime /\ upRec.ok \in 0..UpNone
        /\ UpNone = UpMaxTime + 1 /\ UpMaxTime \in Nat /\ Len(upRows) \in Nat /\ UpGrace \in Nat
    BY DEF UpAssumption, UpSound, UpTyped, UpTypeOK, UpNone, UpRow
  <1>2. UpThrough /\ (UpWrites \/ UpFails)
    BY UpWriteIs DEF UpSound
  <1>3. upRec.holder \in {"loop", "writer"}
    BY <1>2 DEF UpWrites, UpFails, UpSound, UpTyped, UpTypeOK
  <1>4. /\ upRec'.holder = "none" /\ upRec'.endAt = upRec.endAt
        /\ upRec'.writer = "lock" => upRec.writer = "lock"
    BY <1>2, <1>3 DEF UpThrough
  <1>5. \A i \in 1..Len(upRows') : ~UpHas(upRows'[i], x)
    <2>1. CASE UpFails
      BY <2>1 DEF UpFails, UpSpare
    <2>2. CASE UpWrites
      <3>1. /\ upRows' \in Seq(UpRow)
            /\ upRec'.row \in 1..Len(upRows')
            /\ upRows'[upRec'.row].last = upRec.at
            /\ upRec.holder = "writer" => upRows'[upRec'.row].ended = upRec.at
            /\ \A i \in 1..Len(upRows') : i # upRec'.row => i \in 1..Len(upRows) /\ upRows'[i] = upRows[i]
            /\ \/ /\ UpContinues /\ upRec'.row = upRec.row /\ upRec.row \in 1..Len(upRows)
                  /\ upRows'[upRec.row].boot = upRows[upRec.row].boot
                  /\ upRec.holder # "writer" => upRows'[upRec.row].ended = upRows[upRec.row].ended
               \/ /\ ~UpContinues /\ upRec'.row = Len(upRows) + 1 /\ upRows'[upRec'.row].boot = upRec.at
                  /\ upRec.holder # "writer" => upRows'[upRec'.row].ended = UpNone
        BY <2>2, UpRowsWritten DEF UpSound
      <3>2. \A i \in 1..Len(upRows') : i # upRec'.row => ~UpHas(upRows'[i], x)
        BY <3>1 DEF UpSpare
      <3>3. PICK new \in UpRow : new = upRows'[upRec'.row]
        BY <3>1
      <3>4. /\ UpMaxTime \in Nat /\ UpNone = UpMaxTime + 1 /\ UpGrace \in Nat /\ upRec.at \in 0..UpMaxTime
            /\ upRec.holder \in {"loop", "writer"}
        BY <1>1, <1>3
      <3>5. ~(upRec.at <= x /\ x < upRec.at + UpGrace)
        BY <1>3, <3>4 DEF UpSpare, UpFrom
      <3>6. /\ new.last = upRec.at
            /\ upRec.holder = "writer" => new.ended = upRec.at
            /\ new.boot \in Nat
        BY <3>1, <3>3 DEF UpRow
      <3>7. ~UpHas(new, x)
        <4>1. CASE ~UpContinues
          <5>1. /\ new.boot = upRec.at
                /\ upRec.holder # "writer" => new.ended = UpNone
            BY <3>1, <3>3, <4>1
          <5> QED BY ONLY <3>4, <3>5, <3>6, <5>1, x \in Nat DEF UpHas, UpReach
        <4>2. CASE UpContinues
          <5>1. PICK old \in UpRow : old = upRows[upRec.row]
            BY <1>1, <3>1, <4>2
          <5>2. /\ new.boot = old.boot
                /\ upRec.holder # "writer" => new.ended = old.ended
            BY <3>1, <3>3, <4>2, <5>1
          <5>3. upRec.row # 0 /\ old.last = upRec.ok /\ upRec.at <= old.last + UpGrace
            BY <4>2, <5>1 DEF UpContinues, UpSound, UpRowOfRec
          <5>4. upRec.writer # "done" => old.ended = UpNone
            BY <5>1, <5>3 DEF UpSound, UpRowOfRec
          <5>5. upRec.holder = "writer" => upRec.writer = "lock"
            BY DEF UpSound, UpThreads
          <5>6. ~UpHas(old, x)
            BY <3>1, <4>2, <5>1 DEF UpSpare
          <5>7. old.last \in Nat /\ old.boot \in Nat /\ old.ended \in Nat
            BY <3>4 DEF UpRow
          <5>8. CASE upRec.holder = "writer"
            BY ONLY <3>4, <3>5, <3>6, <5>2, <5>3, <5>4, <5>5, <5>6, <5>7, <5>8, x \in Nat DEF UpHas, UpReach
          <5>9. CASE upRec.holder = "loop"
            BY ONLY <3>4, <3>5, <3>6, <5>2, <5>3, <5>4, <5>6, <5>7, <5>9, x \in Nat DEF UpHas, UpReach
          <5> QED BY <3>4, <5>8, <5>9
        <4> QED BY <4>1, <4>2
      <3> QED BY <3>2, <3>3, <3>7
    <2> QED BY <1>2, <2>1, <2>2
  <1> QED BY <1>4, <1>5 DEF UpSpare, UpHas, UpReach, UpNone, UpFrom

\* Nor, into a row but the one written, a unit that is not before the beat.
LEMMA UpOthersKept ==
    ASSUME UpAssumption, UpSound, UpWrite, upRec.writer # "done", NEW x \in Nat, upRec.at <= x, UpOthersSpare(x)
    PROVE  UpOthersSpare(x)'
  <1>1. /\ upRows \in Seq(UpRow) /\ upRec.row \in 0..Len(upRows) /\ upRec.at \in 0..UpMaxTime /\ upRec.ok \in 0..UpNone
        /\ UpNone = UpMaxTime + 1 /\ UpMaxTime \in Nat /\ Len(upRows) \in Nat /\ UpGrace \in Nat
    BY DEF UpAssumption, UpSound, UpTyped, UpTypeOK, UpNone, UpRow
  <1>2. UpWrites \/ UpFails
    BY UpWriteIs DEF UpSound
  <1>3. \A i \in 1..Len(upRows') : i # upRec'.row => ~UpHas(upRows'[i], x)
    <2>1. CASE UpFails
      BY <2>1 DEF UpFails, UpOthersSpare
    <2>2. CASE UpWrites
      <3>1. /\ \A i \in 1..Len(upRows') : i # upRec'.row => i \in 1..Len(upRows) /\ upRows'[i] = upRows[i]
            /\ \/ UpContinues /\ upRec'.row = upRec.row
               \/ ~UpContinues /\ upRec'.row = Len(upRows) + 1
        BY <2>2, UpRowsWritten DEF UpSound
      <3>2. CASE UpContinues /\ upRec'.row = upRec.row
        BY <3>1, <3>2 DEF UpOthersSpare
      <3>3. CASE ~UpContinues
        <4>1. ASSUME upRec.row # 0
              PROVE  ~UpHas(upRows[upRec.row], x)
          <5>1. PICK old \in UpRow : old = upRows[upRec.row]
            BY <1>1, <4>1
          <5>2. old.last = upRec.ok /\ old.ended = UpNone /\ ~(upRec.at <= upRec.ok + UpGrace)
            BY <3>3, <4>1, <5>1 DEF UpContinues, UpSound, UpRowOfRec
          <5>3. upRec.at \in Nat /\ upRec.ok \in Nat /\ UpGrace \in Nat
            BY <1>1
          <5>4. ~UpHas(old, x)
            BY ONLY <5>2, <5>3, upRec.at <= x, x \in Nat DEF UpHas, UpReach
          <5> QED BY <5>1, <5>4
        <4> QED BY <1>1, <3>1, <4>1 DEF UpOthersSpare
      <3> QED BY <3>1, <3>2, <3>3
    <2> QED BY <1>2, <2>1, <2>2
  <1> QED BY <1>3 DEF UpOthersSpare, UpHas, UpReach, UpNone

\* What is paid stays so over a write that is not an end that failed.
LEMMA UpPaidWrite ==
    ASSUME UpAssumption, UpSound, UpWrite, UpWrites \/ upRec.holder # "writer", NEW S, UpPaid(S)
    PROVE  UpPaid(S)'
  <1>1. UpThrough /\ (UpWrites \/ UpFails) /\ upRun' = upRun /\ upNow' = upNow
    BY UpWriteIs DEF UpSound
  <1>2. /\ upRec.holder \in {"loop", "writer"} /\ upRun.state \in {"on", "ending"}
        /\ upRec.at \in Nat /\ upRec.endAt \in Nat /\ upNow \in Nat /\ UpGrace \in Nat
        /\ upRec.writer \in {"none", "lock", "done"}
    <2>1. upRec.holder # "none" /\ upRec.exists /\ upRun.state # "frozen"
      BY <1>1 DEF UpWrites, UpFails, UpLive
    <2>2. upRun.state # "down"
      BY <2>1 DEF UpSound, UpThreads
    <2> QED BY <2>1, <2>2 DEF UpSound, UpTyped, UpTypeOK, UpAssumption, UpNone
  <1>3. \A x \in Nat : UpSpare(x) => UpSpare(x)'
    BY UpSpareKept
  <1>4. upRec.writer # "done" => \A x \in Nat : upRec.at <= x /\ UpOthersSpare(x) => UpOthersSpare(x)'
    BY UpOthersKept
  <1>5. CASE upRun.state = "on"
    <2>1. upRec.writer = "none" /\ upRec.holder = "loop" /\ upRec.at <= upNow
      BY <1>2, <1>5 DEF UpSound, UpThreads
    <2>2. ASSUME NEW x \in Nat \ S
          PROVE  IF x < upNow THEN UpSpare(x)' ELSE UpOthersSpare(x)'
      <3>1. IF x < upNow THEN UpSpare(x) ELSE UpOthersSpare(x)
        BY <1>5 DEF UpPaid
      <3>2. CASE x < upNow
        BY <1>3, <3>1, <3>2
      <3>3. CASE ~(x < upNow)
        <4>1. upRec.at <= x
          BY <1>2, <2>1, <3>3
        <4> QED BY <1>4, <2>1, <3>1, <3>3, <4>1
      <3> QED BY <3>2, <3>3
    <2> QED BY <1>1, <1>5, <2>2 DEF UpPaid
  <1>6. CASE upRun.state = "ending" /\ upRec.writer = "lock" /\ upRec.holder = "loop"
    <2>1. upRec'.writer = "lock" /\ upRec'.endAt = upRec.endAt /\ upRec.at <= upRec.endAt
      BY <1>1, <1>6 DEF UpThrough, UpSound, UpThreads
    <2>2. ASSUME NEW x \in Nat \ S
          PROVE  UpSpare(x)' \/ (x \in UpFrom(upRec.endAt) /\ UpOthersSpare(x)')
      <3>1. CASE UpSpare(x)
        BY <1>3, <3>1
      <3>2. CASE x \in UpFrom(upRec.endAt) /\ UpOthersSpare(x)
        <4>1. upRec.at <= x
          BY <1>2, <2>1, <3>2 DEF UpFrom
        <4> QED BY <1>4, <1>6, <3>2, <4>1
      <3> QED BY <1>6, <3>1, <3>2 DEF UpPaid
    <2>3. UpFrom(upRec.endAt)' = UpFrom(upRec.endAt)
      BY <2>1 DEF UpFrom
    <2> QED BY <1>1, <1>6, <2>1, <2>2, <2>3 DEF UpPaid
  <1>7. CASE upRun.state = "ending" /\ upRec.writer = "lock" /\ upRec.holder = "writer"
    <2>1. UpWrites /\ upRec'.writer = "done" /\ upRec'.holder = "none" /\ upRec.at = upRec.endAt
      BY <1>1, <1>7 DEF UpThrough, UpSound, UpThreads
    <2>2. ASSUME NEW x \in Nat \ S
          PROVE  UpSpare(x)'
      <3>1. CASE UpSpare(x)
        BY <1>3, <3>1
      <3>2. CASE x \in UpFrom(upRec.endAt) /\ UpOthersSpare(x)
        <4>1. upRec.at <= x
          BY <1>2, <2>1, <3>2 DEF UpFrom
        <4>2. UpOthersSpare(x)'
          BY <1>4, <1>7, <3>2, <4>1
        <4>3. upRec'.row \in 1..Len(upRows') /\ upRows'[upRec'.row].ended = upRec.at
          BY <1>7, <2>1, UpRowsWritten DEF UpSound
        <4>4. upRec.at # UpNone
          BY DEF UpSound, UpTyped, UpTypeOK, UpNone, UpAssumption
        <4>5. ~UpHas(upRows'[upRec'.row], x)
          BY <1>2, <4>1, <4>3, <4>4 DEF UpHas, UpReach
        <4>6. \A i \in 1..Len(upRows') : ~UpHas(upRows'[i], x)
          BY <4>2, <4>5 DEF UpOthersSpare, UpHas, UpReach, UpNone
        <4> QED BY <2>1, <4>6 DEF UpSpare, UpHas, UpReach, UpNone
      <3> QED BY <1>7, <3>1, <3>2 DEF UpPaid
    <2>3. \E e \in Nat : \A x \in Nat \ S :
              UpSpare(x)' \/ (x \in UpFrom(e) /\ (upRec'.loop = "wait" \/ upRec'.holder = "loop"))
      BY <2>2
    <2>4. upRun'.state = "ending" /\ upRec'.writer # "lock"
      BY <1>1, <1>7, <2>1
    <2> QED BY <2>3, <2>4 DEF UpPaid, UpFrom
  <1>8. CASE upRun.state = "ending" /\ upRec.writer # "lock"
    <2>1. upRec.writer = "done" /\ upRec.holder = "loop"
      BY <1>2, <1>8 DEF UpSound, UpThreads
    <2>2. upRec'.loop = "wait" /\ upRec'.writer = "done"
      BY <1>1, <2>1 DEF UpThrough
    <2>3. PICK e \in Nat : \A x \in Nat \ S :
              UpSpare(x) \/ (x \in UpFrom(e) /\ (upRec.loop = "wait" \/ upRec.holder = "loop"))
      BY <1>8 DEF UpPaid
    <2>4. \A x \in Nat \ S :
              UpSpare(x)' \/ (x \in UpFrom(e) /\ (upRec'.loop = "wait" \/ upRec'.holder = "loop"))
      BY <1>3, <2>2, <2>3
    <2>5. upRun'.state = "ending" /\ upRec'.writer # "lock"
      BY <1>1, <1>8, <2>2
    <2> QED BY <2>4, <2>5 DEF UpPaid, UpFrom
  <1> QED BY <1>2, <1>5, <1>6, <1>7, <1>8

\* An end that failed is paid with a grace of its own.
LEMMA UpPaidEndFails ==
    ASSUME UpAssumption, UpSound, UpWrite, UpFails, upRec.holder = "writer", NEW S, UpPaid(S),
           NEW F, F = UpFrom(upRec.endAt)
    PROVE  UpPaid(S \cup F)' /\ upRun.state = "ending"
  <1>1. UpThrough /\ upRun' = upRun
    BY UpWriteIs DEF UpSound
  <1>2. upRec.writer = "lock" /\ upRec'.writer = "done"
    BY <1>1 DEF UpThrough, UpSound, UpThreads
  <1>3. upRun.state = "ending"
    BY <1>2 DEF UpSound, UpThreads, UpTyped, UpTypeOK, UpNoRec
  <1>4. \A x \in Nat \ (S \cup F) : UpSpare(x)'
    <2>1. \A x \in Nat \ (S \cup F) : UpSpare(x)
      BY <1>2, <1>3 DEF UpPaid
    <2> QED BY <2>1, UpSpareKept
  <1>5. \E e \in Nat : \A x \in Nat \ (S \cup F) :
              UpSpare(x)' \/ (x \in UpFrom(e) /\ (upRec'.loop = "wait" \/ upRec'.holder = "loop"))
    BY <1>4
  <1>6. upRun'.state = "ending" /\ upRec'.writer # "lock"
    BY <1>1, <1>2, <1>3
  <1> QED BY <1>3, <1>5, <1>6 DEF UpPaid, UpFrom

\* Time passes.
LEMMA UpPaidTick ==
    ASSUME UpAssumption, UpSound, UpTick, NEW S, UpPaid(S),
           NEW Q, Q = IF upRun.state = "on" THEN S \cup {upNow} ELSE S
    PROVE  UpPaid(Q)'
  <1>1. upNow \in Nat /\ upNow' = upNow + 1 /\ UNCHANGED <<upRun, upRec, upRows>>
    BY DEF UpTick, UpSound, UpTyped, UpTypeOK
  <1>2. \A x : UpSpare(x)' <=> UpSpare(x)
    BY <1>1 DEF UpSpare, UpHas, UpReach, UpFrom, UpNone
  <1>3. \A x : UpOthersSpare(x)' <=> UpOthersSpare(x)
    BY <1>1 DEF UpOthersSpare, UpHas, UpReach, UpNone
  <1>4. CASE upRun.state = "on"
    <2>1. ASSUME NEW x \in Nat \ Q
          PROVE  IF x < upNow' THEN UpSpare(x)' ELSE UpOthersSpare(x)'
      <3>1. x # upNow /\ IF x < upNow THEN UpSpare(x) ELSE UpOthersSpare(x)
        BY <1>4 DEF UpPaid
      <3>2. CASE x < upNow
        BY <1>1, <1>2, <3>1, <3>2
      <3>3. CASE ~(x < upNow)
        BY <1>1, <1>3, <3>1, <3>3
      <3> QED BY <3>2, <3>3
    <2> QED BY <1>1, <1>4, <2>1 DEF UpPaid
  <1>5. CASE upRun.state # "on"
    <2>1. Q = S
      BY <1>5
    <2> QED BY <1>1, <1>2, <1>3, <1>5, <2>1 DEF UpPaid, UpFrom
  <1> QED BY <1>4, <1>5

\* No row counts past a grace from now.
LEMMA UpReachIs ==
    ASSUME UpAssumption, UpSound, NEW x \in Nat, upNow + UpGrace <= x
    PROVE  /\ \A i \in 1..Len(upRows) : ~UpHas(upRows[i], x)
           /\ upRec.holder # "none" => x \notin UpFrom(upRec.at)
  <1>1. /\ upRows \in Seq(UpRow) /\ UpNone \in Nat /\ UpGrace \in Nat /\ upNow \in Nat
        /\ upRec.at \in Nat /\ upRec.holder \in {"none", "loop", "writer"}
    BY DEF UpAssumption, UpSound, UpTyped, UpTypeOK, UpNone, UpRow
  <1>2. ASSUME NEW i \in 1..Len(upRows)
        PROVE  ~UpHas(upRows[i], x)
    <2>1. PICK w \in UpRow : w = upRows[i]
      BY <1>1
    <2>2. w.last <= upNow /\ (w.ended = UpNone \/ w.ended <= upNow)
      BY <2>1 DEF UpSound, UpRowsPast
    <2>3. w.last \in Nat /\ w.ended \in Nat
      BY <1>1 DEF UpRow, UpAssumption
    <2>4. ~UpHas(w, x)
      BY ONLY <1>1, <2>2, <2>3, x \in Nat, upNow + UpGrace <= x DEF UpHas, UpReach
    <2> QED BY <2>1, <2>4
  <1>3. upRec.holder # "none" => upRec.at <= upNow
    <2>1. upRec.holder = "writer" => upRun.state = "ending" /\ upRec.at = upRec.endAt
      BY DEF UpSound, UpThreads, UpTyped, UpTypeOK, UpNoRec
    <2> QED BY <1>1, <2>1 DEF UpSound, UpThreads
  <1>4. upRec.holder # "none" => x \notin UpFrom(upRec.at)
    BY <1>1, <1>3 DEF UpFrom
  <1> QED BY <1>2, <1>4

\* A stop is charged when it is over.
LEMMA UpPaidStop ==
    ASSUME UpAssumption, UpSound, UpStop, NEW S, UpPaid(S)
    PROVE  UpPaid(S)'
  <1>1. upRun.state = "on" /\ upRun'.state = "ending" /\ UNCHANGED <<upNow, upRows>> /\ upNow \in Nat /\ UpGrace \in Nat
    BY DEF UpStop, UpSound, UpTyped, UpTypeOK, UpAssumption
  <1>2. /\ upRec'.writer = "lock" /\ upRec'.endAt = upNow /\ upRec'.holder = upRec.holder /\ upRec'.at = upRec.at
        /\ upRec'.row = upRec.row
    BY DEF UpStop, UpSound, UpTyped, UpTypeOK
  <1>3. ASSUME NEW x \in Nat \ S
        PROVE  UpSpare(x)' \/ (x \in UpFrom(upNow) /\ UpOthersSpare(x)')
    <2>1. IF x < upNow THEN UpSpare(x) ELSE UpOthersSpare(x)
      BY <1>1 DEF UpPaid
    <2>2. CASE x < upNow
      <3>1. x \notin UpFrom(upNow)
        BY <1>1, <2>2 DEF UpFrom
      <3> QED BY <1>1, <1>2, <2>1, <2>2, <3>1 DEF UpSpare, UpHas, UpReach, UpNone, UpFrom
    <2>3. CASE x \in UpFrom(upNow)
      <3>1. ~(x < upNow)
        BY <1>1, <2>3 DEF UpFrom
      <3> QED BY <1>1, <1>2, <2>1, <2>3, <3>1 DEF UpOthersSpare, UpHas, UpReach, UpNone
    <2>4. CASE ~(x < upNow) /\ x \notin UpFrom(upNow)
      <3>1. upNow + UpGrace <= x
        BY <1>1, <2>4 DEF UpFrom
      <3> QED BY <1>1, <1>2, <2>4, <3>1, UpReachIs DEF UpSpare, UpHas, UpReach, UpNone, UpFrom
    <2> QED BY <2>2, <2>3, <2>4
  <1>4. UpFrom(upRec.endAt)' = UpFrom(upNow)
    BY <1>2 DEF UpFrom
  <1> QED BY <1>1, <1>2, <1>3, <1>4 DEF UpPaid

\* The lock changes nothing.
LEMMA UpPaidTake ==
    ASSUME UpAssumption, UpSound, UpTake, NEW S, UpPaid(S)
    PROVE  UpPaid(S)'
  <1>1. /\ UNCHANGED <<upRun, upNow, upRows>> /\ upNow \in Nat /\ UpGrace \in Nat /\ upRec.holder = "none"
        /\ upRun.state \in {"on", "ending"}
    BY DEF UpTake, UpLive, UpSound, UpTyped, UpTypeOK, UpThreads, UpAssumption
  <1>2. /\ upRec'.writer = upRec.writer /\ upRec'.endAt = upRec.endAt /\ upRec'.row = upRec.row /\ upRec'.loop = upRec.loop
        /\ \/ upRec.loop = "lock" /\ upRec'.holder = "loop" /\ upRec'.at = upNow
           \/ upRec.writer = "lock" /\ upRec'.holder = "writer" /\ upRec'.at = upRec.endAt
    BY DEF UpTake, UpSound, UpTyped, UpTypeOK
  <1>3. \A x : UpSpare(x) /\ x \notin UpFrom(upRec'.at) => UpSpare(x)'
    BY <1>1, <1>2 DEF UpSpare, UpHas, UpReach, UpNone, UpFrom
  <1>4. \A x : UpOthersSpare(x) => UpOthersSpare(x)'
    BY <1>1, <1>2 DEF UpOthersSpare, UpHas, UpReach, UpNone
  <1>5. CASE upRun.state = "on"
    <2>1. upRec'.at = upNow
      BY <1>2, <1>5 DEF UpSound, UpThreads
    <2>2. \A x \in Nat : x < upNow => x \notin UpFrom(upRec'.at)
      BY <1>1, <2>1 DEF UpFrom
    <2>3. \A x \in Nat \ S : IF x < upNow THEN UpSpare(x) ELSE UpOthersSpare(x)
      BY <1>5 DEF UpPaid
    <2>4. \A x \in Nat \ S : IF x < upNow THEN UpSpare(x)' ELSE UpOthersSpare(x)'
      BY <1>3, <1>4, <2>2, <2>3
    <2> QED BY <1>1, <1>5, <2>4 DEF UpPaid
  <1>6. CASE upRun.state = "ending" /\ upRec.writer = "lock"
    <2>1. upRec'.at = upRec.endAt
      BY <1>1, <1>2, <1>6 DEF UpSound, UpThreads
    <2>2. \A x : UpSpare(x) => x \notin UpFrom(upRec'.at)
      BY <1>6, <2>1 DEF UpSpare
    <2>3. UpFrom(upRec.endAt)' = UpFrom(upRec.endAt)
      BY <1>2 DEF UpFrom
    <2>4. \A x \in Nat \ S : UpSpare(x)' \/ (x \in UpFrom(upRec.endAt)' /\ UpOthersSpare(x)')
      BY <1>3, <1>4, <1>6, <2>2, <2>3 DEF UpPaid
    <2> QED BY <1>1, <1>2, <1>6, <2>4 DEF UpPaid
  <1>7. CASE upRun.state = "ending" /\ upRec.writer # "lock"
    <2>1. upRec.loop = "lock" /\ upRec'.holder = "loop" /\ upRec'.at = upNow
      BY <1>2, <1>7
    <2>2. \A x \in Nat \ S : UpSpare(x)
      BY <1>1, <1>7, <2>1 DEF UpPaid
    <2>3. \A x \in Nat \ S : UpSpare(x)' \/ (x \in UpFrom(upNow) /\ (upRec'.loop = "wait" \/ upRec'.holder = "loop"))
      BY <1>3, <2>1, <2>2
    <2>4. upRun'.state = "ending" /\ upRec'.writer # "lock"
      BY <1>1, <1>2, <1>7
    <2>5. \E e \in Nat : \A x \in Nat \ S :
              UpSpare(x)' \/ (x \in UpFrom(e) /\ (upRec'.loop = "wait" \/ upRec'.holder = "loop"))
      BY <1>1, <2>3
    <2> QED BY <2>4, <2>5 DEF UpPaid, UpFrom
  <1> QED BY <1>1, <1>5, <1>6, <1>7

\* A start, a thaw, a beat that falls due and a stop on record change nothing either.
LEMMA UpPaidStays ==
    ASSUME UpAssumption, UpSound, UpStart \/ UpWake \/ UpStopped \/ UpThaw \/ UNCHANGED upVars, NEW S, UpPaid(S)
    PROVE  UpPaid(S)'
  <1>1. UNCHANGED <<upNow, upRows>>
    BY DEF UpStart, UpWake, UpStopped, UpThaw, upVars
  <1>2. CASE UpStart
    <2>1. upRun.state = "down" /\ upRun'.state = "on" /\ upRec'.holder = "none" /\ upRec'.writer = "none" /\ upRec'.row = 0
      BY <1>2 DEF UpStart, UpSound, UpTyped, UpTypeOK, UpNoRec
    <2>2. \A x : UpSpare(x) => UpSpare(x)' /\ UpOthersSpare(x)'
      BY <1>1, <2>1 DEF UpSpare, UpOthersSpare, UpHas, UpReach, UpNone
    <2> QED BY <1>1, <2>1, <2>2 DEF UpPaid
  <1>3. CASE UpWake
    <2>1. /\ upRun' = upRun /\ upRun.state = "on" /\ upRec'.holder = upRec.holder /\ upRec'.writer = upRec.writer
          /\ upRec'.row = upRec.row /\ upRec'.at = upRec.at /\ upRec'.endAt = upRec.endAt
      BY <1>3 DEF UpWake, UpLive, UpSound, UpTyped, UpTypeOK, UpThreads
    <2>2. \A x : (UpSpare(x) => UpSpare(x)') /\ (UpOthersSpare(x) => UpOthersSpare(x)')
      BY <1>1, <2>1 DEF UpSpare, UpOthersSpare, UpHas, UpReach, UpNone, UpFrom
    <2> QED BY <1>1, <2>1, <2>2 DEF UpPaid
  <1>4. CASE UpThaw
    <2>1. /\ upRun.state = "frozen" /\ upRun'.state = "on" /\ upRec' = upRec
      BY <1>4 DEF UpThaw, UpSound, UpTyped, UpTypeOK
    <2>2. \A x : UpSpare(x) => UpSpare(x)' /\ UpOthersSpare(x)'
      BY <1>1, <2>1 DEF UpSpare, UpOthersSpare, UpHas, UpReach, UpNone, UpFrom
    <2> QED BY <1>1, <2>1, <2>2 DEF UpPaid
  <1>5. CASE UpStopped \/ UNCHANGED upVars
    <2>1. upRun'.state = upRun.state /\ upRec' = upRec
      BY <1>5 DEF UpStopped, upVars, UpSound, UpTyped, UpTypeOK
    <2>2. \A x : (UpSpare(x)' <=> UpSpare(x)) /\ (UpOthersSpare(x)' <=> UpOthersSpare(x))
      BY <1>1, <2>1 DEF UpSpare, UpOthersSpare, UpHas, UpReach, UpNone, UpFrom
    <2> QED BY <1>1, <2>1, <2>2 DEF UpPaid, UpFrom
  <1> QED BY <1>2, <1>3, <1>4, <1>5

\* A freeze and the end of the process are paid with one grace.
LEMMA UpPaidBreak ==
    ASSUME UpAssumption, UpSound, UpFreeze \/ UpDie, NEW S, UpPaid(S)
    PROVE  \E t \in Nat : \A F : F = UpFrom(t) => UpPaid(S \cup F)'
  <1>1. /\ UNCHANGED <<upNow, upRows>> /\ upNow \in Nat /\ UpGrace \in Nat /\ upRun'.state \in {"frozen", "down"}
        /\ upRun.state \in {"on", "frozen", "ending"} /\ upRec.endAt \in Nat
        /\ upRec' = upRec \/ (upRec'.holder = "none" /\ upRec'.writer = "none")
    BY DEF UpFreeze, UpDie, UpSound, UpTyped, UpTypeOK, UpNoRec, UpAssumption, UpNone
  <1>2. \A x : UpSpare(x) => UpSpare(x)'
    BY <1>1 DEF UpSpare, UpHas, UpReach, UpNone, UpFrom
  <1>3. ASSUME NEW t \in Nat, \A x \in Nat \ S : x \notin UpFrom(t) => UpSpare(x), NEW F, F = UpFrom(t)
        PROVE  UpPaid(S \cup F)'
    <2>1. \A x \in Nat \ (S \cup F) : UpSpare(x)'
      BY <1>2, <1>3
    <2> QED BY <1>1, <2>1 DEF UpPaid
  <1>4. \E t \in Nat : \A x \in Nat \ S : x \notin UpFrom(t) => UpSpare(x)
    <2>1. CASE upRun.state = "on"
      <3>1. upRec.writer = "none"
        BY <2>1 DEF UpSound, UpThreads
      <3>2. ASSUME NEW x \in Nat \ S, x \notin UpFrom(upNow)
            PROVE  UpSpare(x)
        <4>1. CASE x < upNow
          BY <2>1, <4>1 DEF UpPaid
        <4>2. CASE ~(x < upNow)
          <5>1. upNow + UpGrace <= x
            BY <1>1, <3>2, <4>2 DEF UpFrom
          <5> QED BY <3>1, <5>1, UpReachIs DEF UpSpare
        <4> QED BY <4>1, <4>2
      <3> QED BY <1>1, <3>2
    <2>2. CASE upRun.state = "frozen"
      <3>1. \A x \in Nat \ S : UpSpare(x)
        BY <2>2 DEF UpPaid
      <3> QED BY <1>1, <3>1
    <2>3. CASE upRun.state = "ending" /\ upRec.writer = "lock"
      <3>1. \A x \in Nat \ S : x \notin UpFrom(upRec.endAt) => UpSpare(x)
        BY <2>3 DEF UpPaid
      <3> QED BY <1>1, <3>1
    <2>4. CASE upRun.state = "ending" /\ upRec.writer # "lock"
      BY <2>4 DEF UpPaid
    <2> QED BY <1>1, <2>1, <2>2, <2>3, <2>4
  <1> QED BY <1>3, <1>4

-----------------------------------------------------------------------------
(* The bill.                                                                 *)

\* One grace more is at most one grace more.
LEMMA UpOneGrace ==
    ASSUME UpAssumption, NEW G \in SUBSET Nat, IsFiniteSet(G), NEW n \in Nat, Cardinality(G) <= UpGrace * n,
           NEW t \in Nat
    PROVE  /\ G \cup UpFrom(t) \in SUBSET Nat /\ IsFiniteSet(G \cup UpFrom(t))
           /\ Cardinality(G \cup UpFrom(t)) <= UpGrace * (n + 1)
  <1>1. UpGrace \in Nat /\ UpGrace > 0
    BY DEF UpAssumption
  <1>2. IsFiniteSet(UpFrom(t)) /\ Cardinality(UpFrom(t)) = UpGrace /\ UpFrom(t) \in SUBSET Nat
    <2>1. t + UpGrace - 1 \in Int /\ t \in Int /\ ~(t > t + UpGrace - 1) /\ (t + UpGrace - 1) - t + 1 = UpGrace
      BY <1>1
    <2> QED BY <1>1, <2>1, FS_Interval DEF UpFrom
  <1>3. /\ IsFiniteSet(G \cup UpFrom(t))
        /\ Cardinality(G \cup UpFrom(t)) = Cardinality(G) + Cardinality(UpFrom(t)) - Cardinality(G \cap UpFrom(t))
    BY <1>2, FS_Union
  <1>4. Cardinality(G) \in Nat /\ Cardinality(G \cap UpFrom(t)) \in Nat
    <2>1. IsFiniteSet(G \cap UpFrom(t))
      BY FS_Subset, G \cap UpFrom(t) \in SUBSET G
    <2> QED BY <2>1, FS_CardinalityType
  <1>5. UpGrace * (n + 1) = UpGrace * n + UpGrace /\ UpGrace * n \in Nat
    BY <1>1
  <1>6. PICK bill \in Nat, more \in Nat : bill = UpGrace * n /\ more = UpGrace * (n + 1) /\ more = bill + UpGrace
    BY <1>1, <1>5
  <1>7. Cardinality(G) <= bill
    BY <1>6
  <1>8. Cardinality(G \cup UpFrom(t)) <= more
    BY ONLY <1>1, <1>2, <1>3, <1>4, <1>6, <1>7
  <1> QED BY <1>2, <1>3, <1>6, <1>8

\* More interruptions never pay for less.
LEMMA UpBillGrows ==
    ASSUME UpAssumption, NEW m \in Nat, NEW n \in Nat, m <= n
    PROVE  UpGrace * m <= UpGrace * n /\ UpGrace * m \in Nat
  <1>1. UpGrace \in Nat
    BY DEF UpAssumption
  <1>2. PICK d \in Nat : n = m + d
    <2>1. n - m \in Nat /\ n = m + (n - m)
      OBVIOUS
    <2> QED BY <2>1
  <1>3. UpGrace * n = UpGrace * m + UpGrace * d /\ UpGrace * d \in Nat /\ UpGrace * m \in Nat
    BY <1>1, <1>2
  <1> QED BY <1>3

\* The interruptions that are over.
UpBreaks == IF upRun.state = "ending" THEN upCount.breaks + upCount.faults - 1 ELSE upCount.breaks + upCount.faults

\* What a step adds to them.
LEMMA UpBreaksStep ==
    ASSUME UpAssumption, UpSound, UpNext \/ UNCHANGED upVars, upRun.state = "ending" => upCount.breaks > 0
    PROVE  /\ UpBreaks \in Nat /\ UpBreaks' \in Nat /\ UpBreaks <= UpBreaks'
           /\ upRun'.state = "ending" => upCount'.breaks > 0
           /\ UpFreeze \/ UpDie => UpBreaks' >= UpBreaks + 1
           /\ UpWrite /\ upCount' = [upCount EXCEPT !.faults = @ + 1] => UpBreaks' >= UpBreaks + 1
  <1>1. /\ upRun \in [state : {"down", "on", "ending", "frozen"}, active : BOOLEAN, stopped : 0..UpNone]
        /\ upCount \in [breaks : Nat, faults : Nat, late : BOOLEAN]
    BY DEF UpSound, UpTyped, UpTypeOK
  <1>2. CASE UpTick
    <2>1. PICK c : upCount' = [upCount EXCEPT !.late = c]
      BY <1>2 DEF UpTick
    <2>2. upRun' = upRun /\ upCount'.breaks = upCount.breaks /\ upCount'.faults = upCount.faults
      BY <1>1, <1>2, <2>1 DEF UpTick
    <2>3. ~UpFreeze /\ ~UpDie /\ ~UpWrite
      <3>1. upNow' # upNow
        BY <1>2 DEF UpTick, UpSound, UpTyped, UpTypeOK
      <3> QED BY <3>1 DEF UpFreeze, UpDie, UpWrite
    <2> QED BY <1>1, <2>2, <2>3 DEF UpBreaks
  <1>3. CASE UpStart
    <2>1. upRun.state = "down" /\ upRun'.state = "on" /\ upCount' = upCount
      BY <1>1, <1>3 DEF UpStart
    <2>2. ~UpFreeze /\ ~UpDie
      BY <2>1 DEF UpFreeze, UpDie
    <2>3. upCount' # [upCount EXCEPT !.faults = @ + 1]
      BY <1>1, <2>1
    <2> QED BY <1>1, <2>1, <2>2, <2>3 DEF UpBreaks
  <1>4. CASE UpWake \/ UpTake \/ UpStopped \/ UpThaw \/ UNCHANGED upVars
    <2>1. /\ upCount' = upCount
          /\ upRun'.state = upRun.state \/ (upRun.state = "frozen" /\ upRun'.state = "on")
      BY <1>1, <1>4 DEF UpWake, UpTake, UpStopped, UpThaw, upVars
    <2>2. ~UpFreeze /\ ~UpDie
      <3>1. upCount' # [upCount EXCEPT !.breaks = @ + 1]
        BY <1>1, <2>1
      <3> QED BY <3>1 DEF UpFreeze, UpDie, UpBreak
    <2>3. upCount' # [upCount EXCEPT !.faults = @ + 1]
      BY <1>1, <2>1
    <2> QED BY <1>1, <2>1, <2>2, <2>3 DEF UpBreaks
  <1>5. CASE UpWrite
    <2>1. upRun' = upRun /\ upRun.state \in {"on", "ending"}
          /\ (upCount' = upCount \/ upCount' = [upCount EXCEPT !.faults = @ + 1])
      <3>1. upRun' = upRun /\ (upCount' = upCount \/ upCount' = [upCount EXCEPT !.faults = @ + 1])
        BY <1>5, UpWriteIs DEF UpSound
      <3> QED BY <1>1, <1>5, <3>1 DEF UpWrite, UpLive, UpSound, UpThreads
    <2>2. ~UpFreeze /\ ~UpDie
      BY <1>1, <2>1 DEF UpFreeze, UpDie
    <2> QED BY <1>1, <2>1, <2>2 DEF UpBreaks
  <1>6. CASE UpStop
    <2>1. upRun.state = "on" /\ upRun'.state = "ending" /\ upCount' = [upCount EXCEPT !.breaks = @ + 1]
      BY <1>1, <1>6 DEF UpStop, UpBreak
    <2>2. ~UpFreeze /\ ~UpDie
      BY <2>1 DEF UpFreeze, UpDie, UpSound, UpTyped, UpTypeOK
    <2>3. upCount' # [upCount EXCEPT !.faults = @ + 1]
      BY <1>1, <2>1
    <2> QED BY <1>1, <2>1, <2>2, <2>3 DEF UpBreaks
  <1>7. CASE UpFreeze \/ UpDie
    <2>1. upRun'.state # "ending" /\ upCount' = [upCount EXCEPT !.breaks = @ + 1]
      BY <1>1, <1>7 DEF UpFreeze, UpDie, UpBreak
    <2> QED BY <1>1, <2>1 DEF UpBreaks
  <1> QED BY <1>2, <1>3, <1>4, <1>5, <1>6, <1>7 DEF UpNext

\* Every step keeps the sets, with the unit or the grace it adds.
LEMMA UpStep ==
    ASSUME UpAssumption, UpInductive, UpNext \/ UNCHANGED upVars
    PROVE  UpInductive'
  <1>1. UpSound /\ UpSound'
    BY UpSoundStep DEF UpInductive
  <1>2. PICK R \in SUBSET Nat, G \in SUBSET Nat : UpRanUnits(R) /\ UpCharged(G) /\ UpPaid(R \cup G)
    BY DEF UpInductive
  <1>3. /\ IsFiniteSet(G) /\ Cardinality(G) <= UpGrace * UpBreaks
        /\ upRun.state = "ending" => upCount.breaks > 0
    BY <1>2 DEF UpCharged, UpBreaks
  <1>4. /\ UpBreaks \in Nat /\ UpBreaks' \in Nat /\ UpBreaks <= UpBreaks'
        /\ upRun'.state = "ending" => upCount'.breaks > 0
        /\ UpFreeze \/ UpDie => UpBreaks' >= UpBreaks + 1
        /\ UpWrite /\ upCount' = [upCount EXCEPT !.faults = @ + 1] => UpBreaks' >= UpBreaks + 1
    BY <1>1, <1>3, UpBreaksStep
  <1>5. PICK b \in Nat, c \in Nat : b = UpBreaks /\ c = UpBreaks'
    BY <1>4
  <1>6. ASSUME NEW H \in SUBSET Nat, IsFiniteSet(H), Cardinality(H) <= UpGrace * c
        PROVE  UpCharged(H)'
    BY <1>4, <1>5, <1>6 DEF UpCharged, UpBreaks
  <1>7. UpCharged(G)'
    <2>1. UpGrace * b <= UpGrace * c /\ UpGrace * b \in Nat /\ UpGrace * c \in Nat
      BY <1>4, <1>5, UpBillGrows
    <2>2. Cardinality(G) \in Nat
      BY <1>3, FS_CardinalityType
    <2>3. Cardinality(G) <= UpGrace * b
      BY <1>3, <1>5
    <2>4. PICK bill \in Nat, more \in Nat : bill = UpGrace * b /\ more = UpGrace * c /\ bill <= more
      BY <2>1
    <2>5. Cardinality(G) <= more
      BY <2>2, <2>3, <2>4
    <2> QED BY <1>3, <1>6, <2>4, <2>5
  <1>8. ASSUME c >= b + 1, NEW t \in Nat
        PROVE  G \cup UpFrom(t) \in SUBSET Nat /\ UpCharged(G \cup UpFrom(t))'
    <2>1. PICK F : F = UpFrom(t)
      OBVIOUS
    <2>2. /\ G \cup F \in SUBSET Nat /\ IsFiniteSet(G \cup F)
          /\ Cardinality(G \cup F) <= UpGrace * (b + 1)
      BY <1>3, <1>5, <2>1, UpOneGrace
    <2>3. UpGrace * (b + 1) <= UpGrace * c /\ UpGrace * (b + 1) \in Nat /\ UpGrace * c \in Nat
      BY <1>8, UpBillGrows
    <2>4. Cardinality(G \cup F) \in Nat
      BY <2>2, FS_CardinalityType
    <2>5. UpCharged(G \cup F)'
      BY <1>6, <2>2, <2>3, <2>4
    <2>6. F = UpFrom(t)'
      BY <2>1 DEF UpFrom
    <2> QED BY <2>1, <2>2, <2>5, <2>6
  <1>9. CASE UpTick
    <2>1. PICK Q : Q = IF upRun.state = "on" THEN R \cup {upNow} ELSE R
      OBVIOUS
    <2>2. upNow \in Nat
      BY <1>1 DEF UpSound, UpTyped, UpTypeOK
    <2>3. Q \in SUBSET Nat /\ UpRanUnits(Q)'
      BY <1>1, <1>2, <1>9, <2>1, <2>2, UpRanTick
    <2>4. Q \cup G = IF upRun.state = "on" THEN (R \cup G) \cup {upNow} ELSE R \cup G
      BY <2>1
    <2>5. UpPaid(Q \cup G)'
      BY <1>1, <1>2, <1>9, <2>4, UpPaidTick
    <2> QED BY <1>1, <1>7, <2>3, <2>5 DEF UpInductive
  <1>10. CASE ~UpTick /\ (UpFreeze \/ UpDie)
    <2>1. UpRanUnits(R)'
      BY <1>1, <1>2, <1>10, UpRanStays
    <2>2. PICK t \in Nat : \A F : F = UpFrom(t) => UpPaid((R \cup G) \cup F)'
      BY <1>1, <1>2, <1>10, UpPaidBreak
    <2>3. PICK F : F = UpFrom(t)
      OBVIOUS
    <2>4. G \cup F \in SUBSET Nat /\ UpCharged(G \cup F)'
      <3>1. F = UpFrom(t)'
        BY <2>3 DEF UpFrom
      <3> QED BY <1>4, <1>5, <1>8, <1>10, <2>3, <3>1
    <2>5. UpPaid(R \cup (G \cup F))'
      <3>1. (R \cup G) \cup F = R \cup (G \cup F)
        OBVIOUS
      <3>2. UpPaid((R \cup G) \cup F)'
        BY <2>2, <2>3
      <3> QED BY <3>1, <3>2
    <2> QED BY <1>1, <2>1, <2>4, <2>5 DEF UpInductive
  <1>11. CASE /\ ~UpTick /\ UpWrite /\ UpFails /\ upRec.holder = "writer"
              /\ upCount' = [upCount EXCEPT !.faults = @ + 1]
    <2>1. UpRanUnits(R)'
      BY <1>1, <1>2, <1>11, UpRanStays
    <2>2. PICK F : F = UpFrom(upRec.endAt)
      OBVIOUS
    <2>3. UpPaid((R \cup G) \cup F)'
      BY <1>1, <1>2, <1>11, <2>2, UpPaidEndFails
    <2>4. PICK t \in Nat : t = upRec.endAt
      BY <1>1 DEF UpSound, UpTyped, UpTypeOK, UpNone, UpAssumption
    <2>6. G \cup F \in SUBSET Nat /\ UpCharged(G \cup F)'
      <3>1. F = UpFrom(t)' /\ F = UpFrom(t)
        BY <2>2, <2>4 DEF UpFrom
      <3> QED BY <1>4, <1>5, <1>8, <1>11, <3>1
    <2>7. UpPaid(R \cup (G \cup F))'
      <3>1. (R \cup G) \cup F = R \cup (G \cup F)
        OBVIOUS
      <3> QED BY <2>3, <3>1
    <2> QED BY <1>1, <2>1, <2>6, <2>7 DEF UpInductive
  <1>12. CASE /\ ~UpTick /\ ~UpFreeze /\ ~UpDie
              /\ ~(/\ UpWrite /\ UpFails /\ upRec.holder = "writer"
                   /\ upCount' = [upCount EXCEPT !.faults = @ + 1])
    <2>1. UpRanUnits(R)'
      BY <1>1, <1>2, <1>12, UpRanStays
    <2>2. UpPaid(R \cup G)'
      <3>1. CASE UpWrite
        <4>1. UpWrites \/ upRec.holder # "writer"
          BY <1>1, <1>12, <3>1, UpWriteIs DEF UpSound
        <4> QED BY <1>1, <1>2, <3>1, <4>1, UpPaidWrite
      <3>2. CASE ~UpWrite
        BY <1>1, <1>2, <1>12, <3>2, UpPaidStop, UpPaidTake, UpPaidStays DEF UpNext
      <3> QED BY <3>1, <3>2
    <2> QED BY <1>1, <1>2, <1>7, <2>1, <2>2 DEF UpInductive
  <1> QED BY <1>9, <1>10, <1>11, <1>12

\* The start: no unit, no bill.
LEMMA UpStarts ==
    ASSUME UpAssumption, UpInit
    PROVE  UpInductive
  <1>1. /\ upRows = <<>> /\ upNow = 0 /\ upRan = 0 /\ upRec = UpNoRec
        /\ upRun = [state |-> "down", active |-> TRUE, stopped |-> UpNone]
        /\ upCount = [breaks |-> 0, faults |-> 0, late |-> FALSE]
        /\ UpMaxTime \in Nat /\ UpNone = UpMaxTime + 1 /\ UpGrace \in Nat /\ Len(upRows) = 0
    BY DEF UpInit, UpAssumption, UpNone
  <1>2. UpNoRec \in [exists : BOOLEAN, row : 0..Len(upRows), ok : 0..UpNone, stop : BOOLEAN,
                  endAt : 0..UpNone, holder : {"none", "loop", "writer"}, at : 0..UpMaxTime,
                  loop : {"wait", "lock"}, writer : {"none", "lock", "done"}]
    BY <1>1 DEF UpNoRec
  <1>3. UpTyped
    <2>1. upRows \in Seq([boot : 0..UpMaxTime, last : 0..UpMaxTime, ended : 0..UpNone])
      BY <1>1
    <2> QED BY <1>1, <1>2, <2>1 DEF UpTyped, UpTypeOK
  <1>4. UpSound
    BY <1>1, <1>3 DEF UpSound, UpRowOfRec, UpThreads, UpRowsPast, UpOver, UpNoRec
  <1>5. UpRanUnits({})
    BY <1>1, FS_EmptySet DEF UpRanUnits
  <1>6. UpCharged({})
    <2>1. UpGrace * 0 = 0
      BY <1>1
    <2> QED BY <1>1, <2>1, FS_EmptySet DEF UpCharged
  <1>7. UpPaid({} \cup {})
    <2>1. \A x : UpSpare(x)
      BY <1>1 DEF UpSpare, UpNoRec
    <2> QED BY <1>1, <2>1 DEF UpPaid
  <1> QED BY <1>4, <1>5, <1>6, <1>7 DEF UpInductive

\* What the gate counts is in the two sets, and in the grace of a stop that is going on.
LEMMA UpBilled ==
    ASSUME UpAssumption, UpInductive
    PROVE  UpNotOvercounted /\ UpNotUndercounted
  <1>1. PICK R \in SUBSET Nat, G \in SUBSET Nat : UpRanUnits(R) /\ UpCharged(G) /\ UpPaid(R \cup G)
    BY DEF UpInductive
  <1>2. /\ upRows \in Seq(UpRow) /\ upNow \in Nat /\ UpGrace \in Nat /\ UpNone \in Nat /\ UpMaxTime \in Nat
        /\ upNow <= UpMaxTime /\ upRan \in Nat /\ upRec.endAt \in Nat
        /\ upRun.state \in {"down", "on", "ending", "frozen"}
        /\ upCount.breaks \in Nat /\ upCount.faults \in Nat
    BY DEF UpInductive, UpSound, UpTyped, UpTypeOK, UpRow, UpAssumption, UpNone
  <1>3. PICK C : C = {x \in 0..UpMaxTime : x < UpWindowEnd /\
                        \E i \in 1..Len(upRows) : upRows[i].boot <= x /\ x < UpRowEnd(upRows[i])}
    OBVIOUS
  <1>4. UpCounted = Cardinality(C) /\ C \subseteq 0..UpMaxTime
    BY <1>3 DEF UpCounted
  <1>5. IsFiniteSet(C)
    <2>1. IsFiniteSet(0..UpMaxTime)
      BY <1>2, FS_Interval
    <2> QED BY <1>4, <2>1, FS_Subset
  <1>6. R \subseteq 0..(upNow - 1) /\ Cardinality(R) = upRan
    BY <1>1 DEF UpRanUnits
  <1>7. IsFiniteSet(R)
    <2>1. IsFiniteSet(0..(upNow - 1))
      BY <1>2, FS_Interval
    <2> QED BY <1>6, <2>1, FS_Subset
  <1>8. ASSUME NEW x \in C
        PROVE  x \in Nat /\ x < upNow /\ \E i \in 1..Len(upRows) : UpHas(upRows[i], x)
    <2>1. PICK i \in 1..Len(upRows) : upRows[i].boot <= x /\ x < UpRowEnd(upRows[i])
      BY <1>3
    <2>2. PICK w \in UpRow : w = upRows[i]
      BY <1>2
    <2>3. w.ended = UpNone \/ w.ended <= upNow
      BY <2>2 DEF UpInductive, UpSound, UpRowsPast
    <2>4. w.last \in Nat /\ w.ended \in Nat /\ x \in Nat
      BY <1>2, <1>4 DEF UpRow
    <2>5. w.boot <= x /\ x < UpRowEnd(w)
      BY <2>1, <2>2
    <2>6. x < upNow /\ UpHas(w, x)
      <3>1. CASE w.ended # UpNone
        BY ONLY <1>2, <2>3, <2>4, <2>5, <3>1 DEF UpRowEnd, UpHas, UpReach
      <3>2. CASE w.ended = UpNone
        BY ONLY <1>2, <2>4, <2>5, <3>2 DEF UpRowEnd, UpHas, UpReach
      <3> QED BY <3>1, <3>2
    <2> QED BY <2>2, <2>4, <2>6
  <1>9. UpNotOvercounted
    <2>1. PICK bill \in Nat : bill = UpGrace * (upCount.breaks + upCount.faults)
      BY <1>2
    <2>2. \E H \in SUBSET Nat : IsFiniteSet(H) /\ Cardinality(H) <= bill /\ C \subseteq R \cup H
      <3>1. ASSUME upRun.state # "ending"
            PROVE  Cardinality(G) <= bill /\ C \subseteq R \cup G
        <4>1. Cardinality(G) <= bill
          BY <1>1, <2>1, <3>1 DEF UpCharged
        <4>2. \A x \in Nat \ (R \cup G) : x < upNow => UpSpare(x)
          BY <1>1, <1>2, <3>1 DEF UpPaid
        <4> QED BY <1>8, <4>1, <4>2 DEF UpSpare
      <3>2. ASSUME upRun.state = "ending"
            PROVE  \E t \in Nat : Cardinality(G \cup UpFrom(t)) <= bill /\ IsFiniteSet(G \cup UpFrom(t))
                                  /\ C \subseteq R \cup (G \cup UpFrom(t)) /\ G \cup UpFrom(t) \in SUBSET Nat
        <4>1. PICK t \in Nat : \A x \in Nat \ (R \cup G) : UpSpare(x) \/ x \in UpFrom(t)
          <5>1. CASE upRec.writer = "lock"
            BY <1>1, <1>2, <3>2, <5>1 DEF UpPaid
          <5>2. CASE upRec.writer # "lock"
            BY <1>1, <3>2, <5>2 DEF UpPaid
          <5> QED BY <5>1, <5>2
        <4>2. PICK n \in Nat : n = upCount.breaks + upCount.faults - 1
          BY <1>1, <1>2, <3>2 DEF UpCharged
        <4>3. Cardinality(G) <= UpGrace * n /\ IsFiniteSet(G)
          BY <1>1, <3>2, <4>2 DEF UpCharged
        <4>4. UpGrace * (n + 1) = bill
          <5>1. n + 1 = upCount.breaks + upCount.faults
            BY <1>2, <4>2
          <5> QED BY <2>1, <5>1
        <4>5. /\ G \cup UpFrom(t) \in SUBSET Nat /\ IsFiniteSet(G \cup UpFrom(t))
              /\ Cardinality(G \cup UpFrom(t)) <= bill
          BY <4>3, <4>4, UpOneGrace
        <4>6. C \subseteq R \cup (G \cup UpFrom(t))
          BY <1>8, <4>1 DEF UpSpare
        <4> QED BY <4>5, <4>6
      <3> QED BY <1>1, <3>1, <3>2 DEF UpCharged
    <2>3. PICK H \in SUBSET Nat : IsFiniteSet(H) /\ Cardinality(H) <= bill /\ C \subseteq R \cup H
      BY <2>2
    <2>4. /\ IsFiniteSet(R \cup H)
          /\ Cardinality(R \cup H) = Cardinality(R) + Cardinality(H) - Cardinality(R \cap H)
      BY <1>7, <2>3, FS_Union
    <2>5. Cardinality(C) <= Cardinality(R \cup H)
      BY <2>3, <2>4, FS_Subset
    <2>6. Cardinality(R \cap H) \in Nat /\ Cardinality(C) \in Nat /\ Cardinality(H) \in Nat
      <3>1. IsFiniteSet(R \cap H)
        BY <1>7, FS_Subset, R \cap H \in SUBSET R
      <3> QED BY <1>5, <2>3, <3>1, FS_CardinalityType
    <2>7. Cardinality(C) <= upRan + bill
      BY ONLY <1>2, <1>6, <2>3, <2>4, <2>5, <2>6, bill \in Nat
    <2> QED BY <1>4, <2>1, <2>7 DEF UpNotOvercounted
  <1>10. UpNotUndercounted
    <2>1. SUFFICES ASSUME upCount.faults = 0, ~upCount.late
                   PROVE  UpCounted >= upRan
      BY DEF UpNotUndercounted
    <2>2. ASSUME NEW x \in R
          PROVE  x \in C
      <3>1. x \in 0..UpMaxTime /\ x < upNow
        BY <1>2, <1>6
      <3>2. x < UpWindowEnd
        BY <1>1, <3>1 DEF UpWindowEnd, UpRanUnits
      <3>3. PICK i \in 1..Len(upRows) : UpHas(upRows[i], x)
        BY <1>1, <2>1 DEF UpRanUnits
      <3>4. upRows[i].boot <= x /\ x < UpRowEnd(upRows[i])
        BY <3>1, <3>3 DEF UpHas, UpReach, UpRowEnd
      <3> QED BY <1>3, <3>1, <3>2, <3>4
    <2>3. Cardinality(R) <= Cardinality(C)
      BY <1>5, <2>2, FS_Subset
    <2>4. Cardinality(C) \in Nat
      BY <1>5, FS_CardinalityType
    <2> QED BY <1>2, <1>4, <1>6, <2>3, <2>4
  <1> QED BY <1>9, <1>10

\* The uptime on record is the time the run was up, both ways, and the gate to real money is
\* earned by it.
LEMMA UpInvariant == UpSpec => []UpInv
  <1>1. UpInit => UpInductive
    BY UpAssumption, UpStarts
  <1>2. UpInductive /\ [UpNext]_upVars => UpInductive'
    BY UpAssumption, UpStep
  <1>3. UpInductive => UpInv
    <2>1. SUFFICES ASSUME UpAssumption, UpInductive PROVE UpInv
      BY UpAssumption
    <2>2. UpNotOvercounted /\ UpNotUndercounted /\ UpTypeOK
      BY <2>1, UpBilled DEF UpInductive, UpSound, UpTyped
    <2>3. UpGateEarned
      <3>1. SUFFICES ASSUME UpCounted >= UpNeeded
                     PROVE  upRan + UpGrace * (upCount.breaks + upCount.faults) >= UpNeeded
        BY DEF UpGateEarned, UpQualifies
      <3>2. UpCounted \in Nat
        <4>1. IsFiniteSet(0..UpMaxTime)
          BY <2>1, FS_Interval DEF UpAssumption
        <4> QED BY <4>1, FS_Subset, FS_CardinalityType DEF UpCounted
      <3>3. PICK all \in Nat : all = upRan + UpGrace * (upCount.breaks + upCount.faults)
        <4>1. UpGrace \in Nat /\ upRan \in Nat
          BY <2>1 DEF UpInductive, UpSound, UpTyped, UpTypeOK, UpAssumption
        <4>2. upCount.breaks + upCount.faults \in Nat
          BY <2>1 DEF UpInductive, UpSound, UpTyped
        <4>3. UpGrace * (upCount.breaks + upCount.faults) \in Nat
          BY <4>1, <4>2
        <4> QED BY <4>1, <4>3
      <3>4. UpCounted <= all /\ UpNeeded \in Nat
        BY <2>1, <2>2, <3>3 DEF UpNotOvercounted, UpAssumption
      <3> QED BY <3>1, <3>2, <3>3, <3>4
    <2> QED BY <2>2, <2>3 DEF UpInv
  <1> QED BY <1>1, <1>2, <1>3, PTL DEF UpSpec

-----------------------------------------------------------------------------
(* The parts side by side.                                                    *)

\* A stored halt is restored by every restart, is told, and is lifted only by a
\* resume that saw its cooldown pass: of all behaviours of the parts.
THEOREM KillSwitchKeeps == PartsSpec => KsSafe
  <1>1. PartsSpec => KsInit /\ [][KsNext]_ksVars
    BY InitOfEach, StepOfEach, PTL DEF PartsSpec
  <1> QED BY <1>1, KsSafeHolds, PTL

\* A pass never takes a fill back, never takes one for a corporate action, and
\* writes over nothing it has not judged.
THEOREM FillsStand == PartsSpec => PsFillsStand
  <1>1. PartsSpec => PsSpec
    BY InitOfEach, StepOfEach, PTL DEF PartsSpec, PsSpec
  <1> QED BY <1>1, PositionsHold, PTL

\* The corporate-action gate agrees with its rows and with the position.
THEOREM SyncHolds == PartsSpec => []SyncInv
  <1>1. PartsSpec => PsSpec
    BY InitOfEach, StepOfEach, PTL DEF PartsSpec, PsSpec
  <1>2. PsActionInv => SyncInv
    BY DEF SyncInv
  <1> QED BY <1>1, <1>2, PositionsHold, PTL

\* One order for one intent over losses of Redis and deaths of workers, and no
\* order on a feed that is older than its tier allows.
THEOREM GuardHolds == PartsSpec => []GuardInv
  <1>1. PartsSpec => (IdInit /\ [][IdNext]_idVars) /\ (FrInit /\ [][FrNext]_frVars)
    BY InitOfEach, StepOfEach, PTL DEF PartsSpec
  <1>2. IdInv /\ FrInv => GuardInv
    BY DEF GuardInv
  <1> QED BY <1>1, <1>2, IdInvariant, FrInvariant, PTL

\* An emergency sells what it was given once, no more of it than is there, and
\* counts what it could not.
THEOREM FlattenHolds == PartsSpec => []FlattenInv
  <1>1. PartsSpec => EfInit /\ [][EfNext]_efVars
    BY InitOfEach, StepOfEach, PTL DEF PartsSpec
  <1>2. EfInv => FlattenInv
    BY DEF FlattenInv
  <1> QED BY <1>1, <1>2, EfInvariant, PTL

\* Trading opens only after a recovery that earned it, and an order is closed as
\* lost only once its cancel is out.
THEOREM BootHolds == PartsSpec => []BootInv
  <1>1. PartsSpec => BoInit /\ [][BoNextStep]_boVars
    BY InitOfEach, StepOfEach, PTL DEF PartsSpec
  <1>2. BoInv => BootInv
    BY DEF BootInv
  <1> QED BY <1>1, <1>2, BoInvariant, PTL

\* The operator is shown the account's last fill by one publisher at a time, no
\* socket outlives its token by more than a sweep, and a shutdown waits for what
\* may still send an order.
THEOREM ServiceHolds == PartsSpec => []ServiceInv
  <1>1. PartsSpec => (LfInit /\ WsInit /\ [][LfNext]_lfVars /\ [][WsNext]_wsVars) /\ (TdInit /\ [][TdNext]_tdVars)
    BY InitOfEach, StepOfEach, PTL DEF PartsSpec
  <1>2. LfInv /\ TdInv => ServiceInv
    BY DEF ServiceInv
  <1> QED BY <1>1, <1>2, LfInvariant, TdInvariant, PTL

\* What a run's uptime counts is what it ran, both ways, so that the gate to real
\* money is earned; and a round of the watchdog answers every sick thread, restarts
\* the worker only on a heartbeat past its limit, and disables a strategy only by
\* its run id.
THEOREM MonitorHolds == PartsSpec => []MonitorInv
  <1>1. PartsSpec => UpSpec /\ (WdInit /\ [][WdNext]_wdVars)
    BY InitOfEach, StepOfEach, PTL DEF PartsSpec, UpSpec
  <1>2. UpInv /\ WdInv => MonitorInv
    BY DEF MonitorInv
  <1> QED BY <1>1, <1>2, UpInvariant, WdInvariant, PTL

\* Whom a tick asks: one order in a test, orders once each and none that is gone, every
\* order within its interval and a cooldown for each that is tested before it, so that an
\* order nobody fills is timed out by an age that is bounded, the orders whose lookups
\* fail notwithstanding while they are fewer than open the breaker.
THEOREM TickHolds == PartsSpec => []TickInv
  <1>1. PartsSpec => PtSpec
    BY InitOfEach, StepOfEach, PTL DEF PartsSpec, PtSpec
  <1>2. PtInv => TickInv
    BY DEF TickInv
  <1> QED BY <1>1, <1>2, PtInvariant, PTL
=============================================================================
