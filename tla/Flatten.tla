------------------------------- MODULE Flatten -------------------------------
(***************************************************************************)
(* The emergency flatten: the automatic one in the worker and the manual      *)
(* ones in the API process go through the broker's positions one by one,      *)
(* while resting sells fill and other sells arrive.                          *)
(*                                                                          *)
(*   backend/worker/emergency.py     flatten_all                            *)
(*   backend/worker/runner.py        _emergency_flatten and its retry       *)
(*   backend/risk/sellable_qty.py    what may be sold of a position         *)
(*   backend/api/server.py           trigger_flatten                        *)
(*   backend/brokers/kis.py          get_positions, place_order             *)
(*                                                                          *)
(* The broker refuses a sell beyond what is held and not resting; the adapter *)
(* hands a refusal, an open breaker or a lost answer back as an order, whose  *)
(* status flatten_all does not read.                                         *)
(***************************************************************************)
EXTENDS Naturals, FiniteSetsExt

CONSTANTS
    EfSymbols,
    EfManual,       \* bound: manual requests
    EfHeld,         \* bound: shares held in all
    EfMaxOthers     \* bound: sells by others

ASSUME EfAssumption ==
    EfManual \in Nat /\ EfHeld \in Nat /\ EfMaxOthers \in Nat /\ IsFiniteSet(EfSymbols)

VARIABLES
    efBroker,   \* per symbol: held, resting to be sold, of these the automatic one's
    efRun,      \* per request: where it is
    efOthers,   \* sells by others
    efPast      \* what happened, for the properties

efVars == <<efBroker, efRun, efOthers, efPast>>

EfAuto == 0                 \* the manual ones are numbered as they arrive
EfRuns == 0..EfManual
EfUnknown == EfHeld + 1     \* the broker does not report what is sellable
EfProcess(r) == IF r = EfAuto THEN "worker" ELSE "api"
EfAt(pcs) == {r \in EfRuns : efRun[r].pc \in pcs}
EfNone == [s \in EfSymbols |-> 0]

\* held, report: the positions as fetched; sent: orders that came back, whatever
\* their status; whole: asked for in full; missed: counted as failed, twice: once
\* more; calm: no other sell since the fetch.
EfNoRun == [pc |-> "idle", dry |-> FALSE, held |-> EfNone, report |-> EfNone, todo |-> {}, sent |-> 0,
            failed |-> 0, whole |-> {}, missed |-> {}, twice |-> 0, calm |-> TRUE]

EfInit ==
    /\ efBroker \in [EfSymbols -> [held : 0..EfHeld, rest : {0}, auto : {0}]]
    /\ MapThenSumSet(LAMBDA s : efBroker[s].held, EfSymbols) <= EfHeld
    \* auto_flatten_dry_run; under flatten_dry_run nobody orders: left out
    /\ \E off \in {{}, {EfAuto}} : efRun = [r \in EfRuns |-> [EfNoRun EXCEPT !.dry = r \in off]]
    /\ efOthers = 0
    /\ efPast = [again |-> FALSE, over |-> FALSE, left |-> FALSE, odd |-> FALSE]

EfFree(s) == efBroker[s].held - efBroker[s].rest

-----------------------------------------------------------------------------
\* The lock that is not looked at.
EfLockIgnored(r) == TRUE

\* _FLATTEN_LOCK: one flatten per process.
EfLockFree(r) == \A x \in EfAt({"sells"}) : EfProcess(x) # EfProcess(r)

\* A retry after any failure.
EfRetriesPartial(run) == run.failed > 0

\* Only a run that sent nothing and failed is asked for again.
EfRetries(run) == run.sent = 0 /\ run.failed > 0

\* The end of flatten_all; the automatic one is armed again if it may be retried.
EfEnd(r, run) ==
    /\ efRun' = [efRun EXCEPT ![r] = [EfNoRun EXCEPT !.dry = run.dry,
          !.pc = IF r = EfAuto /\ ~run.dry /\ EfRetries(run) THEN "armed" ELSE "done"]]
    /\ LET listed == {s \in EfSymbols : run.held[s] > 0} IN
       efPast' = [efPast EXCEPT
          !.left = @ \/ ~(listed \subseteq run.whole \cup run.missed),
          !.odd = @ \/ (listed # {} /\ run.failed # Cardinality(run.missed) + run.twice)]

\* A request arrives, or the automatic one is asked for again.
EfCalled(r) == /\ efRun[r].pc \in {"idle", "armed"}
               /\ \A x \in 1..(r - 1) : efRun[x].pc # "idle"

\* It is refused while another of its process runs.
EfRefused(r) ==
    /\ EfCalled(r) /\ ~EfLockFree(r)
    /\ efRun' = [efRun EXCEPT ![r].pc = "done"]
    /\ UNCHANGED <<efBroker, efOthers, efPast>>

\* The broker is not to be had, or the call for the positions raises: it failed.
EfFails(r) ==
    /\ EfCalled(r)
    /\ EfEnd(r, [efRun[r] EXCEPT !.failed = 1])
    /\ UNCHANGED <<efBroker, efOthers>>

\* get_positions: a market whose reading fails, or fails half-way, leaves its
\* positions out and says nothing.
EfListings == SUBSET {s \in EfSymbols : efBroker[s].held > 0}

\* It starts with the positions, with a sellable quantity or without.
EfFetch(r) ==
    /\ EfCalled(r) /\ EfLockFree(r)
    /\ \E known \in BOOLEAN, listed \in EfListings :
          efRun' = [efRun EXCEPT ![r] = [@ EXCEPT !.pc = "sells", !.calm = TRUE, !.todo = listed,
             !.held = [s \in EfSymbols |-> IF s \in listed THEN efBroker[s].held ELSE 0],
             !.report = [s \in EfSymbols |-> IF known THEN EfFree(s) ELSE EfUnknown]]]
    /\ efPast' = [efPast EXCEPT !.again = @ \/ (r = EfAuto /\ \E s \in EfSymbols : efBroker[s].auto > 0)]
    /\ UNCHANGED <<efBroker, efOthers>>

\* A flatten that asks for all that is held.
EfAskedHeld(run, s) == run.held[s]

\* _sellable_for: what the broker reports, or all that is held if it does not.
EfAsked(run, s) == IF run.report[s] = EfUnknown THEN run.held[s] ELSE run.report[s]

EfShort(run, s) == run.report[s] < run.held[s]

\* A loop that ends with the position that failed.
EfLeftStop(run, s, fine) == IF fine THEN run.todo \ {s} ELSE {}

\* The loop goes on, whatever became of the position.
EfLeft(run, s, fine) == run.todo \ {s}

\* A price that is missing counted on top of the shortfall.
EfPricelessTwice(run, s) == run.failed + 1

\* A position without a price is counted once, as short already or now.
EfPriceless(run, s) == IF EfShort(run, s) THEN run.failed ELSE run.failed + 1

\* One position of the loop: its shortfall, then its price, then its order.
EfStep(r, s, fine) ==
    LET run == efRun[r] IN
    [run EXCEPT !.todo = EfLeft(run, s, fine),
                !.failed = IF EfShort(run, s) THEN @ + 1 ELSE @,
                !.missed = IF EfShort(run, s) \/ ~fine THEN @ \cup {s} ELSE @,
                !.whole = IF fine /\ ~EfShort(run, s) THEN @ \cup {s} ELSE @]

EfTurn(r, s) == efRun[r].pc = "sells" /\ s \in efRun[r].todo

\* Nothing to sell, or a dry run with a price: no order.
EfNoOrder(r, s) ==
    /\ EfTurn(r, s)
    /\ EfAsked(efRun[r], s) = 0 \/ efRun[r].dry
    /\ efRun' = [efRun EXCEPT ![r] = EfStep(r, s, TRUE)]
    /\ UNCHANGED <<efBroker, efOthers, efPast>>

EfNoPrice(r, s) ==
    /\ EfTurn(r, s)
    /\ EfAsked(efRun[r], s) > 0
    /\ LET step == EfStep(r, s, FALSE)
       IN efRun' = [efRun EXCEPT ![r] = [step EXCEPT !.failed = EfPriceless(step, s)]]
    /\ UNCHANGED <<efBroker, efOthers, efPast>>

\* place_order: the broker takes the order; or it does not (the breaker is open,
\* the broker refuses, the network fails) and an order comes back all the same; or
\* the market is closed, which raises.
EfOutcomes(s, qty) == {o \in {"taken", "returned", "raised"} : o = "taken" => qty <= EfFree(s)}

\* An order that comes back is one that was sent.  One that raised is counted as
\* failed, after a shortfall too.
EfOrder(r, s) ==
    /\ EfTurn(r, s) /\ ~efRun[r].dry
    /\ LET qty == EfAsked(efRun[r], s)
       IN /\ qty > 0
          /\ \E o \in EfOutcomes(s, qty) :
                LET step == EfStep(r, s, o # "raised")
                IN /\ efRun' = [x \in EfRuns |->
                         IF x # r THEN [efRun[x] EXCEPT !.calm = @ /\ o # "taken"]
                         ELSE IF o # "raised" THEN [step EXCEPT !.sent = @ + 1]
                         ELSE [step EXCEPT !.failed = @ + 1,
                                           !.twice = IF EfShort(step, s) THEN @ + 1 ELSE @]]
                   /\ efBroker' = IF o = "taken" THEN [efBroker EXCEPT ![s].rest = @ + qty,
                                           ![s].auto = IF r = EfAuto THEN @ + qty ELSE @]
                                  ELSE efBroker
          /\ efPast' = [efPast EXCEPT !.over = @ \/
                (qty > EfFree(s) /\ efRun[r].calm /\ efRun[r].report[s] # EfUnknown)]
    /\ UNCHANGED efOthers

EfFinish(r) ==
    /\ efRun[r].pc = "sells" /\ efRun[r].todo = {}
    /\ EfEnd(r, efRun[r])
    /\ UNCHANGED <<efBroker, efOthers>>

-----------------------------------------------------------------------------
\* A resting sell fills; a strategy or a hand places one.

EfFill(s) ==
    /\ efBroker[s].rest > 0
    /\ efBroker' = [efBroker EXCEPT ![s] = [held |-> @.held - 1, rest |-> @.rest - 1,
                                             auto |-> IF @.auto > 0 THEN @.auto - 1 ELSE 0]]
    /\ UNCHANGED <<efRun, efOthers, efPast>>

EfOther(s) ==
    /\ efOthers < EfMaxOthers /\ EfFree(s) > 0
    /\ efOthers' = efOthers + 1
    /\ efBroker' = [efBroker EXCEPT ![s].rest = @ + 1]
    /\ efRun' = [r \in EfRuns |-> [efRun[r] EXCEPT !.calm = FALSE]]
    /\ UNCHANGED efPast

EfNext ==
    \/ \E r \in EfRuns :
          EfRefused(r) \/ EfFails(r) \/ EfFetch(r) \/ EfFinish(r)
          \/ \E s \in EfSymbols : EfNoOrder(r, s) \/ EfNoPrice(r, s) \/ EfOrder(r, s)
    \/ \E s \in EfSymbols : EfFill(s) \/ EfOther(s)

EfSpec == EfInit /\ [][EfNext]_efVars

(***************************************************************************)
(* Properties.                                                              *)
(***************************************************************************)

\* The state stays what the code can hold.
EfTypeOK ==
    /\ efBroker \in [EfSymbols -> [held : 0..EfHeld, rest : 0..EfHeld, auto : 0..EfHeld]]
    /\ \A r \in EfRuns : /\ efRun[r].pc \in {"idle", "sells", "armed", "done"}
                         /\ efRun[r].todo \subseteq EfSymbols /\ efRun[r].failed \in Nat
    /\ \A s \in EfSymbols : EfFree(s) >= 0

\* When a flatten is through, every position it was given has been asked for in
\* full, taken or not, or is counted as failed, whatever prices and orders failed
\* in between.
EfAllTried == ~efPast.left

\* failed_count counts each failed position once, a missing price after a
\* shortfall included; an order that raises after a shortfall alone is counted
\* twice.  An order that came back refused or unanswered is not counted.
EfCounted == ~efPast.odd

\* Two flattens of one process never sell at once.
EfOnePerProcess == \A r, x \in EfAt({"sells"}) : EfProcess(r) = EfProcess(x) => r = x

\* The automatic flatten is not run again while a sell of its earlier run rests:
\* the shares would be asked for twice.  A sell whose answer was lost counts too.
EfNotAgain == ~efPast.again

\* A reported sellable quantity keeps the order within what the broker takes,
\* unless someone sold in between.
EfWithinSellable == ~efPast.over

\* A flatten asks for each share once and forgets no position.
EfInv == EfTypeOK /\ EfAllTried /\ EfCounted /\ EfOnePerProcess /\ EfNotAgain /\ EfWithinSellable
=============================================================================
