------------------------------- MODULE PaperBroker -------------------------------
(***************************************************************************)
(* ScriptedPaperBroker: the broker the paper-trading harness runs the worker   *)
(* against (backend/brokers/paper_broker.py).                                  *)
(*                                                                             *)
(* An order carries a plan of observations; every status lookup reveals the    *)
(* next one and books the shares it adds.  Beside the lookups come cancels,    *)
(* settle_all_open, corporate actions and forced failures.  One symbol, whose  *)
(* limit price is 1 and whose other price is 2; the operations run under one   *)
(* lock, so each is one step.                                                  *)
(***************************************************************************)
EXTENDS Naturals, Integers, Sequences, FiniteSetsExt

CONSTANTS
    PbMax,          \* bound: orders
    PbQty,          \* the quantity of an order
    PbScripts,      \* bound: scripts put in the queues
    PbJumps         \* bound: positions set from outside, and splits

ASSUME PbAssumption == PbQty \in Nat \ {0}

VARIABLES
    pbOrders,       \* _orders, in the order of their numbers
    pbQueue,        \* _scripts: what awaits the next order of a side
    pbHeld,         \* the symbol's entry in _positions, 0 if there is none
    pbCash,         \* _cash_krw or _cash_usd
    pbFail,         \* fail_next_status and fail_next_order, as the set of those raised
    pbScripted, pbJumps,
    pbMoved,        \* history: the shares that came or went other than by a fill
    pbClosed        \* history: how an order was when it was first canceled, rejected or expired

pbVars == <<pbOrders, pbQueue, pbHeld, pbCash, pbFail, pbScripted, pbJumps, pbMoved, pbClosed>>

PbSides == {"buy", "sell"}
PbSign(side) == IF side = "buy" THEN 1 ELSE -1
PbStep(filled, status, price) == [filled |-> filled, status |-> status, price |-> price]

\* The harness's schedules: in two parts, in one at another price, never, in part
\* and then expired.
PbPlans ==
    {<<PbStep(1, "PARTIAL_FILLED", 1), PbStep(PbQty, "FILLED", 1)>>,
     <<PbStep(1, "PARTIAL_FILLED", 1), PbStep(PbQty, "FILLED", 2)>>,
     <<PbStep(0, "SUBMITTED", 1)>>,
     <<PbStep(1, "PARTIAL_FILLED", 2), PbStep(1, "EXPIRED", 2)>>}
PbReject == <<PbStep(0, "REJECTED", 1)>>
PbDefault == <<PbStep(PbQty, "FILLED", 1)>>

PbDead == {"CANCELED", "REJECTED", "EXPIRED"}
PbTerminal == PbDead \union {"FILLED"}

PbInit ==
    /\ pbOrders = <<>> /\ pbQueue = [side \in PbSides |-> <<>>]
    /\ pbHeld = 0 /\ pbCash = 0 /\ pbFail = {}
    /\ pbScripted = 0 /\ pbJumps = 0 /\ pbMoved = 0 /\ pbClosed = <<>>

\* script_fills, script_reject, script_no_fill
PbScript(side, plan) ==
    /\ pbScripted < PbScripts /\ pbScripted' = pbScripted + 1
    /\ pbQueue' = [pbQueue EXCEPT ![side] = Append(@, plan)]
    /\ UNCHANGED <<pbOrders, pbHeld, pbCash, pbFail, pbJumps, pbMoved, pbClosed>>

PbForce(call) ==
    /\ call \notin pbFail /\ pbFail' = pbFail \union {call}
    /\ UNCHANGED <<pbOrders, pbQueue, pbHeld, pbCash, pbScripted, pbJumps, pbMoved, pbClosed>>

\* A forced failure is spent on one call, which does nothing else.
PbRaise(call) ==
    /\ call \in pbFail /\ pbFail' = pbFail \ {call}
    /\ UNCHANGED <<pbOrders, pbQueue, pbHeld, pbCash, pbScripted, pbJumps, pbMoved, pbClosed>>

\* place_order takes the side's next script; without one all is filled at once.
PbPlace(side) ==
    LET plan == IF pbQueue[side] = <<>> THEN PbDefault ELSE Head(pbQueue[side])
        status == IF plan = PbReject THEN "REJECTED" ELSE "SUBMITTED"
    IN  /\ "order" \notin pbFail /\ Len(pbOrders) < PbMax
        /\ pbQueue' = [pbQueue EXCEPT ![side] = IF @ = <<>> THEN @ ELSE Tail(@)]
        /\ pbOrders' = Append(pbOrders, [side |-> side, status |-> status, plan |-> plan, cursor |-> 1,
                                         filled |-> 0, revealed |-> 0, price |-> 1, mixed |-> FALSE])
        /\ pbClosed' = Append(pbClosed, IF plan = PbReject THEN [status |-> status, filled |-> 0]
                                        ELSE [status |-> "none", filled |-> 0])
        /\ UNCHANGED <<pbHeld, pbCash, pbFail, pbScripted, pbJumps, pbMoved>>

\* The first time an order is found dead.
PbBury(i) ==
    pbClosed' = IF pbOrders'[i].status \in PbDead /\ pbClosed[i].status = "none"
                THEN [pbClosed EXCEPT ![i] = [status |-> pbOrders'[i].status, filled |-> pbOrders'[i].revealed]]
                ELSE pbClosed

PbCancel(i) ==
    /\ pbOrders[i].status \notin PbTerminal
    /\ pbOrders' = [pbOrders EXCEPT ![i].status = "CANCELED"]
    /\ PbBury(i)
    /\ UNCHANGED <<pbQueue, pbHeld, pbCash, pbFail, pbScripted, pbJumps, pbMoved>>

\* _apply_to_book: the position of a symbol sold out is dropped; a sale of more
\* than is held is paid for all the same.
PbBookHeld(side, inc, held) ==
    IF side = "buy" THEN held + inc ELSE IF held > inc THEN held - inc ELSE 0

\* The shares an observation adds to what is booked of its order.
PbNewToldOnly(o, step) == step.filled - o.filled
PbNew(o, step) == step.filled - o.revealed

PbStopsNever == {"REJECTED", "EXPIRED"}
PbStops == PbDead

\* get_order_status: the next step of the plan, the last one for ever after.  The
\* new shares are booked at the price the step tells, the average of all so far.
PbStatus(i) ==
    LET o == pbOrders[i]
        step == o.plan[IF o.cursor > Len(o.plan) THEN Len(o.plan) ELSE o.cursor]
        inc == IF PbNew(o, step) > 0 THEN PbNew(o, step) ELSE 0
    IN  /\ "status" \notin pbFail
        /\ o.status \notin PbStops
        /\ pbOrders' = [pbOrders EXCEPT ![i] =
               [o EXCEPT !.cursor = IF @ > Len(o.plan) THEN @ ELSE @ + 1,
                         !.filled = step.filled, !.status = step.status,
                         !.price = IF step.filled > 0 THEN step.price ELSE o.price,
                         !.mixed = @ \/ (o.revealed > 0 /\ step.filled > 0 /\ step.price # o.price),
                         !.revealed = IF inc > 0 THEN step.filled ELSE @]]
        /\ pbHeld' = PbBookHeld(o.side, inc, pbHeld)
        /\ pbMoved' = pbMoved + (pbHeld' - pbHeld) - PbSign(o.side) * inc
        /\ pbCash' = pbCash - PbSign(o.side) * inc * step.price
        /\ PbBury(i)
        /\ UNCHANGED <<pbQueue, pbFail, pbScripted, pbJumps>>

\* What is left of an order, if it is open.
PbOpen == {i \in DOMAIN pbOrders : pbOrders[i].status \notin PbTerminal}
PbLeft(i) == IF i \in PbOpen THEN PbQty - pbOrders[i].revealed ELSE 0
PbLeftBy == SumFunction([i \in DOMAIN pbOrders |-> PbSign(pbOrders[i].side) * PbLeft(i)])

\* What is held once all that is left has been booked, order by order.
PbLeftBooked ==
    LET held[n \in 0..Len(pbOrders)] ==
            IF n = 0 THEN pbHeld ELSE PbBookHeld(pbOrders[n].side, PbLeft(n), held[n - 1])
    IN  held[Len(pbOrders)]

\* settle_all_open fills what is left of every open order, one after the other, at
\* the limit price; a buy and a sale of the same run are booked in their order.
PbSettle ==
    /\ PbOpen # {}
    /\ pbOrders' = [i \in DOMAIN pbOrders |->
           IF i \notin PbOpen THEN pbOrders[i]
           ELSE [pbOrders[i] EXCEPT !.status = "FILLED", !.filled = PbQty, !.price = 1,
                     !.revealed = PbQty, !.mixed = @ \/ (pbOrders[i].revealed > 0 /\ pbOrders[i].price # 1)]]
    /\ pbHeld' = PbLeftBooked
    /\ pbMoved' = pbMoved + (pbHeld' - pbHeld) - PbLeftBy
    /\ pbCash' = pbCash - PbLeftBy
    /\ UNCHANGED <<pbQueue, pbFail, pbScripted, pbJumps, pbClosed>>

\* set_position and apply_split: shares that come or go without an order.
PbJump ==
    /\ pbJumps < PbJumps /\ pbJumps' = pbJumps + 1
    /\ pbHeld' \in {0, PbQty, 2 * pbHeld} \ {pbHeld}
    /\ pbMoved' = pbMoved + (pbHeld' - pbHeld)
    /\ UNCHANGED <<pbOrders, pbQueue, pbCash, pbFail, pbScripted, pbClosed>>

PbNext ==
    \/ \E side \in PbSides : PbPlace(side) \/ \E plan \in PbPlans \union {PbReject} : PbScript(side, plan)
    \/ \E i \in DOMAIN pbOrders : PbCancel(i) \/ PbStatus(i)
    \/ \E call \in {"status", "order"} : PbForce(call) \/ PbRaise(call)
    \/ PbSettle \/ PbJump

-----------------------------------------------------------------------------
PbTypeOK ==
    /\ pbOrders \in Seq([side : PbSides, status : PbTerminal \union {"SUBMITTED", "PARTIAL_FILLED"},
                         plan : PbPlans \union {PbReject, PbDefault}, cursor : 1..3, filled : 0..PbQty,
                         revealed : 0..PbQty, price : {1, 2}, mixed : BOOLEAN])
    /\ pbHeld \in Nat /\ pbCash \in Int /\ pbFail \subseteq {"status", "order"}

\* The shares an order has brought, or taken.
PbOver(i) == PbSign(pbOrders[i].side) * pbOrders[i].revealed

\* Every share an order is told to have filled is booked once, however lookups,
\* settlements (after which an order may be told open again) and cancels follow
\* each other: what is held is what the orders bought and sold, and what came or
\* went otherwise.
PbBookedOnce == pbHeld = pbMoved + SumFunction([i \in DOMAIN pbOrders |-> PbOver(i)])

\* The cash is what the orders were told to cost, unless an order's average
\* changed between two of its observations: the new shares are then paid at the
\* average of all.
PbPaid ==
    (\A i \in DOMAIN pbOrders : ~pbOrders[i].mixed) =>
        pbCash = -SumFunction([i \in DOMAIN pbOrders |-> PbOver(i) * pbOrders[i].price])

\* A canceled, rejected or expired order stays so and fills no more.
PbDeadStays ==
    \A i \in DOMAIN pbOrders : pbClosed[i].status # "none" =>
        pbClosed[i] = [status |-> pbOrders[i].status, filled |-> pbOrders[i].revealed]

\* An order never runs past its quantity, nor is it told more than is booked of it.
PbWithin == \A i \in DOMAIN pbOrders : pbOrders[i].filled <= pbOrders[i].revealed /\ pbOrders[i].revealed <= PbQty

\* What the harness may rely on.
PbInv == PbTypeOK /\ PbBookedOnce /\ PbPaid /\ PbDeadStays /\ PbWithin
=============================================================================
