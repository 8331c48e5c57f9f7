-------------------------------- MODULE MCRecord --------------------------------
(***************************************************************************)
(* The record of an order, and the parts between it and the broker that share  *)
(* no state with it, checked in one model: a behaviour is a behaviour of one   *)
(* of them, and the state spaces add up instead of multiplying.                *)
(***************************************************************************)
EXTENDS OrderRecord, OrderRows, KisCall, KisShared, PaperBroker, Calendar, SessionSignal, LossWindow, ClosePosition

VARIABLE part   \* the one that runs

RecordParts == {"record", "rows", "call", "token", "pace", "rate", "paper", "calendar", "signal", "losses", "close"}

RecordInit ==
    /\ part \in RecordParts
    /\ Init /\ KcInit /\ TkInit /\ LmInit /\ FxInit /\ ClInit /\ OrInit /\ PbInit /\ SoInit /\ LwInit /\ QcInit
    /\ part # "calendar" => clWorld = [market |-> "KRX", day |-> [d \in ClDays |-> "open"], table |-> {}]

Alone(p) ==
    /\ part = p /\ part' = p
    /\ p # "record" => UNCHANGED vars
    /\ p # "call" => UNCHANGED kcVars
    /\ p # "token" => UNCHANGED tkVars
    /\ p # "pace" => UNCHANGED lmVars
    /\ p # "rate" => UNCHANGED fxVars
    /\ p # "calendar" => UNCHANGED clVars
    /\ p # "rows" => UNCHANGED orVars
    /\ p # "paper" => UNCHANGED pbVars
    /\ p # "signal" => UNCHANGED soVars
    /\ p # "losses" => UNCHANGED lwVars
    /\ p # "close" => UNCHANGED qcVars

RecordNext ==
    \/ Alone("record") /\ Next
    \/ Alone("call") /\ KcNext
    \/ Alone("token") /\ TkNext
    \/ Alone("pace") /\ LmNext
    \/ Alone("rate") /\ FxNext
    \/ Alone("calendar") /\ ClNext
    \/ Alone("rows") /\ OrNext
    \/ Alone("paper") /\ PbNext
    \/ Alone("signal") /\ SoNext
    \/ Alone("losses") /\ LwNext
    \/ Alone("close") /\ QcNext

recordVars == <<part, vars, kcVars, tkVars, lmVars, fxVars, clVars, orVars, pbVars, soVars, lwVars, qcVars>>

RecordSpec == RecordInit /\ [][RecordNext]_recordVars

-----------------------------------------------------------------------------
(* A part that stands still is in an initial state of its own, and every one  *)
(* of those is a state of a behaviour in which it runs: its invariant need     *)
(* only be asked of the states where it does.                                  *)

\* The way to the broker keeps its promises, the real one (one request per order,
\* what a caller is told of it, what its threads share, a position closed by hand)
\* and the paper one.
BrokerInv ==
    /\ part = "call" => KcInv
    /\ part \in {"token", "pace", "rate"} => ShInv
    /\ part = "paper" => PbInv
    /\ part = "close" => QcInv

\* Orders pass in a market's sessions only, and the strategies hear of its opening.
MarketInv ==
    /\ part = "calendar" => ClInv
    /\ part = "signal" => SoInv

\* An order number drawn twice leads to the row of the order that was meant.
RowsInv == part = "rows" => OrInv

\* The day's and the week's losses are what the limits are measured by, over days,
\* restarts and releases.
LossInv == part = "losses" => LwInv
=============================================================================
