-------------------------------- MODULE MCParts --------------------------------
(***************************************************************************)
(* The parts of the system that share no state with each other, checked in    *)
(* one model: a behaviour is a behaviour of one of them, and the state spaces *)
(* add up instead of multiplying.  What each part is, its module says.        *)
(***************************************************************************)
EXTENDS FillPoller, KillSwitch, RunUptime, PositionSync, Watchdog, Idempotency, Freshness, Flatten, Boot, PollTick, LiveFeed, Teardown

VARIABLE part   \* the one that runs

Parts == {"poller", "switch", "uptime", "sync", "watchdog", "intent", "feed", "flatten", "boot", "tick",
          "live", "sockets", "teardown"}

\* The parts that stand still begin in one state, not in each of their own.
PartsInit ==
    /\ part \in Parts
    /\ Init /\ KsInit /\ UpInit /\ PsInit /\ WdInit /\ IdInit /\ FrInit /\ EfInit /\ BoInit /\ PtInit
    /\ LfInit /\ WsInit /\ TdInit
    /\ part # "sync" => psBroker.qty = 1
    /\ part # "flatten" => (\A s \in EfSymbols : efBroker[s].held = 0) /\ ~efRun[EfAuto].dry
    /\ part # "boot" => ~boWorld.halted /\ (\A o \in BoOrders : boOrder[o].broker = "live")
    /\ part # "sockets" => \A s \in WsSockets : wsSocket[s].exp = 0

Alone(p) ==
    /\ part = p /\ part' = p
    /\ p # "poller" => UNCHANGED vars
    /\ p # "switch" => UNCHANGED ksVars
    /\ p # "uptime" => UNCHANGED upVars
    /\ p # "sync" => UNCHANGED psVars
    /\ p # "watchdog" => UNCHANGED wdVars
    /\ p # "intent" => UNCHANGED idVars
    /\ p # "feed" => UNCHANGED frVars
    /\ p # "flatten" => UNCHANGED efVars
    /\ p # "boot" => UNCHANGED boVars
    /\ p # "tick" => UNCHANGED ptVars
    /\ p # "live" => UNCHANGED lfVars
    /\ p # "sockets" => UNCHANGED wsVars
    /\ p # "teardown" => UNCHANGED tdVars

PartsNext ==
    \/ Alone("poller") /\ Next
    \/ Alone("switch") /\ KsNext
    \/ Alone("uptime") /\ UpNext
    \/ Alone("sync") /\ PsNext
    \/ Alone("watchdog") /\ WdNext
    \/ Alone("intent") /\ IdNext
    \/ Alone("feed") /\ FrNext
    \/ Alone("flatten") /\ EfNext
    \/ Alone("boot") /\ BoNextStep
    \/ Alone("tick") /\ PtNext
    \/ Alone("live") /\ LfNext
    \/ Alone("sockets") /\ WsNext
    \/ Alone("teardown") /\ TdNext

partsVars ==
    <<part, vars, ksVars, upVars, psVars, wdVars, idVars, frVars, efVars, boVars, ptVars, lfVars, wsVars, tdVars>>

PartsSpec == PartsInit /\ [][PartsNext]_partsVars

-----------------------------------------------------------------------------
(* A part that stands still is in an initial state of its own, and every one  *)
(* of those is a state of a behaviour in which it runs: its invariant need     *)
(* only be asked of the states where it does.                                  *)

\* The two that watch: what a run's uptime counts, whom the watchdog restarts.
MonitorInv ==
    /\ part = "uptime" => UpInv
    /\ part = "watchdog" => WdInv

\* What a reconciliation of positions may do to the book and to the gate.
SyncInv == part = "sync" => PsActionInv

\* What stands guard before an order leaves: one order for one intent, and bars that
\* are fresh enough to decide on.
GuardInv ==
    /\ part = "intent" => IdInv
    /\ part = "feed" => FrInv

\* What an emergency sells.
FlattenInv == part = "flatten" => EfInv

\* What a start finds again before it opens the gate.
BootInv == part = "boot" => BoInv

\* Every open order gets its tick.
TickInv == part = "tick" => PtInv

\* What the operator sees of the account, and what a shutdown leaves behind.
ServiceInv ==
    /\ part \in {"live", "sockets"} => LfInv
    /\ part = "teardown" => TdInv
=============================================================================
