-------------------------------- MODULE MCPoller --------------------------------
(***************************************************************************)
(* The fill poller while no strategy starts: the race of the poll loop, the   *)
(* resyncs and the timeout, under fairness.  With MayRestart FALSE the steps  *)
(* of a start are disabled, so this is FairSpec of FillPoller; what a start   *)
(* does meanwhile is checked in MCParts.                                       *)
(***************************************************************************)
EXTENDS FillPoller

ASSUME NoStart == ~MayRestart

RaceNext ==
    \/ BrokerFill \/ BrokerClose \/ Expire
    \/ PollLookup \/ PollAbsent
    \/ EndTick \/ TimeoutBegin \/ TimeoutClose
    \/ \E t \in Threads :
          \/ ResyncRead(t) \/ ResyncFind(t)
          \/ Apply(t) \/ HandOverFails(t)

RaceSpec == Init /\ [][RaceNext]_vars /\ Fairness
=============================================================================
