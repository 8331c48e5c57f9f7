--------------------------------- MODULE Teardown ---------------------------------
(***************************************************************************)
(* How the worker goes down: StrategyWorker.shutdown and the one-shot threads  *)
(* it waits for (backend/worker/runner.py).                                    *)
(*                                                                             *)
(* The main thread spawns market-open scans until the shutdown begins, a       *)
(* scheduler job spawns the stop-loss sweep, and the fill poller's cycle       *)
(* spawns the flatten that a fill's breach calls for.  A spawn lists the       *)
(* thread under the lock and starts it after; threads still to be started are  *)
(* not alive.  A join gives up when its share of the budget is spent.          *)
(***************************************************************************)
EXTENDS Naturals, FiniteSets

CONSTANTS
    TdThreads,      \* one-shot threads
    TdMayGiveUp     \* joins may run out of budget

ASSUME TdAssumption == TdMayGiveUp \in BOOLEAN /\ "none" \notin TdThreads

VARIABLES
    tdThread,       \* the one-shot threads: who spawned each, and how far it is
    tdTracked,      \* _aux_threads
    tdFlag,         \* _shutdown is set
    tdStep,         \* the teardown's step
    tdSeen,         \* threads the first pass looked at
    tdWaits,        \* threads the pass under way still waits for
    tdSpawner,      \* main, scheduler job, poller: the thread each is about to start
    tdJob,          \* the stop-check job: idle, past its check of the flag, done dispatching
    tdPoller,       \* the poller's thread
    tdGaveUp,       \* history: a join ran out of budget
    tdDropped,      \* history: threads dropped from the list before they were started
    tdUnpolled      \* history: a thread sent an order when the poller had ended

tdVars == <<tdThread, tdTracked, tdFlag, tdStep, tdSeen, tdWaits, tdSpawner, tdJob, tdPoller, tdGaveUp, tdDropped, tdUnpolled>>

TdKinds == {"scan", "sweep", "flatten"}
TdNobody == [t \in {"scan", "sweep", "flatten"} |-> "none"]
TdFree == [kind |-> "none", at |-> "free"]

TdInit ==
    /\ tdThread = [t \in TdThreads |-> TdFree]
    /\ tdTracked = {} /\ tdFlag = FALSE /\ tdStep = "run"
    /\ tdSeen = {} /\ tdWaits = {}
    /\ tdSpawner = TdNobody
    /\ tdJob = "idle" /\ tdPoller = "idle"
    /\ tdGaveUp = FALSE /\ tdDropped = {} /\ tdUnpolled = FALSE

TdAlive == {t \in TdThreads : tdThread[t].at = "alive"}

\* _spawn_aux, first half: the dead are dropped from the list, and with them the
\* threads another spawner has listed and not started yet.
TdList(kind, t) ==
    /\ tdSpawner[kind] = "none" /\ tdThread[t].at = "free"
    /\ tdThread' = [tdThread EXCEPT ![t] = [kind |-> kind, at |-> "listed"]]
    /\ tdTracked' = (tdTracked \intersect TdAlive) \union {t}
    /\ tdDropped' = tdDropped \union {u \in tdTracked : tdThread[u].at = "listed"}
    /\ tdSpawner' = [tdSpawner EXCEPT ![kind] = t]

\* Second half.
TdStart(kind) ==
    LET t == tdSpawner[kind] IN
    /\ t # "none"
    /\ tdThread' = [tdThread EXCEPT ![t].at = "alive"]
    /\ tdSpawner' = [tdSpawner EXCEPT ![kind] = "none"]
    /\ tdJob' = IF kind = "sweep" THEN "idle" ELSE tdJob
    /\ UNCHANGED <<tdTracked, tdFlag, tdStep, tdSeen, tdWaits, tdPoller, tdGaveUp, tdDropped, tdUnpolled>>

\* A market opens; the main thread is the one that will shut down.
TdScan(t) ==
    /\ tdStep = "run" /\ TdList("scan", t)
    /\ UNCHANGED <<tdFlag, tdStep, tdSeen, tdWaits, tdJob, tdPoller, tdGaveUp, tdUnpolled>>

\* _check_stops: looks at the flag first, and at a sweep that still runs.
TdJobChecks ==
    /\ tdStep \in {"run", "scheduler"} /\ tdJob = "idle" /\ ~tdFlag
    /\ \A t \in TdThreads : ~(tdThread[t].kind = "sweep" /\ tdThread[t].at = "alive")
    /\ tdJob' = "checked"
    /\ UNCHANGED <<tdThread, tdTracked, tdFlag, tdStep, tdSeen, tdWaits, tdSpawner, tdPoller, tdGaveUp, tdDropped, tdUnpolled>>

TdSweep(t) ==
    /\ tdJob = "checked" /\ TdList("sweep", t)
    /\ tdJob' = "spawning"
    /\ UNCHANGED <<tdFlag, tdStep, tdSeen, tdWaits, tdPoller, tdGaveUp, tdUnpolled>>

\* The poller's cycle delivers fills; a breach spawns the flatten from within it.
TdCycle ==
    /\ tdPoller = "idle"
    /\ tdPoller' = IF tdStep \in {"poller", "late", "checkpoint", "heartbeat", "exit"} THEN "ended" ELSE "cycle"
    /\ UNCHANGED <<tdThread, tdTracked, tdFlag, tdStep, tdSeen, tdWaits, tdSpawner, tdJob, tdGaveUp, tdDropped, tdUnpolled>>

TdFlatten(t) ==
    /\ tdPoller = "cycle" /\ TdList("flatten", t)
    /\ UNCHANGED <<tdFlag, tdStep, tdSeen, tdWaits, tdJob, tdPoller, tdGaveUp, tdUnpolled>>

TdCycleEnds ==
    /\ tdPoller = "cycle" /\ tdSpawner["flatten"] = "none"
    /\ tdPoller' = "idle"
    /\ UNCHANGED <<tdThread, tdTracked, tdFlag, tdStep, tdSeen, tdWaits, tdSpawner, tdJob, tdGaveUp, tdDropped, tdUnpolled>>

\* A one-shot thread ends, and may have sent an order on the way that only the
\* poller would hear of.  A sweep sends none once the flag is up.
TdEnd(t) ==
    /\ tdThread[t].at = "alive"
    /\ tdThread' = [tdThread EXCEPT ![t].at = "ended"]
    /\ tdUnpolled' = (tdUnpolled \/ (tdPoller = "ended" /\ tdThread[t].kind = "scan"))
    /\ UNCHANGED <<tdTracked, tdFlag, tdStep, tdSeen, tdWaits, tdSpawner, tdJob, tdPoller, tdGaveUp, tdDropped>>

\* SIGTERM raises the flag; the main thread comes to it between two messages.
TdSignal ==
    /\ ~tdFlag /\ tdFlag' = TRUE
    /\ UNCHANGED <<tdThread, tdTracked, tdStep, tdSeen, tdWaits, tdSpawner, tdJob, tdPoller, tdGaveUp, tdDropped, tdUnpolled>>

TdAfter == [run |-> "scheduler", scheduler |-> "join", join |-> "poller",
            poller |-> "late", late |-> "checkpoint", checkpoint |-> "heartbeat", heartbeat |-> "exit"]

\* A pass looks at the threads alive when it begins.
TdLateNone(seen) == {}
TdLate(seen) == (tdTracked \intersect TdAlive) \ seen

TdGo(step) ==
    /\ tdStep' = step
    /\ tdWaits' = CASE step = "join" -> tdTracked \intersect TdAlive
                    [] step = "late" -> TdLate(tdSeen)
                    [] OTHER -> {}
    /\ tdSeen' = IF step = "poller" THEN tdSeen \union tdWaits ELSE tdSeen

\* The steps, in their order; the passes and the poller's join wait, or give up.
TdShut ==
    LET idle == CASE tdStep \in {"join", "late"} -> tdWaits \intersect TdAlive = {}
                  [] tdStep = "poller" -> tdPoller = "ended"
                  [] OTHER -> TRUE
    IN  /\ tdFlag /\ tdStep # "exit"
        /\ tdStep = "run" => tdSpawner["scan"] = "none"
        /\ idle \/ TdMayGiveUp
        /\ tdGaveUp' = (tdGaveUp \/ ~idle)
        /\ TdGo(TdAfter[tdStep])
        /\ UNCHANGED <<tdThread, tdTracked, tdFlag, tdSpawner, tdJob, tdPoller, tdDropped, tdUnpolled>>

TdNext ==
    \/ \E t \in TdThreads : TdScan(t) \/ TdSweep(t) \/ TdFlatten(t) \/ TdEnd(t)
    \/ \E kind \in TdKinds : TdStart(kind)
    \/ TdJobChecks \/ TdCycle \/ TdCycleEnds \/ TdSignal \/ TdShut

-----------------------------------------------------------------------------
TdTypeOK ==
    /\ tdThread \in [TdThreads -> [kind : TdKinds \union {"none"}, at : {"free", "listed", "alive", "ended"}]]
    /\ {tdTracked, tdSeen, tdWaits, tdDropped} \subseteq SUBSET TdThreads
    /\ {tdFlag, tdGaveUp, tdUnpolled} \subseteq BOOLEAN

\* The teardown ends after every scan and every flatten, one that the poller's
\* last cycle set off included, unless a join ran out of budget or the thread
\* fell off the list before it was started.  (A sweep whose job had passed the
\* check of the flag may begin at any time.)
TdWaited ==
    tdStep \in {"checkpoint", "heartbeat", "exit"} /\ ~tdGaveUp =>
        \A t \in TdThreads \ tdDropped : tdThread[t].at \in {"listed", "alive"} => tdThread[t].kind = "sweep"

\* No scan sends an order the poller does not hear of, with the same exceptions.
TdPolled == ~tdGaveUp /\ tdDropped = {} => ~tdUnpolled

\* Every thread that runs is on the list, unless another spawner's list dropped it.
TdListed == TdAlive \subseteq tdTracked \union tdDropped

\* What a shutdown leaves behind.
TdInv == TdTypeOK /\ TdWaited /\ TdPolled /\ TdListed
=============================================================================
