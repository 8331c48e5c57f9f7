------------------------------- MODULE Watchdog -------------------------------
(***************************************************************************)
(* The watchdog inside the worker: each round probes the threads, the poller *)
(* and the process heartbeat one after the other, judges what it found        *)
(* and answers every critical finding with one graduated action.  What it     *)
(* watches goes on beating, hanging, dying and recovering meanwhile.          *)
(*                                                                          *)
(*   backend/worker/watchdog.py                                             *)
(*                                                                          *)
(* Ages are in units of the thresholds; a round takes less than one unit.    *)
(***************************************************************************)
EXTENDS Naturals

CONSTANTS
    WdRuns,         \* run ids with a thread named after them
    WdBare,         \* a thread whose name is the strategy prefix alone
    WdOthers,       \* threads of the process: scheduler, poller loop
    WdHang, WdWarn, WdCritical,     \* thresholds
    WdMaxRestarts   \* bound: restarts that are counted

ASSUME WdAssumption ==
    /\ WdHang \in Nat /\ WdWarn \in Nat /\ WdCritical \in Nat /\ WdWarn < WdCritical
    /\ WdMaxRestarts \in Nat /\ WdBare \notin WdRuns \cup WdOthers

VARIABLES
    wdThread,   \* per thread: whether it lives and the age of its last record
    wdProc,     \* age of the process's record
    wdRound,    \* the round under way
    wdCount     \* restarts the metrics hold, restarts that were carried out

wdVars == <<wdThread, wdProc, wdRound, wdCount>>

WdThreads == WdRuns \cup WdOthers \cup {WdBare}
WdOldest == (IF WdHang < WdCritical THEN WdCritical ELSE WdHang) + 1
WdNever == WdOldest + 1     \* no heartbeat was ever recorded
WdAge == 0..WdNever
WdOver(age, limit) == age # WdNever /\ age > limit

\* ill: dead or stuck since before the round began; proc: the process's age then.
WdNoRound == [pc |-> "wait", todo |-> {}, found |-> {}, acted |-> {}, ill |-> {}, proc |-> WdNever]

WdInit ==
    /\ wdThread = [t \in WdThreads |-> [alive |-> TRUE, age |-> WdNever]]
    /\ wdProc = WdNever
    /\ wdRound = WdNoRound
    /\ wdCount = [restarts |-> 0, done |-> 0]

-----------------------------------------------------------------------------
\* What is watched.

\* record: a thread that gets round its loop; one that hangs no longer does.
WdBeat(t) ==
    /\ wdThread[t].alive
    /\ wdThread' = [wdThread EXCEPT ![t].age = 0]
    /\ wdRound' = [wdRound EXCEPT !.ill = @ \ {t}]
    /\ UNCHANGED <<wdProc, wdCount>>

WdDie(t) ==
    /\ wdThread[t].alive
    /\ wdThread' = [wdThread EXCEPT ![t].alive = FALSE]
    /\ UNCHANGED <<wdProc, wdRound, wdCount>>

WdProcBeat ==
    /\ wdProc' = 0
    /\ UNCHANGED <<wdThread, wdRound, wdCount>>

WdOlder(age) == IF age = WdNever \/ age = WdOldest THEN age ELSE age + 1

WdTick ==
    /\ wdRound.pc = "wait"
    /\ wdThread' = [t \in WdThreads |-> [wdThread[t] EXCEPT !.age = WdOlder(@)]]
    /\ wdProc' = WdOlder(wdProc)
    /\ wdRound' = WdNoRound
    /\ UNCHANGED wdCount

-----------------------------------------------------------------------------
\* One round.

WdFinding(kind, comp) == [kind |-> kind, comp |-> comp]

WdStart ==
    /\ wdRound.pc = "wait"
    /\ wdRound' = [WdNoRound EXCEPT !.pc = "threads", !.todo = WdThreads, !.proc = wdProc,
          !.ill = {t \in WdThreads : ~wdThread[t].alive \/ WdOver(wdThread[t].age, WdHang)}]
    /\ UNCHANGED <<wdThread, wdProc, wdCount>>

\* thread_dead: not alive, or its probe raised; thread_hung: alive, no progress.
WdSeen(t, broken) ==
    IF broken \/ ~wdThread[t].alive THEN {WdFinding("thread_dead", t)}
    ELSE IF WdOver(wdThread[t].age, WdHang) THEN {WdFinding("thread_hung", t)} ELSE {}

\* A probe error that ends the loop over the threads.
WdLeftFirst(todo, t, broken) == IF broken THEN {} ELSE todo \ {t}

\* Each thread is probed on its own.
WdLeft(todo, t, broken) == todo \ {t}

\* _check_threads: a provider that raises is a finding of its own.
WdProbeThreads ==
    /\ wdRound.pc = "threads"
    /\ \/ /\ wdRound.todo = WdThreads
          /\ wdRound' = [wdRound EXCEPT !.todo = {},
                             !.found = @ \cup {WdFinding("thread_dead", "threads")}]
       \/ \E t \in wdRound.todo, broken \in BOOLEAN :
             wdRound' = [wdRound EXCEPT !.todo = WdLeft(@, t, broken),
                            !.found = @ \cup WdSeen(t, broken)]
       \* _check_poller: no opinion is no finding; unhealthy or a raising provider is.
       \/ /\ wdRound.todo = {}
          /\ \E found \in {{}, {WdFinding("thread_dead", "poller")}} :
                wdRound' = [wdRound EXCEPT !.pc = "proc", !.found = @ \cup found]
    /\ UNCHANGED <<wdThread, wdProc, wdCount>>

\* The detector that takes an aging heartbeat for a missing one.
WdAgedEarly(age) == IF WdOver(age, WdWarn) THEN {WdFinding("heartbeat_missing", "proc")} ELSE {}

\* evaluate, the process's heartbeat: an aging one is a warning.
WdAged(age) == IF WdOver(age, WdCritical) THEN {WdFinding("heartbeat_missing", "proc")} ELSE {}

\* The rest of the round's detection.  Warnings, Redis among them, are alerted
\* and never acted on: they are left out of what was found.
WdProbeProc ==
    /\ wdRound.pc = "proc"
    /\ wdRound' = [wdRound EXCEPT !.pc = "act", !.found = @ \cup WdAged(wdProc)]
    /\ UNCHANGED <<wdThread, wdProc, wdCount>>

\* The mapping that takes every name with the prefix for a strategy's.
WdActionPrefix(f) ==
    IF f.kind = "heartbeat_missing" THEN [type |-> "restart_worker", target |-> "worker"]
    ELSE IF f.comp \in WdRuns THEN [type |-> "disable_strategy", target |-> f.comp]
    ELSE IF f.comp = WdBare THEN [type |-> "disable_strategy", target |-> ""]
    ELSE [type |-> "emergency_stop", target |-> ""]

\* _map_to_actions: one action per critical finding; no run id, no disabling.
WdAction(f) ==
    IF f.kind = "heartbeat_missing" THEN [type |-> "restart_worker", target |-> "worker"]
    ELSE IF f.comp \in WdRuns THEN [type |-> "disable_strategy", target |-> f.comp]
    ELSE [type |-> "emergency_stop", target |-> ""]

\* A count of the restarts asked for.
WdCountedAsked(c, type, ran) ==
    IF type = "restart_worker" /\ c < WdMaxRestarts THEN c + 1 ELSE c

\* The restarts whose callback ran through.
WdCounted(c, type, ran) ==
    IF ran /\ type = "restart_worker" /\ c < WdMaxRestarts THEN c + 1 ELSE c

\* execute: the callback runs, raises or is not set; the next finding has its
\* turn in any case, and the loop its next round.
WdAct ==
    /\ wdRound.pc = "act"
    /\ \/ \E f \in wdRound.found \ {x.of : x \in wdRound.acted}, ran \in BOOLEAN :
             LET a == WdAction(f) IN
             /\ wdRound' = [wdRound EXCEPT !.acted = @ \cup {[of |-> f, did |-> a]}]
             /\ wdCount' = [restarts |-> WdCounted(wdCount.restarts, a.type, ran),
                            done |-> IF ran /\ a.type = "restart_worker" /\ wdCount.done < WdMaxRestarts
                                       THEN wdCount.done + 1 ELSE wdCount.done]
       \/ /\ wdRound.found \subseteq {x.of : x \in wdRound.acted}
          /\ wdRound' = [wdRound EXCEPT !.pc = "wait"]
          /\ UNCHANGED wdCount
    /\ UNCHANGED <<wdThread, wdProc>>

WdNext ==
    \/ \E t \in WdThreads : WdBeat(t) \/ WdDie(t)
    \/ WdProcBeat \/ WdTick
    \/ WdStart \/ WdProbeThreads \/ WdProbeProc \/ WdAct

WdSpec == WdInit /\ [][WdNext]_wdVars

(***************************************************************************)
(* Properties.                                                              *)
(***************************************************************************)

\* The state stays what the code can hold.
WdTypeOK ==
    /\ wdThread \in [WdThreads -> [alive : BOOLEAN, age : WdAge]]
    /\ wdProc \in WdAge
    /\ wdRound.pc \in {"wait", "threads", "proc", "act"}
    /\ wdRound.todo \subseteq WdThreads /\ wdRound.ill \subseteq WdThreads
    /\ wdCount \in [restarts : 0..WdMaxRestarts, done : 0..WdMaxRestarts]

\* A thread dead or stuck from before the round began to its end has been
\* answered when the round is over, whichever other probes raised and whichever
\* other actions failed.
WdIllIsMet ==
    wdRound.pc = "wait" =>
        \A t \in wdRound.ill :
            \E x \in wdRound.acted : x.of.comp \in {t, "threads"} /\ x.of.kind \in {"thread_dead", "thread_hung"}

\* The worker is restarted only when its heartbeat was past the critical limit;
\* an aging one, or Redis gone, asks for nothing.
WdRestartEarned ==
    \A x \in wdRound.acted : x.did.type = "restart_worker" => WdOver(wdRound.proc, WdCritical)

\* A strategy is disabled by its run id, never by none.
WdDisablesNamed ==
    \A x \in wdRound.acted : x.did.type = "disable_strategy" => x.did.target \in WdRuns /\ x.of.comp = x.did.target

\* The metrics count restarts that happened, over failing and missing callbacks.
WdRestartsCounted == wdCount.restarts = wdCount.done

\* A round answers every sick thread, and only with what was earned.
WdInv == WdTypeOK /\ WdIllIsMet /\ WdRestartEarned /\ WdDisablesNamed /\ WdRestartsCounted
=============================================================================
