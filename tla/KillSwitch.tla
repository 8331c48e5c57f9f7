------------------------------ MODULE KillSwitch ------------------------------
(***************************************************************************)
(* The graduated trading state: triggers reported by any thread escalate it, *)
(* an operator's resume alone takes it back, and a halt is written to the    *)
(* risk row the other subsystems share.                                      *)
(*                                                                          *)
(*   backend/risk/kill_switch.py   KillTriggerEngine, KillReasonLog,         *)
(*                                 RecoveryManager, KillSwitch               *)
(*                                                                          *)
(* The thresholds of a trigger are one choice: nothing, warning, critical.   *)
(* Times are the one thing a resume asks of them: past the cooldown or not.  *)
(***************************************************************************)
EXTENDS Naturals, FiniteSets

CONSTANTS
    KsThreads,      \* threads that report triggers or ask to resume
    KsMaxCalls,     \* bound: reports and resumes together
    KsMaxFaults,    \* bound: database accesses that fail
    KsMaxEnds,      \* bound: ends of the process and new risk days together
    KsDays          \* bound: risk days

ASSUME KsAssumption ==
    KsMaxCalls \in Nat /\ KsMaxFaults \in Nat /\ KsMaxEnds \in Nat /\ KsDays \in Nat \ {0}
    /\ IsFiniteSet(KsThreads)

VARIABLES
    ksGate,     \* state and halted_at of the switch
    ksCall,     \* what each thread is at
    ksRow,      \* kill_switch of each day's risk row
    ksTold,     \* transitions made, logged and announced
    ksStands,   \* a halt is stored that nobody has begun to release
    ksCount     \* the bounded events, and today

ksVars == <<ksGate, ksCall, ksRow, ksTold, ksStands, ksCount>>

KsState == {"running", "warning", "halted"}

\* halted_at: none, within the cooldown, past it.
KsSince == {"none", "hot", "cool"}

KsFree == [pc |-> "idle", from |-> "running", to |-> "running", since |-> "none", clean |-> TRUE]

KsInit ==
    /\ ksGate = [state |-> "running", since |-> "none"]
    /\ ksCall = [t \in KsThreads |-> KsFree]
    /\ ksRow = [d \in 1..KsDays |-> FALSE]
    /\ ksTold = [made |-> 0, logged |-> 0, announced |-> 0]
    /\ ksStands = FALSE
    /\ ksCount = [calls |-> 0, faults |-> 0, ends |-> 0, today |-> 1]

KsRank(s) == CASE s = "running" -> 0 [] s = "warning" -> 1 [] OTHER -> 2

\* A thread is between asking to resume and having cleared the rows.
KsResuming == \E t \in KsThreads : ksCall[t].pc \in {"judge", "apply", "note", "clear"}

KsIdle == \A t \in KsThreads : ksCall[t].pc = "idle"

KsFault == ksCount.faults < KsMaxFaults /\ ksCount' = [ksCount EXCEPT !.faults = @ + 1]

KsGoto(t, pc) == ksCall' = [ksCall EXCEPT ![t].pc = pc]

\* The rank test that takes a repeated trigger for a transition.
KsEscalatesAgain(from, to) == KsRank(to) >= KsRank(from)

\* The state only escalates by itself.
KsEscalates(from, to) == KsRank(to) > KsRank(from)

\* report_*: the trigger's severity and the state change under one lock.
KsReport(t) ==
    /\ ksCall[t].pc = "idle"
    /\ ksCount.calls < KsMaxCalls
    /\ ksCount' = [ksCount EXCEPT !.calls = @ + 1]
    /\ \E target \in {"warning", "halted"} :
          LET from == ksGate.state
              to == IF KsEscalates(from, target) THEN target ELSE from
              moved == KsEscalates(from, target)
          IN /\ ksGate' = [state |-> to,
                           since |-> IF moved /\ to = "halted" THEN "hot" ELSE ksGate.since]
             /\ ksCall' = [ksCall EXCEPT ![t] = [pc |-> IF moved THEN "record" ELSE "log",
                               from |-> from, to |-> to, since |-> "none", clean |-> ~KsResuming]]
             /\ ksTold' = [ksTold EXCEPT !.made = @ + IF to # from THEN 1 ELSE 0]
    /\ UNCHANGED <<ksRow, ksStands>>

\* Every trigger is logged; one that changed the state is also stored, when it
\* halts, and announced.
KsRecord(t) ==
    /\ ksCall[t].pc \in {"record", "log"}
    /\ ksTold' = [ksTold EXCEPT !.logged = @ + IF ksCall[t].pc = "record" THEN 1 ELSE 0]
    /\ ksCall' = [ksCall EXCEPT ![t] =
          IF ksCall[t].pc = "log" THEN KsFree
          ELSE [@ EXCEPT !.pc = IF ksCall[t].to = "halted" THEN "store" ELSE "announce"]]
    /\ UNCHANGED <<ksGate, ksRow, ksStands, ksCount>>

\* Today's row is set unless it is set already; a failure is only logged.
KsStore(t) ==
    /\ ksCall[t].pc = "store"
    /\ KsGoto(t, "announce")
    /\ \/ /\ ksRow' = [ksRow EXCEPT ![ksCount.today] = TRUE]
          /\ ksStands' = (ksStands \/ ksCall[t].clean)
          /\ UNCHANGED ksCount
       \/ KsFault /\ UNCHANGED <<ksRow, ksStands>>
    /\ UNCHANGED <<ksGate, ksTold>>

KsAnnounce(t) ==
    /\ ksCall[t].pc = "announce"
    /\ ksTold' = [ksTold EXCEPT !.announced = @ + 1]
    /\ ksCall' = [ksCall EXCEPT ![t] = KsFree]
    /\ UNCHANGED <<ksGate, ksRow, ksStands, ksCount>>

\* resume: the state and its time are read under the lock and judged outside it.
KsResume(t) ==
    /\ ksCall[t].pc = "idle"
    /\ ksCount.calls < KsMaxCalls
    /\ ksCount' = [ksCount EXCEPT !.calls = @ + 1]
    /\ ksCall' = [ksCall EXCEPT ![t] = [pc |-> "judge", from |-> ksGate.state, to |-> "running",
                                        since |-> ksGate.since, clean |-> TRUE]]
    /\ UNCHANGED <<ksGate, ksRow, ksTold, ksStands>>

\* A resume granted whatever the time of the halt.
KsCooledAlways(since) == TRUE

KsCooled(since) == since # "hot"

\* evaluate_resume: the cooldown, then the injected checks, which may refuse; a
\* refusal is logged and changes nothing.
KsJudge(t) ==
    /\ ksCall[t].pc = "judge"
    /\ \/ KsCooled(ksCall[t].since) /\ KsGoto(t, "apply")
       \/ ksCall' = [ksCall EXCEPT ![t] = KsFree]
    /\ UNCHANGED <<ksGate, ksRow, ksTold, ksStands, ksCount>>

\* The approved resume takes effect on whatever state the switch is in by now.
KsApply(t) ==
    /\ ksCall[t].pc = "apply"
    /\ ksGate' = [state |-> "running", since |-> "none"]
    /\ ksCall' = [u \in KsThreads |-> [ksCall[u] EXCEPT
                     !.clean = FALSE, !.pc = IF u = t THEN "note" ELSE @]]
    /\ ksTold' = [ksTold EXCEPT !.made = @ + 1]
    /\ ksStands' = FALSE
    /\ UNCHANGED <<ksRow, ksCount>>

KsNote(t) ==
    /\ ksCall[t].pc = "note"
    /\ ksTold' = [ksTold EXCEPT !.logged = @ + 1]
    /\ KsGoto(t, "clear")
    /\ UNCHANGED <<ksGate, ksRow, ksStands, ksCount>>

\* Every halted day is cleared, under the rows' locks.
KsClear(t) ==
    /\ ksCall[t].pc = "clear"
    /\ KsGoto(t, "announce")
    /\ \/ ksRow' = [d \in 1..KsDays |-> FALSE] /\ UNCHANGED ksCount
       \/ KsFault /\ UNCHANGED ksRow
    /\ UNCHANGED <<ksGate, ksTold, ksStands>>

KsCallStep(t) ==
    KsRecord(t) \/ KsStore(t) \/ KsAnnounce(t) \/ KsJudge(t) \/ KsApply(t) \/ KsNote(t) \/ KsClear(t)

\* The cooldown passes.
KsCool ==
    /\ ksGate.since = "hot"
    /\ ksGate' = [ksGate EXCEPT !.since = "cool"]
    /\ UNCHANGED <<ksCall, ksRow, ksTold, ksStands, ksCount>>

\* The restore that looks at today's row alone.
KsRestoredToday == ksRow[ksCount.today]

\* A halt of any day in play holds at the start of a process.
KsRestored == \E d \in 1..KsDays : ksRow[d]

\* The process ends with its calls, and a new one reads the rows; rows it
\* cannot read count as clear.
KsRestart ==
    /\ ksCount.ends < KsMaxEnds
    /\ \/ /\ ksGate' = IF KsRestored THEN [state |-> "halted", since |-> "hot"]
                       ELSE [state |-> "running", since |-> "none"]
          /\ ksCount' = [ksCount EXCEPT !.ends = @ + 1]
          /\ UNCHANGED ksStands
       \/ /\ ksCount.faults < KsMaxFaults
          /\ ksGate' = [state |-> "running", since |-> "none"]
          /\ ksCount' = [ksCount EXCEPT !.ends = @ + 1, !.faults = @ + 1]
          /\ ksStands' = FALSE
    /\ ksCall' = [t \in KsThreads |-> KsFree]
    /\ ksTold' = [made |-> 0, logged |-> 0, announced |-> 0]
    /\ UNCHANGED ksRow

\* A new risk day starts with a clear row.
KsNewDay ==
    /\ ksCount.ends < KsMaxEnds
    /\ ksCount.today < KsDays
    /\ ksCount' = [ksCount EXCEPT !.ends = @ + 1, !.today = @ + 1]
    /\ UNCHANGED <<ksGate, ksCall, ksRow, ksTold, ksStands>>

KsNext ==
    \/ \E t \in KsThreads : KsReport(t) \/ KsResume(t) \/ KsCallStep(t)
    \/ KsCool \/ KsRestart \/ KsNewDay

KsSpec == KsInit /\ [][KsNext]_ksVars

(***************************************************************************)
(* Properties.                                                              *)
(***************************************************************************)

\* The state stays what the code can hold.
KsTypeOK ==
    /\ ksGate \in [state : KsState, since : KsSince]
    /\ ksCall \in [KsThreads -> [pc : {"idle", "record", "log", "store", "announce", "judge",
                                       "apply", "note", "clear"},
                                 from : KsState, to : KsState, since : KsSince, clean : BOOLEAN]]
    /\ ksRow \in [1..KsDays -> BOOLEAN]
    /\ ksTold \in [made : Nat, logged : Nat, announced : Nat]
    /\ ksStands \in BOOLEAN
    /\ ksCount \in [calls : 0..KsMaxCalls, faults : 0..KsMaxFaults, ends : 0..KsMaxEnds, today : 1..KsDays]

\* Every change of the state is logged and announced exactly once, whichever
\* threads report the same breach at the same time or resume meanwhile.
KsToldOnce ==
    /\ ksTold.announced <= ksTold.made /\ ksTold.logged <= ksTold.made
    /\ KsIdle => ksTold.announced = ksTold.made /\ ksTold.logged = ksTold.made

\* A halt that is stored, and that no resume was releasing when it came,
\* stands: over other triggers, failed writes, restarts and new days.
KsHaltStands == ksStands => ksGate.state = "halted"

\* A switch that is halted since less than the cooldown is not resumed by a
\* request that was made after the halt.
KsCooldownKept ==
    [][ksGate.state = "halted" /\ ksGate'.state = "running" /\ ksStands
         => ksGate.since = "cool" \/ ksCount'.faults > ksCount.faults]_ksVars

\* What the switch promises: it tells each change once, holds a stored halt,
\* and releases none before its cooldown.
KsSafe == [](KsTypeOK /\ KsToldOnce /\ KsHaltStands) /\ KsCooldownKept
=============================================================================
