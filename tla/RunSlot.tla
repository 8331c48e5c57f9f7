------------------------------- MODULE RunSlot -------------------------------
(***************************************************************************)
(* The single strategy slot: the API that starts and stops runs, the two    *)
(* ways its commands reach the worker, the worker's handlers and the        *)
(* threads that act on the account.                                          *)
(*                                                                          *)
(*   backend/api/server.py     start_strategy, stop_strategy                *)
(*   backend/worker/runner.py  StrategyWorker, WorkerSession                *)
(*                                                                          *)
(* A run occupies the slot while its row is active or its end is not        *)
(* recorded.  The worker handles commands one at a time on its main thread; *)
(* a session acts on a thread of its own and, when a market opens or stops  *)
(* are checked, on further ones (calls).  Redis carries a command only to a *)
(* worker that listens at that moment; the commands table keeps it.         *)
(***************************************************************************)
EXTENDS Naturals, Sequences, FiniteSets

CONSTANTS
    MaxRuns,        \* bound: rows of strategy_runs
    Envs,           \* trading environments (KIS_ENV)
    Stamps,         \* those the API is deployed with
    NoEnv,
    MaxStops,       \* bound: stop requests of a run
    MaxMishaps      \* bound: losses of the Redis connection, database accesses of
                    \* the worker that fail and ends of its process, together

ASSUME NoneAssumption == NoEnv \notin Envs
ASSUME StampAssumption == Stamps \subseteq Envs
ASSUME BoundAssumption ==
    MaxRuns \in Nat /\ MaxStops \in Nat /\ MaxMishaps \in Nat

\* Rows are numbered as they are inserted.
Runs == 1..MaxRuns

VARIABLES
    row,        \* strategy_runs
    pending,    \* commands not yet marked processed, oldest first
    outbox,     \* commands committed and still to be published
    redis,      \* the broker of messages and the worker's subscription
    worker,     \* the worker's main thread
    session,    \* the sessions of the worker
    off,        \* runs that were switched off when the worker last came up
    count       \* how often the bounded events happened

vars == <<row, pending, outbox, redis, worker, session, off, count>>

\* stopped_at is not recorded, recorded as the start (a run that never ran),
\* or recorded as the time it is written.
Row == [exists : BOOLEAN, active : BOOLEAN, ended : {"no", "zero", "now"}, env : Envs \cup {NoEnv}]

Command == [kind : {"start", "stop"}, run : Runs]

NoJob == [kind |-> "none", run |-> 0]

Thread == {"none", "starting", "running", "failed", "drain", "hook", "release", "dead"}

Session == [thread : Thread,
            kept : BOOLEAN,         \* in _sessions
            ending : BOOLEAN,       \* in _stopping
            stop : BOOLEAN,         \* _stop_event
            deactivate : BOOLEAN,   \* _deactivate_on_exit
            new : BOOLEAN,          \* _new_start
            started : BOOLEAN,      \* strategy.start() returned
            calls : 0..1]           \* callbacks in flight

NoSession == [thread |-> "none", kept |-> FALSE, ending |-> FALSE, stop |-> FALSE,
              deactivate |-> TRUE, new |-> FALSE, started |-> FALSE, calls |-> 0]

Down == [pc |-> "down", env |-> NoEnv, job |-> NoJob, how |-> "bus", batch |-> <<>>, taken |-> 0, term |-> FALSE]

Init ==
    /\ row = [r \in Runs |-> [exists |-> FALSE, active |-> FALSE, ended |-> "no", env |-> NoEnv]]
    /\ pending = <<>>
    /\ outbox = {}
    /\ redis = [up |-> TRUE, linked |-> FALSE, bus |-> <<>>]
    /\ worker = Down
    /\ session = [r \in Runs |-> NoSession]
    /\ off = {}
    /\ count = [stops |-> [r \in Runs |-> 0], outages |-> 0, faults |-> 0, boots |-> 0]

\* The run may still trade: its strategy has been started and its stop hook
\* has not returned, or a callback of it is in flight.
Acting(r) ==
    \/ session[r].thread \in {"starting", "running", "failed", "drain", "hook"}
    \/ session[r].calls > 0

Alive(r) == session[r].thread \notin {"none", "dead"}

Spared == count.outages + count.faults + count.boots < MaxMishaps

Fault == Spared /\ count' = [count EXCEPT !.faults = @ + 1]

(***************************************************************************)
(* The API.                                                                 *)
(***************************************************************************)

\* A slot taken for free as soon as its run is switched off.
OccupiedWhileActive == \E r \in Runs : row[r].exists /\ row[r].active

\* _occupying_run: the check and the insert are under one advisory lock.
Occupied == \E r \in Runs : row[r].exists /\ (row[r].active \/ row[r].ended = "no")

\* start_strategy: the row, stamped with the API's environment, and its command
\* are one commit; publishing comes after it.
Start(r) ==
    /\ ~row[r].exists
    /\ \A q \in 1..(r - 1) : row[q].exists
    /\ ~Occupied
    /\ \E e \in Stamps :
          row' = [row EXCEPT ![r] = [exists |-> TRUE, active |-> TRUE, ended |-> "no", env |-> e]]
    /\ pending' = Append(pending, [kind |-> "start", run |-> r])
    /\ outbox' = outbox \cup {[kind |-> "start", run |-> r]}
    /\ UNCHANGED <<redis, worker, session, off, count>>

\* stop_strategy: asks whatever the run does, as often as the operator likes.
Stop(r) ==
    /\ row[r].exists
    /\ count.stops[r] < MaxStops
    /\ row' = [row EXCEPT ![r].active = FALSE]
    /\ pending' = Append(pending, [kind |-> "stop", run |-> r])
    /\ outbox' = outbox \cup {[kind |-> "stop", run |-> r]}
    /\ count' = [count EXCEPT !.stops[r] = @ + 1]
    /\ UNCHANGED <<redis, worker, session, off>>

\* A message reaches the worker only while it is subscribed; otherwise it is
\* gone and only the commands table has it.
Publish(c) ==
    /\ c \in outbox
    /\ outbox' = outbox \ {c}
    /\ redis' = IF redis.up /\ redis.linked THEN [redis EXCEPT !.bus = Append(@, c)] ELSE redis
    /\ UNCHANGED <<row, pending, worker, session, off, count>>

(***************************************************************************)
(* The worker's main thread.                                                *)
(***************************************************************************)

\* Where the thread goes on when a command is handled.
Resume == CASE worker.how = "boot" -> "restore"
            [] worker.how = "poll" -> "poll"
            [] OTHER -> "listen"

Done == [worker EXCEPT !.pc = Resume, !.job = NoJob]

Goto(pc) == worker' = [worker EXCEPT !.pc = pc]

\* Every row that is active is restored, one after the other.
Restorable == {r \in Runs : row[r].exists /\ row[r].active}

\* Commands as a sequence, in some order.
Orders(S) == {s \in [1..Cardinality(S) -> S] : \A c \in S : \E i \in DOMAIN s : s[i] = c}

\* A process starts, in the environment it is deployed with.
Boot ==
    /\ worker.pc = "down"
    /\ \E e \in Envs, s \in Orders({[kind |-> "start", run |-> r] : r \in Restorable}) :
          worker' = [Down EXCEPT !.pc = "restore", !.env = e, !.how = "boot", !.batch = s]
    /\ off' = {r \in Runs : row[r].exists /\ ~row[r].active}
    /\ UNCHANGED <<row, pending, outbox, redis, session, count>>

Take ==
    /\ worker.pc \in {"restore", "poll"}
    /\ worker.batch # <<>>
    /\ worker' = [worker EXCEPT !.pc = "handle", !.job = Head(worker.batch), !.batch = Tail(worker.batch)]
    /\ UNCHANGED <<row, pending, outbox, redis, session, off, count>>

\* The restore is over; a reconciliation with the broker comes between it and
\* the subscription.
Restored ==
    /\ worker.pc = "restore"
    /\ worker.batch = <<>>
    /\ Goto("subscribe")
    /\ UNCHANGED <<row, pending, outbox, redis, session, off, count>>

Subscribe ==
    /\ worker.pc = "subscribe"
    /\ \/ redis.up /\ redis' = [redis EXCEPT !.linked = TRUE, !.bus = <<>>]
          /\ worker' = [worker EXCEPT !.pc = "listen", !.how = "bus"]
       \/ ~redis.up /\ Goto("ping") /\ UNCHANGED redis
    /\ UNCHANGED <<row, pending, outbox, session, off, count>>

\* get_message: the next command, or the connection turns out to be lost.
Listen ==
    /\ worker.pc = "listen"
    /\ \/ /\ redis.linked
          /\ redis.bus # <<>>
          /\ worker' = [worker EXCEPT !.pc = "handle", !.job = Head(redis.bus)]
          /\ redis' = [redis EXCEPT !.bus = Tail(@)]
       \/ ~redis.linked /\ Goto("ping") /\ UNCHANGED redis
    /\ UNCHANGED <<row, pending, outbox, session, off, count>>

\* _enter_db_polling_mode, after a back-off: when Redis answers again the
\* thread returns to it at once; otherwise it reads the pending commands.
Ping ==
    /\ worker.pc = "ping"
    /\ worker' = IF redis.up THEN [worker EXCEPT !.pc = "subscribe"]
                 ELSE [worker EXCEPT !.pc = "poll", !.how = "poll", !.batch = pending,
                                            !.taken = Len(pending)]
    /\ UNCHANGED <<row, pending, outbox, redis, session, off, count>>

\* The commands of a poll are marked processed together, after the last one.
\* What came in meanwhile waits for the next poll.
Polled ==
    /\ worker.pc = "poll"
    /\ worker.batch = <<>>
    /\ worker' = [worker EXCEPT !.pc = "ping", !.taken = 0]
    /\ \/ pending' = SubSeq(pending, worker.taken + 1, Len(pending)) /\ UNCHANGED count
       \/ Fault /\ UNCHANGED pending
    /\ UNCHANGED <<row, outbox, redis, session, off>>

(* _handle_start. *)

\* The row is not looked at: any run whose end is not recorded is started.
WantedUnended(r) == row[r].exists /\ row[r].ended = "no"

\* _run_still_wanted.
Wanted(r) == row[r].exists /\ row[r].active /\ row[r].ended = "no"

\* _env_matches, asked for new starts only.
EnvMatchesNew(r) == worker.how = "boot" \/ row[r].env = worker.env

EnvMatches(r) == row[r].env = worker.env

HandleStart ==
    LET r == worker.job.run IN
    /\ worker.pc = "handle"
    /\ worker.job.kind = "start"
    /\ \/ /\ session[r].kept \/ ~Wanted(r)
          /\ worker' = Done /\ UNCHANGED count
       \/ /\ ~session[r].kept
          /\ Fault /\ worker' = Done
       \/ /\ ~session[r].kept /\ Wanted(r)
          /\ Goto(IF EnvMatches(r) THEN "build" ELSE "refuse") /\ UNCHANGED count
    /\ UNCHANGED <<row, pending, outbox, redis, session, off>>

\* The end of a run written under another name.
NeverRanNamed(r) == [row EXCEPT ![r].active = FALSE, ![r].ended = "never"]

\* _record_never_ran: zero duration, unless an end is recorded already.
NeverRan(r) ==
    IF row[r].ended = "no" THEN [row EXCEPT ![r].active = FALSE, ![r].ended = "zero"] ELSE row

\* The write that ends the job, with its failure: nothing but an alert.
WriteAndFinish(new) ==
    /\ \/ row' = new /\ UNCHANGED count
       \/ Fault /\ UNCHANGED row
    /\ worker' = Done

\* A row of another environment: a new start never ran, a restored run ends now.
Refuse ==
    LET r == worker.job.run IN
    /\ worker.pc = "refuse"
    /\ WriteAndFinish(IF worker.how # "boot" THEN NeverRan(r)
                      ELSE IF row[r].ended = "no"
                           THEN [row EXCEPT ![r].active = FALSE, ![r].ended = "now"] ELSE row)
    /\ UNCHANGED <<pending, outbox, redis, session, off>>

\* The strategy is built and its thread started; a build that fails ends a new
\* start, while a restored run waits for the next boot.
Build ==
    LET r == worker.job.run IN
    /\ worker.pc = "build"
    /\ \/ /\ session' = [session EXCEPT ![r] =
                [NoSession EXCEPT !.thread = "starting", !.kept = TRUE, !.new = worker.how # "boot"]]
          /\ worker' = Done
          /\ UNCHANGED <<row, count>>
       \/ /\ worker.how # "boot"
          /\ WriteAndFinish(NeverRan(r))
          /\ UNCHANGED session
       \/ /\ worker.how = "boot"
          /\ worker' = Done
          /\ UNCHANGED <<row, session, count>>
    /\ UNCHANGED <<pending, outbox, redis, off>>

(* _handle_stop. *)

\* _stopping is first reduced to the sessions whose threads still run.
Pruned == [r \in Runs |-> [session[r] EXCEPT !.ending = @ /\ Alive(r)]]

\* A stop nobody here can act on is dropped.
HandleStopForgets ==
    LET r == worker.job.run IN
    /\ worker.pc = "handle"
    /\ worker.job.kind = "stop"
    /\ worker' = Done
    /\ session' = IF Pruned[r].kept \/ Pruned[r].ending
                  THEN [Pruned EXCEPT ![r].kept = FALSE, ![r].ending = TRUE,
                                      ![r].stop = TRUE, ![r].deactivate = TRUE]
                  ELSE Pruned
    /\ UNCHANGED <<row, pending, outbox, redis, off, count>>

\* A session is told to stop, again if it is ending already; with none the end
\* is recorded here.
HandleStop ==
    LET r == worker.job.run IN
    /\ worker.pc = "handle"
    /\ worker.job.kind = "stop"
    /\ \/ /\ Pruned[r].kept \/ Pruned[r].ending
          /\ session' = [Pruned EXCEPT ![r].kept = FALSE, ![r].ending = TRUE,
                                       ![r].stop = TRUE, ![r].deactivate = TRUE]
          /\ worker' = Done
          /\ UNCHANGED <<row, count>>
       \/ /\ ~Pruned[r].kept /\ ~Pruned[r].ending
          /\ session' = Pruned
          /\ WriteAndFinish(NeverRan(r))
    /\ UNCHANGED <<pending, outbox, redis, off>>

(***************************************************************************)
(* Session threads and callbacks.                                           *)
(***************************************************************************)

\* strategy.start() returns, or raises and sets the stop event on the way out.
Started(r) ==
    /\ session[r].thread = "starting"
    /\ \/ session' = [session EXCEPT ![r].thread = "running", ![r].started = TRUE]
       \/ session' = [session EXCEPT ![r].thread = "failed", ![r].stop = TRUE]
    /\ UNCHANGED <<row, pending, outbox, redis, worker, off, count>>

\* The slot given up together with the run's activity.
ClosedAtOnce(r) == [row EXCEPT ![r].active = FALSE, ![r].ended = "now"]

\* What is written before the callbacks are waited for, and what after them.
Closed(r) == [row EXCEPT ![r].active = FALSE]
Released(r) ==
    IF ~session[r].started /\ session[r].new THEN NeverRan(r)
    ELSE [row EXCEPT ![r].active = FALSE, ![r].ended = "now"]

\* A write of the session thread; a failure is logged and the thread goes on.
WriteOrNot(new) == (row' = new /\ UNCHANGED count) \/ (Fault /\ UNCHANGED row)

\* The loop ends.  The run is switched off first; in a shutdown it stays on,
\* and nothing is waited for.
Close(r) ==
    /\ session[r].thread = "failed" \/ (session[r].thread = "running" /\ session[r].stop)
    /\ IF session[r].deactivate
       THEN session' = [session EXCEPT ![r].thread = "drain"] /\ WriteOrNot(Closed(r))
       ELSE session' = [session EXCEPT ![r].thread = "hook"] /\ UNCHANGED <<row, count>>
    /\ UNCHANGED <<pending, outbox, redis, worker, off>>

\* strategy.stop() returns or raises.  Before it the callbacks are drained,
\* with no time limit: one that hangs keeps the slot.
Hook(r) ==
    /\ \/ session[r].thread = "drain" /\ session[r].calls = 0
       \/ session[r].thread = "hook"
    /\ session' = [session EXCEPT ![r].thread = "release"]
    /\ UNCHANGED <<row, pending, outbox, redis, worker, off, count>>

Release(r) ==
    /\ session[r].thread = "release"
    /\ session' = [session EXCEPT ![r] = [NoSession EXCEPT !.thread = "dead", !.stop = TRUE,
                       !.kept = session[r].kept, !.ending = session[r].ending,
                       !.calls = session[r].calls]]
    /\ IF session[r].deactivate THEN WriteOrNot(Released(r)) ELSE UNCHANGED <<row, count>>
    /\ UNCHANGED <<pending, outbox, redis, worker, off>>

SessionStep(r) == Started(r) \/ Close(r) \/ Hook(r) \/ Release(r)

\* A market opens or the stop-loss sweep comes round: a callback runs unless
\* the session is stopping, counted under the same lock as that check.
CallBegin(r) ==
    /\ Alive(r)
    /\ ~session[r].stop
    /\ session[r].calls = 0
    /\ session' = [session EXCEPT ![r].calls = 1]
    /\ UNCHANGED <<row, pending, outbox, redis, worker, off, count>>

CallEnd(r) ==
    /\ session[r].calls = 1
    /\ session' = [session EXCEPT ![r].calls = 0]
    /\ UNCHANGED <<row, pending, outbox, redis, worker, off, count>>

(***************************************************************************)
(* The end of the process, and Redis.                                       *)
(***************************************************************************)

SigTerm ==
    /\ worker.pc # "down"
    /\ ~worker.term
    /\ Spared
    /\ worker' = [worker EXCEPT !.term = TRUE]
    /\ count' = [count EXCEPT !.boots = @ + 1]
    /\ UNCHANGED <<row, pending, outbox, redis, session, off>>

\* A shutdown that stops its sessions the way an operator does.
LeavingOff(r) == [session[r] EXCEPT !.stop = TRUE, !.deactivate = TRUE]

\* A session told to stop by a shutdown leaves its row as it is.
Leaving(r) == [session[r] EXCEPT !.stop = TRUE, !.deactivate = FALSE]

\* The main loop sees the flag between two commands and stops the sessions it
\* keeps; the ones that end already by an operator's stop are not told again.
Leave ==
    /\ worker.term
    /\ worker.pc \in {"subscribe", "listen", "ping"} \/ (worker.pc = "restore" /\ worker.batch = <<>>)
    /\ Goto("leaving")
    /\ session' = [r \in Runs |-> IF session[r].kept THEN Leaving(r) ELSE session[r]]
    /\ UNCHANGED <<row, pending, outbox, redis, off, count>>

\* The threads are daemons: they end with the process, whatever they were at.
Die ==
    /\ worker' = Down
    /\ session' = [r \in Runs |-> NoSession]
    /\ redis' = [redis EXCEPT !.linked = FALSE, !.bus = <<>>]
    /\ UNCHANGED <<row, pending, outbox, off>>

Exit == worker.pc = "leaving" /\ Die /\ UNCHANGED count

Crash ==
    /\ worker.pc # "down"
    /\ Spared
    /\ count' = [count EXCEPT !.boots = @ + 1]
    /\ Die

\* Redis goes away: the subscription and what was on its way are lost.
Outage ==
    /\ redis.up
    /\ Spared
    /\ redis' = [up |-> FALSE, linked |-> FALSE, bus |-> <<>>]
    /\ count' = [count EXCEPT !.outages = @ + 1]
    /\ UNCHANGED <<row, pending, outbox, worker, session, off>>

Back ==
    /\ ~redis.up
    /\ redis' = [redis EXCEPT !.up = TRUE]
    /\ UNCHANGED <<row, pending, outbox, worker, session, off, count>>

WorkerStep ==
    \/ Take \/ Restored \/ Subscribe \/ Listen \/ Ping \/ Polled
    \/ HandleStart \/ Refuse \/ Build \/ HandleStop \/ Leave

Next ==
    \/ \E r \in Runs : Start(r) \/ Stop(r) \/ SessionStep(r) \/ CallBegin(r) \/ CallEnd(r)
    \/ \E c \in Command : Publish(c)
    \/ WorkerStep
    \/ Boot \/ SigTerm \/ Exit \/ Crash
    \/ Outage \/ Back

\* The worker's threads run on, a callback or hook of a strategy returns, and
\* the API publishes what it committed.  Nothing is assumed of operators,
\* deployments, crashes and Redis.
Fairness ==
    /\ WF_vars(WorkerStep)
    /\ \A c \in Command : WF_vars(Publish(c))
    /\ \A r \in Runs : WF_vars(SessionStep(r)) /\ WF_vars(CallEnd(r))

Spec == Init /\ [][Next]_vars

FairSpec == Spec /\ Fairness

(***************************************************************************)
(* Properties.                                                              *)
(***************************************************************************)

\* The state stays what the code can hold.
TypeOK ==
    /\ row \in [Runs -> Row]
    /\ pending \in Seq(Command)
    /\ outbox \in SUBSET Command
    /\ redis.up \in BOOLEAN /\ redis.linked \in BOOLEAN /\ redis.bus \in Seq(Command)
    /\ worker.pc \in {"down", "restore", "subscribe", "listen", "ping", "poll", "handle",
                      "refuse", "build", "leaving"}
    /\ worker.env \in Envs \cup {NoEnv}
    /\ worker.job \in Command \cup {NoJob}
    /\ worker.batch \in Seq(Command)
    /\ worker.taken \in 0..Len(pending)
    /\ session \in [Runs -> Session]
    /\ off \in SUBSET Runs

\* At most one run acts on the account, over starts and stops in any order,
\* commands delivered twice or never, and restarts (_occupying_run, "One run at
\* a time").
OneRunActs == \A q, r \in Runs : Acting(q) /\ Acting(r) => q = r

\* A run that may still trade has not given up its slot, whoever recorded its
\* end: the session, a stop for which no session was found, a refused start.
ActingHoldsSlot == \A r \in Runs : Acting(r) => row[r].ended = "no"

\* A run acts in the environment it was started in, also when the worker comes
\* back in another one or an old start is replayed.
ActsInItsEnv == \A r \in Runs : Acting(r) => row[r].env = worker.env

\* A run that was off when the worker came up does not act again: it is not
\* restored, and a replayed start does not revive it.
OffStaysOff == \A r \in off : ~Acting(r)

\* A run is switched off by an operator, by its own failure to start, or by a
\* change of environment, and never by a shutdown, whatever else is stopping
\* ("would silently switch every running strategy off on every deploy").
DeployKeepsRuns ==
    [][\A r \in Runs : row[r].active /\ ~row'[r].active =>
            \/ count'.stops[r] > 0
            \/ worker.job = [kind |-> "start", run |-> r]
            \/ session[r].thread \in {"failed", "release"} /\ ~session[r].started]_vars

\* A stop the worker has taken up ends the run's activity, and its slot comes
\* free unless the database failed or the process ended on the way.
HeardStopEnds ==
    \A r \in Runs :
        worker.job = [kind |-> "stop", run |-> r]
            ~> ~Acting(r) /\ (row[r].ended # "no" \/ count.faults > 0 \/ count.boots > 0)

\* A run the operator stopped stops: its command is in the table even when
\* Redis was away ("survives Redis outage").
StopReaches ==
    \A r \in Runs : count.stops[r] > 0 /\ Acting(r) ~> ~Acting(r)

\* The account is traded by one run, which holds the slot, in its environment,
\* and which nobody had switched off.
SlotInv == TypeOK /\ OneRunActs /\ ActingHoldsSlot /\ ActsInItsEnv /\ OffStaysOff
=============================================================================
