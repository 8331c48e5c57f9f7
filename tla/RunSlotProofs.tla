---------------------------- MODULE RunSlotProofs ----------------------------
(***************************************************************************)
(* The account is traded by one run, proved for every number of runs,       *)
(* environments, stop requests and mishaps.                                 *)
(***************************************************************************)
EXTENDS RunSlot, FiniteSetTheorems, SequenceTheorems, TLAPS

(***************************************************************************)
(* Types.                                                                   *)
(***************************************************************************)

\* The records the fields of TypeOK are taken from.
Places == {"down", "restore", "subscribe", "listen", "ping", "poll", "handle", "refuse",
           "build", "leaving"}
Worker == [pc : Places,
           env : Envs \cup {NoEnv}, job : Command \cup {NoJob},
           how : {"bus", "boot", "poll"}, batch : Seq(Command), taken : Nat, term : BOOLEAN]

RowT == row \in [Runs -> Row]
Redis == [up : BOOLEAN, linked : BOOLEAN, bus : Seq(Command)]
QueueT == pending \in Seq(Command) /\ outbox \in SUBSET Command /\ redis \in Redis
WorkerT == worker \in Worker /\ worker.taken <= Len(pending)
SessionT == session \in [Runs -> Session]
CountT == count \in [stops : [Runs -> Nat], outages : Nat, faults : Nat, boots : Nat]

Typed == RowT /\ QueueT /\ WorkerT /\ SessionT /\ CountT /\ off \in SUBSET Runs

\* What is done to the record of the broker of messages leaves it one.
LEMMA RedisUpdates ==
    ASSUME NEW x \in Redis, NEW b \in Seq(Command), <<>> \in Seq(Command)
    PROVE  /\ x.bus \in Seq(Command)
           /\ [x EXCEPT !.bus = b] \in Redis
           /\ [x EXCEPT !.up = TRUE] \in Redis
           /\ [x EXCEPT !.linked = TRUE, !.bus = <<>>] \in Redis
           /\ [x EXCEPT !.linked = FALSE, !.bus = <<>>] \in Redis
           /\ [up |-> FALSE, linked |-> FALSE, bus |-> <<>>] \in Redis
  BY DEF Redis

\* The typing the proofs work with is the model's type invariant, and more.
LEMMA TypedType == Typed => TypeOK
  BY DEF Typed, RowT, QueueT, WorkerT, SessionT, TypeOK, Worker, Places, Redis

\* The initial state is typed.
LEMMA InitTyped == Init => Typed
  BY BoundAssumption, NoneAssumption
     DEF Init, Typed, RowT, QueueT, WorkerT, SessionT, CountT, Worker, Places, Redis, Row, Down, NoJob,
         NoSession, Session, Thread

\* The worker restores the active runs in some order.
LEMMA OrdersAreSequences ==
    ASSUME NEW s \in Orders({[kind |-> "start", run |-> r] : r \in Restorable})
    PROVE  s \in Seq([kind : {"start"}, run : Runs])
  <1> DEFINE S == {[kind |-> "start", run |-> r] : r \in Restorable}
             f == [r \in Restorable |-> [kind |-> "start", run |-> r]]
  <1>1. IsFiniteSet(Runs)
    BY FS_Interval, BoundAssumption DEF Runs
  <1>2. IsFiniteSet(Restorable)
    BY <1>1, FS_Subset DEF Restorable
  <1>3. f \in Surjection(Restorable, S)
    BY DEF Surjection
  <1>4. Cardinality(S) \in Nat
    BY <1>2, <1>3, FS_Surjection, FS_CardinalityType
  <1>5. S \subseteq [kind : {"start"}, run : Runs]
    BY DEF Restorable
  <1>6. s \in [1..Cardinality(S) -> S]
    BY DEF Orders
  <1> HIDE DEF S
  <1>7. s \in Seq(S)
    BY <1>4, <1>6, SeqDef
  <1> QED BY <1>5, <1>7, SeqMonotonic

\* Every step keeps the types.
LEMMA NextTyped == Typed /\ [Next]_vars => Typed'
  <1> SUFFICES ASSUME Typed, [Next]_vars PROVE Typed'
    OBVIOUS
  <1>0. RowT /\ QueueT /\ WorkerT /\ SessionT /\ CountT /\ off \in SUBSET Runs
    BY DEF Typed
  <1>98. <<>> \in Seq(Command)
    OBVIOUS
  <1>99. (UNCHANGED row => RowT') /\ (UNCHANGED <<pending, outbox, redis>> => QueueT')
        /\ (UNCHANGED <<worker, pending>> => WorkerT') /\ (UNCHANGED session => SessionT')
        /\ (UNCHANGED count => CountT') /\ (UNCHANGED off => off' \in SUBSET Runs)
    BY <1>0 DEF RowT, QueueT, WorkerT, SessionT, CountT
  <1>1. ASSUME NEW r \in Runs, Start(r) PROVE Typed'
    <2>1. RowT'
      BY <1>0, <1>1, StampAssumption DEF Start, RowT, Row
    <2>2. QueueT'
      BY <1>0, <1>1 DEF Start, QueueT, Command
    <2>3. WorkerT'
      BY <1>0, <1>1 DEF Start, WorkerT, QueueT, Worker, Places, NoJob
    <2>4. UNCHANGED <<session, count, off>>
      BY <1>1 DEF Start
    <2> QED BY <1>99, <2>1, <2>2, <2>3, <2>4 DEF Typed
  <1>2. ASSUME NEW r \in Runs, Stop(r) PROVE Typed'
    <2>1. RowT'
      BY <1>0, <1>2 DEF Stop, RowT, Row
    <2>2. QueueT'
      BY <1>0, <1>2 DEF Stop, QueueT, Command
    <2>3. WorkerT'
      BY <1>0, <1>2 DEF Stop, WorkerT, QueueT, Worker, Places, NoJob
    <2>4. CountT'
      <3>1. count' = [count EXCEPT !.stops[r] = @ + 1]
        BY <1>2 DEF Stop
      <3> QED BY <1>0, <3>1 DEF CountT
    <2>5. UNCHANGED <<session, off>>
      BY <1>2 DEF Stop
    <2> QED BY <1>99, <2>1, <2>2, <2>3, <2>4, <2>5 DEF Typed
  <1>3. ASSUME NEW r \in Runs, Started(r) PROVE Typed'
    <2>1. SessionT'
      BY <1>0, <1>3 DEF Started, SessionT, Session, Thread
    <2>2. UNCHANGED <<row, count, pending, outbox, redis, worker, off>>
      BY <1>3 DEF Started
    <2> QED BY <1>99, <2>1, <2>2 DEF Typed
  <1>4. ASSUME NEW r \in Runs, Close(r) PROVE Typed'
    <2>1. RowT'
      BY <1>0, <1>4 DEF Close, Closed, WriteOrNot, Fault, RowT, Row
    <2>2. SessionT'
      BY <1>0, <1>4 DEF Close, Closed, WriteOrNot, Fault, SessionT, Session, Thread
    <2>3. CountT'
      BY <1>0, <1>4 DEF Close, Closed, WriteOrNot, Fault, CountT
    <2>4. UNCHANGED <<pending, outbox, redis, worker, off>>
      BY <1>4 DEF Close, Closed, WriteOrNot, Fault
    <2> QED BY <1>99, <2>1, <2>2, <2>3, <2>4 DEF Typed
  <1>5. ASSUME NEW r \in Runs, Hook(r) PROVE Typed'
    <2>1. SessionT'
      BY <1>0, <1>5 DEF Hook, SessionT, Session, Thread
    <2>2. UNCHANGED <<row, count, pending, outbox, redis, worker, off>>
      BY <1>5 DEF Hook
    <2> QED BY <1>99, <2>1, <2>2 DEF Typed
  <1>6. ASSUME NEW r \in Runs, Release(r) PROVE Typed'
    <2>1. RowT'
      <3>1. \/ UNCHANGED row
            \/ row' = [row EXCEPT ![r].active = FALSE, ![r].ended = "zero"]
            \/ row' = [row EXCEPT ![r].active = FALSE, ![r].ended = "now"]
        BY <1>6 DEF Release, WriteOrNot, Released, NeverRan
      <3>2. \A x \in Row : [x EXCEPT !.active = FALSE, !.ended = "zero"] \in Row
                        /\ [x EXCEPT !.active = FALSE, !.ended = "now"] \in Row
        BY DEF Row
      <3>3. row[r] \in Row /\ row \in [Runs -> Row]
        BY <1>0, <1>6 DEF RowT
      <3>4. \E x \in Row : UNCHANGED row \/ row' = [row EXCEPT ![r] = x]
        BY <3>1, <3>2, <3>3
      <3> QED BY <3>3, <3>4 DEF RowT
    <2>2. SessionT'
      BY <1>0, <1>6 DEF Release, Released, NeverRan, WriteOrNot, Fault, NoSession, SessionT,
         Session, Thread
    <2>3. CountT'
      BY <1>0, <1>6 DEF Release, Released, NeverRan, WriteOrNot, Fault, NoSession, CountT
    <2>4. UNCHANGED <<pending, outbox, redis, worker, off>>
      BY <1>6 DEF Release, Released, NeverRan, WriteOrNot, Fault, NoSession
    <2> QED BY <1>99, <2>1, <2>2, <2>3, <2>4 DEF Typed
  <1>7. ASSUME NEW r \in Runs, CallBegin(r) \/ CallEnd(r) PROVE Typed'
    <2>1. SessionT'
      BY <1>0, <1>7 DEF CallBegin, CallEnd, SessionT, Session, Thread
    <2>2. UNCHANGED <<row, count, pending, outbox, redis, worker, off>>
      BY <1>7 DEF CallBegin, CallEnd
    <2> QED BY <1>99, <2>1, <2>2 DEF Typed
  <1>8. ASSUME NEW c \in Command, Publish(c) PROVE Typed'
    <2>1. QueueT'
      <3>1. UNCHANGED redis \/ redis' = [redis EXCEPT !.bus = Append(redis.bus, c)]
        BY <1>8 DEF Publish
      <3>2. Append(redis.bus, c) \in Seq(Command)
        BY <1>0, <1>8 DEF QueueT, Redis
      <3>3. redis' \in Redis
        BY <1>0, <1>98, <3>1, <3>2, RedisUpdates DEF QueueT
      <3> QED BY <1>0, <1>8, <3>3 DEF Publish, QueueT
    <2>2. UNCHANGED <<row, session, count, worker, pending, off>>
      BY <1>8 DEF Publish
    <2> QED BY <1>99, <2>1, <2>2 DEF Typed
  <1>9. CASE Take
    <2>1. WorkerT'
      <3>1. Head(worker.batch) \in Command /\ Tail(worker.batch) \in Seq(Command)
        BY <1>0, <1>9 DEF Take, WorkerT, Worker
      <3>2. /\ worker' = [worker EXCEPT !.pc = "handle", !.job = Head(worker.batch),
                                        !.batch = Tail(worker.batch)]
            /\ UNCHANGED pending
        BY <1>9 DEF Take
      <3>3. worker'.taken = worker.taken /\ worker' \in Worker
        BY <1>0, <3>1, <3>2 DEF WorkerT, Worker, Places
      <3> QED BY <1>0, <3>2, <3>3 DEF WorkerT
    <2>2. UNCHANGED <<row, session, count, pending, outbox, redis, off>>
      BY <1>9 DEF Take
    <2> QED BY <1>99, <2>1, <2>2 DEF Typed
  <1>10. CASE Restored
    <2>1. WorkerT'
      BY <1>0, <1>10 DEF Restored, Goto, WorkerT, QueueT, Worker, Places, NoJob
    <2>2. UNCHANGED <<row, session, count, pending, outbox, redis, off>>
      BY <1>10 DEF Restored, Goto
    <2> QED BY <1>99, <2>1, <2>2 DEF Typed
  <1>11. CASE Subscribe
    <2>1. QueueT'
      <3>1. redis' = redis \/ redis' = [redis EXCEPT !.linked = TRUE, !.bus = <<>>]
        BY <1>11 DEF Subscribe
      <3>2. redis' \in Redis
        BY <1>0, <1>98, <3>1 DEF QueueT, Redis
      <3> QED BY <1>0, <1>11, <3>2 DEF Subscribe, QueueT
    <2>2. WorkerT'
      BY <1>0, <1>11 DEF Subscribe, Goto, WorkerT, QueueT, Worker, Places, NoJob
    <2>3. UNCHANGED <<row, session, count, off>>
      BY <1>11 DEF Subscribe, Goto
    <2> QED BY <1>99, <2>1, <2>2, <2>3 DEF Typed
  <1>12. CASE Listen
    <2>1. QueueT'
      <3>1. redis' = redis \/ (redis.bus # <<>> /\ redis' = [redis EXCEPT !.bus = Tail(redis.bus)])
        BY <1>12 DEF Listen
      <3>3. redis.bus # <<>> => Tail(redis.bus) \in Seq(Command)
        BY <1>0 DEF QueueT, Redis
      <3>2. redis' \in Redis
        BY <1>0, <1>98, <3>1, <3>3 DEF QueueT, Redis
      <3> QED BY <1>0, <1>12, <3>2 DEF Listen, QueueT
    <2>2. WorkerT'
      <3>1. \/ worker' = [worker EXCEPT !.pc = "ping"]
            \/ /\ redis.bus # <<>>
               /\ worker' = [worker EXCEPT !.pc = "handle", !.job = Head(redis.bus)]
        BY <1>12 DEF Listen, Goto
      <3>2. redis.bus # <<>> => Head(redis.bus) \in Command
        BY <1>0 DEF QueueT, Redis
      <3>3. worker' \in Worker /\ worker'.taken = worker.taken
        BY <1>0, <3>1, <3>2 DEF WorkerT, Worker, Places
      <3> QED BY <1>0, <1>12, <3>3 DEF Listen, WorkerT
    <2>3. UNCHANGED <<row, session, count, off>>
      BY <1>12 DEF Listen, Goto
    <2> QED BY <1>99, <2>1, <2>2, <2>3 DEF Typed
  <1>13. CASE Ping
    <2>1. WorkerT'
      <3>1. \/ worker' = [worker EXCEPT !.pc = "subscribe"]
            \/ worker' = [worker EXCEPT !.pc = "poll", !.how = "poll", !.batch = pending,
                                        !.taken = Len(pending)]
        BY <1>13 DEF Ping
      <3>2. Len(pending) \in Nat /\ pending \in Seq(Command)
        BY <1>0 DEF QueueT
      <3>3. CASE worker' = [worker EXCEPT !.pc = "subscribe"]
        BY <1>0, <1>13, <3>3 DEF Ping, WorkerT, Worker, Places
      <3>4. CASE worker' = [worker EXCEPT !.pc = "poll", !.how = "poll", !.batch = pending,
                                          !.taken = Len(pending)]
        <4>1. worker' = [pc |-> "poll", env |-> worker.env, job |-> worker.job, how |-> "poll",
                         batch |-> pending, taken |-> Len(pending), term |-> worker.term]
          BY <1>0, <3>4 DEF WorkerT, Worker
        <4>2. worker' \in Worker /\ worker'.taken = Len(pending)
          BY <1>0, <3>2, <4>1 DEF WorkerT, Worker, Places
        <4> QED BY <1>13, <3>2, <4>2 DEF Ping, WorkerT
      <3> QED BY <3>1, <3>3, <3>4
    <2>2. UNCHANGED <<row, session, count, pending, outbox, redis, off>>
      BY <1>13 DEF Ping
    <2> QED BY <1>99, <2>1, <2>2 DEF Typed
  <1>14. CASE Polled
    <2>1. QueueT'
      <3>1. SubSeq(pending, worker.taken + 1, Len(pending)) \in Seq(Command)
        BY <1>0, SubSeqProperties DEF QueueT, WorkerT, Worker
      <3> QED BY <1>0, <1>14, <3>1 DEF Polled, QueueT
    <2>2. WorkerT'
      <3>1. worker' = [worker EXCEPT !.pc = "ping", !.taken = 0]
        BY <1>14 DEF Polled
      <3>2. worker' \in Worker /\ worker'.taken = 0
        BY <1>0, <3>1 DEF WorkerT, Worker, Places
      <3>3. Len(pending)' \in Nat
        BY <2>1 DEF QueueT
      <3> QED BY <3>2, <3>3 DEF WorkerT
    <2>3. CountT'
      BY <1>0, <1>14 DEF Polled, Fault, CountT
    <2>4. UNCHANGED <<row, session, off>>
      BY <1>14 DEF Polled, Fault
    <2> QED BY <1>99, <2>1, <2>2, <2>3, <2>4 DEF Typed
  <1>15. CASE HandleStart
    <2>1. WorkerT'
      BY <1>0, <1>15 DEF HandleStart, Done, Resume, Goto, Fault, WorkerT, QueueT, Worker,
         Places, NoJob
    <2>2. CountT'
      BY <1>0, <1>15 DEF HandleStart, Done, Resume, Goto, Fault, CountT
    <2>3. UNCHANGED <<row, session, pending, outbox, redis, off>>
      BY <1>15 DEF HandleStart, Done, Resume, Goto, Fault
    <2> QED BY <1>99, <2>1, <2>2, <2>3 DEF Typed
  <1>16. CASE Refuse
    <2>1. RowT'
      BY <1>0, <1>16 DEF Refuse, WriteAndFinish, NeverRan, Done, Resume, Fault, RowT, Row
    <2>2. WorkerT'
      BY <1>0, <1>16 DEF Refuse, WriteAndFinish, NeverRan, Done, Resume, Fault, WorkerT,
         QueueT, Worker, Places, NoJob
    <2>3. CountT'
      BY <1>0, <1>16 DEF Refuse, WriteAndFinish, NeverRan, Done, Resume, Fault, CountT
    <2>4. UNCHANGED <<session, pending, outbox, redis, off>>
      BY <1>16 DEF Refuse, WriteAndFinish, NeverRan, Done, Resume, Fault
    <2> QED BY <1>99, <2>1, <2>2, <2>3, <2>4 DEF Typed
  <1>17. CASE Build
    <2>1. RowT'
      BY <1>0, <1>17 DEF Build, WriteAndFinish, NeverRan, Done, Resume, Fault, NoSession, RowT,
         Row
    <2>2. WorkerT'
      BY <1>0, <1>17 DEF Build, WriteAndFinish, NeverRan, Done, Resume, Fault, NoSession,
         WorkerT, QueueT, Worker, Places, NoJob
    <2>3. SessionT'
      <3>1. \/ UNCHANGED session
            \/ session' = [session EXCEPT ![worker.job.run] =
                 [NoSession EXCEPT !.thread = "starting", !.kept = TRUE, !.new = worker.how # "boot"]]
        BY <1>17 DEF Build
      <3>2. NoSession \in Session
        BY DEF NoSession, Session, Thread
      <3> DEFINE b(x) == [x EXCEPT !.thread = "starting", !.kept = TRUE, !.new = (worker.how # "boot")]
      <3>3. \A x \in Session : b(x) \in Session
        BY DEF Session, Thread
      <3>4. UNCHANGED session \/ session' = [session EXCEPT ![worker.job.run] = b(NoSession)]
        BY <3>1
      <3> HIDE DEF b
      <3> QED BY <1>0, <3>2, <3>3, <3>4 DEF SessionT
    <2>4. CountT'
      BY <1>0, <1>17 DEF Build, WriteAndFinish, NeverRan, Done, Resume, Fault, NoSession, CountT
    <2>5. UNCHANGED <<pending, outbox, redis, off>>
      BY <1>17 DEF Build, WriteAndFinish, NeverRan, Done, Resume, Fault, NoSession
    <2> QED BY <1>99, <2>1, <2>2, <2>3, <2>4, <2>5 DEF Typed
  <1>18. CASE HandleStop
    <2>1. RowT'
      <3>1. UNCHANGED row \/ row' = NeverRan(worker.job.run)
        BY <1>18 DEF HandleStop, WriteAndFinish
      <3> QED BY <1>0, <3>1 DEF NeverRan, RowT, Row
    <2>2. WorkerT'
      <3>1. worker' = Done /\ UNCHANGED pending
        BY <1>18 DEF HandleStop, WriteAndFinish
      <3> QED BY <1>0, <3>1 DEF Done, Resume, WorkerT, Worker, Places, NoJob
    <2>3. SessionT'
      <3>1. Pruned \in [Runs -> Session]
        BY <1>0 DEF Pruned, SessionT, Session, Alive
      <3>2. \/ session' = Pruned
            \/ session' = [Pruned EXCEPT ![worker.job.run].kept = FALSE,
                   ![worker.job.run].ending = TRUE, ![worker.job.run].stop = TRUE,
                   ![worker.job.run].deactivate = TRUE]
        BY <1>18 DEF HandleStop
      <3>3. \A x \in Session : [x EXCEPT !.kept = FALSE, !.ending = TRUE, !.stop = TRUE,
                                          !.deactivate = TRUE] \in Session
        BY DEF Session
      <3> DEFINE told(x) == [x EXCEPT !.kept = FALSE, !.ending = TRUE, !.stop = TRUE,
                                      !.deactivate = TRUE]
      <3>4. \/ session' = Pruned
            \/ session' = [Pruned EXCEPT ![worker.job.run] = told(Pruned[worker.job.run])]
        BY <3>1, <3>2
      <3>5. \A x \in Session : told(x) \in Session
        BY <3>3
      <3> HIDE DEF Pruned, told
      <3> QED BY <3>1, <3>4, <3>5 DEF SessionT
    <2>4. CountT'
      <3>1. UNCHANGED count \/ Fault
        BY <1>18 DEF HandleStop, WriteAndFinish
      <3> QED BY <1>0, <3>1 DEF Fault, CountT
    <2>5. UNCHANGED <<pending, outbox, redis, off>>
      BY <1>18 DEF HandleStop, Pruned, Alive, WriteAndFinish, NeverRan, Done, Resume, Fault
    <2> QED BY <1>99, <2>1, <2>2, <2>3, <2>4, <2>5 DEF Typed
  <1>19. CASE Leave
    <2>1. WorkerT'
      BY <1>0, <1>19 DEF Leave, Leaving, Goto, WorkerT, QueueT, Worker, Places, NoJob
    <2>2. SessionT'
      BY <1>0, <1>19 DEF Leave, Leaving, Goto, SessionT, Session, Thread
    <2>3. UNCHANGED <<row, count, pending, outbox, redis, off>>
      BY <1>19 DEF Leave, Leaving, Goto
    <2> QED BY <1>99, <2>1, <2>2, <2>3 DEF Typed
  <1>20. CASE SigTerm
    <2>1. WorkerT'
      BY <1>0, <1>20 DEF SigTerm, WorkerT, QueueT, Worker, Places, NoJob
    <2>2. CountT'
      BY <1>0, <1>20 DEF SigTerm, CountT
    <2>3. UNCHANGED <<row, session, pending, outbox, redis, off>>
      BY <1>20 DEF SigTerm
    <2> QED BY <1>99, <2>1, <2>2, <2>3 DEF Typed
  <1>21. CASE Exit \/ Crash
    <2>1. QueueT'
      <3>1. UNCHANGED <<pending, outbox>> /\ redis' = [redis EXCEPT !.linked = FALSE, !.bus = <<>>]
        BY <1>21 DEF Exit, Crash, Die
      <3> QED BY <1>0, <1>98, <3>1 DEF QueueT, Redis
    <2>2. WorkerT'
      <3>1. UNCHANGED pending /\ worker' = Down
        BY <1>21 DEF Exit, Crash, Die
      <3>2. Down \in Worker /\ Down.taken = 0 /\ Len(pending) \in Nat
        BY <1>0 DEF QueueT, Down, NoJob, Worker, Places
      <3> QED BY <3>1, <3>2 DEF WorkerT
    <2>3. SessionT'
      <3>1. session' = [r \in Runs |-> NoSession]
        BY <1>21 DEF Exit, Crash, Die
      <3> QED BY <3>1 DEF SessionT, Session, Thread, NoSession
    <2>4. CountT'
      BY <1>0, <1>21 DEF Exit, Crash, Die, Down, NoSession, CountT
    <2>5. UNCHANGED <<row, off>>
      BY <1>21 DEF Exit, Crash, Die, Down, NoSession
    <2> QED BY <1>99, <2>1, <2>2, <2>3, <2>4, <2>5 DEF Typed
  <1>22. CASE Outage \/ Back
    <2>1. QueueT'
      <3>1. /\ \/ redis' = [up |-> FALSE, linked |-> FALSE, bus |-> <<>>]
               \/ redis' = [redis EXCEPT !.up = TRUE]
            /\ UNCHANGED <<pending, outbox>>
        BY <1>22 DEF Outage, Back
      <3> QED BY <1>0, <1>98, <3>1, RedisUpdates DEF QueueT
    <2>2. CountT'
      BY <1>0, <1>22 DEF Outage, Back, CountT
    <2>3. UNCHANGED <<row, session, worker, pending, off>>
      BY <1>22 DEF Outage, Back
    <2> QED BY <1>99, <2>1, <2>2, <2>3 DEF Typed
  <1>23. CASE Boot
    <2>1. WorkerT' /\ off' \in SUBSET Runs /\ UNCHANGED <<row, pending, outbox, redis, session, count>>
      <3>1. PICK e \in Envs, s \in Orders({[kind |-> "start", run |-> r] : r \in Restorable}) :
              worker' = [Down EXCEPT !.pc = "restore", !.env = e, !.how = "boot", !.batch = s]
        BY <1>23 DEF Boot
      <3>2. s \in Seq([kind : {"start"}, run : Runs])
        BY OrdersAreSequences
      <3>4. [kind : {"start"}, run : Runs] \subseteq Command
        BY DEF Command
      <3>5. s \in Seq(Command)
        BY <3>2, <3>4, SeqMonotonic
      <3>3. /\ off' \in SUBSET Runs /\ UNCHANGED <<row, pending, outbox, redis, session, count>>
        BY <1>23 DEF Boot
      <3>6. worker' = [pc |-> "restore", env |-> e, job |-> NoJob, how |-> "boot", batch |-> s,
                       taken |-> 0, term |-> FALSE]
        BY <3>1 DEF Down
      <3>7. worker' \in Worker /\ worker'.taken = 0 /\ Len(pending) \in Nat
        BY <1>0, <3>5, <3>6 DEF QueueT, Worker, Places
      <3> QED BY <3>3, <3>7 DEF WorkerT
    <2> QED BY <1>99, <2>1 DEF Typed
  <1>24. CASE UNCHANGED vars
    BY <1>99, <1>24 DEF vars, Typed
  <1> QED
    BY <1>1, <1>2, <1>3, <1>4, <1>5, <1>6, <1>7, <1>8, <1>9, <1>10, <1>11, <1>12, <1>13,
       <1>14, <1>15, <1>16, <1>17, <1>18, <1>19, <1>20, <1>21, <1>22, <1>23, <1>24
    DEF Next, SessionStep, WorkerStep

(***************************************************************************)
(* What a step does to a run.                                               *)
(***************************************************************************)

\* A row that exists stays, in its environment, and is not switched on again.
RowsStay ==
    \A r \in Runs : row[r].exists =>
        /\ row'[r].exists /\ row'[r].env = row[r].env
        /\ row'[r].active => row[r].active

Same(r) == row'[r] = row[r]

\* A row is inserted, when no run occupies the slot.
Inserted(r) ==
    /\ ~row[r].exists /\ ~Occupied
    /\ row'[r].exists /\ row'[r].active /\ row'[r].ended = "no"
    /\ \A x \in Runs : x # r => row'[x] = row[x]
    /\ UNCHANGED <<worker, session, off>>

\* Its end or inactivity is written, by whom.
Recorded(r) ==
    /\ row'[r].exists = row[r].exists /\ row'[r].env = row[r].env /\ ~row'[r].active
    /\ row'[r].ended = "no" => row[r].ended = "no"
    /\ \/ /\ row'[r].ended = row[r].ended /\ UNCHANGED <<worker, session, off>>
          /\ count'.stops[r] > 0
       \/ /\ worker.pc \in {"refuse", "build"} /\ worker.job.run = r
          /\ worker'.pc \notin {"refuse", "build"}
          /\ UNCHANGED <<session, off>>
       \/ /\ worker.pc = "handle" /\ worker.job.kind = "stop" /\ worker.job.run = r
          /\ ~Pruned[r].kept /\ ~Pruned[r].ending
       \/ /\ row'[r].ended = row[r].ended
          /\ session[r].thread = "failed" \/ (session[r].thread = "running" /\ session[r].stop)
          /\ session[r].deactivate
       \/ /\ session[r].thread = "release" /\ session'[r].thread = "dead"
          /\ session'[r].calls = session[r].calls
          /\ session[r].deactivate

RowStep(r) == Same(r) \/ Inserted(r) \/ Recorded(r)

\* Every step does one of these to the row of a run.
LEMMA RowSteps ==
    ASSUME Typed, [Next]_vars, NEW q \in Runs
    PROVE  RowStep(q)
  <1>0. /\ row \in [Runs -> Row] /\ session \in [Runs -> Session]
        /\ count.stops \in [Runs -> Nat]
        /\ count \in [stops : [Runs -> Nat], outages : Nat, faults : Nat, boots : Nat]
    BY DEF Typed, RowT, SessionT, CountT
  <1>1. ASSUME UNCHANGED row PROVE RowStep(q)
    BY <1>1 DEF RowStep, Same
  <1>2. ASSUME NEW r \in Runs, Start(r) PROVE RowStep(q)
    <2>1. CASE r = q
      BY <1>0, <1>2, <2>1 DEF Start, RowStep, Inserted, Row
    <2>2. CASE r # q
      BY <1>0, <1>2, <2>2 DEF Start, RowStep, Same
    <2> QED BY <2>1, <2>2
  <1>3. ASSUME NEW r \in Runs, Stop(r) PROVE RowStep(q)
    <2>1. CASE r = q
      <3>1. count' = [count EXCEPT !.stops[q] = @ + 1] /\ row' = [row EXCEPT ![q].active = FALSE]
        BY <1>3, <2>1 DEF Stop
      <3>2. count'.stops[q] > 0
        BY <1>0, <3>1
      <3> QED BY <1>0, <1>3, <3>1, <3>2 DEF Stop, RowStep, Recorded, Row
    <2>2. CASE r # q
      BY <1>0, <1>3, <2>2 DEF Stop, RowStep, Same
    <2> QED BY <2>1, <2>2
  <1>4. ASSUME NEW r \in Runs, Close(r) PROVE RowStep(q)
    <2>1. row' = row \/ (session[r].deactivate /\ row' = Closed(r))
      BY <1>4 DEF Close, WriteOrNot
    <2> QED BY <1>0, <1>1, <1>4, <2>1 DEF Close, Closed, RowStep, Recorded, Same, Row
  <1>5. ASSUME NEW r \in Runs, Release(r) PROVE RowStep(q)
    <2>1. \/ row' = row
          \/ /\ session[r].deactivate
             /\ \/ row' = [row EXCEPT ![r].active = FALSE, ![r].ended = "zero"]
                \/ row' = [row EXCEPT ![r].active = FALSE, ![r].ended = "now"]
      BY <1>5 DEF Release, WriteOrNot, Released, NeverRan
    <2>2. /\ session[r].thread = "release" /\ session'[r].thread = "dead"
          /\ session'[r].calls = session[r].calls
      BY <1>0, <1>5 DEF Release, NoSession, Session
    <2> QED BY <1>0, <1>1, <2>1, <2>2 DEF RowStep, Recorded, Same, Row
  <1>6. CASE Refuse \/ Build
    <2>3. /\ worker.pc \in {"refuse", "build"} /\ UNCHANGED off
          /\ row' # row => UNCHANGED session
          /\ worker' = Done
      BY <1>6 DEF Refuse, Build, WriteAndFinish
    <2>4. worker'.pc \notin {"refuse", "build"}
      BY <2>3 DEF Done, Resume, Typed, WorkerT, Worker
    <2>1. /\ worker.pc \in {"refuse", "build"} /\ UNCHANGED off
          /\ row' # row => UNCHANGED session
          /\ worker'.pc \notin {"refuse", "build"}
      BY <2>3, <2>4
    <2>2. \/ row' = row
          \/ row' = [row EXCEPT ![worker.job.run].active = FALSE,
                               ![worker.job.run].ended = "zero"]
          \/ row' = [row EXCEPT ![worker.job.run].active = FALSE,
                               ![worker.job.run].ended = "now"]
      BY <1>6 DEF Refuse, Build, WriteAndFinish, NeverRan
    <2> QED BY <1>0, <1>1, <2>1, <2>2 DEF RowStep, Recorded, Same, Row
  <1>7. CASE HandleStop
    <2>1. \/ row' = row
          \/ /\ row' = [row EXCEPT ![worker.job.run].active = FALSE,
                                  ![worker.job.run].ended = "zero"]
             /\ ~Pruned[worker.job.run].kept /\ ~Pruned[worker.job.run].ending
             /\ worker.pc = "handle" /\ worker.job.kind = "stop"
      BY <1>7 DEF HandleStop, WriteAndFinish, NeverRan
    <2> HIDE DEF Pruned
    <2> QED BY <1>0, <1>1, <2>1 DEF RowStep, Recorded, Same, Row
  <1>8. ASSUME Next, \A r \in Runs : ~Start(r) /\ ~Stop(r) /\ ~Close(r) /\ ~Release(r),
               ~Refuse, ~Build, ~HandleStop
        PROVE  UNCHANGED row
    BY <1>8 DEF Next, SessionStep, Started, Hook, CallBegin, CallEnd, Publish, WorkerStep, Take,
       Restored, Subscribe, Listen, Ping, Polled, HandleStart, Leave, Boot, SigTerm, Exit, Crash,
       Die, Outage, Back
  <1> QED BY <1>1, <1>2, <1>3, <1>4, <1>5, <1>6, <1>7, <1>8 DEF vars

\* So a row that exists stays, and is never switched on again.
LEMMA RowsKeep == Typed /\ [Next]_vars => RowsStay
  BY RowSteps DEF RowStep, Same, Inserted, Recorded, RowsStay

(***************************************************************************)
(* The commands, the slot, and the session that owns it.                    *)
(***************************************************************************)

\* A stop on its way is of a run the operator switched off.
Told == {c \in Command : c.kind = "stop" => row[c.run].exists /\ ~row[c.run].active}

Commands ==
    /\ pending \in Seq(Told) /\ outbox \in SUBSET Told /\ redis.bus \in Seq(Told)
    /\ worker.batch \in Seq(Told) /\ worker.job \in Told \cup {NoJob}
    /\ worker.pc \in {"handle", "refuse", "build"} => worker.job \in Told

\* No stop is on its way at first.
LEMMA InitCommands == Init => Commands
  <1>1. <<>> \in Seq(Told)
    OBVIOUS
  <1> QED BY <1>1 DEF Init, Commands, Down

\* Every stop on its way stays one the operator asked for.
LEMMA NextCommands == Typed /\ Commands /\ [Next]_vars => Commands'
  <1> SUFFICES ASSUME Typed, Commands, [Next]_vars PROVE Commands'
    OBVIOUS
  <1>0. RowT /\ QueueT /\ WorkerT /\ RowsStay
    BY RowsKeep DEF Typed
  <1>1. Told \subseteq Told'
    BY <1>0 DEF Told, RowsStay, Command
  <1>2. \A s : s \in Seq(Told) => s \in Seq(Told')
    BY <1>1, SeqMonotonic
  <1>3. <<>> \in Seq(Told') /\ \A r \in Runs : [kind |-> "start", run |-> r] \in Told'
    BY DEF Told, Command
  <1>4. (UNCHANGED pending => pending' \in Seq(Told'))
        /\ (UNCHANGED outbox => outbox' \in SUBSET Told')
        /\ (UNCHANGED redis => redis'.bus \in Seq(Told'))
        /\ (UNCHANGED worker => /\ worker'.batch \in Seq(Told') /\ worker'.job \in Told' \cup {NoJob}
                                /\ worker'.pc \in {"handle", "refuse", "build"} => worker'.job \in Told')
    BY <1>1, <1>2 DEF Commands
  <1>5. pending' \in Seq(Told') /\ outbox' \in SUBSET Told'
    <2>1. ASSUME NEW r \in Runs, Start(r) \/ Stop(r)
          PROVE  pending' \in Seq(Told') /\ outbox' \in SUBSET Told'
      <3>1. PICK c \in Told' : pending' = Append(pending, c) /\ outbox' = outbox \cup {c}
        <4>1. CASE Start(r)
          BY <1>3, <4>1 DEF Start
        <4>2. CASE Stop(r)
          <5>1. [kind |-> "stop", run |-> r] \in Told'
            BY <1>0, <4>2 DEF Stop, Told, Command, RowT, Row
          <5> QED BY <4>2, <5>1 DEF Stop
        <4> QED BY <2>1, <4>1, <4>2
      <3> QED BY <1>1, <1>2, <3>1 DEF Commands
    <2>2. ASSUME NEW c, Publish(c) PROVE pending' \in Seq(Told') /\ outbox' \in SUBSET Told'
      BY <1>1, <1>4, <2>2 DEF Publish, Commands
    <2>3. CASE Polled
      <3>1. /\ pending' = pending \/ pending' = SubSeq(pending, worker.taken + 1, Len(pending))
            /\ UNCHANGED outbox
        BY <2>3 DEF Polled
      <3>2. SubSeq(pending, worker.taken + 1, Len(pending)) \in Seq(Told)
        BY <1>0, SubSeqProperties DEF WorkerT, Worker, Commands
      <3> QED BY <1>2, <1>4, <3>1, <3>2
    <2>4. ASSUME Next, \A r \in Runs : ~Start(r) /\ ~Stop(r), \A c \in Command : ~Publish(c), ~Polled
          PROVE  UNCHANGED <<pending, outbox>>
      BY <2>4 DEF Next, SessionStep, Started, Close, Hook, Release, CallBegin, CallEnd,
         WorkerStep,
         Take, Restored, Subscribe, Listen, Ping, HandleStart, Refuse, Build, HandleStop, Leave,
         Boot, SigTerm, Exit, Crash, Die, Outage, Back
    <2> QED BY <1>4, <2>1, <2>2, <2>3, <2>4 DEF vars
  <1>6. redis'.bus \in Seq(Told')
    <2>1. ASSUME NEW c \in Command, Publish(c) PROVE redis'.bus \in Seq(Told')
      <3>1. UNCHANGED redis \/ redis'.bus = Append(redis.bus, c)
        BY <1>0, <2>1 DEF Publish, QueueT, Redis
      <3>2. Append(redis.bus, c) \in Seq(Told)
        BY <2>1 DEF Publish, Commands
      <3> QED BY <1>2, <1>4, <3>1, <3>2
    <2>2. CASE Subscribe
      <3>1. UNCHANGED redis \/ redis'.bus = <<>>
        BY <1>0, <2>2 DEF Subscribe, QueueT, Redis
      <3> QED BY <1>3, <1>4, <3>1
    <2>3. CASE Listen
      <3>1. UNCHANGED redis \/ (redis.bus # <<>> /\ redis'.bus = Tail(redis.bus))
        BY <1>0, <2>3 DEF Listen, QueueT, Redis
      <3>2. redis.bus # <<>> => Tail(redis.bus) \in Seq(Told)
        BY DEF Commands
      <3> QED BY <1>2, <1>4, <3>1, <3>2
    <2>4. CASE Exit \/ Crash \/ Outage
      <3>1. \/ redis' = [redis EXCEPT !.linked = FALSE, !.bus = <<>>]
            \/ redis' = [up |-> FALSE, linked |-> FALSE, bus |-> <<>>]
        BY <2>4 DEF Exit, Crash, Die, Outage
      <3>3. DOMAIN redis = {"up", "linked", "bus"}
        BY <1>0 DEF QueueT, Redis
      <3>4. CASE redis' = [redis EXCEPT !.linked = FALSE, !.bus = <<>>]
        BY <1>3, <3>3, <3>4
      <3>5. CASE redis' = [up |-> FALSE, linked |-> FALSE, bus |-> <<>>]
        BY <1>3, <3>5
      <3> QED BY <3>1, <3>4, <3>5
    <2>5. CASE Back
      <3>1. redis'.bus = redis.bus
        BY <1>0, <2>5 DEF Back, QueueT, Redis
      <3> QED BY <1>2, <3>1 DEF Commands
    <2>6. ASSUME Next, \A c \in Command : ~Publish(c), ~Subscribe, ~Listen, ~Exit, ~Crash, ~Outage,
                 ~Back
          PROVE  UNCHANGED redis
      BY <2>6 DEF Next, SessionStep, Start, Stop, Started, Close, Hook, Release, CallBegin,
         CallEnd,
         WorkerStep, Take, Restored, Ping, Polled, HandleStart, Refuse, Build, HandleStop, Leave,
         Boot, SigTerm
    <2> QED BY <1>4, <2>1, <2>2, <2>3, <2>4, <2>5, <2>6 DEF vars
  <1>7. /\ worker'.batch \in Seq(Told') /\ worker'.job \in Told' \cup {NoJob}
        /\ worker'.pc \in {"handle", "refuse", "build"} => worker'.job \in Told'
    <2> DEFINE Fine == /\ worker'.batch \in Seq(Told') /\ worker'.job \in Told' \cup {NoJob}
                       /\ worker'.pc \in {"handle", "refuse", "build"} => worker'.job \in Told'
    <2>0. worker \in Worker /\ worker.batch \in Seq(Told) /\ worker.job \in Told \cup {NoJob}
      BY <1>0 DEF WorkerT, Commands
    <2>1. ASSUME worker'.batch = worker.batch, worker'.job = worker.job \/ worker'.job = NoJob,
                 worker'.pc \notin {"handle", "refuse", "build"}
          PROVE  Fine
      BY <1>1, <1>2, <2>0, <2>1
    <2>2. CASE Take
      <3>1. /\ worker'.batch = Tail(worker.batch) /\ worker'.job = Head(worker.batch)
            /\ worker.batch # <<>>
        BY <2>0, <2>2 DEF Take, Worker
      <3>2. Tail(worker.batch) \in Seq(Told) /\ Head(worker.batch) \in Told
        BY <2>0, <3>1
      <3> QED BY <1>1, <1>2, <3>1, <3>2
    <2>3. CASE Restored \/ Subscribe \/ Polled \/ Leave
      BY <2>0, <2>1, <2>3 DEF Restored, Subscribe, Polled, Leave, Goto, Worker
    <2>4. CASE Listen
      <3>1. CASE worker' = [worker EXCEPT !.pc = "ping"]
        BY <2>0, <2>1, <3>1 DEF Worker
      <3>2. CASE /\ redis.bus # <<>>
                 /\ worker' = [worker EXCEPT !.pc = "handle", !.job = Head(redis.bus)]
        <4>1. Head(redis.bus) \in Told
          BY <3>2 DEF Commands
        <4>2. worker'.batch = worker.batch /\ worker'.job = Head(redis.bus)
          BY <2>0, <3>2 DEF Worker
        <4> QED BY <1>1, <1>2, <2>0, <4>1, <4>2
      <3> QED BY <2>4, <3>1, <3>2 DEF Listen, Goto
    <2>5. CASE Ping
      <3>1. CASE worker' = [worker EXCEPT !.pc = "subscribe"]
        BY <2>0, <2>1, <3>1 DEF Worker
      <3>2. CASE worker' = [worker EXCEPT !.pc = "poll", !.how = "poll", !.batch = pending,
                                          !.taken = Len(pending)]
        <4>1. worker'.batch = pending /\ worker'.job = worker.job /\ worker'.pc = "poll"
          BY <2>0, <3>2 DEF Worker
        <4> QED BY <1>1, <1>2, <2>0, <4>1 DEF Commands
      <3> QED BY <2>5, <3>1, <3>2 DEF Ping
    <2>6. ASSUME worker' = Done PROVE Fine
      <3>1. /\ worker'.batch = worker.batch /\ worker'.job = NoJob
            /\ worker'.pc \in {"restore", "poll", "listen"}
        BY <2>0, <2>6 DEF Done, Resume, Worker, Places
      <3> QED BY <2>1, <3>1
    <2>7. CASE HandleStart
      <3>1. worker.pc = "handle" /\ (worker' = Done \/ \E pc : worker' = [worker EXCEPT !.pc = pc])
        BY <2>7 DEF HandleStart, Goto
      <3>2. worker' # Done => worker'.batch = worker.batch /\ worker'.job = worker.job
        BY <2>0, <3>1 DEF Worker
      <3>3. worker.job \in Told
        BY <3>1 DEF Commands
      <3> QED BY <1>1, <1>2, <2>0, <2>6, <3>1, <3>2, <3>3
    <2>8. CASE Refuse \/ Build \/ HandleStop
      <3>1. worker' = Done
        BY <2>8 DEF Refuse, Build, HandleStop, WriteAndFinish
      <3> QED BY <2>6, <3>1
    <2>9. CASE Boot
      <3>1. PICK e \in Envs, b \in Orders({[kind |-> "start", run |-> r] : r \in Restorable}) :
              worker' = [Down EXCEPT !.pc = "restore", !.env = e, !.how = "boot", !.batch = b]
        BY <2>9 DEF Boot
      <3>2. b \in Seq([kind : {"start"}, run : Runs])
        BY OrdersAreSequences
      <3>3. [kind : {"start"}, run : Runs] \subseteq Told'
        BY DEF Told, Command
      <3>4. b \in Seq(Told')
        BY <3>2, <3>3, SeqMonotonic
      <3>5. worker'.batch = b /\ worker'.job = NoJob /\ worker'.pc = "restore"
        BY <3>1 DEF Down
      <3> QED BY <3>4, <3>5
    <2>10. CASE SigTerm
      <3>1. worker'.batch = worker.batch /\ worker'.job = worker.job /\ worker'.pc = worker.pc
        BY <2>0, <2>10 DEF SigTerm, Worker
      <3> QED BY <1>1, <1>2, <2>0, <3>1 DEF Commands
    <2>11. CASE Exit \/ Crash
      <3>1. worker' = Down
        BY <2>11 DEF Exit, Crash, Die
      <3>2. worker'.batch = <<>> /\ worker'.job = NoJob /\ worker'.pc = "down"
        BY <3>1 DEF Down
      <3> QED BY <1>3, <3>2
    <2>12. ASSUME Next, ~WorkerStep, ~Boot, ~SigTerm, ~Exit, ~Crash PROVE UNCHANGED worker
      BY <2>12 DEF Next, SessionStep, Start, Stop, Started, Close, Hook, Release, CallBegin,
         CallEnd, Publish, Outage, Back
    <2>13. CASE UNCHANGED worker
      BY <1>1, <1>2, <2>0, <2>13 DEF Commands
    <2> QED
      BY <2>13, <2>2, <2>3, <2>4, <2>5, <2>7, <2>8, <2>9, <2>10, <2>11, <2>12 DEF WorkerStep, vars
  <1> QED BY <1>5, <1>6, <1>7 DEF Commands

\* One row holds the slot: it is active, or its end is not recorded.
Occupies(r) == row[r].exists /\ (row[r].active \/ row[r].ended = "no")
OneSlot == \A q, r \in Runs : Occupies(q) /\ Occupies(r) => q = r

\* A row is inserted only while no other one occupies the slot.
LEMMA NextOneSlot == Typed /\ OneSlot /\ [Next]_vars => OneSlot'
  <1> SUFFICES ASSUME Typed, OneSlot, [Next]_vars, NEW q \in Runs, NEW r \in Runs,
                      Occupies(q)', Occupies(r)'
               PROVE  q = r
    BY DEF OneSlot
  <1>1. RowStep(q) /\ RowStep(r)
    BY RowSteps
  <1>2. CASE Inserted(q) \/ Inserted(r)
    BY <1>2 DEF Inserted, Occupied, Occupies
  <1>3. CASE ~Inserted(q) /\ ~Inserted(r)
    <2> QED BY <1>1, <1>3 DEF RowStep, Same, Recorded, Occupies, OneSlot
  <1> QED BY <1>2, <1>3

\* A session on the account, or one of its callbacks.
Busy(r) == Alive(r) \/ session[r].calls > 0

\* A session that lives is kept, or ends by an operator's stop; it holds the
\* slot until it is through, in its environment, and its callbacks are
\* through before it unless the process leaves.
Owned(r) ==
    /\ Alive(r) => session[r].kept \/ session[r].ending
    /\ session[r].ending => row[r].exists /\ ~row[r].active
    /\ Busy(r) => /\ row[r].exists /\ row[r].ended = "no"
                  /\ row[r].env = worker.env /\ r \notin off
                  /\ worker.pc # "down"
    /\ ~session[r].deactivate => worker.pc = "leaving"
    /\ session[r].thread \in {"failed", "drain", "hook", "release", "dead"} => session[r].stop
    /\ session[r].calls > 0 =>
          /\ session[r].thread # "none"
          /\ session[r].thread = "dead" => worker.pc = "leaving"
          /\ session[r].thread = "release" => ~session[r].deactivate
    /\ session[r].thread = "hook" => ~session[r].deactivate
    /\ session[r].thread \in {"starting", "failed"} => ~session[r].started
    /\ session[r].thread = "running" => session[r].started
    /\ /\ session[r].stop /\ session[r].deactivate
       /\ Alive(r) /\ (session[r].started \/ session[r].thread = "starting")
       => ~row[r].active

\* The run the main thread is about to start or to refuse has no session, and
\* its row still waits for one.
Building ==
    worker.pc \in {"build", "refuse"} =>
        LET r == worker.job.run IN
        /\ worker.job.kind = "start"
        /\ ~session[r].kept /\ ~Alive(r) /\ row[r].exists /\ row[r].ended = "no"
        /\ r \notin off
        /\ worker.pc = "build" => row[r].env = worker.env

\* What was off when the worker came up is off.
OffRuns == \A r \in off : row[r].exists /\ ~row[r].active

Owners == OneSlot /\ (\A r \in Runs : Owned(r)) /\ Building /\ OffRuns

\* Where the process stands.
Stays ==
    /\ worker'.env = worker.env /\ UNCHANGED off
    /\ worker'.pc = "down" <=> worker.pc = "down"
    /\ worker.pc = "leaving" => worker'.pc = "leaving"

\* Every step but these three leaves the process and its environment.
LEMMA ProcessStays ==
    ASSUME Typed, [Next]_vars
    PROVE  Stays \/ Boot \/ Exit \/ Crash
  <1>1. worker \in Worker
    BY DEF Typed, WorkerT
  <1>2. ASSUME Next, ~WorkerStep, ~Boot, ~SigTerm, ~Exit, ~Crash
        PROVE  UNCHANGED worker /\ UNCHANGED off
    BY <1>2 DEF Next, SessionStep, Start, Stop, Started, Close, Hook, Release, CallBegin,
       CallEnd, Publish, Outage, Back
  <1>3. CASE UNCHANGED worker /\ UNCHANGED off
    BY <1>3 DEF Stays
  <1>4. ASSUME worker' = Done, worker.pc \in {"handle", "refuse", "build"}, UNCHANGED off PROVE Stays
    BY <1>1, <1>4 DEF Done, Resume, Stays, Worker
  <1>5. CASE Take \/ Restored \/ Subscribe \/ Listen
    BY <1>1, <1>5 DEF Take, Restored, Subscribe, Listen, Goto, Stays, Worker
  <1>6. CASE Ping \/ Polled \/ Leave \/ SigTerm
    BY <1>1, <1>6 DEF Ping, Polled, Leave, SigTerm, Goto, Stays, Worker
  <1>7. CASE HandleStart
    <2>1. /\ worker.pc = "handle" /\ UNCHANGED off
          /\ \/ worker' = Done \/ worker' = [worker EXCEPT !.pc = "build"]
             \/ worker' = [worker EXCEPT !.pc = "refuse"]
      BY <1>7 DEF HandleStart, Goto
    <2> QED BY <1>1, <1>4, <2>1 DEF Stays, Worker
  <1>8. CASE Refuse \/ Build \/ HandleStop
    BY <1>4, <1>8 DEF Refuse, Build, HandleStop, WriteAndFinish
  <1> QED BY <1>2, <1>3, <1>5, <1>6, <1>7, <1>8 DEF WorkerStep, vars

\* What a step does to a session.
Starts(r) ==
    /\ worker.pc = "build" /\ worker.job.run = r /\ UNCHANGED row
    /\ worker'.pc \notin {"refuse", "build"}
    /\ session'[r].thread = "starting" /\ session'[r].kept /\ ~session'[r].stop
    /\ session'[r].deactivate /\ session'[r].calls = 0 /\ ~session'[r].ending
    /\ ~session'[r].started

SameThread(r) ==
    /\ session'[r].thread = session[r].thread /\ session'[r].calls = session[r].calls
    /\ session'[r].started = session[r].started

Prunes(r) ==
    /\ worker.pc = "handle" /\ SameThread(r)
    /\ session'[r].kept = session[r].kept /\ session'[r].ending = (session[r].ending /\ Alive(r))
    /\ session'[r].stop = session[r].stop /\ session'[r].deactivate = session[r].deactivate

Stops(r) ==
    /\ worker.pc = "handle" /\ worker.job.kind = "stop" /\ worker.job.run = r
    /\ SameThread(r) /\ UNCHANGED row
    /\ session'[r].ending /\ session'[r].stop /\ session'[r].deactivate

Leaves(r) ==
    /\ session[r].kept /\ SameThread(r) /\ UNCHANGED row /\ worker'.pc = "leaving"
    /\ session'[r].kept /\ session'[r].ending = session[r].ending
    /\ session'[r].stop /\ ~session'[r].deactivate

Unmoved(r) ==
    /\ session'[r].kept = session[r].kept /\ session'[r].ending = session[r].ending
    /\ UNCHANGED <<worker, off>>

Comes(r) ==
    /\ Unmoved(r) /\ UNCHANGED row
    /\ session[r].thread = "starting" /\ session'[r].calls = session[r].calls
    /\ session'[r].deactivate = session[r].deactivate
    /\ \/ /\ session'[r].thread = "running" /\ session'[r].stop = session[r].stop
          /\ session'[r].started
       \/ /\ session'[r].thread = "failed" /\ session'[r].stop
          /\ session'[r].started = session[r].started

Closes(r) ==
    /\ Unmoved(r)
    /\ session[r].thread = "failed" \/ (session[r].thread = "running" /\ session[r].stop)
    /\ session'[r].calls = session[r].calls /\ session'[r].stop = session[r].stop
    /\ session'[r].deactivate = session[r].deactivate
    /\ session'[r].started = session[r].started
    /\ session[r].deactivate => session'[r].thread = "drain"
    /\ ~session[r].deactivate => session'[r].thread = "hook"

Hooks(r) ==
    /\ Unmoved(r) /\ UNCHANGED row
    /\ (session[r].thread = "drain" /\ session[r].calls = 0) \/ session[r].thread = "hook"
    /\ session'[r].calls = session[r].calls /\ session'[r].stop = session[r].stop
    /\ session'[r].deactivate = session[r].deactivate
    /\ session'[r].started = session[r].started
    /\ session'[r].thread = "release"

Ends(r) ==
    /\ Unmoved(r)
    /\ session[r].thread = "release" /\ session'[r].thread = "dead"
    /\ session'[r].calls = session[r].calls /\ session'[r].stop /\ session'[r].deactivate
    /\ ~session[r].deactivate => UNCHANGED row

Calls(r) ==
    /\ Unmoved(r) /\ UNCHANGED row
    /\ session'[r].thread = session[r].thread /\ session'[r].stop = session[r].stop
    /\ session'[r].deactivate = session[r].deactivate
    /\ session'[r].started = session[r].started
    /\ session'[r].calls = 0 \/ (Alive(r) /\ ~session[r].stop)

SessionMoves(r) ==
    \/ session'[r] = session[r] \/ Starts(r) \/ Prunes(r) \/ Stops(r) \/ Leaves(r)
    \/ Comes(r) \/ Closes(r) \/ Hooks(r) \/ Ends(r) \/ Calls(r) \/ Exit \/ Crash

\* Every step does one of these to the session of a run.
LEMMA SessionSteps ==
    ASSUME Typed, [Next]_vars, NEW q \in Runs
    PROVE  SessionMoves(q)
  <1>0. session \in [Runs -> Session] /\ row \in [Runs -> Row]
    BY DEF Typed, SessionT, RowT
  <1>1. ASSUME session'[q] = session[q] PROVE SessionMoves(q)
    BY <1>1 DEF SessionMoves
  <1>2. ASSUME NEW r \in Runs, Started(r) PROVE SessionMoves(q)
    <2>1. CASE r = q
      <3>1. Comes(q)
        BY <1>0, <1>2, <2>1 DEF Started, Comes, Unmoved, Session
      <3> QED BY <3>1 DEF SessionMoves
    <2> QED BY <1>0, <1>1, <1>2, <2>1 DEF Started
  <1>3. ASSUME NEW r \in Runs, Close(r) PROVE SessionMoves(q)
    <2>1. CASE r = q
      <3>1. session' = [session EXCEPT ![q].thread = IF session[q].deactivate THEN "drain" ELSE "hook"]
        BY <1>3, <2>1 DEF Close
      <3>3. UNCHANGED <<worker, off>>
        BY <1>3 DEF Close
      <3>2. session[q].thread = "failed" \/ (session[q].thread = "running" /\ session[q].stop)
        BY <1>3, <2>1 DEF Close
      <3>4. Closes(q)
        BY <1>0, <3>1, <3>2, <3>3 DEF Closes, Unmoved, Session
      <3> QED BY <3>4 DEF SessionMoves
    <2> QED BY <1>0, <1>1, <1>3, <2>1 DEF Close
  <1>4. ASSUME NEW r \in Runs, Hook(r) PROVE SessionMoves(q)
    <2>1. CASE r = q
      <3>1. Hooks(q)
        BY <1>0, <1>4, <2>1 DEF Hook, Hooks, Unmoved, Session
      <3> QED BY <3>1 DEF SessionMoves
    <2> QED BY <1>0, <1>1, <1>4, <2>1 DEF Hook
  <1>5. ASSUME NEW r \in Runs, Release(r) PROVE SessionMoves(q)
    <2>1. CASE r = q
      <3>1. Ends(q)
        BY <1>0, <1>5, <2>1 DEF Release, NoSession, Ends, Unmoved, Session
      <3> QED BY <3>1 DEF SessionMoves
    <2> QED BY <1>0, <1>1, <1>5, <2>1 DEF Release
  <1>6. ASSUME NEW r \in Runs, CallBegin(r) \/ CallEnd(r) PROVE SessionMoves(q)
    <2>1. CASE r = q
      <3>1. Calls(q)
        BY <1>0, <1>6, <2>1 DEF CallBegin, CallEnd, Calls, Unmoved, Session
      <3> QED BY <3>1 DEF SessionMoves
    <2> QED BY <1>0, <1>1, <1>6, <2>1 DEF CallBegin, CallEnd
  <1>7. CASE Build
    <2>1. session' # session => worker.pc = "build" /\ UNCHANGED row
            /\ session' = [session EXCEPT ![worker.job.run] =
                 [NoSession EXCEPT !.thread = "starting", !.kept = TRUE, !.new = worker.how # "boot"]]
      BY <1>7 DEF Build
    <2>4. worker'.pc \notin {"refuse", "build"}
      BY <1>7 DEF Build, WriteAndFinish, Done, Resume, Typed, WorkerT, Worker
    <2>2. CASE session # session' /\ q = worker.job.run
      <3>1. session'[q] = [NoSession EXCEPT !.thread = "starting", !.kept = TRUE,
                                            !.new = worker.how # "boot"]
        BY <1>0, <2>1, <2>2
      <3>2. Starts(q)
        BY <2>1, <2>2, <2>4, <3>1 DEF Starts, NoSession
      <3> QED BY <3>2 DEF SessionMoves
    <2>3. CASE session' = session \/ q # worker.job.run
      BY <1>0, <1>1, <2>1, <2>3
    <2> QED BY <2>2, <2>3
  <1>8. CASE HandleStop
    <2>1. Pruned[q] = [session[q] EXCEPT !.ending = session[q].ending /\ Alive(q)]
      BY DEF Pruned
    <2>2. Pruned \in [Runs -> Session]
      BY <1>0 DEF Pruned, Session, Alive
    <2>3. worker.pc = "handle" /\ worker.job.kind = "stop"
      BY <1>8 DEF HandleStop
    <2>4. CASE session' = Pruned
      BY <1>0, <2>1, <2>3, <2>4 DEF SessionMoves, Prunes, SameThread, Session, Alive
    <2>5. CASE /\ session' = [Pruned EXCEPT ![worker.job.run].kept = FALSE,
                   ![worker.job.run].ending = TRUE, ![worker.job.run].stop = TRUE,
                   ![worker.job.run].deactivate = TRUE]
               /\ UNCHANGED row
      <3>1. CASE q = worker.job.run
        <4>1. session'[q] = [Pruned[q] EXCEPT !.kept = FALSE, !.ending = TRUE, !.stop = TRUE,
                                              !.deactivate = TRUE]
          BY <2>2, <2>5, <3>1
        <4>2. Pruned[q] \in Session
          BY <2>2
        <4> HIDE DEF Pruned
        <4>3. SameThread(q) /\ session'[q].ending /\ session'[q].stop /\ session'[q].deactivate
          BY <1>0, <2>1, <4>1, <4>2 DEF SameThread, Session
        <4> QED BY <2>3, <2>5, <3>1, <4>3 DEF SessionMoves, Stops
      <3>2. CASE q # worker.job.run
        <4>1. session'[q] = Pruned[q]
          BY <2>2, <2>5, <3>2
        <4> QED BY <1>0, <2>1, <2>3, <4>1 DEF SessionMoves, Prunes, SameThread, Session, Alive
      <3> QED BY <3>1, <3>2
    <2>6. \/ session' = Pruned
          \/ /\ session' = [Pruned EXCEPT ![worker.job.run].kept = FALSE,
                   ![worker.job.run].ending = TRUE, ![worker.job.run].stop = TRUE,
                   ![worker.job.run].deactivate = TRUE]
             /\ UNCHANGED row
      BY <1>8 DEF HandleStop
    <2> QED BY <2>4, <2>5, <2>6
  <1>9. CASE Leave
    <2>1. worker'.pc = "leaving"
      BY <1>9 DEF Leave, Goto, Typed, WorkerT, Worker
    <2> QED BY <1>0, <1>1, <1>9, <2>1 DEF Leave, Leaving, SessionMoves, Leaves, SameThread,
               Session
  <1>10. ASSUME Next, \A r \in Runs : ~SessionStep(r) /\ ~CallBegin(r) /\ ~CallEnd(r),
                ~Build, ~HandleStop, ~Leave, ~Exit, ~Crash
         PROVE  UNCHANGED session
    BY <1>10 DEF Next, Start, Stop, Publish, WorkerStep, Take, Restored, Subscribe, Listen, Ping,
       Polled, HandleStart, Refuse, Boot, SigTerm, Outage, Back
  <1>11. CASE Exit \/ Crash \/ UNCHANGED vars
    BY <1>11 DEF SessionMoves, vars
  <1> QED
    BY <1>1, <1>2, <1>3, <1>4, <1>5, <1>6, <1>7, <1>8, <1>9, <1>10, <1>11 DEF SessionStep

\* What is known of a session stays true.
LEMMA NextOwned ==
    Typed /\ Commands /\ Owners /\ [Next]_vars => \A r \in Runs : Owned(r)'
  <1> SUFFICES ASSUME Typed, Commands, Owners, [Next]_vars, NEW q \in Runs PROVE Owned(q)'
    OBVIOUS
  <1>0. /\ Owned(q) /\ RowsStay /\ RowStep(q) /\ SessionMoves(q) /\ session[q] \in Session
        /\ Stays \/ Boot \/ Exit \/ Crash
    BY RowSteps, RowsKeep, SessionSteps, ProcessStays DEF Owners, Typed, SessionT
  <1>1. CASE Exit \/ Crash
    <2>1. session'[q] = NoSession /\ worker'.pc = "down"
      BY <1>1 DEF Exit, Crash, Die, Down
    <2> QED BY <2>1 DEF Owned, Busy, Alive, NoSession
  <1>2. CASE Boot
    <2>1. UNCHANGED <<session, row>> /\ worker.pc = "down"
      BY <1>2 DEF Boot
    <2> QED BY <1>0, <2>1 DEF Owned, Busy, Alive
  <1>3. CASE Stays
    <2>1. ~Alive(q) /\ worker.pc \notin {"leaving"} => ~Busy(q)
      BY <1>0 DEF Owned, Busy, Alive, Session
    <2>2. worker.pc \in {"refuse", "build"} /\ worker.job.run = q => ~Alive(q) /\ ~session[q].kept
      BY DEF Owners, Building
    <2>3. Busy(q) /\ session'[q].thread # "dead" => row'[q].ended = "no"
      <3> SUFFICES ASSUME Busy(q), session'[q].thread # "dead" PROVE row'[q].ended = "no"
        OBVIOUS
      <3>1. row[q].exists /\ row[q].ended = "no"
        BY <1>0 DEF Owned
      <3>2. Pruned[q].kept = session[q].kept /\ Pruned[q].ending = (session[q].ending /\ Alive(q))
        BY <1>0 DEF Pruned, Session
      <3>3. ~Inserted(q)
        BY <3>1 DEF Inserted
      <3> HIDE DEF Pruned
      <3>4. CASE Recorded(q)
        BY <1>0, <2>1, <2>2, <3>1, <3>2, <3>4 DEF Recorded, Owned
      <3> QED BY <1>0, <3>1, <3>3, <3>4 DEF RowStep, Same
    <2>4. CASE session'[q] = session[q]
      <3>5. Busy(q) => row[q].exists /\ row[q].ended = "no"
        BY <1>0 DEF Owned
      <3>6. session[q].thread = "dead" /\ Busy(q) => worker.pc = "leaving"
        BY <1>0 DEF Owned, Busy, Alive, Session
      <3>7. session[q].thread = "dead" /\ Busy(q) => row'[q].ended = "no"
        BY <1>0, <2>4, <3>5, <3>6 DEF RowStep, Same, Inserted, Recorded
      <3>1. Busy(q) => row'[q].ended = "no" /\ row'[q].exists /\ row'[q].env = row[q].env
        BY <1>0, <2>3, <2>4, <3>5, <3>7 DEF RowsStay
      <3>2. row[q].exists => row'[q].exists /\ (row'[q].active => row[q].active)
        BY <1>0 DEF RowsStay
      <3>3. (Alive(q)' <=> Alive(q)) /\ (Busy(q)' <=> Busy(q))
        BY <2>4 DEF Alive, Busy
      <3>4. Busy(q) => row[q].exists
        BY <1>0 DEF Owned
      <3> QED BY <1>0, <1>3, <2>4, <3>1, <3>2, <3>3, <3>4 DEF Owned, Stays, Busy, Alive
    <2>5. CASE Starts(q)
      BY <1>0, <1>3, <2>1, <2>3, <2>5 DEF Owned, Busy, Alive, Stays, RowsStay, Session, Starts,
         Owners, Building
    <2>6. CASE Prunes(q)
      BY <1>0, <1>3, <2>1, <2>3, <2>6 DEF Owned, Busy, Alive, Stays, RowsStay, Session, Prunes,
         SameThread
    <2>7. CASE Stops(q)
      BY <1>0, <1>3, <2>1, <2>3, <2>7 DEF Owned, Busy, Alive, Stays, RowsStay, Session, Stops,
         SameThread, Commands, Told
    <2>8. CASE Leaves(q)
      BY <1>0, <1>3, <2>1, <2>3, <2>8 DEF Owned, Busy, Alive, Stays, RowsStay, Session, Leaves,
         SameThread
    <2>9. CASE Comes(q)
      BY <1>0, <1>3, <2>1, <2>3, <2>9 DEF Owned, Busy, Alive, Stays, RowsStay, Session, Comes,
         Unmoved
    <2>10. CASE Closes(q)
      BY <1>0, <1>3, <2>1, <2>3, <2>10 DEF Owned, Busy, Alive, Stays, RowsStay, Session,
         Closes, Unmoved
    <2>11. CASE Hooks(q)
      BY <1>0, <1>3, <2>1, <2>3, <2>11 DEF Owned, Busy, Alive, Stays, RowsStay, Session, Hooks,
         Unmoved
    <2>12. CASE Ends(q)
      BY <1>0, <1>3, <2>1, <2>3, <2>12 DEF Owned, Busy, Alive, Stays, RowsStay, Session, Ends,
         Unmoved
    <2>13. CASE Calls(q)
      BY <1>0, <1>3, <2>1, <2>3, <2>13 DEF Owned, Busy, Alive, Stays, RowsStay, Session, Calls,
         Unmoved
    <2> QED BY <1>0, <1>1, <2>4, <2>5, <2>6, <2>7, <2>8, <2>9, <2>10, <2>11, <2>12, <2>13
            DEF SessionMoves
  <1> QED BY <1>0, <1>1, <1>2, <1>3

\* What the main thread has checked stays true until it has built or refused.
LEMMA NextBuilding == Typed /\ Commands /\ Owners /\ [Next]_vars => Building'
  <1> SUFFICES ASSUME Typed, Commands, Owners, [Next]_vars, worker'.pc \in {"build", "refuse"}
               PROVE  /\ worker'.job.kind = "start"
                      /\ LET r == worker'.job.run IN
                           /\ ~session'[r].kept /\ session'[r].thread \in {"none", "dead"}
                           /\ row'[r].exists
                           /\ row'[r].ended = "no" /\ r \notin off'
                           /\ worker'.pc = "build" => row'[r].env = worker'.env
    BY DEF Building, Alive
  <1> DEFINE r == worker'.job.run
  <1>0. /\ worker \in Worker /\ session \in [Runs -> Session] /\ RowsStay
        /\ Stays \/ Boot \/ Exit \/ Crash
    BY RowsKeep, ProcessStays DEF Typed, WorkerT, SessionT
  <1>1. CASE HandleStart
    <2>1. /\ worker.job.kind = "start" /\ ~session[worker.job.run].kept /\ Wanted(worker.job.run)
          /\ worker' = [worker EXCEPT !.pc = IF EnvMatches(worker.job.run) THEN "build" ELSE "refuse"]
          /\ UNCHANGED <<row, session, off>> /\ worker.pc = "handle"
      BY <1>0, <1>1 DEF HandleStart, Done, Resume, Goto, Worker, Places
    <2>2. /\ worker'.job = worker.job /\ worker'.env = worker.env
          /\ worker'.pc = "build" => EnvMatches(r)
      BY <1>0, <2>1 DEF Worker
    <2>3. r \in Runs
      BY <2>1, <2>2 DEF Commands, Told, Command
    <2>4. ~Alive(r)
      BY <2>1, <2>2, <2>3 DEF Owners, Owned, Wanted
    <2>5. r \notin off
      BY <2>1, <2>2 DEF Owners, OffRuns, Wanted
    <2> QED BY <2>1, <2>2, <2>4, <2>5 DEF Wanted, EnvMatches, Alive
  <1>2. CASE ~HandleStart
    <2>1. /\ worker.pc = worker'.pc /\ worker'.job = worker.job /\ Stays
          /\ ~Boot /\ ~Exit /\ ~Crash
      <3>1. CASE Take \/ Restored \/ Subscribe \/ Listen
        BY <1>0, <3>1 DEF Take, Restored, Subscribe, Listen, Goto, Worker
      <3>2. CASE Ping \/ Polled \/ Leave
        BY <1>0, <3>2 DEF Ping, Polled, Leave, Goto, Worker
      <3>3. CASE Refuse \/ Build \/ HandleStop
        <4>1. worker' = Done
          BY <3>3 DEF Refuse, Build, HandleStop, WriteAndFinish
        <4> QED BY <1>0, <4>1 DEF Done, Resume, Worker, Places
      <3>8. Boot => worker'.pc = "restore"
        BY DEF Boot, Down
      <3>9. Exit \/ Crash => worker'.pc = "down"
        BY DEF Exit, Crash, Die, Down
      <3>4. ~Boot /\ ~Exit /\ ~Crash
        BY <3>8, <3>9
      <3>5. CASE SigTerm
        BY <1>0, <3>4, <3>5 DEF SigTerm, Worker
      <3>6. CASE UNCHANGED worker
        BY <1>0, <3>3, <3>4, <3>6 DEF Stays
      <3>7. ASSUME Next, ~WorkerStep, ~Boot, ~SigTerm, ~Exit, ~Crash PROVE UNCHANGED worker
        BY <3>7 DEF Next, SessionStep, Start, Stop, Started, Close, Hook, Release, CallBegin,
           CallEnd, Publish, Outage, Back
      <3> QED BY <1>0, <1>2, <3>1, <3>2, <3>3, <3>4, <3>5, <3>6, <3>7 DEF WorkerStep, vars
    <2>2. /\ worker.job.kind = "start" /\ ~session[r].kept /\ ~Alive(r) /\ row[r].exists
          /\ row[r].ended = "no" /\ r \notin off
          /\ worker.pc = "build" => row[r].env = worker.env
      BY <2>1 DEF Owners, Building
    <2>3. r \in Runs
      BY <2>1 DEF Commands, Told, Command
    <2>4. SessionMoves(r) /\ RowStep(r) /\ Owned(r) /\ session[r] \in Session
      BY <1>0, <2>3, SessionSteps, RowSteps DEF Owners
    <2>5. ~Starts(r) /\ ~Stops(r) /\ ~Prunes(r) /\ ~Leaves(r)
      BY <2>1 DEF Starts, Stops, Prunes, Leaves
    <2>6. ~session'[r].kept /\ session'[r].thread \in {"none", "dead"}
      BY <2>1, <2>2, <2>4, <2>5 DEF SessionMoves, Comes, Closes, Hooks, Ends, Calls, Unmoved,
         Alive
    <2>7. row'[r].ended = "no" /\ row'[r].exists /\ row'[r].env = row[r].env
      <3>1. RowsStay /\ r \in Runs
        BY <1>0, <2>3
      <3>2. session[r].thread # "release" /\ worker.pc # "handle" /\ row[r].exists
            /\ row[r].ended = "no"
            /\ (worker.pc \in {"refuse", "build"} /\ worker'.pc \in {"refuse", "build"})
        BY <2>1, <2>2 DEF Alive
      <3>3. RowStep(r)
        BY <2>4
      <3> HIDE DEF r
      <3>4. row'[r].ended = "no"
        BY <3>2, <3>3 DEF RowStep, Same, Inserted, Recorded
      <3> QED BY <3>1, <3>2, <3>4 DEF RowsStay
    <2>8. worker'.env = worker.env /\ off' = off
      BY <2>1 DEF Stays
    <2> QED BY <2>1, <2>2, <2>6, <2>7, <2>8
  <1> QED BY <1>1, <1>2

\* A run that was off when the worker came up stays off.
LEMMA NextOffRuns == Typed /\ OffRuns /\ [Next]_vars => OffRuns'
  <1> SUFFICES ASSUME Typed, OffRuns, [Next]_vars PROVE OffRuns'
    OBVIOUS
  <1>1. RowsStay /\ (Stays \/ Boot \/ Exit \/ Crash) /\ off \in SUBSET Runs
    BY RowsKeep, ProcessStays DEF Typed
  <1>2. CASE Boot
    BY <1>2 DEF Boot, OffRuns
  <1>3. CASE off' = off
    BY <1>1, <1>3 DEF RowsStay, OffRuns, Typed
  <1> QED BY <1>1, <1>2, <1>3 DEF Stays, Exit, Crash, Die

\* The inductive invariant.
Inductive == Typed /\ Commands /\ Owners

\* The inductive invariant, at first, ...
LEMMA InitInductive == Init => Inductive
  <1> SUFFICES ASSUME Init PROVE Inductive
    OBVIOUS
  <1>1. Typed /\ Commands
    BY InitTyped, InitCommands
  <1>2. OneSlot /\ Building /\ OffRuns
    BY DEF Init, OneSlot, Occupies, Building, OffRuns, Down
  <1>3. ASSUME NEW r \in Runs PROVE Owned(r)
    <2>1. session[r] = NoSession
      BY DEF Init
    <2> QED BY <2>1 DEF Owned, Busy, Alive, NoSession
  <1> QED BY <1>1, <1>2, <1>3 DEF Inductive, Owners

\* ... after every step, ...
LEMMA NextInductive == Inductive /\ [Next]_vars => Inductive'
  BY NextTyped, NextCommands, NextOneSlot, NextOwned, NextBuilding, NextOffRuns
     DEF Inductive, Owners

\* ... and so always.
LEMMA InductiveAlways == Spec => []Inductive
  BY InitInductive, NextInductive, PTL DEF Spec

\* What acts is busy, and what is busy holds the slot.
LEMMA InductiveHolds == Inductive => SlotInv
  <1> SUFFICES ASSUME Inductive PROVE SlotInv
    OBVIOUS
  <1>1. TypeOK
    BY TypedType DEF Inductive
  <1>2. ASSUME NEW r \in Runs, Acting(r)
        PROVE  /\ row[r].exists /\ row[r].ended = "no"
               /\ row[r].env = worker.env /\ r \notin off
    BY <1>2 DEF Inductive, Owners, Owned, Busy, Acting, Alive
  <1>3. OneRunActs
    BY <1>2 DEF OneRunActs, Inductive, Owners, OneSlot, Occupies
  <1> QED
    BY <1>1, <1>2, <1>3 DEF SlotInv, ActingHoldsSlot, ActsInItsEnv, OffStaysOff, TypeOK

\* The account is traded by one run: it holds the slot, trades in the
\* environment it was started in, and nobody had switched it off when the
\* worker came up.  For every number of runs, environments and stop requests,
\* with commands lost, delivered twice or kept over a restart, outages of
\* Redis, failing writes, shutdowns and crashes (start_strategy's
\* _occupying_run; WorkerSession's drain before it gives the slot up).
THEOREM OneRunTrades == Spec => []SlotInv
  BY InductiveAlways, InductiveHolds, PTL

\* A run that is on goes off for one of three reasons.
LEMMA OffForAReason ==
    ASSUME Inductive, [Next]_vars, NEW r \in Runs, row[r].active, ~row'[r].active
    PROVE  \/ count'.stops[r] > 0
           \/ worker.job = [kind |-> "start", run |-> r]
           \/ session[r].thread \in {"failed", "release"} /\ ~session[r].started
  <1>1. Recorded(r)
    BY RowSteps DEF Inductive, RowStep, Same, Inserted
  <1>2. Owned(r) /\ session[r] \in Session
    BY DEF Inductive, Owners, Typed, SessionT
  <1>3. CASE worker.pc \in {"refuse", "build"} /\ worker.job.run = r
    <2>1. worker.job.kind = "start" /\ worker.job \in Command
      BY <1>3 DEF Inductive, Owners, Building, Commands, Told
    <2> QED BY <1>3, <2>1 DEF Command
  <1>4. CASE worker.pc = "handle" /\ worker.job.kind = "stop" /\ worker.job.run = r
    BY <1>4 DEF Inductive, Commands, Told
  <1>5. CASE /\ session[r].thread = "failed" \/ (session[r].thread = "running" /\ session[r].stop)
             /\ session[r].deactivate
    BY <1>2, <1>5 DEF Owned, Alive
  <1>6. CASE session[r].thread = "release" /\ session[r].deactivate
    BY <1>2, <1>6 DEF Owned, Alive
  <1> QED BY <1>1, <1>3, <1>4, <1>5, <1>6 DEF Recorded

\* A shutdown switches no run off, whatever else is stopping: a run goes off
\* by a stop request, in the handling of its start, or because it never came
\* up (WorkerSession's _deactivate_on_exit; "would silently switch every
\* running strategy off on every deploy").
THEOREM DeployKeepsItsRuns == Spec => DeployKeepsRuns
  <1>1. Inductive /\ [Next]_vars =>
          [\A r \in Runs : row[r].active /\ ~row'[r].active =>
            \/ count'.stops[r] > 0
            \/ worker.job = [kind |-> "start", run |-> r]
            \/ session[r].thread \in {"failed", "release"} /\ ~session[r].started]_vars
    BY OffForAReason
  <1> QED BY <1>1, InductiveAlways, PTL DEF Spec, DeployKeepsRuns
=============================================================================
