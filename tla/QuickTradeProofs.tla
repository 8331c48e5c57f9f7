--------------------------- MODULE QuickTradeProofs ---------------------------
(***************************************************************************)
(* What QuickTrade promises for every number of requests, keys, orders,     *)
(* faults and crashes, proved.                                              *)
(***************************************************************************)
EXTENDS QuickTrade, FiniteSetTheorems, TLAPS

(***************************************************************************)
(* The queue of the rows, and a write to a row.                             *)
(***************************************************************************)

\* A row stands in the queue once.
Queue == \A i, j \in 1..Len(queue) : queue[i] = queue[j] => i = j

\* Taking a row out of the queue leaves the others, each once.
LEMMA DropKeeps ==
    ASSUME NEW S, queue \in Seq(S), Queue, NEW k
    PROVE  /\ Dropped(k) \in Seq(S \ {k})
           /\ \A i, j \in 1..Len(Dropped(k)) : Dropped(k)[i] = Dropped(k)[j] => i = j
  <1>1. CASE ~Queued(k)
    <2>1. queue \in Seq(S \ {k})
      <3>1. \A i \in 1..Len(queue) : queue[i] \in S \ {k}
        BY <1>1 DEF Queued
      <3> QED BY <3>1
    <2> QED BY <1>1, <2>1 DEF Dropped, Queue
  <1>2. CASE Queued(k)
    <2> DEFINE p == At(k)
               d == Dropped(k)
    <2>1. p \in 1..Len(queue) /\ queue[p] = k
      BY <1>2 DEF Queued, At
    <2>2. d = RemoveAt(queue, p)
      BY <1>2 DEF Dropped
    <2> HIDE DEF p, d
    <2>3. /\ Len(d) = Len(queue) - 1
          /\ \A i \in 1..Len(queue) - 1 : d[i] = IF i < p THEN queue[i] ELSE queue[i + 1]
          /\ d \in Seq(S)
      <3> DEFINE a == SubSeq(queue, 1, p - 1)
                 b == SubSeq(queue, p + 1, Len(queue))
      <3>1. a \in Seq(S) /\ Len(a) = p - 1 /\ \A i \in 1..p - 1 : a[i] = queue[i]
        BY <2>1
      <3>2. /\ b \in Seq(S) /\ Len(b) = Len(queue) - p
            /\ \A i \in 1..Len(queue) - p : b[i] = queue[p + i]
        BY <2>1
      <3>3. d = a \o b
        BY <2>2 DEF RemoveAt
      <3> HIDE DEF a, b
      <3>4. d \in Seq(S) /\ Len(d) = Len(queue) - 1
        BY <2>1, <3>1, <3>2, <3>3
      <3>5. ASSUME NEW i \in 1..Len(queue) - 1, i < p PROVE d[i] = queue[i]
        BY <2>1, <3>1, <3>2, <3>3, <3>5
      <3>6. ASSUME NEW i \in 1..Len(queue) - 1, ~(i < p) PROVE d[i] = queue[i + 1]
        <4>1. d[i] = b[i - (p - 1)] /\ i - (p - 1) \in 1..Len(queue) - p
          BY <2>1, <3>1, <3>2, <3>3, <3>6
        <4> QED BY <2>1, <3>2, <4>1
      <3> QED BY <3>4, <3>5, <3>6
    <2>4. \A i \in 1..Len(d) : d[i] \in S \ {k}
      BY <2>1, <2>3 DEF Queue
    <2>5. d \in Seq(S \ {k})
      BY <2>3, <2>4
    <2>6. ASSUME NEW i \in 1..Len(d), NEW j \in 1..Len(d), d[i] = d[j] PROVE i = j
      <3>1. PICK x \in 1..Len(queue) : d[i] = queue[x] /\ x = IF i < p THEN i ELSE i + 1
        BY <2>1, <2>3
      <3>2. PICK y \in 1..Len(queue) : d[j] = queue[y] /\ y = IF j < p THEN j ELSE j + 1
        BY <2>1, <2>3
      <3>3. x = y
        BY <2>6, <3>1, <3>2 DEF Queue
      <3> QED BY <2>1, <2>3, <3>1, <3>2, <3>3
    <2> QED BY <2>5, <2>6 DEF d
  <1> QED BY <1>1, <1>2

Reserved == {k \in Keys : row[k].status = "reserved"}

\* A write changes one row, as it says but for the age of a settled one, and
\* keeps the queue the queue of the reserved rows.
LEMMA Written ==
    ASSUME row \in [Keys -> Row], queue \in Seq(Reserved), Queue,
           NEW k \in Keys, NEW new \in Row, Write(k, new)
    PROVE  /\ row' \in [Keys -> Row]
           /\ \A x \in Keys : x # k => row'[x] = row[x]
           /\ row'[k].status = new.status /\ row'[k].shape = new.shape
           /\ row'[k].odno = new.odno /\ row'[k].error = new.error
           /\ new.status = "reserved" => row'[k].age = new.age
           /\ queue' \in Seq(Reserved') /\ Queue'
  <1>1. /\ row' \in [Keys -> Row]
        /\ \A x \in Keys : x # k => row'[x] = row[x]
        /\ row'[k].status = new.status /\ row'[k].shape = new.shape
        /\ row'[k].odno = new.odno /\ row'[k].error = new.error
        /\ new.status = "reserved" => row'[k].age = new.age
    BY DEF Write, Row
  <1>2. /\ Dropped(k) \in Seq(Reserved \ {k})
        /\ \A i, j \in 1..Len(Dropped(k)) : Dropped(k)[i] = Dropped(k)[j] => i = j
    BY DropKeeps
  <1>3. Reserved \ {k} \subseteq Reserved'
    BY <1>1 DEF Reserved
  <1>4. Dropped(k) \in Seq(Reserved')
    BY <1>2, <1>3
  <1>5. CASE new.status = "reserved"
    <2> DEFINE d == Dropped(k)
    <2>1. queue' = Append(d, k)
      BY <1>5 DEF Write, Touched
    <2>2. k \in Reserved'
      BY <1>1, <1>5 DEF Reserved
    <2>3. \A i \in 1..Len(d) : d[i] # k
      BY <1>2
    <2> HIDE DEF d
    <2> QED BY <1>1, <1>2, <1>4, <2>1, <2>2, <2>3 DEF d, Queue
  <1>6. CASE new.status # "reserved"
    BY <1>1, <1>2, <1>4, <1>6 DEF Write, Queue
  <1> QED BY <1>1, <1>5, <1>6

(***************************************************************************)
(* Types.                                                                   *)
(***************************************************************************)

\* The state without the queue's order.
Typed == TypeOK /\ Queue

Flying(r) == req[r].pc \in {"gate", "send", "accepted", "refused", "unknown"}

\* A request on its way has a key and a shape; one that reserved has its row.
Claims ==
    /\ \A r \in Requests : req[r].pc \in {"guard", "reserve"} \/ Flying(r) =>
          req[r].key \in Keys /\ req[r].shape \in Shapes
    /\ \A r \in Requests : Flying(r) => Exists(req[r].key)
    /\ \A q, r \in Requests : Flying(q) /\ Flying(r) /\ req[q].key = req[r].key => q = r

\* The sweep is at the head of its window, whose row it has found before.
AtHead ==
    /\ sweep.pc # "idle" => sweep.todo # <<>>
    /\ sweep.pc \in {"settle", "stamp"} =>
          Head(sweep.todo) \in Keys /\ Exists(Head(sweep.todo))

Sound == Typed /\ Claims /\ AtHead

LEMMA InitSound == Init => Sound
  <1> SUFFICES ASSUME Init PROVE Sound
    OBVIOUS
  <1>1. row \in [Keys -> Row]
    BY DEF Init, NoRow, Row, Status, Error
  <1>2. req \in [Requests -> Request]
    BY DEF Init, Idle, Request
  <1>3. queue \in Seq({k \in Keys : row[k].status = "reserved"}) /\ Queue
    BY DEF Init, Queue
  <1>4. TypeOK
    BY <1>1, <1>2, <1>3, BoundAssumption DEF Init, TypeOK
  <1>5. Claims /\ AtHead
    BY DEF Init, Idle, Claims, AtHead, Flying
  <1> QED BY <1>3, <1>4, <1>5 DEF Sound, Typed

\* What is left of the window when the sweep goes on.
LEMMA GoesOn ==
    ASSUME Sound, sweep.pc # "idle", sweep' = Next1
    PROVE  /\ sweep' \in [pc : {"idle", "claim", "settle", "stamp"}, todo : Seq(Keys),
                          found : {"match", "absent", "skip"}, odno : Nat]
           /\ sweep'.pc \in {"idle", "claim"}
           /\ sweep'.pc = "claim" => sweep'.todo # <<>>
           /\ sweep'.todo = Tail(sweep.todo)
  <1>1. sweep.todo \in Seq(Keys) /\ sweep.todo # <<>>
    BY DEF Sound, Typed, TypeOK, AtHead
  <1>2. Tail(sweep.todo) \in Seq(Keys) /\ Len(Tail(sweep.todo)) = Len(sweep.todo) - 1
    BY <1>1
  <1>3. Len(sweep.todo) > 1 => Tail(sweep.todo) # <<>>
    BY <1>1, <1>2
  <1> HIDE DEF Sound
  <1> QED BY <1>1, <1>2, <1>3 DEF Next1

\* What a write leaves of the rows, their types and their queue.
RowsTyped == row \in [Keys -> Row] /\ queue \in Seq(Reserved) /\ Queue

RowBecomes(k, status, shape, odno, error) ==
    /\ RowsTyped'
    /\ \A x \in Keys : x # k => row'[x] = row[x]
    /\ row'[k].status = status /\ row'[k].shape = shape
    /\ row'[k].odno = odno /\ row'[k].error = error

LEMMA SoundRows == Sound => RowsTyped
  BY DEF Sound, Typed, TypeOK, RowsTyped, Reserved

\* A request goes on as the one it was.
GoesTo(r, pc) ==
    /\ req' \in [Requests -> Request]
    /\ req'[r].pc = pc /\ req'[r].key = req[r].key /\ req'[r].shape = req[r].shape
    /\ req'[r].replay = req[r].replay /\ req'[r].answer = req[r].answer
    /\ \A q \in Requests : q # r => req'[q] = req[q]

LEMMA RequestGoesOn ==
    ASSUME Sound, NEW r \in Requests, Guard(r) \/ Reserve(r) \/ Gate(r) \/ Send(r)
    PROVE  /\ req' = [req EXCEPT ![r].pc = "reserve", ![r].op = "place"] => GoesTo(r, "reserve")
           /\ req' = [req EXCEPT ![r].pc = "gate"] => GoesTo(r, "gate")
           /\ req' = [req EXCEPT ![r].pc = "send"] => GoesTo(r, "send")
           /\ req' = [req EXCEPT ![r].pc = "refused"] => GoesTo(r, "refused")
           /\ req' = [req EXCEPT ![r].pc = "unknown"] => GoesTo(r, "unknown")
           /\ req' = [req EXCEPT ![r].pc = "accepted", ![r].odno = Len(broker) + 1] =>
                 GoesTo(r, "accepted") /\ req'[r].odno = Len(broker) + 1
  <1>1. req \in [Requests -> Request] /\ req[r] \in Request /\ Len(broker) + 1 \in Nat
    BY DEF Sound, Typed, TypeOK
  <1>2. ASSUME NEW e \in Request, req' = [req EXCEPT ![r] = e], e.key = req[r].key,
               e.shape = req[r].shape, e.replay = req[r].replay, e.answer = req[r].answer
        PROVE  GoesTo(r, e.pc) /\ req'[r].odno = e.odno
    BY <1>1, <1>2 DEF GoesTo
  <1>3. ASSUME NEW pc \in {"gate", "send", "refused", "unknown"},
               req' = [req EXCEPT ![r].pc = pc]
        PROVE  GoesTo(r, pc)
    <2> DEFINE e == [req[r] EXCEPT !.pc = pc]
    <2>1. /\ e \in Request /\ e.pc = pc /\ e.key = req[r].key /\ e.shape = req[r].shape
          /\ e.replay = req[r].replay /\ e.answer = req[r].answer
      BY <1>1 DEF Request
    <2>2. req' = [req EXCEPT ![r] = e]
      BY <1>1, <1>3
    <2> HIDE DEF e
    <2> QED BY <1>2, <2>1, <2>2
  <1>4. ASSUME req' = [req EXCEPT ![r].pc = "reserve", ![r].op = "place"]
        PROVE  GoesTo(r, "reserve")
    <2> DEFINE e == [req[r] EXCEPT !.pc = "reserve", !.op = "place"]
    <2>1. /\ e \in Request /\ e.pc = "reserve" /\ e.key = req[r].key /\ e.shape = req[r].shape
          /\ e.replay = req[r].replay /\ e.answer = req[r].answer
      BY <1>1 DEF Request
    <2>2. req' = [req EXCEPT ![r] = e]
      BY <1>1, <1>4
    <2> HIDE DEF e
    <2> QED BY <1>2, <2>1, <2>2
  <1>5. ASSUME req' = [req EXCEPT ![r].pc = "accepted", ![r].odno = Len(broker) + 1]
        PROVE  GoesTo(r, "accepted") /\ req'[r].odno = Len(broker) + 1
    <2> DEFINE e == [req[r] EXCEPT !.pc = "accepted", !.odno = Len(broker) + 1]
    <2>1. /\ e \in Request /\ e.pc = "accepted" /\ e.key = req[r].key /\ e.shape = req[r].shape
          /\ e.replay = req[r].replay /\ e.answer = req[r].answer /\ e.odno = Len(broker) + 1
      BY <1>1 DEF Request
    <2>2. req' = [req EXCEPT ![r] = e]
      BY <1>1, <1>5
    <2> HIDE DEF e
    <2> QED BY <1>2, <2>1, <2>2
  <1> QED BY <1>3, <1>4, <1>5

\* An answer ends the request and nothing else.
Answered(r) ==
    /\ req' \in [Requests -> Request]
    /\ req'[r].pc = "done" /\ req'[r].replay = req[r].replay
    /\ \A q \in Requests : q # r => req'[q] = req[q]

LEMMA AnswerEnds ==
    ASSUME Sound, NEW r \in Requests, NEW a \in {"turned away", "row", "error"}, Answer(r, a)
    PROVE  Answered(r) /\ req'[r].answer = a
  BY DEF Sound, Typed, TypeOK, Answer, Answered, Idle, Request

\* A request comes in for an order that may be there, or is answered at once.
Arrived(r) ==
    /\ req' \in [Requests -> Request]
    /\ req'[r].pc = "guard" /\ req'[r].key \in Keys /\ req'[r].shape \in Shapes
    /\ req'[r].answer = "none"
    /\ req'[r].replay => req'[r].op = "place" /\ Exists(req'[r].key)
    /\ \A q \in Requests : q # r => req'[q] = req[q]

LEMMA Arrives ==
    ASSUME Sound, NEW r \in Requests, Arrive(r)
    PROVE  /\ Arrived(r) \/ (Answered(r) /\ req'[r].answer # "turned away")
           /\ UNCHANGED <<row, queue, lock, notes, broker, sweep, faults, crashes>>
  <1>1. PICK s \in Shapes, op \in {"place", "close"} :
          \E k \in Chosen \cup ({s} \X Buckets) :
          LET same == Exists(k) /\ row[k].shape = s
          IN IF op = "close" /\ k \in Chosen /\ Exists(k)
             THEN Answer(r, IF same THEN "row" ELSE "error")
             ELSE req' = [req EXCEPT ![r] =
                    [Idle EXCEPT !.pc = "guard", !.key = k, !.shape = s, !.op = op,
                                 !.replay = same /\ op = "place"]]
    BY DEF Arrive
  <1>2. PICK k \in Chosen \cup ({s} \X Buckets) :
          LET same == Exists(k) /\ row[k].shape = s
          IN IF op = "close" /\ k \in Chosen /\ Exists(k)
             THEN Answer(r, IF same THEN "row" ELSE "error")
             ELSE req' = [req EXCEPT ![r] =
                    [Idle EXCEPT !.pc = "guard", !.key = k, !.shape = s, !.op = op,
                                 !.replay = same /\ op = "place"]]
    BY <1>1
  <1> DEFINE replay == Exists(k) /\ row[k].shape = s /\ op = "place"
             e == [Idle EXCEPT !.pc = "guard", !.key = k, !.shape = s, !.op = op,
                               !.replay = replay]
  <1>3. ASSUME req' = [req EXCEPT ![r] = e] PROVE Arrived(r)
    <2>1. k \in Keys /\ replay \in BOOLEAN
      BY DEF Keys
    <2>2. replay => op = "place" /\ Exists(k)
      OBVIOUS
    <2> HIDE DEF replay
    <2>3. /\ e \in Request /\ e.pc = "guard" /\ e.key = k /\ e.shape = s /\ e.op = op
          /\ e.answer = "none" /\ e.replay = replay
      BY <2>1 DEF Idle, Request
    <2> HIDE DEF e
    <2>4. req \in [Requests -> Request]
      BY DEF Sound, Typed, TypeOK
    <2>5. /\ req' \in [Requests -> Request] /\ req'[r] = e
          /\ \A q \in Requests : q # r => req'[q] = req[q]
      BY <1>3, <2>3, <2>4
    <2> QED BY <2>1, <2>2, <2>3, <2>5 DEF Arrived
  <1>4. ASSUME NEW a \in {"row", "error"}, Answer(r, a)
        PROVE  Answered(r) /\ req'[r].answer # "turned away"
    BY <1>4, AnswerEnds
  <1>5. Arrived(r) \/ (Answered(r) /\ req'[r].answer # "turned away")
    BY <1>2, <1>3, <1>4
  <1> QED BY <1>5 DEF Arrive

\* What a request writes at its end.
LEMMA Recorded ==
    ASSUME Sound, NEW r \in Requests, req[r].key \in Keys,
           NEW status \in Status, NEW odno \in Nat, NEW error \in Error,
           Record(r, status, odno, error)
    PROVE  /\ Answered(r) /\ req'[r].answer # "turned away"
           /\ faults' \in 0..MaxFaults
           /\ \/ /\ lock[req[r].key] = "free"
                 /\ RowBecomes(req[r].key, status, row[req[r].key].shape, odno, error)
                 /\ status = "reserved" => row'[req[r].key].age = row[req[r].key].age
              \/ UNCHANGED <<row, queue>>
  <1> DEFINE k == req[r].key
             new == [row[k] EXCEPT !.status = status, !.odno = odno, !.error = error]
  <1>1. RowsTyped /\ faults \in 0..MaxFaults /\ MaxFaults \in Nat
    BY SoundRows, BoundAssumption DEF Sound, Typed, TypeOK
  <1>2. Answered(r) /\ req'[r].answer # "turned away"
    BY AnswerEnds DEF Record
  <1>3. CASE lock[k] = "free" /\ Write(k, new) /\ UNCHANGED faults
    <2>1. /\ new \in Row
          /\ new.status = status /\ new.shape = row[k].shape /\ new.odno = odno
          /\ new.error = error /\ new.age = row[k].age
      BY <1>1 DEF RowsTyped, Row
    <2> HIDE DEF new
    <2>2. /\ row' \in [Keys -> Row]
          /\ \A x \in Keys : x # k => row'[x] = row[x]
          /\ row'[k].status = new.status /\ row'[k].shape = new.shape
          /\ row'[k].odno = new.odno /\ row'[k].error = new.error
          /\ new.status = "reserved" => row'[k].age = new.age
          /\ queue' \in Seq(Reserved') /\ Queue'
      BY <1>1, <1>3, <2>1, Written DEF RowsTyped
    <2> QED BY <1>1, <1>2, <1>3, <2>1, <2>2 DEF RowBecomes, RowsTyped
  <1>4. CASE faults < MaxFaults /\ faults' = faults + 1 /\ UNCHANGED <<row, queue>>
    <2>1. faults' \in 0..MaxFaults
      BY <1>1, <1>4
    <2> QED BY <1>2, <1>4, <2>1
  <1> QED BY <1>3, <1>4 DEF Record

\* A row that is there stays, for the order it is about.
RowsStay == \A x \in Keys : Exists(x) => Exists(x)' /\ row'[x].shape = row[x].shape

\* Rows that are there stay, and only the step of their request takes others
\* on its way.
LEMMA AnsweredClaims ==
    ASSUME Sound, NEW r \in Requests, Answered(r),
           RowsStay
    PROVE  Claims'
  BY DEF Sound, Claims, Answered, Flying, Exists, RowsStay

LEMMA RequestSound ==
    ASSUME Sound, NEW r \in Requests, Arrive(r) \/ RequestStep(r)
    PROVE  Sound' /\ RowsStay
  <1>1. /\ RowsTyped /\ TypeOK /\ Queue /\ Claims /\ AtHead
    BY SoundRows DEF Sound, Typed
  <1>2. ASSUME RowsTyped', req' \in [Requests -> Request], faults' \in 0..MaxFaults,
               broker' = broker \/ Send(r), UNCHANGED <<lock, notes, sweep, crashes>>
        PROVE  TypeOK' /\ Queue'
    <2>1. broker' \in Seq([shape : Shapes, by : Keys \cup {None}, state : {"live", "gone"}])
      <3>1. CASE Send(r)
        <4> DEFINE new == [shape |-> req[r].shape, by |-> req[r].key, state |-> "live"]
        <4>1. new \in [shape : Shapes, by : Keys \cup {None}, state : {"live", "gone"}]
          BY <1>1, <3>1 DEF Send, Claims, Flying
        <4>2. broker' = broker \/ broker' = Append(broker, new)
          BY <3>1 DEF Send
        <4> DEFINE Order == [shape : Shapes, by : Keys \cup {None}, state : {"live", "gone"}]
        <4>3. broker \in Seq(Order) /\ new \in Order
          BY <1>1, <4>1 DEF TypeOK
        <4> HIDE DEF new, Order
        <4>4. broker' \in Seq(Order)
          BY <4>2, <4>3
        <4> QED BY <4>4 DEF Order
      <3> QED BY <1>1, <1>2, <3>1 DEF TypeOK
    <2> QED BY <1>1, <1>2, <2>1 DEF TypeOK, RowsTyped, Reserved
  <1>3. ASSUME UNCHANGED <<row, queue>> PROVE RowsTyped' /\ RowsStay
    BY <1>1, <1>3 DEF RowsTyped, Reserved, Queue, Exists, RowsStay
  <1>4. ASSUME RowsStay, UNCHANGED sweep PROVE AtHead'
    BY <1>1, <1>4 DEF AtHead, Exists, RowsStay
  <1>5. CASE Arrive(r)
    <2>1. /\ req' \in [Requests -> Request]
          /\ req'[r].pc \in {"guard", "done"}
          /\ req'[r].pc = "guard" => req'[r].key \in Keys /\ req'[r].shape \in Shapes
          /\ \A q \in Requests : q # r => req'[q] = req[q]
      BY <1>5, Arrives DEF Arrived, Answered
    <2>2. UNCHANGED row
      BY <1>5 DEF Arrive
    <2>3. Claims'
      BY <1>1, <2>1, <2>2 DEF Claims, Flying, Exists, RowsStay
    <2> QED BY <1>1, <1>2, <1>3, <1>4, <1>5, <2>1, <2>3 DEF Arrive, Sound, Typed, TypeOK
  <1>6. CASE Guard(r)
    <2>1. CASE req' = [req EXCEPT ![r].pc = "reserve", ![r].op = "place"]
      <3>1. GoesTo(r, "reserve")
        BY <1>6, <2>1, RequestGoesOn
      <3>2. UNCHANGED row /\ req[r].pc = "guard"
        BY <1>6 DEF Guard
      <3>3. Claims'
        BY <1>1, <3>1, <3>2 DEF GoesTo, Claims, Flying, Exists, RowsStay
      <3> QED BY <1>1, <1>2, <1>3, <1>4, <1>6, <3>1, <3>3 DEF Guard, GoesTo, Sound, Typed, TypeOK
    <2>2. CASE Answer(r, "turned away")
      BY <1>1, <1>2, <1>3, <1>4, <1>6, <2>2, AnswerEnds, AnsweredClaims
         DEF Guard, Answered, Sound, Typed, TypeOK
    <2> QED BY <1>6, <2>1, <2>2 DEF Guard
  <1>7. CASE Reserve(r)
    <2> DEFINE k == req[r].key
               new == [NoRow EXCEPT !.status = "reserved", !.shape = req[r].shape]
    <2>1. k \in Keys /\ req[r].shape \in Shapes
      BY <1>1, <1>7 DEF Reserve, Claims
    <2>2. CASE ~Exists(k) /\ Write(k, new) /\ req' = [req EXCEPT ![r].pc = "gate"]
      <3>1. new \in Row /\ new.status = "reserved"
        BY <2>1 DEF NoRow, Row, Status, Error
      <3> HIDE DEF new
      <3>2. /\ RowsTyped' /\ row'[k].status = "reserved"
            /\ \A x \in Keys : x # k => row'[x] = row[x]
        BY <1>1, <2>1, <2>2, <3>1, Written DEF RowsTyped
      <3>3. RowsStay
        BY <2>2, <3>2 DEF Exists, RowsStay
      <3>4. GoesTo(r, "gate")
        BY <1>7, <2>2, RequestGoesOn
      <3>5. Claims'
        BY <1>1, <1>7, <2>1, <2>2, <3>2, <3>3, <3>4 DEF Reserve, GoesTo, Claims, Flying, Exists, RowsStay
      <3> QED BY <1>1, <1>2, <1>4, <1>7, <3>2, <3>3, <3>4, <3>5
              DEF Reserve, GoesTo, Sound, Typed, TypeOK
    <2>3. CASE /\ Answer(r, IF row[k].shape = req[r].shape THEN "row" ELSE "error")
               /\ UNCHANGED <<row, queue>>
      <3>1. Answered(r)
        BY <2>3, AnswerEnds
      <3> QED BY <1>1, <1>2, <1>3, <1>4, <1>7, <2>3, <3>1, AnsweredClaims
              DEF Reserve, Answered, Sound, Typed, TypeOK
    <2> QED BY <1>7, <2>2, <2>3 DEF Reserve
  <1>8. ASSUME NEW status \in Status \ {"none"}, NEW odno \in Nat, NEW error \in Error,
               Flying(r), Record(r, status, odno, error),
               UNCHANGED <<lock, notes, broker, sweep, crashes>>
        PROVE  Sound' /\ RowsStay
    <2>1. req[r].key \in Keys
      BY <1>1, <1>8 DEF Claims
    <2>2. /\ Answered(r) /\ faults' \in 0..MaxFaults
          /\ \/ RowBecomes(req[r].key, status, row[req[r].key].shape, odno, error)
             \/ UNCHANGED <<row, queue>>
      BY <1>8, <2>1, Recorded
    <2>3. RowsTyped' /\ RowsStay
      BY <1>3, <2>2 DEF RowBecomes, Exists, RowsStay
    <2> QED BY <1>1, <1>2, <1>4, <1>8, <2>2, <2>3, AnsweredClaims DEF Answered, Sound, Typed
  <1>9. CASE Gate(r)
    <2>1. CASE req' = [req EXCEPT ![r].pc = "send"] /\ UNCHANGED <<row, queue, faults>>
      <3>1. GoesTo(r, "send")
        BY <1>9, <2>1, RequestGoesOn
      <3>2. Claims'
        BY <1>1, <1>3, <1>9, <2>1, <3>1 DEF Gate, GoesTo, Claims, Flying, Exists, RowsStay
      <3> QED BY <1>1, <1>2, <1>3, <1>4, <1>9, <2>1, <3>1, <3>2
              DEF Gate, GoesTo, Sound, Typed, TypeOK
    <2>2. CASE Record(r, "blocked", 0, "why")
      BY <1>8, <1>9, <2>2 DEF Gate, Flying, Status, Error
    <2> QED BY <1>9, <2>1, <2>2 DEF Gate
  <1>10. CASE Send(r)
    <2>1. /\ req' \in [Requests -> Request]
          /\ req'[r].pc \in {"refused", "unknown", "accepted"}
          /\ req'[r].key = req[r].key /\ req'[r].shape = req[r].shape
          /\ \A q \in Requests : q # r => req'[q] = req[q]
      BY <1>10, RequestGoesOn DEF Send, GoesTo
    <2>2. Claims'
      BY <1>1, <1>3, <1>10, <2>1 DEF Send, Claims, Flying, Exists, RowsStay
    <2> QED BY <1>1, <1>2, <1>3, <1>4, <1>10, <2>1, <2>2 DEF Send, Sound, Typed, TypeOK
  <1>11. CASE Finish(r)
    <2>1. ASSUME Flying(r)
          PROVE  /\ row[req[r].key].status \in Status \ {"none"}
                 /\ row[req[r].key].odno \in Nat /\ row[req[r].key].error \in Error
                 /\ req[r].odno \in Nat
      BY <1>1, <2>1 DEF Claims, Exists, RowsStay, TypeOK, Row, Request
    <2>2. Flying(r)
      BY <1>11 DEF Finish, Accepted, Refused, Unknown, Flying
    <2> QED BY <1>8, <1>11, <2>1, <2>2
            DEF Finish, Accepted, Refused, Unknown, Status, Error
  <1> QED BY <1>5, <1>6, <1>7, <1>9, <1>10, <1>11 DEF RequestStep

Order == [shape : Shapes, by : Keys \cup {None}, state : {"live", "gone"}]

\* The broker's orders stay the orders they are, and one that is gone stays so.
LEMMA OrderGoes ==
    ASSUME broker \in Seq(Order), NEW n \in Nat,
           broker' = [broker EXCEPT ![n].state = "gone"]
    PROVE  /\ broker' \in Seq(Order) /\ Len(broker') = Len(broker)
           /\ \A i \in 1..Len(broker) :
                 /\ broker'[i].shape = broker[i].shape /\ broker'[i].by = broker[i].by
                 /\ broker'[i].state = "live" => broker[i].state = "live" /\ i # n
  <1>1. /\ DOMAIN broker' = 1..Len(broker) /\ Len(broker) \in Nat
        /\ \A i \in 1..Len(broker) :
              broker'[i] = IF i = n THEN [broker[i] EXCEPT !.state = "gone"] ELSE broker[i]
    OBVIOUS
  <1>2. ASSUME NEW i \in 1..Len(broker)
        PROVE  /\ broker'[i] \in Order
               /\ broker'[i].shape = broker[i].shape /\ broker'[i].by = broker[i].by
               /\ broker'[i].state = "live" => broker[i].state = "live" /\ i # n
    <2>1. broker[i] \in Order
      OBVIOUS
    <2> QED BY <1>1, <2>1 DEF Order
  <1>3. broker' \in [1..Len(broker) -> Order]
    BY <1>1, <1>2
  <1>4. broker' \in Seq(Order) /\ Len(broker') = Len(broker)
    BY <1>1, <1>3
  <1> QED BY <1>2, <1>4

LEMMA CancelSound ==
    ASSUME Sound, NEW k \in Keys, Cancel(k)
    PROVE  Sound' /\ RowsStay
  <1>1. /\ RowsTyped /\ TypeOK /\ Queue /\ Claims /\ AtHead /\ broker \in Seq(Order)
        /\ lock \in [Keys -> {"free", "sweep", "cancel"}] /\ row[k].odno \in Nat
        /\ faults \in 0..MaxFaults /\ MaxFaults \in Nat
    BY SoundRows, BoundAssumption DEF Sound, Typed, TypeOK, Order, Row
  <1>2. ASSUME UNCHANGED <<row, queue>>
        PROVE  RowsTyped' /\ RowsStay
    BY <1>1, <1>2 DEF RowsTyped, Reserved, Queue, Exists, RowsStay
  <1>3. RowsTyped' /\ RowsStay
    <2>1. CASE Write(k, [row[k] EXCEPT !.status = Canceled])
      <3> DEFINE new == [row[k] EXCEPT !.status = Canceled]
      <3>1. new \in Row /\ new.status # "none" /\ new.shape = row[k].shape
        BY <1>1 DEF RowsTyped, Row, Canceled, Status
      <3> HIDE DEF new
      <3>2. /\ RowsTyped' /\ row'[k].status = new.status /\ row'[k].shape = new.shape
            /\ \A x \in Keys : x # k => row'[x] = row[x]
        BY <1>1, <2>1, <3>1, Written DEF RowsTyped, new
      <3> QED BY <3>1, <3>2 DEF Exists, RowsStay
    <2> QED BY <1>2, <2>1 DEF Cancel, CancelBegin, CancelConfirmed, CancelFailed
  <1>4. broker' \in Seq(Order)
    BY <1>1, OrderGoes DEF Cancel, CancelBegin, CancelConfirmed, CancelFailed
  <1>5. /\ lock' \in [Keys -> {"free", "sweep", "cancel"}] /\ faults' \in 0..MaxFaults
        /\ UNCHANGED <<notes, req, sweep, crashes>>
    BY <1>1 DEF Cancel, CancelBegin, CancelConfirmed, CancelFailed
  <1>6. TypeOK' /\ Queue'
    BY <1>1, <1>3, <1>4, <1>5 DEF TypeOK, RowsTyped, Reserved, Order
  <1>7. Claims' /\ AtHead'
    BY <1>1, <1>3, <1>5 DEF Claims, AtHead, Flying, Exists, RowsStay
  <1> QED BY <1>3, <1>6, <1>7 DEF Sound, Typed

\* What a write of the sweep leaves: the row it is at, as it was found or
\* settled.
SweepWrites(k, status, odno, error) ==
    /\ RowBecomes(k, status, row[k].shape, odno, error)
    /\ status = "reserved" => row'[k].age = row[k].age

LEMMA SweepWritten ==
    ASSUME Sound, sweep.pc \in {"settle", "stamp"}, NEW k, k = Head(sweep.todo)
    PROVE  /\ k \in Keys /\ Exists(k)
           /\ Write(k, Settled(k)) /\ sweep.found = "match" =>
                 SweepWrites(k, "submitted", sweep.odno, Cleared(row[k].error))
           /\ Write(k, Settled(k)) /\ sweep.found # "match" =>
                 \E e \in Error : SweepWrites(k, "failed", row[k].odno, e)
           /\ \A raised \in BOOLEAN : Write(k, [row[k] EXCEPT !.error = Stamped(k, raised)]) =>
                 SweepWrites(k, row[k].status, row[k].odno, Stamped(k, raised))
  <1>1. /\ k \in Keys /\ Exists(k) /\ RowsTyped /\ row[k] \in Row /\ sweep.odno \in Nat
    BY SoundRows DEF Sound, Typed, TypeOK, AtHead
  <1>2. ASSUME NEW new \in Row, Write(k, new), new.shape = row[k].shape,
               new.status = "reserved" => new.age = row[k].age
        PROVE  SweepWrites(k, new.status, new.odno, new.error)
    <2>1. /\ row' \in [Keys -> Row]
          /\ \A x \in Keys : x # k => row'[x] = row[x]
          /\ row'[k].status = new.status /\ row'[k].shape = new.shape
          /\ row'[k].odno = new.odno /\ row'[k].error = new.error
          /\ new.status = "reserved" => row'[k].age = new.age
          /\ queue' \in Seq(Reserved') /\ Queue'
      BY <1>1, <1>2, Written DEF RowsTyped
    <2> QED BY <1>2, <2>1 DEF SweepWrites, RowBecomes, RowsTyped
  <1>3. ASSUME Write(k, Settled(k)), sweep.found = "match"
        PROVE  SweepWrites(k, "submitted", sweep.odno, Cleared(row[k].error))
    <2> DEFINE new == Settled(k)
    <2>1. /\ new \in Row /\ new.shape = row[k].shape /\ new.status = "submitted"
          /\ new.odno = sweep.odno /\ new.error = Cleared(row[k].error)
      BY <1>1, <1>3 DEF Settled, Cleared, Row, Status, Error
    <2> HIDE DEF new
    <2>2. SweepWrites(k, new.status, new.odno, new.error)
      BY <1>2, <1>3, <2>1 DEF new
    <2> QED BY <2>1, <2>2
  <1>4. ASSUME Write(k, Settled(k)), sweep.found # "match"
        PROVE  \E e \in Error : SweepWrites(k, "failed", row[k].odno, e)
    <2> DEFINE new == Settled(k)
    <2>1. /\ new \in Row /\ new.shape = row[k].shape /\ new.status = "failed"
          /\ new.odno = row[k].odno
      BY <1>1, <1>4 DEF Settled, Cleared, Row, Status, Error
    <2> HIDE DEF new
    <2>2. SweepWrites(k, new.status, new.odno, new.error)
      BY <1>2, <1>4, <2>1 DEF new
    <2> QED BY <2>1, <2>2 DEF Row
  <1>5. ASSUME NEW raised \in BOOLEAN, Write(k, [row[k] EXCEPT !.error = Stamped(k, raised)])
        PROVE  SweepWrites(k, row[k].status, row[k].odno, Stamped(k, raised))
    <2> DEFINE new == [row[k] EXCEPT !.error = Stamped(k, raised)]
    <2>1. /\ new \in Row /\ new.shape = row[k].shape /\ new.status = row[k].status
          /\ new.odno = row[k].odno /\ new.error = Stamped(k, raised) /\ new.age = row[k].age
      BY <1>1 DEF Stamped, Row, Status, Error
    <2> HIDE DEF new
    <2>2. SweepWrites(k, new.status, new.odno, new.error)
      BY <1>2, <1>5, <2>1 DEF new
    <2> QED BY <2>1, <2>2
  <1> QED BY <1>1, <1>3, <1>4, <1>5

LEMMA SweepSound ==
    ASSUME Sound, SweepStep
    PROVE  Sound' /\ RowsStay
  <1> DEFINE k == Head(sweep.todo)
             Sweep == [pc : {"idle", "claim", "settle", "stamp"}, todo : Seq(Keys),
                       found : {"match", "absent", "skip"}, odno : Nat]
  <1>1. /\ RowsTyped /\ TypeOK /\ Queue /\ Claims /\ AtHead /\ sweep \in Sweep
        /\ lock \in [Keys -> {"free", "sweep", "cancel"}] /\ notes \in [Keys -> Nat]
        /\ faults \in 0..MaxFaults /\ MaxFaults \in Nat
    BY SoundRows, BoundAssumption DEF Sound, Typed, TypeOK
  <1>2. ASSUME UNCHANGED <<row, queue>>
        PROVE  RowsTyped' /\ RowsStay
    BY <1>1, <1>2 DEF RowsTyped, Reserved, Queue, Exists, RowsStay
  <1>3. ASSUME RowsTyped', RowsStay, AtHead', sweep' \in Sweep,
               lock' \in [Keys -> {"free", "sweep", "cancel"}], notes' \in [Keys -> Nat],
               faults' \in 0..MaxFaults, UNCHANGED <<broker, req, crashes>>
        PROVE  Sound'
    BY <1>1, <1>3 DEF Sound, Typed, TypeOK, RowsTyped, Reserved, Claims, Flying, Exists, RowsStay
  <1>4. ASSUME sweep' = Next1, sweep.pc # "idle" PROVE sweep' \in Sweep /\ AtHead'
    BY <1>4, GoesOn DEF AtHead
  <1>5. ASSUME NEW status \in Status \ {"none"}, NEW odno, NEW error,
               sweep.pc \in {"settle", "stamp"}, SweepWrites(k, status, odno, error)
        PROVE  RowsTyped' /\ RowsStay
    BY <1>1, <1>5 DEF SweepWrites, RowBecomes, Exists, RowsStay, AtHead
  <1>6. CASE SweepBegin
    <2>1. PICK w \in Eligible : sweep' = [sweep EXCEPT !.pc = "claim", !.todo = w]
      BY <1>6 DEF SweepBegin
    <2>2. PICK n \in 1..Limit : w \in [1..n -> Due]
      BY <2>1 DEF Eligible
    <2>3. n \in Nat \ {0} /\ w \in Seq(Keys) /\ w # <<>>
      BY <2>2, LimitAssumption DEF Due
    <2>4. sweep' \in Sweep /\ sweep'.pc = "claim" /\ sweep'.todo = w
      BY <1>1, <2>1, <2>3
    <2>5. AtHead'
      BY <2>3, <2>4 DEF AtHead
    <2> QED BY <1>1, <1>2, <1>3, <1>6, <2>4, <2>5 DEF SweepBegin
  <1>7. CASE SweepClaim
    <2>1. CASE k \in Claimable /\ lock' = [lock EXCEPT ![k] = "sweep"]
               /\ \E found \in {"match", "absent", "skip"}, n \in Nat :
                     sweep' = [sweep EXCEPT !.pc = "settle", !.found = found, !.odno = n]
      <3>1. sweep' \in Sweep /\ sweep'.pc = "settle" /\ sweep'.todo = sweep.todo
        BY <1>1, <2>1
      <3>2. k \in Keys /\ Exists(k)
        BY <2>1 DEF Claimable, Exists, RowsStay
      <3>3. AtHead'
        BY <1>1, <1>2, <1>7, <3>1, <3>2 DEF SweepClaim, AtHead, Exists, RowsStay
      <3>4. lock' \in [Keys -> {"free", "sweep", "cancel"}]
        BY <1>1, <2>1
      <3> QED BY <1>1, <1>2, <1>3, <1>7, <3>1, <3>3, <3>4 DEF SweepClaim
    <2>2. CASE sweep' = Next1 /\ UNCHANGED lock
      <3>1. sweep.pc # "idle" /\ UNCHANGED <<row, queue, notes, broker, req, faults, crashes>>
        BY <1>7 DEF SweepClaim
      <3> QED BY <1>1, <1>2, <1>3, <1>4, <2>2, <3>1
    <2>3. \A n \in Candidates(k) : n \in Nat
      BY <1>1 DEF Candidates, Numbers
    <2> QED BY <1>7, <2>1, <2>2, <2>3 DEF SweepClaim
  <1>8. CASE SweepSettle
    <2>1. sweep.pc = "settle" /\ k \in Keys /\ UNCHANGED <<notes, broker, req, crashes>>
      BY <1>1, <1>8 DEF SweepSettle, AtHead
    <2>2. lock' \in [Keys -> {"free", "sweep", "cancel"}]
      BY <1>1, <1>8 DEF SweepSettle
    <2>3. CASE Write(k, Settled(k)) /\ sweep' = Next1 /\ UNCHANGED faults
      <3>1. RowsTyped' /\ RowsStay
        BY <1>5, <2>1, <2>3, SweepWritten DEF Status
      <3> QED BY <1>1, <1>3, <1>4, <2>1, <2>2, <2>3, <3>1
    <2>4. CASE /\ faults < MaxFaults /\ faults' = faults + 1
               /\ sweep' = [sweep EXCEPT !.pc = "stamp"] /\ UNCHANGED <<row, queue>>
      <3>0. faults' \in 0..MaxFaults
        BY <1>1, <2>4
      <3>1. sweep' \in Sweep /\ sweep'.todo = sweep.todo /\ sweep'.pc = "stamp"
        BY <1>1, <2>4
      <3>2. AtHead'
        BY <1>1, <1>2, <2>1, <2>4, <3>1 DEF AtHead, Exists, RowsStay
      <3> QED BY <1>1, <1>2, <1>3, <2>1, <2>2, <2>4, <3>0, <3>1, <3>2
    <2> QED BY <1>8, <2>3, <2>4 DEF SweepSettle
  <1>9. CASE SweepSkip
    <2>1. /\ sweep.pc = "settle" /\ k \in Keys /\ sweep' = Next1
          /\ UNCHANGED <<broker, req, crashes>>
      BY <1>1, <1>9 DEF SweepSkip, AtHead
    <2>2. lock' \in [Keys -> {"free", "sweep", "cancel"}] /\ faults' \in 0..MaxFaults
      <3>1. lock' = [lock EXCEPT ![k] = "free"]
        BY <1>9 DEF SweepSkip
      <3>2. faults' = faults \/ (faults < MaxFaults /\ faults' = faults + 1)
        BY <1>9, Zenon DEF SweepSkip
      <3>3. faults' \in 0..MaxFaults
        BY <1>1, <3>2
      <3> QED BY <1>1, <3>1, <3>3
    <2>4. notes' \in [Keys -> Nat]
      <3>1. ASSUME NEW n \in {0, 1}, notes' = [notes EXCEPT ![k] = @ + n]
            PROVE  notes' \in [Keys -> Nat]
        BY <1>1, <2>1, <3>1
      <3> QED BY <1>1, <1>9, <3>1 DEF SweepSkip
    <2>3. RowsTyped' /\ RowsStay
      <3>1. CASE Write(k, [row[k] EXCEPT !.error = Stamped(k, Raises(k))])
        <4>1. SweepWrites(k, row[k].status, row[k].odno, Stamped(k, Raises(k)))
          BY <2>1, <3>1, SweepWritten DEF Raises
        <4>2. row[k].status \in Status \ {"none"}
          BY <1>1, <2>1 DEF AtHead, Exists, RowsStay, RowsTyped, Row
        <4> QED BY <1>5, <2>1, <4>1, <4>2
      <3> QED BY <1>2, <1>9, <3>1 DEF SweepSkip
    <2> QED BY <1>1, <1>3, <1>4, <2>1, <2>2, <2>3, <2>4
  <1>10. CASE SweepStamp
    <2>1. /\ sweep.pc = "stamp" /\ k \in Keys /\ sweep' = Next1
          /\ UNCHANGED <<lock, notes, broker, req, crashes>>
      BY <1>1, <1>10 DEF SweepStamp, AtHead
    <2>2. faults' \in 0..MaxFaults
      BY <1>1, <1>10 DEF SweepStamp
    <2>3. RowsTyped' /\ RowsStay
      <3>1. CASE Write(k, [row[k] EXCEPT !.error = Stamped(k, FALSE)])
        <4>1. PICK e : SweepWrites(k, row[k].status, row[k].odno, e)
          BY <2>1, <3>1, SweepWritten
        <4>2. row[k].status \in Status \ {"none"}
          BY <1>1, <2>1 DEF AtHead, Exists, RowsStay, RowsTyped, Row
        <4> QED BY <1>5, <2>1, <4>1, <4>2
      <3> QED BY <1>2, <1>10, <3>1 DEF SweepStamp
    <2> QED BY <1>1, <1>3, <1>4, <2>1, <2>2, <2>3
  <1> QED BY <1>6, <1>7, <1>8, <1>9, <1>10 DEF SweepStep

\* A row that is there stays there, and the state stays sound.
LEMMA NextSound ==
    ASSUME Sound, [Next]_vars
    PROVE  Sound' /\ RowsStay
  <1>1. /\ RowsTyped /\ TypeOK /\ Queue /\ Claims /\ AtHead /\ broker \in Seq(Order)
        /\ crashes \in 0..MaxCrashes /\ MaxCrashes \in Nat /\ req \in [Requests -> Request]
    BY SoundRows, BoundAssumption DEF Sound, Typed, TypeOK, Order
  <1>2. ASSUME NEW k \in Keys, Age(k) PROVE Sound' /\ RowsStay
    <2>1. /\ row' \in [Keys -> Row]
          /\ \A x \in Keys : row'[x].status = row[x].status
      BY <1>1, <1>2 DEF Age, RowsTyped, Row
    <2>2. Reserved' = Reserved
      BY <2>1 DEF Reserved
    <2> QED BY <1>1, <1>2, <2>1, <2>2
            DEF Age, RowsTyped, Reserved, Queue, Exists, RowsStay, Sound, Typed, TypeOK, Claims, AtHead, Flying
  <1>3. ASSUME \/ \E n \in Numbers : Fill(n)
               \/ Foreign
               \/ UNCHANGED vars
        PROVE Sound' /\ RowsStay
    <2>1. broker' \in Seq(Order)
      <3>1. ASSUME NEW s \in Shapes,
                   broker' = Append(broker, [shape |-> s, by |-> None, state |-> "gone"])
            PROVE  broker' \in Seq(Order)
        <4>1. [shape |-> s, by |-> None, state |-> "gone"] \in Order
          BY DEF Order
        <4> QED BY <1>1, <3>1, <4>1
      <3>2. ASSUME NEW n \in Numbers, Fill(n) PROVE broker' \in Seq(Order)
        <4>1. n \in Nat
          BY <1>1 DEF Numbers
        <4> QED BY <1>1, <3>2, <4>1, OrderGoes DEF Fill
      <3> QED BY <1>1, <1>3, <3>1, <3>2 DEF Foreign, vars
    <2>2. UNCHANGED <<row, queue, lock, notes, req, sweep, faults, crashes>>
      BY <1>3 DEF Fill, Foreign, vars
    <2> QED BY <1>1, <2>1, <2>2
            DEF Reserved, Queue, Exists, RowsStay, Sound, Typed, TypeOK, Claims, AtHead, Flying, Order
  <1>4. CASE Crash
    <2>1. /\ req' \in [Requests -> Request]
          /\ \A r \in Requests : req'[r].pc \in {"idle", "done"}
      BY <1>1, <1>4 DEF Crash, Idle, Request
    <2>0. crashes' \in 0..MaxCrashes
      <3>1. crashes < MaxCrashes /\ crashes' = crashes + 1
        BY <1>4 DEF Crash
      <3> QED BY <1>1, <3>1
    <2>2. /\ lock' \in [Keys -> {"free", "sweep", "cancel"}]
          /\ sweep' = [pc |-> "idle", todo |-> <<>>, found |-> "skip", odno |-> 0]
          /\ UNCHANGED <<row, queue, notes, broker, faults>>
      BY <1>4 DEF Crash
    <2>3. Claims' /\ AtHead' /\ RowsStay
      BY <2>1, <2>2 DEF Claims, AtHead, Flying, Exists, RowsStay
    <2>4. sweep' \in [pc : {"idle", "claim", "settle", "stamp"}, todo : Seq(Keys),
                      found : {"match", "absent", "skip"}, odno : Nat]
      BY <2>2
    <2> QED BY <1>1, <2>0, <2>1, <2>2, <2>3, <2>4 DEF Queue, Sound, Typed, TypeOK
  <1> QED BY <1>2, <1>3, <1>4, RequestSound, CancelSound, SweepSound DEF Next

\* The endpoint, its rows and the sweep keep their types in every run.
THEOREM TypesHold == Spec => []TypeOK
  <1>1. Init => Sound
    BY InitSound
  <1>2. Sound /\ [Next]_vars => Sound'
    BY NextSound
  <1>3. Sound => TypeOK
    BY DEF Sound, Typed
  <1> QED BY <1>1, <1>2, <1>3, PTL DEF Spec

(***************************************************************************)
(* A replay is answered from its row.                                       *)
(***************************************************************************)

\* A replayed request that comes to the checks is one to place, and has a row.
Replayed ==
    \A r \in Requests : req[r].replay =>
        /\ req[r].answer # "turned away"
        /\ req[r].pc = "guard" => req[r].op = "place" /\ Exists(req[r].key)

LEMMA NextReplayed == Sound /\ Replayed /\ [Next]_vars => Replayed'
  <1> SUFFICES ASSUME Sound, Replayed, [Next]_vars PROVE Replayed'
    OBVIOUS
  <1>1. RowsStay /\ req \in [Requests -> Request] /\ Claims
    BY NextSound DEF Sound, Typed, TypeOK
  <1>2. ASSUME NEW r \in Requests, \A q \in Requests : q # r => req'[q] = req[q],
               req'[r].pc # "guard", req'[r].replay = req[r].replay,
               \/ ~req[r].replay \/ req'[r].answer = req[r].answer
               \/ req'[r].answer # "turned away"
        PROVE  Replayed'
    BY <1>1, <1>2 DEF Replayed, Claims, RowsStay, Exists
  <1>3. ASSUME NEW r \in Requests, Arrive(r) PROVE Replayed'
    <2>1. CASE Arrived(r)
      BY <1>1, <2>1 DEF Arrived, Replayed, Claims, RowsStay
    <2>2. CASE Answered(r) /\ req'[r].answer # "turned away"
      BY <1>2, <2>2 DEF Answered
    <2> QED BY <1>3, <2>1, <2>2, Arrives
  <1>4. ASSUME NEW r \in Requests, RequestStep(r) PROVE Replayed'
    <2>1. CASE Guard(r)
      <3>1. CASE req' = [req EXCEPT ![r].pc = "reserve", ![r].op = "place"]
        BY <1>2, <2>1, <3>1, RequestGoesOn DEF GoesTo
      <3>2. CASE Guarded(r) /\ Answer(r, "turned away")
        <4>1. ~req[r].replay
          BY <2>1, <3>2 DEF Guard, Guarded, Replayed
        <4> QED BY <1>2, <3>2, <4>1, AnswerEnds DEF Answered
      <3> QED BY <2>1, <3>1, <3>2 DEF Guard
    <2>2. CASE Reserve(r)
      <3>1. CASE req' = [req EXCEPT ![r].pc = "gate"]
        BY <1>2, <2>2, <3>1, RequestGoesOn DEF GoesTo
      <3>2. ASSUME NEW a \in {"row", "error"}, Answer(r, a) PROVE Replayed'
        BY <1>2, <3>2, AnswerEnds DEF Answered
      <3> QED BY <2>2, <3>1, <3>2 DEF Reserve
    <2>3. ASSUME NEW status \in Status, NEW odno \in Nat, NEW error \in Error, Flying(r),
                 Record(r, status, odno, error)
          PROVE  Replayed'
      <3>1. req[r].key \in Keys
        BY <1>1, <2>3 DEF Claims
      <3>2. Answered(r) /\ req'[r].answer # "turned away"
        BY <2>3, <3>1, Recorded
      <3> QED BY <1>1, <1>2, <3>2 DEF Answered, Request
    <2>4. CASE Gate(r)
      <3>1. CASE req' = [req EXCEPT ![r].pc = "send"]
        BY <1>2, <2>4, <3>1, RequestGoesOn DEF GoesTo
      <3> QED BY <2>3, <2>4, <3>1 DEF Gate, Flying, Status, Error
    <2>5. CASE Send(r)
      BY <1>2, <2>5, RequestGoesOn DEF Send, GoesTo
    <2>6. CASE Finish(r)
      <3>1. Flying(r)
        BY <2>6 DEF Finish, Accepted, Refused, Unknown, Flying
      <3>2. /\ row[req[r].key].status \in Status
            /\ row[req[r].key].odno \in Nat /\ row[req[r].key].error \in Error
            /\ req[r].odno \in Nat
        BY <1>1, <3>1 DEF Sound, Typed, TypeOK, Claims, Row, Request
      <3> QED BY <2>3, <2>6, <3>1, <3>2 DEF Finish, Accepted, Refused, Unknown, Status, Error
    <2> QED BY <1>4, <2>1, <2>2, <2>4, <2>5, <2>6 DEF RequestStep
  <1>5. CASE Crash
    <2>1. \A r \in Requests : /\ req'[r].pc # "guard"
                              /\ req'[r] = req[r] \/ req'[r].answer = "error"
      BY <1>5 DEF Crash, Idle
    <2> QED BY <2>1 DEF Replayed
  <1>6. CASE UNCHANGED req
    BY <1>1, <1>6 DEF Replayed, RowsStay, Claims
  <1>7. ASSUME Next, ~Crash, \A r \in Requests : ~Arrive(r) /\ ~RequestStep(r)
        PROVE  UNCHANGED req
    BY <1>7 DEF Next, Cancel, CancelBegin, CancelConfirmed, CancelFailed, Age, SweepStep,
         SweepBegin, SweepClaim, SweepSettle, SweepSkip, SweepStamp, Fill, Foreign
  <1> QED BY <1>3, <1>4, <1>5, <1>6, <1>7 DEF vars

\* A request to place an order that was there before it came in is answered
\* from that order, whatever else happens to it meanwhile (place_order skips
\* the checks of a replay).
THEOREM ReplaysAnswered == Spec => []ReplayAnswered
  <1>1. Init => Sound /\ Replayed
    <2>1. Init => Replayed
      <3>1. Init => \A r \in Requests : req[r] = Idle
        BY DEF Init
      <3>2. Idle.replay = FALSE
        BY DEF Idle
      <3> QED BY <3>1, <3>2 DEF Replayed
    <2> QED BY <2>1, InitSound
  <1>2. Sound /\ Replayed /\ [Next]_vars => (Sound /\ Replayed)'
    BY NextSound, NextReplayed
  <1>3. Sound /\ Replayed => ReplayAnswered
    BY DEF Replayed, ReplayAnswered
  <1> QED BY <1>1, <1>2, <1>3, PTL DEF Spec

(***************************************************************************)
(* A key is sent once.                                                      *)
(***************************************************************************)

\* A request on its way goes on for the order it is about, or ends.
FliesOn(q) ==
    /\ Flying(q)
    /\ req'[q].key = req[q].key /\ req'[q].shape = req[q].shape
    /\ \/ req'[q].pc = req[q].pc /\ req'[q].odno = req[q].odno
       \/ req[q].pc = "gate" /\ req'[q].pc = "send"
       \/ Send(q)

\* It sets out with a row of its own.
Reserves(q) ==
    LET k == req[q].key IN
    /\ req[q].pc = "reserve" /\ k \in Keys /\ ~Exists(k)
    /\ req'[q].pc = "gate" /\ req'[q].key = k /\ req'[q].shape = req[q].shape
    /\ row'[k].status = "reserved" /\ row'[k].shape = req[q].shape /\ row'[k].age = "fresh"
    /\ row'[k].error = "none"

LEMMA Flies ==
    ASSUME Sound, [Next]_vars, NEW q \in Requests, Flying(q)'
    PROVE  FliesOn(q) \/ Reserves(q)
  <1>1. RowsTyped /\ Claims /\ req \in [Requests -> Request]
    BY SoundRows DEF Sound, Typed, TypeOK
  <1>2. ASSUME req'[q] = req[q] PROVE FliesOn(q)
    BY <1>2 DEF FliesOn, Flying
  <1>3. ASSUME NEW r \in Requests, Arrive(r) PROVE FliesOn(q)
    <2>1. q # r /\ req'[q] = req[q]
      BY <1>3, Arrives DEF Arrived, Answered, Flying
    <2> QED BY <1>2, <2>1
  <1>4. ASSUME NEW r \in Requests, r # q, RequestStep(r) PROVE FliesOn(q)
    <2>1. req'[q] = req[q]
      BY <1>1, <1>4 DEF RequestStep, Guard, Reserve, Gate, Send, Finish, Accepted, Refused,
           Unknown, Record, Answer
    <2> QED BY <1>2, <2>1
  <1>5. CASE RequestStep(q)
    <2>1. ASSUME NEW a, Answer(q, a) PROVE FALSE
      BY <1>1, <2>1 DEF Answer, Idle, Flying
    <2>2. CASE Guard(q)
      BY <2>1, <2>2, RequestGoesOn DEF Guard, GoesTo, Flying
    <2>3. CASE Reserve(q)
      <3> DEFINE k == req[q].key
                 new == [NoRow EXCEPT !.status = "reserved", !.shape = req[q].shape]
      <3>1. k \in Keys /\ req[q].shape \in Shapes
        BY <1>1, <2>3 DEF Reserve, Claims
      <3>2. ~Exists(k) /\ Write(k, new) /\ req' = [req EXCEPT ![q].pc = "gate"]
        BY <2>1, <2>3 DEF Reserve
      <3>3. /\ new \in Row /\ new.status = "reserved" /\ new.shape = req[q].shape
            /\ new.age = "fresh" /\ new.error = "none"
        BY <3>1 DEF NoRow, Row, Status, Error
      <3> HIDE DEF new
      <3>4. /\ row'[k].status = new.status /\ row'[k].shape = new.shape
            /\ row'[k].age = new.age /\ row'[k].error = new.error
        BY <1>1, <3>1, <3>2, <3>3, Written DEF RowsTyped
      <3>5. GoesTo(q, "gate")
        BY <2>3, <3>2, RequestGoesOn
      <3>6. req[q].pc = "reserve"
        BY <2>3 DEF Reserve
      <3> QED BY <3>1, <3>2, <3>3, <3>4, <3>5, <3>6 DEF Reserves, GoesTo
    <2>4. CASE Gate(q)
      <3>1. GoesTo(q, "send") /\ req[q].pc = "gate"
        BY <2>1, <2>4, RequestGoesOn DEF Gate, Record
      <3> QED BY <3>1 DEF FliesOn, GoesTo, Flying
    <2>5. CASE Send(q)
      <3>1. req'[q].key = req[q].key /\ req'[q].shape = req[q].shape
        BY <2>5, RequestGoesOn DEF Send, GoesTo
      <3>2. Flying(q)
        BY <2>5 DEF Send, Flying
      <3> QED BY <2>5, <3>1, <3>2 DEF FliesOn
    <2>6. CASE Finish(q)
      BY <2>1, <2>6 DEF Finish, Accepted, Refused, Unknown, Record
    <2> QED BY <1>5, <2>2, <2>3, <2>4, <2>5, <2>6 DEF RequestStep
  <1>6. CASE Crash
    BY <1>6 DEF Crash, Flying, Idle
  <1>7. ASSUME Next, ~Crash, \A r \in Requests : ~Arrive(r) /\ ~RequestStep(r)
        PROVE  UNCHANGED req
    BY <1>7 DEF Next, Cancel, CancelBegin, CancelConfirmed, CancelFailed, Age, SweepStep,
         SweepBegin, SweepClaim, SweepSettle, SweepSkip, SweepStamp, Fill, Foreign
  <1> QED BY <1>2, <1>3, <1>4, <1>5, <1>6, <1>7 DEF vars

\* The broker's orders stay, and one that comes is of a request that sends or
\* of the account's owner.
BrokerSame ==
    \A i \in 1..Len(broker) :
        /\ i \in 1..Len(broker')
        /\ broker'[i].shape = broker[i].shape /\ broker'[i].by = broker[i].by
        /\ broker'[i].state = "live" => broker[i].state = "live"

New == Len(broker) + 1

LEMMA BrokerGrows ==
    ASSUME Sound, [Next]_vars
    PROVE  /\ BrokerSame
           /\ \A i \in 1..Len(broker') : i \notin 1..Len(broker) =>
                 /\ i = New
                 /\ \/ broker'[i].by = None
                    \/ \E r \in Requests : /\ Send(r) /\ req'[r].pc \in {"accepted", "unknown"}
                                           /\ broker'[i].by = req[r].key
                                           /\ broker'[i].shape = req[r].shape
  <1>1. broker \in Seq(Order) /\ \A k \in Keys : row[k].odno \in Nat
    BY DEF Sound, Typed, TypeOK, Order, Row
  <1>2. ASSUME NEW n \in Nat, broker' = [broker EXCEPT ![n].state = "gone"]
        PROVE  BrokerSame /\ Len(broker') = Len(broker)
    BY <1>1, <1>2, OrderGoes DEF BrokerSame
  <1>3. ASSUME NEW e, broker' = Append(broker, e)
        PROVE  BrokerSame /\ Len(broker') = New /\ broker'[New] = e
    BY <1>1, <1>3 DEF BrokerSame, New
  <1>4. CASE UNCHANGED broker
    BY <1>1, <1>4 DEF BrokerSame
  <1>5. ASSUME NEW r \in Requests, Send(r), ~UNCHANGED broker
        PROVE  /\ BrokerSame /\ Len(broker') = New /\ req'[r].pc \in {"accepted", "unknown"}
               /\ broker'[New].by = req[r].key /\ broker'[New].shape = req[r].shape
    <2> DEFINE e == [shape |-> req[r].shape, by |-> req[r].key, state |-> "live"]
    <2>1. broker' = Append(broker, e) /\ req'[r].pc \in {"accepted", "unknown"}
      BY <1>5, RequestGoesOn DEF Send, GoesTo
    <2>2. e.by = req[r].key /\ e.shape = req[r].shape
      OBVIOUS
    <2> HIDE DEF e
    <2> QED BY <1>3, <2>1, <2>2
  <1>6. CASE Foreign
    <2>1. PICK s \in Shapes : broker' = Append(broker, [shape |-> s, by |-> None, state |-> "gone"])
      BY <1>6 DEF Foreign
    <2> DEFINE e == [shape |-> s, by |-> None, state |-> "gone"]
    <2>2. e.by = None /\ broker' = Append(broker, e)
      BY <2>1
    <2> HIDE DEF e
    <2>3. BrokerSame /\ Len(broker') = New /\ broker'[New] = e
      BY <1>3, <2>2
    <2> QED BY <1>1, <2>2, <2>3 DEF New
  <1>7. ASSUME NEW n \in Numbers, Fill(n) PROVE BrokerSame /\ Len(broker') = Len(broker)
    <2>1. n \in Nat
      BY <1>1 DEF Numbers
    <2> QED BY <1>2, <1>7, <2>1 DEF Fill
  <1>8. ASSUME NEW k \in Keys, Cancel(k), ~UNCHANGED broker
        PROVE  BrokerSame /\ Len(broker') = Len(broker)
    BY <1>1, <1>2, <1>8 DEF Cancel, CancelBegin, CancelConfirmed, CancelFailed
  <1>9. ASSUME Next, ~UNCHANGED broker, ~Foreign
        PROVE  \/ \E n \in Numbers : Fill(n)
               \/ \E k \in Keys : Cancel(k)
               \/ \E r \in Requests : Send(r)
    BY <1>9 DEF Next, RequestStep, Arrive, Guard, Reserve, Gate, Finish, Age, SweepStep,
         SweepBegin, SweepClaim, SweepSettle, SweepSkip, SweepStamp, Crash
  <1> QED
    <2>1. ASSUME BrokerSame, Len(broker') = New, NEW i \in 1..Len(broker'), i \notin 1..Len(broker)
          PROVE  i = New
      BY <1>1, <2>1 DEF New
    <2>2. ASSUME NEW r \in Requests, Send(r), ~UNCHANGED broker
          PROVE  \A i \in 1..Len(broker') : i \notin 1..Len(broker) =>
                    /\ i = New /\ req'[r].pc \in {"accepted", "unknown"}
                    /\ broker'[i].by = req[r].key /\ broker'[i].shape = req[r].shape
      BY <1>5, <2>1, <2>2
    <2> QED BY <1>4, <1>5, <1>6, <1>7, <1>8, <1>9, <2>2 DEF vars

By(k) == {n \in Numbers : broker[n].by = k}

\* An order at the broker is of a row and of its shape, and its row sent no
\* other; a request that has yet to send, or was refused, has no order there.
Sent ==
    /\ \A n \in Numbers : broker[n].by # None =>
          Exists(broker[n].by) /\ broker[n].shape = row[broker[n].by].shape
    /\ \A m, n \in Numbers : broker[m].by = broker[n].by /\ broker[n].by # None => m = n
    /\ \A r \in Requests : Flying(r) => req[r].shape = row[req[r].key].shape
    /\ \A r \in Requests : req[r].pc \in {"gate", "send", "refused"} => By(req[r].key) = {}
    /\ \A r \in Requests : req[r].pc = "accepted" =>
          req[r].odno \in Numbers /\ broker[req[r].odno].by = req[r].key

LEMMA InitSent == Init => Sent
  BY DEF Init, Idle, Sent, Numbers, Flying, By

LEMMA NextSent == Sound /\ Sent /\ [Next]_vars => Sent'
  <1> SUFFICES ASSUME Sound, Sent, [Next]_vars PROVE Sent'
    OBVIOUS
  <1>1. /\ RowsStay /\ Claims /\ broker \in Seq(Order) /\ broker' \in Seq(Order)
        /\ Len(broker) \in Nat
    BY NextSound DEF Sound, Typed, TypeOK, Order
  <1>2. /\ BrokerSame
        /\ \A i \in Numbers' : i \notin Numbers =>
              /\ i = New
              /\ \/ broker'[i].by = None
                 \/ \E r \in Requests : /\ Send(r) /\ req'[r].pc \in {"accepted", "unknown"}
                                        /\ broker'[i].by = req[r].key
                                        /\ broker'[i].shape = req[r].shape
    BY BrokerGrows DEF Numbers
  <1>3. /\ Numbers \subseteq Numbers'
        /\ \A i \in Numbers : broker'[i].by = broker[i].by /\ broker'[i].shape = broker[i].shape
    BY <1>2 DEF BrokerSame, Numbers
  <1>4. \A i \in Numbers : broker[i].by \in Keys \cup {None}
    <2>1. \A i \in Numbers : broker[i] \in Order
      BY <1>1 DEF Numbers
    <2> QED BY <2>1 DEF Order
  <1>5. \A k \in Keys : row[k].status # "none" =>
            row'[k].status # "none" /\ row'[k].shape = row[k].shape
    BY <1>1 DEF RowsStay, Exists
  <1>6. \A r \in Requests : Send(r) =>
            /\ Flying(r) /\ req[r].key \in Keys /\ row[req[r].key].status # "none"
            /\ req[r].shape = row[req[r].key].shape
            /\ \A i \in Numbers : broker[i].by # req[r].key
            /\ \A q \in Requests : Flying(q) /\ req[q].key = req[r].key => q = r
    BY <1>1 DEF Send, Claims, Sent, Flying, By, Exists
  <1>7. \A n \in Numbers' : broker'[n].by # None =>
            row'[broker'[n].by].status # "none" /\ broker'[n].shape = row'[broker'[n].by].shape
    <2> SUFFICES ASSUME NEW n \in Numbers', broker'[n].by # None
                 PROVE  /\ row'[broker'[n].by].status # "none"
                        /\ broker'[n].shape = row'[broker'[n].by].shape
      OBVIOUS
    <2>1. CASE n \in Numbers
      BY <1>3, <1>4, <1>5, <2>1 DEF Sent, Exists
    <2>2. CASE n \notin Numbers
      BY <1>2, <1>5, <1>6, <2>2
    <2> QED BY <2>1, <2>2
  <1>8. \A m, n \in Numbers' : broker'[m].by = broker'[n].by /\ broker'[n].by # None => m = n
    BY <1>2, <1>3, <1>6 DEF Sent
  <1>9. ASSUME NEW q \in Requests, Flying(q)'
        PROVE  /\ req'[q].shape = row'[req'[q].key].shape
               /\ req'[q].pc \in {"gate", "send", "refused"} =>
                     \A i \in Numbers' : broker'[i].by # req'[q].key
               /\ req'[q].pc = "accepted" =>
                     req'[q].odno \in Numbers' /\ broker'[req'[q].odno].by = req'[q].key
    <2>1. CASE Reserves(q)
      <3>1. /\ req[q].key \in Keys /\ row[req[q].key].status = "none"
            /\ req'[q].key = req[q].key /\ req'[q].pc = "gate"
            /\ req'[q].shape = row'[req'[q].key].shape
        BY <2>1 DEF Reserves, Exists
      <3>2. \A i \in Numbers : broker[i].by # req[q].key
        BY <3>1, NoneAssumption DEF Sent, Exists
      <3>3. \A i \in Numbers' : broker'[i].by # req[q].key
        BY <1>2, <1>3, <1>6, <3>1, <3>2, NoneAssumption
      <3> QED BY <3>1, <3>3
    <2>2. CASE FliesOn(q)
      <3>1. /\ Flying(q) /\ req[q].key \in Keys /\ row[req[q].key].status # "none"
            /\ req'[q].key = req[q].key
            /\ req'[q].shape = req[q].shape /\ req[q].shape = row[req[q].key].shape
        BY <1>1, <2>2 DEF FliesOn, Claims, Sent, Exists
      <3>2. req'[q].shape = row'[req'[q].key].shape
        BY <1>5, <3>1
      <3>3. CASE Send(q)
        <4>1. CASE req' = [req EXCEPT ![q].pc = "refused"] /\ UNCHANGED broker
          <5>1. req'[q].pc = "refused"
            BY <3>3, <4>1, RequestGoesOn DEF GoesTo
          <5> QED BY <1>6, <3>1, <3>2, <3>3, <4>1, <5>1 DEF Numbers
        <4>2. CASE req' = [req EXCEPT ![q].pc = "unknown"]
          <5>1. req'[q].pc = "unknown"
            BY <3>3, <4>2, RequestGoesOn DEF GoesTo
          <5> QED BY <3>2, <5>1
        <4>3. CASE /\ broker' = Append(broker, [shape |-> req[q].shape, by |-> req[q].key,
                                                state |-> "live"])
                   /\ req' = [req EXCEPT ![q].pc = "accepted", ![q].odno = Len(broker) + 1]
          <5>1. req'[q].pc = "accepted" /\ req'[q].odno = New
            BY <3>3, <4>3, RequestGoesOn DEF GoesTo, New
          <5>2. New \in Numbers' /\ broker'[New].by = req[q].key
            BY <1>1, <4>3 DEF New, Numbers
          <5> QED BY <3>1, <3>2, <5>1, <5>2
        <4> QED BY <3>3, <4>1, <4>2, <4>3 DEF Send
      <3>4. CASE /\ req[q].pc \in {"gate", "send", "refused"} /\ ~Send(q)
                 /\ req'[q].pc \in {"gate", "send", "refused"}
        <4>1. \A i \in Numbers : broker[i].by # req[q].key
          BY <3>4 DEF Sent, By
        <4>2. \A i \in Numbers' : broker'[i].by # req[q].key
          BY <1>2, <1>3, <1>6, <3>1, <3>4, <4>1, NoneAssumption
        <4> QED BY <3>1, <3>2, <3>4, <4>2
      <3>5. CASE /\ req'[q].pc = req[q].pc /\ req'[q].odno = req[q].odno
                 /\ req[q].pc \in {"accepted", "unknown"}
        BY <1>3, <3>1, <3>2, <3>5 DEF Sent
      <3> QED BY <2>2, <3>3, <3>4, <3>5 DEF FliesOn, Flying
    <2> QED BY <1>9, <2>1, <2>2, Flies
  <1> QED
    <2>1. \A r \in Requests : Flying(r)' => (req[r].shape = row[req[r].key].shape)'
      BY <1>9
    <2>2. \A r \in Requests : req'[r].pc \in {"gate", "send", "refused"} => (By(req[r].key) = {})'
      BY <1>9 DEF By, Flying
    <2>3. \A r \in Requests : req'[r].pc = "accepted" =>
              req'[r].odno \in Numbers' /\ broker'[req'[r].odno].by = req'[r].key
      BY <1>9 DEF Flying
    <2> QED BY <1>7, <1>8, <2>1, <2>2, <2>3 DEF Sent, Exists

LEMMA SentOnce == Sound /\ Sent => OncePerKey
  <1> SUFFICES ASSUME Sound, Sent, NEW k \in Keys PROVE Cardinality(By(k)) <= 1
    BY DEF OncePerKey, By
  <1>1. CASE By(k) = {}
    BY <1>1, FS_EmptySet
  <1>2. CASE By(k) # {}
    <2>1. PICK n : n \in By(k)
      BY <1>2
    <2>2. By(k) = {n}
      BY <2>1, NoneAssumption DEF By, Sent
    <2>3. Cardinality({n}) = 1
      BY FS_Singleton
    <2> QED BY <2>2, <2>3
  <1> QED BY <1>1, <1>2

\* A key reaches the broker at most once, whatever is retried, replayed or
\* interrupted, and however long a submission takes.
THEOREM OneOrderPerKey == Spec => []OncePerKey
  <1>1. Init => Sound /\ Sent
    BY InitSound, InitSent
  <1>2. Sound /\ Sent /\ [Next]_vars => (Sound /\ Sent)'
    BY NextSound, NextSent
  <1> QED BY <1>1, <1>2, SentOnce, PTL DEF Spec

(***************************************************************************)
(* What was sent is not denied.                                             *)
(***************************************************************************)

\* While the grace period is longer than a submission lasts: a row whose
\* request is on its way is as the reservation left it, a row in the sweep's
\* window is past its grace period, and nobody writes a row another holds.
Holds ==
    /\ \A k \in Keys : lock[k] = "cancel" => row[k].status = "submitted"
    /\ \A k \in Keys : lock[k] = "sweep" => sweep.pc = "settle" /\ k = Head(sweep.todo)
    /\ sweep.pc = "settle" =>
          lock[Head(sweep.todo)] = "sweep" /\ row[Head(sweep.todo)].status = "reserved"

Held ==
    /\ \A r \in Requests : Flying(r) =>
          row[req[r].key].status = "reserved" /\ row[req[r].key].age = "fresh"
    /\ \A i \in 1..Len(sweep.todo) :
          LET k == sweep.todo[i] IN
          Exists(k) /\ (row[k].status = "reserved" => row[k].age # "fresh")
    /\ Holds

\* What the sweep found at the broker still stands when it writes it down.
Verdict ==
    sweep.pc = "settle" =>
        /\ sweep.found = "match" =>
              sweep.odno \in Numbers /\ By(Head(sweep.todo)) \subseteq {sweep.odno}
        /\ sweep.found = "absent" => By(Head(sweep.todo)) = {}

\* A row that says there is no order has none, and one that names an order
\* names its own if it has one.
Tells(k) ==
    /\ row[k].status \in {"failed", "blocked", "rejected"} => By(k) = {}
    /\ row[k].status \in {"submitted", "canceled"} =>
          row[k].odno \in Numbers /\ By(k) \subseteq {row[k].odno}
    /\ row[k].status = "canceled" => broker[row[k].odno].state # "live"

Told == \A k \in Keys : Tells(k)

\* A row is raised once: the mark is on it as long as it may be raised again.
Marked(k) ==
    /\ notes[k] <= 1
    /\ row[k].status = "none" => notes[k] = 0
    /\ row[k].status = "reserved" /\ row[k].error # "raised" => notes[k] = 0
    /\ row[k].status = "reserved" /\ row[k].age = "fresh" => row[k].error # "raised"

Raised == \A k \in Keys : Marked(k)

Graced == Held /\ Verdict /\ Told /\ Raised

\* What a step may do to a row, and who does it.
Same(k) ==
    /\ row'[k].status = row[k].status /\ row'[k].odno = row[k].odno
    /\ notes'[k] = notes[k]
    /\ row'[k].status = "reserved" => row'[k].age = row[k].age

ByReserve(k) ==
    /\ ~Exists(k)
    /\ row'[k].status = "reserved" /\ row'[k].error = "none" /\ row'[k].age = "fresh"
    /\ notes'[k] = notes[k]

ByRequest(k, r) ==
    /\ Flying(r) /\ req[r].key = k /\ lock[k] = "free" /\ req'[r].pc = "done"
    /\ notes'[k] = notes[k]
    /\ \/ req[r].pc = "gate" /\ row'[k].status = "blocked"
       \/ req[r].pc = "accepted" /\ row'[k].status = "submitted" /\ row'[k].odno = req[r].odno
       \/ req[r].pc = "refused" /\ row'[k].status = "rejected"
       \/ req[r].pc = "unknown" /\ Same(k) /\ row'[k].error = "why"

ByCancel(k) ==
    /\ lock[k] = "cancel" /\ lock'[k] = "free"
    /\ row'[k].status = "canceled" /\ row'[k].odno = row[k].odno
    /\ notes'[k] = notes[k]
    /\ broker' = [broker EXCEPT ![row[k].odno].state = "gone"]

BySettle(k) ==
    /\ sweep.pc = "settle" /\ k = Head(sweep.todo) /\ lock'[k] = "free" /\ notes'[k] = notes[k]
    /\ \/ sweep.found = "match" /\ row'[k].status = "submitted" /\ row'[k].odno = sweep.odno
       \/ sweep.found = "absent" /\ row'[k].status = "failed"

BySkip(k) ==
    /\ sweep.pc = "settle" /\ k = Head(sweep.todo) /\ lock'[k] = "free"
    /\ row'[k].status = row[k].status /\ row'[k].odno = row[k].odno
    /\ row'[k].status = "reserved" => row'[k].age = row[k].age
    /\ row'[k].error = Stamped(k, Raises(k))
    /\ notes'[k] = notes[k] + IF Raises(k) THEN 1 ELSE 0

ByStamp(k) ==
    /\ sweep.pc = "stamp" /\ k = Head(sweep.todo)
    /\ Same(k) /\ row'[k].error = Stamped(k, FALSE)

ByAge(k) ==
    /\ row[k].status = "reserved" /\ Ages(k)
    /\ row'[k].status = "reserved" /\ row'[k].odno = row[k].odno
    /\ row'[k].error = row[k].error /\ row'[k].age # "fresh"
    /\ notes'[k] = notes[k]

RowStep(k) ==
    \/ Same(k) /\ row'[k].error = row[k].error
    \/ ByReserve(k) \/ (\E r \in Requests : ByRequest(k, r)) \/ ByCancel(k)
    \/ BySettle(k) \/ BySkip(k) \/ ByStamp(k) \/ ByAge(k)

LEMMA RowSteps ==
    ASSUME Sound, [Next]_vars, NEW k \in Keys
    PROVE  RowStep(k)
  <1>1. /\ RowsTyped /\ Claims /\ AtHead /\ notes \in [Keys -> Nat]
        /\ lock \in [Keys -> {"free", "sweep", "cancel"}] /\ row[k] \in Row
    BY SoundRows DEF Sound, Typed, TypeOK, RowsTyped
  <1>2. ASSUME row'[k] = row[k], notes'[k] = notes[k] PROVE RowStep(k)
    BY <1>2 DEF RowStep, Same
  <1>3. ASSUME NEW r \in Requests, Arrive(r) \/ RequestStep(r) PROVE RowStep(k)
    <2>1. UNCHANGED notes
      BY <1>3 DEF Arrive, RequestStep, Guard, Reserve, Gate, Send, Finish
    <2>2. CASE Arrive(r) \/ Guard(r) \/ Send(r)
      BY <1>2, <2>1, <2>2 DEF Arrive, Guard, Send
    <2>3. CASE Reserve(r)
      <3> DEFINE new == [NoRow EXCEPT !.status = "reserved", !.shape = req[r].shape]
      <3>1. req[r].key \in Keys /\ req[r].shape \in Shapes
        BY <1>1, <2>3 DEF Reserve, Claims
      <3>2. CASE ~Exists(req[r].key) /\ Write(req[r].key, new)
        <4>1. /\ new \in Row /\ new.status = "reserved"
              /\ new.age = "fresh" /\ new.error = "none"
          BY <3>1 DEF NoRow, Row, Status, Error
        <4> HIDE DEF new
        <4>2. /\ \A x \in Keys : x # req[r].key => row'[x] = row[x]
              /\ row'[req[r].key].status = new.status /\ row'[req[r].key].age = new.age
              /\ row'[req[r].key].error = new.error
          BY <1>1, <3>1, <3>2, <4>1, Written DEF RowsTyped
        <4> QED BY <1>2, <2>1, <3>2, <4>1, <4>2 DEF RowStep, ByReserve
      <3> QED BY <1>2, <2>1, <2>3, <3>2 DEF Reserve
    <2>4. ASSUME NEW status \in Status, NEW odno \in Nat, NEW error \in Error, Flying(r),
                 Record(r, status, odno, error)
          PROVE  \/ row'[k] = row[k]
                 \/ /\ req[r].key = k /\ lock[k] = "free" /\ req'[r].pc = "done"
                    /\ row'[k].status = status /\ row'[k].odno = odno /\ row'[k].error = error
                    /\ status = "reserved" => row'[k].age = row[k].age
      <3>1. req[r].key \in Keys
        BY <1>1, <2>4 DEF Claims
      <3>2. /\ Answered(r)
            /\ \/ /\ lock[req[r].key] = "free"
                  /\ RowBecomes(req[r].key, status, row[req[r].key].shape, odno, error)
                  /\ status = "reserved" => row'[req[r].key].age = row[req[r].key].age
               \/ UNCHANGED <<row, queue>>
        BY <2>4, <3>1, Recorded
      <3> QED BY <3>1, <3>2 DEF Answered, RowBecomes
    <2>5. CASE Gate(r)
      <3>1. Flying(r) /\ req[r].pc = "gate"
        BY <2>5 DEF Gate, Flying
      <3>2. CASE UNCHANGED row
        BY <1>2, <2>1, <3>2
      <3>3. CASE Record(r, "blocked", 0, "why")
        BY <1>2, <2>1, <2>4, <3>1, <3>3 DEF Status, Error, RowStep, ByRequest
      <3> QED BY <2>5, <3>2, <3>3 DEF Gate
    <2>6. CASE Finish(r)
      <3>1. Flying(r) /\ row[req[r].key] \in Row /\ req[r].odno \in Nat
        <4>1. Flying(r)
          BY <2>6 DEF Finish, Accepted, Refused, Unknown, Flying
        <4> QED BY <1>1, <4>1 DEF Claims, RowsTyped, Sound, Typed, TypeOK, Request
      <3>2. CASE Accepted(r)
        BY <1>2, <2>1, <2>4, <3>1, <3>2 DEF Accepted, Status, Error, RowStep, ByRequest, Row
      <3>3. CASE Refused(r)
        BY <1>2, <2>1, <2>4, <3>1, <3>3 DEF Refused, Status, Error, RowStep, ByRequest
      <3>4. CASE Unknown(r)
        BY <1>2, <2>1, <2>4, <3>1, <3>4
           DEF Unknown, Status, Error, RowStep, ByRequest, Same, Row
      <3> QED BY <2>6, <3>2, <3>3, <3>4 DEF Finish
    <2> QED BY <1>3, <2>2, <2>3, <2>5, <2>6 DEF RequestStep
  <1>4. ASSUME NEW c \in Keys, Cancel(c) PROVE RowStep(k)
    <2>1. UNCHANGED notes
      BY <1>4 DEF Cancel, CancelBegin, CancelConfirmed, CancelFailed
    <2>2. CASE UNCHANGED row
      BY <1>2, <2>1, <2>2
    <2>3. CASE CancelConfirmed(c) /\ Write(c, [row[c] EXCEPT !.status = Canceled])
      <3> DEFINE new == [row[c] EXCEPT !.status = Canceled]
      <3>1. new \in Row /\ new.status = "canceled" /\ new.odno = row[c].odno
        BY <1>1 DEF RowsTyped, Row, Canceled, Status
      <3>2. Write(c, new)
        BY <2>3
      <3> HIDE DEF new
      <3>3. /\ row'[c].status = "canceled" /\ row'[c].odno = row[c].odno
            /\ \A x \in Keys : x # c => row'[x] = row[x]
        BY <1>1, <3>1, <3>2, Written DEF RowsTyped
      <3>4. /\ lock[c] = "cancel" /\ lock'[c] = "free"
            /\ broker' = [broker EXCEPT ![row[c].odno].state = "gone"]
        BY <1>1, <2>3 DEF CancelConfirmed
      <3> QED BY <1>2, <2>1, <3>3, <3>4 DEF RowStep, ByCancel
    <2> QED BY <1>4, <2>2, <2>3 DEF Cancel, CancelBegin, CancelConfirmed, CancelFailed
  <1>5. CASE SweepStep
    <2> DEFINE h == Head(sweep.todo)
    <2>1. CASE SweepBegin \/ SweepClaim
      BY <1>2, <2>1 DEF SweepBegin, SweepClaim
    <2>2. CASE SweepSettle
      <3>1. /\ sweep.pc = "settle" /\ sweep.found \in {"match", "absent"} /\ UNCHANGED notes
            /\ h \in Keys /\ lock'[h] = "free"
        BY <1>1, <2>2 DEF SweepSettle, Sound, Typed, TypeOK, AtHead
      <3>2. CASE UNCHANGED row
        BY <1>2, <3>1, <3>2
      <3>3. CASE Write(h, Settled(h))
        <4>1. CASE sweep.found = "match"
          <5>1. SweepWrites(h, "submitted", sweep.odno, Cleared(row[h].error))
            BY <3>1, <3>3, <4>1, SweepWritten
          <5> QED BY <1>2, <3>1, <4>1, <5>1 DEF SweepWrites, RowBecomes, RowStep, BySettle
        <4>2. CASE sweep.found = "absent"
          <5>1. PICK e : SweepWrites(h, "failed", row[h].odno, e)
            BY <3>1, <3>3, <4>2, SweepWritten
          <5> QED BY <1>2, <3>1, <4>2, <5>1 DEF SweepWrites, RowBecomes, RowStep, BySettle
        <4> QED BY <3>1, <4>1, <4>2
      <3> QED BY <2>2, <3>2, <3>3 DEF SweepSettle
    <2>3. CASE SweepSkip
      <3>1. sweep.pc = "settle" /\ h \in Keys /\ lock'[h] = "free"
        BY <1>1, <2>3 DEF SweepSkip, AtHead
      <3>2. CASE UNCHANGED <<row, notes>>
        BY <1>2, <3>2
      <3>3. CASE /\ Write(h, [row[h] EXCEPT !.error = Stamped(h, Raises(h))])
                 /\ notes' = [notes EXCEPT ![h] = @ + IF Raises(h) THEN 1 ELSE 0]
        <4>1. SweepWrites(h, row[h].status, row[h].odno, Stamped(h, Raises(h)))
          BY <3>1, <3>3, SweepWritten DEF Raises
        <4>2. /\ notes'[h] = notes[h] + IF Raises(h) THEN 1 ELSE 0
              /\ \A x \in Keys : x # h => notes'[x] = notes[x]
          BY <1>1, <3>1, <3>3
        <4>3. /\ row'[h].status = row[h].status /\ row'[h].odno = row[h].odno
              /\ row'[h].status = "reserved" => row'[h].age = row[h].age
              /\ row'[h].error = Stamped(h, Raises(h))
              /\ \A x \in Keys : x # h => row'[x] = row[x]
          BY <4>1 DEF SweepWrites, RowBecomes
        <4> QED BY <1>2, <3>1, <4>2, <4>3 DEF RowStep, BySkip
      <3> QED BY <2>3, <3>2, <3>3 DEF SweepSkip
    <2>4. CASE SweepStamp
      <3>1. sweep.pc = "stamp" /\ UNCHANGED notes
        BY <2>4 DEF SweepStamp
      <3>2. CASE UNCHANGED row
        BY <1>2, <3>1, <3>2
      <3>3. CASE Write(h, [row[h] EXCEPT !.error = Stamped(h, FALSE)])
        <4>1. SweepWrites(h, row[h].status, row[h].odno, Stamped(h, FALSE))
          BY <3>1, <3>3, SweepWritten
        <4>2. /\ row'[h].status = row[h].status /\ row'[h].odno = row[h].odno
              /\ row'[h].status = "reserved" => row'[h].age = row[h].age
              /\ row'[h].error = Stamped(h, FALSE)
              /\ \A x \in Keys : x # h => row'[x] = row[x]
          BY <4>1 DEF SweepWrites, RowBecomes
        <4> QED BY <1>2, <3>1, <4>2 DEF RowStep, ByStamp, Same
      <3> QED BY <2>4, <3>2, <3>3 DEF SweepStamp
    <2> QED BY <1>5, <2>1, <2>2, <2>3, <2>4 DEF SweepStep
  <1>6. ASSUME NEW a \in Keys, Age(a) PROVE RowStep(k)
    <2>1. CASE a # k
      BY <1>1, <1>2, <1>6, <2>1 DEF Age, RowsTyped
    <2>2. CASE a = k
      <3>1. /\ row[k].status = "reserved" /\ Ages(k) /\ UNCHANGED notes
            /\ row'[k] = [row[k] EXCEPT !.age = IF @ = "fresh" THEN "due" ELSE "stuck"]
        BY <1>1, <1>6, <2>2 DEF Age, RowsTyped
      <3> QED BY <1>1, <3>1 DEF RowStep, ByAge, Row
    <2> QED BY <2>1, <2>2
  <1>7. ASSUME NEW n, Fill(n) PROVE RowStep(k)
    BY <1>2, <1>7 DEF Fill
  <1>8. CASE Foreign \/ Crash \/ UNCHANGED vars
    BY <1>2, <1>8 DEF Foreign, Crash, vars
  <1> QED BY <1>3, <1>4, <1>5, <1>6, <1>7, <1>8 DEF Next

\* What a step may do to the locks and the sweep.
LockStep ==
    LET h == Head(sweep.todo) IN
    \/ UNCHANGED lock /\ UNCHANGED sweep
    \/ \E c \in Keys : /\ lock[c] = "free" /\ lock' = [lock EXCEPT ![c] = "cancel"]
                      /\ row[c].status = "submitted" /\ UNCHANGED <<row, sweep>>
    \/ \E c \in Keys : /\ lock[c] = "cancel" /\ lock' = [lock EXCEPT ![c] = "free"]
                      /\ UNCHANGED sweep
    \/ /\ sweep.pc = "claim" /\ h \in Claimable /\ lock' = [lock EXCEPT ![h] = "sweep"]
       /\ sweep'.pc = "settle" /\ sweep'.todo = sweep.todo /\ UNCHANGED row
    \/ /\ sweep.pc # "settle" /\ sweep'.pc # "settle" /\ UNCHANGED lock
    \/ /\ sweep.pc = "settle" /\ sweep'.pc # "settle" /\ lock' = [lock EXCEPT ![h] = "free"]
    \/ /\ lock' = [k \in Keys |-> "free"] /\ sweep'.pc # "settle"

LEMMA LockSteps ==
    ASSUME Sound, [Next]_vars
    PROVE  LockStep
  <1>1. /\ sweep \in [pc : {"idle", "claim", "settle", "stamp"}, todo : Seq(Keys),
                      found : {"match", "absent", "skip"}, odno : Nat]
        /\ Next1.pc # "settle"
    BY DEF Sound, Typed, TypeOK, Next1
  <1>2. ASSUME NEW c \in Keys, Cancel(c) PROVE LockStep
    BY <1>2 DEF Cancel, CancelBegin, CancelConfirmed, CancelFailed, LockStep
  <1>3. CASE SweepBegin
    BY <1>1, <1>3 DEF SweepBegin, LockStep
  <1>4. CASE SweepClaim
    BY <1>1, <1>4 DEF SweepClaim, LockStep
  <1>5. CASE SweepSettle
    BY <1>1, <1>5 DEF SweepSettle, LockStep
  <1>6. CASE SweepSkip
    BY <1>1, <1>6 DEF SweepSkip, LockStep
  <1>7. CASE SweepStamp
    BY <1>1, <1>7 DEF SweepStamp, LockStep
  <1>8. CASE Crash
    BY <1>8 DEF Crash, LockStep
  <1>9. ASSUME Next, ~SweepStep, ~Crash, \A c \in Keys : ~Cancel(c)
        PROVE  UNCHANGED lock /\ UNCHANGED sweep
    BY <1>9 DEF Next, RequestStep, Arrive, Guard, Reserve, Gate, Send, Finish, Age, Fill, Foreign
  <1> QED
    BY <1>2, <1>3, <1>4, <1>5, <1>6, <1>7, <1>8, <1>9 DEF SweepStep, LockStep, vars

LEMMA CrashFrees == Crash => sweep'.todo = <<>> /\ sweep'.pc = "idle"
  <1>1. Crash => sweep' = [pc |-> "idle", todo |-> <<>>, found |-> "skip", odno |-> 0]
    BY DEF Crash
  <1> QED BY <1>1

\* Who holds which row.
LEMMA NextHeld == ~Overstays /\ Sound /\ Sent /\ Held /\ [Next]_vars => Held'
  <1> SUFFICES ASSUME ~Overstays, Sound, Sent, Held, [Next]_vars PROVE Held'
    OBVIOUS
  <1>1. /\ RowsStay /\ Sound' /\ Claims /\ AtHead /\ sweep.todo \in Seq(Keys)
        /\ lock \in [Keys -> {"free", "sweep", "cancel"}]
        /\ \A k \in Keys : RowStep(k)
    BY NextSound, RowSteps DEF Sound, Typed, TypeOK
  <1>2. /\ sweep.todo # <<>> => Head(sweep.todo) = sweep.todo[1] /\ 1 \in 1..Len(sweep.todo)
        /\ \A i \in 1..Len(sweep.todo) : sweep.todo[i] \in Keys
    BY <1>1
  <1>3. \A k \in Keys : Exists(k) =>
            /\ row'[k].status # "none"
            /\ row'[k].status = "reserved" => row[k].status = "reserved"
                                              /\ (row[k].age # "fresh" => row'[k].age # "fresh")
    BY <1>1 DEF RowStep, Same, ByReserve, ByRequest, ByCancel, BySettle, BySkip, ByStamp, ByAge,
         RowsStay, Exists
  <1>4. ASSUME NEW q \in Requests, Flying(q)'
        PROVE  row'[req'[q].key].status = "reserved" /\ row'[req'[q].key].age = "fresh"
    <2>1. CASE Reserves(q)
      BY <2>1 DEF Reserves
    <2>2. CASE FliesOn(q)
      <3> DEFINE k == req[q].key
      <3>1. /\ Flying(q) /\ k \in Keys /\ Exists(k) /\ req'[q].key = k /\ InFlight(k)
            /\ row[k].status = "reserved" /\ row[k].age = "fresh"
        BY <1>1, <2>2 DEF FliesOn, Claims, Held, InFlight, Flying
      <3>2. \A r \in Requests : ~ByRequest(k, r)
        BY <1>1, <1>4, <3>1 DEF ByRequest, Claims, Flying
      <3>3. sweep.pc \in {"settle", "stamp"} => k # Head(sweep.todo)
        BY <1>1, <1>2, <3>1 DEF Held, Holds, AtHead
      <3>4. ~ByCancel(k) /\ ~BySettle(k) /\ ~BySkip(k) /\ ~ByStamp(k) /\ ~ByReserve(k) /\ ~ByAge(k)
        BY <3>1, <3>3 DEF Held, Holds, ByCancel, BySettle, BySkip, ByStamp, ByReserve, ByAge, Ages
      <3>5. Same(k)
        BY <1>1, <3>1, <3>2, <3>4 DEF RowStep
      <3> QED BY <3>1, <3>5 DEF Same
    <2> QED BY <1>4, <2>1, <2>2, Flies
  <1>5. ASSUME NEW i \in 1..Len(sweep'.todo)
        PROVE  LET k == sweep'.todo[i] IN
               row'[k].status # "none" /\ (row'[k].status = "reserved" => row'[k].age # "fresh")
    <2> DEFINE k == sweep'.todo[i]
    <2>1. CASE \E j \in 1..Len(sweep.todo) : k = sweep.todo[j]
      BY <1>2, <1>3, <2>1 DEF Held, Holds
    <2>2. CASE k \in Due
      BY <1>3, <2>2 DEF Due, Exists
    <2>3. ASSUME sweep' = Next1, sweep.pc # "idle"
          PROVE  \E j \in 1..Len(sweep.todo) : k = sweep.todo[j]
      <3>1. sweep'.todo = Tail(sweep.todo) /\ sweep.todo # <<>>
        BY <1>1, <2>3, GoesOn DEF AtHead
      <3>2. i + 1 \in 1..Len(sweep.todo) /\ Tail(sweep.todo)[i] = sweep.todo[i + 1]
        BY <1>1, <1>5, <3>1
      <3> QED BY <3>1, <3>2
    <2>4. CASE sweep'.todo = sweep.todo
      BY <1>5, <2>1, <2>4
    <2>5. CASE SweepBegin
      <3>1. PICK w \in Eligible : sweep' = [sweep EXCEPT !.pc = "claim", !.todo = w]
        BY <2>5 DEF SweepBegin
      <3>2. PICK n \in 1..Limit : w \in [1..n -> Due]
        BY <3>1 DEF Eligible
      <3>3. sweep'.todo = w
        BY <3>1 DEF Sound, Typed, TypeOK
      <3>4. n \in Nat /\ Len(w) = n
        BY <3>2, LimitAssumption
      <3> QED BY <1>5, <2>2, <3>2, <3>3, <3>4
    <2>6. CASE SweepClaim \/ SweepSettle \/ SweepSkip \/ SweepStamp
      <3>1. sweep.pc # "idle"
        BY <2>6 DEF SweepClaim, SweepSettle, SweepSkip, SweepStamp
      <3>2. sweep' = Next1 \/ sweep'.todo = sweep.todo
        BY <2>6 DEF SweepClaim, SweepSettle, SweepSkip, SweepStamp, Sound, Typed, TypeOK
      <3> QED BY <2>1, <2>3, <2>4, <3>1, <3>2
    <2>7. ~Crash
      <3>1. Crash => sweep'.todo = <<>>
        BY CrashFrees
      <3> QED BY <1>5, <3>1
    <2>8. ASSUME Next, ~SweepStep, ~Crash PROVE UNCHANGED sweep
      BY <2>8 DEF Next, RequestStep, Arrive, Guard, Reserve, Gate, Send, Finish, Cancel,
           CancelBegin, CancelConfirmed, CancelFailed, Age, Fill, Foreign
    <2> QED BY <2>4, <2>5, <2>6, <2>7, <2>8 DEF SweepStep, vars
  <1>6. \A k \in Keys : lock[k] = "cancel" =>
            row'[k].status = "submitted" \/ lock'[k] = "free"
    <2> SUFFICES ASSUME NEW k \in Keys, lock[k] = "cancel"
                 PROVE  row'[k].status = "submitted" \/ lock'[k] = "free"
      OBVIOUS
    <2>1. /\ row[k].status = "submitted" /\ (sweep.pc = "settle" => k # Head(sweep.todo))
      BY DEF Held, Holds
    <2>2. /\ \A r \in Requests : ~ByRequest(k, r)
          /\ ~ByReserve(k) /\ ~BySettle(k) /\ ~BySkip(k) /\ ~ByAge(k)
      BY <2>1 DEF ByRequest, ByReserve, BySettle, BySkip, ByAge, Exists
    <2>3. Same(k) \/ ByCancel(k)
      BY <1>1, <2>2 DEF RowStep, ByStamp
    <2> QED BY <2>1, <2>3 DEF Same, ByCancel
  <1>7. ASSUME NEW k \in Keys, lock[k] = "sweep"
        PROVE  row'[k].status = "reserved" \/ lock'[k] = "free"
    <2>1. row[k].status = "reserved" /\ sweep.pc = "settle" /\ k = Head(sweep.todo)
      BY <1>7 DEF Held, Holds
    <2>2. /\ \A r \in Requests : ~ByRequest(k, r)
          /\ ~ByReserve(k) /\ ~ByCancel(k) /\ ~ByStamp(k)
      BY <1>7, <2>1 DEF ByRequest, ByReserve, ByCancel, ByStamp, Exists
    <2> QED BY <1>1, <2>1, <2>2 DEF RowStep, Same, BySettle, BySkip, ByAge
  <1>8. Holds'
    <2> DEFINE h == Head(sweep.todo)
    <2>1. LockStep
      BY LockSteps
    <2>2. sweep.pc = "settle" => h \in Keys
      BY <1>1 DEF AtHead
    <2>3. CASE UNCHANGED lock /\ UNCHANGED sweep
      BY <1>6, <1>7, <2>2, <2>3 DEF Held, Holds
    <2>4. ASSUME NEW c \in Keys, lock[c] = "free", lock' = [lock EXCEPT ![c] = "cancel"],
                 row[c].status = "submitted", UNCHANGED <<row, sweep>>
          PROVE  Holds'
      BY <1>1, <2>2, <2>4 DEF Held, Holds
    <2>5. ASSUME NEW c \in Keys, lock[c] = "cancel", lock' = [lock EXCEPT ![c] = "free"],
                 UNCHANGED sweep
          PROVE  Holds'
      BY <1>1, <1>6, <1>7, <2>2, <2>5 DEF Held, Holds
    <2>6. CASE /\ sweep.pc = "claim" /\ h \in Claimable /\ lock' = [lock EXCEPT ![h] = "sweep"]
               /\ sweep'.pc = "settle" /\ sweep'.todo = sweep.todo /\ UNCHANGED row
      BY <1>1, <2>6 DEF Held, Holds, Claimable
    <2>7. CASE sweep.pc # "settle" /\ sweep'.pc # "settle" /\ UNCHANGED lock
      BY <1>1, <1>6, <2>7 DEF Held, Holds
    <2>8. CASE sweep.pc = "settle" /\ sweep'.pc # "settle" /\ lock' = [lock EXCEPT ![h] = "free"]
      BY <1>1, <1>6, <2>2, <2>8 DEF Held, Holds
    <2>9. CASE lock' = [k \in Keys |-> "free"] /\ sweep'.pc # "settle"
      BY <2>9 DEF Holds
    <2> QED BY <2>1, <2>3, <2>4, <2>5, <2>6, <2>7, <2>8, <2>9 DEF LockStep
  <1> QED BY <1>4, <1>5, <1>8 DEF Held, Flying, Exists

\* What the sweep found stays true until it is written: the row it holds is
\* past its grace period, so no request can send that key any more.
LEMMA NextVerdict ==
    ~Overstays /\ Sound /\ Sent /\ Held /\ Verdict /\ [Next]_vars => Verdict'
  <1> SUFFICES ASSUME ~Overstays, Sound, Sent, Held, Verdict, [Next]_vars PROVE Verdict'
    OBVIOUS
  <1> DEFINE h == Head(sweep.todo)
             later(k) == {n \in 1..Len(broker') : broker'[n].by = k}
  <1>1. /\ Sound' /\ Claims /\ AtHead /\ broker \in Seq(Order) /\ broker' \in Seq(Order)
        /\ sweep.todo \in Seq(Keys) /\ BrokerSame
        /\ sweep \in [pc : {"idle", "claim", "settle", "stamp"}, todo : Seq(Keys),
                       found : {"match", "absent", "skip"}, odno : Nat]
    BY NextSound, BrokerGrows DEF Sound, Typed, TypeOK, Order
  <1>2. ASSUME sweep'.pc = "settle"
        PROVE  \/ UNCHANGED sweep
               \/ SweepClaim /\ h \in Claimable /\ sweep'.todo = sweep.todo
    <2>1. Next1.pc # "settle"
      BY DEF Next1
    <2>2. /\ SweepBegin => sweep'.pc = "claim"
          /\ SweepSettle => sweep' = Next1 \/ sweep'.pc = "stamp"
          /\ SweepSkip \/ SweepStamp => sweep' = Next1
      BY <1>1 DEF SweepBegin, SweepSettle, SweepSkip, SweepStamp
    <2>3. ~Crash
      BY <1>2, CrashFrees
    <2>5. CASE SweepClaim
      <3>1. h \in Claimable
        BY <1>2, <2>1, <2>5 DEF SweepClaim
      <3>2. sweep'.todo = sweep.todo
        BY <1>1, <2>5, <3>1 DEF SweepClaim
      <3> QED BY <2>5, <3>1, <3>2
    <2>4. ASSUME Next, ~SweepStep, ~Crash PROVE UNCHANGED sweep
      BY <2>4 DEF Next, RequestStep, Arrive, Guard, Reserve, Gate, Send, Finish, Cancel,
           CancelBegin, CancelConfirmed, CancelFailed, Age, Fill, Foreign
    <2> QED BY <1>2, <2>1, <2>2, <2>3, <2>4, <2>5 DEF SweepStep, vars
  <1>3. ASSUME sweep.pc = "settle" PROVE later(h) = By(h)
    <2>1. h \in Keys /\ sweep.todo # <<>> /\ row[h].status = "reserved"
      BY <1>1, <1>3 DEF AtHead, Held, Holds
    <2>2. h = sweep.todo[1] /\ 1 \in 1..Len(sweep.todo)
      BY <1>1, <2>1
    <2>3. row[h].age # "fresh"
      BY <2>1, <2>2 DEF Held
    <2>4. \A r \in Requests : Flying(r) => req[r].key # h
      BY <2>3 DEF Held
    <2>5. \A r \in Requests : Send(r) => req[r].key # h
      BY <2>4 DEF Send, Flying
    <2>6. \A i \in 1..Len(broker') : i \notin 1..Len(broker) => broker'[i].by # h
      BY <2>1, <2>5, BrokerGrows, NoneAssumption
    <2> QED BY <1>1, <2>6 DEF By, Numbers, BrokerSame
  <1>4. CASE sweep'.pc = "settle" /\ UNCHANGED sweep
    <2>1. later(h) = By(h) /\ Numbers \subseteq Numbers'
      BY <1>1, <1>3, <1>4 DEF BrokerSame, Numbers
    <2> QED BY <1>4, <2>1 DEF Verdict, By, Numbers
  <1>5. CASE sweep'.pc = "settle" /\ SweepClaim /\ h \in Claimable /\ sweep'.todo = sweep.todo
    <2>1. UNCHANGED broker
      BY <1>5 DEF SweepClaim
    <2>2. By(h) \subseteq Candidates(h)
      BY <1>5, NoneAssumption DEF By, Candidates, Claimable, Sent
    <2>3. /\ sweep'.found = "match" => \E n \in Numbers : Candidates(h) = {n} /\ sweep'.odno = n
          /\ sweep'.found = "absent" => Candidates(h) = {}
      BY <1>1, <1>5 DEF SweepClaim, Candidates
    <2>4. Head(sweep'.todo) = h /\ later(h) = By(h) /\ Numbers' = Numbers
      BY <1>5, <2>1 DEF By, Numbers
    <2>5. sweep'.found = "match" => sweep'.odno \in Numbers /\ By(h) \subseteq {sweep'.odno}
      BY <2>2, <2>3
    <2>6. sweep'.found = "absent" => By(h) = {}
      BY <2>2, <2>3
    <2> QED BY <2>4, <2>5, <2>6 DEF Verdict, By, Numbers
  <1> QED BY <1>2, <1>4, <1>5 DEF Verdict

\* A row that denies an order has none: it was written by the request itself
\* before it sent or after a refusal, or by a sweep that found nothing.
LEMMA NextTold ==
    ~Overstays /\ Sound /\ Sent /\ Held /\ Verdict /\ Told /\ [Next]_vars => Told'
  <1> SUFFICES ASSUME ~Overstays, Sound, Sent, Held, Verdict, Told, [Next]_vars,
                      NEW k \in Keys
               PROVE  Tells(k)'
    BY DEF Told
  <1> DEFINE later == {n \in 1..Len(broker') : broker'[n].by = k}
  <1>1. /\ Sound' /\ Claims /\ AtHead /\ broker \in Seq(Order) /\ broker' \in Seq(Order)
        /\ sweep.todo \in Seq(Keys) /\ BrokerSame /\ row[k].status \in Status
    BY NextSound, BrokerGrows DEF Sound, Typed, TypeOK, Order, Row
  <1>2. Numbers \subseteq Numbers'
    BY <1>1 DEF BrokerSame, Numbers
  <1>3. ASSUME \A r \in Requests : Send(r) => req[r].key # k PROVE By(k)' = By(k)
    <2>1. \A i \in 1..Len(broker') : i \notin 1..Len(broker) => broker'[i].by # k
      BY <1>3, BrokerGrows, NoneAssumption
    <2> QED BY <1>1, <2>1 DEF By, Numbers, BrokerSame
  <1>4. ASSUME row[k].status # "reserved" \/ row[k].age # "fresh" PROVE By(k)' = By(k)
    BY <1>3, <1>4 DEF Held, Send, Flying
  <1>5. ASSUME row'[k].status = row[k].status, row'[k].odno = row[k].odno PROVE Tells(k)'
    <2>1. Tells(k)
      BY DEF Told
    <2>2. CASE row[k].status \in {"failed", "blocked", "rejected"}
      BY <1>4, <1>5, <2>1, <2>2 DEF Tells
    <2>3. CASE row[k].status \in {"submitted", "canceled"}
      <3>1. row[k].odno \in 1..Len(broker) /\ By(k)' \subseteq {row[k].odno}
        BY <1>4, <2>1, <2>3 DEF Tells, Numbers
      <3> QED BY <1>1, <1>2, <1>5, <2>1, <2>3, <3>1 DEF Tells, BrokerSame, Numbers
    <2>4. CASE row[k].status \in {"none", "reserved"}
      BY <1>5, <2>4 DEF Tells
    <2> QED BY <1>1, <2>2, <2>3, <2>4 DEF Status
  <1>6. CASE ByReserve(k) \/ ByAge(k)
    BY <1>6 DEF ByReserve, ByAge, Tells
  <1>7. ASSUME NEW r \in Requests, ByRequest(k, r) PROVE Tells(k)'
    <2>1. req[r].pc # "send" => By(k)' = By(k)
      BY <1>1, <1>3, <1>7 DEF ByRequest, Claims, Send, Flying
    <2>2. req[r].pc \in {"gate", "refused"} => By(k) = {}
      BY <1>7 DEF ByRequest, Sent
    <2>3. req[r].pc = "accepted" => req[r].odno \in Numbers /\ By(k) \subseteq {req[r].odno}
      <3>1. req[r].pc = "accepted" => req[r].odno \in Numbers /\ broker[req[r].odno].by = k
        BY <1>7 DEF ByRequest, Sent
      <3> QED BY <3>1, NoneAssumption DEF Sent, By
    <2>4. req[r].pc = "unknown" => Tells(k)'
      BY <1>5, <1>7 DEF ByRequest, Same
    <2> QED BY <1>2, <1>7, <2>1, <2>2, <2>3, <2>4 DEF ByRequest, Tells
  <1>8. CASE ByCancel(k)
    <2>1. row[k].status = "submitted" /\ Tells(k)
      BY <1>8 DEF ByCancel, Held, Holds, Told
    <2>2. row[k].odno \in 1..Len(broker) /\ By(k)' \subseteq {row[k].odno}
      BY <1>4, <2>1 DEF Tells, Numbers
    <2>3. broker'[row[k].odno].state = "gone"
      <3> DEFINE o == row[k].odno
      <3>1. o \in 1..Len(broker) /\ broker' = [broker EXCEPT ![o].state = "gone"]
        BY <1>8, <2>2 DEF ByCancel
      <3> HIDE DEF o
      <3>2. broker'[o] = [broker[o] EXCEPT !.state = "gone"] /\ broker[o] \in Order
        BY <1>1, <3>1
      <3> QED BY <3>2 DEF o, Order
    <2> QED BY <1>2, <1>8, <2>2, <2>3 DEF ByCancel, Tells, Numbers
  <1>9. CASE BySettle(k)
    <2>1. sweep.todo # <<>> /\ row[k].status = "reserved"
      BY <1>1, <1>9 DEF BySettle, AtHead, Held, Holds
    <2>2. k = sweep.todo[1] /\ 1 \in 1..Len(sweep.todo)
      BY <1>1, <1>9, <2>1 DEF BySettle
    <2>3. By(k)' = By(k)
      BY <1>4, <2>1, <2>2 DEF Held
    <2> QED BY <1>2, <1>9, <2>3 DEF BySettle, Verdict, Tells
  <1> QED
    BY <1>5, <1>6, <1>7, <1>8, <1>9, RowSteps DEF RowStep, Same, BySkip, ByStamp

\* A row is raised once: the mark stays on it as long as the sweep comes back.
LEMMA NextRaised ==
    ~Overstays /\ Sound /\ Held /\ Raised /\ [Next]_vars => Raised'
  <1> SUFFICES ASSUME ~Overstays, Sound, Held, Raised, [Next]_vars, NEW k \in Keys
               PROVE  Marked(k)'
    BY DEF Raised
  <1>1. /\ RowStep(k) /\ Claims /\ AtHead /\ sweep.todo \in Seq(Keys)
        /\ row[k].status \in Status /\ notes[k] \in Nat
    BY RowSteps DEF Sound, Typed, TypeOK, Row
  <1>2. Marked(k)
    BY DEF Raised
  <1>3. CASE Same(k) /\ row'[k].error = row[k].error
    BY <1>2, <1>3 DEF Same, Marked
  <1>4. CASE ByReserve(k)
    BY <1>2, <1>4 DEF ByReserve, Exists, Marked
  <1>5. ASSUME NEW r \in Requests, ByRequest(k, r) PROVE Marked(k)'
    <2>1. row[k].status = "reserved" /\ row[k].age = "fresh"
      BY <1>5 DEF ByRequest, Held
    <2>2. notes[k] = 0
      BY <1>2, <2>1 DEF Marked
    <2> QED BY <1>5, <2>1, <2>2 DEF ByRequest, Same, Marked
  <1>6. CASE ByCancel(k) \/ BySettle(k)
    BY <1>2, <1>6 DEF ByCancel, BySettle, Marked
  <1>7. CASE BySkip(k)
    <2>1. row[k].status = "reserved"
      BY <1>7 DEF BySkip, Held, Holds
    <2>2. sweep.todo # <<>>
      BY <1>1, <1>7 DEF BySkip, AtHead
    <2>3. k = sweep.todo[1] /\ 1 \in 1..Len(sweep.todo)
      BY <1>1, <1>7, <2>2 DEF BySkip
    <2>4. row[k].age # "fresh"
      BY <2>1, <2>3 DEF Held
    <2>5. CASE Raises(k)
      <3>1. notes[k] = 0
        BY <1>2, <2>1, <2>5 DEF Raises, Marked
      <3> QED BY <1>7, <2>1, <2>4, <2>5, <3>1 DEF BySkip, Stamped, Marked
    <2>6. CASE ~Raises(k)
      BY <1>1, <1>2, <1>7, <2>1, <2>4, <2>6 DEF BySkip, Stamped, Marked
    <2> QED BY <2>5, <2>6
  <1>8. CASE ByStamp(k)
    <2>1. sweep.todo # <<>>
      BY <1>1, <1>8 DEF ByStamp, AtHead
    <2>2. k = sweep.todo[1] /\ 1 \in 1..Len(sweep.todo)
      BY <1>1, <1>8, <2>1 DEF ByStamp
    <2>3. row[k].status # "none" /\ (row[k].status = "reserved" => row[k].age # "fresh")
      BY <2>2 DEF Held, Exists
    <2> QED BY <1>2, <1>8, <2>3 DEF ByStamp, Same, Stamped, Marked
  <1>9. CASE ByAge(k)
    BY <1>2, <1>9 DEF ByAge, Marked
  <1> QED BY <1>1, <1>3, <1>4, <1>5, <1>6, <1>7, <1>8, <1>9 DEF RowStep

LEMMA InitGraced == Init => Graced
  BY DEF Init, Idle, NoRow, Graced, Held, Holds, Verdict, Told, Tells, Raised, Marked, Flying

\* A manual order while no submission outlasts the grace period of the sweep
\* (a deployment where the broker's timeout is the shorter of the two): its
\* key is sent once, an order the broker has is never recorded as one it has
\* not, and the owner is told once of one that stays open, over all lost
\* answers, cancels, sweeps, faults and restarts.
THEOREM NothingSentIsDenied ==
    ASSUME ~Overstays
    PROVE  Spec => []TradeInv
  <1>1. Init => Sound /\ Sent /\ Graced
    BY InitSound, InitSent, InitGraced
  <1>2. Sound /\ Sent /\ Graced /\ [Next]_vars => (Sound /\ Sent /\ Graced)'
    BY NextSound, NextSent, NextHeld, NextVerdict, NextTold, NextRaised DEF Graced
  <1>3. Sound /\ Sent /\ Graced => TradeInv
    <2> SUFFICES ASSUME Sound, Sent, Graced PROVE TradeInv
      OBVIOUS
    <2>1. OncePerKey
      BY SentOnce
    <2>2. NothingSentDenied
      <3> SUFFICES ASSUME NEW n \in Numbers, broker[n].by # None
                   PROVE  /\ row[broker[n].by].status \notin {"failed", "blocked", "rejected"}
                          /\ broker[n].state = "live" => row[broker[n].by].status # "canceled"
        BY DEF NothingSentDenied
      <3> DEFINE k == broker[n].by
      <3>1. k \in Keys
        <4>1. broker \in Seq(Order) /\ n \in 1..Len(broker)
          BY DEF Sound, Typed, TypeOK, Order, Numbers
        <4>2. broker[n] \in Order
          BY <4>1
        <4> QED BY <4>2 DEF Order
      <3>2. Tells(k) /\ n \in By(k)
        BY <3>1 DEF Graced, Told, By
      <3> HIDE DEF k
      <3> QED BY <3>2 DEF Tells, k
    <2>3. RaisedOnce
      BY DEF Graced, Raised, Marked, RaisedOnce
    <2> QED BY <2>1, <2>2, <2>3 DEF TradeInv, Sound, Typed
  <1> QED BY <1>1, <1>2, <1>3, PTL DEF Spec

\* Under the same condition no write takes an edge the table of transitions
\* does not have, although requests, cancels and sweeps look at the row in
\* sessions of their own.
THEOREM RowsFollowTable ==
    ASSUME ~Overstays
    PROVE  Spec => FollowsTable
  <1>1. Init => Sound /\ Sent /\ Graced
    BY InitSound, InitSent, InitGraced
  <1>2. Sound /\ Sent /\ Graced /\ [Next]_vars => (Sound /\ Sent /\ Graced)'
    BY NextSound, NextSent, NextHeld, NextVerdict, NextTold, NextRaised DEF Graced
  <1>3. Sound /\ Graced /\ [Next]_vars =>
            [\A k \in Keys : Exists(k) /\ row'[k].status # row[k].status
                => MayBecome(row[k].status, row'[k].status)]_vars
    <2> SUFFICES ASSUME Sound, Graced, [Next]_vars, NEW k \in Keys,
                        Exists(k), row'[k].status # row[k].status
                 PROVE  MayBecome(row[k].status, row'[k].status)
      OBVIOUS
    <2>1. RowStep(k)
      BY RowSteps
    <2>2. ~ByReserve(k) /\ ~BySkip(k) /\ ~ByStamp(k) /\ ~ByAge(k) /\ ~Same(k)
      BY DEF ByReserve, BySkip, ByStamp, ByAge, Same
    <2>3. ASSUME NEW r \in Requests, ByRequest(k, r)
          PROVE  MayBecome(row[k].status, row'[k].status)
      <3>1. row[k].status = "reserved"
        BY <2>3 DEF ByRequest, Graced, Held
      <3> QED BY <2>2, <2>3, <3>1 DEF ByRequest, MayBecome
    <2>4. CASE ByCancel(k)
      BY <2>4 DEF ByCancel, Graced, Held, Holds, MayBecome
    <2>5. CASE BySettle(k)
      BY <2>5 DEF BySettle, Graced, Held, Holds, MayBecome
    <2> QED BY <2>1, <2>2, <2>3, <2>4, <2>5 DEF RowStep
  <1> QED BY <1>1, <1>2, <1>3, PTL DEF Spec, FollowsTable
=============================================================================
