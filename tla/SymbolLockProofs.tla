---- MODULE SymbolLockProofs ----
(***************************************************************************)
(* The pending lock, for every number of orders, market opens and shares:  *)
(* type correctness, one live order per symbol while nothing irregular has *)
(* happened, and the sweep's own sells whatever happens.                   *)
(***************************************************************************)
EXTENDS SymbolLock, TLAPS

(***************************************************************************)
(* Types                                                                   *)
(***************************************************************************)
LEMMA RecordTypes ==
    /\ Idle \in Thread /\ NoOrder \in Order
    /\ Scan \in Threads /\ Sweep \in Threads /\ Scan # Sweep
    /\ NoOrder.filled = 0 /\ NoOrder.applied = 0 /\ NoOrder.owed = 0
    /\ Idle.at = "idle"
  BY DEF Idle, NoOrder, Thread, Order, Threads, Scan, Sweep, Orders

\* What TypeOK says of the shares of one order.
Shares(o) ==
    /\ order[o].filled <= order[o].qty
    /\ order[o].applied + order[o].owed <= order[o].filled

LEMMA InitType == Init => TypeOK
  <1> SUFFICES ASSUME Init PROVE TypeOK
    OBVIOUS
  <1>1. order \in [Orders -> Order] /\ thread \in [Threads -> Thread]
    BY RecordTypes DEF Init
  <1>2. \A o \in Orders : Shares(o)
    BY DEF Init, Shares, NoOrder
  <1>3. scans \in 0 .. MaxScans /\ held \in Nat
    BY BoundAssumption, ShareAssumption DEF Init
  <1> QED BY <1>1, <1>2, <1>3 DEF Init, TypeOK, Shares

\* An order sent keeps the accounts of a new one.
LEMMA SentType ==
    ASSUME TypeOK, NEW t \in Threads, NEW to \in {"sent", "orphan"}, NEW l \in BOOLEAN
    PROVE  /\ Sent(t, to, l) \in Order
           /\ Sent(t, to, l).filled <= Sent(t, to, l).qty
           /\ Sent(t, to, l).applied + Sent(t, to, l).owed <= Sent(t, to, l).filled
  <1>1. thread[t].qty \in Nat /\ thread[t].side \in {"buy", "sell"}
    BY DEF TypeOK, Thread
  <1> QED BY <1>1 DEF Sent, Order

\* A step that replaces one order by one whose shares add up.
LEMMA OrderStep ==
    ASSUME TypeOK, NEW o \in Orders, NEW r \in Order,
           order' = [order EXCEPT ![o] = r],
           r.filled <= r.qty, r.applied + r.owed <= r.filled
    PROVE  /\ order' \in [Orders -> Order]
           /\ \A p \in Orders : Shares(p)'
  BY DEF TypeOK, Shares

\* A step that moves one thread.
LEMMA ThreadStep ==
    ASSUME TypeOK, NEW t \in Threads, NEW r \in Thread,
           thread' = [thread EXCEPT ![t] = r]
    PROVE  thread' \in [Threads -> Thread]
  BY DEF TypeOK

LEMMA NextType == TypeOK /\ [Next]_vars => TypeOK'
  <1> SUFFICES ASSUME TypeOK, [Next]_vars PROVE TypeOK'
    OBVIOUS
  <1> USE DEF tracker
  <1>a. UNCHANGED order => order' \in [Orders -> Order] /\ \A p \in Orders : Shares(p)'
    BY DEF TypeOK, Shares
  <1>1. CASE ScanStart
    <2>1. ASSUME NEW r \in Thread, thread' = [thread EXCEPT ![Scan] = r]
          PROVE  TypeOK'
      BY <1>1, <1>a, <2>1, ThreadStep, RecordTypes, BoundAssumption
         DEF ScanStart, TypeOK, Shares
    <2>2. /\ [Idle EXCEPT !.at = "sizing"] \in Thread
          /\ [Idle EXCEPT !.at = "sized", !.side = "buy", !.qty = Lot] \in Thread
      BY ShareAssumption DEF Idle, Thread
    <2> QED BY <1>1, <2>1, <2>2 DEF ScanStart
  <1>2. CASE SweepStart
    <2>1. [Idle EXCEPT !.at = "sizing"] \in Thread
      BY DEF Idle, Thread
    <2> QED BY <1>2, <1>a, <2>1, ThreadStep, RecordTypes DEF SweepStart, TypeOK, Shares
  <1>3. CASE Lapse
    BY <1>3, <1>a DEF Lapse, TypeOK, Shares
  <1>4. ASSUME NEW t \in Threads, Size(t) PROVE TypeOK'
    <2>1. thread' \in [Threads -> Thread]
      BY <1>4, RecordTypes DEF Size, TypeOK, Thread
    <2> QED BY <1>4, <1>a, <2>1 DEF Size, TypeOK, Shares
  <1>5. ASSUME NEW t \in Threads, Claim(t) PROVE TypeOK'
    <2>1. thread' \in [Threads -> Thread]
      BY <1>5, RecordTypes DEF Claim, Goto, TypeOK, Thread
    <2> QED BY <1>5, <1>a, <2>1 DEF Claim, Mark, TypeOK, Shares
  <1>6. ASSUME NEW t \in Threads, Refused(t) PROVE TypeOK'
    BY <1>6, <1>a, ThreadStep, RecordTypes DEF Refused, Unmark, TypeOK, Shares
  <1>7. ASSUME NEW t \in Threads, Place(t) PROVE TypeOK'
    <2>1. PICK o \in Orders : /\ order' = [order EXCEPT ![o] = Sent(t, "sent", TRUE)]
                              /\ thread' = [thread EXCEPT ![t].at = "sent", ![t].order = o]
      BY <1>7 DEF Place
    <2>2. thread' \in [Threads -> Thread]
      BY <2>1 DEF TypeOK, Thread
    <2>3. order' \in [Orders -> Order] /\ \A p \in Orders : Shares(p)'
      BY <2>1, SentType, OrderStep
    <2> QED BY <1>7, <2>2, <2>3 DEF Place, TypeOK, Shares
  <1>8. ASSUME NEW t \in Threads, PlaceUnanswered(t) PROVE TypeOK'
    <2>1. PICK o \in Orders, l \in BOOLEAN :
              order' = [order EXCEPT ![o] = Sent(t, "orphan", l)]
      BY <1>8 DEF PlaceUnanswered
    <2>2. order' \in [Orders -> Order] /\ \A p \in Orders : Shares(p)'
      BY <2>1, SentType, OrderStep
    <2> QED BY <1>8, <2>2, ThreadStep, RecordTypes DEF PlaceUnanswered, TypeOK, Shares
  <1>9. ASSUME NEW t \in Threads, Register(t) PROVE TypeOK'
    <2>1. order' \in [Orders -> Order]
      BY <1>9 DEF Register, TypeOK, Order
    <2>2. \A p \in Orders : /\ order'[p].qty = order[p].qty
                            /\ order'[p].filled = order[p].filled
                            /\ order'[p].applied = order[p].applied
                            /\ order'[p].owed = order[p].owed
      BY <1>9 DEF Register, TypeOK, Order
    <2> QED BY <1>9, <2>1, <2>2, ThreadStep, RecordTypes DEF Register, TypeOK, Shares
  <1>10. ASSUME NEW o \in Orders, BrokerFill(o) PROVE TypeOK'
    <2>1. PICK n \in order[o].filled + 1 .. order[o].qty :
              order' = [order EXCEPT ![o].filled = n, ![o].live = (n < order[o].qty)]
      BY <1>10 DEF BrokerFill
    <2>2. order[o].filled \in Nat /\ order[o].qty \in Nat /\ n \in Nat /\ n > order[o].filled
      BY <2>1 DEF TypeOK, Order
    <2>3. order' \in [Orders -> Order]
      <3>1. ASSUME NEW b \in BOOLEAN,
                   order' = [order EXCEPT ![o].filled = n, ![o].live = b]
            PROVE  order' \in [Orders -> Order]
        <4> DEFINE r == [order[o] EXCEPT !.filled = n, !.live = b]
        <4>a. order[o] \in Order
          BY DEF TypeOK
        <4>b. r \in Order
          BY <4>a, <2>2 DEF Order
        <4>c. order' = [order EXCEPT ![o] = r]
          BY <3>1
        <4> QED BY <4>b, <4>c DEF TypeOK
      <3>2. (n < order[o].qty) \in BOOLEAN
        OBVIOUS
      <3> QED BY <2>1, <3>1, <3>2, Zenon
    <2>4. \A p \in Orders : Shares(p)'
      BY <2>1, <2>2 DEF TypeOK, Order, Shares
    <2> QED BY <1>10, <2>3, <2>4 DEF BrokerFill, TypeOK, Shares
  <1>11. ASSUME NEW o \in Orders, BrokerClose(o) PROVE TypeOK'
    <2>1. order' \in [Orders -> Order] /\ \A p \in Orders : Shares(p)'
      BY <1>11 DEF BrokerClose, TypeOK, Order, Shares
    <2> QED BY <1>11, <2>1 DEF BrokerClose, TypeOK, Shares
  <1>12. ASSUME NEW o \in Orders, Deliver(o) PROVE TypeOK'
    <2>0. /\ order[o].filled \in Nat /\ order[o].applied \in Nat
          /\ order[o].owed = 0 /\ order[o].applied < order[o].filled
      BY <1>12 DEF Deliver, TypeOK, Order
    <2>1. order' \in [Orders -> Order]
      <3> DEFINE r == [order[o] EXCEPT
                        !.owed = order[o].filled - order[o].applied,
                        !.phase = IF order[o].filled = order[o].qty THEN "done" ELSE @]
      <3>a. order[o] \in Order
        BY DEF TypeOK
      <3>n. order[o].filled - order[o].applied \in Nat
        BY <2>0
      <3>b. r \in Order
        <4> DEFINE left == order[o].filled - order[o].applied
                   to == IF order[o].filled = order[o].qty THEN "done" ELSE order[o].phase
        <4>1. to \in {"none", "sent", "tracked", "done", "orphan"} /\ left \in Nat
          BY <3>a, <3>n DEF Order
        <4>2. r = [order[o] EXCEPT !.owed = left, !.phase = to]
          OBVIOUS
        <4> HIDE DEF left, to, r
        <4> QED BY <3>a, <4>1, <4>2 DEF Order
      <3>c. order' = [order EXCEPT ![o] = r]
        BY <1>12 DEF Deliver
      <3> QED BY <3>b, <3>c DEF TypeOK
    <2>2. regular' \in BOOLEAN
      BY <1>12 DEF Deliver, TypeOK
    <2>3. \A p \in Orders : Shares(p)'
      BY <1>12, <2>0 DEF Deliver, TypeOK, Order, Shares
    <2> QED BY <1>12, <2>1, <2>2, <2>3 DEF Deliver, TypeOK, Shares
  <1>13. ASSUME NEW o \in Orders, Book(o) PROVE TypeOK'
    <2>1. order' \in [Orders -> Order] /\ \A p \in Orders : Shares(p)'
      BY <1>13 DEF Book, TypeOK, Order, Shares
    <2>2. held' \in Nat
      BY <1>13 DEF Book, Sold, TypeOK, Order
    <2> QED BY <1>13, <2>1, <2>2 DEF Book, Unmark, TypeOK, Shares
  <1>14. ASSUME NEW o \in Orders, Terminated(o) PROVE TypeOK'
    <2>1. order' \in [Orders -> Order] /\ \A p \in Orders : Shares(p)'
      BY <1>14 DEF Terminated, TypeOK, Order, Shares
    <2> QED BY <1>14, <2>1 DEF Terminated, Unmark, TypeOK, Shares
  <1>15. ASSUME NEW o \in Orders, TimedOut(o) PROVE TypeOK'
    <2>1. PICK l \in {FALSE, order[o].live} :
              /\ order' = [order EXCEPT ![o].phase = "done", ![o].live = l]
              /\ regular' = (regular /\ ~l)
      BY <1>15 DEF TimedOut
    <2>2. l \in BOOLEAN
      BY DEF TypeOK, Order
    <2>3. order' \in [Orders -> Order]
      <3> DEFINE r == [order[o] EXCEPT !.phase = "done", !.live = l]
      <3>a. order[o] \in Order
        BY DEF TypeOK
      <3>b. r \in Order
        BY <3>a, <2>2 DEF Order
      <3>c. order' = [order EXCEPT ![o] = r]
        BY <2>1
      <3> QED BY <3>b, <3>c DEF TypeOK
    <2>4. \A p \in Orders : Shares(p)'
      BY <2>1 DEF TypeOK, Order, Shares
    <2> QED BY <1>15, <2>1, <2>2, <2>3, <2>4 DEF TimedOut, Unmark, TypeOK, Shares
  <1>16. CASE UNCHANGED vars
    BY <1>16, <1>a DEF vars, TypeOK, Shares
  <1> QED
    BY <1>1, <1>2, <1>3, <1>4, <1>5, <1>6, <1>7, <1>8, <1>9, <1>10, <1>11, <1>12, <1>13,
       <1>14, <1>15, <1>16 DEF Next, Answer

\* Types, and the shares of every order: nothing is applied that did not fill.
THEOREM TypeCorrect == Spec => []TypeOK
  BY InitType, NextType, PTL DEF Spec

(***************************************************************************)
(* One live order                                                          *)
(***************************************************************************)
\* An order that still needs the lock: open, or with a fill half delivered.
InUse(o) == order[o].phase \in {"sent", "tracked", "orphan"} \/ order[o].owed > 0
Claimed(t) == thread[t].at = "claimed"
Registering(t) == thread[t].at = "sent"

\* Quantities are positive, and an order is live while shares are missing.
Sized ==
    /\ \A t \in Threads : thread[t].at \in {"sized", "claimed"} => thread[t].qty > 0
    /\ \A o \in Orders : order[o].live => order[o].filled < order[o].qty

\* The lock is set for whoever needs it, and only one order or thread does.
Guarded ==
    /\ ~lapsed
    /\ \A o \in Orders : InUse(o) => pending
    /\ \A t \in Threads : Claimed(t) => pending
    /\ \A o, p \in Orders : InUse(o) /\ InUse(p) => o = p
    /\ \A t, u \in Threads : Claimed(t) /\ Claimed(u) => t = u
    /\ \A t \in Threads, o \in Orders : ~(Claimed(t) /\ InUse(o))

\* A live order is open, a half delivered one is closed, and a thread that
\* registers an order is the only one.
Placed ==
    /\ \A o \in Orders : order[o].live => order[o].phase \in {"sent", "tracked", "orphan"}
    /\ \A o \in Orders : order[o].owed > 0 => order[o].phase = "done"
    /\ \A t \in Threads : Registering(t) =>
          thread[t].order \in Orders /\ order[thread[t].order].phase = "sent"
    /\ \A t, u \in Threads : Registering(t) /\ Registering(u) => t = u

Turns == TypeOK /\ Sized /\ (regular => Guarded /\ Placed)

LEMMA InitTurns == Init => Turns
  <1> SUFFICES ASSUME Init PROVE Turns
    OBVIOUS
  <1>1. /\ \A o \in Orders : order[o].phase = "none" /\ order[o].owed = 0 /\ ~order[o].live
        /\ \A t \in Threads : thread[t].at = "idle"
    BY DEF Init, NoOrder, Idle
  <1> QED
    BY <1>1, InitType DEF Init, Turns, Sized, Guarded, Placed, InUse, Claimed, Registering

\* A market open moves the scan alone, and neither claims nor sends.
LEMMA ScanMoves ==
    ASSUME TypeOK, ScanStart
    PROVE  /\ thread[Scan].at = "idle" /\ Scan \in Threads
           /\ thread'[Scan].at \in {"sizing", "sized"}
           /\ thread'[Scan].at = "sized" => thread'[Scan].qty > 0
           /\ \A u \in Threads : u # Scan => thread'[u] = thread[u]
           /\ UNCHANGED <<tracker, order, regular>>
  <1>1. Scan \in Threads
    BY RecordTypes
  <1>2. ASSUME NEW r, thread' = [thread EXCEPT ![Scan] = r]
        PROVE  thread'[Scan] = r /\ \A u \in Threads : u # Scan => thread'[u] = thread[u]
    BY <1>1, <1>2 DEF TypeOK
  <1>3. CASE thread' = [thread EXCEPT ![Scan] = [Idle EXCEPT !.at = "sizing"]]
    <2> DEFINE r == [Idle EXCEPT !.at = "sizing"]
    <2>1. thread'[Scan] = r /\ \A u \in Threads : u # Scan => thread'[u] = thread[u]
      BY <1>2, <1>3
    <2>2. r.at = "sizing"
      BY DEF Idle
    <2> HIDE DEF r
    <2> QED BY <1>1, <2>1, <2>2 DEF ScanStart
  <1>4. CASE thread' = [thread EXCEPT ![Scan] = [Idle EXCEPT !.at = "sized", !.side = "buy",
                                                             !.qty = Lot]]
    <2> DEFINE r == [Idle EXCEPT !.at = "sized", !.side = "buy", !.qty = Lot]
    <2>1. thread'[Scan] = r /\ \A u \in Threads : u # Scan => thread'[u] = thread[u]
      BY <1>2, <1>4
    <2>2. r.at = "sized" /\ r.qty = Lot /\ Lot > 0
      BY ShareAssumption DEF Idle
    <2> HIDE DEF r
    <2> QED BY <1>1, <2>1, <2>2 DEF ScanStart
  <1> QED BY <1>3, <1>4 DEF ScanStart

LEMMA NextSized == TypeOK /\ Sized /\ [Next]_vars => Sized'
  <1> SUFFICES ASSUME TypeOK, Sized, [Next]_vars PROVE Sized'
    OBVIOUS
  <1> USE DEF tracker, Sized
  <1>1. CASE ScanStart
    BY <1>1, ScanMoves
  <1>2. CASE SweepStart
    BY <1>2 DEF SweepStart, TypeOK, Idle, Thread
  <1>3. CASE Lapse \/ UNCHANGED vars
    BY <1>3 DEF Lapse, vars
  <1>4. ASSUME NEW t \in Threads, Size(t) PROVE Sized'
    BY <1>4 DEF Size, TypeOK, Idle, Thread
  <1>5. ASSUME NEW t \in Threads, Claim(t) PROVE Sized'
    BY <1>5 DEF Claim, Goto, TypeOK, Idle, Thread
  <1>6. ASSUME NEW t \in Threads, Refused(t) PROVE Sized'
    BY <1>6 DEF Refused, TypeOK, Idle, Thread
  <1>7. ASSUME NEW t \in Threads, Place(t) PROVE Sized'
    <2>1. thread[t].qty > 0
      BY <1>7 DEF Place
    <2>2. PICK o \in Orders : /\ order' = [order EXCEPT ![o] = Sent(t, "sent", TRUE)]
                              /\ thread' = [thread EXCEPT ![t].at = "sent", ![t].order = o]
      BY <1>7 DEF Place
    <2>3. \A p \in Orders : order'[p].live => order'[p].filled < order'[p].qty
      BY <2>1, <2>2 DEF TypeOK, Sent
    <2>4. \A u \in Threads : thread'[u].at \in {"sized", "claimed"} => thread'[u].qty > 0
      BY <2>2 DEF TypeOK, Thread
    <2> QED BY <2>3, <2>4
  <1>8. ASSUME NEW t \in Threads, PlaceUnanswered(t) PROVE Sized'
    <2>1. thread[t].qty > 0
      BY <1>8 DEF PlaceUnanswered
    <2>2. PICK o \in Orders, l \in BOOLEAN :
              order' = [order EXCEPT ![o] = Sent(t, "orphan", l)]
      BY <1>8 DEF PlaceUnanswered
    <2>3. \A p \in Orders : order'[p].live => order'[p].filled < order'[p].qty
      BY <2>1, <2>2 DEF TypeOK, Sent
    <2>4. \A u \in Threads : thread'[u].at \in {"sized", "claimed"} => thread'[u].qty > 0
      BY <1>8 DEF PlaceUnanswered, TypeOK, Thread, Idle
    <2> QED BY <2>3, <2>4
  <1>9. ASSUME NEW t \in Threads, Register(t) PROVE Sized'
    BY <1>9 DEF Register, TypeOK, Idle, Thread, Order
  <1>10. ASSUME NEW o \in Orders, BrokerFill(o) PROVE Sized'
    BY <1>10 DEF BrokerFill, TypeOK, Order
  <1>11. ASSUME NEW o \in Orders, BrokerClose(o) PROVE Sized'
    BY <1>11 DEF BrokerClose, TypeOK, Order
  <1>12. ASSUME NEW o \in Orders, Deliver(o) \/ Book(o) PROVE Sized'
    BY <1>12 DEF Deliver, Book, TypeOK, Order
  <1>13. ASSUME NEW o \in Orders, Terminated(o) \/ TimedOut(o) PROVE Sized'
    BY <1>13 DEF Terminated, TimedOut, TypeOK, Order
  <1> QED
    BY <1>1, <1>2, <1>3, <1>4, <1>5, <1>6, <1>7, <1>8, <1>9, <1>10, <1>11, <1>12, <1>13
       DEF Next, Answer

LEMMA NextGuarded ==
    ASSUME TypeOK, Sized, Guarded, Placed, [Next]_vars, regular'
    PROVE  Guarded' /\ Placed'
  <1> USE DEF tracker
  <1>1. CASE ScanStart
    BY <1>1, ScanMoves DEF Guarded, Placed, InUse, Claimed, Registering
  <1>2. CASE SweepStart
    BY <1>2 DEF SweepStart, Guarded, Placed, InUse, Claimed, Registering, TypeOK, Idle,
                Thread
  <1>3. CASE UNCHANGED vars
    BY <1>3 DEF vars, Guarded, Placed, InUse, Claimed, Registering
  <1>4. ASSUME NEW t \in Threads, Size(t) PROVE Guarded' /\ Placed'
    BY <1>4 DEF Size, Guarded, Placed, InUse, Claimed, Registering, TypeOK, Idle, Thread
  <1>5. ASSUME NEW t \in Threads, Claim(t) PROVE Guarded' /\ Placed'
    <2>1. CASE Claimable
      BY <1>5, <2>1 DEF Claim, Claimable, Mark, Goto, Guarded, Placed, InUse, Claimed,
                        Registering, TypeOK, Thread
    <2>2. CASE ~Claimable
      BY <1>5, <2>2 DEF Claim, Guarded, Placed, InUse, Claimed, Registering, TypeOK, Idle,
                        Thread
    <2> QED BY <2>1, <2>2
  <1>6. ASSUME NEW t \in Threads, Refused(t) PROVE Guarded' /\ Placed'
    BY <1>6 DEF Refused, Unmark, Guarded, Placed, InUse, Claimed, Registering, TypeOK, Idle,
                Thread
  <1>7. ASSUME NEW t \in Threads, Place(t) PROVE Guarded' /\ Placed'
    <2>1. PICK o \in Orders : /\ order' = [order EXCEPT ![o] = Sent(t, "sent", TRUE)]
                              /\ thread' = [thread EXCEPT ![t].at = "sent", ![t].order = o]
      BY <1>7 DEF Place
    <2>2. \A p \in Orders : ~InUse(p)
      BY <1>7 DEF Place, Guarded, Claimed
    <2>3. \A u \in Threads : ~Registering(u) /\ (Claimed(u) => u = t)
      BY <1>7, <2>2 DEF Place, Guarded, Placed, Claimed, InUse
    <2>4. /\ order'[o].phase = "sent" /\ order'[o].owed = 0
          /\ \A p \in Orders : p # o => order'[p] = order[p]
      BY <2>1 DEF TypeOK, Sent
    <2>5. /\ thread'[t].at = "sent" /\ thread'[t].order = o
          /\ \A u \in Threads : u # t => thread'[u] = thread[u]
      BY <2>1 DEF TypeOK, Thread
    <2>6. pending' /\ ~lapsed'
      BY <1>7 DEF Place, Guarded, Claimed
    <2>7. Guarded'
      BY <2>2, <2>3, <2>4, <2>5, <2>6 DEF Guarded, InUse, Claimed
    <2>8. Placed'
      BY <2>2, <2>3, <2>4, <2>5 DEF Placed, InUse, Registering
    <2> QED BY <2>7, <2>8
  <1>8. ASSUME NEW t \in Threads, PlaceUnanswered(t) PROVE Guarded' /\ Placed'
    <2>1. PICK o \in Orders, l \in BOOLEAN :
              order' = [order EXCEPT ![o] = Sent(t, "orphan", l)]
      BY <1>8 DEF PlaceUnanswered
    <2>2. \A p \in Orders : ~InUse(p)
      BY <1>8 DEF PlaceUnanswered, Guarded, Claimed
    <2>3. \A u \in Threads : ~Registering(u) /\ (Claimed(u) => u = t)
      BY <1>8, <2>2 DEF PlaceUnanswered, Guarded, Placed, Claimed, InUse
    <2>4. /\ order'[o].phase = "orphan" /\ order'[o].owed = 0
          /\ \A p \in Orders : p # o => order'[p] = order[p]
      BY <2>1 DEF TypeOK, Sent
    <2>5. /\ thread'[t].at = "idle"
          /\ \A u \in Threads : u # t => thread'[u] = thread[u]
      BY <1>8 DEF PlaceUnanswered, TypeOK, Idle
    <2>6. pending' /\ ~lapsed'
      BY <1>8 DEF PlaceUnanswered, Guarded, Claimed
    <2>7. Guarded'
      BY <2>2, <2>3, <2>4, <2>5, <2>6 DEF Guarded, InUse, Claimed
    <2>8. Placed'
      BY <2>2, <2>3, <2>4, <2>5 DEF Placed, InUse, Registering
    <2> QED BY <2>7, <2>8
  <1>9. ASSUME NEW t \in Threads, Register(t) PROVE Guarded' /\ Placed'
    <2> DEFINE o == thread[t].order
    <2>1. o \in Orders /\ order[o].phase = "sent"
      BY <1>9 DEF Register, Placed, Registering
    <2>2. /\ order'[o].phase = "tracked" /\ order'[o].owed = order[o].owed
          /\ \A p \in Orders : p # o => order'[p] = order[p]
      BY <1>9, <2>1 DEF Register, TypeOK, Order
    <2>3. /\ thread'[t].at = "idle"
          /\ \A u \in Threads : u # t => thread'[u] = thread[u] /\ ~Registering(u)
      BY <1>9 DEF Register, Placed, Registering, TypeOK, Idle
    <2>4. UNCHANGED <<pending, lapsed>>
      BY <1>9 DEF Register
    <2> HIDE DEF o
    <2>5. Guarded'
      BY <2>1, <2>2, <2>3, <2>4 DEF Guarded, InUse, Claimed
    <2>6. Placed'
      BY <2>1, <2>2, <2>3 DEF Placed, Registering
    <2> QED BY <2>5, <2>6
  <1>10. ASSUME NEW o \in Orders, BrokerFill(o) \/ BrokerClose(o) PROVE Guarded' /\ Placed'
    <2>0. order[o].live
      BY <1>10 DEF BrokerFill, BrokerClose
    <2>1. \A p \in Orders : /\ order'[p].phase = order[p].phase
                            /\ order'[p].owed = order[p].owed
                            /\ order'[p].live => order[p].live
      <3>1. \A p \in Orders : p # o => order'[p] = order[p]
        BY <1>10 DEF BrokerFill, BrokerClose, TypeOK
      <3>2. order'[o].phase = order[o].phase /\ order'[o].owed = order[o].owed
        BY <1>10 DEF BrokerFill, BrokerClose, TypeOK, Order
      <3> QED BY <2>0, <3>1, <3>2
    <2>2. UNCHANGED <<pending, lapsed, thread>>
      BY <1>10 DEF BrokerFill, BrokerClose
    <2>3. Guarded'
      BY <2>1, <2>2 DEF Guarded, InUse, Claimed
    <2>4. Placed'
      BY <2>1, <2>2 DEF Placed, Registering
    <2> QED BY <2>3, <2>4
  <1>11. ASSUME NEW o \in Orders, Deliver(o) PROVE Guarded' /\ Placed'
    <2>1. order[o].phase = "tracked" /\ order[o].filled = order[o].qty /\ ~order[o].live
      <3>1. order[o].phase = "tracked" /\ order[o].filled = order[o].qty
        BY <1>11 DEF Deliver, TypeOK
      <3>2. ~(order[o].filled < order[o].qty)
        BY <3>1 DEF TypeOK, Order
      <3> QED BY <3>1, <3>2 DEF Sized
    <2>2. /\ order'[o].phase = "done" /\ ~order'[o].live
          /\ \A p \in Orders : p # o => order'[p] = order[p]
      BY <1>11, <2>1 DEF Deliver, TypeOK, Order
    <2>3. UNCHANGED <<pending, lapsed, thread>>
      BY <1>11 DEF Deliver
    <2>4. InUse(o)
      BY <2>1 DEF InUse
    <2>5. Guarded'
      BY <2>2, <2>3, <2>4 DEF Guarded, InUse, Claimed
    <2>6. Placed'
      BY <2>1, <2>2, <2>3 DEF Placed, Registering
    <2> QED BY <2>5, <2>6
  <1>12. ASSUME NEW o \in Orders, Book(o) \/ TimedOut(o) PROVE Guarded' /\ Placed'
    <2>1. InUse(o) /\ order[o].phase # "sent"
      BY <1>12 DEF Book, TimedOut, InUse, Placed
    <2>2. /\ order'[o].phase = "done" /\ order'[o].owed = 0 /\ ~order'[o].live
          /\ \A p \in Orders : p # o => order'[p] = order[p]
      <3>1. CASE Book(o)
        BY <3>1 DEF Book, Placed, TypeOK, Order
      <3>2. CASE TimedOut(o)
        <4>1. PICK l \in {FALSE, order[o].live} :
                  /\ order' = [order EXCEPT ![o].phase = "done", ![o].live = l]
                  /\ regular' = (regular /\ ~l)
          BY <3>2 DEF TimedOut
        <4>2. ~l /\ order[o].owed = 0
          BY <3>2, <4>1 DEF TimedOut
        <4> QED BY <4>1, <4>2 DEF TypeOK, Order
      <3> QED BY <1>12, <3>1, <3>2
    <2>3. ~lapsed' /\ thread' = thread
      BY <1>12 DEF Book, TimedOut, Unmark
    <2>4. Guarded'
      BY <2>1, <2>2, <2>3 DEF Guarded, InUse, Claimed
    <2>5. Placed'
      BY <2>1, <2>2, <2>3 DEF Placed, Registering
    <2> QED BY <2>4, <2>5
  <1>13. ASSUME NEW o \in Orders, Terminated(o) PROVE Guarded' /\ Placed'
    <2>1. /\ order'[o].phase = "done" /\ order'[o].owed = 0 /\ ~order'[o].live
          /\ \A p \in Orders : p # o => order'[p] = order[p]
      BY <1>13 DEF Terminated, TypeOK, Order
    <2>2. order[o].phase # "sent" /\ thread' = thread /\ ~lapsed'
      BY <1>13 DEF Terminated, Unmark, Guarded
    <2>3. Placed'
      BY <2>1, <2>2 DEF Placed, Registering
    <2>4. CASE AlreadyClosed(o)
      <3>1. order[o].phase = "done" /\ order[o].owed = 0 /\ UNCHANGED <<pending, lapsed>>
        BY <1>13, <2>4 DEF Terminated, AlreadyClosed
      <3>2. \A p \in Orders : InUse(p)' => InUse(p)
        BY <2>1, <3>1 DEF InUse
      <3> QED BY <2>2, <2>3, <3>1, <3>2 DEF Guarded, Claimed
    <2>5. CASE ~AlreadyClosed(o)
      <3>1. InUse(o)
        BY <1>13, <2>5 DEF Terminated, AlreadyClosed, InUse
      <3> QED BY <2>1, <2>2, <2>3, <3>1 DEF Guarded, InUse, Claimed
    <2> QED BY <2>3, <2>4, <2>5
  <1>14. ~Lapse
    BY DEF Lapse
  <1> QED
    BY <1>1, <1>2, <1>3, <1>4, <1>5, <1>6, <1>7, <1>8, <1>9, <1>10, <1>11, <1>12, <1>13,
       <1>14 DEF Next, Answer

\* Nothing makes an irregular history regular again.
LEMMA RegularOnce == TypeOK /\ [Next]_vars => (regular' => regular)
  BY DEF Next, vars, TypeOK, ScanStart, SweepStart, Lapse, Size, Claim, Answer, Refused,
         Place, PlaceUnanswered, Register, BrokerFill, BrokerClose, Deliver, Book,
         Terminated, TimedOut

\* While every fill comes whole, locks outlast their orders and cancels work,
\* the scan and the sweep have at most one live order for the symbol.
THEOREM OneLiveOrderCorrect == Spec => []OneLiveOrder
  <1>1. Turns /\ [Next]_vars => Turns'
    BY NextType, NextSized, NextGuarded, RegularOnce DEF Turns
  <1>2. Turns => OneLiveOrder
    BY DEF Turns, Guarded, Placed, InUse, OneLiveOrder
  <1> QED BY InitTurns, <1>1, <1>2, PTL DEF Spec

(***************************************************************************)
(* The sweep and its own sells.  Nothing regular is assumed: fills come in *)
(* parts, locks lapse, callbacks are late and cancels fail.                *)
(***************************************************************************)
\* A sell of the sweep that is still live and that the timeout did not close.
SweepSelling(o) == order[o].by = Sweep /\ order[o].live /\ order[o].phase # "done"

\* Only an order sent is live, and the sweep works on a new sell only while it has
\* no other: check_stops saw neither an open nor an unanswered one, and one sent
\* and not registered keeps the sweep's thread.
SweepSells ==
    /\ \A o \in Orders : order[o].phase = "none" => ~order[o].live
    /\ \A t \in Threads : Registering(t) =>
          /\ thread[t].order \in Orders
          /\ order[thread[t].order].phase = "sent" /\ order[thread[t].order].by = t
    /\ \A o \in Orders : order[o].phase = "sent" /\ order[o].by = Sweep =>
          Registering(Sweep) /\ thread[Sweep].order = o
    /\ thread[Sweep].at \in {"sizing", "sized", "claimed"} =>
          \A o \in Orders : ~SweepSelling(o)

LEMMA InitSells == Init => SweepSells
  BY DEF Init, SweepSells, SweepSelling, Registering, Idle, NoOrder, Threads, Sweep, Scan

\* What the broker and the poller do to an order that was sent.
Mended(o) ==
    BrokerFill(o) \/ BrokerClose(o) \/ Deliver(o) \/ Book(o) \/ Terminated(o) \/ TimedOut(o)

LEMMA OrderMended ==
    ASSUME TypeOK, NEW o \in Orders, Mended(o),
           \A p \in Orders : order[p].phase = "none" => ~order[p].live
    PROVE  /\ thread' = thread
           /\ \A p \in Orders :
                 /\ order'[p].by = order[p].by
                 /\ order'[p].live => order[p].live
                 /\ \/ order'[p].phase = order[p].phase
                    \/ order'[p].phase = "done" /\ order[p].phase = "tracked"
  <1> USE DEF TypeOK, Order
  <1>1. CASE BrokerFill(o)
    BY <1>1 DEF BrokerFill
  <1>2. CASE BrokerClose(o)
    BY <1>2 DEF BrokerClose
  <1>3. CASE Deliver(o)
    BY <1>3 DEF Deliver
  <1>4. CASE Book(o)
    BY <1>4 DEF Book
  <1>5. CASE Terminated(o)
    BY <1>5 DEF Terminated
  <1>6. CASE TimedOut(o)
    BY <1>6 DEF TimedOut
  <1> QED BY <1>1, <1>2, <1>3, <1>4, <1>5, <1>6 DEF Mended

LEMMA NextSells == TypeOK /\ SweepSells /\ [Next]_vars => SweepSells'
  <1> SUFFICES ASSUME TypeOK, SweepSells, [Next]_vars PROVE SweepSells'
    OBVIOUS
  <1>0. Scan \in Threads /\ Sweep \in Threads /\ Scan # Sweep /\ Threads = {Scan, Sweep}
    BY RecordTypes DEF Threads
  <1> USE <1>0 DEF tracker, SweepSells, SweepSelling, Registering
  <1>1. CASE ScanStart
    BY <1>1, ScanMoves
  <1>2. CASE SweepStart
    BY <1>2 DEF SweepStart, Busy, TypeOK, Order, Idle, Thread
  <1>3. CASE Lapse \/ UNCHANGED vars
    BY <1>3 DEF Lapse, vars
  <1>4. ASSUME NEW t \in Threads, Size(t) PROVE SweepSells'
    BY <1>4 DEF Size, TypeOK, Idle, Thread
  <1>5. ASSUME NEW t \in Threads, Claim(t) PROVE SweepSells'
    BY <1>5 DEF Claim, Goto, TypeOK, Idle, Thread
  <1>6. ASSUME NEW t \in Threads, Refused(t) PROVE SweepSells'
    BY <1>6 DEF Refused, TypeOK, Idle, Thread
  <1>7. ASSUME NEW t \in Threads, Place(t) PROVE SweepSells'
    <2>1. PICK o \in Orders : /\ order' = [order EXCEPT ![o] = Sent(t, "sent", TRUE)]
                              /\ thread' = [thread EXCEPT ![t].at = "sent", ![t].order = o]
                              /\ Fresh(o)
      BY <1>7 DEF Place
    <2>2. /\ order'[o].phase = "sent" /\ order'[o].by = t /\ order'[o].live
          /\ \A p \in Orders : p # o => order'[p] = order[p]
      BY <2>1 DEF TypeOK, Sent
    <2>3. /\ thread'[t].at = "sent" /\ thread'[t].order = o
          /\ \A u \in Threads : u # t => thread'[u] = thread[u]
          /\ thread[t].at = "claimed" /\ order[o].phase = "none"
      BY <1>7, <2>1 DEF TypeOK, Thread, Place, Fresh
    <2> QED BY <2>2, <2>3
  <1>8. ASSUME NEW t \in Threads, PlaceUnanswered(t) PROVE SweepSells'
    <2>1. PICK o \in Orders, l \in BOOLEAN :
              order' = [order EXCEPT ![o] = Sent(t, "orphan", l)] /\ Fresh(o)
      BY <1>8 DEF PlaceUnanswered
    <2>2. /\ order'[o].phase = "orphan" /\ order'[o].by = t /\ order[o].phase = "none"
          /\ \A p \in Orders : p # o => order'[p] = order[p]
      BY <2>1 DEF TypeOK, Sent, Fresh
    <2>3. /\ thread'[t].at = "idle" /\ thread[t].at = "claimed"
          /\ \A u \in Threads : u # t => thread'[u] = thread[u]
      BY <1>8 DEF PlaceUnanswered, TypeOK, Idle
    <2> QED BY <2>2, <2>3
  <1>9. ASSUME NEW t \in Threads, Register(t) PROVE SweepSells'
    <2>1. /\ thread'[t].at = "idle" /\ thread[t].at = "sent"
          /\ \A u \in Threads : u # t => thread'[u] = thread[u]
      BY <1>9 DEF Register, TypeOK, Idle
    <2>2. /\ thread[t].order \in Orders /\ order'[thread[t].order].phase = "tracked"
          /\ \A p \in Orders : p # thread[t].order => order'[p] = order[p]
          /\ \A p \in Orders : order'[p].by = order[p].by /\ order'[p].live = order[p].live
      BY <1>9, <2>1 DEF Register, TypeOK, Order
    <2> QED BY <2>1, <2>2
  <1>10. ASSUME NEW o \in Orders, Mended(o) PROVE SweepSells'
    BY <1>10, OrderMended
  <1> QED
    BY <1>1, <1>2, <1>3, <1>4, <1>5, <1>6, <1>7, <1>8, <1>9, <1>10
    DEF Next, Answer, Mended

\* An order is new only when one of the two threads places it, with its own name.
LEMMA NewIsPlaced ==
    ASSUME TypeOK, SweepSells, [Next]_vars, NEW o \in Orders, New(o)
    PROVE  order'[o].by \in Threads /\ thread[order'[o].by].at = "claimed"
  <1>1. ASSUME NEW t \in Threads, Place(t) \/ PlaceUnanswered(t)
        PROVE  order'[o].by \in Threads /\ thread[order'[o].by].at = "claimed"
    <2>1. PICK p \in Orders, to \in {"sent", "orphan"}, l \in BOOLEAN :
              order' = [order EXCEPT ![p] = Sent(t, to, l)]
      BY <1>1 DEF Place, PlaceUnanswered
    <2>2. o = p /\ order'[o].by = t
      BY <2>1 DEF New, TypeOK, Sent
    <2> QED BY <1>1, <2>2 DEF Place, PlaceUnanswered
  <1>2. ASSUME NEW t \in Threads PROVE ~Register(t)
    BY DEF Register, New, SweepSells, Registering, TypeOK, Order
  <1>3. ASSUME NEW p \in Orders PROVE ~Mended(p)
    BY OrderMended DEF New, SweepSells
  <1>4. ~UNCHANGED order
    BY DEF New
  <1> QED
    BY <1>1, <1>2, <1>3, <1>4
    DEF Next, Answer, Mended, vars, ScanStart, SweepStart, Lapse, Size, Claim, Refused

\* The sweep never sells beside a sell of its own that is live, unless the
\* timeout had given that one up, whatever else happens to the symbol's orders.
THEOREM SweepSellsOnce == Spec => SweepNotTwice
  <1>1. TypeOK /\ SweepSells /\ [Next]_vars =>
            [\A o, p \in Orders :
                New(o) /\ order'[o].by = Sweep /\ order[p].by = Sweep /\ order[p].live
                   => order[p].phase = "done"]_vars
    BY NewIsPlaced DEF SweepSells, SweepSelling
  <1>2. Init => TypeOK /\ SweepSells
    BY InitType, InitSells
  <1>3. TypeOK /\ SweepSells /\ [Next]_vars => (TypeOK /\ SweepSells)'
    BY NextType, NextSells
  <1> QED BY <1>1, <1>2, <1>3, PTL DEF Spec, SweepNotTwice

====
