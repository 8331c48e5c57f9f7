---- MODULE FillPollerProofs ----
(***************************************************************************)
(* What the processing lock of the fill poller buys, for every order size, *)
(* every number of reconciler threads and every number of entries: type    *)
(* correctness and the accounting of each entry; for an order that is      *)
(* registered once, that no share is applied twice and that the poller     *)
(* implements FillDelivery; and, with one reconciler thread at a time,     *)
(* that the timeout never closes a settled order.  After that, the tick    *)
(* that decides whom the poller asks (PollTick).                           *)
(***************************************************************************)
EXTENDS FillPoller, PollTick, FiniteSetTheorems, TLAPS

(***************************************************************************)
(* Type correctness                                                        *)
(***************************************************************************)
LEMMA InitType == Init => TypeOK
  <1> SUFFICES ASSUME Init PROVE TypeOK
    OBVIOUS
  <1>1. broker \in Answer /\ answer \in [Threads -> Answer]
        /\ seen \in [Entries -> BrokerStatus]
    BY QtyAssumption DEF Init, Answer, BrokerStatus, Terminal, Negative
  <1>2. made \in Entries /\ live \in Entries \cup {NoEntry} /\ on \in [Threads -> Entries]
    BY EntryAssumption DEF Init, Entries
  <1>3. /\ mark \in [Entries -> 0 .. Qty]
        /\ base \in [Entries -> Nat]
        /\ handed \in [Entries -> Nat]
        /\ counted \in Nat
    BY QtyAssumption DEF Init
  <1>4. /\ fired \in [Entries -> BOOLEAN]
        /\ guarded \in [Entries -> BOOLEAN]
        /\ expired \in [Entries -> BOOLEAN]
        /\ overdue \in BOOLEAN
    BY DEF Init
  <1>5. /\ gaveUp \in [Entries -> BOOLEAN]
        /\ lock \in [Entries -> Threads \cup {Nobody}]
        /\ at \in [Threads -> Locations]
    BY DEF Init, Locations
  <1>6. /\ row \in [status : {"open", "filled", "closed"}, filled : 0 .. Qty]
        /\ restore \in [busy : BOOLEAN, filled : 0 .. Qty, found : Entries \cup {NoEntry}]
    BY QtyAssumption DEF Init, Started
  <1> QED BY <1>1, <1>2, <1>3, <1>4, <1>5, <1>6 DEF TypeOK

LEMMA NextType == TypeOK /\ [Next]_vars => TypeOK'
  <1> SUFFICES ASSUME TypeOK, [Next]_vars PROVE TypeOK'
    OBVIOUS
  <1> USE DEF TypeOK, entryVars, threadVars, Goto
  <1>1. CASE BrokerFill
    BY <1>1, QtyAssumption DEF BrokerFill, Answer, BrokerStatus, Terminal, Negative
  <1>2. CASE BrokerClose
    BY <1>2 DEF BrokerClose, Answer, BrokerStatus, Terminal, Negative
  <1>3. CASE Expire
    BY <1>3 DEF Expire, NoEntry
  <1>4. CASE RestoreRead
    BY <1>4 DEF RestoreRead, Starting
  <1>5. CASE RegisterNew
    <2>1. made + 1 \in Entries
      BY <1>5, EntryAssumption DEF RegisterNew, Entries
    <2>2. restore.filled \in 0 .. Qty /\ restore.filled \in Nat
      BY QtyAssumption
    <2>3. /\ mark' \in [Entries -> 0 .. Qty]
          /\ base' \in [Entries -> Nat]
          /\ guarded' \in [Entries -> BOOLEAN]
      BY <1>5, <2>2 DEF RegisterNew
    <2>4. restore' \in [busy : BOOLEAN, filled : 0 .. Qty, found : Entries \cup {NoEntry}]
      BY <1>5 DEF RegisterNew, Started
    <2>5. made' \in Entries /\ live' \in Entries \cup {NoEntry}
      BY <1>5, <2>1 DEF RegisterNew
    <2> QED BY <1>5, <2>3, <2>4, <2>5 DEF RegisterNew
  <1>6. CASE RegisterInPlace
    <2> DEFINE e == restore.found
    <2>1. e \in Entries
      BY <1>6 DEF RegisterInPlace
    <2>2. Larger(mark[e], restore.filled) \in 0 .. Qty
          /\ Larger(mark[e], restore.filled) >= mark[e]
      BY <2>1, QtyAssumption DEF Larger
    <2>3. mark'[e] = Larger(mark[e], restore.filled)
      BY <1>6, <2>1 DEF RegisterInPlace
    <2>4. base[e] + (mark'[e] - mark[e]) \in Nat
      BY <2>1, <2>2, <2>3, QtyAssumption
    <2> QED BY <1>6, <2>1, <2>2, <2>4 DEF RegisterInPlace, Started, BrokerStatus
  <1>7. CASE PollLookup
    BY <1>7 DEF PollLookup, Locations, Threads, NoEntry
  <1>8. CASE PollAbsent
    BY <1>8 DEF PollAbsent, Locations, Threads, NoEntry
  <1>9. CASE EndTick
    BY <1>9 DEF EndTick, Locations, Threads
  <1>10. CASE TimeoutBegin
    BY <1>10 DEF TimeoutBegin, Locations, Threads
  <1>11. CASE TimeoutClose
    BY <1>11 DEF TimeoutClose, CloseRow, Locations, Threads, Answer, BrokerStatus,
                 Terminal, Negative
  <1>12. ASSUME NEW t \in Threads, ResyncRead(t) PROVE TypeOK'
    BY <1>12 DEF ResyncRead, Locations
  <1>13. ASSUME NEW t \in Threads, ResyncFind(t) PROVE TypeOK'
    BY <1>13 DEF ResyncFind, Locations
  <1>14. ASSUME NEW t \in Threads, TakeLock(t) PROVE TypeOK'
    BY <1>14 DEF TakeLock, Held, Answer, Locations
  <1>15. ASSUME NEW t \in Threads, HandOver(t) PROVE TypeOK'
    <2>1. on[t] \in Entries /\ Held(t).filled \in 0 .. Qty /\ Increment(t) \in Nat
      BY <1>15, QtyAssumption DEF HandOver, Held, Increment, Answer
    <2>2. base' \in [Entries -> Nat] /\ handed' \in [Entries -> Nat] /\ counted' \in Nat
      BY <1>15, <2>1 DEF HandOver
    <2>3. row' \in [status : {"open", "filled", "closed"}, filled : 0 .. Qty]
      BY <1>15, <2>1 DEF HandOver
    <2> QED BY <1>15, <2>2, <2>3 DEF HandOver, Locations
  <1>16. ASSUME NEW t \in Threads, HandOverFails(t) PROVE TypeOK'
    BY <1>16 DEF HandOverFails, Release, Done, Locations
  <1>17. ASSUME NEW t \in Threads, SettleFill(t) PROVE TypeOK'
    BY <1>17 DEF SettleFill, Held, Answer, Release, Done, Locations
  <1>18. ASSUME NEW t \in Threads, SkipFill(t) PROVE TypeOK'
    BY <1>18 DEF SkipFill, Release, Done, Locations
  <1>19. ASSUME NEW t \in Threads, ApplyTerminal(t) PROVE TypeOK'
    BY <1>19 DEF ApplyTerminal, CloseRow, Release, Done, Locations
  <1>20. ASSUME NEW t \in Threads, ApplyOpen(t) PROVE TypeOK'
    BY <1>20 DEF ApplyOpen, Release, Done, Locations
  <1>22. CASE RegisterFind
    BY <1>22 DEF RegisterFind
  <1>21. CASE UNCHANGED vars
    BY <1>21 DEF vars
  <1> QED
    BY <1>1, <1>2, <1>3, <1>4, <1>5, <1>6, <1>7, <1>8, <1>9, <1>10, <1>11, <1>12, <1>13,
       <1>14, <1>15, <1>16, <1>17, <1>18, <1>19, <1>20, <1>21, <1>22 DEF Next, Apply

\* The state of every thread, entry and row keeps its type, whatever the
\* threads of the poller and the reconciler do.
THEOREM TypeCorrect == Spec => []TypeOK
  BY InitType, NextType, PTL DEF Spec

(***************************************************************************)
(* The accounting of an entry.  EntryAccounts says nothing of an entry     *)
(* somebody is working on; the strengthening says what holds there, who    *)
(* the holder is, and that entries not made yet are untouched.             *)
(***************************************************************************)
Inside == {"locked", "called", "closing"}

\* Entries not made yet are untouched, and nobody works on one.
Untouched ==
    /\ \A e \in Entries : e > made => lock[e] = Nobody /\ handed[e] = 0
    /\ \A t \in Threads : on[t] <= made
    /\ live # NoEntry => live <= made

\* A lock is held by a thread that is inside the entry it belongs to.
HolderInside ==
    \A e \in Entries :
        lock[e] # Nobody => on[lock[e]] = e /\ at[lock[e]] \in Inside

\* While a thread is inside an entry, the entry has handed over its watermark;
\* between the callback and the watermark, the total of the answer.
HolderAccounts ==
    \A t \in Threads :
        /\ at[t] \in {"locked", "closing"} =>
              base[on[t]] + handed[on[t]] = mark[on[t]]
        /\ at[t] = "called" => base[on[t]] + handed[on[t]] = answer[t].filled

Accounting ==
    /\ TypeOK
    /\ Untouched
    /\ OneInside
    /\ HolderInside
    /\ EntryAccounts
    /\ HolderAccounts

LEMMA InitAccounting == Init => Accounting
  <1> SUFFICES ASSUME Init PROVE Accounting
    OBVIOUS
  <1>1. Untouched /\ OneInside /\ HolderInside
    BY EntryAssumption DEF Init, Untouched, OneInside, HolderInside, Entries
  <1>2. EntryAccounts /\ HolderAccounts
    BY DEF Init, EntryAccounts, HolderAccounts
  <1> QED BY <1>1, <1>2, InitType DEF Accounting

LEMMA NextAccounting == Accounting /\ [Next]_vars => Accounting'
  <1> SUFFICES ASSUME Accounting, [Next]_vars PROVE Accounting'
    OBVIOUS
  <1>z. Nobody \notin Threads
    BY ThreadAssumption DEF Threads
  <1>y. made \in Nat /\ \A t \in Threads : on[t] \in Nat
    BY DEF Accounting, TypeOK, Entries
  <1> USE <1>z DEF Accounting, Untouched, OneInside, HolderInside, EntryAccounts,
          HolderAccounts, TypeOK, Inside, LockFree, Goto, entryVars, threadVars
  <1>0. TypeOK'
    BY NextType
  <1>1. CASE BrokerFill
    BY <1>0, <1>1 DEF BrokerFill
  <1>2. CASE BrokerClose
    BY <1>0, <1>2 DEF BrokerClose
  <1>3. CASE Expire
    BY <1>0, <1>3 DEF Expire
  <1>4. CASE RestoreRead
    BY <1>0, <1>4 DEF RestoreRead
  <1>5. CASE RegisterNew
    <2>1. made + 1 \in Entries /\ handed[made + 1] = 0 /\ lock[made + 1] = Nobody
      BY <1>5, EntryAssumption DEF RegisterNew, Entries
    <2>2. EntryAccounts'
      BY <1>5, <2>1, QtyAssumption DEF RegisterNew
    <2>6. \A t \in Threads : on[t] # made + 1
      BY DEF Entries
    <2>3. HolderAccounts'
      BY <1>5, <2>1, <2>6 DEF RegisterNew
    <2>4. Untouched'
      BY <1>5, <2>1 DEF RegisterNew, Entries
    <2>5. OneInside' /\ HolderInside'
      BY <1>5 DEF RegisterNew
    <2> QED BY <1>0, <2>2, <2>3, <2>4, <2>5
  <1>6. CASE RegisterInPlace
    <2> DEFINE e == restore.found
    <2>1. e \in Entries /\ lock[e] = Nobody
      BY <1>6 DEF RegisterInPlace
    <2>2. Larger(mark[e], restore.filled) \in Nat
      BY <2>1, QtyAssumption DEF Larger
    <2>3. mark'[e] = Larger(mark[e], restore.filled)
      BY <1>6, <2>1 DEF RegisterInPlace
    <2>4. base'[e] + handed'[e] = mark'[e]
      BY <1>6, <2>1, <2>2, <2>3, QtyAssumption DEF RegisterInPlace
    <2>5. EntryAccounts'
      BY <1>6, <2>1, <2>4 DEF RegisterInPlace
    <2>6. \A t \in Threads : at[t] \in Inside => on[t] # e
      BY <2>1
    <2>8. HolderAccounts'
      BY <1>6, <2>1, <2>6 DEF RegisterInPlace
    <2>7. Untouched' /\ OneInside' /\ HolderInside'
      BY <1>6 DEF RegisterInPlace
    <2> QED BY <1>0, <2>5, <2>8, <2>7
  <1>7. CASE PollLookup
    BY <1>0, <1>7 DEF PollLookup, Threads
  <1>8. CASE PollAbsent
    BY <1>0, <1>8 DEF PollAbsent, Threads
  <1>9. CASE EndTick
    BY <1>0, <1>9 DEF EndTick, Threads
  <1>10. CASE TimeoutBegin
    <2>1. Untouched' /\ OneInside'
      BY <1>10, <1>y DEF TimeoutBegin, Threads
    <2>2. HolderInside'
      BY <1>10 DEF TimeoutBegin, Threads
    <2>3. EntryAccounts'
      BY <1>10 DEF TimeoutBegin, Threads
    <2>4. HolderAccounts'
      BY <1>10 DEF TimeoutBegin, Threads
    <2> QED BY <1>0, <2>1, <2>2, <2>3, <2>4
  <1>11. CASE TimeoutClose
    BY <1>0, <1>11 DEF TimeoutClose, Threads
  <1>12. ASSUME NEW t \in Threads, ResyncRead(t) PROVE Accounting'
    BY <1>0, <1>12 DEF ResyncRead
  <1>13. ASSUME NEW t \in Threads, ResyncFind(t) PROVE Accounting'
    BY <1>0, <1>13 DEF ResyncFind
  <1>14. ASSUME NEW t \in Threads, TakeLock(t) PROVE Accounting'
    <2>1. Untouched' /\ OneInside'
      BY <1>14, <1>y DEF TakeLock
    <2>2. HolderInside'
      BY <1>14 DEF TakeLock
    <2>3. EntryAccounts'
      BY <1>14 DEF TakeLock
    <2>4. HolderAccounts'
      BY <1>14 DEF TakeLock
    <2> QED BY <1>0, <2>1, <2>2, <2>3, <2>4
  <1>15. ASSUME NEW t \in Threads, HandOver(t) PROVE Accounting'
    <2>1. Untouched' /\ OneInside'
      BY <1>15 DEF HandOver, Held, Increment
    <2>2. HolderInside'
      BY <1>15 DEF HandOver, Held, Increment
    <2>3. EntryAccounts'
      BY <1>15 DEF HandOver
    <2>4. /\ on[t] \in Entries
          /\ base[on[t]] + handed[on[t]] = mark[on[t]]
          /\ base[on[t]] \in Nat /\ handed[on[t]] \in Nat /\ mark[on[t]] \in Nat
          /\ answer[t].filled \in Nat
      BY <1>15, QtyAssumption DEF HandOver, Answer
    <2>5. \/ /\ base' = [base EXCEPT ![on[t]] = @ + (answer[t].filled - mark[on[t]])]
             /\ handed' = handed
          \/ /\ handed' = [handed EXCEPT ![on[t]] = @ + (answer[t].filled - mark[on[t]])]
             /\ base' = base
      BY <1>15 DEF HandOver, Held, Increment
    <2>6. base'[on[t]] + handed'[on[t]] = answer[t].filled
      BY <2>4, <2>5
    <2>7. \A u \in Threads : u # t /\ at[u] \in Inside => on[u] # on[t]
      BY <1>15 DEF HandOver
    <2>8. HolderAccounts'
      BY <1>15, <2>4, <2>5, <2>6, <2>7 DEF HandOver
    <2> QED BY <1>0, <2>1, <2>2, <2>3, <2>8
  <1>16. ASSUME NEW t \in Threads, HandOverFails(t) PROVE Accounting'
    BY <1>0, <1>16 DEF HandOverFails, Release, Done
  <1>17. ASSUME NEW t \in Threads, SettleFill(t) PROVE Accounting'
    <2>1. Untouched' /\ OneInside'
      BY <1>17 DEF SettleFill, Held, Release, Done
    <2>2. HolderInside'
      BY <1>17 DEF SettleFill, Held, Release, Done
    <2>3. EntryAccounts'
      BY <1>17 DEF SettleFill, Held, Release, Done
    <2>4. HolderAccounts'
      BY <1>17 DEF SettleFill, Held, Release, Done
    <2> QED BY <1>0, <2>1, <2>2, <2>3, <2>4
  <1>18. ASSUME NEW t \in Threads, SkipFill(t) PROVE Accounting'
    <2>1. Untouched' /\ OneInside'
      BY <1>18 DEF SkipFill, Release, Done
    <2>2. HolderInside'
      BY <1>18 DEF SkipFill, Release, Done
    <2>3. EntryAccounts'
      BY <1>18 DEF SkipFill, Release, Done
    <2>4. HolderAccounts'
      BY <1>18 DEF SkipFill, Release, Done
    <2> QED BY <1>0, <2>1, <2>2, <2>3, <2>4
  <1>19. ASSUME NEW t \in Threads, ApplyTerminal(t) PROVE Accounting'
    <2>1. Untouched' /\ OneInside'
      BY <1>19 DEF ApplyTerminal, Release, Done
    <2>2. HolderInside'
      BY <1>19 DEF ApplyTerminal, Release, Done
    <2>3. EntryAccounts'
      BY <1>19 DEF ApplyTerminal, Release, Done
    <2>4. HolderAccounts'
      BY <1>19 DEF ApplyTerminal, Release, Done
    <2> QED BY <1>0, <2>1, <2>2, <2>3, <2>4
  <1>20. ASSUME NEW t \in Threads, ApplyOpen(t) PROVE Accounting'
    BY <1>0, <1>20 DEF ApplyOpen, Release, Done
  <1>22. CASE RegisterFind
    BY <1>0, <1>22 DEF RegisterFind
  <1>21. CASE UNCHANGED vars
    BY <1>0, <1>21 DEF vars
  <1> QED
    BY <1>1, <1>2, <1>3, <1>4, <1>5, <1>6, <1>7, <1>8, <1>9, <1>10, <1>11, <1>12, <1>13,
       <1>14, <1>15, <1>16, <1>17, <1>18, <1>19, <1>20, <1>21, <1>22 DEF Next, Apply

\* An entry nobody is working on has handed over exactly the shares between its
\* seed and its watermark (_apply_update under processing_lock).
THEOREM AccountsCorrect == Spec => []EntryAccounts
  <1>1. Accounting => EntryAccounts
    BY DEF Accounting
  <1> QED BY <1>1, InitAccounting, NextAccounting, PTL DEF Spec

\* Nothing the worker has read or recorded is ahead of the broker.
Behind ==
    /\ \A e \in Entries : mark[e] <= broker.filled
    /\ \A t \in Threads : answer[t].filled <= broker.filled
    /\ row.filled <= broker.filled
    /\ restore.filled <= broker.filled

\* The broker never takes a fill back.
LEMMA BrokerGrows ==
    ASSUME TypeOK, [Next]_vars
    PROVE  broker'.filled >= broker.filled
  <1> USE DEF TypeOK, Answer
  <1>1. CASE BrokerFill
    BY <1>1, QtyAssumption DEF BrokerFill
  <1>2. CASE BrokerClose
    BY <1>2 DEF BrokerClose
  <1>3. CASE TimeoutClose
    BY <1>3 DEF TimeoutClose
  <1>4. CASE UNCHANGED broker
    BY <1>4
  <1>5. \/ BrokerFill \/ BrokerClose \/ TimeoutClose \/ UNCHANGED broker
    BY DEF Next, Apply, vars, Expire, RestoreRead, RegisterNew, RegisterFind,
           RegisterInPlace, PollLookup, PollAbsent, EndTick, TimeoutBegin, ResyncRead, ResyncFind, TakeLock, HandOver,
           HandOverFails, SettleFill, SkipFill, ApplyTerminal, ApplyOpen
  <1> QED BY <1>1, <1>2, <1>3, <1>4, <1>5

LEMMA InitBehind == Init => Behind
  BY DEF Init, Behind, Started

LEMMA NextBehind == TypeOK /\ Behind /\ [Next]_vars => Behind'
  <1> SUFFICES ASSUME TypeOK, Behind, [Next]_vars PROVE Behind'
    OBVIOUS
  <1>0. /\ broker'.filled >= broker.filled
        /\ broker'.filled \in Nat /\ broker.filled \in Nat
        /\ \A e \in Entries : mark[e] \in Nat
        /\ \A t \in Threads : answer[t].filled \in Nat
        /\ row.filled \in Nat /\ restore.filled \in Nat
    BY BrokerGrows, NextType, QtyAssumption DEF TypeOK, Answer
  <1> USE <1>0 DEF Behind, TypeOK, Answer, entryVars, threadVars
  <1>1. CASE BrokerFill
    BY <1>1 DEF BrokerFill
  <1>2. CASE BrokerClose
    BY <1>2 DEF BrokerClose
  <1>3. CASE Expire
    BY <1>3 DEF Expire
  <1>4. CASE RestoreRead
    BY <1>4 DEF RestoreRead, Starting
  <1>5. CASE RegisterNew
    BY <1>5 DEF RegisterNew, Started
  <1>6. CASE RegisterInPlace
    BY <1>6 DEF RegisterInPlace, Larger, Started
  <1>7. CASE PollLookup
    BY <1>7 DEF PollLookup
  <1>8. CASE PollAbsent
    BY <1>8 DEF PollAbsent
  <1>9. CASE EndTick
    BY <1>9 DEF EndTick
  <1>10. CASE TimeoutBegin
    BY <1>10 DEF TimeoutBegin
  <1>11. CASE TimeoutClose
    BY <1>11 DEF TimeoutClose, CloseRow
  <1>12. ASSUME NEW t \in Threads, ResyncRead(t) PROVE Behind'
    BY <1>12 DEF ResyncRead
  <1>13. ASSUME NEW t \in Threads, ResyncFind(t) PROVE Behind'
    BY <1>13 DEF ResyncFind
  <1>14. ASSUME NEW t \in Threads, TakeLock(t) PROVE Behind'
    BY <1>14 DEF TakeLock
  <1>15. ASSUME NEW t \in Threads, HandOver(t) PROVE Behind'
    BY <1>15 DEF HandOver, Held
  <1>16. ASSUME NEW t \in Threads, HandOverFails(t) PROVE Behind'
    BY <1>16 DEF HandOverFails
  <1>17. ASSUME NEW t \in Threads, SettleFill(t) PROVE Behind'
    BY <1>17 DEF SettleFill, Held
  <1>18. ASSUME NEW t \in Threads, SkipFill(t) PROVE Behind'
    BY <1>18 DEF SkipFill
  <1>19. ASSUME NEW t \in Threads, ApplyTerminal(t) PROVE Behind'
    BY <1>19 DEF ApplyTerminal, CloseRow
  <1>20. ASSUME NEW t \in Threads, ApplyOpen(t) PROVE Behind'
    BY <1>20 DEF ApplyOpen
  <1>22. CASE RegisterFind
    BY <1>22 DEF RegisterFind
  <1>21. CASE UNCHANGED vars
    BY <1>21 DEF vars
  <1> QED
    BY <1>1, <1>2, <1>3, <1>4, <1>5, <1>6, <1>7, <1>8, <1>9, <1>10, <1>11, <1>12, <1>13,
       <1>14, <1>15, <1>16, <1>17, <1>18, <1>19, <1>20, <1>21, <1>22 DEF Next, Apply

\* No entry, at rest or in somebody's hands, has handed over more than the
\* broker filled.
LEMMA HandedBehind ==
    ASSUME Accounting, Behind, NEW e \in Entries
    PROVE  handed[e] <= broker.filled
  <1> USE DEF Accounting, Behind
  <1>0. /\ base[e] \in Nat /\ handed[e] \in Nat /\ mark[e] \in Nat
        /\ broker.filled \in Nat /\ \A t \in Threads : answer[t].filled \in Nat
    BY QtyAssumption DEF TypeOK, Answer
  <1>1. CASE lock[e] = Nobody
    BY <1>0, <1>1 DEF EntryAccounts
  <1>2. CASE lock[e] # Nobody
    <2>1. lock[e] \in Threads
      BY <1>2 DEF TypeOK
    <2>2. \/ base[e] + handed[e] = mark[e]
          \/ base[e] + handed[e] = answer[lock[e]].filled
      BY <1>2, <2>1 DEF HolderInside, HolderAccounts, Inside
    <2> QED BY <1>0, <2>1, <2>2
  <1> QED BY <1>1, <1>2

(***************************************************************************)
(* An order that is registered once.  A second registration may be seeded  *)
(* from a row read too early, and then this fails: see the run that        *)
(* violates NoShareTwice.                                                  *)
(***************************************************************************)
OneEntry == MaxEntries = 1
HandedByOne == counted = handed[1]

LEMMA InitHandedByOne == Init => HandedByOne
  BY EntryAssumption DEF Init, HandedByOne, Entries

LEMMA NextHandedByOne ==
    ASSUME OneEntry, TypeOK, HandedByOne, [Next]_vars
    PROVE  HandedByOne'
  <1>0. Entries = {1} /\ handed \in [Entries -> Nat] /\ \A t \in Threads : on[t] = 1
    BY DEF OneEntry, TypeOK, Entries
  <1>1. ASSUME NEW t \in Threads, HandOver(t) PROVE HandedByOne'
    BY <1>0, <1>1 DEF HandOver, HandedByOne
  <1>2. \/ \E t \in Threads : HandOver(t)
        \/ UNCHANGED <<counted, handed>>
    BY DEF Next, Apply, vars, entryVars, BrokerFill, BrokerClose, Expire, RestoreRead,
           RegisterNew, RegisterFind, RegisterInPlace, PollLookup, PollAbsent, EndTick,
           TimeoutBegin, TimeoutClose, ResyncRead, ResyncFind, TakeLock, HandOverFails, SettleFill,
           SkipFill, ApplyTerminal, ApplyOpen
  <1> QED BY <1>1, <1>2 DEF HandedByOne

\* For an order registered once, the worker never applies more shares than the
\* broker filled, whatever the number of reconciler threads.
THEOREM RegisteredOnceNoShareTwice ==
    ASSUME OneEntry
    PROVE  Spec => []NoShareTwice
  <1>1. Init => Accounting /\ Behind /\ HandedByOne
    BY InitAccounting, InitBehind, InitHandedByOne
  <1>2. Accounting /\ Behind /\ HandedByOne /\ [Next]_vars
            => (Accounting /\ Behind /\ HandedByOne)'
    BY NextAccounting, NextBehind, NextHandedByOne DEF Accounting
  <1>3. Accounting /\ Behind /\ HandedByOne => NoShareTwice
    BY HandedBehind DEF NoShareTwice, HandedByOne, OneEntry, Entries
  <1> QED BY <1>1, <1>2, <1>3, PTL DEF Spec

LEMMA StepDelivers ==
    ASSUME TypeOK, NoShareTwice', [Next]_vars
    PROVE  [Delivery!Next]_(Delivery!vars)
  <1> USE DEF Delivery!Next, Delivery!vars, Delivery!Fill, Delivery!Count
  <1>0. broker.filled \in Nat /\ counted \in Nat
    BY QtyAssumption DEF TypeOK, Answer
  <1>1. CASE BrokerFill
    <2>1. \E n \in broker.filled + 1 .. Qty : broker'.filled = n
      BY <1>1 DEF BrokerFill
    <2> QED BY <1>1, <2>1 DEF BrokerFill, entryVars
  <1>2. ASSUME NEW t \in Threads, HandOver(t) PROVE [Delivery!Next]_(Delivery!vars)
    <2>1. CASE UNCHANGED counted
      BY <1>2, <2>1 DEF HandOver
    <2>2. CASE counted' = counted + Increment(t)
      <3>1. Increment(t) \in Nat /\ Increment(t) > 0
        BY <1>2, QtyAssumption DEF HandOver, Increment, Held, TypeOK, Answer
      <3>2. counted' \in counted + 1 .. broker.filled
        BY <1>0, <1>2, <2>2, <3>1 DEF HandOver, NoShareTwice
      <3> QED BY <1>2, <3>2 DEF HandOver
    <2> QED BY <1>2, <2>1, <2>2 DEF HandOver
  <1>3. CASE BrokerClose
    BY <1>3 DEF BrokerClose, entryVars, TypeOK, Answer
  <1>4. CASE TimeoutClose
    BY <1>4 DEF TimeoutClose, TypeOK, Answer
  <1>5. CASE UNCHANGED <<broker, counted>>
    BY <1>5
  <1>6. \/ BrokerFill \/ BrokerClose \/ TimeoutClose
        \/ \E t \in Threads : HandOver(t)
        \/ UNCHANGED <<broker, counted>>
    BY DEF Next, Apply, vars, entryVars, Expire, RestoreRead, RegisterNew, RegisterFind,
           RegisterInPlace, PollLookup, PollAbsent, EndTick, TimeoutBegin, ResyncRead, ResyncFind, TakeLock,
           HandOverFails, SettleFill, SkipFill, ApplyTerminal, ApplyOpen
  <1> QED BY <1>1, <1>2, <1>3, <1>4, <1>5, <1>6

\* An order registered once is delivered as FillDelivery promises.
THEOREM RegisteredOnceDelivers ==
    ASSUME OneEntry
    PROVE  Spec => DeliverySpec
  <1>1. Init => Delivery!Init
    BY DEF Init, Delivery!Init
  <1>2. Spec => [](TypeOK /\ NoShareTwice)
    BY TypeCorrect, RegisteredOnceNoShareTwice, PTL
  <1>3. TypeOK /\ NoShareTwice' /\ [Next]_vars => [Delivery!Next]_(Delivery!vars)
    BY StepDelivers
  <1> QED BY <1>1, <1>2, <1>3, PTL DEF Spec, DeliverySpec, Delivery!Spec

(***************************************************************************)
(* The timeout, for an order no strategy start registers again and with    *)
(* one reconciler thread at a time (PositionReconciler._reconcile_lock).   *)
(* With two the recheck of the timeout is not enough: the second may apply *)
(* an older answer after the one that settled the order.                   *)
(***************************************************************************)
OneResync == \A r, s \in Resyncers : r = s

\* Nothing registers the order again, so there is the one entry.
OnlyEntry ==
    /\ ~restore.busy /\ restore.found = NoEntry
    /\ live \in {1, NoEntry}
    /\ \A t \in Threads : on[t] = 1
    /\ \A e \in Entries : e # 1 => ~gaveUp[e] /\ lock[e] = Nobody

\* What the broker reports as filled in whole it reports as filled.
WholeIsFilled(a) == a.filled = Qty => a.status = "filled"

\* A settled order is tracked no more; a timeout that was already waiting for
\* the lock then finds it settled, as no reconciler still holds an answer.
Settled == fired[1] \/ mark[1] = Qty
SettledIsSeen ==
    /\ WholeIsFilled(broker) /\ \A t \in Threads : WholeIsFilled(answer[t])
    /\ Settled => live = NoEntry
    /\ at[Poll] = "timeout" /\ Settled =>
          seen[1] \in Terminal /\ \A r \in Resyncers : at[r] \in {"idle", "read"}
    /\ \A r \in Resyncers : at[r] \in {"idle", "read", "found", "locked", "called"}
    /\ at[Poll] # "read"
    /\ \A t \in Threads :
          /\ at[t] = "locked" => seen[1] = answer[t].status
          /\ at[t] = "called" => seen[1] = answer[t].status /\ IsFill(t)

SettledInv == Accounting /\ OnlyEntry /\ SettledIsSeen

LEMMA InitSettled == Init => SettledInv
  <1> SUFFICES ASSUME Init PROVE SettledInv
    OBVIOUS
  <1>1. 1 \in Entries
    BY EntryAssumption DEF Entries
  <1>2. OnlyEntry
    BY DEF Init, OnlyEntry, Started
  <1>3. SettledIsSeen
    BY <1>1, QtyAssumption, ThreadAssumption
    DEF Init, SettledIsSeen, Settled, WholeIsFilled, Threads
  <1> QED BY <1>2, <1>3, InitAccounting DEF SettledInv

LEMMA NextSettled ==
    ASSUME ~MayRestart, OneResync, SettledInv, [Next]_vars
    PROVE  SettledInv'
  <1>0. Accounting'
    BY NextAccounting DEF SettledInv
  <1>a. 1 \in Entries /\ Poll \in Threads /\ Poll \notin Resyncers /\ Nobody \notin Threads
        /\ \A t \in Threads : t = Poll \/ t \in Resyncers
    BY EntryAssumption, ThreadAssumption DEF Entries, Threads
  <1> SUFFICES OnlyEntry' /\ SettledIsSeen'
    BY <1>0 DEF SettledInv
  <1> USE <1>a
      DEF SettledInv, Accounting, OneInside, OnlyEntry, SettledIsSeen, Settled, WholeIsFilled,
          TypeOK, Held, IsFill, LockFree, Goto, entryVars, threadVars, NoEntry
  <1>1. CASE BrokerFill
    BY <1>1 DEF BrokerFill
  <1>2. CASE BrokerClose
    BY <1>2, QtyAssumption DEF BrokerClose, Answer, Terminal
  <1>3. CASE Expire
    BY <1>3 DEF Expire
  <1>4. ~RestoreRead /\ ~RegisterNew /\ ~RegisterFind /\ ~RegisterInPlace
    BY DEF RestoreRead, RegisterNew, RegisterFind, RegisterInPlace
  <1>7. CASE PollLookup
    BY <1>7 DEF PollLookup
  <1>8. CASE PollAbsent
    BY <1>8 DEF PollAbsent
  <1>9. CASE EndTick
    BY <1>9 DEF EndTick
  <1>10. CASE TimeoutBegin
    <2>1. on[Poll] = 1 /\ \E x \in {"idle", "closing"} : at' = [at EXCEPT ![Poll] = x]
      BY <1>10 DEF TimeoutBegin
    <2>2. /\ UNCHANGED <<broker, mark, fired, seen, on, answer, restore>>
          /\ live' \in {live, NoEntry}
          /\ gaveUp' \in {gaveUp, [gaveUp EXCEPT ![1] = TRUE]}
          /\ lock' \in {lock, [lock EXCEPT ![1] = Poll]}
      BY <1>10, <2>1 DEF TimeoutBegin
    <2>3. OnlyEntry'
      BY <2>2
    <2>4. at'[Poll] # "timeout" /\ \A t \in Threads : at'[t] \in {at[t], "idle", "closing"}
      BY <2>1
    <2>5. \A r \in Resyncers : at'[r] = at[r]
      BY <2>1
    <2> QED BY <2>2, <2>3, <2>4, <2>5
  <1>11. CASE TimeoutClose
    BY <1>11 DEF TimeoutClose, CloseRow, Terminal, Answer
  <1>12. ASSUME NEW t \in Threads, ResyncRead(t) PROVE OnlyEntry' /\ SettledIsSeen'
    BY <1>12 DEF ResyncRead
  <1>13. ASSUME NEW t \in Threads, ResyncFind(t) PROVE OnlyEntry' /\ SettledIsSeen'
    <2>1. t \in Resyncers /\ on' \in {on, [on EXCEPT ![t] = 1]}
      BY <1>13 DEF ResyncFind
    <2>2. \E x \in {"idle", "found"} :
              at' = [at EXCEPT ![t] = x] /\ (x = "found" => live # NoEntry)
      BY <1>13 DEF ResyncFind
    <2>3. OnlyEntry'
      BY <1>13, <2>1 DEF ResyncFind
    <2>4. UNCHANGED <<broker, live, mark, fired, seen, answer>>
      BY <1>13 DEF ResyncFind
    <2> QED BY <2>1, <2>2, <2>3, <2>4
  <1>14. ASSUME NEW t \in Threads, TakeLock(t) PROVE OnlyEntry' /\ SettledIsSeen'
    BY <1>14 DEF TakeLock
  <1>15. ASSUME NEW t \in Threads, HandOver(t) PROVE OnlyEntry' /\ SettledIsSeen'
    BY <1>15 DEF HandOver
  <1>16. ASSUME NEW t \in Threads, HandOverFails(t) PROVE OnlyEntry' /\ SettledIsSeen'
    BY <1>16 DEF HandOverFails, Release, Done
  <1>17. ASSUME NEW t \in Threads, SettleFill(t) PROVE OnlyEntry' /\ SettledIsSeen'
    <2>1. OnlyEntry'
      BY <1>17 DEF SettleFill, Release, Done
    <2>2. mark' = [mark EXCEPT ![1] = answer[t].filled] /\ fired' = fired /\ seen' = seen
          /\ at' = [at EXCEPT ![t] = IF t = Poll THEN "after" ELSE "idle"]
          /\ live' = IF answer[t].status = "filled" THEN NoEntry ELSE live
      BY <1>17 DEF SettleFill, Release, Done
    <2>3. Settled' => live' = NoEntry
      BY <1>17, <2>2
    <2>4. UNCHANGED <<broker, answer>>
      BY <1>17 DEF SettleFill
    <2>5. at'[Poll] = "timeout" => t # Poll /\ at[Poll] = "timeout" /\ ~Settled
      BY <1>17, <2>2 DEF SettleFill
    <2>6. at'[Poll] = "timeout" => \A r \in Resyncers : at'[r] = "idle"
      BY <2>2, <2>5 DEF OneResync
    <2>7. at'[Poll] = "timeout" /\ Settled' => seen[1] \in Terminal
      BY <1>17, <2>2, <2>5 DEF SettleFill, Terminal
    <2> QED BY <2>1, <2>2, <2>3, <2>4, <2>6, <2>7
  <1>18. ASSUME NEW t \in Threads, SkipFill(t) PROVE OnlyEntry' /\ SettledIsSeen'
    BY <1>18 DEF SkipFill, Release, Done
  <1>19. ASSUME NEW t \in Threads, ApplyTerminal(t) PROVE OnlyEntry' /\ SettledIsSeen'
    <2>1. OnlyEntry'
      BY <1>19 DEF ApplyTerminal, Release, Done
    <2>2. at' = [at EXCEPT ![t] = IF t = Poll THEN "after" ELSE "idle"]
          /\ live' = NoEntry /\ seen[1] \in Terminal /\ UNCHANGED <<broker, seen, answer, mark>>
      BY <1>19 DEF ApplyTerminal, Release, Done, Terminal
    <2>3. at'[Poll] = "timeout" => \A r \in Resyncers : at'[r] = "idle"
      BY <1>19, <2>2 DEF ApplyTerminal, OneResync
    <2> QED BY <2>1, <2>2, <2>3
  <1>20. ASSUME NEW t \in Threads, ApplyOpen(t) PROVE OnlyEntry' /\ SettledIsSeen'
    BY <1>20 DEF ApplyOpen, Release, Done
  <1>21. CASE UNCHANGED vars
    BY <1>21 DEF vars
  <1> QED
    BY <1>1, <1>2, <1>3, <1>4, <1>7, <1>8, <1>9, <1>10, <1>11, <1>12, <1>13,
       <1>14, <1>15, <1>16, <1>17, <1>18, <1>19, <1>20, <1>21 DEF Next, Apply

\* The timeout never closes an order a resync has already filled whole or ended.
THEOREM TimeoutSparesSettled ==
    ASSUME ~MayRestart, OneResync PROVE Spec => NeverCancelSettled
  <1>1. SettledInv /\ [Next]_vars => SettledInv'
    BY NextSettled
  <1>2. SettledInv /\ [Next]_vars =>
            [\A e \in Entries : gaveUp'[e] /\ ~gaveUp[e] => ~fired[e] /\ mark[e] < Qty]_vars
    <2> SUFFICES ASSUME SettledInv, [Next]_vars, NEW e \in Entries, gaveUp'[e], ~gaveUp[e]
                 PROVE  ~fired[e] /\ mark[e] < Qty
      OBVIOUS
    <2>1. TimeoutBegin /\ e = on[Poll] /\ ~SettledMeanwhile(e)
      <3>1. TimeoutBegin \/ UNCHANGED gaveUp
        BY DEF Next, Apply, vars, entryVars, BrokerFill, BrokerClose, Expire, RestoreRead,
           RegisterNew, RegisterFind, RegisterInPlace, PollLookup, PollAbsent, EndTick,
           TimeoutClose, ResyncRead, ResyncFind, TakeLock, HandOver, HandOverFails,
           SettleFill, SkipFill, ApplyTerminal, ApplyOpen
      <3> QED BY <3>1 DEF TimeoutBegin, SettledInv, Accounting, TypeOK
    <2>2. e = 1 /\ ~Settled
      BY <2>1, ThreadAssumption
      DEF TimeoutBegin, SettledMeanwhile, SettledInv, OnlyEntry, SettledIsSeen, Threads
    <2>3. mark[1] \in 0 .. Qty
      BY <2>2 DEF SettledInv, Accounting, TypeOK
    <2> QED BY <2>2, <2>3, QtyAssumption DEF Settled
  <1> QED BY <1>1, <1>2, InitSettled, PTL DEF Spec, NeverCancelSettled

-----------------------------------------------------------------------------
(* The tick of the poller (PollTick): whom it asks and when, the breaker, and *)
(* how long an order waits, for any number of orders whichever of them fail.   *)

PtEntry == [tracked : BOOLEAN, idx : 1..PtLongest, due : -PtWithin..PtLongest, age : 0..(PtLatest + 1),
            timed : BOOLEAN, unasked : 0..(PtWithin + 1)]
PtTickType == [at : {"idle", "tick", "asked", "read", "over"}, left : SUBSET PtOrders, on : SUBSET PtOrders,
               probe : BOOLEAN, overdue : BOOLEAN, settled : SUBSET PtOrders]
PtBreakerType == [open : BOOLEAN, errs : 0..PtThreshold, cool : PtCool..PtMaxCool, wait : 0..PtMaxCool]

PtTyped ==
    /\ ptEntry \in [PtOrders -> PtEntry] /\ ptBroker \in [PtOrders -> {"open", "filled"}] /\ ptOutage \in BOOLEAN
    /\ ptBreaker \in PtBreakerType /\ ptTick \in PtTickType

\* The shape of a tick: whom it asks, and how the breaker stands meanwhile.
PtBusy == ptTick.at \in {"asked", "read"}
PtTicking ==
    /\ ptTick.at \in {"idle", "over"} => ptTick.left = {} /\ ~ptTick.probe /\ ptTick.settled = {}
    /\ ~PtBusy => ptTick.on = {}
    /\ PtBusy => \E o \in PtOrders : ptTick.on = {o} /\ o \notin ptTick.left
    /\ ptTick.probe /\ ptTick.at = "tick" /\ ptTick.left # {} =>
          (\E o \in PtOrders : ptTick.left = {o}) /\ ptBreaker.open /\ ptBreaker.wait = 0
    /\ ptTick.at = "asked" /\ ptTick.probe => ptTick.left = {} /\ ptBreaker.open /\ ptBreaker.wait = 0
    /\ ptTick.at = "asked" /\ ~ptTick.probe => ~ptBreaker.open
    /\ ptTick.at = "read" => ~ptBreaker.open /\ ptTick.on \cap PtBad = {} /\ (ptTick.probe => ptTick.left = {})
    /\ PtBusy /\ ptTick.probe => ~ptTick.overdue

\* What the entries and the broker's books agree on.
PtBooks ==
    /\ \A o \in PtOrders : ptEntry[o].tracked => ~ptEntry[o].timed /\ (o \in PtBad => ptBroker[o] = "open")
    /\ \A o \in PtOrders : ~ptEntry[o].tracked => ptEntry[o].idx = 1
    /\ \A o \in ptTick.settled : ~ptEntry[o].timed /\ ptBroker[o] = "filled"
    /\ ptTick.at = "read" => \A o \in ptTick.settled \cap ptTick.on : ~ptEntry[o].tracked
    /\ \A o \in (ptTick.left \cup ptTick.on) \cap PtBad : ptEntry[o].tracked

\* Who has been asked, and who is due.
PtAsking ==
    /\ ~ptTick.probe => \A o \in ptTick.left : ptEntry[o].tracked => ptEntry[o].due <= 0
    /\ ~ptTick.probe /\ ptTick.at = "asked" => \A o \in ptTick.on : ptEntry[o].tracked => ptEntry[o].due <= 0
    /\ \A o \in ptTick.on : ptEntry[o].unasked = 0
    /\ ptTick.at = "read" => \A o \in ptTick.on : ptEntry[o].tracked => ptEntry[o].due >= 1

\* Every order has its turn, the failing ones included.
PtHeard == \A o \in PtTracked : ptEntry[o].unasked <= PtWithin
\* An interval is no longer than the longest.
PtSoon == \A o \in PtTracked : ptEntry[o].unasked + ptEntry[o].due <= PtLongest
\* Who was asked later than another began to wait has had a new due time since.
PtRenewed ==
    \A o, r \in PtTracked :
        (r \notin ptTick.on \/ ptTick.at = "read") /\ ptEntry[r].unasked < ptEntry[o].unasked =>
            ptEntry[r].due + ptEntry[r].unasked >= 0

\* Those that may be tested before an order, and the cooldowns that takes.
PtAhead(o) == {r \in PtTracked \ {o} : ptEntry[r].due <= ptEntry[o].due \/ ptEntry[r].unasked >= ptEntry[o].unasked}
PtCost(s) == Cardinality(s) * PtMaxCool
PtSpent(s, o) == ptEntry[o].unasked + PtCost(s)
PtTesting == ptTick.probe /\ (ptTick.at = "asked" \/ (ptTick.at = "tick" /\ ptTick.left # {}))
PtTurn(o) ==
    IF PtTesting THEN o \in ptTick.left \/ PtSpent(PtAhead(o) \cup ptTick.left \cup ptTick.on, o) <= PtWithin
    ELSE IF ptBreaker.open
         THEN (ptTick.at = "idle" \/ ptBreaker.wait > 0) /\ PtSpent(PtAhead(o), o) + ptBreaker.wait <= PtWithin
    ELSE IF ptTick.at = "idle" \/ o \in ptTick.left THEN PtSpent(PtAhead(o), o) + PtCool <= PtWithin
    ELSE (ptTick.probe \/ ptTick.at = "over") /\ PtSpent(PtAhead(o), o) + PtCool + 1 <= PtWithin
PtWaits(o) == o \in PtTracked /\ ptEntry[o].due < 0 /\ ptEntry[o].unasked > 0
PtTurns == \A o \in PtOrders : PtWaits(o) => PtTurn(o)

\* The numbers are numbers.
LEMMA PtNumbers ==
    ASSUME PtAssumption
    PROVE  /\ PtLongest \in Nat \ {0} /\ PtCool \in Nat \ {0} /\ PtMaxCool \in Nat \ {0} /\ PtCool + 1 <= PtMaxCool
           /\ PtThreshold \in Nat \ {0} /\ PtTimeout \in Nat /\ PtWithin \in Nat \ {0} /\ PtRises \in Nat
           /\ PtLatest \in Nat /\ PtLongest <= PtWithin
  <1>1. Cardinality(PtOrders) \in Nat /\ Cardinality(PtBad) \in Nat
    BY FS_CardinalityType, FS_Subset DEF PtAssumption
  <1>2. \A m, n \in Nat : m * n \in Nat
    OBVIOUS
  <1>3. PtMaxCool \in Nat /\ PtLongest - 1 \in Nat /\ PtLongest \in Nat \ {0}
    BY DEF PtAssumption
  <1>4. PtWithin \in Nat \ {0} /\ PtLongest <= PtWithin
    BY <1>1, <1>2, <1>3 DEF PtWithin
  <1>5. PtRises \in Nat
    BY <1>1, <1>2, <1>3 DEF PtRises
  <1>6. (PtRises + 2) * (PtWithin + 1) \in Nat
    BY <1>2, <1>4, <1>5
  <1> QED BY <1>3, <1>4, <1>5, <1>6 DEF PtAssumption, PtLatest

\* Every test costs a cooldown.
LEMMA PtCosts ==
    ASSUME PtAssumption, NEW t \in SUBSET PtOrders
    PROVE  /\ PtCost(t) \in Nat
           /\ \A s \in SUBSET t : PtCost(s) <= PtCost(t)
           /\ \A p \in t : PtCost(t \ {p}) + PtMaxCool = PtCost(t)
           /\ \A o \in PtOrders : o \notin t => PtLongest + PtCost(t) + PtMaxCool <= PtWithin
  <1>1. IsFiniteSet(PtOrders) /\ IsFiniteSet(t) /\ PtMaxCool \in Nat /\ PtLongest \in Nat
    BY FS_Subset DEF PtAssumption
  <1>2. \A m, n \in Nat : m * n \in Nat
    OBVIOUS
  <1>3. \A k, m, n \in Nat : k <= m => k * n <= m * n
    OBVIOUS
  <1>4. \A m, n \in Nat : (m + 1) * n = m * n + n
    OBVIOUS
  <1>5. ASSUME NEW s \in SUBSET PtOrders
        PROVE  IsFiniteSet(s) /\ Cardinality(s) \in Nat
    BY <1>1, FS_Subset, FS_CardinalityType
  <1>6. PtCost(t) \in Nat
    BY <1>1, <1>2, <1>5 DEF PtCost
  <1>7. ASSUME NEW s \in SUBSET t
        PROVE  PtCost(s) <= PtCost(t)
    <2>1. Cardinality(s) <= Cardinality(t) /\ Cardinality(s) \in Nat /\ Cardinality(t) \in Nat
      BY <1>1, <1>5, FS_Subset
    <2> QED BY <1>1, <1>3, <2>1 DEF PtCost
  <1>8. ASSUME NEW p \in t
        PROVE  PtCost(t \ {p}) + PtMaxCool = PtCost(t)
    <2>1. Cardinality(t \ {p}) = Cardinality(t) - 1 /\ Cardinality(t \ {p}) \in Nat /\ Cardinality(t) \in Nat
      BY <1>1, <1>5, FS_RemoveElement
    <2>2. Cardinality(t) = Cardinality(t \ {p}) + 1
      BY <2>1
    <2> QED BY <1>1, <1>4, <2>1, <2>2 DEF PtCost
  <1>9. ASSUME NEW o \in PtOrders, o \notin t
        PROVE  PtLongest + PtCost(t) + PtMaxCool <= PtWithin
    <2>1. Cardinality(t) <= Cardinality(PtOrders \ {o}) /\ Cardinality(PtOrders \ {o}) = Cardinality(PtOrders) - 1
      <3>1. t \in SUBSET (PtOrders \ {o}) /\ IsFiniteSet(PtOrders \ {o})
        BY <1>1, <1>9, FS_Subset
      <3> QED BY <1>1, <1>9, <3>1, FS_Subset, FS_RemoveElement
    <2>2. Cardinality(t) \in Nat /\ Cardinality(PtOrders) \in Nat
      BY <1>1, <1>5
    <2>3. (Cardinality(t) + 1) * PtMaxCool <= Cardinality(PtOrders) * PtMaxCool
      BY <1>1, <1>3, <2>1, <2>2
    <2>4. (Cardinality(t) + 1) * PtMaxCool = PtCost(t) + PtMaxCool
      BY <1>1, <1>4, <2>2 DEF PtCost
    <2>5. Cardinality(PtOrders) * PtMaxCool \in Nat
      BY <1>1, <1>2, <2>2
    <2> QED BY <1>1, <1>6, <2>3, <2>4, <2>5 DEF PtWithin
  <1> QED BY <1>6, <1>7, <1>8, <1>9

\* What is known of the numbers an entry holds.
LEMMA PtEntries ==
    ASSUME PtAssumption, PtTyped, NEW o \in PtOrders
    PROVE  /\ ptEntry[o] \in PtEntry /\ ptEntry[o].tracked \in BOOLEAN /\ ptEntry[o].timed \in BOOLEAN
           /\ ptEntry[o].idx \in 1..PtLongest /\ ptEntry[o].due \in Int /\ ptEntry[o].due <= PtLongest /\ -PtWithin <= ptEntry[o].due
           /\ ptEntry[o].age \in Nat /\ ptEntry[o].age <= PtLatest + 1
           /\ ptEntry[o].unasked \in Nat /\ ptEntry[o].unasked <= PtWithin + 1
           /\ ptBroker[o] \in {"open", "filled"}
  <1>1. ptEntry[o] \in PtEntry /\ ptBroker[o] \in {"open", "filled"}
    BY DEF PtTyped
  <1>2. PtWithin \in Nat /\ PtLatest \in Nat /\ PtLongest \in Nat
    BY PtNumbers
  <1> QED BY <1>1, <1>2 DEF PtEntry

\* A tick stands at one of five places; the breaker keeps within its numbers.
LEMMA PtTickIs ==
    ASSUME PtAssumption, PtTyped
    PROVE  /\ ptTick \in PtTickType /\ ptTick.at \in {"idle", "tick", "asked", "read", "over"}
           /\ ptTick.left \subseteq PtOrders /\ ptTick.on \subseteq PtOrders /\ ptTick.settled \subseteq PtOrders
           /\ ptTick.probe \in BOOLEAN /\ ptTick.overdue \in BOOLEAN
           /\ ptBreaker \in PtBreakerType /\ ptBreaker.open \in BOOLEAN /\ ptBreaker.errs \in 0..PtThreshold
           /\ ptBreaker.cool \in PtCool..PtMaxCool /\ ptBreaker.wait \in 0..PtMaxCool /\ ptOutage \in BOOLEAN
  BY DEF PtTyped, PtTickType, PtBreakerType

\* A field that is set within its range leaves an entry.
LEMMA PtEntrySet ==
    ASSUME NEW e \in PtEntry
    PROVE  /\ \A b \in BOOLEAN : [e EXCEPT !.tracked = b] \in PtEntry /\ [e EXCEPT !.timed = b] \in PtEntry
           /\ \A i \in 1..PtLongest, d \in -PtWithin..PtLongest : [e EXCEPT !.due = d, !.idx = i] \in PtEntry
           /\ \A u \in 0..(PtWithin + 1) : [e EXCEPT !.unasked = u] \in PtEntry
           /\ \A u \in 0..(PtWithin + 1), a \in 0..(PtLatest + 1) : [e EXCEPT !.unasked = u, !.age = a] \in PtEntry
           /\ \A u \in 0..(PtWithin + 1), a \in 0..(PtLatest + 1), d \in -PtWithin..PtLongest :
                 [e EXCEPT !.due = d, !.age = a, !.unasked = u] \in PtEntry
  <1>1. \A b \in BOOLEAN : [e EXCEPT !.tracked = b] \in PtEntry /\ [e EXCEPT !.timed = b] \in PtEntry
    BY DEF PtEntry
  <1>2. \A i \in 1..PtLongest, d \in -PtWithin..PtLongest : [e EXCEPT !.due = d, !.idx = i] \in PtEntry
    BY DEF PtEntry
  <1>3. \A u \in 0..(PtWithin + 1) : [e EXCEPT !.unasked = u] \in PtEntry
    BY DEF PtEntry
  <1>4. \A u \in 0..(PtWithin + 1), a \in 0..(PtLatest + 1) : [e EXCEPT !.unasked = u, !.age = a] \in PtEntry
    BY DEF PtEntry
  <1>5. \A u \in 0..(PtWithin + 1), a \in 0..(PtLatest + 1), d \in -PtWithin..PtLongest :
            [e EXCEPT !.due = d, !.age = a, !.unasked = u] \in PtEntry
    BY DEF PtEntry
  <1> QED BY <1>1, <1>2, <1>3, <1>4, <1>5

\* An entry that is asked, that fails, that is let go keeps its type.
LEMMA PtEntryKept ==
    ASSUME PtAssumption, NEW e \in PtEntry
    PROVE  /\ PtAdvanced(e) \in PtEntry /\ PtGone \in PtEntry /\ PtNew \in PtEntry /\ PtAged(e) \in PtEntry
           /\ [PtGone EXCEPT !.timed = TRUE] \in PtEntry /\ [e EXCEPT !.unasked = 0] \in PtEntry
           /\ [e EXCEPT !.unasked = 0, !.age = PtLess(@, PtTimeout + 1)] \in PtEntry
  <1>1. /\ PtLongest \in Nat \ {0} /\ PtWithin \in Nat \ {0} /\ PtLatest \in Nat /\ PtTimeout \in Nat
        /\ PtTimeout <= PtLatest
    <2>1. (PtRises + 2) * (PtWithin + 1) \in Nat
      <3>1. \A m, n \in Nat : m * n \in Nat
        OBVIOUS
      <3> QED BY <3>1, PtNumbers
    <2> QED BY <2>1, PtNumbers DEF PtLatest
  <1>2. /\ e.idx \in 1..PtLongest /\ e.due \in -PtWithin..PtLongest /\ e.age \in 0..(PtLatest + 1)
        /\ e.unasked \in 0..(PtWithin + 1)
    BY DEF PtEntry
  <1>3. PtAdvanced(e) \in PtEntry
    <2>1. e.idx \in -PtWithin..PtLongest /\ PtLess(e.idx + 1, PtLongest) \in 1..PtLongest
      BY <1>1, <1>2 DEF PtLess
    <2> QED BY <2>1, PtEntrySet DEF PtAdvanced
  <1>4. PtNew \in PtEntry
    BY <1>1 DEF PtEntry, PtNew
  <1>5. PtGone \in PtEntry /\ [PtGone EXCEPT !.timed = TRUE] \in PtEntry
    BY <1>4, PtEntrySet DEF PtGone
  <1>6. PtAged(e) \in PtEntry
    <2>1. PICK d \in -PtWithin..PtLongest : d = IF e.due > -PtWithin THEN e.due - 1 ELSE e.due
      BY <1>1, <1>2
    <2>2. PICK a \in 0..(PtLatest + 1) : a = PtLess(e.age + 1, IF ptOutage THEN PtTimeout + 1 ELSE PtLatest + 1)
      BY <1>1, <1>2 DEF PtLess
    <2>3. PICK u \in 0..(PtWithin + 1) : u = IF ptOutage THEN 0 ELSE PtLess(e.unasked + 1, PtWithin + 1)
      BY <1>1, <1>2 DEF PtLess
    <2>4. PtAged(e) = [e EXCEPT !.due = d, !.age = a, !.unasked = u]
      BY <2>1, <2>2, <2>3 DEF PtAged
    <2>5. [e EXCEPT !.due = d, !.age = a, !.unasked = u] \in PtEntry
      BY PtEntrySet
    <2> QED BY ONLY <2>4, <2>5
  <1>7. [e EXCEPT !.unasked = 0] \in PtEntry /\ [e EXCEPT !.unasked = 0, !.age = PtLess(@, PtTimeout + 1)] \in PtEntry
    <2>1. 0 \in 0..(PtWithin + 1) /\ PtLess(e.age, PtTimeout + 1) \in 0..(PtLatest + 1)
      BY <1>1, <1>2 DEF PtLess
    <2> QED BY <2>1, PtEntrySet
  <1> QED BY <1>3, <1>4, <1>5, <1>6, <1>7

\* The types hold at first and in every step.
LEMMA PtTypedInit == ASSUME PtAssumption, PtInit PROVE PtTyped
  <1>1. PtGone \in PtEntry
    <2>1. PtLongest \in Nat \ {0} /\ PtWithin \in Nat /\ PtLatest \in Nat
      BY PtNumbers
    <2>2. PtNew \in PtEntry
      BY <2>1 DEF PtEntry, PtNew
    <2> QED BY <2>2, PtEntrySet DEF PtGone
  <1>2. ptBreaker \in PtBreakerType
    BY PtNumbers DEF PtInit, PtBreakerType
  <1>3. ptTick \in PtTickType
    BY DEF PtInit, PtNoTick, PtTickType
  <1> QED BY <1>1, <1>2, <1>3 DEF PtInit, PtTyped

\* Every step keeps the ranges.
LEMMA PtTypedStep == ASSUME PtAssumption, PtTyped, [PtNext]_ptVars PROVE PtTyped'
  <1> USE DEF PtTyped
  <1>1. CASE PtPass
    <2>1. ptEntry' \in [PtOrders -> PtEntry]
      BY <1>1, PtEntryKept DEF PtPass
    <2>2. ptBreaker' \in PtBreakerType
      BY <1>1, PtNumbers DEF PtPass, PtBreakerType
    <2> QED BY <1>1, <2>1, <2>2 DEF PtPass, PtNoTick, PtTickType
  <1>2. CASE PtBegin
    <2>1. PtTracked \subseteq PtOrders
      BY DEF PtTracked
    <2>2. PtNoTick \in PtTickType
      BY DEF PtNoTick, PtTickType
    <2>3. \A l \in SUBSET PtOrders, p \in BOOLEAN, z \in SUBSET PtOrders :
              [PtNoTick EXCEPT !.at = "tick", !.left = l, !.probe = p, !.settled = z] \in PtTickType
      BY <2>2 DEF PtTickType
    <2>4. ptTick' \in PtTickType
      <3>1. PICK z \in SUBSET PtOrders : z = {o \in PtTracked : ptBroker[o] = "filled"}
        BY <2>1
      <3>2. PICK l \in SUBSET PtOrders, p \in BOOLEAN :
                ptTick' = [PtNoTick EXCEPT !.at = "tick", !.left = l, !.probe = p, !.settled = z]
        BY <1>2, <2>1, <3>1 DEF PtBegin
      <3> QED BY <2>3, <3>2
    <2> QED BY <1>2, <2>4 DEF PtBegin
  <1>3. CASE PtEnd
    BY <1>3 DEF PtEnd, PtTickType
  <1>4. CASE PtGoesDown
    BY <1>4 DEF PtGoesDown
  <1>5. CASE PtComesBack
    BY <1>5, PtEntryKept DEF PtComesBack
  <1>6. ASSUME NEW o \in PtOrders, PtAsk(o) PROVE PtTyped'
    <2>1. ptEntry' \in [PtOrders -> PtEntry]
      <3>1. ptEntry' = [ptEntry EXCEPT ![o] = [ptEntry[o] EXCEPT !.unasked = 0]]
        BY <1>6 DEF PtAsk
      <3> QED BY <3>1, PtEntryKept
    <2>2. ptTick' \in PtTickType
      <3>1. PtExpired(o) \in BOOLEAN
        BY DEF PtExpired
      <3> QED BY <1>6, <3>1 DEF PtAsk, PtTickType
    <2> QED BY <1>6, <2>1, <2>2 DEF PtAsk
  <1>7. ASSUME NEW o \in PtOrders, PtRaises(o) PROVE PtTyped'
    <2>1. ptEntry' \in [PtOrders -> PtEntry]
      BY <1>7, PtEntryKept DEF PtRaises
    <2>2. ptBreaker' \in PtBreakerType
      BY <1>7, PtNumbers DEF PtRaises, PtFailed, PtLess, PtBreakerType
    <2>3. ptTick' \in PtTickType
      BY <1>7 DEF PtRaises, PtTickType
    <2> QED BY <1>7, <2>1, <2>2, <2>3 DEF PtRaises
  <1>8. ASSUME NEW o \in PtOrders, PtAnswers(o) PROVE PtTyped'
    <2>1. ptEntry' \in [PtOrders -> PtEntry]
      BY <1>8, PtEntryKept DEF PtAnswers
    <2>2. ptBreaker' \in PtBreakerType
      <3>1. 0 \in 0..PtThreshold
        BY PtNumbers
      <3> QED BY <1>8, <3>1 DEF PtAnswers, PtBreakerType
    <2>3. ptTick' \in PtTickType
      BY <1>8 DEF PtAnswers, PtTickType
    <2> QED BY <1>8, <2>1, <2>2, <2>3 DEF PtAnswers
  <1>9. ASSUME NEW o \in PtOrders, PtTimesOut(o) PROVE PtTyped'
    <2>1. ptEntry' \in [PtOrders -> PtEntry]
      BY <1>9, PtEntryKept DEF PtTimesOut
    <2>2. ptTick' \in PtTickType
      BY <1>9 DEF PtTimesOut, PtTickType
    <2> QED BY <1>9, <2>1, <2>2 DEF PtTimesOut
  <1>10. ASSUME NEW o \in PtOrders, PtRegister(o) PROVE PtTyped'
    <2>1. ptEntry' \in [PtOrders -> PtEntry]
      BY <1>10, PtEntryKept DEF PtRegister
    <2>2. ptTick' \in PtTickType
      BY <1>10 DEF PtRegister, PtTickType
    <2> QED BY <1>10, <2>1, <2>2 DEF PtRegister
  <1>11. ASSUME NEW o \in PtOrders, PtResync(o) PROVE PtTyped'
    BY <1>11, PtEntryKept DEF PtResync
  <1>12. ASSUME NEW o \in PtOrders, PtFills(o) PROVE PtTyped'
    BY <1>12 DEF PtFills
  <1>13. CASE UNCHANGED ptVars
    BY <1>13 DEF ptVars
  <1> QED BY <1>1, <1>2, <1>3, <1>4, <1>5, <1>6, <1>7, <1>8, <1>9, <1>10, <1>11, <1>12,
             <1>13 DEF PtNext

\* What is left of an entry.
LEMMA PtFields ==
    ASSUME PtAssumption, NEW e \in PtEntry
    PROVE  /\ PtAdvanced(e).tracked = e.tracked /\ PtAdvanced(e).timed = e.timed /\ PtAdvanced(e).age = e.age
           /\ PtAdvanced(e).unasked = e.unasked /\ PtAdvanced(e).due = e.idx /\ PtAdvanced(e).due >= 1
           /\ PtAdvanced(e).idx = (IF e.idx < PtLongest THEN e.idx + 1 ELSE PtLongest)
           /\ PtAged(e).tracked = e.tracked /\ PtAged(e).timed = e.timed /\ PtAged(e).idx = e.idx
           /\ PtAged(e).due = (IF e.due > -PtWithin THEN e.due - 1 ELSE e.due)
           /\ PtAged(e).unasked = (IF ptOutage THEN 0 ELSE IF e.unasked <= PtWithin THEN e.unasked + 1 ELSE PtWithin + 1)
           /\ (~ptOutage => PtAged(e).age = (IF e.age <= PtLatest THEN e.age + 1 ELSE PtLatest + 1))
           /\ (ptOutage => PtAged(e).age <= PtTimeout + 1)
  <1>1. /\ e.idx \in 1..PtLongest /\ e.due \in Int /\ e.age \in Nat /\ e.unasked \in Nat
        /\ e.age <= PtLatest + 1 /\ e.unasked <= PtWithin + 1 /\ PtWithin \in Nat /\ PtLatest \in Nat
        /\ PtTimeout \in Nat /\ PtLongest \in Nat
    BY PtNumbers DEF PtEntry
  <1>2. /\ PtAdvanced(e).tracked = e.tracked /\ PtAdvanced(e).timed = e.timed /\ PtAdvanced(e).age = e.age
        /\ PtAdvanced(e).unasked = e.unasked /\ PtAdvanced(e).due = e.idx
    BY DEF PtAdvanced, PtEntry
  <1>3. PtAdvanced(e).idx = (IF e.idx < PtLongest THEN e.idx + 1 ELSE PtLongest)
    <2>1. PtAdvanced(e).idx = PtLess(e.idx + 1, PtLongest)
      BY DEF PtAdvanced, PtEntry
    <2> QED BY <1>1, <2>1 DEF PtLess
  <1>4. PtAged(e).tracked = e.tracked /\ PtAged(e).timed = e.timed /\ PtAged(e).idx = e.idx
    BY DEF PtAged, PtEntry
  <1>5. PtAged(e).due = (IF e.due > -PtWithin THEN e.due - 1 ELSE e.due)
    BY DEF PtAged, PtEntry
  <1>6. /\ PtAged(e).unasked = (IF ptOutage THEN 0 ELSE PtLess(e.unasked + 1, PtWithin + 1))
        /\ PtAged(e).age = PtLess(e.age + 1, IF ptOutage THEN PtTimeout + 1 ELSE PtLatest + 1)
    BY DEF PtAged, PtEntry
  <1> QED BY <1>1, <1>2, <1>3, <1>4, <1>5, <1>6 DEF PtLess

\* What a new entry holds, and one that is gone.
LEMMA PtEmpty ==
    /\ ~PtGone.tracked /\ ~PtGone.timed /\ PtGone.idx = 1 /\ PtGone.due = 0 /\ PtGone.age = 0 /\ PtGone.unasked = 0
    /\ PtNew.tracked /\ ~PtNew.timed /\ PtNew.idx = 1 /\ PtNew.due = 0 /\ PtNew.age = 0 /\ PtNew.unasked = 0
  BY DEF PtGone, PtNew

\* What each step does to the entries.
LEMMA PtAskIs ==
    ASSUME PtAssumption, PtTyped, NEW o \in PtOrders, PtAsk(o)
    PROVE  /\ UNCHANGED <<ptBroker, ptOutage, ptBreaker>> /\ ptTick.at = "tick" /\ o \in ptTick.left /\ PtMayAsk
           /\ ptTick'.at = "asked" /\ ptTick'.left = ptTick.left \ {o} /\ ptTick'.on = {o} /\ ptTick'.probe = ptTick.probe
           /\ ptTick'.settled = ptTick.settled /\ (ptTick'.overdue <=> ~ptTick.probe /\ PtExpired(o))
           /\ \A r \in PtOrders \ {o} : ptEntry'[r] = ptEntry[r]
           /\ ptEntry'[o].tracked = ptEntry[o].tracked /\ ptEntry'[o].timed = ptEntry[o].timed
           /\ ptEntry'[o].idx = ptEntry[o].idx /\ ptEntry'[o].due = ptEntry[o].due /\ ptEntry'[o].age = ptEntry[o].age
           /\ ptEntry'[o].unasked = 0
  <1>1. ptEntry[o] \in PtEntry
    BY PtEntries
  <1>2. ptEntry' = [ptEntry EXCEPT ![o] = [ptEntry[o] EXCEPT !.unasked = 0]]
    BY DEF PtAsk
  <1>3. /\ \A r \in PtOrders \ {o} : ptEntry'[r] = ptEntry[r]
        /\ ptEntry'[o] = [ptEntry[o] EXCEPT !.unasked = 0]
    BY <1>2 DEF PtTyped
  <1>4. /\ ptEntry'[o].tracked = ptEntry[o].tracked /\ ptEntry'[o].timed = ptEntry[o].timed
        /\ ptEntry'[o].idx = ptEntry[o].idx /\ ptEntry'[o].due = ptEntry[o].due /\ ptEntry'[o].age = ptEntry[o].age
        /\ ptEntry'[o].unasked = 0
    BY <1>1, <1>3 DEF PtEntry
  <1>5. ptTick \in PtTickType
    BY DEF PtTyped
  <1>6. /\ ptTick'.at = "asked" /\ ptTick'.left = ptTick.left \ {o} /\ ptTick'.on = {o} /\ ptTick'.probe = ptTick.probe
        /\ ptTick'.settled = ptTick.settled /\ (ptTick'.overdue <=> ~ptTick.probe /\ PtExpired(o))
    BY <1>5 DEF PtAsk, PtTickType
  <1> QED BY <1>3, <1>4, <1>6 DEF PtAsk

\* A lookup that raises: the order's interval grows, and the breaker counts it.
LEMMA PtRaisesIs ==
    ASSUME PtAssumption, PtTyped, NEW o \in PtOrders, PtRaises(o)
    PROVE  /\ UNCHANGED <<ptBroker, ptOutage>> /\ ptTick.at = "asked" /\ o \in ptTick.on /\ (ptOutage \/ o \in PtBad)
           /\ ptTick'.at = "tick" /\ ptTick'.left = ptTick.left /\ ptTick'.on = {} /\ ptTick'.probe = ptTick.probe
           /\ ptTick'.settled = ptTick.settled
           /\ \A r \in PtOrders \ {o} : ptEntry'[r] = ptEntry[r]
           /\ ptEntry'[o].tracked = ptEntry[o].tracked /\ ptEntry'[o].timed = ptEntry[o].timed
           /\ ptEntry'[o].age = ptEntry[o].age /\ ptEntry'[o].unasked = ptEntry[o].unasked
           /\ ptEntry[o].tracked => ptEntry'[o].due = ptEntry[o].idx /\ ptEntry'[o].due >= 1
           /\ ptEntry[o].tracked => ptEntry'[o].idx = (IF ptEntry[o].idx < PtLongest THEN ptEntry[o].idx + 1 ELSE PtLongest)
           /\ ~ptEntry[o].tracked => ptEntry'[o] = ptEntry[o]
           /\ ptBreaker'.open \in BOOLEAN /\ ptBreaker'.wait \in 0..PtMaxCool /\ (ptBreaker.open => ptBreaker'.open)
           /\ ptTick.probe => ptBreaker'.open /\ ptBreaker'.wait > 0
           /\ ~ptTick.probe /\ ~ptBreaker.open /\ ptBreaker'.open => ptBreaker'.wait = PtCool /\ ptBreaker.errs + 1 >= PtThreshold
           /\ ~ptTick.probe /\ ~ptBreaker.open /\ ~ptBreaker'.open => ptBreaker'.errs <= ptBreaker.errs + 1
  <1>1. ptEntry[o] \in PtEntry /\ ptEntry[o].tracked \in BOOLEAN
    BY PtEntries
  <1>2. /\ \A r \in PtOrders \ {o} : ptEntry'[r] = ptEntry[r]
        /\ ptEntry'[o] = IF ptEntry[o].tracked THEN PtAdvanced(ptEntry[o]) ELSE ptEntry[o]
    BY DEF PtRaises, PtTyped
  <1>3. /\ ptEntry'[o].tracked = ptEntry[o].tracked /\ ptEntry'[o].timed = ptEntry[o].timed
        /\ ptEntry'[o].age = ptEntry[o].age /\ ptEntry'[o].unasked = ptEntry[o].unasked
        /\ ptEntry[o].tracked => ptEntry'[o].due = ptEntry[o].idx /\ ptEntry'[o].due >= 1
        /\ ptEntry[o].tracked => ptEntry'[o].idx = (IF ptEntry[o].idx < PtLongest THEN ptEntry[o].idx + 1 ELSE PtLongest)
        /\ ~ptEntry[o].tracked => ptEntry'[o] = ptEntry[o]
    BY <1>1, <1>2, PtFields
  <1>4. ptTick \in PtTickType /\ ptBreaker \in PtBreakerType
    BY DEF PtTyped
  <1>5. /\ ptTick'.at = "tick" /\ ptTick'.left = ptTick.left /\ ptTick'.on = {} /\ ptTick'.probe = ptTick.probe
        /\ ptTick'.settled = ptTick.settled
    BY <1>4 DEF PtRaises, PtTickType
  <1>6. /\ ptBreaker.open \in BOOLEAN /\ ptBreaker.wait \in 0..PtMaxCool /\ ptBreaker.errs \in Nat
        /\ ptBreaker.cool \in Nat \ {0} /\ PtCool \in 1..PtMaxCool /\ PtThreshold \in Nat /\ PtMaxCool \in Nat
    BY <1>4, PtNumbers DEF PtBreakerType
  <1>7. PICK n : n = PtLess(ptBreaker.errs + 1, PtThreshold)
    OBVIOUS
  <1>8. n <= ptBreaker.errs + 1 /\ n <= PtThreshold /\ n \in Nat
    BY <1>6, <1>7 DEF PtLess
  <1>9. PICK l : l = PtLess(2 * ptBreaker.cool, PtMaxCool)
    OBVIOUS
  <1>10. l > 0 /\ l \in 0..PtMaxCool
    BY <1>6, <1>9 DEF PtLess
  <1>11. ptBreaker' = IF ptTick.probe THEN [open |-> TRUE, errs |-> n, cool |-> l, wait |-> l]
                      ELSE IF ptBreaker.open \/ n < PtThreshold THEN [ptBreaker EXCEPT !.errs = n]
                      ELSE [open |-> TRUE, errs |-> n, cool |-> PtCool, wait |-> PtCool]
    BY <1>7, <1>9 DEF PtRaises, PtFailed
  <1>12. CASE ptTick.probe
    <2>1. ptBreaker' = [open |-> TRUE, errs |-> n, cool |-> l, wait |-> l]
      BY <1>11, <1>12
    <2>2. ptBreaker'.open /\ ptBreaker'.wait = l
      BY <2>1
    <2> QED BY <1>2, <1>3, <1>5, <1>10, <1>12, <2>2 DEF PtRaises
  <1>13. CASE ~ptTick.probe /\ (ptBreaker.open \/ n < PtThreshold)
    <2>1. ptBreaker' = [ptBreaker EXCEPT !.errs = n]
      BY <1>11, <1>13
    <2>2. ptBreaker'.open = ptBreaker.open /\ ptBreaker'.wait = ptBreaker.wait /\ ptBreaker'.errs = n
      BY <1>4, <2>1 DEF PtBreakerType
    <2> QED BY <1>2, <1>3, <1>5, <1>6, <1>8, <1>13, <2>2 DEF PtRaises
  <1>14. CASE ~ptTick.probe /\ ~(ptBreaker.open \/ n < PtThreshold)
    BY <1>2, <1>3, <1>5, <1>6, <1>8, <1>11, <1>14 DEF PtRaises
  <1> QED BY <1>12, <1>13, <1>14

\* A lookup that answers: the order advances or is gone, and the breaker closes.
LEMMA PtAnswersIs ==
    ASSUME PtAssumption, PtTyped, NEW o \in PtOrders, PtAnswers(o)
    PROVE  /\ UNCHANGED <<ptBroker, ptOutage>> /\ ptTick.at = "asked" /\ o \in ptTick.on /\ ~ptOutage /\ o \notin PtBad
           /\ ptTick'.at = "read" /\ ptTick'.left = ptTick.left /\ ptTick'.on = ptTick.on /\ ptTick'.probe = ptTick.probe
           /\ ptTick'.settled = ptTick.settled /\ ptTick'.overdue = ptTick.overdue
           /\ \A r \in PtOrders \ {o} : ptEntry'[r] = ptEntry[r]
           /\ ptEntry'[o].tracked => /\ ptEntry[o].tracked /\ ptBroker[o] # "filled" /\ ptEntry'[o].timed = ptEntry[o].timed
                                     /\ ptEntry'[o].age = ptEntry[o].age /\ ptEntry'[o].unasked = ptEntry[o].unasked
                                     /\ ptEntry'[o].due = ptEntry[o].idx /\ ptEntry'[o].due >= 1
           /\ ~ptEntry'[o].tracked => ptEntry'[o] = PtGone
           /\ ~ptBreaker'.open /\ ptBreaker'.errs = 0
  <1>1. ptEntry[o] \in PtEntry /\ ptEntry[o].tracked \in BOOLEAN
    BY PtEntries
  <1>2. /\ \A r \in PtOrders \ {o} : ptEntry'[r] = ptEntry[r]
        /\ ptEntry'[o] = IF ~ptEntry[o].tracked \/ ptBroker[o] = "filled" THEN PtGone ELSE PtAdvanced(ptEntry[o])
    BY DEF PtAnswers, PtTyped
  <1>3. /\ ptEntry'[o].tracked => /\ ptEntry[o].tracked /\ ptBroker[o] # "filled" /\ ptEntry'[o].timed = ptEntry[o].timed
                                  /\ ptEntry'[o].age = ptEntry[o].age /\ ptEntry'[o].unasked = ptEntry[o].unasked
                                  /\ ptEntry'[o].due = ptEntry[o].idx /\ ptEntry'[o].due >= 1
        /\ ~ptEntry'[o].tracked => ptEntry'[o] = PtGone
    BY <1>1, <1>2, PtFields, PtEmpty
  <1>4. ptTick \in PtTickType /\ ptBreaker \in PtBreakerType
    BY DEF PtTyped
  <1>5. /\ ptTick'.at = "read" /\ ptTick'.left = ptTick.left /\ ptTick'.on = ptTick.on /\ ptTick'.probe = ptTick.probe
        /\ ptTick'.settled = ptTick.settled /\ ptTick'.overdue = ptTick.overdue
    BY <1>4 DEF PtAnswers, PtTickType
  <1>6. ~ptBreaker'.open /\ ptBreaker'.errs = 0
    BY <1>4 DEF PtAnswers, PtBreakerType
  <1> QED BY <1>2, <1>3, <1>5, <1>6 DEF PtAnswers

\* An order read as open past its deadline leaves the poller.
LEMMA PtTimesOutIs ==
    ASSUME PtAssumption, PtTyped, NEW o \in PtOrders, PtTimesOut(o)
    PROVE  /\ UNCHANGED <<ptBroker, ptOutage, ptBreaker>> /\ ptTick.at = "read" /\ o \in ptTick.on
           /\ ptTick'.at = "tick" /\ ptTick'.left = ptTick.left /\ ptTick'.on = {} /\ ptTick'.probe = ptTick.probe
           /\ ptTick'.settled = ptTick.settled
           /\ \A r \in PtOrders \ {o} : ptEntry'[r] = ptEntry[r]
           /\ ptEntry'[o].tracked => ptEntry'[o] = ptEntry[o] /\ ~ptTick.overdue
           /\ ~ptEntry'[o].tracked => ptEntry'[o].idx = 1 \/ ptEntry'[o] = ptEntry[o]
           /\ ~ptEntry[o].tracked => ptEntry'[o] = ptEntry[o]
  <1>1. ptEntry[o] \in PtEntry /\ ptEntry[o].tracked \in BOOLEAN
    BY PtEntries
  <1>2. /\ \A r \in PtOrders \ {o} : ptEntry'[r] = ptEntry[r]
        /\ ptEntry'[o] = IF ptTick.overdue /\ ptEntry[o].tracked THEN [PtGone EXCEPT !.timed = TRUE] ELSE ptEntry[o]
    BY DEF PtTimesOut, PtTyped
  <1>3. ptTick \in PtTickType
    BY DEF PtTyped
  <1>4. /\ ptTick'.at = "tick" /\ ptTick'.left = ptTick.left /\ ptTick'.on = {} /\ ptTick'.probe = ptTick.probe
        /\ ptTick'.settled = ptTick.settled
    BY <1>3 DEF PtTimesOut, PtTickType
  <1>5. ~[PtGone EXCEPT !.timed = TRUE].tracked /\ [PtGone EXCEPT !.timed = TRUE].idx = 1
    BY DEF PtGone, PtNew
  <1> QED BY <1>1, <1>2, <1>4, <1>5 DEF PtTimesOut, PtAfterRead

\* A new order begins with the shortest interval.
LEMMA PtRegisterIs ==
    ASSUME PtAssumption, PtTyped, NEW o \in PtOrders, PtRegister(o)
    PROVE  /\ UNCHANGED <<ptOutage, ptBreaker>> /\ ~ptEntry[o].tracked /\ o \notin ptTick.on \cup ptTick.left
           /\ ptTick'.at = ptTick.at /\ ptTick'.left = ptTick.left /\ ptTick'.on = ptTick.on /\ ptTick'.probe = ptTick.probe
           /\ ptTick'.settled = ptTick.settled \ {o} /\ ptTick'.overdue = ptTick.overdue
           /\ \A r \in PtOrders \ {o} : ptEntry'[r] = ptEntry[r] /\ ptBroker'[r] = ptBroker[r]
           /\ ptEntry'[o] = PtNew /\ ptBroker'[o] = "open"
  <1>1. ptTick \in PtTickType
    BY DEF PtTyped
  <1>2. /\ ptTick'.at = ptTick.at /\ ptTick'.left = ptTick.left /\ ptTick'.on = ptTick.on /\ ptTick'.probe = ptTick.probe
        /\ ptTick'.settled = ptTick.settled \ {o} /\ ptTick'.overdue = ptTick.overdue
    BY <1>1 DEF PtRegister, PtTickType
  <1> QED BY <1>2 DEF PtRegister, PtTyped

\* A second passes for the entries and for the breaker's cooldown.
LEMMA PtPassIs ==
    ASSUME PtAssumption, PtTyped, PtPass
    PROVE  /\ UNCHANGED <<ptBroker, ptOutage>> /\ ptTick.at = "over"
           /\ ptTick'.at = "idle" /\ ptTick'.left = {} /\ ptTick'.on = {} /\ ~ptTick'.probe /\ ptTick'.settled = {}
           /\ ptBreaker'.open = ptBreaker.open /\ ptBreaker'.errs = ptBreaker.errs
           /\ ptBreaker'.wait = (IF ptBreaker.wait > 0 THEN ptBreaker.wait - 1 ELSE 0)
           /\ \A o \in PtOrders : ptEntry'[o] = IF ptEntry[o].tracked THEN PtAged(ptEntry[o]) ELSE ptEntry[o]
  <1>1. ptBreaker \in PtBreakerType
    BY DEF PtTyped
  <1>2. /\ ptBreaker'.open = ptBreaker.open /\ ptBreaker'.errs = ptBreaker.errs
        /\ ptBreaker'.wait = (IF ptBreaker.wait > 0 THEN ptBreaker.wait - 1 ELSE 0)
    BY <1>1 DEF PtPass, PtBreakerType
  <1> QED BY <1>2 DEF PtPass, PtNoTick

\* An outage ends.
LEMMA PtComesBackIs ==
    ASSUME PtAssumption, PtTyped, PtComesBack
    PROVE  /\ UNCHANGED <<ptBroker, ptBreaker, ptTick>> /\ ptOutage /\ ~ptOutage'
           /\ \A o \in PtOrders :
                 /\ ptEntry'[o].tracked = ptEntry[o].tracked /\ ptEntry'[o].timed = ptEntry[o].timed
                 /\ ptEntry'[o].idx = ptEntry[o].idx /\ ptEntry'[o].due = ptEntry[o].due
                 /\ ptEntry'[o].unasked = 0 /\ ptEntry'[o].age <= PtTimeout + 1
  <1>1. ASSUME NEW o \in PtOrders
        PROVE  /\ ptEntry'[o].tracked = ptEntry[o].tracked /\ ptEntry'[o].timed = ptEntry[o].timed
               /\ ptEntry'[o].idx = ptEntry[o].idx /\ ptEntry'[o].due = ptEntry[o].due
               /\ ptEntry'[o].unasked = 0 /\ ptEntry'[o].age <= PtTimeout + 1
    <2>1. PICK e \in PtEntry : e = ptEntry[o]
      BY PtEntries
    <2>2. ptEntry'[o] = [e EXCEPT !.unasked = 0, !.age = PtLess(e.age, PtTimeout + 1)]
      BY <2>1 DEF PtComesBack
    <2>3. PtLess(e.age, PtTimeout + 1) <= PtTimeout + 1
      BY PtNumbers, PtEntries, <2>1 DEF PtLess
    <2>4. ptEntry'[o].age = PtLess(e.age, PtTimeout + 1) /\ ptEntry'[o].tracked = e.tracked /\ ptEntry'[o].timed = e.timed
          /\ ptEntry'[o].idx = e.idx /\ ptEntry'[o].due = e.due /\ ptEntry'[o].unasked = 0
      BY <2>2 DEF PtEntry
    <2> QED BY <2>1, <2>3, <2>4
  <1> QED BY <1>1 DEF PtComesBack

\* A tick begins with whoever is due, or with the one order of a test.
LEMMA PtBeginIs ==
    ASSUME PtAssumption, PtTyped, PtBegin
    PROVE  /\ UNCHANGED <<ptEntry, ptBroker, ptOutage, ptBreaker>> /\ ptTick.at = "idle" /\ ptTick'.at = "tick"
           /\ ptTick'.on = {} /\ ~ptTick'.overdue /\ ptTick'.settled = {o \in PtTracked : ptBroker[o] = "filled"}
           /\ \/ ptTick'.left = {} /\ ~ptTick'.probe /\ ((ptBreaker.open /\ ptBreaker.wait > 0) \/ PtTracked = {})
              \/ /\ ptBreaker.open /\ ptBreaker.wait = 0 /\ ptTick'.probe
                 /\ \E o \in PtTracked : PtEarliest(o) /\ ptTick'.left = {o}
              \/ ~ptBreaker.open /\ ~ptTick'.probe /\ ptTick'.left = {o \in PtTracked : ptEntry[o].due <= 0}
  <1>1. PICK z : z = {o \in PtTracked : ptBroker[o] = "filled"}
    OBVIOUS
  <1> DEFINE begun(l, p) == [PtNoTick EXCEPT !.at = "tick", !.left = l, !.probe = p, !.settled = z]
  <1>2. \A l, p : /\ begun(l, p).at = "tick" /\ begun(l, p).left = l /\ begun(l, p).probe = p /\ begun(l, p).settled = z
                  /\ begun(l, p).on = {} /\ begun(l, p).overdue = FALSE
    BY DEF PtNoTick
  <1>3. CASE ((ptBreaker.open /\ ptBreaker.wait > 0) \/ PtTracked = {}) /\ ptTick' = begun({}, FALSE)
    <2>1. /\ ptTick'.at = "tick" /\ ptTick'.left = {} /\ ptTick'.probe = FALSE /\ ptTick'.settled = z
          /\ ptTick'.on = {} /\ ptTick'.overdue = FALSE
      BY <1>2, <1>3
    <2> HIDE DEF begun
    <2> QED BY <1>1, <1>3, <2>1 DEF PtBegin
  <1>4. ASSUME ptBreaker.open, ptBreaker.wait = 0, NEW o \in PtTracked, PtEarliest(o), ptTick' = begun({o}, TRUE)
        PROVE  /\ ptTick'.at = "tick" /\ ptTick'.left = {o} /\ ptTick'.probe = TRUE /\ ptTick'.settled = z
               /\ ptTick'.on = {} /\ ptTick'.overdue = FALSE
    BY <1>2, <1>4
  <1>5. CASE ~ptBreaker.open /\ ptTick' = begun({o \in PtTracked : ptEntry[o].due <= 0}, FALSE)
    <2>1. PICK l : l = {o \in PtTracked : ptEntry[o].due <= 0}
      OBVIOUS
    <2>2. /\ ptTick'.at = "tick" /\ ptTick'.left = l /\ ptTick'.probe = FALSE /\ ptTick'.settled = z
          /\ ptTick'.on = {} /\ ptTick'.overdue = FALSE
      BY <1>2, <1>5, <2>1
    <2> HIDE DEF begun
    <2> QED BY <1>1, <1>5, <2>1, <2>2 DEF PtBegin
  <1>6. \/ ((ptBreaker.open /\ ptBreaker.wait > 0) \/ PtTracked = {}) /\ ptTick' = begun({}, FALSE)
        \/ ptBreaker.open /\ ptBreaker.wait = 0 /\ \E o \in PtTracked : PtEarliest(o) /\ ptTick' = begun({o}, TRUE)
        \/ ~ptBreaker.open /\ ptTick' = begun({o \in PtTracked : ptEntry[o].due <= 0}, FALSE)
    BY <1>1 DEF PtBegin
  <1> HIDE DEF begun
  <1>7. CASE ptBreaker.open /\ ptBreaker.wait = 0 /\ \E o \in PtTracked : PtEarliest(o) /\ ptTick' = begun({o}, TRUE)
    <2>1. PICK o \in PtTracked : PtEarliest(o) /\ ptTick' = begun({o}, TRUE)
      BY <1>7
    <2>2. /\ ptTick'.at = "tick" /\ ptTick'.left = {o} /\ ptTick'.probe = TRUE /\ ptTick'.settled = z
          /\ ptTick'.on = {} /\ ptTick'.overdue = FALSE
      BY <1>4, <1>7, <2>1
    <2> QED BY <1>1, <1>7, <2>1, <2>2 DEF PtBegin
  <1> QED BY <1>3, <1>5, <1>6, <1>7

\* A tick ends with nobody left to ask.
LEMMA PtEndIs ==
    ASSUME PtAssumption, PtTyped, PtEnd
    PROVE  /\ UNCHANGED <<ptEntry, ptBroker, ptOutage, ptBreaker>> /\ ptTick.at = "tick" /\ ptTick'.at = "over"
           /\ ptTick.left = {} \/ (~ptTick.probe /\ ptBreaker.open)
           /\ ptTick'.left = {} /\ ~ptTick'.probe /\ ptTick'.settled = {} /\ ptTick'.on = ptTick.on
  BY DEF PtEnd, PtTyped, PtTickType, PtMayAsk

\* A fill that was read takes the order out of the poller.
LEMMA PtResyncIs ==
    ASSUME PtAssumption, PtTyped, NEW o \in PtOrders, PtResync(o)
    PROVE  /\ UNCHANGED <<ptBroker, ptOutage, ptBreaker, ptTick>> /\ ptEntry[o].tracked /\ ptBroker[o] = "filled"
           /\ \A r \in PtOrders \ {o} : ptEntry'[r] = ptEntry[r]
           /\ ptEntry'[o] = PtGone
  BY DEF PtResync, PtTyped

-----------------------------------------------------------------------------
\* The shape of a tick holds in every step.
LEMMA PtTickingStep == ASSUME PtAssumption, PtTyped, PtTicking, [PtNext]_ptVars PROVE PtTicking'
  <1> USE DEF PtTicking, PtBusy
  <1>1. CASE PtPass
    BY <1>1, PtPassIs
  <1>2. CASE PtBegin
    <2>1. PtTracked \subseteq PtOrders
      BY DEF PtTracked
    <2> QED BY <1>2, <2>1, PtBeginIs
  <1>3. CASE PtEnd
    BY <1>3, PtEndIs
  <1>4. CASE PtGoesDown
    BY <1>4 DEF PtGoesDown
  <1>5. CASE PtComesBack
    BY <1>5 DEF PtComesBack
  <1>6. ASSUME NEW o \in PtOrders, PtAsk(o) PROVE PtTicking'
    <2>1. PtMayAsk <=> ptTick.probe \/ ~ptBreaker.open
      BY DEF PtMayAsk
    <2>2. ptTick.probe => ptTick.left = {o} /\ ptBreaker.open /\ ptBreaker.wait = 0
      BY <1>6, PtAskIs
    <2> QED BY <1>6, <2>1, <2>2, PtAskIs
  <1>7. ASSUME NEW o \in PtOrders, PtRaises(o) PROVE PtTicking'
    <2>1. ptTick.probe => ptTick.left = {}
      BY <1>7, PtRaisesIs
    <2> QED BY <1>7, <2>1, PtRaisesIs
  <1>8. ASSUME NEW o \in PtOrders, PtAnswers(o) PROVE PtTicking'
    <2>1. ptTick.on = {o} /\ o \notin ptTick.left /\ (ptTick.probe => ptTick.left = {})
      BY <1>8, PtAnswersIs
    <2> QED BY <1>8, <2>1, PtAnswersIs
  <1>9. ASSUME NEW o \in PtOrders, PtTimesOut(o) PROVE PtTicking'
    <2>1. ptTick.probe => ptTick.left = {}
      BY <1>9, PtTimesOutIs
    <2> QED BY <1>9, <2>1, PtTimesOutIs
  <1>10. ASSUME NEW o \in PtOrders, PtRegister(o) PROVE PtTicking'
    BY <1>10, PtRegisterIs
  <1>11. ASSUME NEW o \in PtOrders, PtResync(o) PROVE PtTicking'
    BY <1>11 DEF PtResync
  <1>12. ASSUME NEW o \in PtOrders, PtFills(o) PROVE PtTicking'
    BY <1>12 DEF PtFills
  <1>13. CASE UNCHANGED ptVars
    BY <1>13 DEF ptVars
  <1> QED BY <1>1, <1>2, <1>3, <1>4, <1>5, <1>6, <1>7, <1>8, <1>9, <1>10, <1>11, <1>12,
             <1>13 DEF PtNext

\* The entries and the broker's books agree in every step.
LEMMA PtBooksStep == ASSUME PtAssumption, PtTyped, PtTicking, PtBooks, [PtNext]_ptVars PROVE PtBooks'
  <1> USE DEF PtBooks
  <1>0. /\ ptTick.settled \subseteq PtOrders /\ ptTick.on \subseteq PtOrders
        /\ \A o \in PtOrders : ptEntry[o] \in PtEntry /\ ptEntry[o].tracked \in BOOLEAN
    BY PtTickIs, PtEntries
  <1>1. CASE PtPass
    <2>1. \A o \in PtOrders : /\ ptEntry'[o].tracked = ptEntry[o].tracked /\ ptEntry'[o].timed = ptEntry[o].timed
                              /\ ptEntry'[o].idx = ptEntry[o].idx
      BY <1>0, <1>1, PtPassIs, PtFields
    <2> QED BY <1>1, <2>1, PtPassIs
  <1>2. CASE PtBegin
    <2>1. \A o \in ptTick'.settled : o \in PtOrders /\ ptEntry[o].tracked /\ ptBroker[o] = "filled"
      BY <1>2, PtBeginIs DEF PtTracked
    <2> QED BY <1>2, <2>1, PtBeginIs DEF PtTracked
  <1>3. CASE PtEnd
    BY <1>3, PtEndIs
  <1>4. CASE PtGoesDown
    BY <1>4 DEF PtGoesDown
  <1>5. CASE PtComesBack
    BY <1>0, <1>5, PtComesBackIs
  <1>6. ASSUME NEW o \in PtOrders, PtAsk(o) PROVE PtBooks'
    BY <1>0, <1>6, PtAskIs
  <1>7. ASSUME NEW o \in PtOrders, PtRaises(o) PROVE PtBooks'
    BY <1>0, <1>7, PtRaisesIs
  <1>8. ASSUME NEW o \in PtOrders, PtAnswers(o) PROVE PtBooks'
    <2>1. ptTick.on = {o}
      BY <1>8, PtAnswersIs DEF PtTicking, PtBusy
    <2> QED BY <1>0, <1>8, <2>1, PtAnswersIs, PtEmpty
  <1>9. ASSUME NEW o \in PtOrders, PtTimesOut(o) PROVE PtBooks'
    <2>1. (ptEntry[o].tracked => o \notin ptTick.settled) /\ o \notin PtBad
      BY <1>9, PtTimesOutIs DEF PtTicking
    <2> QED BY <1>0, <1>9, <2>1, PtTimesOutIs
  <1>10. ASSUME NEW o \in PtOrders, PtRegister(o) PROVE PtBooks'
    BY <1>0, <1>10, PtRegisterIs, PtEmpty
  <1>11. ASSUME NEW o \in PtOrders, PtResync(o) PROVE PtBooks'
    BY <1>0, <1>11, PtResyncIs, PtEmpty
  <1>12. ASSUME NEW o \in PtOrders, PtFills(o) PROVE PtBooks'
    BY <1>0, <1>12 DEF PtFills, PtTyped
  <1>13. CASE UNCHANGED ptVars
    BY <1>13 DEF ptVars
  <1> QED BY <1>1, <1>2, <1>3, <1>4, <1>5, <1>6, <1>7, <1>8, <1>9, <1>10, <1>11, <1>12,
             <1>13 DEF PtNext

\* Who is asked is due in every step, unless he is a test.
LEMMA PtAskingStep == ASSUME PtAssumption, PtTyped, PtTicking, PtAsking, [PtNext]_ptVars PROVE PtAsking'
  <1> USE DEF PtAsking
  <1>0. /\ ptTick.left \subseteq PtOrders /\ ptTick.on \subseteq PtOrders
        /\ \A o \in PtOrders : ptEntry[o] \in PtEntry /\ ptEntry[o].tracked \in BOOLEAN
    BY PtTickIs, PtEntries
  <1>1. CASE PtPass
    BY <1>1, PtPassIs
  <1>2. CASE PtBegin
    BY <1>2, PtBeginIs
  <1>3. CASE PtEnd
    BY <1>3, PtEndIs DEF PtTicking, PtBusy
  <1>4. CASE PtGoesDown
    BY <1>4 DEF PtGoesDown
  <1>5. CASE PtComesBack
    BY <1>0, <1>5, PtComesBackIs
  <1>6. ASSUME NEW o \in PtOrders, PtAsk(o) PROVE PtAsking'
    BY <1>0, <1>6, PtAskIs
  <1>7. ASSUME NEW o \in PtOrders, PtRaises(o) PROVE PtAsking'
    <2>1. ptTick.on = {o} /\ o \notin ptTick.left
      BY <1>7, PtRaisesIs DEF PtTicking, PtBusy
    <2> QED BY <1>0, <1>7, <2>1, PtRaisesIs
  <1>8. ASSUME NEW o \in PtOrders, PtAnswers(o) PROVE PtAsking'
    <2>1. ptTick.on = {o} /\ o \notin ptTick.left
      BY <1>8, PtAnswersIs DEF PtTicking, PtBusy
    <2> QED BY <1>0, <1>8, <2>1, PtAnswersIs, PtEmpty
  <1>9. ASSUME NEW o \in PtOrders, PtTimesOut(o) PROVE PtAsking'
    <2>1. ptTick.on = {o} /\ o \notin ptTick.left
      BY <1>9, PtTimesOutIs DEF PtTicking, PtBusy
    <2> QED BY <1>0, <1>9, <2>1, PtTimesOutIs
  <1>10. ASSUME NEW o \in PtOrders, PtRegister(o) PROVE PtAsking'
    BY <1>0, <1>10, PtRegisterIs
  <1>11. ASSUME NEW o \in PtOrders, PtResync(o) PROVE PtAsking'
    BY <1>0, <1>11, PtResyncIs, PtEmpty
  <1>12. ASSUME NEW o \in PtOrders, PtFills(o) PROVE PtAsking'
    BY <1>12 DEF PtFills
  <1>13. CASE UNCHANGED ptVars
    BY <1>13 DEF ptVars
  <1> QED BY <1>1, <1>2, <1>3, <1>4, <1>5, <1>6, <1>7, <1>8, <1>9, <1>10, <1>11, <1>12,
             <1>13 DEF PtNext

\* Who waits and how long: what steps other than the clock leave of it.
LEMMA PtSoonStep == ASSUME PtAssumption, PtTyped, PtTicking, PtAsking, PtHeard, PtSoon, [PtNext]_ptVars PROVE PtSoon'
  <1> USE DEF PtSoon, PtTracked
  <1>0. /\ ptTick.left \subseteq PtOrders /\ ptTick.on \subseteq PtOrders
        /\ \A o \in PtOrders : /\ ptEntry[o] \in PtEntry /\ ptEntry[o].tracked \in BOOLEAN
                               /\ ptEntry[o].due \in Int /\ ptEntry[o].unasked \in Nat /\ ptEntry[o].due <= PtLongest
                               /\ -PtWithin <= ptEntry[o].due
    BY PtTickIs, PtEntries
  <1>00. PtLongest \in Nat \ {0} /\ PtWithin \in Nat
    BY PtNumbers
  <1>000. PtTyped' /\ \A o \in PtOrders : ptEntry'[o].due \in Int /\ ptEntry'[o].due <= PtLongest /\ ptEntry'[o].unasked \in Nat
    <2>1. PtTyped'
      BY PtTypedStep
    <2>2. ASSUME NEW o \in PtOrders PROVE ptEntry'[o].due \in Int /\ ptEntry'[o].due <= PtLongest /\ ptEntry'[o].unasked \in Nat
      <3>1. ptEntry'[o] \in PtEntry
        BY <2>1 DEF PtTyped
      <3> QED BY <1>00, <3>1 DEF PtEntry
    <2> QED BY <2>1, <2>2
  <1>1. CASE PtPass
    <2>1. ASSUME NEW o \in PtOrders, ptEntry'[o].tracked PROVE ptEntry'[o].unasked + ptEntry'[o].due <= PtLongest
      <3>1. ptEntry[o].tracked /\ ptEntry'[o] = PtAged(ptEntry[o])
        BY <1>0, <1>1, <2>1, PtPassIs
      <3>2. PICK e \in PtEntry : e = ptEntry[o]
        BY <1>0
      <3>3. /\ e.due \in Int /\ e.unasked \in Nat /\ e.unasked <= PtWithin /\ e.unasked + e.due <= PtLongest
            /\ e.due <= PtLongest /\ -PtWithin <= e.due
        BY <1>0, <3>1, <3>2 DEF PtHeard
      <3>4. PtAged(e).due = (IF e.due > -PtWithin THEN e.due - 1 ELSE e.due)
        BY PtFields
      <3>5. PtAged(e).unasked = 0 \/ PtAged(e).unasked = e.unasked + 1
        BY <3>3, PtFields
      <3>6. PtAged(e).unasked + PtAged(e).due <= PtLongest
        BY ONLY <1>00, <3>3, <3>4, <3>5
      <3> QED BY <3>1, <3>2, <3>6
    <2> QED BY <2>1
  <1>2. CASE PtBegin
    BY <1>2, PtBeginIs
  <1>3. CASE PtEnd
    BY <1>3, PtEndIs
  <1>4. CASE PtGoesDown
    BY <1>4 DEF PtGoesDown
  <1>5. CASE PtComesBack
    BY <1>0, <1>00, <1>000, <1>5, PtComesBackIs
  <1>6. ASSUME NEW o \in PtOrders, PtAsk(o) PROVE PtSoon'
    BY <1>0, <1>00, <1>000, <1>6, PtAskIs
  <1>7. ASSUME NEW o \in PtOrders, PtRaises(o) PROVE PtSoon'
    BY <1>0, <1>00, <1>000, <1>7, PtRaisesIs DEF PtAsking, PtTicking, PtBusy
  <1>8. ASSUME NEW o \in PtOrders, PtAnswers(o) PROVE PtSoon'
    BY <1>0, <1>00, <1>000, <1>8, PtAnswersIs DEF PtAsking, PtTicking, PtBusy
  <1>9. ASSUME NEW o \in PtOrders, PtTimesOut(o) PROVE PtSoon'
    BY <1>0, <1>9, PtTimesOutIs
  <1>10. ASSUME NEW o \in PtOrders, PtRegister(o) PROVE PtSoon'
    BY <1>0, <1>00, <1>10, PtRegisterIs, PtEmpty
  <1>11. ASSUME NEW o \in PtOrders, PtResync(o) PROVE PtSoon'
    BY <1>0, <1>11, PtResyncIs, PtEmpty
  <1>12. ASSUME NEW o \in PtOrders, PtFills(o) PROVE PtSoon'
    BY <1>12 DEF PtFills
  <1>13. CASE UNCHANGED ptVars
    BY <1>13 DEF ptVars
  <1> QED BY <1>1, <1>2, <1>3, <1>4, <1>5, <1>6, <1>7, <1>8, <1>9, <1>10, <1>11, <1>12,
             <1>13 DEF PtNext

\* Who was asked since another began to wait is due anew, in every step.
LEMMA PtRenewedStep ==
    ASSUME PtAssumption, PtTyped, PtTicking, PtAsking, PtHeard, PtRenewed, [PtNext]_ptVars
    PROVE  PtRenewed'
  <1> USE DEF PtRenewed, PtTracked
  <1>0. /\ ptTick.left \subseteq PtOrders /\ ptTick.on \subseteq PtOrders
        /\ \A o \in PtOrders : /\ ptEntry[o] \in PtEntry /\ ptEntry[o].tracked \in BOOLEAN
                               /\ ptEntry[o].due \in Int /\ ptEntry[o].unasked \in Nat /\ -PtWithin <= ptEntry[o].due
    BY PtTickIs, PtEntries
  <1>1. PtLongest \in Nat \ {0} /\ PtWithin \in Nat
    BY PtNumbers
  <1>2. CASE PtPass
    <2>1. ASSUME NEW o \in PtOrders, ptEntry'[o].tracked
          PROVE  /\ ptEntry[o].tracked /\ ptEntry'[o].unasked = IF ptOutage THEN 0 ELSE ptEntry[o].unasked + 1
                 /\ ptEntry'[o].due = IF ptEntry[o].due > -PtWithin THEN ptEntry[o].due - 1 ELSE ptEntry[o].due
      <3>1. ptEntry[o].tracked /\ ptEntry'[o] = PtAged(ptEntry[o])
        BY <1>0, <1>2, <2>1, PtPassIs
      <3>2. ptEntry[o].unasked <= PtWithin
        BY <3>1 DEF PtHeard
      <3> QED BY <1>0, <3>1, <3>2, PtFields
    <2>2. ASSUME NEW o \in PtOrders, NEW r \in PtOrders, ptEntry'[o].tracked, ptEntry'[r].tracked,
                 ptEntry'[r].unasked < ptEntry'[o].unasked
          PROVE  ptEntry'[r].due + ptEntry'[r].unasked >= 0
      <3>1. ~ptOutage /\ ptEntry[r].unasked < ptEntry[o].unasked
        BY <1>0, <2>1, <2>2
      <3>2. r \notin ptTick.on
        BY <1>2, PtPassIs DEF PtTicking, PtBusy
      <3>3. ptEntry[r].due + ptEntry[r].unasked >= 0
        BY <2>1, <2>2, <3>1, <3>2
      <3> QED BY <1>0, <1>1, <2>1, <2>2, <3>1, <3>3
    <2> QED BY <2>2
  <1>3. CASE PtBegin
    <2>1. \A r \in PtOrders : r \notin ptTick.on
      BY <1>3, PtBeginIs DEF PtTicking, PtBusy
    <2> QED BY <1>3, <2>1, PtBeginIs
  <1>4. CASE PtEnd
    BY <1>4, PtEndIs
  <1>5. CASE PtGoesDown
    BY <1>5 DEF PtGoesDown
  <1>6. CASE PtComesBack
    BY <1>0, <1>6, PtComesBackIs
  <1>7. ASSUME NEW p \in PtOrders, PtAsk(p) PROVE PtRenewed'
    <2>1. \A r \in PtOrders : r \notin ptTick.on
      BY <1>7, PtAskIs DEF PtTicking, PtBusy
    <2> QED BY <1>0, <1>7, <2>1, PtAskIs
  <1>8. ASSUME NEW p \in PtOrders, PtRaises(p) PROVE PtRenewed'
    <2>1. ptTick.on = {p} /\ ptEntry[p].unasked = 0
      BY <1>8, PtRaisesIs DEF PtTicking, PtBusy, PtAsking
    <2>2. ptEntry'[p].tracked => ptEntry'[p].unasked = 0 /\ ptEntry'[p].due >= 1 /\ ptEntry'[p].due \in Int /\ ptEntry[p].tracked
      BY <1>0, <1>1, <1>8, <2>1, PtRaisesIs, PtEntries
    <2> QED BY <1>0, <1>8, <2>1, <2>2, PtRaisesIs
  <1>9. ASSUME NEW p \in PtOrders, PtAnswers(p) PROVE PtRenewed'
    <2>1. ptTick.on = {p} /\ ptEntry[p].unasked = 0
      BY <1>9, PtAnswersIs DEF PtTicking, PtBusy, PtAsking
    <2>2. ptEntry'[p].tracked => ptEntry'[p].unasked = 0 /\ ptEntry'[p].due >= 1 /\ ptEntry'[p].due \in Int /\ ptEntry[p].tracked
      BY <1>0, <1>1, <1>9, <2>1, PtAnswersIs, PtEntries
    <2> QED BY <1>0, <1>9, <2>1, <2>2, PtAnswersIs
  <1>10. ASSUME NEW p \in PtOrders, PtTimesOut(p) PROVE PtRenewed'
    BY <1>0, <1>10, PtTimesOutIs
  <1>11. ASSUME NEW p \in PtOrders, PtRegister(p) PROVE PtRenewed'
    BY <1>0, <1>11, PtRegisterIs, PtEmpty
  <1>12. ASSUME NEW p \in PtOrders, PtResync(p) PROVE PtRenewed'
    BY <1>0, <1>12, PtResyncIs, PtEmpty
  <1>13. ASSUME NEW p \in PtOrders, PtFills(p) PROVE PtRenewed'
    BY <1>13 DEF PtFills
  <1>14. CASE UNCHANGED ptVars
    BY <1>14 DEF ptVars
  <1> QED BY <1>2, <1>3, <1>4, <1>5, <1>6, <1>7, <1>8, <1>9, <1>10, <1>11, <1>12, <1>13,
             <1>14 DEF PtNext

-----------------------------------------------------------------------------
\* Who is ahead of an order is one of the others.
LEMMA PtAheadIs ==
    ASSUME PtAssumption, NEW o \in PtOrders
    PROVE  /\ PtAhead(o) \subseteq PtOrders \ {o} /\ PtAhead(o)' \subseteq PtOrders \ {o}
           /\ \A s \in SUBSET PtOrders : PtCost(s) \in Nat /\ \A q \in SUBSET s : PtCost(q) <= PtCost(s)
           /\ \A s \in SUBSET PtOrders : \A p \in s : PtCost(s \ {p}) + PtMaxCool = PtCost(s)
           /\ \A s \in SUBSET (PtOrders \ {o}) : PtLongest + PtCost(s) + PtMaxCool <= PtWithin
  <1>1. PtAhead(o) \subseteq PtOrders \ {o} /\ PtAhead(o)' \subseteq PtOrders \ {o}
    BY DEF PtAhead, PtTracked
  <1>2. ASSUME NEW s \in SUBSET PtOrders
        PROVE  /\ PtCost(s) \in Nat /\ \A q \in SUBSET s : PtCost(q) <= PtCost(s)
               /\ \A p \in s : PtCost(s \ {p}) + PtMaxCool = PtCost(s)
    BY PtCosts
  <1>3. ASSUME NEW s \in SUBSET (PtOrders \ {o}) PROVE PtLongest + PtCost(s) + PtMaxCool <= PtWithin
    BY PtCosts
  <1> QED BY <1>1, <1>2, <1>3

\* Every order that waits is nearer its turn, whatever others come and go.
LEMMA PtTurnOthers ==
    ASSUME PtAssumption, PtTyped, PtTicking, PtTurns, NEW p \in PtOrders, PtRegister(p) \/ PtResync(p),
           NEW o \in PtOrders, PtWaits(o)'
    PROVE  PtTurn(o)'
  <1>1. \A r \in PtOrders : /\ ptEntry[r] \in PtEntry /\ ptEntry[r].tracked \in BOOLEAN
                            /\ ptEntry[r].due \in Int /\ ptEntry[r].unasked \in Nat
    BY PtEntries
  <1>2. o # p
    BY PtRegisterIs, PtResyncIs, PtEmpty DEF PtWaits, PtTracked
  <1>3. ptEntry'[o] = ptEntry[o] /\ PtWaits(o)
    BY <1>2, PtRegisterIs, PtResyncIs DEF PtWaits, PtTracked
  <1>4. PtTurn(o)
    BY <1>3 DEF PtTurns
  <1>5. PtAhead(o)' \subseteq PtAhead(o)
    <2>1. ASSUME NEW r \in PtAhead(o)' PROVE r \in PtAhead(o)
      <3>1. r \in PtOrders /\ r # o
        BY PtAheadIs
      <3>2. CASE r = p
        BY <1>1, <1>3, <3>1, <3>2, PtRegisterIs, PtResyncIs, PtEmpty
           DEF PtAhead, PtTracked, PtWaits
      <3>3. CASE r # p
        BY <1>3, <3>1, <3>3, PtRegisterIs, PtResyncIs DEF PtAhead, PtTracked
      <3> QED BY <3>2, <3>3
    <2> QED BY <2>1
  <1>6. PICK a, b : a = PtAhead(o) /\ b = PtAhead(o)'
    OBVIOUS
  <1>7. PICK w : w = ptTick.left \cup ptTick.on
    OBVIOUS
  <1>8. /\ a \subseteq PtOrders /\ b \subseteq a /\ w \subseteq PtOrders /\ (b \cup w) \subseteq (a \cup w)
        /\ (a \cup w) \subseteq PtOrders
    BY <1>5, <1>6, <1>7, PtAheadIs, PtTickIs
  <1>9. PtCost(b) <= PtCost(a) /\ PtCost(b \cup w) <= PtCost(a \cup w) /\ PtCost(a) \in Nat /\ PtCost(b) \in Nat
        /\ PtCost(a \cup w) \in Nat /\ PtCost(b \cup w) \in Nat
    BY <1>8, PtAheadIs
  <1>10. /\ ptTick'.at = ptTick.at /\ ptTick'.left = ptTick.left /\ ptTick'.on = ptTick.on /\ ptTick'.probe = ptTick.probe
         /\ ptBreaker' = ptBreaker /\ (PtTesting' <=> PtTesting)
    BY PtRegisterIs, PtResyncIs DEF PtTesting
  <1>11. (a \cup ptTick.left) \cup ptTick.on = a \cup w /\ (b \cup ptTick'.left) \cup ptTick'.on = b \cup w
    BY <1>7, <1>10
  <1>12. ptEntry[o].unasked \in Nat /\ PtWithin \in Nat /\ PtCool \in Nat /\ ptBreaker.wait \in Nat
    BY <1>1, PtNumbers, PtTickIs
  <1>13. /\ PtTesting => o \in ptTick.left \/ ptEntry[o].unasked + PtCost(a \cup w) <= PtWithin
         /\ ~PtTesting /\ ptBreaker.open =>
               (ptTick.at = "idle" \/ ptBreaker.wait > 0) /\ ptEntry[o].unasked + PtCost(a) + ptBreaker.wait <= PtWithin
         /\ ~PtTesting /\ ~ptBreaker.open /\ (ptTick.at = "idle" \/ o \in ptTick.left) =>
               ptEntry[o].unasked + PtCost(a) + PtCool <= PtWithin
         /\ ~PtTesting /\ ~ptBreaker.open /\ ~(ptTick.at = "idle" \/ o \in ptTick.left) =>
               (ptTick.probe \/ ptTick.at = "over") /\ ptEntry[o].unasked + PtCost(a) + PtCool + 1 <= PtWithin
    BY <1>4, <1>6, <1>11 DEF PtTurn, PtSpent
  <1>14. /\ PtSpent(PtAhead(o), o)' = ptEntry[o].unasked + PtCost(b)
         /\ PtSpent(PtAhead(o) \cup ptTick.left \cup ptTick.on, o)' = ptEntry[o].unasked + PtCost(b \cup w)
    BY <1>3, <1>6, <1>11 DEF PtSpent
  <1> QED BY <1>9, <1>10, <1>12, <1>13, <1>14 DEF PtTurn

\* A tick begins: a test is for one that is ahead.
LEMMA PtTurnBegin ==
    ASSUME PtAssumption, PtTyped, PtTicking, PtHeard, PtTurns, PtBegin, NEW o \in PtOrders, PtWaits(o)'
    PROVE  PtTurn(o)'
  <1>1. PtWaits(o) /\ PtTurn(o) /\ ptEntry' = ptEntry /\ ptBreaker' = ptBreaker
    BY PtBeginIs DEF PtTurns, PtWaits, PtTracked
  <1>2. ptTick.at = "idle" /\ ~ptTick.probe /\ ptTick.left = {} /\ ~PtTesting
    BY PtBeginIs DEF PtTicking, PtTesting
  <1>3. ptTick'.at = "tick" /\ ptTick'.on = {}
    BY PtBeginIs
  <1>4. PICK a : a = PtAhead(o)
    OBVIOUS
  <1>5. PtAhead(o)' = a /\ PtSpent(a, o)' = PtSpent(a, o)
    BY <1>1, <1>4 DEF PtAhead, PtTracked, PtSpent
  <1>6. PtSpent(a, o) \in Nat /\ PtCool \in Nat /\ ptBreaker.wait \in Nat /\ PtWithin \in Nat
    BY <1>4, PtAheadIs, PtEntries, PtTickIs, PtNumbers DEF PtSpent
  <1>7. CASE ptTick'.left = {} /\ ~ptTick'.probe /\ ((ptBreaker.open /\ ptBreaker.wait > 0) \/ PtTracked = {})
    <2>1. ptBreaker.open /\ ptBreaker.wait > 0 /\ ~PtTesting'
      BY <1>1, <1>7 DEF PtWaits, PtTesting
    <2> QED BY <1>1, <1>2, <1>4, <1>5, <2>1 DEF PtTurn
  <1>8. CASE ptBreaker.open /\ ptBreaker.wait = 0 /\ ptTick'.probe /\ \E p \in PtTracked : PtEarliest(p) /\ ptTick'.left = {p}
    <2>1. PICK p \in PtTracked : PtEarliest(p) /\ ptTick'.left = {p}
      BY <1>8
    <2>2. PtTesting'
      BY <1>3, <1>8, <2>1 DEF PtTesting
    <2>3. CASE p = o
      BY <2>1, <2>2, <2>3 DEF PtTurn
    <2>4. CASE p # o
      <3>1. p \in a
        BY <1>1, <1>4, <2>1, <2>4 DEF PtAhead, PtEarliest, PtWaits
      <3>2. (a \cup ptTick'.left) \cup ptTick'.on = a
        BY <1>3, <2>1, <3>1
      <3>3. PtSpent(a, o) <= PtWithin
        BY <1>1, <1>2, <1>4, <1>6, <1>8 DEF PtTurn
      <3>4. PtSpent(PtAhead(o) \cup ptTick.left \cup ptTick.on, o)' = PtSpent(a, o)
        BY <1>1, <1>5, <3>2 DEF PtSpent
      <3> QED BY <2>2, <3>3, <3>4 DEF PtTurn
    <2> QED BY <2>3, <2>4
  <1>9. CASE ~ptBreaker.open /\ ~ptTick'.probe /\ ptTick'.left = {q \in PtTracked : ptEntry[q].due <= 0}
    <2>1. o \in ptTick'.left
      BY <1>1, <1>9, PtEntries DEF PtWaits
    <2>2. ~PtTesting'
      BY <1>9 DEF PtTesting
    <2> QED BY <1>1, <1>2, <1>4, <1>5, <1>9, <2>1, <2>2 DEF PtTurn
  <1> QED BY <1>7, <1>8, <1>9, PtBeginIs

\* A tick ends: everybody that was due was asked, or the breaker cools.
LEMMA PtTurnEnd ==
    ASSUME PtAssumption, PtTyped, PtTicking, PtTurns, PtEnd, NEW o \in PtOrders, PtWaits(o)'
    PROVE  PtTurn(o)'
  <1>1. PtWaits(o) /\ PtTurn(o) /\ ptEntry' = ptEntry /\ ptBreaker' = ptBreaker
    BY PtEndIs DEF PtTurns, PtWaits, PtTracked
  <1>2. PICK a : a = PtAhead(o)
    OBVIOUS
  <1>3. PtAhead(o)' = a /\ PtSpent(a, o)' = PtSpent(a, o)
    BY <1>1, <1>2 DEF PtAhead, PtTracked, PtSpent
  <1>4. ~PtTesting /\ ~PtTesting'
    BY PtEndIs DEF PtTesting
  <1>5. ptTick.at = "tick" /\ ptTick'.at = "over" /\ (ptBreaker.open \/ ptTick.left = {}) /\ ptTick'.left = {}
    BY PtEndIs
  <1> QED BY <1>1, <1>2, <1>3, <1>4, <1>5 DEF PtTurn

\* One is asked: another one keeps its place.
LEMMA PtTurnAsk ==
    ASSUME PtAssumption, PtTyped, PtTicking, PtTurns, NEW p \in PtOrders, PtAsk(p), NEW o \in PtOrders, PtWaits(o)'
    PROVE  PtTurn(o)'
  <1>1. o # p
    BY PtAskIs DEF PtWaits
  <1>2. ptEntry'[o] = ptEntry[o] /\ PtWaits(o) /\ PtTurn(o) /\ ptBreaker' = ptBreaker
    BY <1>1, PtAskIs DEF PtWaits, PtTracked, PtTurns
  <1>3. PtAhead(o)' \subseteq PtAhead(o)
    <2>1. ASSUME NEW r \in PtAhead(o)' PROVE r \in PtAhead(o)
      <3>1. r \in PtOrders /\ r # o
        BY PtAheadIs
      <3>2. CASE r = p
        BY <1>2, <3>1, <3>2, PtAskIs, PtEntries DEF PtAhead, PtTracked, PtWaits
      <3>3. CASE r # p
        BY <1>2, <3>1, <3>3, PtAskIs DEF PtAhead, PtTracked
      <3> QED BY <3>2, <3>3
    <2> QED BY <2>1
  <1>4. PICK a, b : a = PtAhead(o) /\ b = PtAhead(o)'
    OBVIOUS
  <1>5. /\ ptTick.at = "tick" /\ ptTick'.at = "asked" /\ p \in ptTick.left /\ ptTick'.left = ptTick.left \ {p}
        /\ ptTick'.on = {p} /\ ptTick'.probe = ptTick.probe /\ (PtTesting <=> ptTick.probe) /\ (PtTesting' <=> ptTick.probe)
        /\ (ptTick.probe \/ ~ptBreaker.open) /\ ptTick.on = {}
    BY PtAskIs DEF PtTesting, PtMayAsk, PtTicking, PtBusy
  <1>6. /\ PtCost(b) <= PtCost(a) /\ PtCost(a) \in Nat /\ PtCost(b) \in Nat /\ PtCost(b \cup {p}) <= PtCost(a \cup {p})
        /\ PtCost(b \cup {p}) \in Nat /\ PtCost(a \cup {p}) \in Nat
    <2>1. a \cup {p} \in SUBSET PtOrders /\ b \cup {p} \in SUBSET (a \cup {p}) /\ a \in SUBSET PtOrders /\ b \in SUBSET a
          /\ b \in SUBSET PtOrders /\ b \cup {p} \in SUBSET PtOrders
      BY <1>3, <1>4, PtAheadIs
    <2> QED BY <2>1, PtAheadIs
  <1>7. ptEntry[o].unasked \in Nat /\ PtWithin \in Nat /\ PtCool \in Nat
    BY PtEntries, PtNumbers
  <1>8. CASE ptTick.probe
    <2>1. ptTick.left = {p}
      BY <1>5, <1>8 DEF PtTicking
    <2>2. (a \cup ptTick.left) \cup ptTick.on = a \cup {p} /\ (b \cup ptTick'.left) \cup ptTick'.on = b \cup {p}
      BY <1>5, <2>1
    <2>3. ptEntry[o].unasked + PtCost(a \cup {p}) <= PtWithin
      BY <1>1, <1>2, <1>4, <1>5, <1>8, <2>1, <2>2 DEF PtTurn, PtSpent
    <2>4. PtSpent(PtAhead(o) \cup ptTick.left \cup ptTick.on, o)' = ptEntry[o].unasked + PtCost(b \cup {p})
      BY <1>2, <1>4, <2>2 DEF PtSpent
    <2> QED BY <1>5, <1>6, <1>7, <1>8, <2>3, <2>4 DEF PtTurn
  <1>9. CASE ~ptTick.probe
    <2>1. o \in ptTick.left /\ ptEntry[o].unasked + PtCost(a) + PtCool <= PtWithin
      BY <1>2, <1>4, <1>5, <1>9 DEF PtTurn, PtSpent
    <2>2. PtSpent(PtAhead(o), o)' = ptEntry[o].unasked + PtCost(b)
      BY <1>2, <1>4 DEF PtSpent
    <2> QED BY <1>1, <1>2, <1>5, <1>6, <1>7, <1>9, <2>1, <2>2 DEF PtTurn
  <1> QED BY <1>8, <1>9

\* The one that was asked is behind.
LEMMA PtTurnBehind ==
    ASSUME PtAssumption, PtTyped, PtTicking, PtAsking, NEW p \in PtOrders, PtRaises(p) \/ PtAnswers(p),
           NEW o \in PtOrders, PtWaits(o)'
    PROVE  /\ o # p /\ ptEntry'[o] = ptEntry[o] /\ PtWaits(o) /\ ptTick.on = {p} /\ p \notin ptTick.left
           /\ PtAhead(o)' \subseteq PtAhead(o) \ {p}
  <1>1. ptTick.on = {p} /\ p \notin ptTick.left /\ ptEntry[p].unasked = 0
    BY PtRaisesIs, PtAnswersIs DEF PtTicking, PtBusy, PtAsking
  <1>2. ptEntry'[p].tracked => ptEntry'[p].due >= 1 /\ ptEntry'[p].unasked = 0 /\ ptEntry[p].tracked /\ ptEntry'[p].due \in Int
    <2>1. ptEntry[p].idx \in Int /\ ptEntry[p].tracked \in BOOLEAN
      BY PtEntries, PtNumbers
    <2> QED BY <1>1, <2>1, PtRaisesIs, PtAnswersIs, PtEmpty
  <1>3. o # p
    BY <1>2 DEF PtWaits, PtTracked
  <1>4. ptEntry'[o] = ptEntry[o] /\ PtWaits(o)
    BY <1>3, PtRaisesIs, PtAnswersIs DEF PtWaits, PtTracked
  <1>5. ASSUME NEW r \in PtAhead(o)' PROVE r \in PtAhead(o) \ {p}
    <2>1. r \in PtOrders /\ r # o
      BY PtAheadIs
    <2>2. ptEntry[o].due \in Int /\ ptEntry[o].unasked \in Nat /\ ptEntry[o].due < 0 /\ ptEntry[o].unasked > 0
      BY <1>4, PtEntries DEF PtWaits
    <2>3. r # p
      BY <1>2, <1>4, <2>2 DEF PtAhead, PtTracked
    <2> QED BY <1>4, <2>1, <2>3, PtRaisesIs, PtAnswersIs DEF PtAhead, PtTracked
  <1> QED BY <1>1, <1>3, <1>4, <1>5

\* A test that fails costs a cooldown, and one place.
LEMMA PtTurnRaises ==
    ASSUME PtAssumption, PtTyped, PtTicking, PtAsking, PtTurns, NEW p \in PtOrders, PtRaises(p),
           NEW o \in PtOrders, PtWaits(o)'
    PROVE  PtTurn(o)'
  <1>1. /\ o # p /\ ptEntry'[o] = ptEntry[o] /\ PtWaits(o) /\ PtTurn(o) /\ ptTick.on = {p} /\ p \notin ptTick.left
        /\ PtAhead(o)' \subseteq PtAhead(o) \ {p}
    BY PtTurnBehind DEF PtTurns
  <1>2. PICK a, b : a = PtAhead(o) /\ b = PtAhead(o)'
    OBVIOUS
  <1>3. /\ ptTick.at = "asked" /\ ptTick'.at = "tick" /\ ptTick'.left = ptTick.left /\ ptTick'.on = {}
        /\ ptTick'.probe = ptTick.probe /\ (PtTesting <=> ptTick.probe) /\ ~PtTesting'
        /\ (~ptTick.probe => ~ptBreaker.open) /\ (ptTick.probe => ptTick.left = {})
    BY PtRaisesIs DEF PtTesting, PtTicking
  <1>4. /\ PtCost(b) <= PtCost(a) /\ PtCost(a) \in Nat /\ PtCost(b) \in Nat /\ PtCost(b) + PtMaxCool <= PtCost(a \cup {p})
        /\ PtCost(a \cup {p}) \in Nat
    <2>1. a \cup {p} \in SUBSET PtOrders /\ b \in SUBSET ((a \cup {p}) \ {p}) /\ a \in SUBSET PtOrders /\ b \in SUBSET a
          /\ b \in SUBSET PtOrders /\ p \in a \cup {p} /\ (a \cup {p}) \ {p} \in SUBSET PtOrders
      BY <1>1, <1>2, PtAheadIs
    <2>2. PtCost((a \cup {p}) \ {p}) + PtMaxCool = PtCost(a \cup {p}) /\ PtCost(b) <= PtCost((a \cup {p}) \ {p})
          /\ PtCost((a \cup {p}) \ {p}) \in Nat
      BY <2>1, PtAheadIs
    <2> QED BY <2>1, <2>2, PtAheadIs, PtNumbers
  <1>5. ptEntry[o].unasked \in Nat /\ PtWithin \in Nat /\ PtCool \in Nat \ {0} /\ PtMaxCool \in Nat
        /\ ptBreaker'.wait \in 0..PtMaxCool /\ ptBreaker'.open \in BOOLEAN
    BY PtEntries, PtNumbers, PtRaisesIs
  <1>6. PtSpent(PtAhead(o), o)' = ptEntry[o].unasked + PtCost(b)
    BY <1>1, <1>2 DEF PtSpent
  <1>7. CASE ptTick.probe
    <2>1. (a \cup ptTick.left) \cup ptTick.on = a \cup {p}
      BY <1>1, <1>3, <1>7
    <2>2. ptEntry[o].unasked + PtCost(a \cup {p}) <= PtWithin
      BY <1>1, <1>2, <1>3, <1>7, <2>1 DEF PtTurn, PtSpent
    <2>3. ptBreaker'.open /\ ptBreaker'.wait > 0
      BY <1>7, PtRaisesIs
    <2> QED BY <1>3, <1>4, <1>5, <1>6, <2>2, <2>3 DEF PtTurn
  <1>8. CASE ~ptTick.probe
    <2>1. o \in ptTick.left /\ ptEntry[o].unasked + PtCost(a) + PtCool <= PtWithin
      BY <1>1, <1>2, <1>3, <1>8 DEF PtTurn, PtSpent
    <2>2. ptBreaker'.open => ptBreaker'.wait = PtCool
      BY <1>3, <1>8, PtRaisesIs
    <2> QED BY <1>3, <1>4, <1>5, <1>6, <2>1, <2>2 DEF PtTurn
  <1> QED BY <1>7, <1>8

\* A test that answers costs less than a cooldown, if the breaker opens again.
LEMMA PtTurnAnswers ==
    ASSUME PtAssumption, PtTyped, PtTicking, PtAsking, PtTurns, NEW p \in PtOrders, PtAnswers(p),
           NEW o \in PtOrders, PtWaits(o)'
    PROVE  PtTurn(o)'
  <1>1. /\ o # p /\ ptEntry'[o] = ptEntry[o] /\ PtWaits(o) /\ PtTurn(o) /\ ptTick.on = {p} /\ p \notin ptTick.left
        /\ PtAhead(o)' \subseteq PtAhead(o) \ {p}
    BY PtTurnBehind DEF PtTurns
  <1>2. PICK a, b : a = PtAhead(o) /\ b = PtAhead(o)'
    OBVIOUS
  <1>3. /\ ptTick.at = "asked" /\ ptTick'.at = "read" /\ ptTick'.left = ptTick.left
        /\ ptTick'.probe = ptTick.probe /\ (PtTesting <=> ptTick.probe) /\ ~PtTesting'
        /\ (~ptTick.probe => ~ptBreaker.open) /\ (ptTick.probe => ptTick.left = {}) /\ ~ptBreaker'.open
    BY PtAnswersIs DEF PtTesting, PtTicking
  <1>4. /\ PtCost(b) <= PtCost(a) /\ PtCost(a) \in Nat /\ PtCost(b) \in Nat /\ PtCost(b) + PtMaxCool <= PtCost(a \cup {p})
        /\ PtCost(a \cup {p}) \in Nat
    <2>1. a \cup {p} \in SUBSET PtOrders /\ b \in SUBSET ((a \cup {p}) \ {p}) /\ a \in SUBSET PtOrders /\ b \in SUBSET a
          /\ b \in SUBSET PtOrders /\ p \in a \cup {p} /\ (a \cup {p}) \ {p} \in SUBSET PtOrders
      BY <1>1, <1>2, PtAheadIs
    <2>2. PtCost((a \cup {p}) \ {p}) + PtMaxCool = PtCost(a \cup {p}) /\ PtCost(b) <= PtCost((a \cup {p}) \ {p})
          /\ PtCost((a \cup {p}) \ {p}) \in Nat
      BY <2>1, PtAheadIs
    <2> QED BY <2>1, <2>2, PtAheadIs, PtNumbers
  <1>5. ptEntry[o].unasked \in Nat /\ PtWithin \in Nat /\ PtCool \in Nat /\ PtMaxCool \in Nat /\ PtCool + 1 <= PtMaxCool
    BY PtEntries, PtNumbers
  <1>6. PtSpent(PtAhead(o), o)' = ptEntry[o].unasked + PtCost(b)
    BY <1>1, <1>2 DEF PtSpent
  <1>7. CASE ptTick.probe
    <2>1. (a \cup ptTick.left) \cup ptTick.on = a \cup {p}
      BY <1>1, <1>3, <1>7
    <2>2. ptEntry[o].unasked + PtCost(a \cup {p}) <= PtWithin
      BY <1>1, <1>2, <1>3, <1>7, <2>1 DEF PtTurn, PtSpent
    <2> QED BY <1>3, <1>4, <1>5, <1>6, <1>7, <2>2 DEF PtTurn
  <1>8. CASE ~ptTick.probe
    <2>1. o \in ptTick.left /\ ptEntry[o].unasked + PtCost(a) + PtCool <= PtWithin
      BY <1>1, <1>2, <1>3, <1>8 DEF PtTurn, PtSpent
    <2> QED BY <1>3, <1>4, <1>5, <1>6, <2>1 DEF PtTurn
  <1> QED BY <1>7, <1>8

\* The timeout takes nobody's place.
LEMMA PtTurnTimesOut ==
    ASSUME PtAssumption, PtTyped, PtTicking, PtAsking, PtTurns, NEW p \in PtOrders, PtTimesOut(p),
           NEW o \in PtOrders, PtWaits(o)'
    PROVE  PtTurn(o)'
  <1>1. ptEntry'[o] = ptEntry[o] /\ PtWaits(o) /\ PtTurn(o)
    BY PtTimesOutIs DEF PtWaits, PtTracked, PtTurns
  <1>2. PtAhead(o)' \subseteq PtAhead(o)
    <2>1. \A r \in PtOrders : ptEntry'[r].tracked => ptEntry'[r] = ptEntry[r]
      BY PtTimesOutIs
    <2> QED BY <1>1, <2>1 DEF PtAhead, PtTracked
  <1>3. PICK a, b : a = PtAhead(o) /\ b = PtAhead(o)'
    OBVIOUS
  <1>4. PtCost(b) <= PtCost(a) /\ PtCost(a) \in Nat /\ PtCost(b) \in Nat
    <2>1. a \in SUBSET PtOrders /\ b \in SUBSET a /\ b \in SUBSET PtOrders
      BY <1>2, <1>3, PtAheadIs
    <2> QED BY <2>1, PtAheadIs
  <1>5. /\ ptTick.at = "read" /\ ptTick'.at = "tick" /\ ptTick'.left = ptTick.left /\ ptTick'.probe = ptTick.probe
        /\ ~PtTesting /\ ~PtTesting' /\ ~ptBreaker.open /\ ptBreaker' = ptBreaker
    BY PtTimesOutIs DEF PtTesting, PtTicking
  <1>6. ptEntry[o].unasked \in Nat /\ PtWithin \in Nat /\ PtCool \in Nat
    BY PtEntries, PtNumbers
  <1>7. PtSpent(PtAhead(o), o)' = ptEntry[o].unasked + PtCost(b) /\ PtSpent(PtAhead(o), o) = ptEntry[o].unasked + PtCost(a)
    BY <1>1, <1>3 DEF PtSpent
  <1> QED BY <1>1, <1>4, <1>5, <1>6, <1>7 DEF PtTurn

\* Time passes: who waits is a unit nearer, and nobody overtakes.
LEMMA PtTurnPass ==
    ASSUME PtAssumption, PtTyped, PtTicking, PtHeard, PtSoon, PtRenewed, PtTurns, PtPass,
           NEW o \in PtOrders, ptEntry'[o].tracked
    PROVE  ptEntry'[o].unasked <= PtWithin /\ (PtWaits(o)' => PtTurn(o)')
  <1>1. /\ \A r \in PtOrders : /\ ptEntry[r] \in PtEntry /\ ptEntry[r].tracked \in BOOLEAN
                               /\ ptEntry[r].due \in Int /\ ptEntry[r].unasked \in Nat /\ -PtWithin <= ptEntry[r].due
        /\ PtWithin \in Nat /\ PtLongest \in Nat \ {0} /\ PtCool \in Nat /\ PtMaxCool \in Nat \ {0} /\ PtCool + 1 <= PtMaxCool
        /\ ptBreaker.wait \in 0..PtMaxCool /\ PtLongest <= PtWithin
    BY PtEntries, PtNumbers, PtTickIs
  <1>2. ASSUME NEW r \in PtOrders, ptEntry'[r].tracked
        PROVE  /\ ptEntry[r].tracked /\ ptEntry'[r].unasked = IF ptOutage THEN 0 ELSE ptEntry[r].unasked + 1
               /\ ptEntry'[r].due = IF ptEntry[r].due > -PtWithin THEN ptEntry[r].due - 1 ELSE ptEntry[r].due
               /\ ptEntry[r].unasked <= PtWithin /\ ptEntry[r].unasked + ptEntry[r].due <= PtLongest
    <2>1. ptEntry[r].tracked /\ ptEntry'[r] = PtAged(ptEntry[r])
      BY <1>1, <1>2, PtPassIs
    <2>2. ptEntry[r].unasked <= PtWithin /\ ptEntry[r].unasked + ptEntry[r].due <= PtLongest
      BY <2>1 DEF PtHeard, PtSoon, PtTracked
    <2> QED BY <1>1, <2>1, <2>2, PtFields
  <1>3. /\ ptTick.at = "over" /\ ptTick.on = {} /\ ptTick.left = {} /\ ~ptTick.probe /\ ~PtTesting
        /\ ptTick'.at = "idle" /\ ~ptTick'.probe /\ ~PtTesting' /\ ptBreaker'.open = ptBreaker.open
        /\ ptBreaker'.wait = (IF ptBreaker.wait > 0 THEN ptBreaker.wait - 1 ELSE 0)
    BY PtPassIs DEF PtTicking, PtTesting, PtBusy
  <1>4. PICK a, b : a = PtAhead(o) /\ b = PtAhead(o)'
    OBVIOUS
  <1>5. /\ a \in SUBSET PtOrders /\ b \in SUBSET (PtOrders \ {o}) /\ PtCost(a) \in Nat /\ PtCost(b) \in Nat
        /\ PtLongest + PtCost(b) + PtMaxCool <= PtWithin
    <2>1. a \in SUBSET PtOrders /\ b \in SUBSET (PtOrders \ {o}) /\ b \in SUBSET PtOrders
      BY <1>4, PtAheadIs
    <2> QED BY <2>1, PtAheadIs
  <1>6. PtSpent(PtAhead(o), o)' = ptEntry'[o].unasked + PtCost(b) /\ PtSpent(PtAhead(o), o) = ptEntry[o].unasked + PtCost(a)
    BY <1>4 DEF PtSpent
  <1>7. CASE PtWaits(o)
    <2>1. IF ptBreaker.open THEN ptBreaker.wait > 0 /\ ptEntry[o].unasked + PtCost(a) + ptBreaker.wait <= PtWithin
          ELSE ptEntry[o].unasked + PtCost(a) + PtCool + 1 <= PtWithin
      BY <1>3, <1>6, <1>7 DEF PtTurns, PtTurn
    <2>2. ptEntry[o].unasked + 1 <= PtWithin
      BY <1>1, <1>5, <2>1
    <2>3. ASSUME PtWaits(o)' PROVE b \subseteq a
      <3>1. ASSUME NEW r \in b PROVE r \in a
        <4>1. r \in PtOrders /\ r # o /\ ptEntry'[r].tracked
          BY <1>4, <3>1 DEF PtAhead, PtTracked
        <4>2. SUFFICES ASSUME ptEntry[r].due > ptEntry[o].due, ptEntry[r].unasked < ptEntry[o].unasked
                       PROVE  FALSE
          BY <1>1, <1>2, <1>4, <4>1 DEF PtAhead, PtTracked
        <4>3. ptEntry[r].due + ptEntry[r].unasked >= 0
          BY <1>2, <1>3, <4>1, <4>2 DEF PtRenewed, PtTracked
        <4>4. ptEntry'[r].due <= ptEntry'[o].due \/ ptEntry'[r].unasked >= ptEntry'[o].unasked
          BY <1>4, <3>1 DEF PtAhead
        <4>5. ~ptOutage
          BY <1>2, <2>3 DEF PtWaits
        <4>6. PICK d, e, u, v \in Int : d = ptEntry[r].due /\ e = ptEntry[o].due /\ u = ptEntry[r].unasked /\ v = ptEntry[o].unasked
          BY <1>1, <4>1
        <4>7. /\ ptEntry'[r].due = IF d > -PtWithin THEN d - 1 ELSE d
              /\ ptEntry'[o].due = IF e > -PtWithin THEN e - 1 ELSE e
              /\ ptEntry'[r].unasked = u + 1 /\ ptEntry'[o].unasked = v + 1
          BY <1>2, <4>1, <4>5, <4>6
        <4>8. d > e /\ u < v /\ d + u >= 0 /\ v + 1 <= PtWithin /\ -PtWithin <= e
          BY <1>1, <2>2, <4>2, <4>3, <4>6
        <4> QED BY ONLY <1>1, <4>4, <4>6, <4>7, <4>8
      <3> QED BY <3>1
    <2>4. ASSUME PtWaits(o)' PROVE PtTurn(o)'
      <3>1. PtCost(b) <= PtCost(a)
        BY <1>5, <2>3, <2>4, PtAheadIs
      <3>2. ptEntry'[o].unasked = ptEntry[o].unasked + 1
        BY <1>2, <2>4 DEF PtWaits
      <3> QED BY <1>1, <1>3, <1>5, <1>6, <2>1, <3>1, <3>2 DEF PtTurn
    <2> QED BY <1>1, <1>2, <2>2, <2>4
  <1>8. CASE ~PtWaits(o)
    <2>1. ptEntry[o].unasked <= PtLongest
      BY <1>1, <1>2, <1>8 DEF PtWaits, PtTracked
    <2>2. ptEntry'[o].unasked <= PtLongest + 1 /\ ptEntry'[o].unasked \in Nat
      BY <1>1, <1>2, <2>1
    <2>3. ptBreaker'.wait <= PtMaxCool - 1 /\ ptBreaker'.wait \in Nat
      BY <1>1, <1>3
    <2> QED BY <1>1, <1>3, <1>5, <1>6, <2>2, <2>3 DEF PtTurn
  <1> QED BY <1>7, <1>8

\* What makes it that every order has its turn.
PtGoing == PtTyped /\ PtTicking /\ PtBooks /\ PtAsking /\ PtHeard /\ PtSoon /\ PtRenewed /\ PtTurns

\* Every step leaves an order that waits its turn.
LEMMA PtTurnsStep ==
    ASSUME PtAssumption, PtGoing, [PtNext]_ptVars
    PROVE  PtHeard' /\ PtTurns'
  <1> USE DEF PtGoing
  <1>0. /\ \A o \in PtOrders : /\ ptEntry[o].tracked \in BOOLEAN /\ ptEntry[o].unasked \in Nat
        /\ PtWithin \in Nat
    BY PtEntries, PtNumbers
  <1>1. CASE PtPass
    BY <1>1, PtTurnPass DEF PtHeard, PtTurns, PtWaits, PtTracked
  <1>2. CASE PtBegin
    <2>1. PtHeard'
      BY <1>2, PtBeginIs DEF PtHeard, PtTracked
    <2> QED BY <1>2, <2>1, PtTurnBegin DEF PtTurns
  <1>3. CASE PtEnd
    <2>1. PtHeard'
      BY <1>3, PtEndIs DEF PtHeard, PtTracked
    <2> QED BY <1>3, <2>1, PtTurnEnd DEF PtTurns
  <1>4. CASE PtGoesDown
    BY <1>4 DEF PtGoesDown, PtHeard, PtTurns, PtTurn, PtWaits, PtTracked, PtAhead, PtSpent,
       PtTesting
  <1>5. CASE PtComesBack
    BY <1>0, <1>5, PtComesBackIs DEF PtHeard, PtTurns, PtWaits, PtTracked
  <1>6. ASSUME NEW p \in PtOrders, PtAsk(p) PROVE PtHeard' /\ PtTurns'
    <2>1. PtHeard'
      BY <1>0, <1>6, PtAskIs DEF PtHeard, PtTracked
    <2> QED BY <1>6, <2>1, PtTurnAsk DEF PtTurns
  <1>7. ASSUME NEW p \in PtOrders, PtRaises(p) PROVE PtHeard' /\ PtTurns'
    <2>1. PtHeard'
      BY <1>0, <1>7, PtRaisesIs DEF PtHeard, PtTracked
    <2> QED BY <1>7, <2>1, PtTurnRaises DEF PtTurns
  <1>8. ASSUME NEW p \in PtOrders, PtAnswers(p) PROVE PtHeard' /\ PtTurns'
    <2>1. PtHeard'
      BY <1>0, <1>8, PtAnswersIs DEF PtHeard, PtTracked
    <2> QED BY <1>8, <2>1, PtTurnAnswers DEF PtTurns
  <1>9. ASSUME NEW p \in PtOrders, PtTimesOut(p) PROVE PtHeard' /\ PtTurns'
    <2>1. PtHeard'
      BY <1>0, <1>9, PtTimesOutIs DEF PtHeard, PtTracked
    <2> QED BY <1>9, <2>1, PtTurnTimesOut DEF PtTurns
  <1>10. ASSUME NEW p \in PtOrders, PtRegister(p) PROVE PtHeard' /\ PtTurns'
    <2>1. PtHeard'
      BY <1>0, <1>10, PtRegisterIs, PtEmpty DEF PtHeard, PtTracked
    <2> QED BY <1>10, <2>1, PtTurnOthers DEF PtTurns
  <1>11. ASSUME NEW p \in PtOrders, PtResync(p) PROVE PtHeard' /\ PtTurns'
    <2>1. PtHeard'
      BY <1>0, <1>11, PtResyncIs, PtEmpty DEF PtHeard, PtTracked
    <2> QED BY <1>11, <2>1, PtTurnOthers DEF PtTurns
  <1>12. ASSUME NEW p \in PtOrders, PtFills(p) PROVE PtHeard' /\ PtTurns'
    BY <1>12 DEF PtFills, PtHeard, PtTurns, PtTurn, PtWaits, PtTracked, PtAhead, PtSpent,
       PtTesting
  <1>13. CASE UNCHANGED ptVars
    BY <1>13 DEF ptVars, PtHeard, PtTurns, PtTurn, PtWaits, PtTracked, PtAhead, PtSpent, PtTesting
  <1> QED BY <1>1, <1>2, <1>3, <1>4, <1>5, <1>6, <1>7, <1>8, <1>9, <1>10, <1>11, <1>12,
             <1>13 DEF PtNext

-----------------------------------------------------------------------------
\* How long an order has been too old; the asks that an order may live through
\* while the intervals of those that fail still grow.
PtOver(o) == ptEntry[o].age - PtTimeout - 1
PtToRise == {w \in PtBad \X (1..(PtLongest - 1)) : ptEntry[w[1]].idx <= w[2]}
PtUpTo(f) == (PtRises - f + 1) * (PtWithin + 1)
\* Those that failed, at their longest interval, since an order was asked.
PtOnce(o) ==
    {q \in PtBad \cap PtTracked :
        ptEntry[q].unasked < ptEntry[o].unasked /\ ptEntry[q].due + ptEntry[q].unasked = PtLongest}
\* The breaker is closed and stays so until the order is asked: nobody fails twice.
PtCalm(o) ==
    /\ ~ptBreaker.open /\ ptBreaker.errs <= Cardinality(PtOnce(o)) /\ o \notin ptTick.on
    /\ \/ ptEntry[o].due >= 1
       \/ ptEntry[o].due = 0 /\ (ptTick.at = "idle" \/ (o \in ptTick.left /\ ~ptTick.probe))
    /\ ptTick.at = "over" \/ ptTick.probe \/ ptEntry[o].unasked > 0
\* When the order was asked last, at least f times an interval could still grow.
PtLate(o, f) ==
    /\ Cardinality(PtToRise) <= f /\ PtOver(o) - ptEntry[o].unasked <= PtUpTo(f)
    /\ \/ Cardinality(PtToRise) < f
       \/ ptTick.probe /\ o \in ptTick.on /\ (ptTick.at = "read" => ptBreaker.errs = 0)
       \/ PtCalm(o)
PtAge(o) ==
    \/ PtOver(o) <= ptEntry[o].unasked
    \/ o \in ptTick.on /\ ptTick.overdue /\ PtOver(o) <= PtUpTo(0) + PtWithin
    \/ \E f \in 0..PtRises : PtLate(o, f)
PtFew == Cardinality(PtBad) < PtThreshold
PtAges == PtFew /\ ~ptOutage => \A o \in PtTracked \ PtBad : PtAge(o)

\* The later an order was asked, the fewer asks it has before it.
LEMMA PtUpToIs ==
    ASSUME PtAssumption, NEW f \in 0..PtRises
    PROVE  /\ PtUpTo(f) \in Nat /\ PtUpTo(f) >= PtWithin + 1 /\ PtUpTo(f) <= PtUpTo(0)
           /\ \A g \in 0..PtRises : g < f => PtUpTo(f) + PtWithin + 1 <= PtUpTo(g)
           /\ PtLatest = PtTimeout + PtUpTo(0) + PtWithin + 1
  <1>1. PtRises \in Nat /\ PtWithin \in Nat /\ PtTimeout \in Nat
    BY PtNumbers
  <1>2. \A k, m, n \in Nat : k <= m => k * n <= m * n
    OBVIOUS
  <1>3. \A m, n \in Nat : m * n \in Nat /\ (m + 1) * n = m * n + n
    OBVIOUS
  <1>4. PICK c \in Nat : c = PtWithin + 1
    BY <1>1
  <1>5. ASSUME NEW g \in 0..PtRises
        PROVE  PtUpTo(g) = (PtRises - g) * c + c /\ (PtRises - g) * c \in Nat /\ PtRises - g \in Nat
    <2>1. PtRises - g \in Nat
      BY <1>1
    <2>2. PtRises - g + 1 = (PtRises - g) + 1
      BY <2>1
    <2> QED BY <1>3, <1>4, <2>1, <2>2 DEF PtUpTo
  <1>6. PtUpTo(f) \in Nat /\ PtUpTo(f) >= PtWithin + 1
    <2>1. PtUpTo(f) = (PtRises - f) * c + c /\ (PtRises - f) * c \in Nat
      BY <1>5
    <2> QED BY <1>1, <1>4, <2>1
  <1>7. ASSUME NEW g \in 0..PtRises, NEW h \in 0..PtRises, g < h
        PROVE  PtUpTo(h) + PtWithin + 1 <= PtUpTo(g)
    <2>1. PtUpTo(h) = ((PtRises - h) + 1) * c
      BY <1>1, <1>3, <1>5
    <2>2. (PtRises - h) + 1 \in Nat /\ PtRises - g \in Nat /\ (PtRises - h) + 1 <= PtRises - g
      BY <1>1, <1>7
    <2>3. PtUpTo(h) <= (PtRises - g) * c
      BY <1>2, <2>1, <2>2
    <2>4. PtUpTo(h) \in Nat /\ (PtRises - g) * c \in Nat /\ PtUpTo(g) = (PtRises - g) * c + c
      BY <1>3, <1>5, <2>1, <2>2
    <2> QED BY <1>1, <1>4, <2>3, <2>4
  <1>8. PtUpTo(f) <= PtUpTo(0)
    <2>1. 0 \in 0..PtRises /\ PtUpTo(0) \in Nat
      BY <1>1, <1>3, <1>4, <1>5
    <2>2. CASE f = 0
      BY <1>6, <2>2
    <2>3. CASE f # 0
      <3>1. PtUpTo(f) + PtWithin + 1 <= PtUpTo(0)
        BY <1>7, <2>1, <2>3
      <3> QED BY <1>1, <1>6, <2>1, <3>1
    <2> QED BY <2>2, <2>3
  <1>9. PtLatest = PtTimeout + PtUpTo(0) + PtWithin + 1
    <2>1. PtRises + 2 = (PtRises + 1) + 1 /\ PtRises + 1 \in Nat /\ PtRises - 0 + 1 = PtRises + 1
      BY <1>1
    <2>2. PtUpTo(0) = (PtRises + 1) * c /\ (PtRises + 2) * c = (PtRises + 1) * c + c /\ (PtRises + 1) * c \in Nat
      BY <1>3, <1>4, <2>1 DEF PtUpTo
    <2> QED BY <1>1, <1>4, <2>2 DEF PtLatest
  <1> QED BY <1>6, <1>7, <1>8, <1>9

\* What can still grow, and those that failed once, are few.
LEMMA PtFinite ==
    ASSUME PtAssumption, NEW o
    PROVE  /\ IsFiniteSet(PtToRise) /\ Cardinality(PtToRise) \in 0..PtRises
           /\ IsFiniteSet(PtToRise)' /\ Cardinality(PtToRise)' \in 0..PtRises
           /\ IsFiniteSet(PtOnce(o)) /\ Cardinality(PtOnce(o)) \in Nat /\ Cardinality(PtOnce(o)) <= Cardinality(PtBad)
           /\ IsFiniteSet(PtOnce(o))' /\ Cardinality(PtOnce(o))' \in Nat /\ Cardinality(PtOnce(o))' <= Cardinality(PtBad)
           /\ Cardinality(PtBad) \in Nat
  <1>1. IsFiniteSet(PtBad) /\ Cardinality(PtBad) \in Nat
    BY FS_Subset, FS_CardinalityType DEF PtAssumption
  <1>2. PICK z : z = PtBad \X (1..(PtLongest - 1))
    OBVIOUS
  <1>3. IsFiniteSet(z) /\ Cardinality(z) = PtRises
    <2>1. PtLongest - 1 \in Nat /\ 1 \in Int /\ PtLongest - 1 \in Int
      BY PtNumbers
    <2>2. IsFiniteSet(1..(PtLongest - 1)) /\ Cardinality(1..(PtLongest - 1)) = PtLongest - 1
      <3>1. Cardinality(1..(PtLongest - 1)) = IF 1 > PtLongest - 1 THEN 0 ELSE (PtLongest - 1) - 1 + 1
        BY <2>1, FS_Interval
      <3> QED BY <2>1, <3>1, FS_Interval
    <2> QED BY <1>1, <1>2, <2>2, FS_Product DEF PtRises
  <1>4. ASSUME NEW s \in SUBSET z PROVE IsFiniteSet(s) /\ Cardinality(s) \in 0..PtRises
    BY <1>3, <1>4, FS_Subset, FS_CardinalityType, PtNumbers
  <1>5. ASSUME NEW s \in SUBSET PtBad
        PROVE  IsFiniteSet(s) /\ Cardinality(s) \in Nat /\ Cardinality(s) <= Cardinality(PtBad)
    BY <1>1, <1>5, FS_Subset, FS_CardinalityType
  <1>6. PtToRise \in SUBSET z /\ PtToRise' \in SUBSET z /\ PtOnce(o) \in SUBSET PtBad /\ PtOnce(o)' \in SUBSET PtBad
    BY <1>2 DEF PtToRise, PtOnce
  <1>7. PICK a, b, c, d : a = PtToRise /\ b = PtToRise' /\ c = PtOnce(o) /\ d = PtOnce(o)'
    OBVIOUS
  <1>8. /\ IsFiniteSet(a) /\ Cardinality(a) \in 0..PtRises /\ IsFiniteSet(b) /\ Cardinality(b) \in 0..PtRises
        /\ IsFiniteSet(c) /\ Cardinality(c) \in Nat /\ Cardinality(c) <= Cardinality(PtBad)
        /\ IsFiniteSet(d) /\ Cardinality(d) \in Nat /\ Cardinality(d) <= Cardinality(PtBad)
    BY <1>4, <1>5, <1>6, <1>7
  <1> QED BY <1>1, <1>7, <1>8

\* The age of an order that nothing touches keeps its bound.
LEMMA PtAgeKept ==
    ASSUME PtAssumption, PtTyped, NEW o \in PtOrders, PtAge(o), ptEntry'[o] = ptEntry[o],
           PtToRise' \subseteq PtToRise, o \in ptTick.on => o \in ptTick'.on /\ (ptTick'.overdue <=> ptTick.overdue),
           o \in ptTick.on /\ ptTick.probe /\ (ptTick.at = "read" => ptBreaker.errs = 0) =>
                ptTick'.probe /\ (ptTick'.at = "read" => ptBreaker'.errs = 0),
           PtCalm(o) => PtCalm(o)' \/ Cardinality(PtToRise)' < Cardinality(PtToRise)
    PROVE  PtAge(o)'
  <1>1. Cardinality(PtToRise)' <= Cardinality(PtToRise) /\ Cardinality(PtToRise)' \in Nat /\ Cardinality(PtToRise) \in Nat
    BY PtFinite, FS_Subset, PtNumbers
  <1>2. PtOver(o)' = PtOver(o)
    BY DEF PtOver
  <1>3. CASE PtOver(o) <= ptEntry[o].unasked
    BY <1>2, <1>3 DEF PtAge
  <1>4. CASE o \in ptTick.on /\ ptTick.overdue /\ PtOver(o) <= PtUpTo(0) + PtWithin
    BY <1>2, <1>4 DEF PtAge, PtUpTo
  <1>5. CASE \E f \in 0..PtRises : PtLate(o, f)
    <2>1. PICK f \in 0..PtRises : PtLate(o, f)
      BY <1>5
    <2>2. PtUpTo(f)' = PtUpTo(f) /\ f \in Nat
      BY PtNumbers DEF PtUpTo
    <2>3. PtLate(o, f)'
      BY <1>1, <1>2, <2>1, <2>2 DEF PtLate
    <2> QED BY <2>3 DEF PtAge
  <1> QED BY <1>3, <1>4, <1>5 DEF PtAge

\* Time passes.
LEMMA PtAgePass ==
    ASSUME PtAssumption, PtGoing, PtPass, ~ptOutage, NEW o \in PtOrders, ptEntry[o].tracked, PtAge(o)
    PROVE  PtAge(o)'
  <1> USE DEF PtGoing
  <1>1. /\ \A r \in PtOrders : /\ ptEntry[r] \in PtEntry /\ ptEntry[r].tracked \in BOOLEAN
                               /\ ptEntry[r].due \in Int /\ ptEntry[r].unasked \in Nat /\ ptEntry[r].age \in Nat
        /\ PtWithin \in Nat \ {0} /\ PtLongest \in Nat \ {0} /\ PtLatest \in Nat /\ PtTimeout \in Nat /\ PtBad \subseteq PtOrders
        /\ PtLongest <= PtWithin
    BY PtEntries, PtNumbers DEF PtAssumption
  <1>2. ASSUME NEW r \in PtOrders, ptEntry[r].tracked
        PROVE  /\ ptEntry'[r].tracked /\ ptEntry'[r].unasked = ptEntry[r].unasked + 1 /\ ptEntry[r].unasked <= PtWithin
               /\ ptEntry'[r].due = (IF ptEntry[r].due > -PtWithin THEN ptEntry[r].due - 1 ELSE ptEntry[r].due)
               /\ ptEntry'[r].age <= ptEntry[r].age + 1 /\ ptEntry'[r].age \in Nat
    <2>1. ptEntry'[r] = PtAged(ptEntry[r])
      BY <1>1, <1>2, PtPassIs
    <2>2. ptEntry[r].unasked <= PtWithin
      BY <1>2 DEF PtHeard, PtTracked
    <2>3. ptEntry'[r].age = (IF ptEntry[r].age <= PtLatest THEN ptEntry[r].age + 1 ELSE PtLatest + 1)
      BY <1>1, <2>1, PtFields
    <2> QED BY <1>1, <1>2, <2>1, <2>2, <2>3, PtFields
  <1>3. /\ ptTick.at = "over" /\ ptTick.on = {} /\ ptTick.left = {} /\ ~ptTick.probe /\ ptTick'.at = "idle"
        /\ ~ptTick'.probe /\ ptTick'.on = {} /\ ptTick'.left = {} /\ ptBreaker'.open = ptBreaker.open
        /\ ptBreaker'.errs = ptBreaker.errs
    BY PtPassIs DEF PtTicking, PtBusy
  <1>4. \A r \in PtOrders : ptEntry'[r].idx = ptEntry[r].idx
    BY <1>1, PtPassIs, PtFields
  <1>5. PtToRise' = PtToRise
    BY <1>1, <1>4 DEF PtToRise
  <1>6. PtOver(o)' <= PtOver(o) + 1 /\ PtOver(o) \in Int /\ PtOver(o)' \in Int /\ ptEntry'[o].unasked = ptEntry[o].unasked + 1
    BY <1>1, <1>2 DEF PtOver
  <1>7. PtOver(o)' - ptEntry'[o].unasked <= PtOver(o) - ptEntry[o].unasked
    BY <1>1, <1>6
  <1>8. CASE PtOver(o) <= ptEntry[o].unasked
    BY <1>1, <1>6, <1>8 DEF PtAge
  <1>9. CASE \E f \in 0..PtRises : PtLate(o, f)
    <2>1. PICK f \in 0..PtRises : PtLate(o, f)
      BY <1>9
    <2>2. PtUpTo(f)' = PtUpTo(f) /\ f \in Nat /\ PtUpTo(f) \in Nat
      BY PtNumbers, PtUpToIs DEF PtUpTo
    <2>3. PtOver(o)' - ptEntry'[o].unasked <= PtUpTo(f)
      BY <1>1, <1>6, <1>7, <2>1, <2>2 DEF PtLate
    <2>4. CASE Cardinality(PtToRise) < f
      <3>1. PtLate(o, f)'
        BY <1>5, <2>1, <2>2, <2>3, <2>4 DEF PtLate
      <3> QED BY <3>1 DEF PtAge
    <2>5. CASE PtCalm(o)
      <3>1. PtOnce(o) \subseteq PtOnce(o)'
        <4>1. ASSUME NEW q \in PtOnce(o) PROVE q \in PtOnce(o)'
          <5>1. q \in PtBad /\ q \in PtOrders /\ ptEntry[q].tracked /\ ptEntry[q].unasked < ptEntry[o].unasked
                /\ ptEntry[q].due + ptEntry[q].unasked = PtLongest
            BY <1>1, <4>1 DEF PtOnce, PtTracked
          <5>2. ptEntry[q].due > -PtWithin
            BY <1>1, <1>2, <5>1
          <5>3. ptEntry'[q].tracked /\ ptEntry'[q].unasked = ptEntry[q].unasked + 1 /\ ptEntry'[q].due = ptEntry[q].due - 1
            BY <1>2, <5>1, <5>2
          <5> QED BY <1>1, <1>6, <5>1, <5>3 DEF PtOnce, PtTracked
        <4> QED BY <4>1
      <3>2. Cardinality(PtOnce(o)) <= Cardinality(PtOnce(o))'
        BY <3>1, PtFinite, FS_Subset
      <3>3. ptBreaker.errs <= Cardinality(PtOnce(o))'
        <4>1. ptBreaker.errs \in Nat
          BY PtTickIs, PtNumbers
        <4> QED BY <2>5, <3>2, <4>1, PtFinite DEF PtCalm
      <3>4. ptEntry[o].due >= 1
        BY <1>3, <2>5 DEF PtCalm
      <3>5. ptEntry'[o].due = ptEntry[o].due - 1
        BY <1>1, <1>2, <3>4
      <3>6. PtCalm(o)'
        BY <1>1, <1>3, <1>6, <2>5, <3>3, <3>4, <3>5 DEF PtCalm
      <3>7. PtLate(o, f)'
        BY <1>5, <2>1, <2>2, <2>3, <3>6 DEF PtLate
      <3> QED BY <3>7 DEF PtAge
    <2> QED BY <1>3, <2>1, <2>4, <2>5 DEF PtLate
  <1> QED BY <1>3, <1>8, <1>9 DEF PtAge

\* An order that is asked: a test starts the count anew, another ask may time it out.
LEMMA PtAgeAsked ==
    ASSUME PtAssumption, PtGoing, NEW o \in PtOrders, PtAsk(o), ptEntry[o].tracked, PtAge(o)
    PROVE  PtAge(o)'
  <1> USE DEF PtGoing
  <1>1. /\ ptEntry[o].unasked \in Nat /\ ptEntry[o].age \in Nat /\ ptEntry[o].unasked <= PtWithin /\ PtWithin \in Nat
        /\ PtTimeout \in Nat /\ PtRises \in Nat
    BY PtEntries, PtNumbers DEF PtHeard, PtTracked
  <1>2. PtOver(o) \in Int /\ PtOver(o)' = PtOver(o) /\ ptEntry'[o].unasked = 0
    BY <1>1, PtAskIs DEF PtOver
  <1>3. /\ ptTick.at = "tick" /\ ptTick.on = {} /\ o \in ptTick.left /\ ptTick'.at = "asked" /\ ptTick'.on = {o}
        /\ ptTick'.probe = ptTick.probe /\ (ptTick.probe \/ ~ptBreaker.open)
        /\ (ptTick'.overdue <=> ~ptTick.probe /\ ptEntry[o].age > PtTimeout)
    BY PtAskIs DEF PtTicking, PtBusy, PtMayAsk, PtExpired
  <1>4. PtToRise' = PtToRise
    <2>1. \A r \in PtOrders : ptEntry'[r].idx = ptEntry[r].idx
      BY PtAskIs
    <2> QED BY <2>1 DEF PtToRise, PtAssumption
  <1>5. PICK n \in 0..PtRises : n = Cardinality(PtToRise)
    BY PtFinite
  <1>6. PtUpTo(n) \in Nat /\ PtUpTo(n) >= PtWithin + 1 /\ PtUpTo(n) <= PtUpTo(0) /\ PtUpTo(n)' = PtUpTo(n) /\ PtUpTo(0) \in Nat
        /\ PtUpTo(0)' = PtUpTo(0)
    BY <1>1, PtUpToIs DEF PtUpTo
  <1>7. CASE ptTick.probe
    <2>1. PtOver(o) <= PtUpTo(n)
      <3>1. CASE PtOver(o) <= ptEntry[o].unasked
        BY <1>1, <1>2, <1>6, <3>1
      <3>2. CASE \E f \in 0..PtRises : PtLate(o, f)
        <4>1. PICK f \in 0..PtRises : PtLate(o, f)
          BY <3>2
        <4>2. ~PtCalm(o)
          BY <1>3, <1>7 DEF PtTicking, PtCalm
        <4>3. n < f /\ PtOver(o) - ptEntry[o].unasked <= PtUpTo(f)
          BY <1>3, <1>5, <4>1, <4>2 DEF PtLate
        <4>4. PtUpTo(f) + PtWithin + 1 <= PtUpTo(n) /\ PtUpTo(f) \in Nat
          BY <4>3, PtUpToIs
        <4> QED BY <1>1, <1>2, <1>6, <4>3, <4>4
      <3> QED BY <1>3, <3>1, <3>2 DEF PtAge
    <2>2. PtLate(o, n)'
      BY <1>2, <1>3, <1>4, <1>5, <1>6, <1>7, <2>1 DEF PtLate
    <2> QED BY <2>2 DEF PtAge
  <1>8. CASE ~ptTick.probe
    <2>1. PtOver(o) <= PtUpTo(0) + PtWithin
      <3>1. CASE PtOver(o) <= ptEntry[o].unasked
        BY <1>1, <1>2, <1>6, <3>1
      <3>2. CASE \E f \in 0..PtRises : PtLate(o, f)
        <4>1. PICK f \in 0..PtRises : PtLate(o, f)
          BY <3>2
        <4>2. PtOver(o) - ptEntry[o].unasked <= PtUpTo(f) /\ PtUpTo(f) <= PtUpTo(0) /\ PtUpTo(f) \in Nat
          BY <4>1, PtUpToIs DEF PtLate
        <4> QED BY <1>1, <1>2, <1>6, <4>2
      <3> QED BY <1>3, <3>1, <3>2 DEF PtAge
    <2>2. CASE ptEntry[o].age > PtTimeout
      BY <1>2, <1>3, <1>6, <1>8, <2>1, <2>2 DEF PtAge
    <2>3. CASE ~(ptEntry[o].age > PtTimeout)
      <3>1. PtOver(o)' <= ptEntry'[o].unasked
        BY <1>1, <1>2, <2>3 DEF PtOver
      <3> QED BY <3>1 DEF PtAge
    <2> QED BY <2>2, <2>3
  <1> QED BY <1>7, <1>8

\* Nobody who failed once, at its longest interval, is due before an order that has been
\* waiting since.
LEMMA PtNotTwice ==
    ASSUME PtAssumption, PtTyped, PtSoon, NEW o \in PtTracked, PtCalm(o), NEW p \in PtOrders, ptEntry[p].due <= 0
    PROVE  p \notin PtOnce(o)
  <1>1. /\ o \in PtOrders /\ ptEntry[o].due \in Int /\ ptEntry[o].unasked \in Nat /\ ptEntry[p].due \in Int
        /\ ptEntry[p].unasked \in Nat /\ PtLongest \in Nat
    <2>1. o \in PtOrders
      BY DEF PtTracked
    <2> QED BY <2>1, PtEntries, PtNumbers
  <1>2. ptEntry[o].due >= 0 /\ ptEntry[o].unasked + ptEntry[o].due <= PtLongest
    BY <1>1 DEF PtCalm, PtSoon
  <1> QED BY <1>1, <1>2 DEF PtOnce

\* More failed once: as many failures are none too many.
LEMMA PtOnceKept ==
    ASSUME PtAssumption, PtTyped, NEW o, PtCalm(o), ~ptBreaker'.open, PtOnce(o) \subseteq PtOnce(o)',
           ptBreaker'.errs = ptBreaker.errs \/ ptBreaker'.errs = 0
    PROVE  ptBreaker'.errs <= Cardinality(PtOnce(o))'
  <1>1. Cardinality(PtOnce(o)) <= Cardinality(PtOnce(o))'
    BY PtFinite, FS_Subset
  <1>2. ptBreaker.errs \in Nat
    BY PtTickIs, PtNumbers
  <1> QED BY <1>1, <1>2, PtFinite DEF PtCalm

\* Another one is asked.
LEMMA PtAgeAskOther ==
    ASSUME PtAssumption, PtGoing, NEW p \in PtOrders, PtAsk(p), NEW o \in PtTracked, o # p, PtAge(o)
    PROVE  PtAge(o)'
  <1> USE DEF PtGoing
  <1>1. o \in PtOrders /\ ptEntry'[o] = ptEntry[o]
    BY PtAskIs DEF PtTracked
  <1>2. /\ ptTick.at = "tick" /\ ptTick.on = {} /\ p \in ptTick.left /\ ptTick'.at = "asked" /\ ptTick'.on = {p}
        /\ ptTick'.left = ptTick.left \ {p} /\ ptTick'.probe = ptTick.probe /\ ptBreaker' = ptBreaker
    BY PtAskIs DEF PtTicking, PtBusy
  <1>3. PtToRise' = PtToRise
    <2>1. \A r \in PtOrders : ptEntry'[r].idx = ptEntry[r].idx
      BY PtAskIs
    <2> QED BY <2>1 DEF PtToRise, PtAssumption
  <1>4. ASSUME PtCalm(o) PROVE PtCalm(o)'
    <2>1. ~ptTick.probe
      BY <1>2, <1>4 DEF PtCalm, PtTicking
    <2>2. p \notin PtOnce(o)
      <3>1. ptEntry[p].tracked => ptEntry[p].due <= 0
        BY <1>2, <2>1 DEF PtAsking
      <3> QED BY <1>4, <3>1, PtNotTwice DEF PtOnce, PtTracked
    <2>3. PtOnce(o) \subseteq PtOnce(o)'
      BY <1>1, <2>2, PtAskIs DEF PtOnce, PtTracked, PtAssumption
    <2>4. ptBreaker'.errs <= Cardinality(PtOnce(o))'
      BY <1>2, <1>4, <2>3, PtOnceKept DEF PtCalm
    <2> QED BY <1>1, <1>2, <1>4, <2>1, <2>4 DEF PtCalm
  <1> QED BY <1>1, <1>2, <1>3, <1>4, PtAgeKept

\* One fails: its interval grows, or it had not failed since.
LEMMA PtAgeRaises ==
    ASSUME PtAssumption, PtGoing, PtFew, NEW p \in PtBad, PtRaises(p), NEW o \in PtTracked \ PtBad, PtAge(o)
    PROVE  PtAge(o)'
  <1> USE DEF PtGoing
  <1>1. o \in PtOrders /\ p \in PtOrders /\ o # p /\ ptEntry'[o] = ptEntry[o]
    BY PtRaisesIs DEF PtTracked, PtAssumption
  <1>2. /\ ptTick.at = "asked" /\ ptTick.on = {p} /\ p \notin ptTick.left /\ ptTick'.at = "tick" /\ ptTick'.on = {}
        /\ ptTick'.left = ptTick.left /\ ptTick'.probe = ptTick.probe /\ ptEntry[p].tracked /\ ptEntry[p].unasked = 0
    BY <1>1, PtRaisesIs DEF PtTicking, PtBusy, PtBooks, PtAsking
  <1>3. PtLongest \in Nat \ {0} /\ ptEntry[p].idx \in 1..PtLongest /\ PtThreshold \in Nat /\ ptBreaker.errs \in Nat
        /\ ptEntry[o].unasked \in Nat
    BY <1>1, PtEntries, PtNumbers, PtTickIs
  <1>4. /\ ptEntry'[p].tracked /\ ptEntry'[p].due = ptEntry[p].idx /\ ptEntry'[p].unasked = 0
        /\ ptEntry'[p].idx = (IF ptEntry[p].idx < PtLongest THEN ptEntry[p].idx + 1 ELSE PtLongest)
    BY <1>1, <1>2, PtRaisesIs
  <1>5. PtToRise' \subseteq PtToRise
    <2>1. \A q \in PtBad : ptEntry[q].idx <= ptEntry'[q].idx /\ ptEntry[q].idx \in Int /\ ptEntry'[q].idx \in Int
      <3>1. \A q \in PtOrders : ptEntry[q].idx \in Int
        BY PtEntries, PtNumbers
      <3>2. \A q \in PtOrders \ {p} : ptEntry'[q] = ptEntry[q]
        BY <1>1, PtRaisesIs
      <3> QED BY <1>1, <1>3, <1>4, <3>1, <3>2 DEF PtAssumption
    <2> QED BY <2>1 DEF PtToRise
  <1>6. ASSUME PtCalm(o) PROVE PtCalm(o)' \/ Cardinality(PtToRise)' < Cardinality(PtToRise)
    <2>1. ~ptTick.probe /\ ~ptBreaker.open
      BY <1>2, <1>6 DEF PtCalm, PtTicking
    <2>2. CASE ptEntry[p].idx < PtLongest
      <3>1. PICK w : w = <<p, ptEntry[p].idx>>
        OBVIOUS
      <3>2. w \in PtToRise /\ w \notin PtToRise'
        BY <1>3, <1>4, <2>2, <3>1 DEF PtToRise
      <3>3. Cardinality(PtToRise)' < Cardinality(PtToRise)
        <4>1. PICK a, b : a = PtToRise /\ b = PtToRise'
          OBVIOUS
        <4>2. IsFiniteSet(a) /\ b \in SUBSET a /\ a # b /\ Cardinality(a) \in Nat /\ Cardinality(b) \in Nat
          BY <1>5, <3>2, <4>1, PtFinite, PtNumbers
        <4>3. Cardinality(b) <= Cardinality(a) /\ Cardinality(b) # Cardinality(a)
          BY <4>2, FS_Subset
        <4> QED BY <4>1, <4>2, <4>3
      <3> QED BY <3>3
    <2>3. CASE ~(ptEntry[p].idx < PtLongest)
      <3>1. p \notin PtOnce(o)
        <4>1. ptEntry[p].due <= 0
          BY <1>2, <2>1 DEF PtAsking
        <4> QED BY <1>1, <1>6, <4>1, PtNotTwice
      <3>2. ptEntry[o].unasked > 0
        BY <1>2, <1>6, <2>1 DEF PtCalm
      <3>3. PtOnce(o) \cup {p} \subseteq PtOnce(o)'
        <4>1. p \in PtOnce(o)'
          BY <1>1, <1>3, <1>4, <2>3, <3>2 DEF PtOnce, PtTracked
        <4>2. ASSUME NEW q \in PtOnce(o) PROVE q \in PtOnce(o)'
          BY <1>1, <3>1, <4>2, PtRaisesIs DEF PtOnce, PtTracked, PtAssumption
        <4> QED BY <4>1, <4>2
      <3>4. Cardinality(PtOnce(o)) + 1 <= Cardinality(PtOnce(o))'
        <4>1. PICK a, b : a = PtOnce(o) /\ b = PtOnce(o)'
          OBVIOUS
        <4>2. IsFiniteSet(a) /\ IsFiniteSet(b) /\ a \cup {p} \in SUBSET b /\ p \notin a
          BY <3>1, <3>3, <4>1, PtFinite
        <4>3. Cardinality(a \cup {p}) = Cardinality(a) + 1 /\ Cardinality(a \cup {p}) <= Cardinality(b)
          BY <4>2, FS_AddElement, FS_Subset
        <4> QED BY <4>1, <4>3
      <3>5. ptBreaker.errs <= Cardinality(PtOnce(o))
        BY <1>6 DEF PtCalm
      <3>6. ~ptBreaker'.open
        <4>1. ptBreaker'.open => ptBreaker.errs + 1 >= PtThreshold
          BY <1>1, <2>1, PtRaisesIs
        <4> QED BY <1>3, <3>4, <3>5, <4>1, PtFinite, PtRaisesIs DEF PtFew
      <3>7. ptBreaker'.errs <= ptBreaker.errs + 1
        BY <1>1, <2>1, <3>6, PtRaisesIs
      <3>8. ptBreaker'.errs <= Cardinality(PtOnce(o))'
        <4>1. ptBreaker'.errs \in Nat
          <5>1. PtTyped'
            BY <1>1, PtTypedStep DEF PtNext
          <5>2. ptBreaker' \in PtBreakerType
            BY <5>1 DEF PtTyped
          <5> QED BY <1>3, <5>2 DEF PtBreakerType
        <4> QED BY <1>3, <3>4, <3>5, <3>7, <4>1, PtFinite
      <3>9. PtCalm(o)'
        BY <1>1, <1>2, <1>6, <3>2, <3>6, <3>8 DEF PtCalm
      <3> QED BY <3>9
    <2> QED BY <2>2, <2>3
  <1> QED BY <1>1, <1>2, <1>5, <1>6, PtAgeKept

\* A lookup answers, and what the timeout leaves.
LEMMA PtAgeAnswers ==
    ASSUME PtAssumption, PtGoing, NEW p \in PtOrders, PtAnswers(p) \/ PtTimesOut(p), NEW o \in PtOrders \ PtBad,
           ptEntry[o].tracked, ptEntry'[o].tracked, PtAge(o)
    PROVE  PtAge(o)'
  <1> USE DEF PtGoing
  <1>1. p \notin PtBad /\ ptTick.on = {p} /\ p \notin ptTick.left
    BY PtAnswersIs, PtTimesOutIs DEF PtTicking, PtBusy
  <1>2. /\ \A r \in PtOrders \ {p} : ptEntry'[r] = ptEntry[r]
        /\ ptTick'.left = ptTick.left /\ ptTick'.probe = ptTick.probe
    BY PtAnswersIs, PtTimesOutIs
  <1>3. PtBad \subseteq PtOrders \ {p}
    BY <1>1 DEF PtAssumption
  <1>4. PtToRise' = PtToRise
    BY <1>2, <1>3 DEF PtToRise
  <1>5. /\ ptEntry'[o].age = ptEntry[o].age /\ ptEntry'[o].unasked = ptEntry[o].unasked
        /\ o # p => ptEntry'[o] = ptEntry[o]
    BY <1>2, PtAnswersIs, PtTimesOutIs
  <1>6. PtOnce(o)' = PtOnce(o)
    BY <1>2, <1>3, <1>5 DEF PtOnce, PtTracked
  <1>7. ~ptBreaker'.open /\ (ptBreaker'.errs = ptBreaker.errs \/ ptBreaker'.errs = 0)
    BY PtAnswersIs, PtTimesOutIs DEF PtTicking
  <1>8. PtOver(o)' = PtOver(o)
    BY <1>5 DEF PtOver
  <1>9. CASE o # p
    <2>1. ASSUME PtCalm(o) PROVE PtCalm(o)'
      <3>1. ptBreaker'.errs <= Cardinality(PtOnce(o))'
        BY <1>6, <1>7, <2>1, PtOnceKept
      <3>2. o \notin ptTick'.on /\ ptTick.at # "over" /\ ptTick.at # "idle"
        BY <1>1, <1>9, PtAnswersIs, PtTimesOutIs
      <3> QED BY <1>2, <1>5, <1>7, <1>9, <2>1, <3>1, <3>2 DEF PtCalm
    <2> QED BY <1>1, <1>2, <1>4, <1>5, <1>9, <2>1, PtAgeKept
  <1>10. CASE o = p
    <2>1. ~PtCalm(o)
      BY <1>1, <1>10 DEF PtCalm
    <2>2. CASE PtOver(o) <= ptEntry[o].unasked
      BY <1>5, <1>8, <2>2 DEF PtAge
    <2>3. CASE o \in ptTick.on /\ ptTick.overdue /\ PtOver(o) <= PtUpTo(0) + PtWithin
      <3>1. ptTick'.on = ptTick.on /\ ptTick'.overdue = ptTick.overdue
        BY <1>10, <2>3, PtAnswersIs, PtTimesOutIs
      <3> QED BY <1>8, <2>3, <3>1 DEF PtAge, PtUpTo
    <2>4. CASE \E f \in 0..PtRises : PtLate(o, f)
      <3>1. PICK f \in 0..PtRises : PtLate(o, f)
        BY <2>4
      <3>2. PtUpTo(f)' = PtUpTo(f)
        BY DEF PtUpTo
      <3>3. CASE PtAnswers(p)
        <4>1. ptTick'.on = ptTick.on /\ ptBreaker'.errs = 0
          BY <3>3, PtAnswersIs
        <4>2. PtLate(o, f)'
          BY <1>2, <1>4, <1>5, <1>8, <2>1, <3>1, <3>2, <4>1 DEF PtLate
        <4> QED BY <4>2 DEF PtAge
      <3>4. CASE PtTimesOut(p)
        <4>1. /\ ptTick.at = "read" /\ ptTick'.on = {} /\ ptBreaker' = ptBreaker /\ ptEntry'[o] = ptEntry[o]
              /\ ptEntry[o].due >= 1
          BY <1>10, <3>4, PtTimesOutIs DEF PtAsking
        <4>2. CASE Cardinality(PtToRise) < f
          <5>1. PtLate(o, f)'
            BY <1>4, <1>5, <1>8, <3>1, <3>2, <4>2 DEF PtLate
          <5> QED BY <5>1 DEF PtAge
        <4>3. CASE ptTick.probe /\ ptBreaker.errs = 0
          <5>1. ptBreaker'.errs <= Cardinality(PtOnce(o))'
            BY <4>1, <4>3, PtFinite
          <5>2. PtCalm(o)'
            BY <1>2, <1>7, <4>1, <4>3, <5>1 DEF PtCalm
          <5>3. PtLate(o, f)'
            BY <1>4, <1>5, <1>8, <3>1, <3>2, <5>2 DEF PtLate
          <5> QED BY <5>3 DEF PtAge
        <4> QED BY <2>1, <3>1, <4>1, <4>2, <4>3 DEF PtLate
      <3> QED BY <3>3, <3>4
    <2> QED BY <2>2, <2>3, <2>4 DEF PtAge
  <1> QED BY <1>9, <1>10

\* Others come and go.
LEMMA PtAgeOthers ==
    ASSUME PtAssumption, PtGoing, NEW p \in PtOrders, PtRegister(p) \/ PtResync(p), NEW o \in PtTracked, o # p, PtAge(o)
    PROVE  PtAge(o)'
  <1> USE DEF PtGoing
  <1>1. o \in PtOrders /\ ptEntry'[o] = ptEntry[o] /\ \A r \in PtOrders \ {p} : ptEntry'[r] = ptEntry[r]
    BY PtRegisterIs, PtResyncIs DEF PtTracked
  <1>2. PtToRise' \subseteq PtToRise
    <2>1. \A q \in PtBad : ptEntry'[q].idx = ptEntry[q].idx
      BY <1>1, PtRegisterIs, PtResyncIs, PtEmpty DEF PtBooks, PtAssumption
    <2> QED BY <2>1 DEF PtToRise
  <1>3. p \notin PtOnce(o)
    BY PtRegisterIs, PtResyncIs DEF PtOnce, PtTracked, PtBooks
  <1>4. PtOnce(o) \subseteq PtOnce(o)'
    BY <1>1, <1>3 DEF PtOnce, PtTracked, PtAssumption
  <1>5. /\ ptTick'.at = ptTick.at /\ ptTick'.left = ptTick.left /\ ptTick'.on = ptTick.on /\ ptTick'.probe = ptTick.probe
        /\ ptTick'.overdue = ptTick.overdue /\ ptBreaker' = ptBreaker
    BY PtRegisterIs, PtResyncIs
  <1>6. ASSUME PtCalm(o) PROVE PtCalm(o)'
    <2>1. ptBreaker'.errs <= Cardinality(PtOnce(o))'
      BY <1>4, <1>5, <1>6, PtOnceKept DEF PtCalm
    <2> QED BY <1>1, <1>5, <1>6, <2>1 DEF PtCalm
  <1> QED BY <1>1, <1>2, <1>5, <1>6, PtAgeKept

\* Every step leaves an order that ages its way out.
LEMMA PtAgesStep ==
    ASSUME PtAssumption, PtGoing, PtAges, [PtNext]_ptVars
    PROVE  PtAges'
  <1> USE DEF PtGoing
  <1> SUFFICES ASSUME PtFew, ~ptOutage', NEW o \in PtOrders \ PtBad, ptEntry'[o].tracked
               PROVE  PtAge(o)'
    BY DEF PtAges, PtFew, PtTracked
  <1>0. ~ptOutage /\ ptEntry[o].tracked => PtAge(o) /\ o \in PtTracked \ PtBad
    BY DEF PtAges, PtTracked
  <1>1. \A r \in PtOrders : ptEntry[r].tracked \in BOOLEAN /\ ptEntry[r] \in PtEntry
    BY PtEntries
  <1>2. CASE PtPass
    BY <1>0, <1>1, <1>2, PtPassIs, PtFields, PtAgePass
  <1>3. CASE PtBegin
    <2>1. PtAge(o) /\ ptEntry' = ptEntry /\ ptBreaker' = ptBreaker /\ ptTick.at = "idle" /\ ptTick.on = {} /\ ~ptTick.probe
          /\ o \in PtTracked
      BY <1>0, <1>3, PtBeginIs DEF PtTicking, PtBusy
    <2>2. PtToRise' = PtToRise /\ PtOnce(o)' = PtOnce(o)
      BY <2>1 DEF PtToRise, PtOnce, PtTracked
    <2>3. ASSUME PtCalm(o) PROVE PtCalm(o)'
      <3>1. ~ptBreaker.open /\ ptTick'.at = "tick" /\ ptTick'.on = {} /\ ~ptTick'.probe
            /\ ptTick'.left = {q \in PtTracked : ptEntry[q].due <= 0}
        BY <1>3, <2>1, <2>3, PtBeginIs DEF PtCalm
      <3>2. ptEntry[o].due = 0 => o \in ptTick'.left
        BY <2>1, <3>1
      <3> QED BY <2>1, <2>2, <2>3, <3>1, <3>2 DEF PtCalm
    <2> QED BY <2>1, <2>2, <2>3, PtAgeKept
  <1>4. CASE PtEnd
    <2>1. PtAge(o) /\ ptEntry' = ptEntry /\ ptBreaker' = ptBreaker /\ ptTick.at = "tick" /\ ptTick.on = {}
      BY <1>0, <1>4, PtEndIs DEF PtTicking, PtBusy
    <2>2. PtToRise' = PtToRise /\ PtOnce(o)' = PtOnce(o)
      BY <2>1 DEF PtToRise, PtOnce, PtTracked
    <2>3. ASSUME PtCalm(o) PROVE PtCalm(o)'
      BY <1>4, <2>1, <2>2, <2>3, PtEndIs DEF PtCalm
    <2> QED BY <2>1, <2>2, <2>3, PtAgeKept
  <1>5. CASE PtGoesDown
    BY <1>5 DEF PtGoesDown
  <1>6. CASE PtComesBack
    <2>1. ptEntry'[o].unasked = 0 /\ ptEntry'[o].age <= PtTimeout + 1 /\ ptEntry'[o].age \in Int /\ PtTimeout \in Nat
      <3>1. PtTyped'
        BY PtTypedStep
      <3>2. ptEntry'[o] \in PtEntry
        BY <3>1 DEF PtTyped
      <3>3. ptEntry'[o].age \in Int
        BY <3>2, PtNumbers DEF PtEntry
      <3> QED BY <1>6, <3>3, PtComesBackIs, PtNumbers
    <2>2. PtOver(o)' <= ptEntry'[o].unasked
      BY <2>1 DEF PtOver
    <2> QED BY <2>2 DEF PtAge
  <1>7. ASSUME NEW p \in PtOrders, PtAsk(p) PROVE PtAge(o)'
    <2>1. PtAge(o) /\ o \in PtTracked /\ ptEntry[o].tracked
      BY <1>0, <1>7, PtAskIs
    <2>2. CASE p = o
      BY <1>7, <2>1, <2>2, PtAgeAsked
    <2>3. CASE p # o
      BY <1>7, <2>1, <2>3, PtAgeAskOther
    <2> QED BY <2>2, <2>3
  <1>8. ASSUME NEW p \in PtOrders, PtRaises(p) PROVE PtAge(o)'
    <2>1. p \in PtBad /\ ~ptOutage
      BY <1>8, PtRaisesIs
    <2>2. ptEntry[o].tracked
      BY <1>8, <2>1, PtRaisesIs
    <2> QED BY <1>0, <1>8, <2>1, <2>2, PtAgeRaises
  <1>9. ASSUME NEW p \in PtOrders, PtAnswers(p) PROVE PtAge(o)'
    <2>1. ptEntry[o].tracked /\ ~ptOutage
      BY <1>9, PtAnswersIs
    <2> QED BY <1>0, <1>9, <2>1, PtAgeAnswers
  <1>10. ASSUME NEW p \in PtOrders, PtTimesOut(p) PROVE PtAge(o)'
    <2>1. ptEntry[o].tracked /\ ~ptOutage
      BY <1>1, <1>10, PtTimesOutIs
    <2> QED BY <1>0, <1>10, <2>1, PtAgeAnswers
  <1>11. ASSUME NEW p \in PtOrders, PtRegister(p) PROVE PtAge(o)'
    <2>1. CASE p = o
      <3>1. PtOver(o)' <= ptEntry'[o].unasked
        BY <1>11, <2>1, PtRegisterIs, PtEmpty, PtNumbers DEF PtOver
      <3> QED BY <3>1 DEF PtAge
    <2>2. CASE p # o
      BY <1>0, <1>11, <2>2, PtRegisterIs, PtAgeOthers
    <2> QED BY <2>1, <2>2
  <1>12. ASSUME NEW p \in PtOrders, PtResync(p) PROVE PtAge(o)'
    BY <1>0, <1>12, PtResyncIs, PtEmpty, PtAgeOthers
  <1>13. ASSUME NEW p \in PtOrders, PtFills(p) PROVE PtAge(o)'
    <2>1. PtAge(o) /\ UNCHANGED <<ptEntry, ptOutage, ptBreaker, ptTick>>
      BY <1>0, <1>13 DEF PtFills
    <2> QED BY <2>1 DEF PtAge, PtLate, PtCalm, PtOnce, PtToRise, PtOver, PtTracked, PtUpTo
  <1>14. CASE UNCHANGED ptVars
    <2>1. PtAge(o) /\ UNCHANGED <<ptEntry, ptOutage, ptBreaker, ptTick>>
      BY <1>0, <1>14 DEF ptVars
    <2> QED BY <2>1 DEF PtAge, PtLate, PtCalm, PtOnce, PtToRise, PtOver, PtTracked, PtUpTo
  <1> QED BY <1>2, <1>3, <1>4, <1>5, <1>6, <1>7, <1>8, <1>9, <1>10, <1>11, <1>12, <1>13,
             <1>14 DEF PtNext

-----------------------------------------------------------------------------
\* The invariant makes the properties of the tick.
LEMMA PtMeets == ASSUME PtAssumption, PtGoing, PtAges PROVE PtInv
  <1>1. PtTypeOK
    BY DEF PtGoing, PtTyped, PtTypeOK, PtEntry, PtBreakerType, PtTickType
  <1>2. PtReadFirst
    BY DEF PtGoing, PtBooks, PtReadFirst
  <1>3. PtSilent
    BY PtTickIs DEF PtGoing, PtTicking, PtSilent
  <1>4. PtServed
    BY DEF PtGoing, PtHeard, PtServed
  <1>5. PtClosed
    <2>1. SUFFICES ASSUME PtFew, ~ptOutage, NEW o \in PtTracked \ PtBad PROVE ptEntry[o].age <= PtLatest
      BY DEF PtClosed, PtFew
    <2>2. PtAge(o) /\ o \in PtOrders
      BY <2>1 DEF PtAges, PtTracked
    <2>3. /\ ptEntry[o].age \in Nat /\ ptEntry[o].unasked \in Nat /\ ptEntry[o].unasked <= PtWithin /\ PtWithin \in Nat
          /\ PtTimeout \in Nat /\ PtRises \in Nat /\ PtOver(o) = ptEntry[o].age - PtTimeout - 1
      BY <2>1, <2>2, PtEntries, PtNumbers DEF PtGoing, PtHeard, PtOver
    <2>4. PtUpTo(0) \in Nat /\ PtLatest = PtTimeout + PtUpTo(0) + PtWithin + 1
      <3>1. 0 \in 0..PtRises
        BY <2>3
      <3> QED BY <3>1, PtUpToIs
    <2>5. PtOver(o) <= PtUpTo(0) + PtWithin
      <3>1. CASE PtOver(o) <= ptEntry[o].unasked
        BY <2>3, <2>4, <3>1
      <3>2. CASE \E f \in 0..PtRises : PtLate(o, f)
        <4>1. PICK f \in 0..PtRises : PtLate(o, f)
          BY <3>2
        <4>2. PtUpTo(f) <= PtUpTo(0) /\ PtUpTo(f) \in Nat /\ PtOver(o) - ptEntry[o].unasked <= PtUpTo(f)
          BY <4>1, PtUpToIs DEF PtLate
        <4> QED BY <2>3, <2>4, <4>2
      <3> QED BY <2>2, <3>1, <3>2 DEF PtAge
    <2> QED BY <2>3, <2>4, <2>5
  <1> QED BY <1>1, <1>2, <1>3, <1>4, <1>5 DEF PtInv

\* Nothing is tracked at first.
LEMMA PtGoingInit == ASSUME PtAssumption, PtInit PROVE PtGoing /\ PtAges
  <1>1. PtTyped
    BY PtTypedInit
  <1>2. \A o \in PtOrders : ptEntry[o] = PtGone
    BY DEF PtInit
  <1>3. /\ ptTick.at = "idle" /\ ptTick.left = {} /\ ptTick.on = {} /\ ptTick.probe = FALSE /\ ptTick.settled = {}
    BY DEF PtInit, PtNoTick
  <1>4. PtTracked = {}
    BY <1>2, PtEmpty DEF PtTracked
  <1>5. PtTicking
    BY <1>3 DEF PtTicking, PtBusy
  <1>6. PtBooks /\ PtAsking
    BY <1>2, <1>3, PtEmpty DEF PtBooks, PtAsking
  <1>7. PtHeard /\ PtSoon /\ PtRenewed /\ PtTurns /\ PtAges
    BY <1>4 DEF PtHeard, PtSoon, PtRenewed, PtTurns, PtWaits, PtAges
  <1> QED BY <1>1, <1>5, <1>6, <1>7 DEF PtGoing

\* Every step keeps all of it.
LEMMA PtGoingStep == ASSUME PtAssumption, PtGoing, PtAges, [PtNext]_ptVars PROVE PtGoing' /\ PtAges'
  BY PtTypedStep, PtTickingStep, PtBooksStep, PtAskingStep, PtSoonStep, PtRenewedStep,
     PtTurnsStep, PtAgesStep DEF PtGoing

\* Every open order gets its tick, and is timed out in the end.
LEMMA PtInvariant == PtSpec => []PtInv
  <1>1. PtInit => PtGoing /\ PtAges
    BY PtAssumption, PtGoingInit
  <1>2. (PtGoing /\ PtAges) /\ [PtNext]_ptVars => (PtGoing /\ PtAges)'
    BY PtAssumption, PtGoingStep
  <1>3. PtGoing /\ PtAges => PtInv
    BY PtAssumption, PtMeets
  <1> QED BY <1>1, <1>2, <1>3, PTL DEF PtSpec
====
