--------------------------- MODULE RiskHaltProofs ---------------------------
(***************************************************************************)
(* The halt of a loss limit, proved for every number of fill threads, every  *)
(* limit, loss, risk day and release: who may clear a halt, when trading     *)
(* reopens, when a book is liquidated, when a halt shuts the order gate.     *)
(***************************************************************************)
EXTENDS RiskHalt, FiniteSetTheorems, TLAPS

(***************************************************************************)
(* The newest day of a set.                                                 *)
(***************************************************************************)

\* A set of risk days that is not empty has a newest one: the days after one
\* of them that has fewest of them after it are none.
LEMMA NewestIsOneOfThem ==
    ASSUME NEW S \in SUBSET Days, S # {}
    PROVE  Newest(S) \in S /\ \A e \in S : e <= Newest(S)
  <1> DEFINE After(d) == {e \in S : e > d}
             T == {After(d) : d \in S}
  <1>1. IsFiniteSet(Days)
    BY BoundAssumption, FS_Interval DEF Days
  <1>2. IsFiniteSet(S)
    BY <1>1, FS_Subset
  <1>3. T \subseteq FiniteSubsetsOf(S)
    <2>1. ASSUME NEW d \in S PROVE After(d) \subseteq S /\ IsFiniteSet(After(d))
      BY <1>2, FS_Subset
    <2> QED BY <2>1 DEF FiniteSubsetsOf
  <1>4. T # {}
    OBVIOUS
  <1>5. PICK x \in T : \A y \in T : ~(<<y, x>> \in StrictSubsetOrdering(S))
    <2> HIDE DEF T
    <2> QED BY <1>3, <1>4, FS_StrictSubsetOrderingWellFounded, WFMin
  <1>6. PICK d \in S : x = After(d)
    OBVIOUS
  <1>7. ASSUME NEW e \in S, e > d PROVE FALSE
    <2>1. After(e) \in T /\ After(e) \subseteq After(d) /\ After(e) # After(d)
      <3>3. \A n \in S : n \in Int
        BY BoundAssumption DEF Days
      <3>1. \A n \in S : n > e => n > d
        BY <1>7, <3>3
      <3>2. e \in After(d) /\ e \notin After(e)
        BY <1>7, <3>3
      <3> QED BY <3>1, <3>2
    <2> QED BY <1>5, <1>6, <2>1 DEF StrictSubsetOrdering
  <1>8. \E n \in S : \A e \in S : e <= n
    BY <1>7, BoundAssumption DEF Days
  <1> QED BY <1>8 DEF Newest

(***************************************************************************)
(* Types, by what they are of.                                              *)
(***************************************************************************)
Gates == [open : BOOLEAN, cause : Causes, latched : BOOLEAN, resume : BOOLEAN]
Baselines == [day : 0 .. MaxDays, floor : Nat, seen : 0 .. MaxReleases]

WorldT == /\ up \in {"down", "booting", "running", "stopping"}
          /\ today \in Days /\ down \in Units /\ carry \in 0 .. MaxDays /\ events \in 0 .. MaxEvents
MemT == mem \in Tracker
DbT == /\ rows \in [Days -> Row] /\ redis \in [Days -> Units]
       /\ releases \in 0 .. MaxReleases /\ kept \in Baselines
GateT == gate \in Gates /\ alarm \in BOOLEAN
FlattensT == asks \in Nat /\ late \in BOOLEAN /\ sold \in BOOLEAN
ThreadsT == th \in [Threads -> Thread]
Typed == WorldT /\ MemT /\ DbT /\ GateT /\ FlattensT /\ ThreadsT

\* The types above are the specification's type invariant.
LEMMA TypedType == Typed <=> TypeOK
  BY DEF Typed, TypeOK, WorldT, MemT, DbT, GateT, FlattensT, ThreadsT, Gates, Baselines

\* What a step leaves alone keeps its type.
LEMMA TypesStay ==
    Typed => /\ UNCHANGED <<up, today, down, carry, events>> => WorldT'
             /\ UNCHANGED mem => MemT'
             /\ UNCHANGED db => DbT'
             /\ UNCHANGED <<gate, alarm>> => GateT'
             /\ UNCHANGED flattens => FlattensT'
             /\ UNCHANGED th => ThreadsT'
  BY DEF Typed, WorldT, MemT, DbT, GateT, FlattensT, ThreadsT, db, flattens

(***************************************************************************)
(* What is done to the tracker, to a thread and to the gate.                *)
(***************************************************************************)

\* A roll onto today's day forgets yesterday's loss and nothing else.
LEMMA RolledTracker ==
    ASSUME NEW m \in Tracker, today \in Days
    PROVE  /\ Rolled(m) \in Tracker
           /\ Rolled(m).day = today /\ Rolled(m).loss \in {0, m.loss}
           /\ m.day = today => Rolled(m) = m
           /\ m.day # today => Rolled(m).loss = 0
           /\ Rolled(m).base = m.base /\ Rolled(m).cur = m.cur
           /\ Rolled(m).judged = m.judged /\ Rolled(m).ks = m.ks /\ Rolled(m).why = m.why
           /\ Rolled(m).asked = m.asked /\ Rolled(m).epoch = m.epoch
           /\ Rolled(m).written = m.written /\ Rolled(m).unwritten = m.unwritten
           /\ Rolled(m).seen = m.seen
  <1>1. NoFloor \in Nat /\ 0 \in Units
    BY LimitAssumption, BoundAssumption DEF NoFloor, Units
  <1> QED BY <1>1 DEF Rolled, Tracker

\* A loss is in breach by the peak the last release was judged by, or the
\* drawdown by the equity last read.
Broken(m) == (m.day = today /\ LossBreached(m, m.judged)) \/ MddBreached(m)

\* A share is a number, and a lower peak has no larger one.
LEMMA ShareFalls ==
    ASSUME NEW pct \in Nat, NEW a \in Levels, NEW b \in Levels, a <= b
    PROVE  Share(pct, a) \in Nat /\ Share(pct, b) \in Nat /\ Share(pct, b) <= Share(pct, a)
  <1>1. MaxDown \in Nat /\ Equity \in Nat /\ Equity > MaxDown
    BY BoundAssumption
  <1>2. ASSUME NEW x \in Nat PROVE x \div 100 \in Nat
    BY <1>2
  <1>3. ASSUME NEW x \in Levels
        PROVE  /\ Share(pct, x) \in Nat
               /\ x # Unknown => Equity - x \in Nat /\ pct * (Equity - x) \in Nat
    <2>1. CASE x = Unknown
      BY <2>1 DEF Share
    <2>2. CASE x # Unknown
      <3>1. Equity - x \in Nat
        BY <1>1, <2>2 DEF Levels, Units
      <3>2. pct * (Equity - x) \in Nat
        BY <3>1
      <3> QED BY <1>2, <2>2, <3>1, <3>2 DEF Share
    <2> QED BY <2>1, <2>2
  <1>4. CASE b = Unknown
    BY <1>3, <1>4 DEF Share
  <1>5. CASE b # Unknown
    <2>1. a # Unknown /\ a \in Nat /\ b \in Nat
      BY <1>1, <1>5 DEF Levels, Units, Unknown
    <2>2. b - a \in Nat /\ Equity - b \in Nat /\ Equity - a \in Nat
      BY <1>3, <1>5, <2>1
    <2>3. pct * (Equity - a) = pct * (Equity - b) + pct * (b - a)
      BY <1>1, <2>1
    <2>4. pct * (b - a) \in Nat /\ pct * (Equity - b) \in Nat /\ pct * (Equity - a) \in Nat
      BY <2>2
    <2>5. ASSUME NEW x \in Nat, NEW y \in Nat, NEW z \in Nat, x = y + z
          PROVE  y \div 100 <= x \div 100
      BY <2>5
    <2>6. (pct * (Equity - b)) \div 100 <= (pct * (Equity - a)) \div 100
      BY <2>3, <2>4, <2>5
    <2> QED BY <1>3, <1>5, <2>1, <2>6 DEF Share
  <1> QED BY <1>4, <1>5

\* A day begins with no loss in breach.
LEMMA RolledBreach ==
    ASSUME NEW m \in Tracker, today \in Days
    PROVE  /\ Broken(Rolled(m)) => Broken(m)
           /\ m.day # today => ~LossBreached(Rolled(m), m.judged)
  <1>1. /\ m.judged \in Levels /\ Levels \subseteq Nat /\ LimitPct \in Nat /\ m.judged <= m.judged
    BY BoundAssumption, LimitAssumption DEF Tracker, Levels, Units, Unknown
  <1>2. Share(LimitPct, m.judged) \in Nat
    BY <1>1, ShareFalls
  <1>3. m.day # today => ~LossBreached(Rolled(m), m.judged)
    BY <1>2, RolledTracker DEF LossBreached
  <1>4. CASE m.day = today
    BY <1>3, <1>4, RolledTracker
  <1>5. CASE m.day # today
    BY <1>3, <1>5, RolledTracker DEF Broken, MddBreached
  <1> QED BY <1>3, <1>4, <1>5

\* What a peak does not change.
Kin(n, m) ==
    /\ n \in Tracker
    /\ n.day = m.day /\ n.loss = m.loss /\ n.ks = m.ks /\ n.why = m.why /\ n.floor = m.floor
    /\ n.asked = m.asked /\ n.epoch = m.epoch /\ n.written = m.written
    /\ n.unwritten = m.unwritten /\ n.seen = m.seen /\ n.cur = m.cur

\* Rebased onto the equity as read, the peak is no drawdown's any more.
LEMMA RebasedTracker ==
    ASSUME NEW m \in Tracker
    PROVE  /\ Kin(Rebased(m), m) /\ Rebased(m).judged = m.judged /\ m.base <= Rebased(m).base
           /\ ~MddBreached(Rebased(m))
  <1>1. /\ m.base \in Levels /\ m.cur \in Levels /\ m.base \in Nat /\ m.cur \in Nat
        /\ MddPct \in Nat
    BY BoundAssumption, LimitAssumption DEF Tracker, Levels, Units, Unknown
  <1>2. /\ Share(MddPct, m.base) \in Nat /\ Share(MddPct, m.cur) \in Nat
        /\ m.base \in Nat /\ m.cur \in Nat
    <2>1. m.base <= m.base /\ m.cur <= m.cur
      BY <1>1
    <2> QED BY <1>1, <2>1, ShareFalls
  <1> DEFINE n == [m EXCEPT !.base = m.cur]
  <1>3. CASE MddBreached(m)
    <2>1. Rebased(m) = n
      BY <1>3 DEF Rebased
    <2>2. Kin(n, m) /\ n.judged = m.judged /\ n.base = m.cur
      BY <1>1 DEF Kin, Tracker
    <2>3. m.base <= m.cur
      BY <1>2, <1>3 DEF MddBreached
    <2> HIDE DEF n
    <2>4. ~MddBreached(n)
      BY <1>2, <2>2 DEF MddBreached, Kin
    <2> QED BY <2>1, <2>2, <2>3, <2>4
  <1>4. CASE ~MddBreached(m)
    <2>1. Rebased(m) = m
      BY <1>4 DEF Rebased
    <2>2. m.base <= m.base
      BY <1>2
    <2> QED BY <1>4, <2>1, <2>2 DEF Kin
  <1> QED BY <1>3, <1>4

\* A release accepts the loss as it stands: no limit of the peak it found is
\* broken by it, and the drawdown starts again at the equity as read.
LEMMA AcceptedTracker ==
    ASSUME NEW m \in Tracker
    PROVE  /\ Accepted(m) \in Tracker
           /\ Accepted(m).day = m.day /\ Accepted(m).loss = m.loss /\ Accepted(m).ks = m.ks
           /\ Accepted(m).why = m.why /\ Accepted(m).asked = m.asked
           /\ Accepted(m).epoch = m.epoch /\ Accepted(m).written = m.written
           /\ Accepted(m).seen = m.seen /\ Accepted(m).unwritten /\ Accepted(m).cur = m.cur
           /\ Accepted(m).judged <= Accepted(m).base /\ ~Broken(Accepted(m))
           /\ Accepted(m).rebase = IF m.cur = Unknown THEN m.day ELSE 0
  <1>1. /\ m.base \in Levels /\ Levels \subseteq Nat /\ m.base <= m.base /\ m.loss \in Nat
        /\ LimitPct \in Nat /\ StepPct \in Nat /\ NoFloor \in Nat /\ m.day \in 0 .. MaxDays
        /\ 0 \in 0 .. MaxDays
    BY BoundAssumption, LimitAssumption DEF Tracker, Levels, Units, Unknown, NoFloor, Days
  <1>2. Share(LimitPct, m.base) \in Nat /\ Share(StepPct, m.base) \in Nat
    BY <1>1, ShareFalls
  <1> DEFINE floor == IF m.loss > Share(LimitPct, m.base)
                      THEN m.loss + Share(StepPct, m.base) ELSE NoFloor
             rebase == IF m.cur = Unknown THEN m.day ELSE 0
             n == [m EXCEPT !.floor = floor, !.judged = m.base, !.rebase = rebase,
                            !.unwritten = TRUE]
  <1>3. Accepted(m) = Rebased(n)
    BY DEF Accepted
  <1>4. floor \in Nat /\ rebase \in 0 .. MaxDays
    BY <1>1, <1>2
  <1> HIDE DEF floor, rebase
  <1>5. n \in Tracker
    BY <1>1, <1>4 DEF Tracker
  <1>6. /\ n.day = m.day /\ n.loss = m.loss /\ n.ks = m.ks /\ n.why = m.why /\ n.asked = m.asked
        /\ n.epoch = m.epoch /\ n.written = m.written /\ n.seen = m.seen /\ n.unwritten
        /\ n.cur = m.cur /\ n.base = m.base
    BY DEF Tracker
  <1>7. n.judged = m.base /\ n.floor = floor /\ n.rebase = rebase
    BY DEF Tracker
  <1> HIDE DEF n
  <1>8. /\ Kin(Rebased(n), n) /\ Rebased(n).judged = n.judged /\ n.base <= Rebased(n).base
        /\ ~MddBreached(Rebased(n)) /\ Rebased(n).rebase = n.rebase
    BY <1>5, RebasedTracker DEF Rebased, Tracker
  <1>9. ~LossBreached(Rebased(n), m.base)
    BY <1>1, <1>2, <1>6, <1>7, <1>8 DEF LossBreached, Kin, floor
  <1> QED BY <1>3, <1>6, <1>7, <1>8, <1>9 DEF Kin, Broken, rebase

\* A reading resolves a release that waits for one, and starts no drawdown.
LEMMA ResolvedTracker ==
    ASSUME NEW m \in Tracker, m.judged <= m.base
    PROVE  /\ Kin(Resolved(m), m) /\ Resolved(m).judged <= Resolved(m).base
           /\ Resolved(m).judged = m.judged /\ m.base <= Resolved(m).base
           /\ ~MddBreached(m) \/ (m.rebase = m.day /\ m.cur # Unknown) => ~MddBreached(Resolved(m))
  <1> DEFINE n == [m EXCEPT !.rebase = 0]
  <1>1. /\ m.judged \in Nat /\ m.base \in Nat /\ 0 \in 0 .. MaxDays /\ m.day # 0
    BY BoundAssumption DEF Tracker, Levels, Units, Unknown, Days
  <1>2. Kin(n, m) /\ n.judged = m.judged /\ n.base = m.base
    BY <1>1 DEF Kin, Tracker
  <1>3. MddBreached(n) = MddBreached(m)
    BY <1>2 DEF Kin, MddBreached
  <1>4. Resolved(m) \in {m, n, Rebased(n)}
    BY DEF Resolved
  <1>5. m.rebase = m.day /\ m.cur # Unknown => Resolved(m) = Rebased(n)
    BY <1>1 DEF Resolved
  <1> HIDE DEF n
  <1>6. n \in Tracker /\ Kin(m, m)
    BY <1>2 DEF Kin
  <1>7. /\ Kin(Rebased(n), n) /\ Rebased(n).judged = n.judged /\ n.base <= Rebased(n).base
        /\ ~MddBreached(Rebased(n)) /\ Rebased(n).base \in Nat
    <2>1. /\ Kin(Rebased(n), n) /\ Rebased(n).judged = n.judged /\ n.base <= Rebased(n).base
          /\ ~MddBreached(Rebased(n))
      BY <1>6, RebasedTracker
    <2> QED BY <2>1, BoundAssumption DEF Kin, Tracker, Levels, Units, Unknown
  <1>8. Kin(Rebased(n), m)
    BY <1>2, <1>7 DEF Kin
  <1>9. CASE Resolved(m) = m
    <2>1. m.base <= m.base
      BY <1>1
    <2> QED BY <1>5, <1>6, <1>7, <1>9, <2>1
  <1>10. CASE Resolved(m) = n
    <2>1. m.base <= m.base
      BY <1>1
    <2> QED BY <1>1, <1>2, <1>3, <1>5, <1>7, <1>10, <2>1
  <1>11. CASE Resolved(m) = Rebased(n)
    BY <1>1, <1>2, <1>7, <1>8, <1>11
  <1> QED BY <1>4, <1>9, <1>10, <1>11

\* A reading above the peak makes no breach.
LEMMA PeakedTracker ==
    ASSUME NEW m \in Tracker, m.judged <= m.base
    PROVE  /\ Kin(Peaked(m), m) /\ Peaked(m).judged <= Peaked(m).base
           /\ Peaked(m).judged <= m.judged
           /\ ~MddBreached(m) => ~MddBreached(Peaked(m))
           /\ ~LossBreached(m, m.judged) => ~LossBreached(Peaked(m), Peaked(m).judged)
  <1> DEFINE judged == IF m.cur < m.judged THEN m.cur ELSE m.judged
             n == [m EXCEPT !.base = m.cur, !.judged = judged]
  <1>1. /\ m.base \in Levels /\ m.cur \in Levels /\ m.judged \in Levels
        /\ m.base \in Nat /\ m.cur \in Nat /\ m.judged \in Nat
        /\ m.loss \in Nat /\ m.floor \in Nat /\ LimitPct \in Nat /\ MddPct \in Nat
    BY BoundAssumption, LimitAssumption DEF Tracker, Levels, Units, Unknown
  <1>2. /\ judged \in Levels /\ judged <= m.judged /\ judged <= m.cur /\ judged \in Nat
    BY <1>1
  <1>3. CASE m.cur < m.base
    <2>1. Peaked(m) = n
      BY <1>3 DEF Peaked
    <2> HIDE DEF judged
    <2>2. Kin(n, m) /\ n.judged = judged /\ n.base = m.cur
      BY <1>1, <1>2 DEF Kin, Tracker
    <2> HIDE DEF n
    <2>3. ~MddBreached(n)
      <3>1. Share(MddPct, m.cur) \in Nat
        <4>1. m.cur <= m.cur
          BY <1>1
        <4> QED BY <1>1, <4>1, ShareFalls
      <3> QED BY <1>1, <2>2, <3>1 DEF MddBreached, Kin
    <2>4. ~LossBreached(m, m.judged) => ~LossBreached(n, n.judged)
      <3>1. /\ Share(LimitPct, m.judged) <= Share(LimitPct, judged)
            /\ Share(LimitPct, m.judged) \in Nat /\ Share(LimitPct, judged) \in Nat
        BY <1>1, <1>2, ShareFalls
      <3> QED BY <1>1, <2>2, <3>1 DEF LossBreached, Kin
    <2> QED BY <1>2, <2>1, <2>2, <2>3, <2>4
  <1>4. CASE ~(m.cur < m.base)
    <2>1. Peaked(m) = m
      BY <1>4 DEF Peaked
    <2>2. m.judged <= m.judged
      BY <1>1
    <2> QED BY <2>1, <2>2 DEF Kin
  <1> QED BY <1>3, <1>4

\* A breach halts the tracker, and a decision is a new epoch.
LEMMA HaltsTracker ==
    ASSUME NEW m \in Tracker, NEW why \in {"loss", "mdd"}
    PROVE  /\ Halts(m, why) \in Tracker /\ Halts(m, why).ks
           /\ Halts(m, why).why = "mdd" => m.why = "mdd" \/ why = "mdd"
           /\ Halts(m, why).day = m.day /\ Halts(m, why).loss = m.loss
           /\ Halts(m, why).base = m.base /\ Halts(m, why).floor = m.floor
           /\ Halts(m, why).cur = m.cur /\ Halts(m, why).judged = m.judged
           /\ Halts(m, why).asked = m.asked /\ Halts(m, why).written = m.written
           /\ Halts(m, why).unwritten = m.unwritten /\ Halts(m, why).seen = m.seen
           /\ \/ Halts(m, why).epoch = m.epoch + 1
              \/ Halts(m, why) = m /\ m.ks
  <1>1. CASE Decides(m, why)
    <2> DEFINE n == [m EXCEPT !.ks = TRUE, !.why = why, !.epoch = m.epoch + 1]
    <2>1. Halts(m, why) = n
      BY <1>1 DEF Halts
    <2>2. /\ n \in Tracker /\ n.ks /\ n.why = why /\ n.epoch = m.epoch + 1
          /\ n.day = m.day /\ n.loss = m.loss /\ n.base = m.base /\ n.floor = m.floor
          /\ n.cur = m.cur /\ n.judged = m.judged
          /\ n.asked = m.asked /\ n.written = m.written /\ n.unwritten = m.unwritten
          /\ n.seen = m.seen
      <3>1. why \in Reasons /\ m.epoch + 1 \in Nat
        BY DEF Tracker, Reasons
      <3>2. n \in Tracker
        BY <3>1 DEF Tracker
      <3>3. n.ks /\ n.why = why /\ n.epoch = m.epoch + 1
        BY DEF Tracker
      <3>4. /\ n.day = m.day /\ n.loss = m.loss /\ n.base = m.base /\ n.floor = m.floor
            /\ n.asked = m.asked /\ n.written = m.written /\ n.unwritten = m.unwritten
            /\ n.seen = m.seen /\ n.cur = m.cur /\ n.judged = m.judged
        BY DEF Tracker
      <3> QED BY <3>2, <3>3, <3>4
    <2> HIDE DEF n
    <2> QED BY <2>1, <2>2
  <1>2. CASE ~Decides(m, why)
    <2>1. Halts(m, why) = m /\ m.ks
      BY <1>2 DEF Halts, Decides, Tracker
    <2> QED BY <2>1
  <1> QED BY <1>1, <1>2

\* A thread that moves on with what it carries.
LEMMA GotoThread ==
    ASSUME NEW t \in Threads, th \in [Threads -> Thread], NEW loc, Goto(t, loc),
           loc \in {"idle", "persist", "again", "commit", "settle", "shut", "release",
                   "note", "audit", "fresh", "reopen"}
    PROVE  /\ th' \in [Threads -> Thread]
           /\ th'[t] = [th[t] EXCEPT !.at = loc]
           /\ th'[t].at = loc /\ th'[t].again = th[t].again /\ th'[t].snap = th[t].snap
           /\ th'[t].adopt = th[t].adopt /\ th'[t].ks = th[t].ks /\ th'[t].why = th[t].why
           /\ \A u \in Threads \ {t} : th'[u] = th[u]
  BY DEF Goto, Thread

\* A thread that leaves its snapshot behind.
LEMMA DropThread ==
    ASSUME NEW t \in Threads, th \in [Threads -> Thread], NEW loc, Drop(t, loc),
           loc \in {"idle", "persist", "again", "commit", "settle", "shut", "release",
                   "note", "audit", "fresh", "reopen"}
    PROVE  /\ th' \in [Threads -> Thread]
           /\ th'[t].at = loc /\ th'[t].again = (loc # "idle" /\ th[t].again)
           /\ th'[t].snap = NoSnapshot
           /\ ~th'[t].adopt /\ ~th'[t].ks /\ th'[t].why = "none"
           /\ \A u \in Threads \ {t} : th'[u] = th[u]
  <1>1. NoSnapshot \in Snapshot
    BY BoundAssumption DEF NoSnapshot, Snapshot, Days, Units, Levels, Reasons
  <1>2. th[t].again \in BOOLEAN /\ th[t].round \in {1, 2}
    BY DEF Thread
  <1> DEFINE moved == IF loc = "idle" THEN IdleThread
                      ELSE [IdleThread EXCEPT !.at = loc, !.round = th[t].round, !.again = th[t].again]
  <1>3. /\ moved \in Thread /\ moved.at = loc /\ moved.again = (loc # "idle" /\ th[t].again)
        /\ moved.snap = NoSnapshot /\ ~moved.adopt /\ ~moved.ks /\ moved.why = "none"
    BY <1>1, <1>2 DEF IdleThread, Thread, Reasons
  <1>4. th' = [th EXCEPT ![t] = moved]
    BY DEF Drop
  <1> HIDE DEF moved
  <1> QED BY <1>3, <1>4

\* Where a thread goes after a write, and after the release.
LEMMA AfterWritePlaces ==
    ASSUME NEW t \in Threads, NEW m, th \in [Threads -> Thread]
    PROVE  /\ Done(t) \in {"idle", "reopen", "fresh"}
           /\ Done(t) # "idle" => t = Poll /\ up # "booting"
           /\ Done(t) = "reopen" => th[t].again
           /\ AfterWrite(t, m) \in {"audit", "release", "idle", "reopen", "fresh"}
           /\ AfterWrite(t, m) \in {"fresh", "reopen"} => t = Poll /\ up # "booting"
           /\ AfterWrite(t, m) = "reopen" => th[t].again
           /\ AfterWrite(t, m) = "release" => m.unwritten
  BY DEF Done, AfterWrite

\* A halt closes the gate; it is a halt for risk only if nothing was latched.
LEMMA DisabledGate ==
    ASSUME NEW g \in Gates,
           NEW cause \in Causes
    PROVE  /\ Disabled(g, cause) \in Gates
           /\ ~Disabled(g, cause).open
           /\ Disabled(g, cause).cause \in {cause, "untrusted", "record"}
           /\ Disabled(g, cause).latched = g.latched /\ Disabled(g, cause).resume = g.resume
  BY DEF Disabled, Causes, Gates

(***************************************************************************)
(* The inductive invariant.                                                 *)
(***************************************************************************)

\* No reading of the day's loss is more than was lost, no release is known
\* before it was written, and none was judged by a peak below the one kept.
Bounded ==
    /\ mem.loss <= down /\ mem.day <= today /\ mem.judged <= mem.base
    /\ \A d \in Days : rows[d].loss <= down /\ redis[d] <= down
    /\ \A t \in Threads : th[t].snap.loss <= down
    /\ mem.seen <= releases /\ kept.seen <= releases
    /\ \A t \in Threads : th[t].at = "idle" => ~th[t].again

\* A decision not written yet is a halt, and a write that asserts one carries
\* it: who asserts never clears.
Carries(t) ==
    /\ th[t].at = "commit" =>
          /\ th[t].snap.asserting => th[t].snap.ks
          /\ th[t].snap.epoch <= mem.epoch
          /\ th[t].snap.epoch = mem.epoch /\ ~th[t].snap.asserting => mem.written = mem.epoch
    /\ th[t].at = "settle" =>
          /\ th[t].snap.epoch <= mem.epoch
          /\ th[t].adopt /\ th[t].snap.epoch = mem.epoch => mem.written = mem.epoch
Decided ==
    /\ mem.written <= mem.epoch
    /\ mem.epoch # mem.written => mem.ks
    /\ \A t \in Threads : Carries(t)
    /\ \A d \in Days : rows[d].ks => rows[d].made

\* A process that is down runs nothing; one that boots does not poll yet.
Quiet ==
    /\ up = "down" => /\ asks = 0 /\ ~alarm /\ ~late /\ ~gate.open
                      /\ th = [t \in Threads |-> IdleThread]
    /\ up = "booting" => th[Poll].at # "fresh"

\* What was lost breaks a limit nobody has halted for: a process that came up
\* without its halt.  Until a halt or a release it has accepted nothing, and
\* its gate, once shut, waits for a release to be accepted.
Unheard == ~mem.ks /\ Broken(mem)
Baselined ==
    up # "down" /\ Unheard =>
        /\ ~alarm /\ ~mem.unwritten
        /\ \A t \in Threads : th[t].at \notin {"shut", "release", "note"}
        /\ ~th[Poll].again /\ th[Poll].at # "reopen"
        /\ up = "running" /\ ~gate.open /\ gate.cause = "risk" =>
              Halted # {} \/ releases > mem.seen
        /\ up # "booting" /\ th[Poll].at # "idle" => releases > mem.seen

\* Whatever names a drawdown is a halt.
Marked ==
    /\ mem.why = "mdd" => mem.ks
    /\ \A d \in Days : rows[d].why = "mdd" => rows[d].ks
    /\ \A t \in Threads :
          /\ th[t].why = "mdd" => th[t].ks
          /\ th[t].snap.why = "mdd" => th[t].snap.ks

\* A tracker halts with its gate shut or on its way to be; a process comes up
\* halted only if a row is.
Shutting == alarm \/ \E t \in Threads : th[t].at = "shut"
Gated ==
    ~BootRelease =>
        /\ up = "running" /\ mem.ks /\ gate.open => Shutting
        /\ up = "booting" /\ (mem.ks \/ \E t \in Threads : th[t].at = "settle" /\ th[t].ks) =>
              Halted # {}

\* One flatten is under way at most; while its sells are out, whatever carries
\* the halt it was for counts as asked for.
Falling ==
    \/ mem.why = "mdd"
    \/ \E d \in Days : rows[d].why = "mdd"
    \/ \E t \in Threads : th[t].why = "mdd" \/ th[t].snap.why = "mdd"
Once ==
    ~LateMayFail =>
        /\ asks > 0 => mem.asked /\ ~sold
        /\ asks <= 1
        /\ up # "down" /\ sold /\ Falling => mem.asked

Inductive ==
    Typed /\ Bounded /\ Decided /\ Quiet /\ Baselined /\ Marked /\ Gated /\ Once

\* A worker that runs, recovered, with nothing lost.
LEMMA InitInductive == Init => Inductive
  <1> SUFFICES ASSUME Init PROVE Inductive
    OBVIOUS
  <1>1. NoFloor \in Nat /\ 0 \in Units /\ 1 \in Days /\ Unknown \in Levels /\ MaxReleases \in Nat
    BY LimitAssumption, BoundAssumption DEF NoFloor, Unknown, Levels, Units, Days
  <1>2. IdleThread \in Thread /\ FreshTracker \in Tracker /\ NoRow \in Row
    <2>1. NoSnapshot \in Snapshot
      BY <1>1 DEF NoSnapshot, Snapshot, Levels, Reasons
    <2>2. IdleThread \in Thread
      BY <2>1 DEF IdleThread, Thread, Reasons
    <2>3. FreshTracker \in Tracker
      BY <1>1, BoundAssumption DEF FreshTracker, Tracker, Levels, Reasons
    <2>4. NoRow \in Row
      BY <1>1 DEF NoRow, Row, Reasons
    <2> QED BY <2>2, <2>3, <2>4
  <1>3. Typed
    <2>5. up = "running" /\ today = 1 /\ down = 0 /\ carry = 0 /\ events = 0 /\ asks = 0
          /\ late = FALSE /\ sold = FALSE
      BY DEF Init
    <2>6. 0 \in 0 .. MaxDays /\ 0 \in 0 .. MaxEvents
      BY BoundAssumption
    <2>1. WorldT /\ FlattensT
      BY <1>1, <2>5, <2>6 DEF WorldT, FlattensT
    <2>2. MemT /\ ThreadsT
      BY <1>2 DEF Init, MemT, ThreadsT
    <2>3. DbT
      BY <1>1, <1>2, BoundAssumption DEF Init, DbT, Baselines
    <2>4. GateT
      BY DEF Init, GateT, Gates, Causes
    <2> QED BY <2>1, <2>2, <2>3, <2>4 DEF Typed
  <1>4. \A t \in Threads : th[t] = IdleThread /\ th[t].snap = NoSnapshot /\ th[t].at = "idle"
                         /\ ~th[t].again /\ th[t].why = "none" /\ th[t].snap.why = "none"
                         /\ th[t].snap.loss = 0
    BY DEF Init, IdleThread, NoSnapshot
  <1>5. \A d \in Days : rows[d] = NoRow /\ rows[d].loss = 0 /\ ~rows[d].ks /\ rows[d].why = "none"
                       /\ redis[d] = 0
    BY DEF Init, NoRow
  <1>6. /\ mem.loss = 0 /\ mem.day = 1 /\ mem.seen = 0 /\ ~mem.ks /\ mem.why = "none"
        /\ mem.epoch = 0 /\ mem.written = 0 /\ ~mem.unwritten /\ mem.base = 0 /\ kept.seen = 0
        /\ mem.judged = 0 /\ mem.cur = 0 /\ mem.floor = 0
        /\ ~mem.asked
    BY DEF Init, FreshTracker, NoFloor
  <1>7. Bounded
    BY <1>4, <1>5, <1>6 DEF Init, Bounded
  <1>8. Decided
    BY <1>4, <1>5, <1>6 DEF Decided, Carries
  <1>9. Baselined
    <2>1. Poll \in Threads
      BY DEF Threads
    <2> QED BY <1>4, <1>6, <2>1 DEF Init, Baselined
  <1>10. Marked /\ Gated /\ Once /\ Quiet
    BY <1>4, <1>5, <1>6 DEF Init, Marked, Gated, Shutting, Once, Falling, Quiet
  <1> QED BY <1>3, <1>7, <1>8, <1>9, <1>10 DEF Inductive

\* What the steps below work with.
Known ==
    /\ Typed /\ Bounded /\ Decided /\ Quiet /\ Baselined /\ Marked /\ Gated /\ Once
    /\ mem \in Tracker /\ rows \in [Days -> Row] /\ redis \in [Days -> Units]
    /\ th \in [Threads -> Thread] /\ gate \in Gates /\ kept \in Baselines /\ Poll \in Threads
    /\ today \in Days /\ today \in Nat /\ down \in Units /\ down \in Nat
    /\ releases \in 0 .. MaxReleases /\ releases \in Nat /\ asks \in Nat
    /\ alarm \in BOOLEAN /\ sold \in BOOLEAN /\ late \in BOOLEAN
    /\ mem.loss \in Nat /\ mem.epoch \in Nat /\ mem.written \in Nat /\ mem.seen \in Nat
    /\ mem.day \in Days /\ mem.day \in Nat
    /\ \A d \in Days : rows[d].loss \in Nat /\ redis[d] \in Nat
    /\ \A t \in Threads : th[t].snap.loss \in Nat /\ th[t].snap.epoch \in Nat
                         /\ th[t].snap \in Snapshot
    /\ kept.seen \in Nat

\* The invariant gives them.
LEMMA Knows == Inductive => Known
  <1> SUFFICES ASSUME Inductive PROVE Known
    OBVIOUS
  <1>1. /\ Typed /\ Bounded /\ Decided /\ Quiet /\ Baselined /\ Marked /\ Gated /\ Once
    BY DEF Inductive
  <1>2. /\ mem \in Tracker /\ rows \in [Days -> Row] /\ redis \in [Days -> Units]
        /\ th \in [Threads -> Thread] /\ gate \in Gates /\ kept \in Baselines
        /\ today \in Days /\ down \in Units /\ releases \in 0 .. MaxReleases /\ asks \in Nat
        /\ alarm \in BOOLEAN /\ sold \in BOOLEAN /\ late \in BOOLEAN
    BY <1>1 DEF Typed, MemT, DbT, ThreadsT, WorldT, GateT, FlattensT
  <1>3. Poll \in Threads /\ Days \subseteq Nat /\ Units \subseteq Nat /\ MaxReleases \in Nat
    BY BoundAssumption DEF Threads, Days, Units
  <1>4. /\ mem.loss \in Units /\ mem.epoch \in Nat /\ mem.written \in Nat
        /\ mem.seen \in 0 .. MaxReleases /\ mem.day \in Days /\ kept.seen \in 0 .. MaxReleases
    BY <1>2 DEF Tracker, Baselines
  <1>5. \A d \in Days : rows[d].loss \in Units /\ redis[d] \in Units
    BY <1>2 DEF Row
  <1>6. \A t \in Threads : th[t].snap \in Snapshot
    BY <1>2 DEF Thread
  <1>7. \A t \in Threads : th[t].snap.loss \in Units /\ th[t].snap.epoch \in Nat
    BY <1>6 DEF Snapshot
  <1>8. /\ today \in Nat /\ down \in Nat /\ releases \in Nat
        /\ mem.loss \in Nat /\ mem.seen \in Nat /\ mem.day \in Nat /\ kept.seen \in Nat
    <2>1. releases \in Nat /\ mem.seen \in Nat /\ kept.seen \in Nat
      BY <1>2, <1>3, <1>4
    <2>2. today \in Nat /\ down \in Nat /\ mem.loss \in Nat /\ mem.day \in Nat
      BY <1>2, <1>3, <1>4
    <2> QED BY <2>1, <2>2
  <1>9. /\ \A d \in Days : rows[d].loss \in Nat /\ redis[d] \in Nat
        /\ \A t \in Threads : th[t].snap.loss \in Nat
    BY <1>3, <1>5, <1>7
  <1> QED BY <1>1, <1>2, <1>3, <1>4, <1>6, <1>7, <1>8, <1>9 DEF Known

(***************************************************************************)
(* A fill and its write.                                                    *)
(***************************************************************************)

\* A fill that breaks a limit halts, unless the tracker is halted; the alarm
\* follows every halt, and a flatten is asked for once.
LossEffect(t) ==
    /\ down' = down + 1 /\ down' \in Units /\ events' \in 0 .. MaxEvents
    /\ mem' \in Tracker
    /\ mem'.day = today /\ mem'.loss <= mem.loss + 1 /\ mem'.judged <= mem'.base
    /\ mem'.seen = mem.seen /\ mem'.written = mem.written /\ mem'.unwritten = mem.unwritten
    /\ mem.ks => mem'.ks
    /\ Broken(mem') => mem'.ks
    /\ \/ mem'.epoch = mem.epoch + 1 /\ mem'.ks
       \/ mem'.epoch = mem.epoch /\ mem'.ks = mem.ks
    /\ ~mem.ks /\ mem'.ks => alarm'
    /\ alarm => alarm'
    /\ alarm' => alarm \/ mem'.ks
    /\ mem'.why = "mdd" => mem'.ks /\ (mem.why = "mdd" \/ mem'.asked)
    /\ \/ asks' = asks /\ sold' = sold /\ mem'.asked = mem.asked
       \/ asks' = asks + 1 /\ ~sold' /\ ~mem.asked /\ mem'.asked

\* The tracker the decision is taken on.
LEMMA RecordedTracker ==
    ASSUME Inductive, NEW read \in BOOLEAN, down < MaxDown
    PROVE  LET m == Recorded(read)
           IN /\ m \in Tracker /\ m.day = today /\ m.loss <= mem.loss + 1
              /\ m.judged <= m.base
              /\ m.ks = mem.ks /\ m.why = mem.why /\ m.asked = mem.asked /\ m.epoch = mem.epoch
              /\ m.written = mem.written /\ m.unwritten = mem.unwritten /\ m.seen = mem.seen
  <1>0. /\ mem \in Tracker /\ today \in Days /\ down \in Units /\ mem.loss <= down
        /\ mem.judged <= mem.base
    BY DEF Inductive, Typed, MemT, WorldT, Bounded
  <1> DEFINE r == Rolled(mem)
             cur == IF read THEN down + 1 ELSE r.cur
             m == [r EXCEPT !.loss = r.loss + 1, !.cur = cur]
  <1>1. /\ r \in Tracker /\ r.day = today /\ r.loss \in {0, mem.loss} /\ r.base = mem.base
        /\ r.judged = mem.judged
        /\ r.ks = mem.ks /\ r.why = mem.why /\ r.asked = mem.asked /\ r.epoch = mem.epoch
        /\ r.written = mem.written /\ r.unwritten = mem.unwritten /\ r.seen = mem.seen
    BY <1>0, RolledTracker
  <1>2. Recorded(read) = Peaked(Resolved(m))
    BY DEF Recorded
  <1> HIDE DEF r
  <1>3. /\ r.loss + 1 \in Units /\ r.loss + 1 <= mem.loss + 1 /\ cur \in Levels
    <2>1. mem.loss \in Nat /\ down \in Nat /\ MaxDown \in Nat /\ r.cur \in Levels
      BY <1>0, <1>1, BoundAssumption DEF Tracker, Units
    <2> QED BY <1>0, <1>1, <2>1 DEF Levels, Units
  <1> HIDE DEF cur
  <1>4. /\ m \in Tracker /\ m.day = today /\ m.loss <= mem.loss + 1 /\ m.base = mem.base
        /\ m.judged = mem.judged
        /\ m.ks = mem.ks /\ m.why = mem.why /\ m.asked = mem.asked /\ m.epoch = mem.epoch
        /\ m.written = mem.written /\ m.unwritten = mem.unwritten /\ m.seen = mem.seen
    <2>1. m \in Tracker
      BY <1>1, <1>3 DEF Tracker
    <2> QED BY <1>1, <1>3, <2>1 DEF Tracker
  <1> HIDE DEF m
  <1>5. /\ Kin(Resolved(m), m) /\ Resolved(m).judged <= Resolved(m).base
    BY <1>0, <1>4, ResolvedTracker
  <1>6. Resolved(m) \in Tracker
    BY <1>5 DEF Kin
  <1>7. /\ Kin(Recorded(read), Resolved(m)) /\ Recorded(read).judged <= Recorded(read).base
    BY <1>2, <1>5, <1>6, PeakedTracker
  <1> QED BY <1>4, <1>5, <1>7 DEF Kin

\* What the decision under the tracker's lock comes to.
LEMMA RecordLossDoes ==
    ASSUME Inductive, NEW t \in Threads, NEW read \in BOOLEAN, RecordLoss(t, read)
    PROVE  LossEffect(t)
  <1>0. /\ mem \in Tracker /\ today \in Days /\ down \in Units /\ mem.loss <= down
        /\ alarm \in BOOLEAN /\ sold \in BOOLEAN /\ (mem.why = "mdd" => mem.ks)
        /\ events \in 0 .. MaxEvents
    BY DEF Inductive, Typed, MemT, WorldT, GateT, FlattensT, Bounded, Marked
  <1> DEFINE m == Recorded(read)
             why == IF MddBreached(m) THEN "mdd"
                    ELSE IF LossBreached(m, m.base) THEN "loss" ELSE "none"
             ask == why = "mdd" /\ ~m.asked
             h == IF why = "none" THEN m ELSE Halts(m, why)
  <1>1. /\ mem' = [h EXCEPT !.asked = m.asked \/ ask]
        /\ alarm' = (alarm \/ (why # "none" /\ Decides(m, why)))
        /\ asks' = (IF ask THEN asks + 1 ELSE asks) /\ sold' = (sold /\ ~ask)
        /\ down' = down + 1 /\ down < MaxDown
        /\ events' = events \/ (events < MaxEvents /\ events' = events + 1)
    BY DEF RecordLoss, Event
  <1>2. down' = down + 1 /\ down' \in Units /\ events' \in 0 .. MaxEvents
    BY <1>0, <1>1, BoundAssumption DEF Units
  <1>4. /\ m \in Tracker /\ m.day = today /\ m.loss <= mem.loss + 1 /\ m.judged <= m.base
        /\ m.ks = mem.ks /\ m.why = mem.why /\ m.asked = mem.asked /\ m.epoch = mem.epoch
        /\ m.written = mem.written /\ m.unwritten = mem.unwritten /\ m.seen = mem.seen
    BY <1>1, RecordedTracker
  <1>5. /\ why \in {"none", "loss", "mdd"}
        /\ why = "none" => ~MddBreached(m) /\ ~LossBreached(m, m.base)
    OBVIOUS
  <1> HIDE DEF m
  <1>18. why = "none" => ~MddBreached(m) /\ ~LossBreached(m, m.judged)
    <2>1. /\ Share(LimitPct, m.base) <= Share(LimitPct, m.judged)
          /\ Share(LimitPct, m.base) \in Nat /\ Share(LimitPct, m.judged) \in Nat
      BY <1>4, ShareFalls, LimitAssumption DEF Tracker
    <2>2. m.loss \in Nat /\ m.floor \in Nat
      BY <1>4, BoundAssumption DEF Tracker, Units
    <2> QED BY <1>5, <2>1, <2>2 DEF LossBreached
  <1>6. /\ h \in Tracker /\ h.day = today /\ h.loss = m.loss /\ h.base = m.base /\ h.floor = m.floor
        /\ h.cur = m.cur /\ h.judged = m.judged
        /\ h.asked = m.asked /\ h.written = m.written /\ h.unwritten = m.unwritten
        /\ h.seen = m.seen /\ (why # "none" => h.ks) /\ (m.ks => h.ks)
        /\ h.why = "mdd" => mem.why = "mdd" \/ why = "mdd"
        /\ \/ h.epoch = m.epoch + 1 /\ h.ks
           \/ h.epoch = m.epoch /\ h.ks = m.ks
        /\ why = "none" => h = m
    BY <1>4, <1>5, HaltsTracker
  <1>7. why # "none" /\ ~m.ks => Decides(m, why)
    BY DEF Decides
  <1> HIDE DEF why, h
  <1> DEFINE n == [h EXCEPT !.asked = m.asked \/ ask]
  <1>8. m.asked \in BOOLEAN /\ ask \in BOOLEAN /\ (ask => ~mem.asked /\ why = "mdd")
        /\ (why = "mdd" => m.asked \/ ask)
    BY <1>4 DEF Tracker
  <1> HIDE DEF ask
  <1>9. n \in Tracker
    BY <1>6, <1>8 DEF Tracker
  <1>10. /\ n.day = h.day /\ n.loss = h.loss /\ n.base = h.base /\ n.floor = h.floor /\ n.ks = h.ks
         /\ n.cur = h.cur /\ n.judged = h.judged
         /\ n.why = h.why /\ n.epoch = h.epoch /\ n.written = h.written
         /\ n.unwritten = h.unwritten /\ n.seen = h.seen /\ n.asked = (m.asked \/ ask)
    BY <1>6 DEF Tracker
  <1>11. mem' = n
    BY <1>1
  <1> HIDE DEF n
  <1>12. mem'.asked = (mem.asked \/ ask) /\ mem.asked \in BOOLEAN
    BY <1>4, <1>8, <1>10, <1>11
  <1>13. /\ mem'.day = today /\ mem'.loss <= mem.loss + 1 /\ mem'.seen = mem.seen
         /\ mem'.written = mem.written /\ mem'.unwritten = mem.unwritten /\ mem' \in Tracker
         /\ mem'.judged <= mem'.base
    BY <1>4, <1>6, <1>9, <1>10, <1>11
  <1>14. Broken(mem') => mem'.ks
    <2>1. CASE why = "none"
      BY <1>6, <1>10, <1>11, <1>18, <2>1 DEF Broken, LossBreached, MddBreached
    <2>2. CASE why # "none"
      BY <1>6, <1>10, <1>11, <2>2
    <2> QED BY <2>1, <2>2
  <1>15. /\ mem.ks => mem'.ks
         /\ \/ mem'.epoch = mem.epoch + 1 /\ mem'.ks
            \/ mem'.epoch = mem.epoch /\ mem'.ks = mem.ks
    BY <1>4, <1>6, <1>10, <1>11
  <1>16. /\ ~mem.ks /\ mem'.ks => alarm'
         /\ alarm => alarm'
         /\ alarm' => alarm \/ mem'.ks
    BY <1>1, <1>4, <1>5, <1>6, <1>7, <1>10, <1>11
  <1>17. mem'.why = "mdd" => mem'.ks /\ (mem.why = "mdd" \/ mem'.asked)
    BY <1>0, <1>5, <1>6, <1>8, <1>10, <1>11, <1>12, <1>15
  <1>19. \/ asks' = asks /\ sold' = sold /\ mem'.asked = mem.asked
         \/ asks' = asks + 1 /\ ~sold' /\ ~mem.asked /\ mem'.asked
    BY <1>0, <1>1, <1>8, <1>12
  <1>20. UNCHANGED today
    BY DEF RecordLoss
  <1> QED BY <1>2, <1>13, <1>14, <1>15, <1>16, <1>17, <1>19, <1>20 DEF LossEffect

\* A fill halts before its write starts.
LEMMA RecordLossKeeps ==
    ASSUME Inductive, NEW t \in Threads, NEW read \in BOOLEAN, RecordLoss(t, read)
    PROVE  Inductive'
  <1>0. /\ Typed /\ Bounded /\ Decided /\ Quiet /\ Baselined /\ Marked /\ Gated /\ Once
        /\ LossEffect(t)
    BY RecordLossDoes DEF Inductive
  <1>1. /\ mem \in Tracker /\ rows \in [Days -> Row] /\ th \in [Threads -> Thread]
        /\ down \in Nat /\ alarm \in BOOLEAN /\ sold \in BOOLEAN /\ asks \in Nat
        /\ redis \in [Days -> Units] /\ today \in Nat
    BY <1>0, BoundAssumption
    DEF Typed, MemT, DbT, ThreadsT, WorldT, GateT, FlattensT, Units, Days
  <1>2. /\ up = "running" /\ th[t].at = "idle" /\ Goto(t, "persist")
        /\ UNCHANGED <<up, today, rows, redis, releases, kept, gate, late, carry>>
    BY DEF RecordLoss, db
  <1>3. /\ th' \in [Threads -> Thread] /\ th'[t].at = "persist" /\ th'[t].again = th[t].again
        /\ th'[t].snap = th[t].snap /\ th'[t].ks = th[t].ks /\ th'[t].why = th[t].why
        /\ \A u \in Threads \ {t} : th'[u] = th[u]
    BY <1>1, <1>2, GotoThread
  <1>4. Typed'
    <2>1. WorldT' /\ MemT' /\ ThreadsT' /\ GateT' /\ FlattensT'
      <3>1. alarm' \in BOOLEAN /\ sold' \in BOOLEAN
        BY DEF RecordLoss
      <3> QED BY <1>0, <1>1, <1>2, <1>3, <3>1
          DEF LossEffect, Typed, WorldT, MemT, ThreadsT, GateT, FlattensT
    <2>2. DbT'
      BY <1>0, <1>2 DEF Typed, DbT
    <2> QED BY <2>1, <2>2 DEF Typed
  <1>5. Bounded'
    <2>1. \A d \in Days : rows[d].loss \in Nat /\ redis[d] \in Nat
      BY <1>1, BoundAssumption DEF Row, Units
    <2>2. \A u \in Threads : th[u].snap.loss \in Nat
      BY <1>1, BoundAssumption DEF Thread, Snapshot, Units
    <2>3. mem.loss \in Nat /\ mem'.loss \in Nat
      BY <1>0, <1>1, BoundAssumption DEF LossEffect, Tracker, Units
    <2>4. mem'.loss <= down' /\ mem'.day <= today'
      BY <1>0, <1>1, <1>2, <2>3 DEF LossEffect, Bounded
    <2>5. \A d \in Days : rows'[d].loss <= down' /\ redis'[d] <= down'
      BY <1>0, <1>1, <1>2, <2>1 DEF LossEffect, Bounded
    <2>6. \A u \in Threads : th'[u].snap.loss <= down' /\ (th'[u].at = "idle" => ~th'[u].again)
      BY <1>0, <1>1, <1>3, <2>2 DEF LossEffect, Bounded
    <2> QED BY <1>0, <1>2, <2>4, <2>5, <2>6 DEF LossEffect, Bounded
  <1>6. Decided'
    <2>1. \A u \in Threads : th[u].snap.epoch \in Nat
      BY <1>1 DEF Thread, Snapshot
    <2>2. mem.epoch \in Nat /\ mem.written \in Nat
      BY <1>1 DEF Tracker
    <2>3. \A u \in Threads : Carries(u)'
      BY <1>0, <1>3, <2>1, <2>2 DEF LossEffect, Decided, Carries
    <2> QED BY <1>0, <1>2, <2>2, <2>3 DEF LossEffect, Decided
  <1>7. Quiet'
    BY <1>2 DEF Quiet
  <1>8. Baselined'
    <2>1. Broken(mem)' = Broken(mem')
      BY <1>2 DEF Broken, LossBreached, MddBreached
    <2>2. ~Unheard'
      BY <1>0, <2>1 DEF LossEffect, Unheard
    <2> QED BY <2>2 DEF Baselined
  <1>9. Marked'
    BY <1>0, <1>2, <1>3 DEF LossEffect, Marked
  <1>10. Gated'
    <2>1. Shutting => Shutting'
      BY <1>0, <1>2, <1>3 DEF Shutting, LossEffect
    <2>2. mem'.ks /\ ~mem.ks => Shutting'
      BY <1>0 DEF Shutting, LossEffect
    <2> QED BY <1>0, <1>2, <2>1, <2>2 DEF LossEffect, Gated
  <1>11. Once'
    BY <1>0, <1>1, <1>2, <1>3 DEF LossEffect, Once, Falling
  <1> QED BY <1>4, <1>5, <1>6, <1>7, <1>8, <1>9, <1>10, <1>11 DEF Inductive

\* A fill the day's loss does not hear of.
LEMMA SkipLossKeeps ==
    ASSUME Inductive, SkipLoss
    PROVE  Inductive'
  <1>0. Known
    BY Knows
  <1>1. /\ down' = down + 1 /\ down < MaxDown
        /\ UNCHANGED <<up, today, mem, rows, redis, releases, kept, gate, alarm, asks, late, sold,
                        th, carry, events>>
    BY DEF SkipLoss, db, flattens
  <1>2. /\ down' \in Units /\ down' \in Nat /\ down \in Nat /\ down <= down'
    <2>1. down \in Units /\ MaxDown \in Nat
      BY <1>0, BoundAssumption DEF Known, Typed, WorldT
    <2> QED BY <1>1, <2>1 DEF Units
  <1>3. Typed'
    BY <1>0, <1>1, <1>2 DEF Known, Typed, WorldT, MemT, ThreadsT, GateT, FlattensT, DbT
  <1>4. Bounded'
    <2>1. mem.loss <= down' /\ \A d \in Days : rows[d].loss <= down' /\ redis[d] <= down'
      BY <1>0, <1>2 DEF Known, Bounded
    <2>2. \A t \in Threads : th[t].snap.loss <= down'
      BY <1>0, <1>2 DEF Known, Bounded
    <2> QED BY <1>0, <1>1, <2>1, <2>2 DEF Known, Bounded
  <1>5. Decided' /\ Quiet' /\ Marked'
    BY <1>0, <1>1 DEF Known, Decided, Carries, Quiet, Marked
  <1>6. Halted' = Halted /\ Unheard' = Unheard /\ Shutting' = Shutting /\ Falling' = Falling
    BY <1>1 DEF Halted, Unheard, Broken, LossBreached, MddBreached, Shutting, Falling
  <1> HIDE DEF Halted, Unheard, Shutting, Falling
  <1>7. Baselined' /\ Gated' /\ Once'
    BY <1>0, <1>1, <1>6 DEF Known, Baselined, Gated, Once
  <1> QED BY <1>3, <1>4, <1>5, <1>7 DEF Inductive

\* A write asserts what the tracker decided since the last one.
LEMMA TakeSnapshotKeeps ==
    ASSUME Inductive, NEW t \in Threads, TakeSnapshot(t)
    PROVE  Inductive'
  <1>0. Known
    BY Knows
  <1> DEFINE m == Rolled(mem)
             n == [day |-> today, loss |-> m.loss, base |-> m.base, ks |-> m.ks, why |-> m.why,
                   epoch |-> m.epoch, asserting |-> m.epoch # m.written]
  <1>1. /\ m \in Tracker /\ m.day = today /\ m.loss \in {0, mem.loss}
        /\ mem.day = today => m = mem
        /\ mem.day # today => m.loss = 0
        /\ m.base = mem.base
        /\ m.cur = mem.cur /\ m.judged = mem.judged
        /\ m.ks = mem.ks /\ m.why = mem.why /\ m.asked = mem.asked
        /\ m.epoch = mem.epoch /\ m.written = mem.written /\ m.unwritten = mem.unwritten
        /\ m.seen = mem.seen
    BY <1>0, RolledTracker DEF Known
  <1>2. /\ mem' = m /\ th[t].at \in {"persist", "again"}
        /\ redis' = redis \/ redis' = [redis EXCEPT ![mem.day] = mem.loss]
        /\ events' = events \/ (events < MaxEvents /\ events' = events + 1)
        /\ UNCHANGED <<up, today, down, rows, releases, kept, gate, alarm, asks, late, sold, carry>>
    BY DEF TakeSnapshot, Event, flattens
  <1>3. /\ n \in Snapshot /\ n.loss = m.loss /\ n.ks = m.ks /\ n.why = m.why /\ n.epoch = m.epoch
        /\ n.asserting = (m.epoch # m.written)
    <2> HIDE DEF m
    <2> QED BY <1>0, <1>1 DEF Known, Snapshot, Tracker
  <1>4. th' = [th EXCEPT ![t].at = "commit", ![t].round = IF th[t].at = "again" THEN 2 ELSE 1,
                         ![t].snap = n]
    BY DEF TakeSnapshot
  <1> HIDE DEF m, n
  <1>5. /\ th' \in [Threads -> Thread] /\ th'[t].at = "commit" /\ th'[t].again = th[t].again
        /\ th'[t].snap = n /\ th'[t].ks = th[t].ks /\ th'[t].why = th[t].why
        /\ \A u \in Threads \ {t} : th'[u] = th[u]
    <2> DEFINE round == IF th[t].at = "again" THEN 2 ELSE 1
               x == [th[t] EXCEPT !.at = "commit", !.round = round, !.snap = n]
    <2>1. round \in {1, 2}
      OBVIOUS
    <2>2. th[t] \in Thread
      BY <1>0 DEF Known
    <2>3. th' = [th EXCEPT ![t] = x]
      BY <1>0, <1>4 DEF Known
    <2> HIDE DEF round
    <2>4. x \in Thread
      BY <1>3, <2>1, <2>2 DEF Thread
    <2>5. /\ x.at = "commit" /\ x.again = th[t].again /\ x.snap = n /\ x.ks = th[t].ks
          /\ x.why = th[t].why
      BY <2>2 DEF Thread
    <2> HIDE DEF x
    <2> QED BY <1>0, <2>3, <2>4, <2>5 DEF Known
  <1>6. Typed'
    <2>1. WorldT' /\ MemT' /\ ThreadsT' /\ GateT' /\ FlattensT'
      BY <1>0, <1>1, <1>2, <1>5, BoundAssumption
      DEF Known, Typed, WorldT, MemT, ThreadsT, GateT, FlattensT
    <2>2. redis' \in [Days -> Units]
      BY <1>0, <1>2 DEF Known, Tracker
    <2>3. DbT'
      BY <1>0, <1>2, <2>2 DEF Known, Typed, DbT
    <2> QED BY <2>1, <2>3 DEF Typed
  <1>7. Bounded'
    <2>1. /\ mem'.loss <= down /\ mem'.day = today /\ mem'.seen = mem.seen
          /\ mem'.judged <= mem'.base
      BY <1>0, <1>1, <1>2 DEF Known, Bounded
    <2>2. \A d \in Days : redis'[d] <= down
      BY <1>0, <1>2 DEF Known, Bounded
    <2>3. \A u \in Threads : th'[u].snap.loss <= down /\ (th'[u].at = "idle" => ~th'[u].again)
      BY <1>0, <1>1, <1>3, <1>5 DEF Known, Bounded
    <2> QED BY <1>0, <1>2, <2>1, <2>2, <2>3 DEF Known, Bounded
  <1>8. Decided'
    <2>1. mem'.epoch = mem.epoch /\ mem'.written = mem.written /\ mem'.ks = mem.ks
      BY <1>1, <1>2
    <2>2. mem.epoch # mem.written => mem.ks
      BY <1>0 DEF Known, Decided
    <2>6. /\ th'[t].snap.ks = mem.ks /\ th'[t].snap.epoch = mem.epoch
          /\ th'[t].snap.asserting <=> mem.epoch # mem.written
      BY <1>1, <1>3, <1>5
    <2>7. mem.epoch \in Nat
      BY <1>0 DEF Known
    <2>8. mem.epoch <= mem.epoch
      BY <2>7
    <2>3. Carries(t)'
      BY <1>5, <2>1, <2>2, <2>6, <2>8 DEF Carries
    <2>4. ASSUME NEW u \in Threads \ {t} PROVE Carries(u)'
      BY <1>0, <1>5, <2>1 DEF Known, Decided, Carries
    <2>5. \A u \in Threads : Carries(u)'
      BY <2>3, <2>4
    <2> QED BY <1>0, <1>2, <2>1, <2>5 DEF Known, Decided
  <1>9. Quiet'
    <2>1. up # "down"
      BY <1>0, <1>2 DEF Known, Quiet, IdleThread
    <2> QED BY <1>0, <1>2, <1>5, <2>1 DEF Known, Quiet
  <1>10. Baselined'
    <2>1. Unheard' => Unheard
      <3>1. Broken(mem)' = Broken(mem')
        BY <1>2 DEF Broken, LossBreached, MddBreached
      <3>2. Broken(mem') => Broken(mem)
        BY <1>0, <1>2, RolledBreach DEF Known, m
      <3> QED BY <1>1, <1>2, <3>1, <3>2 DEF Unheard
    <2> HIDE DEF Unheard
    <2> QED BY <1>0, <1>1, <1>2, <1>5, <2>1 DEF Known, Baselined, Halted
  <1>11. Marked' /\ Gated' /\ Once'
    <2>1. Marked'
      BY <1>0, <1>1, <1>2, <1>3, <1>5 DEF Known, Marked
    <2>2. Shutting => Shutting'
      BY <1>0, <1>2, <1>5 DEF Known, Shutting
    <2>3. Gated'
      BY <1>0, <1>1, <1>2, <1>5, <2>2 DEF Known, Gated, Halted
    <2>4. Once'
      BY <1>0, <1>1, <1>2, <1>3, <1>5 DEF Known, Once, Falling
    <2> QED BY <2>1, <2>3, <2>4
  <1> QED BY <1>6, <1>7, <1>8, <1>9, <1>10, <1>11 DEF Inductive

\* Whether a breach is unheard turns on the tracker's numbers alone.
LEMMA UnheardSame ==
    ASSUME UNCHANGED today, mem'.ks = mem.ks, mem'.day = mem.day, mem'.loss = mem.loss,
           mem'.base = mem.base, mem'.cur = mem.cur, mem'.judged = mem.judged,
           mem'.floor = mem.floor
    PROVE  Unheard' = Unheard
  BY DEF Unheard, Broken, LossBreached, MddBreached

\* A write of the row: a halt on it stays, for who decides carries one, or
\* finds no row.
LEMMA CommitStays ==
    ASSUME Inductive, NEW t \in Threads, Commit(t), NEW d \in Days, rows[d].ks
    PROVE  rows'[d].ks
  <1>0. Known
    BY Knows
  <1> DEFINE s == th[t].snap
             own == Own(s)
  <1>1. /\ th[t].at = "commit"
        /\ rows' = [rows EXCEPT ![s.day] =
             [made |-> TRUE, loss |-> s.loss, base |-> s.base,
              ks |-> IF own THEN s.ks ELSE rows[s.day].ks,
              why |-> IF own THEN s.why ELSE rows[s.day].why]]
    BY DEF Commit
  <1>2. s.asserting => s.ks
    BY <1>0, <1>1 DEF Known, Decided, Carries
  <1>3. rows[d].made
    BY <1>0 DEF Known, Decided
  <1>4. s.day = d /\ own => s.ks
    BY <1>2, <1>3 DEF Own
  <1>5. s.day \in Days
    BY <1>0 DEF Known, Snapshot
  <1> HIDE DEF own, s
  <1> QED BY <1>0, <1>1, <1>4, <1>5 DEF Known

\* Every row keeps its halt, and the thread what it read.
LEMMA CommitKeeps ==
    ASSUME Inductive, NEW t \in Threads, Commit(t)
    PROVE  Inductive'
  <1>0. Known
    BY Knows
  <1> DEFINE s == th[t].snap
             own == Own(s)
             row == rows[s.day]
             new == [made |-> TRUE, loss |-> s.loss, base |-> s.base,
                     ks |-> IF own THEN s.ks ELSE row.ks,
                     why |-> IF own THEN s.why ELSE row.why]
             kepts == [NoSnapshot EXCEPT !.epoch = s.epoch]
  <1>1. /\ th[t].at = "commit" /\ rows' = [rows EXCEPT ![s.day] = new]
        /\ th' = [th EXCEPT ![t] = [@ EXCEPT
             !.at = "settle", !.snap = kepts, !.adopt = ~own, !.ks = ~own /\ row.ks,
             !.why = IF own THEN "none" ELSE row.why]]
        /\ UNCHANGED <<up, today, down, mem, redis, releases, kept, gate, alarm, asks, late, sold,
                        carry, events>>
    BY DEF Commit, flattens
  <1>2. s \in Snapshot /\ s.day \in Days /\ row \in Row /\ own \in BOOLEAN
    BY <1>0 DEF Known, Snapshot, Own
  <1>3. /\ new \in Row /\ new.loss = s.loss /\ new.made /\ new.ks = (IF own THEN s.ks ELSE row.ks)
        /\ new.why = (IF own THEN s.why ELSE row.why)
    <2> HIDE DEF s, own, row
    <2> QED BY <1>2 DEF Snapshot, Row
  <1>4. kepts \in Snapshot /\ kepts.loss = 0 /\ kepts.why = "none" /\ kepts.epoch = s.epoch
    <2>1. s.epoch \in Nat /\ 1 \in Days /\ 0 \in Units
      BY <1>2, BoundAssumption DEF Snapshot, Days, Units
    <2> HIDE DEF s
    <2> QED BY <2>1 DEF NoSnapshot, Snapshot, Levels, Reasons
  <1>5. own => s.asserting \/ ~row.made
    BY DEF Own
  <1>6. ~own => ~s.asserting
    BY DEF Own
  <1>7. row.why \in Reasons /\ row.ks \in BOOLEAN
    BY <1>2 DEF Row
  <1> HIDE DEF s, own, row, new, kepts
  <1>8. /\ th' \in [Threads -> Thread] /\ th'[t].at = "settle" /\ th'[t].again = th[t].again
        /\ th'[t].snap = kepts /\ th'[t].adopt = ~own /\ th'[t].ks = (~own /\ row.ks)
        /\ th'[t].why = (IF own THEN "none" ELSE row.why)
        /\ \A u \in Threads \ {t} : th'[u] = th[u]
    <2> DEFINE why == IF own THEN "none" ELSE row.why
               x == [th[t] EXCEPT !.at = "settle", !.snap = kepts, !.adopt = ~own,
                                  !.ks = ~own /\ row.ks, !.why = why]
    <2>1. why \in Reasons
      BY <1>7 DEF Reasons
    <2>2. th[t] \in Thread
      BY <1>0 DEF Known
    <2>3. th' = [th EXCEPT ![t] = x]
      BY <1>0, <1>1 DEF Known
    <2> HIDE DEF why
    <2>4. x \in Thread
      BY <1>2, <1>4, <1>7, <2>1, <2>2 DEF Thread
    <2>5. /\ x.at = "settle" /\ x.again = th[t].again /\ x.snap = kepts /\ x.adopt = ~own
          /\ x.ks = (~own /\ row.ks) /\ x.why = why
      BY <2>2 DEF Thread
    <2> HIDE DEF x
    <2> QED BY <1>0, <2>3, <2>4, <2>5 DEF Known, why
  <1>9. /\ rows' \in [Days -> Row] /\ rows'[s.day] = new
        /\ \A d \in Days \ {s.day} : rows'[d] = rows[d]
    BY <1>0, <1>1, <1>2, <1>3 DEF Known
  <1>10. Halted \subseteq Halted' /\ (row.ks => Halted # {})
    BY <1>2, CommitStays DEF Halted, row
  <1>11. Typed'
    <2>1. WorldT' /\ MemT' /\ ThreadsT' /\ GateT' /\ FlattensT' /\ DbT'
      BY <1>0, <1>1, <1>8, <1>9 DEF Known, Typed, WorldT, MemT, ThreadsT, GateT, FlattensT, DbT
    <2> QED BY <2>1 DEF Typed
  <1>12. Bounded'
    <2>1. \A d \in Days : rows'[d].loss <= down
      BY <1>0, <1>3, <1>9 DEF Known, Bounded, s
    <2>2. \A u \in Threads : th'[u].snap.loss <= down /\ (th'[u].at = "idle" => ~th'[u].again)
      BY <1>0, <1>4, <1>8 DEF Known, Bounded
    <2> QED BY <1>0, <1>1, <2>1, <2>2 DEF Known, Bounded
  <1>13. Decided'
    <2>1. /\ s.asserting => s.ks
          /\ s.epoch <= mem.epoch
          /\ s.epoch = mem.epoch /\ ~s.asserting => mem.written = mem.epoch
      BY <1>0, <1>1 DEF Known, Decided, Carries, s
    <2>4. Carries(t)'
      BY <1>0, <1>1, <1>4, <1>6, <1>8, <2>1 DEF Known, Carries
    <2>5. ASSUME NEW u \in Threads \ {t} PROVE Carries(u)'
      BY <1>0, <1>1, <1>8 DEF Known, Decided, Carries
    <2>2. \A u \in Threads : Carries(u)'
      BY <2>4, <2>5
    <2>3. \A d \in Days : rows'[d].ks => rows'[d].made
      BY <1>0, <1>3, <1>9 DEF Known, Decided
    <2> QED BY <1>0, <1>1, <2>2, <2>3 DEF Known, Decided
  <1>14. Quiet'
    <2>1. up # "down"
      BY <1>0, <1>1 DEF Known, Quiet, IdleThread
    <2> QED BY <1>0, <1>1, <1>8, <2>1 DEF Known, Quiet
  <1>15. Baselined'
    <2>1. Unheard' = Unheard
      BY <1>1, UnheardSame
    <2> HIDE DEF Unheard
    <2> QED BY <1>0, <1>1, <1>8, <1>10, <2>1 DEF Known, Baselined
  <1>16. Marked'
    <2>1. /\ s.why = "mdd" => s.ks
          /\ row.why = "mdd" => row.ks
      BY <1>0, <1>2 DEF Known, Marked, s, row
    <2>2. \A d \in Days : rows'[d].why = "mdd" => rows'[d].ks
      BY <1>0, <1>3, <1>9, <2>1 DEF Known, Marked
    <2>3. \A u \in Threads : /\ th'[u].why = "mdd" => th'[u].ks
                             /\ th'[u].snap.why = "mdd" => th'[u].snap.ks
      BY <1>0, <1>4, <1>8, <2>1 DEF Known, Marked
    <2> QED BY <1>0, <1>1, <2>2, <2>3 DEF Known, Marked
  <1>17. Gated'
    <2>1. Shutting => Shutting'
      BY <1>0, <1>1, <1>8 DEF Known, Shutting
    <2> QED BY <1>0, <1>1, <1>8, <1>10, <2>1 DEF Known, Gated
  <1>18. Once'
    <2>1. Falling' => Falling
      <3>1. s.why = "mdd" \/ row.why = "mdd" => Falling
        BY <1>2 DEF Falling, s, row
      <3> QED BY <1>1, <1>3, <1>4, <1>8, <1>9, <3>1 DEF Falling
    <2> QED BY <1>0, <1>1, <2>1 DEF Known, Once
  <1> QED BY <1>11, <1>12, <1>13, <1>14, <1>15, <1>16, <1>17, <1>18 DEF Inductive

(***************************************************************************)
(* The steps that leave the day, the rows and the loss alone.               *)
(***************************************************************************)

\* A thread stays, or goes where it carries no write and no more than it did.
Lighter ==
    /\ th' \in [Threads -> Thread]
    /\ \A u \in Threads :
          \/ th'[u] = th[u]
          \/ /\ th'[u].at \notin {"commit", "settle"}
             /\ th'[u].at = "idle" => ~th'[u].again
             /\ \/ th'[u].snap = th[u].snap /\ th'[u].ks = th[u].ks /\ th'[u].why = th[u].why
                \/ /\ th'[u].snap.loss = 0 /\ th'[u].snap.why = "none"
                   /\ ~th'[u].ks /\ th'[u].why = "none"

Places == {"idle", "persist", "again", "shut", "release", "note", "audit", "fresh", "reopen"}

\* So a thread that leaves its snapshot behind.
LEMMA DropIsLighter ==
    ASSUME Known, NEW t \in Threads, NEW loc \in Places, Drop(t, loc)
    PROVE  /\ Lighter
           /\ th'[t].at = loc /\ th'[t].again = (loc # "idle" /\ th[t].again)
           /\ ~th'[t].ks
           /\ \A u \in Threads \ {t} : th'[u] = th[u]
  <1>1. NoSnapshot.loss = 0 /\ NoSnapshot.why = "none"
    BY DEF NoSnapshot
  <1>2. th \in [Threads -> Thread] /\ loc \in Places
    BY DEF Known
  <1>3. /\ th' \in [Threads -> Thread]
        /\ th'[t].at = loc /\ th'[t].again = (loc # "idle" /\ th[t].again)
        /\ th'[t].snap = NoSnapshot /\ ~th'[t].ks /\ th'[t].why = "none"
        /\ \A u \in Threads \ {t} : th'[u] = th[u]
    <2>1. loc \in {"idle", "persist", "again", "commit", "settle", "shut", "release",
                   "note", "audit", "fresh", "reopen"}
      BY DEF Places
    <2> QED BY <1>2, <2>1, DropThread
  <1>4. loc \notin {"commit", "settle"}
    BY DEF Places
  <1> QED BY <1>1, <1>3, <1>4 DEF Lighter

\* Of the tracker such a step moves its flag, its baseline and what it has
\* written; of the gate, the alarm and the flattens, anything.
LightStep ==
    /\ Lighter
    /\ UNCHANGED <<up, today, down, rows, redis, releases, carry>> /\ up # "down"
    /\ events' = events \/ (events < MaxEvents /\ events' = events + 1)
    /\ mem' \in Tracker
    /\ mem'.loss = mem.loss /\ mem'.day = mem.day /\ mem'.epoch = mem.epoch
    /\ mem'.judged <= mem'.base
    /\ mem'.written \in {mem.written, mem.epoch} /\ mem'.seen <= releases
    /\ mem'.epoch # mem'.written => mem'.ks
    /\ mem'.why = "mdd" => mem'.ks
    /\ kept' \in Baselines /\ kept'.seen <= releases
    /\ gate' \in Gates /\ alarm' \in BOOLEAN
    /\ asks' \in Nat /\ late' \in BOOLEAN /\ sold' \in BOOLEAN
    /\ up = "booting" => th'[Poll].at # "fresh"

\* The parts of the invariant such a step cannot break.
LEMMA LightStepKeeps ==
    ASSUME Known, LightStep
    PROVE  /\ Typed' /\ Bounded' /\ Decided' /\ Quiet' /\ Marked'
           /\ Falling' => Falling \/ mem'.why = "mdd"
  <1>1. Lighter /\ up' = up /\ up # "down" /\ rows' = rows
    BY DEF LightStep
  <1>2. Typed'
    <2>1. WorldT'
      <3>1. events' \in 0 .. MaxEvents
        BY BoundAssumption DEF LightStep, Known, Typed, WorldT
      <3> QED BY <3>1 DEF LightStep, Known, Typed, WorldT
    <2>2. MemT' /\ ThreadsT' /\ GateT' /\ FlattensT'
      BY DEF LightStep, Lighter, MemT, ThreadsT, GateT, FlattensT
    <2>3. DbT'
      BY DEF LightStep, Known, Typed, DbT
    <2> QED BY <2>1, <2>2, <2>3 DEF Typed
  <1>3. Bounded'
    <2>1. \A u \in Threads : th'[u].snap.loss <= down /\ (th'[u].at = "idle" => ~th'[u].again)
      BY <1>1 DEF Known, Bounded, Lighter
    <2> QED BY <2>1 DEF LightStep, Known, Bounded
  <1>4. Decided'
    <2>1. ASSUME NEW u \in Threads PROVE Carries(u)'
      <3>1. CASE th'[u] = th[u]
        BY <3>1 DEF LightStep, Known, Decided, Carries
      <3>2. CASE th'[u] # th[u]
        BY <1>1, <3>2 DEF Lighter, Carries
      <3> QED BY <3>1, <3>2
    <2>2. mem'.written <= mem'.epoch
      BY DEF LightStep, Known, Decided
    <2> QED BY <2>1, <2>2 DEF LightStep, Known, Decided
  <1>5. Quiet'
    BY <1>1 DEF Quiet, LightStep
  <1>6. Marked'
    <2>1. \A u \in Threads : /\ th'[u].why = "mdd" => th'[u].ks
                             /\ th'[u].snap.why = "mdd" => th'[u].snap.ks
      BY <1>1 DEF Known, Marked, Lighter
    <2> QED BY <1>1, <2>1 DEF LightStep, Known, Marked
  <1>7. Falling' => Falling \/ mem'.why = "mdd"
    BY <1>1 DEF Falling, Lighter
  <1> QED BY <1>2, <1>3, <1>4, <1>5, <1>6, <1>7

\* What one lemma per step has left to show.
LEMMA LightStepInductive ==
    ASSUME Known, LightStep, Baselined', Gated', Once'
    PROVE  Inductive'
  BY LightStepKeeps DEF Inductive

\* Nothing a light step does makes an unheard breach; while there is one, its
\* threads stay clear of a release and of the opening.
LEMMA BaselinedStays ==
    ASSUME Known, LightStep, Unheard' => Unheard,
           up # "down" /\ Unheard /\ Unheard' =>
               /\ ~alarm' /\ ~mem'.unwritten /\ mem'.seen = mem.seen
               /\ \A u \in Threads : th'[u].at \notin {"shut", "release", "note"}
               /\ ~th'[Poll].again /\ th'[Poll].at # "reopen"
               /\ (~gate.open => ~gate'.open) /\ (gate'.open \/ gate'.cause \in {gate.cause, "record", "untrusted"})
               /\ (gate.open => gate'.open \/ gate'.cause # "risk")
               /\ (up # "booting" /\ th'[Poll].at # "idle" =>
                      th[Poll].at # "idle" \/ releases > mem.seen)
    PROVE  Baselined'
  <1>1. UNCHANGED <<up, today, down, rows, releases>> /\ Halted' = Halted
    BY DEF LightStep, Halted
  <1>2. SUFFICES ASSUME up # "down", Unheard, Unheard' PROVE Baselined'
    BY <1>1 DEF Baselined
  <1>3. Baselined
    BY DEF Known
  <1> HIDE DEF Unheard, Halted
  <1> QED BY <1>1, <1>2, <1>3 DEF Baselined

\* A write that failed drops the intent to clear.
LEMMA CommitFailsKeeps ==
    ASSUME Inductive, NEW t \in Threads, CommitFails(t)
    PROVE  Inductive'
  <1>0. Known
    BY Knows
  <1> DEFINE loc == AfterWrite(t, mem)
  <1>1. /\ th[t].at = "commit" /\ Drop(t, loc)
        /\ mem' = mem \/ mem' = [mem EXCEPT !.written = mem.epoch]
        /\ events < MaxEvents /\ events' = events + 1
        /\ UNCHANGED <<up, today, down, rows, redis, releases, kept, gate, alarm, asks, late, sold,
                        carry>>
    BY DEF CommitFails, Event, db, flattens
  <1>2. /\ mem' \in Tracker /\ mem'.written \in {mem.written, mem.epoch}
        /\ mem'.ks = mem.ks /\ mem'.day = mem.day /\ mem'.loss = mem.loss /\ mem'.base = mem.base
        /\ mem'.cur = mem.cur /\ mem'.judged = mem.judged
        /\ mem'.floor = mem.floor /\ mem'.seen = mem.seen /\ mem'.unwritten = mem.unwritten
        /\ mem'.epoch = mem.epoch /\ mem'.why = mem.why /\ mem'.asked = mem.asked
    BY <1>0, <1>1 DEF Known, Tracker
  <1>3. /\ loc \in {"audit", "release", "idle", "reopen", "fresh"}
        /\ loc \in {"fresh", "reopen"} => t = Poll /\ up # "booting"
        /\ loc = "reopen" => th[t].again
        /\ loc = "release" => mem.unwritten
    BY <1>0, AfterWritePlaces DEF Known
  <1> HIDE DEF loc
  <1>4. /\ Lighter /\ th'[t].at = loc /\ th'[t].again = (loc # "idle" /\ th[t].again) /\ ~th'[t].ks
        /\ \A u \in Threads \ {t} : th'[u] = th[u]
    BY <1>0, <1>1, <1>3, DropIsLighter DEF Places
  <1>5. LightStep
    <2>1. up # "down"
      BY <1>0, <1>1 DEF Known, Quiet, IdleThread
    <2>2. mem'.epoch # mem'.written => mem'.ks
      BY <1>0, <1>2 DEF Known, Decided
    <2>3. up = "booting" => th'[Poll].at # "fresh"
      BY <1>0, <1>3, <1>4 DEF Known, Quiet
    <2> QED BY <1>0, <1>1, <1>2, <1>4, <2>1, <2>2, <2>3 DEF LightStep, Known, Bounded, Marked
  <1>6. Unheard' = Unheard
    BY <1>1, <1>2, UnheardSame
  <1>7. Baselined'
    <2>1. Baselined
      BY <1>0 DEF Known
    <2> QED BY <1>0, <1>1, <1>2, <1>3, <1>4, <1>5, <1>6, <2>1, BaselinedStays DEF Known, Baselined
  <1>8. Gated'
    <2>1. Shutting => Shutting'
      BY <1>1, <1>4 DEF Shutting
    <2> QED BY <1>0, <1>1, <1>2, <1>4, <2>1 DEF Known, Gated, Halted
  <1>9. Once'
    BY <1>0, <1>1, <1>2, <1>5, LightStepKeeps DEF Known, Once, Falling
  <1> QED BY <1>0, <1>5, <1>7, <1>8, <1>9, LightStepInductive

\* Where a thread that settles, or has shut the gate, may go next.
OnTheWay(t, loc) ==
    /\ loc \in {"audit", "release", "idle", "reopen", "fresh"}
    /\ loc \in {"fresh", "reopen"} => t = Poll /\ up # "booting"
    /\ loc = "reopen" => th[t].again

\* What the row said is what the tracker says; only a clear accepts a loss.
SettleEffect(t, loc) ==
    LET clears == th[t].adopt /\ mem.epoch = th[t].snap.epoch /\ mem.ks /\ ~th[t].ks
    IN /\ mem' \in Tracker
       /\ mem'.day = mem.day /\ mem'.loss = mem.loss /\ mem'.epoch = mem.epoch
       /\ mem'.judged <= mem'.base
       /\ mem'.seen = mem.seen /\ mem'.written \in {mem.written, mem.epoch}
       /\ mem'.epoch # mem'.written => mem'.ks
       /\ mem'.why = "mdd" => mem'.ks /\ (mem.why = "mdd" \/ th[t].why = "mdd")
       /\ mem'.ks => mem.ks \/ th[t].ks
       /\ mem'.ks /\ ~mem.ks => loc = "shut"
       /\ loc = "shut" => mem'.ks
       /\ loc # "shut" => OnTheWay(t, loc) /\ (loc = "release" => mem'.unwritten)
       /\ clears => Unheard' = FALSE /\ asks' = 0 /\ ~sold' /\ ~mem'.ks
       /\ ~clears => /\ UNCHANGED flattens
                     /\ mem'.asked = mem.asked /\ mem'.unwritten = mem.unwritten
                     /\ Unheard' => Unheard

\* The cases of a settlement: stale, written, adopted, cleared.
LEMMA SettleDoes ==
    ASSUME Inductive, NEW t \in Threads, Settle(t)
    PROVE  \E loc \in Places : SettleEffect(t, loc) /\ Drop(t, loc)
  <1>0. Known
    BY Knows
  <1> DEFINE s == th[t]
             stale == mem.epoch # s.snap.epoch
             adopts == ~stale /\ s.adopt
             took == [mem EXCEPT !.ks = s.ks, !.why = s.why]
             loc == IF adopts /\ Shuts(t) THEN "shut" ELSE AfterWrite(t, mem')
  <1>1. /\ th[t].at = "settle" /\ Drop(t, loc)
        /\ mem' = IF stale THEN mem ELSE IF adopts THEN Adopted(t)
                  ELSE [mem EXCEPT !.written = s.snap.epoch]
        /\ IF adopts /\ mem.ks /\ ~s.ks
           THEN asks' = 0 /\ sold' = FALSE
           ELSE UNCHANGED flattens
        /\ UNCHANGED <<today, down>>
    BY DEF Settle
  <1>2. /\ s \in Thread /\ s.ks \in BOOLEAN /\ s.why \in Reasons /\ mem.ks \in BOOLEAN
        /\ s.why = "mdd" => s.ks
        /\ mem.why = "mdd" => mem.ks
        /\ mem.epoch # mem.written => mem.ks
        /\ adopts => mem.written = mem.epoch
    BY <1>0, <1>1 DEF Known, Thread, Tracker, Marked, Decided, Carries
  <1>3. /\ took \in Tracker /\ took.ks = s.ks /\ took.why = s.why
        /\ took.day = mem.day /\ took.loss = mem.loss /\ took.base = mem.base
        /\ took.cur = mem.cur /\ took.judged = mem.judged
        /\ took.floor = mem.floor /\ took.asked = mem.asked /\ took.epoch = mem.epoch
        /\ took.written = mem.written /\ took.unwritten = mem.unwritten /\ took.seen = mem.seen
    BY <1>0, <1>2 DEF Known, Tracker
  <1>4. Adopted(t) = IF mem.ks /\ ~s.ks THEN Accepted([took EXCEPT !.asked = FALSE]) ELSE took
    BY DEF Adopted
  <1>5. /\ AfterWrite(t, mem') \in {"audit", "release", "idle", "reopen", "fresh"}
        /\ AfterWrite(t, mem') \in {"fresh", "reopen"} => t = Poll /\ up # "booting"
        /\ AfterWrite(t, mem') = "reopen" => th[t].again
        /\ AfterWrite(t, mem') = "release" => mem'.unwritten
    BY <1>0, AfterWritePlaces DEF Known
  <1>6. /\ loc \in Places
        /\ loc # "shut" => OnTheWay(t, loc) /\ (loc = "release" => mem'.unwritten)
        /\ loc = "shut" <=> adopts /\ s.ks /\ ~mem.ks
    BY <1>5 DEF Places, OnTheWay, Shuts
  <1> HIDE DEF loc, took
  <1>7. CASE adopts /\ mem.ks /\ ~s.ks
    <2> DEFINE u == [took EXCEPT !.asked = FALSE]
    <2>1. /\ u \in Tracker /\ u.ks = s.ks /\ u.why = s.why
          /\ u.day = mem.day /\ u.loss = mem.loss /\ u.epoch = mem.epoch
          /\ u.written = mem.written /\ u.seen = mem.seen
      BY <1>3 DEF Tracker
    <2>2. mem' = Accepted(u) /\ ~stale
      BY <1>1, <1>4, <1>7
    <2> HIDE DEF u
    <2>3. /\ mem' \in Tracker /\ mem'.day = mem.day /\ mem'.loss = mem.loss /\ mem'.ks = s.ks
          /\ mem'.why = s.why /\ mem'.epoch = mem.epoch /\ mem'.written = mem.written
          /\ mem'.seen = mem.seen /\ mem'.unwritten
          /\ mem'.judged <= mem'.base /\ ~Broken(mem')
      BY <2>1, <2>2, AcceptedTracker
    <2>4. Unheard' = FALSE
      <3>1. Broken(mem)' = Broken(mem')
        BY <1>1 DEF Broken, LossBreached, MddBreached
      <3> QED BY <2>3, <3>1 DEF Unheard
    <2>5. mem'.epoch # mem'.written => mem'.ks
      BY <1>2, <1>7, <2>3
    <2>6. asks' = 0 /\ ~sold'
      BY <1>1, <1>7
    <2>7. SettleEffect(t, loc)
      BY <1>2, <1>6, <1>7, <2>3, <2>4, <2>5, <2>6 DEF SettleEffect
    <2> QED BY <1>1, <1>6, <2>7
  <1>8. CASE ~(adopts /\ mem.ks /\ ~s.ks)
    <2>1. /\ mem' \in Tracker /\ mem'.day = mem.day /\ mem'.loss = mem.loss
          /\ mem'.base = mem.base /\ mem'.cur = mem.cur /\ mem'.judged = mem.judged
          /\ mem'.floor = mem.floor /\ mem'.asked = mem.asked /\ mem'.epoch = mem.epoch
          /\ mem'.unwritten = mem.unwritten /\ mem'.seen = mem.seen
          /\ mem'.written \in {mem.written, mem.epoch}
          /\ IF adopts THEN mem'.ks = s.ks /\ mem'.why = s.why /\ mem'.written = mem.written
             ELSE mem'.ks = mem.ks /\ mem'.why = mem.why
      <3>1. CASE adopts
        <4>1. mem' = took
          BY <1>1, <1>4, <1>8, <3>1
        <4> QED BY <1>3, <3>1, <4>1
      <3>2. CASE ~adopts
        <4>1. mem' = mem \/ mem' = [mem EXCEPT !.written = mem.epoch]
          BY <1>1, <3>2
        <4> QED BY <1>0, <3>2, <4>1 DEF Known, Tracker
      <3> QED BY <3>1, <3>2
    <2>2. UNCHANGED flattens
      BY <1>1, <1>8
    <2>3. adopts /\ ~s.ks => ~mem.ks
      BY <1>2, <1>8
    <2>4. Unheard' => Unheard
      <3>1. ~mem'.ks => ~mem.ks
        BY <2>1, <2>3
      <3> QED BY <1>1, <2>1, <3>1 DEF Unheard, Broken, LossBreached, MddBreached
    <2>8. mem'.judged <= mem'.base
      BY <1>0, <2>1 DEF Known, Bounded
    <2>5. mem'.epoch # mem'.written => mem'.ks
      <3>1. adopts => mem'.epoch = mem'.written
        BY <1>2, <2>1
      <3>2. ~adopts => mem'.ks = mem.ks
        BY <2>1
      <3> QED BY <1>2, <2>1, <3>1, <3>2
    <2>6. /\ mem'.why = "mdd" => mem'.ks /\ (mem.why = "mdd" \/ s.why = "mdd")
          /\ mem'.ks => mem.ks \/ s.ks
          /\ mem'.ks /\ ~mem.ks => adopts /\ s.ks
          /\ adopts /\ s.ks => mem'.ks
      BY <1>2, <2>1
    <2>7. SettleEffect(t, loc)
      BY <1>6, <1>8, <2>1, <2>2, <2>4, <2>5, <2>6, <2>8 DEF SettleEffect
    <2> QED BY <1>1, <1>6, <2>7
  <1> QED BY <1>7, <1>8

\* A halt adopted goes on to shut the gate.
LEMMA SettleKeeps ==
    ASSUME Inductive, NEW t \in Threads, Settle(t)
    PROVE  Inductive'
  <1>0. Known
    BY Knows
  <1>1. PICK loc \in Places : SettleEffect(t, loc) /\ Drop(t, loc)
    BY SettleDoes
  <1>2. /\ th[t].at = "settle"
        /\ UNCHANGED <<up, today, down, rows, redis, releases, kept, gate, alarm, carry, events>>
    BY DEF Settle, db
  <1>3. /\ Lighter /\ th'[t].at = loc /\ th'[t].again = (loc # "idle" /\ th[t].again) /\ ~th'[t].ks
        /\ \A u \in Threads \ {t} : th'[u] = th[u]
    BY <1>0, <1>1, DropIsLighter
  <1>4. LightStep
    <2>1. up # "down"
      BY <1>0, <1>2 DEF Known, Quiet, IdleThread
    <2>2. up = "booting" => th'[Poll].at # "fresh"
      BY <1>0, <1>1, <1>3 DEF Known, Quiet, SettleEffect, OnTheWay
    <2>3. asks' \in Nat /\ late' \in BOOLEAN /\ sold' \in BOOLEAN
      <3>1. asks' \in {0, asks} /\ sold' \in {FALSE, sold}
        BY DEF Settle, flattens
      <3>2. late' \in {(late \/ asks > 0), late}
        BY DEF Settle, flattens
      <3>3. (late \/ asks > 0) \in BOOLEAN
        OBVIOUS
      <3>4. asks \in Nat /\ late \in BOOLEAN /\ sold \in BOOLEAN
        BY <1>0 DEF Known
      <3>5. asks' \in Nat
        BY <3>1, <3>4
      <3>6. sold' \in BOOLEAN
        BY <3>1, <3>4
      <3>7. late' \in BOOLEAN
        BY <3>2, <3>3, <3>4, Zenon
      <3> QED BY <3>5, <3>6, <3>7
    <2>4. mem'.seen <= releases /\ kept' \in Baselines /\ kept'.seen <= releases
      BY <1>0, <1>1, <1>2 DEF SettleEffect, Known, Bounded
    <2> QED BY <1>0, <1>1, <1>2, <1>3, <2>1, <2>2, <2>3, <2>4 DEF LightStep, Known, SettleEffect
  <1>5. Baselined'
    <2>1. Baselined /\ Poll \in Threads
      BY <1>0 DEF Known
    <2>2. Unheard' => Unheard
      BY <1>1 DEF SettleEffect
    <2>3. Unheard /\ Unheard' => /\ mem'.unwritten = mem.unwritten /\ mem'.seen = mem.seen
                                 /\ loc # "shut"
      BY <1>1 DEF SettleEffect, Unheard
    <2>4. loc # "shut" =>
            /\ loc \in {"audit", "release", "idle", "reopen", "fresh"}
            /\ loc = "reopen" => t = Poll /\ th[t].again
            /\ loc = "release" => mem'.unwritten
      BY <1>1 DEF SettleEffect, OnTheWay
    <2>5. up # "down" /\ Unheard /\ Unheard' =>
               /\ ~alarm' /\ ~mem'.unwritten /\ mem'.seen = mem.seen
               /\ \A u \in Threads : th'[u].at \notin {"shut", "release", "note"}
               /\ ~th'[Poll].again /\ th'[Poll].at # "reopen"
               /\ (up # "booting" /\ th'[Poll].at # "idle" =>
                      th[Poll].at # "idle" \/ releases > mem.seen)
      <3> HIDE DEF Unheard
      <3> QED BY <1>2, <1>3, <2>1, <2>3, <2>4 DEF Baselined
    <2> QED BY <1>0, <1>2, <1>4, <2>2, <2>5, BaselinedStays
  <1>6. Gated'
    <2>1. Shutting => Shutting'
      BY <1>2, <1>3 DEF Shutting
    <2>2. mem'.ks /\ ~mem.ks => Shutting'
      BY <1>1, <1>3 DEF Shutting, SettleEffect
    <2>3. mem'.ks => mem.ks \/ th[t].ks
      BY <1>1 DEF SettleEffect
    <2>4. \A u \in Threads : th'[u].at = "settle" /\ th'[u].ks => th[u].at = "settle" /\ th[u].ks
      BY <1>3
    <2> QED BY <1>0, <1>2, <2>1, <2>2, <2>3, <2>4 DEF Known, Gated, Halted
  <1>7. Once'
    <2>1. Falling' => Falling
      BY <1>0, <1>1, <1>4, LightStepKeeps DEF SettleEffect, Falling
    <2> QED BY <1>0, <1>1, <1>2, <2>1 DEF Known, Once, SettleEffect, flattens
  <1> QED BY <1>0, <1>4, <1>5, <1>6, <1>7, LightStepInductive

\* A tracker left as it is.
LEMMA MemRests ==
    ASSUME Known, mem' = mem
    PROVE  /\ mem' \in Tracker
           /\ mem'.loss = mem.loss /\ mem'.day = mem.day /\ mem'.epoch = mem.epoch
           /\ mem'.judged <= mem'.base
           /\ mem'.written \in {mem.written, mem.epoch} /\ mem'.seen <= releases
           /\ mem'.epoch # mem'.written => mem'.ks
           /\ mem'.why = "mdd" => mem'.ks
           /\ kept \in Baselines /\ kept.seen <= releases
           /\ gate \in Gates /\ alarm \in BOOLEAN
           /\ asks \in Nat /\ late \in BOOLEAN /\ sold \in BOOLEAN
  BY DEF Known, Decided, Marked, Bounded

\* The thread that adopted a halt shuts the gate.
LEMMA ShutAdoptedKeeps ==
    ASSUME Inductive, NEW t \in Threads, ShutAdopted(t)
    PROVE  Inductive'
  <1>0. Known
    BY Knows
  <1> DEFINE loc == AfterWrite(t, mem)
  <1>1. /\ th[t].at = "shut" /\ Drop(t, loc) /\ gate' = Disabled(gate, "risk") /\ mem' = mem
        /\ UNCHANGED <<up, today, down, rows, redis, releases, kept, alarm, asks, late, sold,
                        carry, events>>
    BY DEF ShutAdopted, db, flattens
  <1>2. /\ loc \in {"audit", "release", "idle", "reopen", "fresh"}
        /\ loc \in {"fresh", "reopen"} => t = Poll /\ up # "booting"
    BY <1>0, AfterWritePlaces DEF Known
  <1> HIDE DEF loc
  <1>3. /\ Lighter /\ th'[t].at = loc /\ ~th'[t].ks
        /\ \A u \in Threads \ {t} : th'[u] = th[u]
    BY <1>0, <1>1, <1>2, DropIsLighter DEF Places
  <1>4. gate' \in Gates /\ ~gate'.open
    BY <1>0, <1>1, DisabledGate DEF Known, Causes
  <1>5. up # "down"
    BY <1>0, <1>1 DEF Known, Quiet, IdleThread
  <1>6. LightStep
    <2>1. up = "booting" => th'[Poll].at # "fresh"
      BY <1>0, <1>2, <1>3 DEF Known, Quiet
    <2> QED BY <1>0, <1>1, <1>3, <1>4, <1>5, <2>1, MemRests DEF LightStep
  <1>7. Baselined'
    <2>1. ~Unheard
      BY <1>0, <1>1, <1>5 DEF Known, Baselined
    <2>2. Unheard' = Unheard
      BY <1>1, UnheardSame
    <2> QED BY <2>1, <2>2 DEF Baselined
  <1>8. Gated'
    BY <1>0, <1>1, <1>3, <1>4 DEF Known, Gated, Halted
  <1>9. Once'
    BY <1>0, <1>1, <1>6, LightStepKeeps DEF Known, Once, Falling
  <1> QED BY <1>0, <1>6, <1>7, <1>8, <1>9, LightStepInductive

\* The alarm of a decision shuts the gate.
LEMMA AlarmKeeps ==
    ASSUME Inductive, Alarm
    PROVE  Inductive'
  <1>0. Known
    BY Knows
  <1>1. /\ alarm /\ alarm' = FALSE /\ gate' = Disabled(gate, "risk") /\ mem' = mem /\ th' = th
        /\ UNCHANGED <<up, today, down, rows, redis, releases, kept, asks, late, sold,
                        carry, events>>
    BY DEF Alarm, db, flattens
  <1>2. gate' \in Gates /\ ~gate'.open
    BY <1>0, <1>1, DisabledGate DEF Known, Causes
  <1>3. up # "down"
    BY <1>0, <1>1 DEF Known, Quiet
  <1>4. LightStep
    <2>1. Lighter
      BY <1>0, <1>1 DEF Known, Lighter
    <2> QED BY <1>0, <1>1, <1>2, <1>3, <2>1, MemRests DEF LightStep, Known, Quiet
  <1>5. Baselined'
    <2>1. ~Unheard
      BY <1>0, <1>1, <1>3 DEF Known, Baselined
    <2>2. Unheard' = Unheard
      BY <1>1, UnheardSame
    <2> QED BY <2>1, <2>2 DEF Baselined
  <1>6. Gated'
    BY <1>0, <1>1, <1>2 DEF Known, Gated, Halted
  <1>7. Once'
    BY <1>0, <1>1, <1>4, LightStepKeeps DEF Known, Once, Falling
  <1> QED BY <1>0, <1>4, <1>5, <1>6, <1>7, LightStepInductive

\* A fill that could not be recorded shuts it for another reason than risk.
LEMMA LatchKeeps ==
    ASSUME Inductive, Latch
    PROVE  Inductive'
  <1>0. Known
    BY Knows
  <1>1. /\ up = "running" /\ mem' = mem /\ th' = th /\ events < MaxEvents /\ events' = events + 1
        /\ gate' = [gate EXCEPT !.open = FALSE, !.latched = TRUE,
                                !.cause = IF gate.cause = "untrusted" THEN gate.cause ELSE "record"]
        /\ UNCHANGED <<up, today, down, rows, redis, releases, kept, alarm, asks, late, sold, carry>>
    BY <1>0 DEF Latch, Event, db, flattens, Known, Gates
  <1>2. gate' \in Gates /\ ~gate'.open /\ gate'.cause \in {"untrusted", "record"}
    BY <1>0, <1>1 DEF Known, Gates, Causes
  <1>4. LightStep
    <2>1. Lighter
      BY <1>0, <1>1 DEF Known, Lighter
    <2> QED BY <1>0, <1>1, <1>2, <2>1, MemRests DEF LightStep
  <1>5. Baselined'
    <2>1. Unheard' = Unheard
      BY <1>1, UnheardSame
    <2>2. Baselined
      BY <1>0 DEF Known
    <2> QED BY <1>1, <1>2, <2>1, <2>2 DEF Baselined
  <1>6. Gated'
    BY <1>0, <1>1, <1>2 DEF Known, Gated, Halted
  <1>7. Once'
    BY <1>0, <1>1, <1>4, LightStepKeeps DEF Known, Once, Falling
  <1> QED BY <1>0, <1>4, <1>5, <1>6, <1>7, LightStepInductive

\* A thread takes the release that waits to be written.
LEMMA TakeReleaseKeeps ==
    ASSUME Inductive, NEW t \in Threads, TakeRelease(t)
    PROVE  Inductive'
  <1>0. Known
    BY Knows
  <1> DEFINE loc == IF mem.unwritten THEN "note" ELSE Done(t)
  <1>1. /\ th[t].at = "release" /\ Drop(t, loc) /\ mem' = [mem EXCEPT !.unwritten = FALSE]
        /\ UNCHANGED <<up, today, down, rows, redis, releases, kept, gate, alarm, asks, late, sold,
                        carry, events>>
    BY DEF TakeRelease, db, flattens
  <1>2. /\ loc \in {"note", "idle", "reopen", "fresh"}
        /\ loc \in {"fresh", "reopen"} => t = Poll /\ up # "booting"
    BY <1>0, AfterWritePlaces DEF Known
  <1> HIDE DEF loc
  <1>3. /\ Lighter /\ th'[t].at = loc /\ ~th'[t].ks
        /\ \A u \in Threads \ {t} : th'[u] = th[u]
    BY <1>0, <1>1, <1>2, DropIsLighter DEF Places
  <1>4. /\ mem' \in Tracker /\ mem'.ks = mem.ks /\ mem'.day = mem.day /\ mem'.loss = mem.loss
        /\ mem'.base = mem.base
        /\ mem'.cur = mem.cur
        /\ mem'.judged = mem.judged /\ mem'.floor = mem.floor /\ mem'.seen = mem.seen
        /\ mem'.epoch = mem.epoch /\ mem'.written = mem.written /\ mem'.why = mem.why
        /\ mem'.asked = mem.asked
    BY <1>0, <1>1 DEF Known, Tracker
  <1>5. up # "down"
    BY <1>0, <1>1 DEF Known, Quiet, IdleThread
  <1>6. LightStep
    <2>1. up = "booting" => th'[Poll].at # "fresh"
      BY <1>0, <1>2, <1>3 DEF Known, Quiet
    <2> QED BY <1>0, <1>1, <1>3, <1>4, <1>5, <2>1 DEF LightStep, Known, Bounded, Decided, Marked
  <1>7. Baselined'
    <2>1. ~Unheard
      BY <1>0, <1>1, <1>5 DEF Known, Baselined
    <2>2. Unheard' = Unheard
      BY <1>1, <1>4, UnheardSame
    <2> QED BY <2>1, <2>2 DEF Baselined
  <1>8. Gated'
    <2>1. Shutting => Shutting'
      BY <1>1, <1>3 DEF Shutting
    <2> QED BY <1>0, <1>1, <1>3, <1>4, <2>1 DEF Known, Gated, Halted
  <1>9. Once'
    BY <1>0, <1>1, <1>4, <1>6, LightStepKeeps DEF Known, Once, Falling
  <1> QED BY <1>0, <1>6, <1>7, <1>8, <1>9, LightStepInductive

\* It notes which release it was.
LEMMA NoteReleaseKeeps ==
    ASSUME Inductive, NEW t \in Threads, NoteRelease(t)
    PROVE  Inductive'
  <1>0. Known
    BY Knows
  <1> DEFINE x == [th[t] EXCEPT !.at = "again", !.round = 2]
  <1>1. /\ th[t].at = "note" /\ mem' = [mem EXCEPT !.seen = releases]
        /\ th' = [th EXCEPT ![t].at = "again", ![t].round = 2]
        /\ UNCHANGED <<up, today, down, rows, redis, releases, kept, gate, alarm, asks, late, sold,
                        carry, events>>
    BY DEF NoteRelease, db, flattens
  <1>2. th' = [th EXCEPT ![t] = x] /\ th[t] \in Thread
    BY <1>0, <1>1 DEF Known
  <1>3. /\ x \in Thread /\ x.at = "again" /\ x.snap = th[t].snap /\ x.ks = th[t].ks
        /\ x.why = th[t].why
    BY <1>2 DEF Thread
  <1> HIDE DEF x
  <1>4. th' \in [Threads -> Thread] /\ th'[t] = x /\ \A u \in Threads \ {t} : th'[u] = th[u]
    BY <1>0, <1>2, <1>3 DEF Known
  <1>5. /\ mem' \in Tracker /\ mem'.ks = mem.ks /\ mem'.day = mem.day /\ mem'.loss = mem.loss
        /\ mem'.base = mem.base
        /\ mem'.cur = mem.cur
        /\ mem'.judged = mem.judged /\ mem'.floor = mem.floor /\ mem'.seen = releases
        /\ mem'.epoch = mem.epoch /\ mem'.written = mem.written /\ mem'.why = mem.why
        /\ mem'.asked = mem.asked
    BY <1>0, <1>1 DEF Known, Tracker
  <1>6. up # "down"
    BY <1>0, <1>1 DEF Known, Quiet, IdleThread
  <1>7. LightStep
    <2>1. Lighter
      BY <1>3, <1>4 DEF Lighter
    <2>2. up = "booting" => th'[Poll].at # "fresh"
      BY <1>0, <1>3, <1>4 DEF Known, Quiet
    <2> QED BY <1>0, <1>1, <1>5, <1>6, <2>1, <2>2 DEF LightStep, Known, Bounded, Decided, Marked
  <1>8. Baselined'
    <2>1. ~Unheard
      BY <1>0, <1>1, <1>6 DEF Known, Baselined
    <2>2. Unheard' = Unheard
      BY <1>1, <1>5, UnheardSame
    <2> QED BY <2>1, <2>2 DEF Baselined
  <1>9. Gated'
    <2>1. Shutting => Shutting'
      BY <1>1, <1>4 DEF Shutting
    <2> QED BY <1>0, <1>1, <1>3, <1>4, <1>5, <2>1 DEF Known, Gated, Halted
  <1>10. Once'
    BY <1>0, <1>1, <1>5, <1>7, LightStepKeeps DEF Known, Once, Falling
  <1> QED BY <1>0, <1>7, <1>8, <1>9, <1>10, LightStepInductive

\* The audit row a restart reads.
LEMMA AuditKeeps ==
    ASSUME Inductive, NEW t \in Threads, Audit(t)
    PROVE  Inductive'
  <1>0. Known
    BY Knows
  <1> DEFINE loc == Done(t)
             new == [day |-> mem.day, floor |-> mem.floor, seen |-> mem.seen]
  <1>1. /\ th[t].at = "audit" /\ Drop(t, loc) /\ mem' = mem
        /\ kept' \in {kept, new}
        /\ events' = events \/ (events < MaxEvents /\ events' = events + 1)
        /\ UNCHANGED <<up, today, down, rows, redis, releases, gate, alarm, asks, late, sold, carry>>
    BY DEF Audit, Event, flattens
  <1>2. /\ loc \in {"idle", "reopen", "fresh"}
        /\ loc \in {"fresh", "reopen"} => t = Poll /\ up # "booting"
        /\ loc = "reopen" => th[t].again
    BY <1>0, AfterWritePlaces DEF Known
  <1> HIDE DEF loc
  <1>3. /\ Lighter /\ th'[t].at = loc /\ ~th'[t].ks /\ th'[t].again = (loc # "idle" /\ th[t].again)
        /\ \A u \in Threads \ {t} : th'[u] = th[u]
    BY <1>0, <1>1, <1>2, DropIsLighter DEF Places
  <1>4. kept' \in Baselines /\ kept'.seen <= releases
    <2>1. mem.day \in Days /\ mem.floor \in Nat /\ mem.seen \in 0 .. MaxReleases
      BY <1>0 DEF Known, Tracker
    <2>2. mem.day \in 0 .. MaxDays
      BY <2>1, BoundAssumption DEF Days
    <2>3. new \in Baselines /\ new.seen = mem.seen
      BY <2>1, <2>2 DEF Baselines
    <2> QED BY <1>0, <1>1, <2>3 DEF Known, Bounded
  <1>5. up # "down"
    BY <1>0, <1>1 DEF Known, Quiet, IdleThread
  <1>6. LightStep
    <2>1. up = "booting" => th'[Poll].at # "fresh"
      BY <1>0, <1>2, <1>3 DEF Known, Quiet
    <2> QED BY <1>0, <1>1, <1>3, <1>4, <1>5, <2>1, MemRests DEF LightStep
  <1>7. Unheard' = Unheard
    BY <1>1, UnheardSame
  <1>8. Baselined'
    <2>1. Baselined /\ Poll \in Threads
      BY <1>0 DEF Known
    <2>2. up # "down" /\ Unheard /\ Unheard' =>
               /\ ~alarm' /\ ~mem'.unwritten /\ mem'.seen = mem.seen
               /\ \A u \in Threads : th'[u].at \notin {"shut", "release", "note"}
               /\ ~th'[Poll].again /\ th'[Poll].at # "reopen"
               /\ (up # "booting" /\ th'[Poll].at # "idle" =>
                      th[Poll].at # "idle" \/ releases > mem.seen)
      <3> HIDE DEF Unheard
      <3> QED BY <1>1, <1>2, <1>3, <2>1 DEF Baselined
    <2> QED BY <1>0, <1>1, <1>6, <1>7, <2>2, BaselinedStays
  <1>9. Gated'
    <2>1. Shutting => Shutting'
      BY <1>1, <1>3 DEF Shutting
    <2> QED BY <1>0, <1>1, <1>3, <2>1 DEF Known, Gated, Halted
  <1>10. Once'
    BY <1>0, <1>1, <1>6, LightStepKeeps DEF Known, Once, Falling
  <1> QED BY <1>0, <1>6, <1>8, <1>9, <1>10, LightStepInductive

(***************************************************************************)
(* The resume poll, and the liquidation.                                    *)
(***************************************************************************)

\* The poll begins once no row is halted.
LEMMA PollBeginKeeps ==
    ASSUME Inductive, PollBegin
    PROVE  Inductive'
  <1>0. Known
    BY Knows
  <1> DEFINE x == [th[Poll] EXCEPT !.at = "persist", !.again = FALSE]
  <1>1. /\ up = "running" /\ th[Poll].at = "idle" /\ mem' = mem
        /\ gate.cause = "risk" /\ ~gate.open /\ Halted = {}
        /\ th' = [th EXCEPT ![Poll].at = "persist", ![Poll].again = FALSE]
        /\ UNCHANGED <<up, today, down, rows, redis, releases, kept, gate, alarm, asks, late, sold,
                        carry, events>>
    BY DEF PollBegin, db, flattens
  <1>2. th' = [th EXCEPT ![Poll] = x] /\ th[Poll] \in Thread
    BY <1>0, <1>1 DEF Known
  <1>3. /\ x \in Thread /\ x.at = "persist" /\ ~x.again /\ x.snap = th[Poll].snap
        /\ x.ks = th[Poll].ks /\ x.why = th[Poll].why
    BY <1>2 DEF Thread
  <1> HIDE DEF x
  <1>4. /\ th' \in [Threads -> Thread] /\ th'[Poll] = x
        /\ \A u \in Threads \ {Poll} : th'[u] = th[u]
    BY <1>0, <1>2, <1>3 DEF Known
  <1>5. LightStep
    <2>1. Lighter
      BY <1>3, <1>4 DEF Lighter
    <2> QED BY <1>0, <1>1, <2>1, MemRests DEF LightStep
  <1>6. Baselined'
    <2>1. Unheard' = Unheard
      BY <1>1, UnheardSame
    <2>2. Unheard => releases > mem.seen
      BY <1>0, <1>1 DEF Known, Baselined
    <2>3. Baselined /\ Halted' = Halted
      BY <1>0, <1>1 DEF Known, Halted
    <2> HIDE DEF Unheard
    <2> QED BY <1>1, <1>3, <1>4, <2>1, <2>2, <2>3 DEF Baselined
  <1>7. Gated'
    <2>1. Shutting => Shutting'
      BY <1>1, <1>4 DEF Shutting
    <2> QED BY <1>0, <1>1, <1>3, <1>4, <2>1 DEF Known, Gated
  <1>8. Once'
    BY <1>0, <1>1, <1>5, LightStepKeeps DEF Known, Once, Falling
  <1> QED BY <1>0, <1>5, <1>6, <1>7, <1>8, LightStepInductive

\* A release the poll never saw as a cleared flag is accepted.
LEMMA PollFreshKeeps ==
    ASSUME Inductive, PollFresh
    PROVE  Inductive'
  <1>0. Known
    BY Knows
  <1> DEFINE fresh == ~mem.ks /\ releases > mem.seen
             loc == IF mem.ks THEN "idle" ELSE IF fresh THEN "persist" ELSE "reopen"
             x == [IdleThread EXCEPT !.again = fresh, !.at = loc]
  <1>1. /\ th[Poll].at = "fresh" /\ mem' = (IF fresh THEN Accepted(mem) ELSE mem)
        /\ th' = [th EXCEPT ![Poll] = x]
        /\ UNCHANGED <<up, today, down, rows, redis, releases, kept, gate, alarm, asks, late, sold,
                        carry, events>>
    BY DEF PollFresh, db, flattens
  <1>2. /\ x \in Thread /\ x.at = loc /\ x.again = fresh /\ x.snap.loss = 0
        /\ x.snap.why = "none" /\ ~x.ks /\ x.why = "none"
    <2>1. NoSnapshot \in Snapshot /\ NoSnapshot.loss = 0 /\ NoSnapshot.why = "none"
      BY BoundAssumption DEF NoSnapshot, Snapshot, Days, Units, Levels, Reasons
    <2> QED BY <2>1 DEF IdleThread, Thread, Reasons
  <1>3. /\ loc \in {"idle", "persist", "reopen"}
        /\ loc = "idle" => ~fresh
        /\ loc = "reopen" => ~mem.ks /\ ~(releases > mem.seen)
    OBVIOUS
  <1> HIDE DEF x, loc
  <1>4. /\ th' \in [Threads -> Thread] /\ th'[Poll] = x
        /\ \A u \in Threads \ {Poll} : th'[u] = th[u]
    BY <1>0, <1>1, <1>2 DEF Known
  <1>5. /\ mem' \in Tracker /\ mem'.day = mem.day /\ mem'.loss = mem.loss /\ mem'.ks = mem.ks
        /\ mem'.why = mem.why /\ mem'.asked = mem.asked /\ mem'.epoch = mem.epoch
        /\ mem'.written = mem.written /\ mem'.seen = mem.seen
        /\ mem'.judged <= mem'.base /\ (fresh => ~Broken(mem'))
    <2>1. CASE fresh
      BY <1>0, <1>1, <2>1, AcceptedTracker DEF Known
    <2>2. CASE ~fresh
      BY <1>0, <1>1, <2>2 DEF Known, Bounded
    <2> QED BY <2>1, <2>2
  <1>6. up \in {"running", "stopping"}
    <2>1. up # "down" /\ up # "booting"
      BY <1>0, <1>1 DEF Known, Quiet, IdleThread
    <2> QED BY <1>0, <2>1 DEF Known, Typed, WorldT
  <1>7. LightStep
    <2>1. Lighter
      BY <1>2, <1>3, <1>4 DEF Lighter
    <2> QED BY <1>0, <1>1, <1>5, <1>6, <2>1 DEF LightStep, Known, Bounded, Decided, Marked
  <1>8. ~Unheard'
    <2>1. CASE mem.ks
      BY <1>5, <2>1 DEF Unheard
    <2>2. CASE fresh
      <3>1. Broken(mem)' = Broken(mem')
        BY <1>1 DEF Broken, LossBreached, MddBreached
      <3> QED BY <1>5, <2>2, <3>1 DEF Unheard
    <2>3. CASE ~mem.ks /\ ~fresh
      <3>1. ~Unheard
        BY <1>0, <1>1, <1>6, <2>3 DEF Known, Baselined
      <3>2. mem' = mem
        BY <1>1, <2>3
      <3> QED BY <1>1, <3>1, <3>2, UnheardSame
    <2> QED BY <2>1, <2>2, <2>3
  <1>9. Baselined'
    BY <1>8 DEF Baselined
  <1>10. Gated'
    <2>1. Shutting => Shutting'
      BY <1>1, <1>4 DEF Shutting
    <2> QED BY <1>0, <1>1, <1>2, <1>4, <1>5, <2>1 DEF Known, Gated, Halted
  <1>11. Once'
    BY <1>0, <1>1, <1>5, <1>7, LightStepKeeps DEF Known, Once, Falling
  <1> QED BY <1>0, <1>7, <1>9, <1>10, <1>11, LightStepInductive

\* The check and the opening are one.
LEMMA PollReopenKeeps ==
    ASSUME Inductive, PollReopen
    PROVE  Inductive'
  <1>0. Known
    BY Knows
  <1>1. /\ th[Poll].at = "reopen" /\ Drop(Poll, "idle") /\ mem' = mem
        /\ gate' = IF ~mem.ks /\ gate.cause = "risk" /\ ~gate.open
                   THEN [gate EXCEPT !.open = TRUE, !.cause = "none"] ELSE gate
        /\ UNCHANGED <<up, today, down, rows, redis, releases, kept, alarm, asks, late, sold,
                        carry, events>>
    BY DEF PollReopen, db, flattens
  <1>2. /\ gate' \in Gates /\ (mem.ks => gate'.open = gate.open)
    BY <1>0, <1>1 DEF Known, Gates, Causes
  <1>3. /\ Lighter /\ th'[Poll].at = "idle" /\ ~th'[Poll].ks
        /\ \A u \in Threads \ {Poll} : th'[u] = th[u]
    <2>1. "idle" \in Places /\ Poll \in Threads
      BY <1>0 DEF Places, Known
    <2> QED BY <1>0, <1>1, <2>1, DropIsLighter
  <1>4. up # "down"
    BY <1>0, <1>1 DEF Known, Quiet, IdleThread
  <1>5. LightStep
    BY <1>0, <1>1, <1>2, <1>3, <1>4, MemRests DEF LightStep
  <1>6. Baselined'
    <2>1. ~Unheard
      BY <1>0, <1>1, <1>4 DEF Known, Baselined
    <2>2. Unheard' = Unheard
      BY <1>1, UnheardSame
    <2> QED BY <2>1, <2>2 DEF Baselined
  <1>7. Gated'
    <2>1. Shutting => Shutting'
      BY <1>1, <1>3 DEF Shutting
    <2> QED BY <1>0, <1>1, <1>2, <1>3, <2>1 DEF Known, Gated, Halted
  <1>8. Once'
    BY <1>0, <1>1, <1>5, LightStepKeeps DEF Known, Once, Falling
  <1> QED BY <1>0, <1>5, <1>6, <1>7, <1>8, LightStepInductive

\* A flatten sends its sells, or is asked for again.
LEMMA FlattenKeeps ==
    ASSUME Inductive, Flatten
    PROVE  Inductive'
  <1>0. Known
    BY Knows
  <1>1. /\ asks > 0 /\ asks' = asks - 1 /\ th' = th
        /\ \/ sold' = TRUE /\ mem' = mem
           \/ mem' = [mem EXCEPT !.asked = FALSE] /\ sold' = sold
        /\ UNCHANGED <<up, today, down, rows, redis, releases, kept, gate, alarm, late, carry,
                        events>>
    BY DEF Flatten, db
  <1>2. /\ mem' \in Tracker /\ mem'.ks = mem.ks /\ mem'.day = mem.day /\ mem'.loss = mem.loss
        /\ mem'.base = mem.base
        /\ mem'.cur = mem.cur
        /\ mem'.judged = mem.judged /\ mem'.floor = mem.floor /\ mem'.seen = mem.seen
        /\ mem'.epoch = mem.epoch /\ mem'.written = mem.written /\ mem'.why = mem.why
        /\ mem'.unwritten = mem.unwritten
    BY <1>0, <1>1 DEF Known, Tracker
  <1>3. up # "down"
    BY <1>0, <1>1 DEF Known, Quiet
  <1>4. asks' \in Nat /\ sold' \in BOOLEAN
    <2>1. asks \in Nat /\ sold \in BOOLEAN
      BY <1>0 DEF Known
    <2>2. asks' \in Nat
      BY <1>1, <2>1
    <2>3. sold' \in BOOLEAN
      BY <1>1, <2>1, Zenon
    <2> QED BY <2>2, <2>3
  <1>5. LightStep
    <2>1. Lighter
      BY <1>0, <1>1 DEF Known, Lighter
    <2> QED BY <1>0, <1>1, <1>2, <1>3, <1>4, <2>1
        DEF LightStep, Known, Bounded, Decided, Marked, Quiet
  <1>6. Baselined'
    <2>1. Unheard' = Unheard
      BY <1>1, <1>2, UnheardSame
    <2>2. Baselined /\ Halted' = Halted
      BY <1>0, <1>1 DEF Known, Halted
    <2> HIDE DEF Unheard, Halted
    <2> QED BY <1>1, <1>2, <2>1, <2>2 DEF Baselined
  <1>7. Gated'
    BY <1>0, <1>1, <1>2 DEF Known, Gated, Halted, Shutting
  <1>8. Once'
    <2>1. SUFFICES ASSUME ~LateMayFail
                   PROVE  /\ asks' > 0 => mem'.asked /\ ~sold'
                          /\ asks' <= 1
                          /\ up' # "down" /\ sold' /\ Falling' => mem'.asked
      BY DEF Once
    <2>2. mem.asked /\ ~sold /\ asks = 1 /\ asks' = 0
      BY <1>0, <1>1, <2>1 DEF Known, Once
    <2>3. sold' => mem'.asked
      BY <1>1, <2>1, <2>2
    <2> QED BY <1>1, <2>2, <2>3
  <1> QED BY <1>0, <1>5, <1>6, <1>7, <1>8, LightStepInductive

\* A failure that comes after the release asks for another one.
LEMMA FlattenLateKeeps ==
    ASSUME Inductive, FlattenLate
    PROVE  Inductive'
  <1>0. Known
    BY Knows
  <1>1. /\ late /\ late' \in BOOLEAN /\ th' = th
        /\ mem' = mem \/ (LateMayFail /\ mem' = [mem EXCEPT !.asked = FALSE])
        /\ UNCHANGED <<up, today, down, rows, redis, releases, kept, gate, alarm, asks, sold, carry,
                        events>>
    BY DEF FlattenLate, db
  <1>2. /\ mem' \in Tracker /\ mem'.ks = mem.ks /\ mem'.day = mem.day /\ mem'.loss = mem.loss
        /\ mem'.base = mem.base
        /\ mem'.cur = mem.cur
        /\ mem'.judged = mem.judged /\ mem'.floor = mem.floor /\ mem'.seen = mem.seen
        /\ mem'.epoch = mem.epoch /\ mem'.written = mem.written /\ mem'.why = mem.why
        /\ mem'.unwritten = mem.unwritten
    BY <1>0, <1>1 DEF Known, Tracker
  <1>3. up # "down"
    BY <1>0, <1>1 DEF Known, Quiet
  <1>4. LightStep
    <2>1. Lighter
      BY <1>0, <1>1 DEF Known, Lighter
    <2> QED BY <1>0, <1>1, <1>2, <1>3, <2>1 DEF LightStep, Known, Bounded, Decided, Marked, Quiet
  <1>5. Baselined'
    <2>1. Unheard' = Unheard
      BY <1>1, <1>2, UnheardSame
    <2>2. Baselined /\ Halted' = Halted
      BY <1>0, <1>1 DEF Known, Halted
    <2> HIDE DEF Unheard, Halted
    <2> QED BY <1>1, <1>2, <2>1, <2>2 DEF Baselined
  <1>6. Gated'
    BY <1>0, <1>1, <1>2 DEF Known, Gated, Halted, Shutting
  <1>7. Once'
    BY <1>0, <1>1, <1>2, <1>4, LightStepKeeps DEF Known, Once, Falling
  <1> QED BY <1>0, <1>4, <1>5, <1>6, <1>7, LightStepInductive

(***************************************************************************)
(* The other writers of the rows, and the clock.                            *)
(***************************************************************************)

\* Another process halts a row, carries a halt or releases every one of them;
\* the worker learns of none of it yet.
RowStep ==
    /\ UNCHANGED <<up, down, mem, redis, kept, gate, alarm, asks, late, sold, th>>
    /\ today' \in Days /\ today <= today'
    /\ rows' \in [Days -> Row]
    /\ \A d \in Days : /\ rows'[d].loss <= down
                       /\ rows'[d].ks => rows'[d].made
                       /\ rows'[d].why = "mdd" => rows'[d].ks
    /\ releases' \in {releases, releases + 1} /\ releases' \in 0 .. MaxReleases
    /\ carry' \in 0 .. MaxDays /\ events' \in 0 .. MaxEvents
    /\ Halted # {} => \/ Halted' # {}
                      \/ releases' > releases /\ (up = "booting" => BootRelease)
    /\ (\E d \in Days : rows'[d].why = "mdd") => \E d \in Days : rows[d].why = "mdd"

\* Another process's write leaves the invariant.
LEMMA RowStepKeeps ==
    ASSUME Known, RowStep
    PROVE  Inductive'
  <1>1. /\ UNCHANGED <<up, down, mem, redis, kept, gate, alarm, asks, late, sold, th>>
        /\ today' \in Days /\ today' \in Nat /\ today <= today' /\ releases <= releases'
        /\ releases' \in Nat
    BY BoundAssumption DEF RowStep, Known, Days
  <1>2. Typed'
    <2>1. WorldT' /\ MemT' /\ ThreadsT' /\ GateT' /\ FlattensT' /\ DbT'
      BY DEF RowStep, Known, Typed, WorldT, MemT, ThreadsT, GateT, FlattensT, DbT
    <2> QED BY <2>1 DEF Typed
  <1>3. Bounded'
    BY <1>1 DEF RowStep, Known, Bounded
  <1>4. Decided'
    BY <1>1 DEF RowStep, Known, Decided, Carries
  <1>5. Quiet'
    BY <1>1 DEF Known, Quiet
  <1>6. Baselined'
    <2>1. Unheard' => Unheard
      <3>1. mem.day # today => mem.day # today'
        BY <1>1 DEF Known, Bounded
      <3> QED BY <1>1, <3>1 DEF Unheard, Broken, LossBreached, MddBreached
    <2>2. Baselined /\ mem.seen \in Nat /\ mem.seen <= releases /\ releases \in Nat
      BY DEF Known, Bounded
    <2>3. Halted # {} => Halted' # {} \/ releases' > releases
      BY DEF RowStep
    <2>4. Halted # {} => Halted' # {} \/ releases' > mem.seen
      BY <1>1, <2>2, <2>3
    <2>5. releases > mem.seen => releases' > mem.seen
      BY <1>1, <2>2
    <2> HIDE DEF Unheard, Halted
    <2> QED BY <1>1, <2>1, <2>2, <2>4, <2>5 DEF Baselined
  <1>7. Marked'
    BY <1>1 DEF RowStep, Known, Marked
  <1>8. Gated'
    <2>1. Shutting' = Shutting
      BY <1>1 DEF Shutting
    <2>2. ~BootRelease /\ up = "booting" /\ Halted # {} => Halted' # {}
      BY DEF RowStep
    <2> HIDE DEF Shutting, Halted
    <2> QED BY <1>1, <2>1, <2>2 DEF Known, Gated
  <1>9. Once'
    <2>1. Falling' => Falling
      BY <1>1 DEF RowStep, Falling
    <2> HIDE DEF Falling
    <2> QED BY <1>1, <2>1 DEF Known, Once
  <1> QED BY <1>2, <1>3, <1>4, <1>5, <1>6, <1>7, <1>8, <1>9 DEF Inductive

\* What the rows hold while nobody writes them.
LEMMA RowsRest ==
    ASSUME Known
    PROVE  /\ \A d \in Days : /\ rows[d] \in Row /\ rows[d].loss <= down
                              /\ rows[d].ks => rows[d].made
                              /\ rows[d].why = "mdd" => rows[d].ks
           /\ releases \in 0 .. MaxReleases /\ carry \in 0 .. MaxDays /\ events \in 0 .. MaxEvents
           /\ today \in Days
  BY DEF Known, Typed, WorldT, Bounded, Decided, Marked

\* One more event is within the bound.
LEMMA EventCounts == Known /\ Event => events' \in 0 .. MaxEvents
  BY BoundAssumption DEF Known, Typed, WorldT, Event

\* The watchdog halts today's row for a reason of its own.
LEMMA WatchdogHaltKeeps ==
    ASSUME Inductive, WatchdogHalt
    PROVE  Inductive'
  <1>0. Known
    BY Knows
  <1> DEFINE row == rows[today]
             new == [row EXCEPT !.made = TRUE, !.ks = TRUE, !.why = "watchdog"]
  <1>1. /\ Event /\ rows' = [rows EXCEPT ![today] = new]
        /\ UNCHANGED <<up, today, down, mem, redis, releases, kept, gate, alarm, asks, late, sold, th,
                        carry>>
    BY DEF WatchdogHalt, flattens
  <1>2. row \in Row /\ today \in Days /\ today \in Nat
    BY <1>0 DEF Known
  <1>3. new \in Row /\ new.made /\ new.ks /\ new.why = "watchdog" /\ new.loss = row.loss
    BY <1>2 DEF Row, Reasons
  <1>4. rows' \in [Days -> Row] /\ rows'[today] = new /\ \A d \in Days \ {today} : rows'[d] = rows[d]
    <2> HIDE DEF new
    <2> QED BY <1>0, <1>1, <1>2, <1>3 DEF Known
  <1> HIDE DEF new
  <1>5. \A d \in Days : /\ rows'[d].loss <= down
                        /\ rows'[d].ks => rows'[d].made
                        /\ rows'[d].why = "mdd" => rows'[d].ks
                        /\ rows'[d].why = "mdd" => rows[d].why = "mdd"
    BY <1>0, <1>2, <1>3, <1>4, RowsRest
  <1>6. Halted' # {}
    BY <1>2, <1>3, <1>4 DEF Halted
  <1>7. (\E d \in Days : rows'[d].why = "mdd") => \E d \in Days : rows[d].why = "mdd"
    <2>1. ASSUME NEW d \in Days, rows'[d].why = "mdd" PROVE rows[d].why = "mdd"
      BY <1>5, <2>1
    <2> QED BY <2>1
  <1>8. events' \in 0 .. MaxEvents /\ today <= today
    BY <1>0, <1>1, <1>2, EventCounts
  <1>9. RowStep
    BY <1>0, <1>1, <1>2, <1>4, <1>5, <1>6, <1>7, <1>8, RowsRest DEF RowStep
  <1> QED BY <1>0, <1>9, RowStepKeeps

\* A release clears every row, and is a release nobody has seen.
LEMMA ReleaseKeeps ==
    ASSUME Inductive, Release
    PROVE  Inductive'
  <1>0. Known
    BY Knows
  <1>1. /\ releases < MaxReleases /\ releases' = releases + 1 /\ (up = "booting" => BootRelease)
        /\ rows' = [d \in Days |-> [rows[d] EXCEPT !.ks = FALSE, !.why = "none"]]
        /\ UNCHANGED <<up, today, down, mem, redis, kept, gate, alarm, asks, late, sold, th, carry,
                        events>>
    BY DEF Release, flattens
  <1>2. \A d \in Days : [rows[d] EXCEPT !.ks = FALSE, !.why = "none"] \in Row
    BY <1>0 DEF Known, Row, Reasons
  <1>3. \A d \in Days : /\ rows'[d].loss = rows[d].loss /\ ~rows'[d].ks
                        /\ rows'[d].why = "none"
    BY <1>0, <1>1 DEF Known, Row
  <1>4. rows' \in [Days -> Row]
    BY <1>1, <1>2
  <1>5. releases' > releases /\ releases' \in 0 .. MaxReleases
    <2>1. releases \in Nat /\ MaxReleases \in Nat
      BY <1>0, BoundAssumption DEF Known
    <2>2. releases < MaxReleases /\ releases' = releases + 1
      BY <1>1
    <2> QED BY <2>1, <2>2
  <1>6. today <= today
    BY <1>0 DEF Known
  <1>7. RowStep
    BY <1>0, <1>1, <1>3, <1>4, <1>5, <1>6, RowsRest DEF RowStep
  <1> QED BY <1>0, <1>7, RowStepKeeps

\* The 07:01 job reads the newest halted day.
LEMMA CarryReadKeeps ==
    ASSUME Inductive, CarryRead
    PROVE  Inductive'
  <1>0. Known
    BY Knows
  <1>1. /\ carry' \in Days /\ rows' = rows /\ Halted' = Halted
        /\ UNCHANGED <<up, today, down, mem, redis, releases, kept, gate, alarm, asks, late, sold, th,
                        events>>
    BY DEF CarryRead, Halted, db, flattens
  <1>2. carry' \in 0 .. MaxDays /\ today <= today
    BY <1>0, <1>1, BoundAssumption DEF Days, Known
  <1>3. rows' \in [Days -> Row]
    BY <1>0, <1>1 DEF Known
  <1>4. RowStep
    BY <1>0, <1>1, <1>2, <1>3, RowsRest DEF RowStep
  <1> QED BY <1>0, <1>4, RowStepKeeps

\* It carries that day's halt, and its reason, onto today's row.
LEMMA CarryWriteKeeps ==
    ASSUME Inductive, CarryWrite
    PROVE  Inductive'
  <1>0. Known
    BY Knows
  <1> DEFINE row == rows[today]
             base == IF row.made THEN row.base ELSE rows[carry].base
             new == [row EXCEPT !.made = TRUE, !.ks = TRUE, !.why = rows[carry].why, !.base = base]
             takes == rows[carry].ks /\ ~rows[today].ks
  <1>2. row \in Row /\ today \in Days /\ today \in Nat
    BY <1>0 DEF Known
  <1>1. /\ carry # 0 /\ carry' = 0
        /\ rows' = IF takes THEN [rows EXCEPT ![today] = new] ELSE rows
        /\ UNCHANGED <<up, today, down, mem, redis, releases, kept, gate, alarm, asks, late, sold, th,
                        events>>
    <2>1. /\ carry # 0 /\ carry' = 0
          /\ UNCHANGED <<up, today, down, mem, redis, releases, kept, gate, alarm, asks, late, sold,
                          th, events>>
      BY DEF CarryWrite, flattens
    <2>2. rows' = IF takes THEN [rows EXCEPT ![today] = new] ELSE rows
      <3> DEFINE x == [rows[today] EXCEPT !.made = TRUE, !.ks = TRUE, !.why = rows[carry].why,
                         !.base = IF rows[today].made THEN rows[today].base ELSE rows[carry].base]
      <3>1. rows' = IF rows[carry].ks /\ ~rows[today].ks THEN [rows EXCEPT ![today] = x] ELSE rows
        BY DEF CarryWrite
      <3>2. x = new
        BY <1>2 DEF Row
      <3> HIDE DEF x, new
      <3> QED BY <3>1, <3>2
    <2> QED BY <2>1, <2>2
  <1>3. carry \in Days /\ rows[carry] \in Row
    BY <1>0, <1>1, BoundAssumption, RowsRest DEF Days
  <1>4. /\ new \in Row /\ new.made /\ new.ks /\ new.why = rows[carry].why /\ new.loss = row.loss
    <2>1. base \in Levels /\ rows[carry].why \in Reasons
      BY <1>2, <1>3 DEF Row
    <2> HIDE DEF base
    <2> QED BY <1>2, <2>1 DEF Row
  <1> HIDE DEF new, takes
  <1>5. /\ rows' \in [Days -> Row]
        /\ \A d \in Days : rows'[d] = rows[d] \/ (rows'[d] = new /\ d = today)
    <2>1. rows \in [Days -> Row]
      BY <1>0 DEF Known
    <2>2. CASE takes
      BY <1>1, <1>2, <1>4, <2>1, <2>2
    <2>3. CASE ~takes
      BY <1>1, <2>1, <2>3
    <2> QED BY <2>2, <2>3
  <1>6. \A d \in Days : /\ rows'[d].loss <= down
                        /\ rows'[d].ks => rows'[d].made
                        /\ rows'[d].why = "mdd" => rows'[d].ks
                        /\ rows'[d].why = "mdd" => rows[d].why = "mdd" \/ rows[carry].why = "mdd"
                        /\ rows[d].ks => rows'[d].ks
    <2>1. ASSUME NEW d \in Days
          PROVE  /\ rows[d].loss <= down
                 /\ rows[d].ks => rows[d].made
                 /\ rows[d].why = "mdd" => rows[d].ks
      BY <1>0, RowsRest
    <2> QED BY <1>2, <1>4, <1>5, <2>1
  <1>7. Halted # {} => Halted' # {}
    <2>1. ASSUME NEW d \in Days, rows[d].ks PROVE rows'[d].ks
      BY <1>6, <2>1
    <2> QED BY <2>1 DEF Halted
  <1>8. 0 \in 0 .. MaxDays /\ today <= today
    BY <1>0, BoundAssumption DEF Known
  <1>9. (\E d \in Days : rows'[d].why = "mdd") => \E d \in Days : rows[d].why = "mdd"
    <2>1. ASSUME NEW d \in Days, rows'[d].why = "mdd"
          PROVE  rows[d].why = "mdd" \/ rows[carry].why = "mdd"
      BY <1>6, <2>1
    <2> QED BY <1>3, <2>1
  <1>10. RowStep
    BY <1>0, <1>1, <1>5, <1>6, <1>7, <1>8, <1>9, RowsRest DEF RowStep
  <1> QED BY <1>0, <1>10, RowStepKeeps

\* The risk day turns.
LEMMA NewDayKeeps ==
    ASSUME Inductive, NewDay
    PROVE  Inductive'
  <1>0. Known
    BY Knows
  <1>1. /\ today < MaxDays /\ today' = today + 1 /\ rows' = rows /\ Halted' = Halted
        /\ events' = events \/ Event
        /\ UNCHANGED <<up, down, mem, redis, releases, kept, gate, alarm, asks, late, sold, th, carry>>
    BY DEF NewDay, Halted, db, flattens
  <1>2. today' \in Days /\ today <= today'
    BY <1>0, <1>1, BoundAssumption DEF Days, Known
  <1>3. rows' \in [Days -> Row] /\ events' \in 0 .. MaxEvents
    BY <1>0, <1>1, RowsRest, EventCounts DEF Known
  <1>4. RowStep
    BY <1>0, <1>1, <1>2, <1>3, RowsRest DEF RowStep
  <1> QED BY <1>0, <1>4, RowStepKeeps

(***************************************************************************)
(* The worker process.                                                      *)
(***************************************************************************)

\* What a process starts from.
LEMMA FreshTypes ==
    /\ IdleThread \in Thread /\ FreshTracker \in Tracker /\ NoFloor \in Nat
    /\ IdleThread.at = "idle" /\ ~IdleThread.again /\ ~IdleThread.ks /\ IdleThread.why = "none"
    /\ IdleThread.snap.why = "none" /\ IdleThread.snap.loss = 0
    /\ FreshTracker.day = 1 /\ FreshTracker.loss = 0 /\ ~FreshTracker.ks
    /\ FreshTracker.why = "none" /\ FreshTracker.epoch = 0 /\ FreshTracker.written = 0
    /\ FreshTracker.seen = 0 /\ ~FreshTracker.unwritten /\ ~FreshTracker.asked
    /\ FreshTracker.judged = 0 /\ FreshTracker.base = 0 /\ FreshTracker.rebase = 0
  <1>1. /\ NoFloor \in Nat /\ 0 \in Units /\ 1 \in Days /\ MaxReleases \in Nat
        /\ 0 \in 0 .. MaxDays
    BY BoundAssumption DEF NoFloor, Units, Days
  <1>2. NoSnapshot \in Snapshot /\ NoSnapshot.why = "none" /\ NoSnapshot.loss = 0
    BY <1>1 DEF NoSnapshot, Snapshot, Levels, Reasons
  <1>3. IdleThread \in Thread
    BY <1>2 DEF IdleThread, Thread, Reasons
  <1>4. FreshTracker \in Tracker
    BY <1>1 DEF FreshTracker, Tracker, Levels, Reasons
  <1>5. /\ IdleThread.at = "idle" /\ ~IdleThread.again /\ ~IdleThread.ks /\ IdleThread.why = "none"
        /\ IdleThread.snap = NoSnapshot
    BY DEF IdleThread
  <1>6. /\ FreshTracker.day = 1 /\ FreshTracker.loss = 0 /\ ~FreshTracker.ks
        /\ FreshTracker.why = "none" /\ FreshTracker.epoch = 0 /\ FreshTracker.written = 0
        /\ FreshTracker.seen = 0 /\ ~FreshTracker.unwritten /\ ~FreshTracker.asked
        /\ FreshTracker.judged = 0 /\ FreshTracker.base = 0 /\ FreshTracker.rebase = 0
    BY DEF FreshTracker
  <1> QED BY <1>1, <1>2, <1>3, <1>4, <1>5, <1>6

\* The end of the process leaves the rows, the sells and the audit row.
LEMMA CrashKeeps ==
    ASSUME Inductive, Crash
    PROVE  Inductive'
  <1>0. Known
    BY Knows
  <1>1. /\ up' = "down" /\ ~alarm' /\ asks' = 0 /\ ~late' /\ mem' = FreshTracker
        /\ alarm' \in BOOLEAN /\ late' \in BOOLEAN
        /\ th' = [t \in Threads |-> IdleThread]
        /\ gate' = [open |-> FALSE, cause |-> "untrusted", latched |-> FALSE, resume |-> FALSE]
        /\ events' = events \/ Event
        /\ UNCHANGED <<today, down, rows, redis, releases, kept, sold, carry>>
    BY DEF Crash, db
  <1>2. gate' \in Gates /\ ~gate'.open
    BY <1>1 DEF Gates, Causes
  <1>3. events' \in 0 .. MaxEvents
    BY <1>0, <1>1, EventCounts, RowsRest
  <1>4. \A t \in Threads : /\ th'[t] = IdleThread /\ th'[t].at = "idle" /\ ~th'[t].again
                           /\ ~th'[t].ks /\ th'[t].why = "none" /\ th'[t].snap.why = "none"
                           /\ th'[t].snap.loss = 0
    BY <1>1, FreshTypes
  <1>5. Typed'
    <2>1. WorldT'
      BY <1>0, <1>1, <1>3 DEF Known, Typed, WorldT
    <2>2. MemT' /\ ThreadsT'
      BY <1>1, FreshTypes DEF MemT, ThreadsT
    <2>3. GateT' /\ FlattensT' /\ DbT'
      BY <1>0, <1>1, <1>2 DEF Known, Typed, GateT, FlattensT, DbT
    <2> QED BY <2>1, <2>2, <2>3 DEF Typed
  <1>6. Bounded'
    <2>1. 0 <= down /\ 1 <= today /\ 0 <= releases /\ 0 <= 0
      BY <1>0 DEF Known, Days
    <2> QED BY <1>0, <1>1, <1>4, <2>1, FreshTypes DEF Known, Bounded
  <1>7. Decided'
    BY <1>0, <1>1, <1>4, FreshTypes DEF Known, Decided, Carries
  <1>8. Quiet' /\ Baselined' /\ Gated'
    BY <1>1, <1>2 DEF Quiet, Baselined, Gated
  <1>9. Marked'
    BY <1>0, <1>1, <1>4, FreshTypes DEF Known, Marked
  <1>10. Once'
    BY <1>1 DEF Once
  <1> QED BY <1>5, <1>6, <1>7, <1>8, <1>9, <1>10 DEF Inductive

\* The last checkpoint of the equity columns.
LEMMA ShutdownKeeps ==
    ASSUME Inductive, Shutdown
    PROVE  Inductive'
  <1>0. Known
    BY Knows
  <1> DEFINE m == Rolled(mem)
             row == rows[today]
             takes == ~row.made /\ m.ks
             why == IF takes THEN m.why ELSE row.why
             new == [made |-> TRUE, loss |-> m.loss, base |-> m.base, ks |-> row.ks \/ takes,
                     why |-> why]
  <1>1. /\ up = "running" /\ up' = "stopping" /\ Event /\ mem' = m
        /\ rows' = [rows EXCEPT ![today] = new]
        /\ UNCHANGED <<today, down, redis, releases, kept, gate, alarm, asks, late, sold, th, carry>>
    BY DEF Shutdown, flattens
  <1>2. /\ m \in Tracker /\ m.day = today /\ m.loss \in {0, mem.loss}
        /\ mem.day = today => m = mem
        /\ mem.day # today => m.loss = 0
        /\ m.base = mem.base
        /\ m.cur = mem.cur /\ m.judged = mem.judged
        /\ m.ks = mem.ks /\ m.why = mem.why /\ m.asked = mem.asked
        /\ m.epoch = mem.epoch /\ m.written = mem.written /\ m.unwritten = mem.unwritten
        /\ m.seen = mem.seen
    BY <1>0, RolledTracker DEF Known
  <1>3. row \in Row /\ today \in Days /\ m.loss <= down
    BY <1>0, <1>2 DEF Known, Bounded
  <1> HIDE DEF m
  <1>4. /\ new \in Row /\ new.made /\ new.loss = m.loss /\ new.ks = (row.ks \/ takes)
        /\ new.why = why
    <2>1. /\ m.loss \in Units /\ m.base \in Levels /\ m.why \in Reasons /\ m.ks \in BOOLEAN
          /\ row.why \in Reasons /\ row.ks \in BOOLEAN
      BY <1>2, <1>3 DEF Tracker, Row
    <2>2. why \in Reasons /\ (row.ks \/ takes) \in BOOLEAN
      BY <2>1
    <2> HIDE DEF why, takes
    <2> QED BY <2>1, <2>2 DEF Row
  <1>5. /\ new.why = "mdd" => new.ks
        /\ new.why = "mdd" => mem.why = "mdd" \/ row.why = "mdd"
        /\ row.ks => new.ks
    <2>1. row.why = "mdd" => row.ks
      BY <1>0, <1>3, RowsRest
    <2> QED BY <1>2, <1>4, <2>1
  <1> HIDE DEF new, why, takes
  <1>6. /\ rows' \in [Days -> Row] /\ rows'[today] = new
        /\ \A d \in Days \ {today} : rows'[d] = rows[d]
    BY <1>0, <1>1, <1>3, <1>4 DEF Known
  <1>7. /\ mem'.day = today /\ mem'.loss <= down /\ mem'.ks = mem.ks /\ mem'.why = mem.why
        /\ mem'.epoch = mem.epoch /\ mem'.written = mem.written /\ mem'.seen = mem.seen
        /\ mem'.unwritten = mem.unwritten /\ mem'.asked = mem.asked /\ mem' \in Tracker
    BY <1>1, <1>2, <1>3
  <1>8. Typed'
    <2>1. events' \in 0 .. MaxEvents
      BY <1>0, <1>1, EventCounts
    <2>2. WorldT' /\ MemT' /\ ThreadsT' /\ GateT' /\ FlattensT' /\ DbT'
      BY <1>0, <1>1, <1>6, <1>7, <2>1
      DEF Known, Typed, WorldT, MemT, ThreadsT, GateT, FlattensT, DbT
    <2> QED BY <2>2 DEF Typed
  <1>9. Bounded'
    <2>1. \A d \in Days : rows'[d].loss <= down
      BY <1>0, <1>3, <1>4, <1>6 DEF Known, Bounded
    <2>2. today <= today
      BY <1>0 DEF Known
    <2>3. mem'.judged <= mem'.base
      BY <1>0, <1>1, <1>2 DEF Known, Bounded
    <2> QED BY <1>0, <1>1, <1>7, <2>1, <2>2, <2>3 DEF Known, Bounded
  <1>10. Decided'
    <2>1. \A u \in Threads : Carries(u)'
      BY <1>0, <1>1, <1>7 DEF Known, Decided, Carries
    <2>2. \A d \in Days : rows'[d].ks => rows'[d].made
      BY <1>0, <1>4, <1>6, RowsRest
    <2> QED BY <1>0, <1>7, <2>1, <2>2 DEF Known, Decided
  <1>11. Quiet'
    BY <1>1 DEF Quiet
  <1>12. Baselined'
    <2>1. Unheard' => Unheard
      <3>1. Broken(mem)' = Broken(mem')
        BY <1>1 DEF Broken, LossBreached, MddBreached
      <3>2. Broken(mem') => Broken(mem)
        BY <1>0, <1>1, RolledBreach DEF Known, m
      <3> QED BY <1>1, <1>2, <3>1, <3>2 DEF Unheard
    <2>2. Baselined
      BY <1>0 DEF Known
    <2> HIDE DEF Unheard
    <2> QED BY <1>1, <1>7, <2>1, <2>2 DEF Baselined
  <1>13. Marked'
    <2>1. \A d \in Days : rows'[d].why = "mdd" => rows'[d].ks
      BY <1>0, <1>5, <1>6, RowsRest
    <2> QED BY <1>0, <1>1, <1>7, <2>1 DEF Known, Marked
  <1>14. Gated'
    BY <1>1 DEF Gated
  <1>15. Once'
    <2>1. Falling' => Falling
      <3>1. \A d \in Days : rows'[d].why = "mdd" => rows[d].why = "mdd" \/ mem.why = "mdd"
        BY <1>5, <1>6
      <3> QED BY <1>1, <1>7, <3>1 DEF Falling
    <2> QED BY <1>0, <1>1, <1>7, <2>1 DEF Known, Once
  <1> QED BY <1>8, <1>9, <1>10, <1>11, <1>12, <1>13, <1>14, <1>15 DEF Inductive

\* A restart restores the worse loss, the latest peak and any halt, and counts
\* an MDD halt as liquidated.
LEMMA RestoredIs ==
    ASSUME Known
    PROVE  /\ Restored \in Tracker
           /\ Restored.day = today /\ Restored.loss <= down
           /\ Restored.ks = (Halted # {})
           /\ Restored.why = "mdd" => Halted # {} /\ AskedBefore
           /\ Restored.asked = AskedBefore /\ Restored.written = 0
           /\ Restored.epoch \in {0, 1} /\ (Restored.epoch = 1 => Halted # {})
           /\ ~Restored.unwritten /\ Restored.seen = kept.seen
           /\ Restored.judged <= Restored.base /\ Restored.cur = Unknown
  <1> DEFINE base == StoredPeak
             why == IF Halted = {} THEN "none" ELSE rows[Newest(Halted)].why
             floor == IF kept.day = today THEN kept.floor ELSE NoFloor
             epoch == IF Halted # {} /\ ~rows[today].ks THEN 1 ELSE 0
             ks == Halted # {}
  <1>1. Restored = [FreshTracker EXCEPT !.day = today, !.loss = StoredLoss, !.base = base,
                      !.judged = base, !.cur = Unknown, !.ks = ks,
                      !.why = why, !.floor = floor, !.asked = AskedBefore, !.epoch = epoch,
                      !.seen = kept.seen]
    BY DEF Restored
  <1>2. StoredLoss \in Units /\ StoredLoss <= down
    BY DEF Known, Bounded, StoredLoss, Worse, Row
  <1>3. base \in Levels /\ Unknown \in Levels
    <2>1. PeakDays \in SUBSET Days
      BY BoundAssumption DEF PeakDays, Known, Days
    <2>2. CASE PeakDays = {}
      BY <2>2 DEF StoredPeak, Levels
    <2>3. CASE PeakDays # {}
      <3>1. Newest(PeakDays) \in PeakDays
        BY <2>1, <2>3, NewestIsOneOfThem
      <3>2. rows[Newest(PeakDays)] \in Row
        BY <2>1, <3>1 DEF Known
      <3> HIDE DEF PeakDays
      <3> QED BY <2>3, <3>2 DEF Row, StoredPeak, Levels
    <2> QED BY <2>2, <2>3
  <1>4. /\ why \in Reasons
        /\ why = "mdd" => Halted # {} /\ AskedBefore
    <2>1. CASE Halted = {}
      BY <2>1 DEF Reasons
    <2>2. CASE Halted # {}
      <3>1. Halted \in SUBSET Days
        BY DEF Halted
      <3>2. Newest(Halted) \in Halted /\ Newest(Halted) \in Days
        BY <2>2, <3>1, NewestIsOneOfThem
      <3>3. rows[Newest(Halted)].why \in Reasons
        BY <3>2 DEF Known, Row
      <3> HIDE DEF Halted
      <3> QED BY <2>2, <3>2, <3>3 DEF AskedBefore
    <2> QED BY <2>1, <2>2
  <1>5. /\ floor \in Nat /\ epoch \in {0, 1} /\ (epoch = 1 => Halted # {}) /\ ks \in BOOLEAN
        /\ AskedBefore \in BOOLEAN /\ kept.seen \in 0 .. MaxReleases /\ today \in Days
    <2>1. kept.floor \in Nat /\ kept.seen \in 0 .. MaxReleases /\ today \in Days
      BY DEF Known, Baselines
    <2>2. AskedBefore \in BOOLEAN
      BY DEF AskedBefore
    <2> QED BY <2>1, <2>2, FreshTypes
  <1> HIDE DEF base, why, floor, epoch, ks
  <1>6. Restored \in Tracker
    <2>1. epoch \in Nat
      BY <1>5
    <2> QED BY <1>1, <1>2, <1>3, <1>4, <1>5, <2>1, FreshTypes DEF Tracker
  <1>7. /\ Restored.day = today /\ Restored.loss = StoredLoss /\ Restored.ks = ks
        /\ Restored.why = why /\ Restored.asked = AskedBefore /\ Restored.epoch = epoch
        /\ Restored.written = FreshTracker.written /\ Restored.unwritten = FreshTracker.unwritten
        /\ Restored.seen = kept.seen /\ Restored.judged = base /\ Restored.base = base
        /\ Restored.cur = Unknown
    BY <1>1, FreshTypes DEF Tracker
  <1>9. base <= base
    BY <1>3, BoundAssumption DEF Levels, Units, Unknown
  <1>8. ks = (Halted # {})
    BY DEF ks
  <1> QED BY <1>2, <1>4, <1>5, <1>6, <1>7, <1>8, <1>9, FreshTypes

\* What the balance read at the start, or not read, makes of what was restored:
\* a release nobody was up to see is accepted before it, or by it.
LEMMA BootedIs ==
    ASSUME Known, NEW read \in BOOLEAN, NEW r,
           r = IF releases > Restored.seen
               THEN [Accepted(Restored) EXCEPT !.seen = releases] ELSE Restored
    PROVE  LET m == IF read THEN Peaked(Resolved([r EXCEPT !.cur = down])) ELSE r
           IN /\ m \in Tracker /\ m.day = today /\ m.loss <= down /\ m.ks = (Halted # {})
              /\ m.why = "mdd" => Halted # {} /\ AskedBefore
              /\ m.asked = AskedBefore /\ m.written = 0 /\ m.epoch \in {0, 1}
              /\ m.epoch = 1 => Halted # {}
              /\ m.seen <= releases /\ m.judged <= m.base
              /\ m.unwritten => ~Broken(m)
  <1> DEFINE a == Accepted(Restored)
             n == [r EXCEPT !.cur = down]
  <1>1. /\ r \in Tracker /\ r.day = today /\ r.loss <= down /\ r.ks = (Halted # {})
        /\ r.why = "mdd" => Halted # {} /\ AskedBefore
        /\ r.asked = AskedBefore /\ r.written = 0 /\ r.epoch \in {0, 1}
        /\ r.epoch = 1 => Halted # {}
        /\ r.seen <= releases /\ r.judged <= r.base
        /\ r.unwritten => ~Broken(r) /\ r.rebase = r.day
    <2>1. CASE releases > Restored.seen
      <3>1. r = [a EXCEPT !.seen = releases]
        BY <2>1
      <3>2. /\ a \in Tracker /\ a.day = today /\ a.loss <= down /\ a.ks = (Halted # {})
            /\ a.why = "mdd" => Halted # {} /\ AskedBefore
            /\ a.asked = AskedBefore /\ a.written = 0 /\ a.epoch \in {0, 1}
            /\ a.epoch = 1 => Halted # {}
            /\ a.judged <= a.base /\ ~Broken(a) /\ a.rebase = a.day
        BY RestoredIs, AcceptedTracker
      <3> HIDE DEF a
      <3>3. releases \in 0 .. MaxReleases /\ releases <= releases
        BY DEF Known
      <3>4. /\ r \in Tracker /\ r.day = a.day /\ r.loss = a.loss /\ r.ks = a.ks /\ r.why = a.why
            /\ r.asked = a.asked /\ r.written = a.written /\ r.epoch = a.epoch
            /\ r.judged = a.judged /\ r.base = a.base /\ r.cur = a.cur /\ r.floor = a.floor
            /\ r.rebase = a.rebase /\ r.seen = releases
        BY <3>1, <3>2, <3>3 DEF Tracker
      <3>5. ~Broken(r)
        BY <3>2, <3>4 DEF Broken, LossBreached, MddBreached
      <3> QED BY <3>2, <3>3, <3>4, <3>5
    <2>2. CASE ~(releases > Restored.seen)
      <3>1. r = Restored
        BY <2>2
      <3>2. kept.seen <= releases
        BY DEF Known, Bounded
      <3> QED BY <3>1, <3>2, RestoredIs
    <2> QED BY <2>1, <2>2
  <1>2. down \in Levels /\ down # Unknown
    BY BoundAssumption DEF Known, Levels, Units, Unknown
  <1>3. CASE ~read
    BY <1>1, <1>3
  <1>4. CASE read
    <2>1. /\ n \in Tracker /\ n.day = r.day /\ n.loss = r.loss /\ n.ks = r.ks /\ n.why = r.why
          /\ n.asked = r.asked /\ n.written = r.written /\ n.epoch = r.epoch /\ n.seen = r.seen
          /\ n.unwritten = r.unwritten /\ n.floor = r.floor
      BY <1>1, <1>2 DEF Tracker
    <2>2. /\ n.judged = r.judged /\ n.base = r.base /\ n.rebase = r.rebase /\ n.cur = down
      BY <1>1 DEF Tracker
    <2> HIDE DEF n
    <2> DEFINE v == Resolved(n)
               p == Peaked(v)
    <2>3. /\ Kin(v, n) /\ v.judged <= v.base /\ v.judged = n.judged
          /\ r.unwritten => ~MddBreached(v)
      BY <1>1, <1>2, <2>1, <2>2, ResolvedTracker
    <2>4. r.unwritten => ~LossBreached(v, v.judged)
      BY <1>1, <2>1, <2>2, <2>3 DEF Broken, LossBreached, Kin
    <2>5. v \in Tracker
      BY <2>3 DEF Kin
    <2> HIDE DEF v
    <2>6. /\ Kin(p, v) /\ p.judged <= p.base
          /\ r.unwritten => ~MddBreached(p) /\ ~LossBreached(p, p.judged)
      BY <2>3, <2>4, <2>5, PeakedTracker
    <2> HIDE DEF p
    <2>7. /\ p \in Tracker /\ p.day = r.day /\ p.loss = r.loss /\ p.ks = r.ks /\ p.why = r.why
          /\ p.asked = r.asked /\ p.written = r.written /\ p.epoch = r.epoch /\ p.seen = r.seen
          /\ p.unwritten = r.unwritten
      BY <2>1, <2>3, <2>6 DEF Kin
    <2>8. p = Peaked(Resolved([r EXCEPT !.cur = down]))
      BY DEF p, v, n
    <2>9. p.unwritten => ~Broken(p)
      BY <2>6, <2>7 DEF Broken
    <2> QED BY <1>1, <1>4, <2>6, <2>7, <2>8, <2>9
  <1> QED BY <1>3, <1>4

\* A process comes up with nothing running.
LEMMA BootKeeps ==
    ASSUME Inductive, NEW read \in BOOLEAN, Boot(read)
    PROVE  Inductive'
  <1>0. Known
    BY Knows
  <1> DEFINE r == IF releases > Restored.seen
                  THEN [Accepted(Restored) EXCEPT !.seen = releases] ELSE Restored
             m == IF read THEN Peaked(Resolved([r EXCEPT !.cur = down])) ELSE r
             loc == IF (read /\ r.base = Unknown) \/ m.epoch # m.written \/ m.unwritten
                    THEN "persist" ELSE "idle"
             x == [th[Poll] EXCEPT !.at = loc]
  <1>1. /\ up = "down" /\ up' = "booting" /\ mem' = m
        /\ th' = [th EXCEPT ![Poll].at = loc]
        /\ UNCHANGED <<today, down, rows, redis, releases, kept, gate, alarm, asks, late, sold, carry,
                        events>>
    BY DEF Boot, db, flattens
  <1>2. /\ ~alarm /\ asks = 0 /\ ~late /\ ~gate.open
        /\ \A t \in Threads : th[t] = IdleThread
    BY <1>0, <1>1 DEF Known, Quiet
  <1>3. /\ m \in Tracker /\ m.day = today /\ m.loss <= down /\ m.ks = (Halted # {})
        /\ m.why = "mdd" => Halted # {} /\ AskedBefore
        /\ m.asked = AskedBefore /\ m.written = 0 /\ m.epoch \in {0, 1}
        /\ m.epoch = 1 => Halted # {}
        /\ m.seen <= releases /\ m.judged <= m.base
        /\ m.unwritten => ~Broken(m)
    <2> HIDE DEF r
    <2> QED BY <1>0, BootedIs DEF r
  <1>4. loc \in {"idle", "persist"}
    OBVIOUS
  <1> HIDE DEF m, loc
  <1>5. /\ th' \in [Threads -> Thread]
        /\ th'[Poll].at \in {"idle", "persist"} /\ ~th'[Poll].again
        /\ \A t \in Threads : /\ t # Poll => th'[t] = IdleThread
                              /\ th'[t].at \in {"idle", "persist"}
                              /\ ~th'[t].again /\ ~th'[t].ks /\ th'[t].why = "none"
                              /\ th'[t].snap.why = "none" /\ th'[t].snap.loss = 0
    <2>1. th[Poll] = IdleThread /\ IdleThread \in Thread
      BY <1>0, <1>2, FreshTypes DEF Known
    <2>2. /\ x \in Thread /\ x.at = loc /\ ~x.again /\ ~x.ks /\ x.why = "none"
          /\ x.snap = IdleThread.snap
      BY <1>4, <2>1, FreshTypes DEF Thread
    <2>3. th' = [th EXCEPT ![Poll] = x]
      BY <1>0, <1>1 DEF Known
    <2> HIDE DEF x
    <2>4. /\ th' \in [Threads -> Thread] /\ th'[Poll] = x
          /\ \A t \in Threads \ {Poll} : th'[t] = IdleThread
      BY <1>0, <1>2, <2>2, <2>3 DEF Known
    <2> QED BY <1>0, <1>4, <2>2, <2>4, FreshTypes DEF Known
  <1>6. Typed'
    BY <1>0, <1>1, <1>3, <1>5 DEF Known, Typed, WorldT, MemT, ThreadsT, GateT, FlattensT, DbT
  <1>7. Bounded'
    <2>1. today <= today
      BY <1>0 DEF Known
    <2> QED BY <1>0, <1>1, <1>3, <1>5, <2>1 DEF Known, Bounded
  <1>8. Decided'
    <2>1. \A t \in Threads : Carries(t)'
      BY <1>5 DEF Carries
    <2>3. /\ mem'.written = 0 /\ mem'.epoch \in {0, 1}
          /\ mem'.epoch = 1 => mem'.ks
      BY <1>1, <1>3
    <2>2. mem'.written <= mem'.epoch /\ (mem'.epoch # mem'.written => mem'.ks)
      BY <2>3
    <2> QED BY <1>0, <1>1, <2>1, <2>2 DEF Known, Decided
  <1>9. Quiet'
    BY <1>1, <1>5 DEF Quiet
  <1>10. Baselined'
    <2>1. Unheard' => ~mem'.unwritten
      <3>1. Broken(mem)' = Broken(mem')
        BY <1>1 DEF Broken, LossBreached, MddBreached
      <3> QED BY <1>1, <1>3, <3>1 DEF Unheard
    <2> HIDE DEF Unheard
    <2> QED BY <1>1, <1>2, <1>5, <2>1 DEF Baselined
  <1>11. Marked'
    BY <1>0, <1>1, <1>3, <1>5 DEF Known, Marked
  <1>12. Gated'
    <2>1. Halted' = Halted
      BY <1>1 DEF Halted
    <2> HIDE DEF Halted
    <2> QED BY <1>1, <1>3, <1>5, <2>1 DEF Gated
  <1>13. Once'
    <2>1. Falling' => AskedBefore
      <3>1. ASSUME NEW d \in Days, rows[d].why = "mdd" PROVE AskedBefore
        BY <1>0, <3>1, RowsRest DEF AskedBefore, Halted
      <3> QED BY <1>1, <1>3, <1>5, <3>1 DEF Falling
    <2> QED BY <1>1, <1>2, <1>3, <2>1 DEF Once
  <1> QED BY <1>6, <1>7, <1>8, <1>9, <1>10, <1>11, <1>12, <1>13 DEF Inductive

\* The gate opens only if no row is halted.
LEMMA RecoverKeeps ==
    ASSUME Inductive, Recover
    PROVE  Inductive'
  <1>0. Known
    BY Knows
  <1>1. /\ up = "booting" /\ up' = "running" /\ th[Poll].at = "idle"
        /\ \/ Halted # {} /\ gate' = [Disabled(gate, "risk") EXCEPT !.resume = TRUE]
           \/ Halted = {} /\ gate' = [gate EXCEPT !.open = TRUE, !.cause = "none", !.resume = TRUE]
           \/ gate' = Disabled(gate, "untrusted")
        /\ UNCHANGED <<today, down, mem, rows, redis, releases, kept, alarm, asks, late, sold, th,
                        carry, events>>
    BY DEF Recover, db, flattens
  <1>2. /\ gate' \in Gates
        /\ gate'.open => Halted = {}
        /\ ~gate'.open /\ gate'.cause = "risk" => Halted # {}
    <2>1. "risk" \in Causes /\ "untrusted" \in Causes /\ gate \in Gates
      BY <1>0 DEF Causes, Known
    <2>2. CASE Halted # {} /\ gate' = [Disabled(gate, "risk") EXCEPT !.resume = TRUE]
      <3>1. Disabled(gate, "risk") \in Gates /\ ~Disabled(gate, "risk").open
        BY <2>1, DisabledGate
      <3> QED BY <2>2, <3>1 DEF Gates
    <2>3. CASE Halted = {} /\ gate' = [gate EXCEPT !.open = TRUE, !.cause = "none", !.resume = TRUE]
      BY <2>1, <2>3 DEF Gates, Causes
    <2>4. CASE gate' = Disabled(gate, "untrusted")
      <3>1. gate' \in Gates /\ ~gate'.open
        BY <2>1, <2>4, DisabledGate
      <3>2. gate'.cause \in {"untrusted", "record"}
        BY <2>1, <2>4, DisabledGate
      <3> QED BY <3>1, <3>2
    <2> QED BY <1>1, <2>2, <2>3, <2>4
  <1>3. Halted' = Halted
    BY <1>1 DEF Halted
  <1> HIDE DEF Halted
  <1>4. Typed'
    BY <1>0, <1>1, <1>2 DEF Known, Typed, WorldT, MemT, ThreadsT, GateT, FlattensT, DbT
  <1>5. Bounded' /\ Decided' /\ Quiet' /\ Marked'
    BY <1>0, <1>1 DEF Known, Bounded, Decided, Carries, Quiet, Marked
  <1>6. Baselined'
    <2>1. Unheard' = Unheard
      BY <1>1, UnheardSame
    <2>2. Baselined
      BY <1>0 DEF Known
    <2> HIDE DEF Unheard
    <2> QED BY <1>1, <1>2, <1>3, <2>1, <2>2 DEF Baselined
  <1>7. Gated'
    BY <1>0, <1>1, <1>2, <1>3 DEF Known, Gated
  <1>8. Once'
    BY <1>0, <1>1 DEF Known, Once, Falling
  <1> QED BY <1>4, <1>5, <1>6, <1>7, <1>8 DEF Inductive

(***************************************************************************)
(* The invariant of every run, and what follows from it.                    *)
(***************************************************************************)

\* One step of the halt, whichever it is.
LEMMA NextInductive == Inductive /\ [Next]_vars => Inductive'
  <1> SUFFICES ASSUME Inductive, [Next]_vars PROVE Inductive'
    OBVIOUS
  <1>0. Known /\ Fillers \subseteq Threads /\ Poll \in Threads
    BY Knows DEF Threads
  <1>1. ASSUME NEW t \in Threads, Write(t) PROVE Inductive'
    BY <1>1, TakeSnapshotKeeps, CommitKeeps, CommitFailsKeeps, SettleKeeps, ShutAdoptedKeeps,
       TakeReleaseKeeps, NoteReleaseKeeps, AuditKeeps DEF Write
  <1>2. ASSUME NEW t \in Fillers, NEW read \in BOOLEAN, RecordLoss(t, read) PROVE Inductive'
    BY <1>0, <1>2, RecordLossKeeps
  <1>8. CASE SkipLoss
    BY <1>8, SkipLossKeeps
  <1>3. CASE PollStep
    BY <1>0, <1>1, <1>3, PollBeginKeeps, PollFreshKeeps, PollReopenKeeps DEF PollStep
  <1>4. CASE Alarm \/ Latch \/ Flatten \/ FlattenLate
    BY <1>4, AlarmKeeps, LatchKeeps, FlattenKeeps, FlattenLateKeeps
  <1>5. CASE WatchdogHalt \/ Release \/ CarryRead \/ CarryWrite \/ NewDay
    BY <1>5, WatchdogHaltKeeps, ReleaseKeeps, CarryReadKeeps, CarryWriteKeeps, NewDayKeeps
  <1>6. CASE Crash \/ Shutdown \/ Recover
    BY <1>6, CrashKeeps, ShutdownKeeps, RecoverKeeps
  <1>9. ASSUME NEW read \in BOOLEAN, Boot(read) PROVE Inductive'
    BY <1>9, BootKeeps
  <1>7. CASE UNCHANGED vars
    <2>1. UNCHANGED <<up, today, down, mem, rows, redis, releases, kept, gate, alarm, asks, late,
                      sold, th, carry, events>>
      BY <1>7 DEF vars, db, flattens
    <2>2. Typed' /\ Bounded' /\ Decided' /\ Quiet' /\ Marked'
      BY <1>0, <2>1 DEF Known, Typed, WorldT, MemT, ThreadsT, GateT, FlattensT, DbT, Bounded, Decided,
                        Carries, Quiet, Marked
    <2>3. Halted' = Halted /\ Unheard' = Unheard /\ Shutting' = Shutting /\ Falling' = Falling
      BY <2>1 DEF Halted, Unheard, Broken, LossBreached, MddBreached, Shutting, Falling
    <2>4. Baselined /\ Gated /\ Once
      BY <1>0 DEF Known
    <2> HIDE DEF Halted, Unheard, Shutting, Falling
    <2>5. Baselined' /\ Gated' /\ Once'
      BY <2>1, <2>3, <2>4 DEF Baselined, Gated, Once
    <2> QED BY <2>2, <2>5 DEF Inductive
  <1> QED BY <1>1, <1>2, <1>3, <1>4, <1>5, <1>6, <1>7, <1>8, <1>9, <1>0 DEF Next

\* The invariant holds in every state of every run.
THEOREM InductiveAlways == Spec => []Inductive
  <1>1. Init => Inductive
    BY InitInductive
  <1>2. Inductive /\ [Next]_vars => Inductive'
    BY NextInductive
  <1> QED BY <1>1, <1>2, PTL DEF Spec

\* A worker that knows of a halt a row carries has its order gate shut, or a
\* thread is about to shut it: provided the operator releases no halt while
\* the worker boots.
THEOREM KnownHaltShutsGate ==
    ASSUME ~BootRelease
    PROVE  Spec => []GateInv
  <1>1. Inductive => GateInv
    <2>1. Gated /\ ~BootRelease => HaltShutsGate
      BY DEF Gated, Shutting, HaltShutsGate
    <2> QED BY <2>1, TypedType DEF Inductive, GateInv
  <1> QED BY <1>1, InductiveAlways, PTL

\* Only the operator's release clears a halted row: no write of a fill thread
\* or of the poll does, whatever it read before, nor a checkpoint, the
\* watchdog or the 07:01 job (#158).
THEOREM OnlyTheOperatorClears == Spec => OnlyReleased
  <1> DEFINE Stays == \A d \in Days : rows[d].ks /\ ~rows'[d].ks => releases' > releases
  <1>1. Inductive /\ [Next]_vars => Stays
    <2> SUFFICES ASSUME Inductive, [Next]_vars, NEW d \in Days, rows[d].ks, ~rows'[d].ks
                 PROVE  releases' > releases
      OBVIOUS
    <2>0. Known /\ Fillers \subseteq Threads /\ Poll \in Threads
      BY Knows DEF Threads
    <2>1. rows' # rows
      OBVIOUS
    <2>2. ASSUME NEW t \in Threads, Write(t) PROVE FALSE
      <3>1. ~Commit(t)
        BY CommitStays
      <3> QED BY <2>1, <2>2, <3>1
          DEF Write, TakeSnapshot, CommitFails, Settle, ShutAdopted, TakeRelease, NoteRelease, Audit, db
    <2>3. ASSUME NEW t \in Fillers, NEW read \in BOOLEAN, RecordLoss(t, read) PROVE FALSE
      BY <2>1, <2>3 DEF RecordLoss, db
    <2>12. ASSUME NEW read \in BOOLEAN, Boot(read) \/ SkipLoss PROVE FALSE
      BY <2>1, <2>12 DEF Boot, SkipLoss, db
    <2>4. CASE PollStep
      BY <2>0, <2>1, <2>2, <2>4 DEF PollStep, PollBegin, PollFresh, PollReopen, db
    <2>5. CASE Alarm \/ Latch \/ Flatten \/ FlattenLate
      BY <2>1, <2>5 DEF Alarm, Latch, Flatten, FlattenLate, db
    <2>6. CASE WatchdogHalt
      <3>1. today \in Days /\ rows \in [Days -> Row]
        BY <2>0 DEF Known
      <3> QED BY <2>6, <3>1 DEF WatchdogHalt, Row
    <2>7. CASE Release
      <3>1. releases' = releases + 1 /\ releases \in Nat
        BY <2>0, <2>7 DEF Release, Known
      <3> QED BY <3>1
    <2>8. CASE CarryWrite
      <3>1. today \in Days /\ rows \in [Days -> Row]
        BY <2>0 DEF Known
      <3> QED BY <2>8, <3>1 DEF CarryWrite, Row
    <2>9. CASE CarryRead \/ NewDay \/ Crash \/ Recover
      BY <2>1, <2>9 DEF CarryRead, NewDay, Crash, Recover, db
    <2>10. CASE Shutdown
      <3>1. today \in Days /\ rows \in [Days -> Row]
        BY <2>0 DEF Known
      <3>2. rows'[today].ks = (rows[today].ks \/ (~rows[today].made /\ Rolled(mem).ks))
        BY <2>10, <3>1 DEF Shutdown
      <3>3. \A e \in Days \ {today} : rows'[e] = rows[e]
        BY <2>10, <3>1 DEF Shutdown
      <3> QED BY <3>2, <3>3
    <2>11. CASE UNCHANGED vars
      BY <2>1, <2>11 DEF vars, db
    <2> QED BY <2>0, <2>2, <2>3, <2>4, <2>5, <2>6, <2>7, <2>8, <2>9, <2>10, <2>11, <2>12 DEF Next
  <1>2. Inductive /\ [Next]_vars => [Stays]_vars
    BY <1>1
  <1> QED BY <1>2, InductiveAlways, PTL DEF Spec, OnlyReleased

\* Trading reopens only with no drawdown breached by the equity last read, and
\* with no daily loss breached by the peak of the last release or restart: what
\* the poll opens the gate on was halted for, or a release has accepted it by
\* the peak it found.  Of the peak it is then rebased to this says nothing.
THEOREM ReopensUnbreached == Spec => ReopenUnbreached
  <1> DEFINE Unbroken == ~gate.open /\ gate'.open /\ up = "running"
                           => ~LossBreached(Rolled(mem), mem.judged) /\ ~MddBreached(mem)
  <1>1. Inductive /\ [Next]_vars => Unbroken
    <2> SUFFICES ASSUME Inductive, [Next]_vars, ~gate.open, gate'.open, up = "running"
                 PROVE  ~LossBreached(Rolled(mem), mem.judged) /\ ~MddBreached(mem)
      OBVIOUS
    <2>0. Known /\ gate' # gate /\ Fillers \subseteq Threads /\ Poll \in Threads
      BY Knows DEF Threads
    <2>1. ~Disabled(gate, "risk").open
      BY <2>0, DisabledGate DEF Known, Causes
    <2>2. ASSUME NEW t \in Threads, Write(t) PROVE FALSE
      BY <2>0, <2>1, <2>2
      DEF Write, TakeSnapshot, Commit, CommitFails, Settle, ShutAdopted, TakeRelease, NoteRelease, Audit
    <2>3. ASSUME NEW t \in Fillers, NEW read \in BOOLEAN, RecordLoss(t, read) PROVE FALSE
      BY <2>0, <2>3 DEF RecordLoss
    <2>10. ASSUME NEW read \in BOOLEAN, Boot(read) \/ SkipLoss PROVE FALSE
      BY <2>0, <2>10 DEF Boot, SkipLoss
    <2>4. CASE PollReopen
      <3>1. th[Poll].at = "reopen" /\ ~mem.ks
        BY <2>0, <2>4 DEF PollReopen
      <3>2. ~Unheard
        BY <2>0, <3>1 DEF Known, Baselined
      <3>3. ~(mem.day = today /\ LossBreached(mem, mem.judged)) /\ ~MddBreached(mem)
        BY <3>1, <3>2 DEF Unheard, Broken
      <3>4. CASE mem.day = today
        <4>1. Rolled(mem) = mem
          BY <2>0, <3>4, RolledTracker DEF Known
        <4> QED BY <3>3, <3>4, <4>1
      <3>5. CASE mem.day # today
        <4>1. ~LossBreached(Rolled(mem), mem.judged)
          BY <2>0, <3>5, RolledBreach DEF Known
        <4> QED BY <3>3, <4>1
      <3> QED BY <3>4, <3>5
    <2>5. CASE PollBegin \/ PollFresh
      BY <2>0, <2>5 DEF PollBegin, PollFresh
    <2>6. CASE Alarm \/ Latch \/ Flatten \/ FlattenLate
      <3>1. ~Latch
        BY <2>0 DEF Latch, Known, Gates
      <3> QED BY <2>0, <2>1, <2>6, <3>1 DEF Alarm, Flatten, FlattenLate
    <2>7. CASE WatchdogHalt \/ Release \/ CarryRead \/ CarryWrite \/ NewDay
      BY <2>0, <2>7 DEF WatchdogHalt, Release, CarryRead, CarryWrite, NewDay
    <2>8. CASE Crash \/ Shutdown \/ Recover
      BY <2>0, <2>8 DEF Crash, Shutdown, Recover
    <2>9. CASE UNCHANGED vars
      BY <2>0, <2>9 DEF vars
    <2> QED BY <2>0, <2>2, <2>3, <2>4, <2>5, <2>6, <2>7, <2>8, <2>9, <2>10 DEF Next, PollStep
  <1>2. Inductive /\ [Next]_vars => [Unbroken]_vars
    BY <1>1
  <1> QED BY <1>2, InductiveAlways, PTL DEF Spec, ReopenUnbreached

\* While a row stands halted for the drawdown and its sells were placed,
\* nothing asks for a second liquidation, restarts included: provided no
\* flatten fails after its halt's release.
THEOREM LiquidatesOnce ==
    ASSUME ~LateMayFail
    PROVE  Spec => NoSecondFlatten
  <1> DEFINE First == asks' > asks /\ sold => \A d \in Days : rows[d].why # "mdd"
  <1>1. Inductive /\ [Next]_vars => First
    <2> SUFFICES ASSUME Inductive, [Next]_vars, asks' > asks, sold, NEW d \in Days,
                        rows[d].why = "mdd"
                 PROVE  FALSE
      OBVIOUS
    <2>0. /\ Known /\ asks \in Nat /\ Fillers \subseteq Threads /\ Poll \in Threads
          /\ asks' # asks /\ asks' # 0 /\ asks' # asks - 1
      <3>1. Known /\ Fillers \subseteq Threads /\ Poll \in Threads
        BY Knows DEF Threads
      <3>2. asks \in Nat
        BY <3>1 DEF Known
      <3> QED BY <3>1, <3>2
    <2>1. ASSUME NEW t \in Fillers, NEW read \in BOOLEAN, RecordLoss(t, read) PROVE FALSE
      <3>1. LossEffect(t) /\ up = "running"
        BY <2>0, <2>1, RecordLossDoes DEF RecordLoss
      <3>2. ~mem.asked
        BY <2>0, <3>1 DEF LossEffect
      <3> QED BY <2>0, <3>1, <3>2 DEF Known, Once, Falling
    <2>2. ASSUME NEW t \in Threads, Write(t) PROVE FALSE
      <3>1. ~Settle(t)
        BY <2>0 DEF Settle, flattens
      <3> QED BY <2>0, <2>2, <3>1
          DEF Write, TakeSnapshot, Commit, CommitFails, ShutAdopted, TakeRelease, NoteRelease, Audit,
              flattens
    <2>3. CASE PollBegin \/ PollFresh \/ PollReopen
      BY <2>0, <2>3 DEF PollBegin, PollFresh, PollReopen, flattens
    <2>4. CASE Alarm \/ Latch \/ Flatten \/ FlattenLate
      BY <2>0, <2>4 DEF Alarm, Latch, Flatten, FlattenLate, flattens
    <2>5. CASE WatchdogHalt \/ Release \/ CarryRead \/ CarryWrite \/ NewDay
      BY <2>0, <2>5 DEF WatchdogHalt, Release, CarryRead, CarryWrite, NewDay, flattens
    <2>6. CASE Crash \/ Shutdown \/ Recover
      BY <2>0, <2>6 DEF Crash, Shutdown, Recover, flattens
    <2>8. ASSUME NEW read \in BOOLEAN, Boot(read) \/ SkipLoss PROVE FALSE
      BY <2>0, <2>8 DEF Boot, SkipLoss, flattens
    <2>7. CASE UNCHANGED vars
      BY <2>0, <2>7 DEF vars, flattens
    <2> QED BY <2>0, <2>1, <2>2, <2>3, <2>4, <2>5, <2>6, <2>7, <2>8 DEF Next, PollStep
  <1>2. Inductive /\ [Next]_vars => [First]_vars
    BY <1>1
  <1> QED BY <1>2, InductiveAlways, PTL DEF Spec, NoSecondFlatten
=============================================================================
