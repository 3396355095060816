------------------------- MODULE BalanceCacheProofs --------------------------
(***************************************************************************)
(* The balance cache never answers with anything but the live sum, for any *)
(* number of transfers, readers and instants.                              *)
(***************************************************************************)
EXTENDS BalanceCache, CollectionProofs

\* SumOfDeltas is a sum of the deltas.
LEMMA SumIs == \A cs : SumOfDeltas(cs) = SumOf(Delta, cs)
BY DEF SumOfDeltas, MapThenSumSet, MapThenFoldSet, SumOf, SumSol, Pick

\* The number of postings a set of transfers touches, likewise.
LEMMA CountIs == \A cs : Count(cs) = SumOf(Touches, cs)
BY DEF Count, MapThenSumSet, MapThenFoldSet, SumOf, SumSol, Pick

-----------------------------------------------------------------------------
(* The inductive invariant. *)

Locals == [watermark : Int, base : Int, from : Int, min : Nat, debounce : Nat]
CommitStates == {"new", "stamped", "landed", "rejected"}

\* CacheTypeOK with the types of the tables in full; Before: nobody is stamped in
\* the future.
CacheInv ==
    /\ CacheTypeOK
    /\ points \in Seq([watermark : Int, balance : Int])
    /\ local \in [Reader -> Locals]
    /\ \A c \in Commit : commit[c].ts <= clock

\* What the landed transfers stamped up to w add up to.
SumUpTo(w) == SumOfDeltas({c \in Landed : commit[c].ts <= w})

\* No transfer stamped up to w is still on its way.
NoneUnderWay(w) == \A c \in Commit : commit[c].state = "stamped" => commit[c].ts > w

\* Everything up to w has settled, and b is the balance then.
Settled(w, b) == w <= clock - Grace /\ b = SumUpTo(w) /\ NoneUnderWay(w)

\* A commit that is on its way has not been for longer than the lag.
InTime == \A c \in Commit : commit[c].state = "stamped" => clock - commit[c].ts <= MaxLag

PointsOK == \A i \in DOMAIN points : Settled(points[i].watermark, points[i].balance)

\* What a task holds at each of its steps.
TaskOK(r) ==
    /\ pc[r] = "append" => local[r].base = 0
    /\ pc[r] = "fold" => Settled(local[r].from - 1, local[r].base)
    /\ pc[r] = "window" => /\ Settled(local[r].from - 1, local[r].base)
                           /\ local[r].from <= local[r].watermark + 1
    /\ pc[r] = "write" => Settled(local[r].watermark, local[r].base)

SettledInv == CacheInv /\ InTime /\ PointsOK /\ \A r \in Reader : TaskOK(r)

-----------------------------------------------------------------------------
(* Sums of transfers. *)

\* Any set of transfers has an integer sum.
LEMMA SumOfCommits ==
    ASSUME NEW cs \in SUBSET Commit
    PROVE  SumOfDeltas(cs) \in Int /\ Count(cs) \in Int /\ IsFiniteSet(cs)
<1>1. IsFiniteSet(cs)
  BY CacheAssumption, FS_Subset
<1> QED
  BY <1>1, CacheAssumption, SumIs, CountIs, SumType

\* The transfers of a window come on top of those before it.
LEMMA SumOfWindow ==
    ASSUME CacheInv, NEW w \in Int, NEW to \in Int, w < to
    PROVE  SumUpTo(w) + SumOfDeltas(filter_transfers(w + 1, to)) = SumUpTo(to - 1)
<1> DEFINE old == {c \in Landed : commit[c].ts <= w}
           new == filter_transfers(w + 1, to)
           all == {c \in Landed : commit[c].ts <= to - 1}
<1>1. \A c \in Commit : commit[c].ts \in Int
  BY CacheAssumption DEF CacheInv, CacheTypeOK
<1>2. old \subseteq Commit /\ new \subseteq Commit /\ all = old \cup new /\ old \cap new = {}
  BY <1>1 DEF Landed, filter_transfers
<1>3. IsFiniteSet(old) /\ IsFiniteSet(new)
  BY <1>2, SumOfCommits
<1> HIDE DEF old, new, all
<1>4. SumOf(Delta, old \cup new) = SumOf(Delta, old) + SumOf(Delta, new)
  BY <1>2, <1>3, CacheAssumption, SumDisjoint
<1> QED
  BY <1>2, <1>4, SumIs DEF SumUpTo, old, new, all

\* The point chosen is one of the candidates, and the candidates are points.
LEMMA ClosestIsAPoint ==
    ASSUME CacheInv, NEW t \in Int, PointsUpTo(t) # {}
    PROVE  \E i \in DOMAIN points : closest(t) = points[i] /\ points[i].watermark <= t
<1> DEFINE P == PointsUpTo(t)
           w(i) == points[i].watermark
           ages == {t - w(i) : i \in P}
<1>0. /\ Len(points) \in Nat /\ DOMAIN points = 1..Len(points)
      /\ \A i \in 1..Len(points) : points[i].watermark \in Int
  <2> DEFINE R == [watermark : Int, balance : Int]
  <2>1. points \in Seq(R)
    BY DEF CacheInv
  <2>2. \A x \in R : x.watermark \in Int
    OBVIOUS
  <2> HIDE DEF R
  <2> QED
    BY <2>1, <2>2
<1>1. ASSUME NEW i \in P
      PROVE  i \in 1..Len(points) /\ w(i) \in Int /\ t - w(i) \in Nat
  <2>1. i \in 1..Len(points) /\ w(i) <= t
    BY <1>0 DEF PointsUpTo
  <2>2. w(i) \in Int
    BY <1>0, <2>1
  <2> QED
    BY <2>1, <2>2
<1>2. PICK i \in P : \A j \in P : t - w(i) <= t - w(j)
  <2>1. ages \subseteq Nat /\ ages # {}
    BY <1>1
  <2> HIDE DEF ages
  <2>2. PICK n \in ages : \A m \in ages : n <= m
    BY <2>1, LeastNatural
  <2> QED
    BY <2>2 DEF ages
<1> DEFINE top == {j \in P : w(j) = w(i)}
           back == {Len(points) - j : j \in top}
<1>3. PICK k \in top : \A j \in top : Len(points) - k <= Len(points) - j
  <2>1. back \subseteq Nat /\ back # {}
    BY <1>0, <1>1, <1>2
  <2> HIDE DEF back
  <2>2. PICK n \in back : \A m \in back : n <= m
    BY <2>1, LeastNatural
  <2> QED
    BY <2>2 DEF back
<1>4. \A j \in P : \/ points[j].watermark < points[k].watermark
                   \/ points[j].watermark = points[k].watermark /\ j <= k
  <2> TAKE j \in P
  <2>1. w(j) <= w(i) /\ w(i) = w(k)
    <3>1. w(j) \in Int /\ w(i) \in Int /\ t - w(i) <= t - w(j)
      BY <1>1, <1>2
    <3>2. w(i) = w(k)
      BY <1>3
    <3> QED
      BY <3>1, <3>2
  <2>2. CASE w(j) = w(i)
    <3>1. Len(points) - k <= Len(points) - j
      BY <1>3, <2>2
    <3>2. Len(points) \in Nat /\ j \in Int /\ k \in Int
      BY <1>1, <1>3 DEF CacheInv
    <3> QED
      BY <2>1, <2>2, <3>1, <3>2
  <2>3. CASE w(j) # w(i)
    BY <1>1, <1>2, <2>1, <2>3
  <2> QED
    BY <2>2, <2>3
<1> DEFINE best == CHOOSE m \in P : \A j \in P :
                      \/ points[j].watermark < points[m].watermark
                      \/ points[j].watermark = points[m].watermark /\ j <= m
<1>5. best \in P
  BY <1>3, <1>4
<1>6. closest(t) = points[best]
  BY DEF closest
<1> QED
  BY <1>5, <1>6 DEF PointsUpTo

\* What is known of the chosen point: its types, and how late it can be.
LEMMA ClosestFacts ==
    ASSUME CacheInv, NEW t \in Int, PointsUpTo(t) # {}
    PROVE  /\ closest(t).watermark \in Int /\ closest(t).balance \in Int
           /\ closest(t).watermark <= t /\ closest(t).watermark <= clock - Grace
           /\ PointsOK => Settled(closest(t).watermark, closest(t).balance)
<1>1. PICK i \in DOMAIN points : closest(t) = points[i] /\ points[i].watermark <= t
  BY ClosestIsAPoint
<1>2. points[i].watermark \in Int /\ points[i].balance \in Int
  <2> DEFINE R == [watermark : Int, balance : Int]
  <2>1. points \in Seq(R)
    BY DEF CacheInv
  <2>2. \A x \in R : x.watermark \in Int /\ x.balance \in Int
    OBVIOUS
  <2> HIDE DEF R
  <2> QED
    BY <1>1, <2>1, <2>2
<1>3. points[i].watermark <= clock - Grace
  BY <1>1 DEF CacheInv, CacheTypeOK
<1>4. PointsOK => Settled(points[i].watermark, points[i].balance)
  BY <1>1 DEF PointsOK
<1> QED
  BY <1>1, <1>2, <1>3, <1>4

-----------------------------------------------------------------------------
(* Types are preserved. *)

\* No cache point, and every task idle.
LEMMA InitCache == CacheInit => CacheInv
BY CacheAssumption DEF CacheInit, CacheInv, CacheTypeOK, NoLocal, Locals

\* A later clock only widens what a point may cover.
LEMMA TickTypes == ASSUME CacheInv, Tick PROVE CacheInv'
<1>1. clock \in 0..MaxClock /\ clock' = clock + 1 /\ clock' \in 0..MaxClock /\ Grace \in Nat
  BY CacheAssumption DEF CacheInv, CacheTypeOK, Tick
<1>2. \A i \in DOMAIN points : points[i].watermark \in Int
  <2> DEFINE R == [watermark : Int, balance : Int]
  <2>1. points \in Seq(R)
    BY DEF CacheInv
  <2>2. \A x \in R : x.watermark \in Int
    OBVIOUS
  <2> HIDE DEF R
  <2> QED
    BY <2>1, <2>2
<1>3. \A r \in Reader : local[r].from \in Int /\ local[r].watermark \in Int
  BY DEF CacheInv, Locals
<1>4. \A c \in Commit : commit[c].ts \in Int
  BY CacheAssumption DEF CacheInv, CacheTypeOK
<1> QED
  BY <1>1, <1>2, <1>3, <1>4 DEF CacheInv, CacheTypeOK, Tick

\* A commit is stamped with the present time.
LEMMA StampTypes == ASSUME NEW c \in Commit, CacheInv, Stamp(c) PROVE CacheInv'
BY CacheAssumption DEF CacheInv, CacheTypeOK, Stamp

\* A stamped commit lands or is rejected.
LEMMA LandTypes == ASSUME NEW c \in Commit, CacheInv, Land(c) PROVE CacheInv'
BY CacheAssumption DEF CacheInv, CacheTypeOK, Land

\* A task that keeps to the types of its locals keeps the types of everything.
LEMMA TaskTypes ==
    ASSUME CacheInv, NEW r \in Reader, UNCHANGED <<clock, commit, points>>,
           NEW task \in Locals, local' = [local EXCEPT ![r] = task], task.from <= clock + 1,
           NEW label \in {"idle", "compute", "fold", "append", "window", "write"}, Goto(r, label),
           label \in {"window", "write"} => task.watermark <= clock - Grace,
           appends' \in 0..MaxPoints
    PROVE  CacheInv'
<1>1. local' \in [Reader -> Locals]
  BY DEF CacheInv
<1>2. pc' \in [Reader -> {"idle", "compute", "fold", "append", "window", "write"}]
  BY DEF CacheInv, CacheTypeOK, Goto
<1>3. \A q \in Reader : local'[q].base \in Int /\ local'[q].from <= clock' + 1
  BY DEF CacheInv, CacheTypeOK, Locals
<1>4. \A q \in Reader : pc'[q] \in {"window", "write"} => local'[q].watermark <= clock' - Grace
  BY DEF CacheInv, CacheTypeOK, Goto
<1> QED
  BY <1>1, <1>2, <1>3, <1>4 DEF CacheInv, CacheTypeOK

\* The task that forgets what it read.
LEMMA NoLocalTypes ==
    ASSUME CacheInv
    PROVE  /\ NoLocal \in Locals /\ NoLocal.from <= clock + 1 /\ NoLocal.base = 0
           /\ Spawned \in Locals /\ Spawned.from <= clock + 1 /\ Spawned.base = 0
<1>1. clock \in Nat
  BY CacheAssumption DEF CacheInv, CacheTypeOK
<1>2. NoLocal \in Locals /\ NoLocal.from = 0 /\ NoLocal.base = 0
  BY DEF NoLocal, Locals
<1>3. Spawned \in Locals /\ Spawned.from = NoLocal.from /\ Spawned.base = NoLocal.base
  BY <1>2, CacheAssumption DEF Spawned, Locals
<1> QED
  BY <1>1, <1>2, <1>3

\* A task that ends forgets its locals.
LEMMA FinishTypes ==
    ASSUME CacheInv, NEW r \in Reader, UNCHANGED <<clock, commit, points>>, Finish(r),
           appends' \in 0..MaxPoints
    PROVE  CacheInv'
BY NoLocalTypes, TaskTypes DEF Finish

\* A task that starts an append starts from typed locals.
LEMMA StartTypes ==
    ASSUME CacheInv, NEW r \in Reader, UNCHANGED <<clock, commit, points>>,
           NEW task \in {NoLocal, Spawned}, StartAppend(r, task)
    PROVE  CacheInv'
<1>1. appends \in 0..MaxPoints /\ MaxPoints \in Nat
  BY CacheAssumption DEF CacheInv, CacheTypeOK
<1>2. task \in Locals /\ task.from <= clock + 1
  BY NoLocalTypes
<1>3. CASE /\ appends < MaxPoints
           /\ local' = [local EXCEPT ![r] = task]
           /\ Goto(r, "append")
           /\ appends' = appends + 1
  <2>1. appends' \in 0..MaxPoints
    BY <1>1, <1>3
  <2> QED
    BY <1>2, <1>3, <2>1, TaskTypes
<1>4. CASE appends = MaxPoints /\ Finish(r) /\ UNCHANGED appends
  BY <1>1, <1>4, FinishTypes
<1> QED
  BY <1>3, <1>4 DEF StartAppend

\* A read starts from the closest point, or from nothing.
LEMMA ReadPointTypes == ASSUME NEW r \in Reader, CacheInv, ReadPoint(r) PROVE CacheInv'
<1>0. clock \in Int /\ Grace \in Nat /\ appends \in 0..MaxPoints /\ local[r] \in Locals
      /\ local[r].from <= clock + 1
  BY CacheAssumption DEF CacheInv, CacheTypeOK
<1>1. CASE PointsUpTo(clock) # {}
  <2> DEFINE p == closest(clock)
             task == [NoLocal EXCEPT !.base = p.balance, !.from = FirstUncovered(p)]
  <2>1. p.watermark \in Int /\ p.balance \in Int /\ p.watermark <= clock - Grace
    BY <1>0, <1>1, ClosestFacts
  <2>2. task \in Locals /\ task.from <= clock + 1
    <3> HIDE DEF p
    <3>1. NoLocal \in Locals
      BY NoLocalTypes
    <3>2. task \in Locals
      <4>1. ASSUME NEW b \in Int, NEW f \in Int
            PROVE  [NoLocal EXCEPT !.base = b, !.from = f] \in Locals
        BY <3>1 DEF Locals
      <4>2. p.balance \in Int /\ FirstUncovered(p) \in Int
        BY <2>1 DEF FirstUncovered
      <4> QED
        BY <4>1, <4>2
    <3>3. task.from = p.watermark + 1
      BY <3>1 DEF Locals, FirstUncovered
    <3> QED
      BY <1>0, <2>1, <3>2, <3>3
  <2>3. local' = [local EXCEPT ![r] = task] /\ Goto(r, "fold") /\ appends' \in 0..MaxPoints
    BY <1>0, <1>1 DEF ReadPoint
  <2> HIDE DEF task
  <2> QED
    BY <2>2, <2>3, TaskTypes DEF ReadPoint
<1>2. CASE PointsUpTo(clock) = {}
  <2>1. local' = [local EXCEPT ![r] = local[r]] /\ Goto(r, "compute") /\ appends' \in 0..MaxPoints
    BY <1>0, <1>2 DEF ReadPoint, CacheInv
  <2> QED
    BY <1>0, <2>1, TaskTypes DEF ReadPoint
<1> QED
  BY <1>1, <1>2

\* A read without a point sums the live postings.
LEMMA ReadLiveTypes == ASSUME NEW r \in Reader, CacheInv, ReadLive(r) PROVE CacheInv'
BY StartTypes DEF ReadLive

\* A read with a point adds the transfers since.
LEMMA ReadTailTypes == ASSUME NEW r \in Reader, CacheInv, ReadTail(r) PROVE CacheInv'
<1>1. CASE StartAppend(r, Spawned)
  BY <1>1, StartTypes DEF ReadTail
<1>2. CASE Finish(r) /\ UNCHANGED appends
  BY <1>2, FinishTypes DEF ReadTail, CacheInv, CacheTypeOK
<1> QED
  BY <1>1, <1>2 DEF ReadTail

\* A forced append starts like a spawned one.
LEMMA ForceAppendTypes == ASSUME NEW r \in Reader, CacheInv, ForceAppend(r) PROVE CacheInv'
BY StartTypes DEF ForceAppend

\* An append stays the grace period behind the clock it read.
LEMMA AppendPointTypes == ASSUME NEW r \in Reader, CacheInv, AppendPoint(r) PROVE CacheInv'
<1>0. clock \in Nat /\ Grace \in Nat /\ NewWatermark \in Int /\ appends' \in 0..MaxPoints
      /\ local[r] \in Locals /\ local \in [Reader -> Locals]
  BY CacheAssumption DEF CacheInv, CacheTypeOK, NewWatermark, AppendPoint
<1>1. CASE Finish(r)
  BY <1>0, <1>1, FinishTypes DEF AppendPoint
<1>2. CASE /\ PointsUpTo(NewWatermark) # {}
           /\ local' = [local EXCEPT ![r].watermark = NewWatermark,
                                     ![r].base = closest(NewWatermark).balance,
                                     ![r].from = FirstUncovered(closest(NewWatermark))]
           /\ Goto(r, "window")
  <2> DEFINE p == closest(NewWatermark)
             task == [local[r] EXCEPT !.watermark = NewWatermark, !.base = p.balance,
                                      !.from = FirstUncovered(p)]
  <2>1. p.watermark \in Int /\ p.balance \in Int /\ p.watermark <= clock - Grace
    BY <1>0, <1>2, ClosestFacts
  <2>2. local' = [local EXCEPT ![r] = task]
    BY <1>0, <1>2 DEF Locals
  <2>3. ASSUME NEW w \in Int, NEW b \in Int, NEW f \in Int
        PROVE  LET t == [local[r] EXCEPT !.watermark = w, !.base = b, !.from = f]
               IN t \in Locals /\ t.from = f /\ t.watermark = w
    BY <1>0 DEF Locals
  <2>4. task \in Locals /\ task.from = FirstUncovered(p) /\ task.watermark = NewWatermark
    <3>1. NewWatermark \in Int /\ p.balance \in Int /\ FirstUncovered(p) \in Int
      BY <1>0, <2>1 DEF FirstUncovered
    <3> QED
      BY <2>3, <3>1
  <2> HIDE DEF task, p
  <2>5. task.from <= clock + 1 /\ task.watermark <= clock - Grace
    BY <1>0, <2>1, <2>4 DEF FirstUncovered, NewWatermark
  <2> QED
    BY <1>0, <1>2, <2>2, <2>4, <2>5, TaskTypes DEF AppendPoint
<1>3. CASE /\ PointsUpTo(NewWatermark) = {}
           /\ local' = [local EXCEPT ![r].watermark = NewWatermark, ![r].from = Beginning]
           /\ Goto(r, "window")
  <2> DEFINE task == [local[r] EXCEPT !.watermark = NewWatermark, !.from = Beginning]
  <2>1. local' = [local EXCEPT ![r] = task]
    BY <1>0, <1>3 DEF Locals
  <2>2. ASSUME NEW w \in Int, NEW f \in Int
        PROVE  LET t == [local[r] EXCEPT !.watermark = w, !.from = f]
               IN t \in Locals /\ t.from = f /\ t.watermark = w
    BY <1>0 DEF Locals
  <2>3. task \in Locals /\ task.from = Beginning /\ task.watermark = NewWatermark
    <3>1. NewWatermark \in Int /\ Beginning \in Int
      BY <1>0 DEF Beginning
    <3> QED
      BY <2>2, <3>1
  <2> HIDE DEF task
  <2>4. task.from <= clock + 1 /\ task.watermark <= clock - Grace
    BY <1>0, <2>3 DEF Beginning, NewWatermark
  <2> QED
    BY <1>0, <1>3, <2>1, <2>3, <2>4, TaskTypes DEF AppendPoint
<1> QED
  BY <1>1, <1>2, <1>3 DEF AppendPoint

\* Folding a window adds an integer to the balance carried.
LEMMA AppendFoldTypes == ASSUME NEW r \in Reader, CacheInv, AppendFold(r) PROVE CacheInv'
<1> DEFINE window == filter_transfers(local[r].from, WindowEnd(r))
           task == [local[r] EXCEPT !.base = @ + SumOfDeltas(window)]
<1>0. /\ appends' \in 0..MaxPoints /\ local[r] \in Locals /\ local \in [Reader -> Locals]
      /\ local[r].watermark <= clock - Grace /\ local[r].from <= clock + 1
  BY DEF CacheInv, CacheTypeOK, AppendFold
<1>1. CASE Finish(r)
  BY <1>0, <1>1, FinishTypes DEF AppendFold
<1>2. CASE /\ local' = [local EXCEPT ![r].base = @ + SumOfDeltas(window)]
           /\ Goto(r, "write")
  <2>1. SumOfDeltas(window) \in Int
    <3>1. window \in SUBSET Commit
      BY DEF filter_transfers, Landed
    <3> QED
      BY <3>1, SumOfCommits
  <2>2. local' = [local EXCEPT ![r] = task]
    BY <1>0, <1>2 DEF Locals
  <2>3. ASSUME NEW n \in Int
        PROVE  LET t == [local[r] EXCEPT !.base = @ + n]
               IN t \in Locals /\ t.from = local[r].from /\ t.watermark = local[r].watermark
    BY <1>0 DEF Locals
  <2>4. task \in Locals /\ task.from = local[r].from /\ task.watermark = local[r].watermark
    BY <2>1, <2>3
  <2> HIDE DEF task
  <2> QED
    BY <1>0, <1>2, <2>2, <2>4, TaskTypes DEF AppendFold
<1> QED
  BY <1>1, <1>2 DEF AppendFold

\* The point written is typed and at least the grace period old.
LEMMA AppendWriteTypes == ASSUME NEW r \in Reader, CacheInv, AppendWrite(r) PROVE CacheInv'
<1> DEFINE R == [watermark : Int, balance : Int]
           point == [watermark |-> local[r].watermark, balance |-> local[r].base]
<1>1. /\ points \in Seq(R) /\ point \in R /\ points' = Append(points, point)
      /\ local[r].watermark <= clock - Grace /\ point.watermark = local[r].watermark
      /\ point.balance \in Int
  BY DEF CacheInv, CacheTypeOK, Locals, AppendWrite
<1> HIDE DEF R, point
<1>2. points' \in Seq(R) /\ DOMAIN points' = 1..(Len(points) + 1)
  BY <1>1
<1>3. \A i \in DOMAIN points' : points'[i].balance \in Int /\ points'[i].watermark <= clock - Grace
  <2> TAKE i \in DOMAIN points'
  <2>1. CASE i \in DOMAIN points
    BY <1>1, <2>1 DEF CacheInv, CacheTypeOK
  <2>2. CASE i \notin DOMAIN points
    <3>1. points'[i] = point
      BY <1>1, <1>2, <2>2
    <3> QED
      BY <1>1, <3>1
  <2> QED
    BY <2>1, <2>2
<1>4. /\ local' \in [Reader -> Locals]
      /\ pc' \in [Reader -> {"idle", "compute", "fold", "append", "window", "write"}]
  BY NoLocalTypes DEF AppendWrite, Finish, Goto, CacheInv, CacheTypeOK
<1>5. \A q \in Reader : local'[q].base \in Int /\ local'[q].from <= clock + 1
  BY NoLocalTypes DEF AppendWrite, Finish, Goto, CacheInv, CacheTypeOK
<1>6. \A q \in Reader : pc'[q] \in {"window", "write"} => local'[q].watermark <= clock - Grace
  BY DEF AppendWrite, Finish, Goto, CacheInv, CacheTypeOK
<1>7. points' \in Seq([watermark : Int, balance : Int])
  BY <1>2 DEF R
<1> QED
  BY <1>3, <1>4, <1>5, <1>6, <1>7 DEF CacheInv, CacheTypeOK, AppendWrite

\* Every step keeps the types.
LEMMA NextTypes == ASSUME CacheInv, [CacheNext]_cacheVars PROVE CacheInv'
<1>1. CASE UNCHANGED cacheVars
  BY <1>1 DEF cacheVars, CacheInv, CacheTypeOK
<1>2. CASE CacheNext
  BY <1>2, TickTypes, StampTypes, LandTypes, ReadPointTypes, ReadLiveTypes, ReadTailTypes,
     ForceAppendTypes, AppendPointTypes, AppendFoldTypes, AppendWriteTypes DEF CacheNext
<1> QED
  BY <1>1, <1>2

\* The tables and locals keep their types, and no point claims to cover the last
\* Grace instants.
THEOREM CacheTypes == CacheSpec => []CacheTypeOK
<1>1. CacheInv => CacheTypeOK
  BY DEF CacheInv
<1> QED
  BY <1>1, InitCache, NextTypes, PTL DEF CacheSpec

-----------------------------------------------------------------------------
(* What has settled stays settled, when the grace exceeds the lag. *)

\* The code's projection_grace_ms is longer than any commit takes to land.
GraceExceedsLag == MaxLag < Grace

\* The integers the argument compares.
LEMMA Numbers ==
    ASSUME CacheInv
    PROVE  /\ clock \in Nat /\ clock <= MaxClock /\ MaxClock \in Nat /\ Grace \in Nat /\ MaxLag \in Nat
           /\ \A c \in Commit : commit[c].ts \in Nat /\ commit[c].ts <= clock
           /\ \A r \in Reader : /\ local[r].from \in Int /\ local[r].watermark \in Int
                                /\ local[r].base \in Int
           /\ \A i \in DOMAIN points : points[i].watermark \in Int /\ points[i].balance \in Int
<1>1. \A i \in DOMAIN points : points[i].watermark \in Int /\ points[i].balance \in Int
  <2> DEFINE R == [watermark : Int, balance : Int]
  <2>1. points \in Seq(R)
    BY DEF CacheInv
  <2>2. \A x \in R : x.watermark \in Int /\ x.balance \in Int
    OBVIOUS
  <2> HIDE DEF R
  <2> QED
    BY <2>1, <2>2
<1>2. \A r \in Reader : local[r].from \in Int /\ local[r].watermark \in Int /\ local[r].base \in Int
  BY DEF CacheInv, Locals
<1>3. \A c \in Commit : commit[c].ts \in Nat /\ commit[c].ts <= clock
  BY CacheAssumption DEF CacheInv, CacheTypeOK
<1> QED
  BY <1>1, <1>2, <1>3, CacheAssumption DEF CacheInv, CacheTypeOK

\* An instant that lies the grace back has settled.
LEMMA SettlesInTime ==
    ASSUME CacheInv, GraceExceedsLag, InTime, NEW w \in Int, w <= clock - Grace
    PROVE  NoneUnderWay(w)
BY Numbers DEF GraceExceedsLag, InTime, NoneUnderWay

\* A step of the clock or of a commit, or of neither.
CommitStep == Tick \/ (\E c \in Commit : Stamp(c) \/ Land(c)) \/ UNCHANGED <<clock, commit>>

\* What has settled up to w never changes: a transfer that is stamped or lands
\* later is stamped after w.
LEMMA SettledStays ==
    ASSUME CacheInv, GraceExceedsLag, NEW w \in Int, NEW b, Settled(w, b), CommitStep
    PROVE  Settled(w, b)'
<1>0. w < clock /\ w <= clock - Grace /\ NoneUnderWay(w) /\ b = SumUpTo(w)
  BY Numbers DEF GraceExceedsLag, Settled
<1>1. /\ w <= clock' - Grace
      /\ \A c \in Commit : /\ (commit'[c].state = "landed" /\ commit'[c].ts <= w)
                                <=> (commit[c].state = "landed" /\ commit[c].ts <= w)
                           /\ commit'[c].state = "stamped" => commit'[c].ts > w
  <2>1. CASE Tick
    BY <1>0, <2>1, Numbers DEF Tick, NoneUnderWay
  <2>2. ASSUME NEW d \in Commit, Stamp(d) PROVE <1>1
    BY <1>0, <2>2, Numbers DEF Stamp, NoneUnderWay, CacheInv, CacheTypeOK
  <2>3. ASSUME NEW d \in Commit, Land(d) PROVE <1>1
    BY <1>0, <2>3, Numbers DEF Land, NoneUnderWay, CacheInv, CacheTypeOK
  <2>4. CASE UNCHANGED <<clock, commit>>
    BY <1>0, <2>4 DEF NoneUnderWay
  <2> QED
    BY <2>1, <2>2, <2>3, <2>4 DEF CommitStep
<1>2. {c \in Landed : commit[c].ts <= w}' = {c \in Landed : commit[c].ts <= w}
  BY <1>1 DEF Landed
<1>3. SumUpTo(w)' = SumUpTo(w)
  BY <1>2 DEF SumUpTo
<1> QED
  BY <1>0, <1>1, <1>3 DEF Settled, NoneUnderWay

\* No commit outlives the lag.
LEMMA InTimeStays ==
    ASSUME CacheInv, InTime, CommitStep PROVE InTime'
<1>1. CASE Tick
  BY <1>1, Numbers DEF Tick, InTime
<1>2. ASSUME NEW d \in Commit, Stamp(d) PROVE InTime'
  BY <1>2, Numbers DEF Stamp, InTime, CacheInv, CacheTypeOK
<1>3. ASSUME NEW d \in Commit, Land(d) PROVE InTime'
  BY <1>3, Numbers DEF Land, InTime, CacheInv, CacheTypeOK
<1>4. CASE UNCHANGED <<clock, commit>>
  BY <1>4 DEF InTime
<1> QED
  BY <1>1, <1>2, <1>3, <1>4 DEF CommitStep

\* A task that does not move keeps what it holds.
LEMMA TaskStays ==
    ASSUME CacheInv, GraceExceedsLag, CommitStep, NEW r \in Reader, TaskOK(r),
           pc'[r] = pc[r], local'[r] = local[r]
    PROVE  TaskOK(r)'
<1>1. local[r].from - 1 \in Int /\ local[r].watermark \in Int
  BY Numbers
<1>2. ASSUME NEW w \in Int, NEW b, Settled(w, b) PROVE Settled(w, b)'
  BY <1>2, SettledStays
<1>3. ASSUME Settled(local[r].from - 1, local[r].base)
      PROVE  Settled(local[r].from - 1, local[r].base)'
  BY <1>1, <1>2, <1>3 DEF Settled, SumUpTo, NoneUnderWay, Landed
<1>4. ASSUME Settled(local[r].watermark, local[r].base)
      PROVE  Settled(local[r].watermark, local[r].base)'
  BY <1>1, <1>2, <1>4 DEF Settled, SumUpTo, NoneUnderWay, Landed
<1> QED
  BY <1>3, <1>4 DEF TaskOK

\* The points in the table keep what they cover.
LEMMA PointsStay ==
    ASSUME CacheInv, GraceExceedsLag, CommitStep, PointsOK, UNCHANGED points
    PROVE  PointsOK'
<1>1. ASSUME NEW i \in DOMAIN points PROVE Settled(points[i].watermark, points[i].balance)'
  <2>1. points[i].watermark \in Int /\ Settled(points[i].watermark, points[i].balance)
    BY Numbers DEF PointsOK
  <2>2. ASSUME NEW w \in Int, NEW b, Settled(w, b) PROVE Settled(w, b)'
    BY <2>2, SettledStays
  <2> QED
    BY <2>1, <2>2 DEF Settled, SumUpTo, NoneUnderWay, Landed
<1> QED
  BY <1>1 DEF PointsOK

\* A step of one reader that leaves the tables alone: only its own task is in
\* question.
LEMMA ReaderStep ==
    ASSUME SettledInv, GraceExceedsLag, NEW r \in Reader, UNCHANGED <<clock, commit, points>>,
           NEW label, Goto(r, label), NEW task, local' = [local EXCEPT ![r] = task],
           TaskOK(r)'
    PROVE  InTime' /\ PointsOK' /\ \A q \in Reader : TaskOK(q)'
<1>1. CommitStep
  BY DEF CommitStep
<1>2. InTime' /\ PointsOK'
  BY <1>1, InTimeStays, PointsStay DEF SettledInv
<1>3. ASSUME NEW q \in Reader, q # r PROVE TaskOK(q)'
  <2>1. pc'[q] = pc[q] /\ local'[q] = local[q]
    BY <1>3 DEF Goto, SettledInv, CacheInv, CacheTypeOK
  <2> QED
    BY <1>1, <2>1, TaskStays DEF SettledInv
<1> QED
  BY <1>2, <1>3

\* A task that ends, or starts an append, holds nothing that could be wrong.
LEMMA QuietStep ==
    ASSUME SettledInv, GraceExceedsLag, NEW r \in Reader, UNCHANGED <<clock, commit, points>>,
           Finish(r) \/ (\E task \in {NoLocal, Spawned} : StartAppend(r, task))
    PROVE  InTime' /\ PointsOK' /\ \A q \in Reader : TaskOK(q)'
<1>0. pc \in [Reader -> {"idle", "compute", "fold", "append", "window", "write"}]
      /\ local \in [Reader -> Locals]
  BY DEF SettledInv, CacheInv, CacheTypeOK
<1>1. CASE Finish(r)
  <2>1. pc'[r] = "idle"
    BY <1>0, <1>1 DEF Finish, Goto
  <2> QED
    BY <1>1, <2>1, ReaderStep DEF Finish, TaskOK
<1>2. ASSUME NEW task \in {NoLocal, Spawned}, Goto(r, "append"), local' = [local EXCEPT ![r] = task]
      PROVE  InTime' /\ PointsOK' /\ \A q \in Reader : TaskOK(q)'
  <2>1. pc'[r] = "append" /\ local'[r].base = 0
    BY <1>0, <1>2, NoLocalTypes DEF Goto, SettledInv
  <2> QED
    BY <1>2, <2>1, ReaderStep DEF TaskOK
<1> QED
  BY <1>1, <1>2 DEF StartAppend

-----------------------------------------------------------------------------
(* Each step keeps the invariant. *)

\* No point and no task: nothing to settle.
LEMMA InitSettled == CacheInit => SettledInv
<1> SUFFICES ASSUME CacheInit PROVE SettledInv
  OBVIOUS
<1>1. CacheInv
  BY InitCache
<1>2. InTime
  BY DEF CacheInit, InTime
<1>3. PointsOK
  BY DEF CacheInit, PointsOK
<1>4. \A r \in Reader : TaskOK(r)
  BY DEF CacheInit, TaskOK
<1> QED
  BY <1>1, <1>2, <1>3, <1>4 DEF SettledInv

\* The point a read starts from has settled, hence so has the balance it carries.
LEMMA ReadPointSettled ==
    ASSUME SettledInv, GraceExceedsLag, NEW r \in Reader, ReadPoint(r)
    PROVE  InTime' /\ PointsOK' /\ \A q \in Reader : TaskOK(q)'
<1>0. /\ CacheInv /\ clock \in Int /\ PointsOK
      /\ pc \in [Reader -> {"idle", "compute", "fold", "append", "window", "write"}]
      /\ local \in [Reader -> Locals]
  BY Numbers DEF SettledInv, CacheInv, CacheTypeOK
<1>1. CASE PointsUpTo(clock) # {}
  <2> DEFINE p == closest(clock)
             task == [NoLocal EXCEPT !.base = p.balance, !.from = FirstUncovered(p)]
  <2>1. p.watermark \in Int /\ Settled(p.watermark, p.balance)
    BY <1>0, <1>1, ClosestFacts
  <2>2. local' = [local EXCEPT ![r] = task] /\ Goto(r, "fold")
    BY <1>1 DEF ReadPoint
  <2>3. task.base = p.balance /\ task.from = p.watermark + 1
    BY <1>0, NoLocalTypes DEF Locals, FirstUncovered
  <2>4. local'[r] = task /\ pc'[r] = "fold"
    BY <1>0, <2>2 DEF Goto
  <2> HIDE DEF p, task
  <2>5. local'[r].from - 1 = p.watermark /\ local'[r].base = p.balance
    BY <2>1, <2>3, <2>4
  <2>6. Settled(local[r].from - 1, local[r].base)'
    BY <2>1, <2>5 DEF ReadPoint, Settled, SumUpTo, NoneUnderWay, Landed
  <2>7. TaskOK(r)'
    BY <2>4, <2>6 DEF TaskOK
  <2> QED
    BY <2>2, <2>7, ReaderStep DEF ReadPoint
<1>2. CASE PointsUpTo(clock) = {}
  <2>1. local' = [local EXCEPT ![r] = local[r]] /\ Goto(r, "compute")
    BY <1>0, <1>2 DEF ReadPoint
  <2>2. pc'[r] = "compute"
    BY <1>0, <2>1 DEF Goto
  <2> QED
    BY <2>1, <2>2, ReaderStep DEF ReadPoint, TaskOK
<1> QED
  BY <1>1, <1>2

\* Before the first instant nothing was stamped.
LEMMA BeginningSettled ==
    ASSUME CacheInv PROVE Settled(Beginning - 1, 0) /\ Beginning - 1 \in Int
<1>1. /\ Beginning - 1 \in Int /\ Beginning - 1 <= clock - Grace
      /\ \A c \in Commit : ~(commit[c].ts <= Beginning - 1) /\ commit[c].ts > Beginning - 1
  BY Numbers DEF Beginning
<1>2. {c \in Landed : commit[c].ts <= Beginning - 1} = {}
  BY <1>1 DEF Landed
<1>3. SumUpTo(Beginning - 1) = 0
  BY <1>2, SumIs, SumEmpty DEF SumUpTo
<1> QED
  BY <1>1, <1>3 DEF Settled, NoneUnderWay

\* The point an append starts from has settled, and so will its watermark have.
LEMMA AppendPointSettled ==
    ASSUME SettledInv, GraceExceedsLag, NEW r \in Reader, AppendPoint(r)
    PROVE  InTime' /\ PointsOK' /\ \A q \in Reader : TaskOK(q)'
<1>0. /\ CacheInv /\ clock \in Nat /\ Grace \in Nat /\ NewWatermark \in Int /\ PointsOK
      /\ pc \in [Reader -> {"idle", "compute", "fold", "append", "window", "write"}]
      /\ local \in [Reader -> Locals] /\ local[r] \in Locals
      /\ local[r].base = 0
  BY Numbers DEF SettledInv, CacheInv, CacheTypeOK, NewWatermark, AppendPoint, TaskOK
<1>1. CASE Finish(r)
  BY <1>1, QuietStep DEF AppendPoint
<1>2. CASE /\ PointsUpTo(NewWatermark) # {}
           /\ local' = [local EXCEPT ![r].watermark = NewWatermark,
                                     ![r].base = closest(NewWatermark).balance,
                                     ![r].from = FirstUncovered(closest(NewWatermark))]
           /\ Goto(r, "window")
  <2> DEFINE p == closest(NewWatermark)
             task == [local[r] EXCEPT !.watermark = NewWatermark, !.base = p.balance,
                                      !.from = FirstUncovered(p)]
  <2>1. p.watermark \in Int /\ p.watermark <= NewWatermark /\ Settled(p.watermark, p.balance)
    BY <1>0, <1>2, ClosestFacts
  <2>2. local' = [local EXCEPT ![r] = task]
    BY <1>0, <1>2 DEF Locals
  <2>3. task.base = p.balance /\ task.from = p.watermark + 1 /\ task.watermark = NewWatermark
    BY <1>0 DEF Locals, FirstUncovered
  <2>4. local'[r] = task /\ pc'[r] = "window"
    BY <1>0, <1>2, <2>2 DEF Goto
  <2> HIDE DEF p, task
  <2>5. /\ local'[r].from - 1 = p.watermark /\ local'[r].base = p.balance
        /\ local'[r].from <= local'[r].watermark + 1
    BY <1>0, <2>1, <2>3, <2>4
  <2>6. Settled(local[r].from - 1, local[r].base)'
    BY <2>1, <2>5 DEF AppendPoint, Settled, SumUpTo, NoneUnderWay, Landed
  <2>7. TaskOK(r)'
    BY <2>4, <2>5, <2>6 DEF TaskOK
  <2> QED
    BY <1>2, <2>2, <2>7, ReaderStep DEF AppendPoint
<1>3. CASE /\ PointsUpTo(NewWatermark) = {}
           /\ local' = [local EXCEPT ![r].watermark = NewWatermark, ![r].from = Beginning]
           /\ Goto(r, "window")
  <2> DEFINE task == [local[r] EXCEPT !.watermark = NewWatermark, !.from = Beginning]
  <2>1. local' = [local EXCEPT ![r] = task]
    BY <1>0, <1>3 DEF Locals
  <2>2. task.base = 0 /\ task.from = Beginning /\ task.watermark = NewWatermark
    BY <1>0 DEF Locals
  <2>3. local'[r] = task /\ pc'[r] = "window"
    BY <1>0, <1>3, <2>1 DEF Goto
  <2> HIDE DEF task
  <2>4. /\ local'[r].from = Beginning /\ local'[r].base = 0
        /\ local'[r].from <= local'[r].watermark + 1
    BY <1>0, <2>2, <2>3 DEF Beginning, NewWatermark
  <2>5. Settled(local[r].from - 1, local[r].base)'
    BY <1>0, <2>4, BeginningSettled DEF AppendPoint, Settled, SumUpTo, NoneUnderWay, Landed
  <2>6. TaskOK(r)'
    BY <2>3, <2>4, <2>5 DEF TaskOK
  <2> QED
    BY <1>3, <2>1, <2>6, ReaderStep DEF AppendPoint
<1> QED
  BY <1>1, <1>2, <1>3 DEF AppendPoint

\* The window up to the watermark completes what the point below it covers.
LEMMA AppendFoldSettled ==
    ASSUME SettledInv, GraceExceedsLag, NEW r \in Reader, AppendFold(r)
    PROVE  InTime' /\ PointsOK' /\ \A q \in Reader : TaskOK(q)'
<1> DEFINE window == filter_transfers(local[r].from, WindowEnd(r))
           task == [local[r] EXCEPT !.base = @ + SumOfDeltas(window)]
           w == local[r].watermark
           f == local[r].from
<1>0. /\ CacheInv /\ InTime
      /\ pc \in [Reader -> {"idle", "compute", "fold", "append", "window", "write"}]
      /\ local \in [Reader -> Locals] /\ local[r] \in Locals
      /\ w \in Int /\ f \in Int /\ w <= clock - Grace /\ f <= w + 1
      /\ Settled(f - 1, local[r].base)
  BY Numbers DEF SettledInv, CacheInv, CacheTypeOK, AppendFold, TaskOK
<1>1. CASE Finish(r)
  BY <1>1, QuietStep DEF AppendFold
<1>2. CASE local' = [local EXCEPT ![r].base = @ + SumOfDeltas(window)] /\ Goto(r, "write")
  <2>1. local' = [local EXCEPT ![r] = task]
    BY <1>0, <1>2 DEF Locals
  <2>2. local'[r] = task /\ pc'[r] = "write"
    BY <1>0, <1>2, <2>1 DEF Goto
  <2>3. task.base = local[r].base + SumOfDeltas(window) /\ task.watermark = w
    BY <1>0 DEF Locals
  <2>4. SumUpTo(f - 1) + SumOfDeltas(window) = SumUpTo(w)
    <3>1. /\ f - 1 \in Int /\ w + 1 \in Int /\ f - 1 < w + 1 /\ (f - 1) + 1 = f
          /\ (w + 1) - 1 = w /\ WindowEnd(r) = w + 1
      BY <1>0 DEF WindowEnd
    <3> HIDE DEF w, f
    <3>2. SumUpTo(f - 1) + SumOfDeltas(filter_transfers((f - 1) + 1, w + 1)) = SumUpTo((w + 1) - 1)
      BY <1>0, <3>1, SumOfWindow
    <3> QED
      BY <3>1, <3>2 DEF f
  <2>5. Settled(w, task.base)
    BY <1>0, <2>3, <2>4, SettlesInTime DEF Settled
  <2> HIDE DEF task, w
  <2>6. Settled(local[r].watermark, local[r].base)'
    BY <2>2, <2>3, <2>5 DEF AppendFold, Settled, SumUpTo, NoneUnderWay, Landed
  <2>7. TaskOK(r)'
    BY <2>2, <2>6 DEF TaskOK
  <2> QED
    BY <1>2, <2>1, <2>7, ReaderStep DEF AppendFold
<1> QED
  BY <1>1, <1>2 DEF AppendFold

\* The point written has settled: no transfer up to its watermark is under way.
LEMMA AppendWriteSettled ==
    ASSUME SettledInv, GraceExceedsLag, NEW r \in Reader, AppendWrite(r)
    PROVE  InTime' /\ PointsOK' /\ \A q \in Reader : TaskOK(q)'
<1> DEFINE R == [watermark : Int, balance : Int]
           point == [watermark |-> local[r].watermark, balance |-> local[r].base]
<1>0. /\ CacheInv /\ UNCHANGED <<clock, commit>>
      /\ pc \in [Reader -> {"idle", "compute", "fold", "append", "window", "write"}]
      /\ local \in [Reader -> Locals]
      /\ Settled(local[r].watermark, local[r].base)
  BY DEF SettledInv, CacheInv, CacheTypeOK, AppendWrite, TaskOK
<1>1. /\ points \in Seq(R) /\ point \in R /\ points' = Append(points, point)
      /\ Settled(point.watermark, point.balance)
  BY <1>0, Numbers DEF CacheInv, AppendWrite
<1>2. CommitStep
  BY <1>0 DEF CommitStep
<1>3. InTime'
  BY <1>0, <1>2, InTimeStays DEF SettledInv
<1> HIDE DEF R, point
<1>4. ASSUME NEW i \in DOMAIN points' PROVE Settled(points[i].watermark, points[i].balance)'
  <2>1. DOMAIN points' = 1..(Len(points) + 1)
    BY <1>1
  <2>2. CASE i \in DOMAIN points
    <3>1. points'[i] = points[i] /\ Settled(points[i].watermark, points[i].balance)
      BY <1>1, <2>2 DEF SettledInv, PointsOK
    <3> QED
      BY <1>0, <3>1 DEF Settled, SumUpTo, NoneUnderWay, Landed
  <2>3. CASE i \notin DOMAIN points
    <3>1. points'[i] = point
      BY <1>1, <2>1, <2>3
    <3> QED
      BY <1>0, <1>1, <3>1 DEF Settled, SumUpTo, NoneUnderWay, Landed
  <2> QED
    BY <2>2, <2>3
<1>5. PointsOK'
  BY <1>4 DEF PointsOK
<1>6. ASSUME NEW q \in Reader PROVE TaskOK(q)'
  <2>1. CASE q = r
    <3>1. pc'[q] = "idle"
      BY <1>0, <2>1 DEF AppendWrite, Finish, Goto
    <3> QED
      BY <3>1 DEF TaskOK
  <2>2. CASE q # r
    <3>1. pc'[q] = pc[q] /\ local'[q] = local[q]
      BY <1>0, <2>2 DEF AppendWrite, Finish, Goto
    <3> QED
      BY <1>0, <1>2, <3>1, TaskStays DEF SettledInv
  <2> QED
    BY <2>1, <2>2
<1> QED
  BY <1>3, <1>5, <1>6

\* The clock and the commits leave the points and the tasks alone.
LEMMA CommitStepSettled ==
    ASSUME SettledInv, GraceExceedsLag, CommitStep, UNCHANGED <<points, pc, local>>
    PROVE  InTime' /\ PointsOK' /\ \A q \in Reader : TaskOK(q)'
<1>1. InTime' /\ PointsOK'
  BY InTimeStays, PointsStay DEF SettledInv
<1>2. ASSUME NEW q \in Reader PROVE TaskOK(q)'
  BY TaskStays DEF SettledInv
<1> QED
  BY <1>1, <1>2

\* Every step keeps the points settled, given that the grace period exceeds the lag.
LEMMA NextSettled ==
    ASSUME SettledInv, GraceExceedsLag, [CacheNext]_cacheVars PROVE SettledInv'
<1>1. CacheInv'
  BY NextTypes DEF SettledInv
<1> DEFINE Rest == InTime' /\ PointsOK' /\ \A q \in Reader : TaskOK(q)'
<1>2. ASSUME Tick \/ (\E c \in Commit : Stamp(c) \/ Land(c)) \/ UNCHANGED cacheVars
      PROVE  Rest
  <2>1. CommitStep /\ UNCHANGED <<points, pc, local>>
    BY <1>2 DEF CommitStep, Tick, Stamp, Land, cacheVars
  <2> QED
    BY <2>1, CommitStepSettled
<1>3. ASSUME NEW r \in Reader, ReadPoint(r) PROVE Rest
  BY <1>3, ReadPointSettled
<1>4. ASSUME NEW r \in Reader, ReadLive(r) \/ ReadTail(r) \/ ForceAppend(r) PROVE Rest
  <2>1. /\ UNCHANGED <<clock, commit, points>>
        /\ Finish(r) \/ (\E task \in {NoLocal, Spawned} : StartAppend(r, task))
    BY <1>4 DEF ReadLive, ReadTail, ForceAppend
  <2> QED
    BY <2>1, QuietStep
<1>5. ASSUME NEW r \in Reader, AppendPoint(r) PROVE Rest
  BY <1>5, AppendPointSettled
<1>6. ASSUME NEW r \in Reader, AppendFold(r) PROVE Rest
  BY <1>6, AppendFoldSettled
<1>7. ASSUME NEW r \in Reader, AppendWrite(r) PROVE Rest
  BY <1>7, AppendWriteSettled
<1>8. Rest
  <2> HIDE DEF Rest
  <2>1. CASE UNCHANGED cacheVars
    BY <1>2, <2>1
  <2>2. CASE CacheNext
    BY <1>2, <1>3, <1>4, <1>5, <1>6, <1>7, <2>2 DEF CacheNext
  <2> QED
    BY <2>1, <2>2
<1> QED
  BY <1>1, <1>8 DEF SettledInv

\* Where every commit lands within the grace, a cache point is final: it covers
\* every transfer stamped up to its watermark, and none of those is on its way.
THEOREM FinalPoints ==
    ASSUME GraceExceedsLag PROVE CacheSpec => []PointsAreFinal
<1>1. SettledInv => PointsAreFinal
  BY DEF SettledInv, PointsOK, Settled, SumUpTo, NoneUnderWay, PointsAreFinal
<1>2. SettledInv /\ [CacheNext]_cacheVars => SettledInv'
  BY NextSettled
<1> QED
  BY <1>1, <1>2, InitSettled, PTL DEF CacheSpec

\* ... and a cached read returns the live sum, whatever raced it.
THEOREM LiveReads ==
    ASSUME GraceExceedsLag PROVE CacheSpec => []CachedReadIsLive
<1>1. ASSUME SettledInv PROVE CachedReadIsLive
  <2> SUFFICES ASSUME NEW r \in Reader, pc[r] = "fold"
               PROVE  BalanceRead(r) = compute_balance
    BY DEF CachedReadIsLive
  <2> DEFINE f == local[r].from
  <2>1. /\ CacheInv /\ f \in Int /\ f - 1 \in Int /\ Forever \in Int /\ f - 1 < Forever
        /\ (f - 1) + 1 = f /\ local[r].base = SumUpTo(f - 1)
    BY <1>1, Numbers DEF SettledInv, TaskOK, Settled, Forever
  <2> HIDE DEF f
  <2>2. SumUpTo(f - 1) + SumOfDeltas(filter_transfers(f, Forever)) = SumUpTo(Forever - 1)
    BY <2>1, SumOfWindow
  <2>3. {c \in Landed : commit[c].ts <= Forever - 1} = Landed
    BY <2>1, Numbers DEF Landed, Forever
  <2> QED
    BY <2>1, <2>2, <2>3 DEF BalanceRead, TailOf, compute_balance, SumUpTo, f
<1>2. SettledInv /\ [CacheNext]_cacheVars => SettledInv'
  BY NextSettled
<1> QED
  BY <1>1, <1>2, InitSettled, PTL DEF CacheSpec
=============================================================================
