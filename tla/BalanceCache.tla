---------------------------- MODULE BalanceCache -----------------------------
(***************************************************************************)
(* kuatia/src/ledger/balance.rs: the cached balance of one (account,       *)
(* asset). A cache point [watermark, balance] stands for every transfer    *)
(* stamped at or before its watermark; a read adds the transfers stamped   *)
(* later. Points are only appended, by readers and by explicit calls, with *)
(* no coordination.                                                        *)
(*                                                                         *)
(* A commit takes its timestamp before it calls the store and becomes      *)
(* visible when the store applies it: in between, others read, append and  *)
(* commit. MaxLag bounds that delay; ADR-0019 rests on it.                 *)
(***************************************************************************)
EXTENDS Integers, Sequences, FiniteSetsExt

CONSTANTS Commit,             \* the transfers that touch this account
          Delta,              \* commit -> what it adds to the balance
          Touches,            \* commit -> credits and debits it carries
          Reader,             \* concurrent callers of balance / append_cache_point
          Grace,              \* projection_grace_ms
          SnapshotInterval,   \* snapshot_interval
          MaxLag,             \* how long after its timestamp a commit may land
          MaxClock,           \* bound: the last instant
          MaxPoints           \* bound: appends started

ASSUME CacheAssumption ==
    /\ IsFiniteSet(Commit)
    /\ Delta \in [Commit -> Int] /\ Touches \in [Commit -> Nat]
    /\ Grace \in Nat /\ SnapshotInterval \in Nat /\ MaxLag \in Nat
    /\ MaxClock \in Nat /\ MaxPoints \in Nat

VARIABLES clock,
          commit,    \* commit -> [state, ts]
          points,    \* the cache points, oldest first; the index is the id
          pc,        \* reader -> its next store call
          local,     \* reader -> [watermark, base, from, min, debounce]
          appends    \* appends started

cacheVars == <<clock, commit, points, pc, local, appends>>

-----------------------------------------------------------------------------
(* What the store answers. *)

Landed == {c \in Commit : commit[c].state = "landed"}

SumOfDeltas(cs) == MapThenSumSet(LAMBDA c : Delta[c], cs)
Count(cs) == MapThenSumSet(LAMBDA c : Touches[c], cs)

\* compute_balance: the live postings, which sum to the landed deltas.
compute_balance == SumOfDeltas(Landed)

\* (Mutant: a transfer on the lower bound is left out.)
filter_transfers_Exclusive(from, to) == {c \in Landed : from < commit[c].ts /\ commit[c].ts < to}

\* query_transfers over [from, to).
filter_transfers(from, to) == {c \in Landed : from <= commit[c].ts /\ commit[c].ts < to}

\* get_closest_balance_projection: the ids of the candidates, then the best one.
PointsUpTo(as_of) == {i \in DOMAIN points : points[i].watermark <= as_of}

closest(as_of) ==
    points[CHOOSE i \in PointsUpTo(as_of) : \A j \in PointsUpTo(as_of) :
              \/ points[j].watermark < points[i].watermark
              \/ points[j].watermark = points[i].watermark /\ j <= i]

\* The first instant a point does not cover.
FirstUncovered(point) == point.watermark + 1

\* from_ts = None and to_ts = None.
Beginning == -Grace - 1
Forever == MaxClock + 1

-----------------------------------------------------------------------------
NoLocal == [watermark |-> 0, base |-> 0, from |-> 0, min |-> 0, debounce |-> 0]

CacheInit ==
    /\ clock = 0
    /\ commit = [c \in Commit |-> [state |-> "new", ts |-> 0]]
    /\ points = <<>>
    /\ pc = [r \in Reader |-> "idle"]
    /\ local = [r \in Reader |-> NoLocal]
    /\ appends = 0

\* Time passes, but no commit in progress outlives the lag.
Tick ==
    /\ clock < MaxClock
    /\ \A c \in Commit : commit[c].state = "stamped" => clock + 1 - commit[c].ts <= MaxLag
    /\ clock' = clock + 1
    /\ UNCHANGED <<commit, points, pc, local, appends>>

\* commit_envelope takes the timestamp of its record ...
Stamp(c) ==
    /\ commit[c].state = "new"
    /\ commit' = [commit EXCEPT ![c] = [state |-> "stamped", ts |-> clock]]
    /\ UNCHANGED <<clock, points, pc, local, appends>>

\* ... and the store applies or rejects it later.
Land(c) ==
    /\ commit[c].state = "stamped"
    /\ \E outcome \in {"landed", "rejected"} : commit' = [commit EXCEPT ![c].state = outcome]
    /\ UNCHANGED <<clock, points, pc, local, appends>>

-----------------------------------------------------------------------------
(* Ledger::balance. *)

Goto(r, label) == pc' = [pc EXCEPT ![r] = label]

\* The task ends and forgets what it read.
Finish(r) == Goto(r, "idle") /\ local' = [local EXCEPT ![r] = NoLocal]

\* The append a read spawns: gated by the interval, debounced by the grace.
Spawned == [NoLocal EXCEPT !.min = SnapshotInterval, !.debounce = Grace]

\* A task starts an append, as long as the bound allows.
StartAppend(r, task) ==
    /\ \/ /\ appends < MaxPoints
          /\ local' = [local EXCEPT ![r] = task]
          /\ Goto(r, "append")
          /\ appends' = appends + 1
       \/ appends = MaxPoints /\ Finish(r) /\ UNCHANGED appends

\* The read begins: the closest point, if there is one.
ReadPoint(r) ==
    /\ pc[r] = "idle"
    /\ \/ /\ PointsUpTo(clock) # {}
          /\ local' = [local EXCEPT ![r] = [NoLocal EXCEPT !.base = closest(clock).balance,
                                                           !.from = FirstUncovered(closest(clock))]]
          /\ Goto(r, "fold")
          /\ UNCHANGED appends
       \/ /\ PointsUpTo(clock) = {}
          /\ Goto(r, "compute")
          /\ UNCHANGED <<local, appends>>
    /\ UNCHANGED <<clock, commit, points>>

\* No point: the authoritative sum, and an append to bootstrap the cache.
ReadLive(r) ==
    /\ pc[r] = "compute"
    /\ StartAppend(r, Spawned)
    /\ UNCHANGED <<clock, commit, points>>

\* The transfers since the point, and what the read returns if it folds them now.
TailOf(r) == filter_transfers(local[r].from, Forever)
BalanceRead(r) == local[r].base + SumOfDeltas(TailOf(r))

\* The read returns; a long enough tail earns a new point.
ReadTail(r) ==
    /\ pc[r] = "fold"
    /\ \/ Count(TailOf(r)) >= SnapshotInterval /\ StartAppend(r, Spawned)
       \/ Count(TailOf(r)) < SnapshotInterval /\ Finish(r) /\ UNCHANGED appends
    /\ UNCHANGED <<clock, commit, points>>

-----------------------------------------------------------------------------
(* append_cache_point. *)

\* The explicit call: no gate, no debounce.
ForceAppend(r) ==
    /\ pc[r] = "idle"
    /\ appends < MaxPoints
    /\ StartAppend(r, NoLocal)
    /\ UNCHANGED <<clock, commit, points>>

\* (Mutant: the point claims to be up to date.)
NewWatermark_NoGrace == clock

\* The watermark of a point appended now.
NewWatermark == clock - Grace

\* A close enough point is there already.
Covered(r) ==
    /\ PointsUpTo(NewWatermark) # {}
    /\ LET gap == NewWatermark - closest(NewWatermark).watermark
       IN gap < local[r].debounce \/ gap <= 0

\* Choose the watermark and the point to build on, or find it covered.
AppendPoint(r) ==
    /\ pc[r] = "append"
    /\ \/ Covered(r) /\ Finish(r)
       \/ /\ ~Covered(r)
          /\ \/ /\ PointsUpTo(NewWatermark) # {}
                /\ local' = [local EXCEPT ![r].watermark = NewWatermark,
                                          ![r].base = closest(NewWatermark).balance,
                                          ![r].from = FirstUncovered(closest(NewWatermark))]
             \/ /\ PointsUpTo(NewWatermark) = {}
                /\ local' = [local EXCEPT ![r].watermark = NewWatermark,
                                          ![r].from = Beginning]
          /\ Goto(r, "window")
    /\ UNCHANGED <<clock, commit, points, appends>>

\* (Mutant: the instant of the watermark is left out.)
WindowEnd_Exclusive(r) == local[r].watermark

\* The window's exclusive end: the watermark itself is inside.
WindowEnd(r) == local[r].watermark + 1

\* Fold the window; too little is not kept.
AppendFold(r) ==
    LET window == filter_transfers(local[r].from, WindowEnd(r))
    IN /\ pc[r] = "window"
       /\ \/ Count(window) < local[r].min /\ Finish(r)
          \/ /\ Count(window) >= local[r].min
             /\ local' = [local EXCEPT ![r].base = @ + SumOfDeltas(window)]
             /\ Goto(r, "write")
       /\ UNCHANGED <<clock, commit, points, appends>>

AppendWrite(r) ==
    /\ pc[r] = "write"
    /\ points' = Append(points, [watermark |-> local[r].watermark, balance |-> local[r].base])
    /\ Finish(r)
    /\ UNCHANGED <<clock, commit, appends>>

CacheNext ==
    \/ Tick
    \/ \E c \in Commit : Stamp(c) \/ Land(c)
    \/ \E r \in Reader : \/ ReadPoint(r) \/ ReadLive(r) \/ ReadTail(r)
                         \/ ForceAppend(r) \/ AppendPoint(r) \/ AppendFold(r) \/ AppendWrite(r)

CacheSpec == CacheInit /\ [][CacheNext]_cacheVars

-----------------------------------------------------------------------------
(* Correctness. *)

\* Types of the tables and of every task's locals; a point, written or about to
\* be, never claims to cover the last Grace instants.
CacheTypeOK ==
    /\ clock \in 0..MaxClock
    /\ commit \in [Commit -> [state : {"new", "stamped", "landed", "rejected"}, ts : 0..MaxClock]]
    /\ pc \in [Reader -> {"idle", "compute", "fold", "append", "window", "write"}]
    /\ \A r \in Reader : local[r].base \in Int /\ local[r].from <= clock + 1
    /\ \A r \in Reader : pc[r] \in {"window", "write"} => local[r].watermark <= clock - Grace
    /\ \A i \in DOMAIN points : points[i].balance \in Int /\ points[i].watermark <= clock - Grace
    /\ appends \in 0..MaxPoints

\* balance equals compute_balance: a cached read, whenever its second store call
\* happens, returns the live sum of that moment, whatever points raced it into
\* the table and however stale the one it started from is.
CachedReadIsLive ==
    \A r \in Reader : pc[r] = "fold" => BalanceRead(r) = compute_balance

\* A cache point is final: it covers every transfer stamped at or before its
\* watermark, and none of those is still on its way.
PointsAreFinal ==
    \A i \in DOMAIN points :
        /\ points[i].balance = SumOfDeltas({c \in Landed : commit[c].ts <= points[i].watermark})
        /\ \A c \in Commit : commit[c].state = "stamped" => commit[c].ts > points[i].watermark
=============================================================================
