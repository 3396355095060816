--------------------------- MODULE EventFeedProofs ---------------------------
(***************************************************************************)
(* The event feed, for any number of writers, events, appends and pages:   *)
(* numbers are used once, replays agree, and the consumer misses only what *)
(* is excused.                                                             *)
(***************************************************************************)
EXTENDS EventFeed, CollectionProofs

-----------------------------------------------------------------------------
(* Sequence numbers. *)

\* The counter part of a sequence number.
TailPart(seq) == seq - Ms(seq) * TailRange

\* A number that AutoId has given out by now.
IsNumber(seq) == seq \in Nat /\ Ms(seq) \in 1..now /\ TailPart(seq) \in 0..(TailRange - 1)

\* Later milliseconds are larger by a whole range.
LEMMA MoreRanges ==
    ASSUME NEW m \in Nat, NEW n \in Nat, m < n
    PROVE  m * TailRange \in Nat /\ n * TailRange \in Nat /\ m * TailRange + TailRange <= n * TailRange
<1>1. TailRange \in Nat /\ n - m - 1 \in Nat
  BY FeedBounds
<1>2. (n - m - 1) * TailRange >= 0
  BY <1>1
<1>3. (n - m - 1) * TailRange = n * TailRange - m * TailRange - TailRange
  BY <1>1
<1> QED
  BY <1>1, <1>2, <1>3

\* AutoId::timestamp finds the millisecond that AutoId::pack put in.
LEMMA PackFacts ==
    ASSUME NEW m \in Nat, NEW t \in 0..(TailRange - 1)
    PROVE  /\ pack(m, t) \in Nat /\ m * TailRange \in Nat
           /\ Ms(pack(m, t)) = m /\ TailPart(pack(m, t)) = t
           /\ m > 0 => pack(m, t) > 0
<1>1. TailRange \in Nat /\ TailRange > 0 /\ m * TailRange \in Nat
  BY FeedBounds
<1>2. pack(m, t) \in Nat
  BY <1>1 DEF pack
<1>3. (m * TailRange + t) \div TailRange = m
  BY <1>1
<1>4. m > 0 => m * TailRange > 0
  BY <1>1
<1> QED
  BY <1>1, <1>2, <1>3, <1>4 DEF pack, Ms, TailPart

\* Numbers are ordered by millisecond, then by counter.
LEMMA NumberOrder ==
    ASSUME NEW seq, IsNumber(seq), NEW m \in Nat, NEW t \in 0..(TailRange - 1), now \in Nat,
           Ms(seq) <= m, pack(m, t) <= seq
    PROVE  Ms(seq) = m /\ t <= TailPart(seq)
<1>1. /\ TailRange \in Nat /\ seq \in Nat /\ Ms(seq) \in Nat /\ Ms(seq) * TailRange \in Nat
      /\ m * TailRange \in Nat
      /\ TailPart(seq) \in 0..(TailRange - 1) /\ seq = Ms(seq) * TailRange + TailPart(seq)
  BY FeedBounds DEF IsNumber, TailPart
<1>2. ~(Ms(seq) < m)
  <2> SUFFICES ASSUME Ms(seq) < m PROVE FALSE
    OBVIOUS
  <2>1. Ms(seq) * TailRange + TailRange <= m * TailRange
    BY <1>1, MoreRanges
  <2> QED
    BY <1>1, <2>1 DEF pack
<1>3. Ms(seq) = m
  BY <1>1, <1>2
<1> QED
  BY <1>1, <1>3 DEF pack

\* How many numbers ago the counter had the value t.
Age(t) == IF t < counter THEN counter - t ELSE counter + TailRange - t

\* fetch_add makes every earlier value one older, and the value taken the youngest.
LEMMA CounterAdvances ==
    ASSUME counter \in 0..(TailRange - 1), FetchAdd
    PROVE  /\ counter' \in 0..(TailRange - 1)
           /\ counter' = IF counter = TailRange - 1 THEN 0 ELSE counter + 1
           /\ \A t \in 0..(TailRange - 1) : Age(t)' = IF t = counter THEN 1 ELSE Age(t) + 1
<1>1. TailRange \in Nat /\ TailRange > 0 /\ counter' = (counter + 1) % TailRange
  BY FeedBounds DEF FetchAdd
<1>2. CASE counter = TailRange - 1
  <2>1. counter' = 0
    BY <1>1, <1>2
  <2> QED
    BY <1>1, <1>2, <2>1 DEF Age
<1>3. CASE counter + 1 < TailRange
  <2>1. (counter + 1) % TailRange = counter + 1
    BY <1>1, <1>3
  <2> QED
    BY <1>1, <1>3, <2>1 DEF Age
<1> QED
  BY <1>1, <1>2, <1>3

-----------------------------------------------------------------------------
(* The inductive invariant. *)

Row == [seq : Nat, event : Event]

\* Appends that have read the clock and have no number yet.
Unnumbered == {w \in Writer : draft[w] # None /\ draft[w].seq = 0}

\* The numbers that are in the log or on their way there.
Issued == Logged \cup {draft[w].seq : w \in {v \in Writer : draft[v].seq # 0}}

Types ==
    /\ store \in Stores /\ now \in 1..MaxMs
    /\ counter \in 0..(TailRange - 1) /\ appends \in 0..MaxAppends
    /\ log \in Seq(Row) /\ answers \subseteq ToSet(log)
    /\ draft \in [Writer -> [event : Event \cup {"none"}, ms : Nat, seq : Nat, late : BOOLEAN]]
    /\ \A w \in Writer : draft[w] # None => draft[w].event \in Event /\ draft[w].ms \in 1..now
    /\ cursor \in {0} \cup Logged /\ delivered \subseteq Logged

\* Every number given out is at most as old as there were appends, so that the
\* counter has not come round to it.
NumbersOK ==
    /\ Cardinality(Unnumbered) <= appends
    /\ \A seq \in Issued : /\ IsNumber(seq)
                           /\ Age(TailPart(seq)) <= appends - Cardinality(Unnumbered)

\* A number is given out once.
Distinct ==
    /\ \A i, j \in DOMAIN log : log[i].seq = log[j].seq => i = j
    /\ \A w \in Writer : draft[w].seq # 0 => draft[w].seq \notin Logged
    /\ \A v, w \in Writer : draft[v].seq # 0 /\ draft[v].seq = draft[w].seq => v = w

KeyedOnce ==
    \A i, j \in DOMAIN log : log[i].event \in Keyed /\ log[i].event = log[j].event => i = j

\* The counter is at or below a number it gave out only if it wrapped since; when an
\* append may still get a number of the same millisecond, the wrap was noted.
WrapsNoted ==
    \A seq \in Issued :
        /\ TailPart(seq) >= counter
        /\ Ms(seq) = now \/ \E w \in Unnumbered : draft[w].ms = Ms(seq)
        => Ms(seq) \in wraps

\* An append that no read of the consumer overlaps has a time that is not before the
\* cursor's, and its number is behind the cursor only if the counter wrapped.
DraftsOK ==
    \A w \in Writer : draft[w] # None /\ ~draft[w].late =>
        /\ cursor # 0 => Ms(cursor) <= draft[w].ms
        /\ draft[w].seq # 0 /\ draft[w].seq <= cursor => Ms(draft[w].seq) \in wraps

\* In memory the log is in the order of the numbers, unless the counter wrapped.
LogInOrder ==
    store = "InMemory" =>
        /\ \A w \in Writer : draft[w] = None
        /\ \A i, j \in DOMAIN log : i < j => log[i].seq < log[j].seq \/ Ms(log[j].seq) \in wraps

FeedInv ==
    /\ Types /\ NumbersOK /\ Distinct /\ KeyedOnce /\ WrapsNoted /\ DraftsOK
    /\ MissedForCause /\ LogInOrder

-----------------------------------------------------------------------------
(* What a step can rely on. *)

\* The log as a function, and the numbers in it.
LEMMA LogFacts ==
    ASSUME log \in Seq(Row)
    PROVE  /\ Len(log) \in Nat /\ DOMAIN log = 1..Len(log)
           /\ \A i \in DOMAIN log : /\ log[i] \in Row /\ log[i].seq \in Nat
                                    /\ log[i].seq \in Logged /\ log[i] \in ToSet(log)
           /\ \A seq \in Logged : \E i \in DOMAIN log : log[i].seq = seq
           /\ \A r \in ToSet(log) : \E i \in DOMAIN log : log[i] = r
<1>1. Len(log) \in Nat /\ DOMAIN log = 1..Len(log) /\ \A i \in DOMAIN log : log[i] \in Row
  <2> HIDE DEF Row
  <2> QED
    BY LenProperties, ElementOfSeq
<1>2. \A i \in DOMAIN log : log[i].seq \in Nat
  BY <1>1 DEF Row
<1> QED
  BY <1>1, <1>2 DEF Logged, ToSet

\* A row is appended at the end.
LEMMA AppendedRow ==
    ASSUME log \in Seq(Row), NEW row \in Row, log' = Append(log, row)
    PROVE  /\ log' \in Seq(Row) /\ DOMAIN log' = 1..(Len(log) + 1)
           /\ \A i \in DOMAIN log : i \in DOMAIN log' /\ log'[i] = log[i]
           /\ log'[Len(log) + 1] = row
           /\ ToSet(log') = ToSet(log) \cup {row}
           /\ Logged' = Logged \cup {row.seq}
<1>1. Len(log) \in Nat /\ DOMAIN log = 1..Len(log)
  BY LogFacts
<1>2. /\ log' \in Seq(Row) /\ DOMAIN log' = 1..(Len(log) + 1)
      /\ \A i \in 1..Len(log) : log'[i] = log[i]
      /\ log'[Len(log) + 1] = row
  <2> HIDE DEF Row
  <2> QED
    BY AppendProperties, LenProperties
<1>3. ToSet(log') = ToSet(log) \cup {row}
  BY <1>1, <1>2 DEF ToSet
<1>4. Logged' = Logged \cup {row.seq}
  BY <1>3 DEF Logged
<1> QED
  BY <1>1, <1>2, <1>3, <1>4

\* The appends without a number are finitely many.
LEMMA UnnumberedFacts ==
    /\ IsFiniteSet(Unnumbered) /\ Cardinality(Unnumbered) \in Nat
    /\ \A w \in Unnumbered :
          Unnumbered # {} /\ Cardinality(Unnumbered) >= 1
<1>1. Unnumbered \in SUBSET Writer
  BY DEF Unnumbered
<1>2. IsFiniteSet(Unnumbered)
  BY <1>1, FeedWriters, FS_Subset
<1>3. Cardinality(Unnumbered) \in Nat
  BY <1>2, FS_CardinalityType
<1>4. Unnumbered # {} => Cardinality(Unnumbered) # 0
  BY <1>2, FS_EmptySet
<1> QED
  BY <1>2, <1>3, <1>4

\* The number that is packed next has not been given out: fewer than TailRange
\* numbers were.
LEMMA FreshNumber ==
    ASSUME Types, NumbersOK, NEW m \in 1..now, appends - Cardinality(Unnumbered) < TailRange
    PROVE  LET seq == pack(m, counter)
           IN /\ IsNumber(seq) /\ Ms(seq) = m /\ TailPart(seq) = counter
              /\ seq \in Nat /\ seq # 0 /\ seq \notin Issued
<1> DEFINE seq == pack(m, counter)
<1>1. now \in Nat /\ m \in Nat /\ m > 0 /\ counter \in 0..(TailRange - 1) /\ TailRange \in Nat
      /\ appends \in Int /\ Cardinality(Unnumbered) \in Nat
  BY FeedBounds, UnnumberedFacts DEF Types
<1>2. seq \in Nat /\ seq > 0 /\ Ms(seq) = m /\ TailPart(seq) = counter
  BY <1>1, PackFacts
<1> HIDE DEF seq
<1>3. IsNumber(seq)
  BY <1>1, <1>2 DEF IsNumber
<1>4. Age(TailPart(seq)) = TailRange
  BY <1>1, <1>2 DEF Age
<1>5. seq \notin Issued
  BY <1>1, <1>4 DEF NumbersOK
<1> QED
  BY <1>2, <1>3, <1>5 DEF seq

\* The number that is packed next is behind one given out, of a time that is not
\* later, only if the counter wrapped in its millisecond.
LEMMA BehindOnlyAfterWrap ==
    ASSUME Types, NumbersOK, WrapsNoted, NEW m \in 1..now,
           m = now \/ \E w \in Unnumbered : draft[w].ms = m,
           NEW seq \in Issued, Ms(seq) <= m, pack(m, counter) <= seq
    PROVE  m \in wraps
<1>1. IsNumber(seq) /\ now \in Nat /\ m \in Nat /\ counter \in 0..(TailRange - 1)
  BY FeedBounds DEF Types, NumbersOK
<1>2. Ms(seq) = m /\ counter <= TailPart(seq)
  BY <1>1, NumberOrder
<1>3. TailPart(seq) >= counter
  BY <1>1, <1>2, FeedBounds DEF IsNumber
<1> QED
  BY <1>2, <1>3 DEF WrapsNoted

\* Numbers that were given out stay numbers.
LEMMA StaysNumber ==
    ASSUME NEW seq, IsNumber(seq), now \in Nat, now' \in Nat, now' >= now
    PROVE  IsNumber(seq)'
BY DEF IsNumber, Ms, TailPart

\* The cursor is a number of the log.
LEMMA CursorFacts ==
    ASSUME Types, NumbersOK
    PROVE  /\ cursor \in Nat /\ (cursor # 0 => cursor \in Issued /\ IsNumber(cursor))
           /\ \A seq \in Issued : seq \in Nat /\ Ms(seq) \in Nat /\ Ms(seq) <= now /\ now \in Nat
<1>1. \A seq \in Issued : seq \in Nat /\ Ms(seq) \in Nat /\ Ms(seq) <= now /\ now \in Nat
  BY FeedBounds DEF NumbersOK, IsNumber, Types
<1> QED
  BY <1>1 DEF Types, Issued, NumbersOK

-----------------------------------------------------------------------------
(* The steps. *)

\* An empty log and no append under way.
LEMMA InitFeed == Init => FeedInv
<1> SUFFICES ASSUME Init PROVE FeedInv
  OBVIOUS
<1>1. /\ store \in Stores /\ now = 1 /\ counter \in 0..(TailRange - 1) /\ log = <<>>
      /\ answers = {} /\ draft = [w \in Writer |-> None] /\ appends = 0 /\ cursor = 0
      /\ delivered = {} /\ late = {} /\ wraps = {}
  BY DEF Init
<1>2. log \in Seq(Row) /\ DOMAIN log = {} /\ Logged = {} /\ ToSet(log) = {}
  BY <1>1 DEF Logged, ToSet
<1>3. /\ None \in [event : Event \cup {"none"}, ms : Nat, seq : Nat, late : BOOLEAN]
      /\ None.seq = 0
  BY DEF None
<1>4. Unnumbered = {} /\ Issued = {} /\ Cardinality(Unnumbered) = 0
  BY <1>1, <1>2, <1>3, FS_EmptySet DEF Unnumbered, Issued
<1>5. Types
  BY <1>1, <1>2, <1>3, FeedBounds DEF Types
<1>6. NumbersOK /\ WrapsNoted
  BY <1>1, <1>4 DEF NumbersOK, WrapsNoted
<1>7. Distinct /\ KeyedOnce /\ LogInOrder /\ MissedForCause
  BY <1>1, <1>2, <1>3 DEF Distinct, KeyedOnce, LogInOrder, MissedForCause
<1>8. DraftsOK
  BY <1>1 DEF DraftsOK
<1> QED
  BY <1>5, <1>6, <1>7, <1>8 DEF FeedInv

\* Time passes.
LEMMA TickKeeps == ASSUME FeedInv, Tick PROVE FeedInv'
<1>1. /\ now < MaxMs /\ now' = now + 1 /\ store' = store /\ counter' = counter /\ log' = log
      /\ answers' = answers /\ draft' = draft /\ appends' = appends /\ cursor' = cursor
      /\ delivered' = delivered /\ late' = late /\ wraps' = wraps
  BY DEF Tick, logVars, consumerVars
<1>2. now \in 1..MaxMs /\ now \in Nat /\ now' \in 1..MaxMs /\ now' \in Nat /\ now' > now
  BY <1>1, FeedBounds DEF FeedInv, Types
<1>3. Logged' = Logged /\ Unnumbered' = Unnumbered /\ Issued' = Issued
  BY <1>1 DEF Logged, Unnumbered, Issued
<1>4. Types'
  <2>1. \A w \in Writer : draft[w].ms \in 1..now => draft[w].ms \in 1..now'
    BY <1>2
  <2> QED
    BY <1>1, <1>2, <1>3, <2>1 DEF FeedInv, Types, Row
<1>5. NumbersOK'
  <2>1. \A t : Age(t)' = Age(t)
    BY <1>1 DEF Age
  <2>2. \A seq : TailPart(seq)' = TailPart(seq)
    BY DEF TailPart, Ms
  <2> QED
    BY <1>1, <1>2, <1>3, <2>1, <2>2, StaysNumber DEF FeedInv, NumbersOK
<1>6. WrapsNoted'
  <2>1. \A seq \in Issued : Ms(seq) # now'
    BY <1>2, CursorFacts DEF FeedInv
  <2> QED
    BY <1>1, <1>3, <2>1 DEF FeedInv, WrapsNoted, TailPart, Ms
<1>7. Distinct' /\ KeyedOnce'
  BY <1>1, <1>3 DEF FeedInv, Distinct, KeyedOnce
<1>8. DraftsOK' /\ MissedForCause' /\ LogInOrder'
  BY <1>1, <1>3 DEF FeedInv, DraftsOK, MissedForCause, Excused, LogInOrder, Ms
<1> QED
  BY <1>4, <1>5, <1>6, <1>7, <1>8 DEF FeedInv

\* An append ends: its writer is idle, and the others are where they were.
LEMMA DraftDropped ==
    ASSUME Types, NEW w \in Writer, draft' = [draft EXCEPT ![w] = None]
    PROVE  /\ draft' \in [Writer -> [event : Event \cup {"none"}, ms : Nat, seq : Nat, late : BOOLEAN]]
           /\ draft'[w] = None /\ draft'[w].seq = 0
           /\ \A v \in Writer : v # w => draft'[v] = draft[v]
           /\ Unnumbered' = Unnumbered \ {w}
           /\ Cardinality(Unnumbered') \in Nat /\ Cardinality(Unnumbered') <= Cardinality(Unnumbered)
<1>1. /\ None \in [event : Event \cup {"none"}, ms : Nat, seq : Nat, late : BOOLEAN]
      /\ None.seq = 0
  BY DEF None
<1>2. /\ draft' \in [Writer -> [event : Event \cup {"none"}, ms : Nat, seq : Nat, late : BOOLEAN]]
      /\ draft'[w] = None
      /\ \A v \in Writer : v # w => draft'[v] = draft[v]
  BY <1>1 DEF Types
<1>3. Unnumbered' = Unnumbered \ {w}
  BY <1>2 DEF Unnumbered
<1>4. Unnumbered \ {w} \in SUBSET Unnumbered
  OBVIOUS
<1>5. Cardinality(Unnumbered') \in Nat /\ Cardinality(Unnumbered') <= Cardinality(Unnumbered)
  BY <1>3, <1>4, UnnumberedFacts, FS_Subset, FS_CardinalityType
<1> QED
  BY <1>1, <1>2, <1>3, <1>5

\* A failed append leaves a gap in the numbers.
LEMMA AbandonKeeps == ASSUME FeedInv, NEW w \in Writer, Abandon(w) PROVE FeedInv'
<1>1. /\ draft' = [draft EXCEPT ![w] = None]
      /\ now' = now /\ store' = store /\ counter' = counter /\ log' = log
      /\ answers' = answers /\ appends' = appends /\ cursor' = cursor
      /\ delivered' = delivered /\ late' = late /\ wraps' = wraps
  BY DEF Abandon, logVars, consumerVars
<1>2. /\ draft' \in [Writer -> [event : Event \cup {"none"}, ms : Nat, seq : Nat, late : BOOLEAN]]
      /\ draft'[w] = None /\ draft'[w].seq = 0
      /\ \A v \in Writer : v # w => draft'[v] = draft[v]
      /\ Unnumbered' = Unnumbered \ {w}
      /\ Cardinality(Unnumbered') \in Nat /\ Cardinality(Unnumbered') <= Cardinality(Unnumbered)
  BY <1>1, DraftDropped DEF FeedInv
<1>3. Logged' = Logged /\ Issued' \subseteq Issued
  BY <1>1, <1>2 DEF Logged, Issued
<1>4. Types'
  BY <1>1, <1>2, <1>3 DEF FeedInv, Types, Row
<1>5. NumbersOK'
  <2>1. \A t : Age(t)' = Age(t)
    BY <1>1 DEF Age
  <2>2. \A seq : TailPart(seq)' = TailPart(seq)
    BY DEF TailPart, Ms
  <2>3. appends \in Nat /\ Cardinality(Unnumbered) \in Nat
    BY UnnumberedFacts, FeedBounds DEF FeedInv, Types
  <2>4. \A seq \in Issued : IsNumber(seq)' /\ Age(TailPart(seq)) \in Int
    <3>1. \A seq \in Issued : IsNumber(seq) /\ TailPart(seq) \in 0..(TailRange - 1)
      BY DEF FeedInv, NumbersOK, IsNumber
    <3>2. \A seq : IsNumber(seq)' <=> IsNumber(seq)
      BY <1>1 DEF IsNumber, TailPart, Ms
    <3>3. counter \in Nat /\ TailRange \in Nat
      BY FeedBounds DEF FeedInv, Types
    <3> QED
      BY <3>1, <3>2, <3>3 DEF Age
  <2> QED
    BY <1>1, <1>2, <1>3, <2>1, <2>2, <2>3, <2>4 DEF FeedInv, NumbersOK
<1>6. WrapsNoted'
  <2>1. \A v \in Unnumbered' : v \in Unnumbered /\ draft'[v] = draft[v]
    BY <1>2 DEF Unnumbered
  <2> QED
    BY <1>1, <1>3, <2>1 DEF FeedInv, WrapsNoted, TailPart, Ms
<1>7. Distinct' /\ KeyedOnce'
  BY <1>1, <1>2, <1>3 DEF FeedInv, Distinct, KeyedOnce
<1>8. DraftsOK'
  BY <1>1, <1>2 DEF FeedInv, DraftsOK, Ms
<1>9. MissedForCause' /\ LogInOrder'
  BY <1>1, <1>2, <1>3 DEF FeedInv, MissedForCause, Excused, LogInOrder, Ms
<1> QED
  BY <1>4, <1>5, <1>6, <1>7, <1>8, <1>9 DEF FeedInv

\* An append starts, at a time that is not before any number given out.
LEMMA ReadClockKeeps == ASSUME FeedInv, NEW w \in Writer, ReadClock(w) PROVE FeedInv'
<1>1. PICK e \in Event : draft' = [draft EXCEPT ![w] = [None EXCEPT !.event = e, !.ms = now]]
  BY DEF ReadClock
<1>2. /\ store = "Sql" /\ draft[w] = None /\ appends < MaxAppends /\ appends' = appends + 1
      /\ now' = now /\ store' = store /\ counter' = counter /\ log' = log
      /\ answers' = answers /\ cursor' = cursor
      /\ delivered' = delivered /\ late' = late /\ wraps' = wraps
  BY DEF ReadClock, StartAppend, logVars, consumerVars
<1> DEFINE d == [event |-> e, ms |-> now, seq |-> 0, late |-> FALSE]
<1>3. /\ d \in [event : Event \cup {"none"}, ms : Nat, seq : Nat, late : BOOLEAN]
      /\ d # None /\ d.seq = 0 /\ d.ms = now /\ d.event = e /\ d.late = FALSE
      /\ draft' = [draft EXCEPT ![w] = d] /\ now \in 1..now
  <2>1. now \in Nat /\ now > 0
    BY FeedBounds DEF FeedInv, Types
  <2>2. [None EXCEPT !.event = e, !.ms = now] = d
    <3> DEFINE f == [None EXCEPT !.event = e, !.ms = now]
    <3>1. /\ DOMAIN f = {"event", "ms", "seq", "late"} /\ DOMAIN d = {"event", "ms", "seq", "late"}
          /\ f = [k \in DOMAIN f |-> f[k]] /\ d = [k \in DOMAIN d |-> d[k]]
      BY DEF None
    <3>2. /\ f["event"] = e /\ f["ms"] = now /\ f["seq"] = 0 /\ f["late"] = FALSE
          /\ d["event"] = e /\ d["ms"] = now /\ d["seq"] = 0 /\ d["late"] = FALSE
      BY DEF None
    <3> HIDE DEF f, d
    <3>3. f = d
      BY <3>1, <3>2
    <3> QED
      BY <3>3 DEF f
  <2>3. d.ms # None.ms
    BY <2>1 DEF None
  <2>4. d \in [event : Event \cup {"none"}, ms : Nat, seq : Nat, late : BOOLEAN]
    BY <2>1
  <2>5. d.seq = 0 /\ d.ms = now /\ d.event = e /\ d.late = FALSE /\ now \in 1..now
    BY <2>1
  <2> HIDE DEF d
  <2> QED
    BY <1>1, <2>2, <2>3, <2>4, <2>5
<1> HIDE DEF d
<1>4. /\ draft' \in [Writer -> [event : Event \cup {"none"}, ms : Nat, seq : Nat, late : BOOLEAN]]
      /\ draft'[w] = d
      /\ \A v \in Writer : v # w => draft'[v] = draft[v]
  BY <1>3 DEF FeedInv, Types
<1>5. draft[w].seq = 0
  BY <1>2 DEF None
<1>6. Logged' = Logged /\ Issued' = Issued
  BY <1>2, <1>3, <1>4, <1>5 DEF Logged, Issued
<1>7. Unnumbered' = Unnumbered \cup {w} /\ w \notin Unnumbered
  BY <1>2, <1>3, <1>4 DEF Unnumbered
<1>8. Cardinality(Unnumbered') = Cardinality(Unnumbered) + 1 /\ Cardinality(Unnumbered) \in Nat
  BY <1>7, UnnumberedFacts, FS_AddElement
<1>9. appends \in Nat /\ appends' \in 0..MaxAppends
  BY <1>2, FeedBounds DEF FeedInv, Types
<1>10. Types'
  BY <1>2, <1>3, <1>4, <1>6, <1>9 DEF FeedInv, Types, Row
<1>11. NumbersOK'
  <2>1. \A t : Age(t)' = Age(t)
    BY <1>2 DEF Age
  <2>2. \A seq : TailPart(seq)' = TailPart(seq) /\ (IsNumber(seq)' <=> IsNumber(seq))
    BY <1>2 DEF TailPart, Ms, IsNumber
  <2>3. appends' - Cardinality(Unnumbered') = appends - Cardinality(Unnumbered)
    BY <1>2, <1>8, <1>9
  <2> QED
    BY <1>2, <1>6, <1>8, <1>9, <2>1, <2>2, <2>3 DEF FeedInv, NumbersOK
<1>12. WrapsNoted'
  BY <1>2, <1>3, <1>4, <1>6, <1>7 DEF FeedInv, WrapsNoted, TailPart, Ms
<1>13. Distinct' /\ KeyedOnce'
  BY <1>2, <1>3, <1>4, <1>6 DEF FeedInv, Distinct, KeyedOnce
<1>14. DraftsOK'
  <2>1. cursor # 0 => Ms(cursor) <= now
    BY CursorFacts DEF FeedInv
  <2> QED
    BY <1>2, <1>3, <1>4, <2>1 DEF FeedInv, DraftsOK, Ms
<1>15. MissedForCause' /\ LogInOrder'
  BY <1>2, <1>6 DEF FeedInv, MissedForCause, Excused, LogInOrder, Ms
<1> QED
  BY <1>10, <1>11, <1>12, <1>13, <1>14, <1>15 DEF FeedInv

\* A number is taken: it is new, and if it is behind the cursor although no read
\* overlapped the append, the counter wrapped in its millisecond.
LEMMA TakeCounterKeeps == ASSUME FeedInv, NEW w \in Writer, TakeCounter(w) PROVE FeedInv'
<1> DEFINE seq == pack(draft[w].ms, counter)
           d == [draft[w] EXCEPT !.seq = seq]
<1>1. /\ draft[w] # None /\ draft[w].seq = 0 /\ draft' = [draft EXCEPT ![w] = d] /\ FetchAdd
      /\ now' = now /\ store' = store /\ log' = log /\ answers' = answers /\ appends' = appends
      /\ cursor' = cursor /\ delivered' = delivered /\ late' = late
  BY DEF TakeCounter, logVars, consumerVars
<1>2. /\ draft[w] \in [event : Event \cup {"none"}, ms : Nat, seq : Nat, late : BOOLEAN]
      /\ draft[w].ms \in 1..now /\ draft[w].event \in Event /\ w \in Unnumbered
      /\ counter \in 0..(TailRange - 1)
      /\ now \in Nat /\ appends \in Nat /\ appends <= TailRange /\ TailRange \in Nat
  BY <1>1, FeedBounds DEF FeedInv, Types, Unnumbered
<1>3. Cardinality(Unnumbered) \in Nat /\ Cardinality(Unnumbered) >= 1
  BY <1>2, UnnumberedFacts
<1>4. /\ IsNumber(seq) /\ Ms(seq) = draft[w].ms /\ TailPart(seq) = counter
      /\ seq \in Nat /\ seq # 0 /\ seq \notin Issued
  BY <1>2, <1>3, FreshNumber DEF FeedInv
<1> HIDE DEF seq
<1>5. /\ d \in [event : Event \cup {"none"}, ms : Nat, seq : Nat, late : BOOLEAN]
      /\ d.seq = seq /\ d.ms = draft[w].ms /\ d.event = draft[w].event /\ d.late = draft[w].late
      /\ d # None
  BY <1>2, <1>4 DEF None
<1> HIDE DEF d
<1>6. /\ draft' \in [Writer -> [event : Event \cup {"none"}, ms : Nat, seq : Nat, late : BOOLEAN]]
      /\ draft'[w] = d
      /\ \A v \in Writer : v # w => draft'[v] = draft[v]
  BY <1>1, <1>5 DEF FeedInv, Types
<1>7. Logged' = Logged /\ Issued' = Issued \cup {seq}
  BY <1>1, <1>4, <1>5, <1>6 DEF Logged, Issued
<1>8. Unnumbered' = Unnumbered \ {w}
  BY <1>1, <1>4, <1>5, <1>6 DEF Unnumbered
<1>9. Cardinality(Unnumbered') = Cardinality(Unnumbered) - 1
  BY <1>2, <1>8, UnnumberedFacts, FS_RemoveElement
<1>10. /\ counter' \in 0..(TailRange - 1)
       /\ counter' = IF counter = TailRange - 1 THEN 0 ELSE counter + 1
       /\ \A t \in 0..(TailRange - 1) : Age(t)' = IF t = counter THEN 1 ELSE Age(t) + 1
  BY <1>1, <1>2, CounterAdvances
<1>11. wraps \subseteq wraps'
  BY <1>1 DEF FetchAdd
<1>12. Types'
  BY <1>1, <1>2, <1>5, <1>6, <1>7, <1>10 DEF FeedInv, Types, Row
<1>13. NumbersOK'
  <2>1. \A s : TailPart(s)' = TailPart(s) /\ (IsNumber(s)' <=> IsNumber(s))
    BY <1>1 DEF TailPart, Ms, IsNumber
  <2>2. ASSUME NEW s \in Issued
        PROVE  IsNumber(s)' /\ Age(TailPart(s))' <= appends' - Cardinality(Unnumbered')
    <3>1. /\ IsNumber(s) /\ Age(TailPart(s)) <= appends - Cardinality(Unnumbered)
          /\ TailPart(s) \in 0..(TailRange - 1)
      BY DEF FeedInv, NumbersOK, IsNumber
    <3>2. Age(TailPart(s)) \in Int /\ Age(counter) = TailRange
      BY <1>2, <3>1 DEF Age
    <3>3. TailPart(s) # counter
      BY <1>2, <1>3, <3>1, <3>2
    <3>4. Age(TailPart(s))' = Age(TailPart(s)) + 1
      <4> DEFINE t == TailPart(s)
      <4>1. Age(t)' = Age(t) + 1
        <5>1. t' = t
          BY <2>1
        <5> HIDE DEF t
        <5> QED
          BY <1>10, <3>1, <3>3, <5>1 DEF t, Age
      <4> QED
        BY <4>1
    <3> QED
      BY <1>1, <1>2, <1>3, <1>9, <2>1, <3>1, <3>2, <3>4
  <2>3. IsNumber(seq) /\ TailPart(seq) = counter
    BY <1>4
  <2> QED
    BY <1>1, <1>2, <1>3, <1>4, <1>7, <1>9, <1>10, <2>1, <2>2 DEF FeedInv, NumbersOK, Age
<1>14. WrapsNoted'
  <2> SUFFICES ASSUME NEW s \in Issued', TailPart(s) >= counter',
                      Ms(s) = now \/ \E v \in Unnumbered' : draft'[v].ms = Ms(s)
               PROVE  Ms(s) \in wraps'
    BY <1>1 DEF WrapsNoted, TailPart, Ms
  <2>1. \A v \in Unnumbered' : v \in Unnumbered /\ draft'[v] = draft[v] /\ draft[v].seq = 0 /\ v \in Writer
    BY <1>6, <1>8 DEF Unnumbered
  <2>2. CASE counter = TailRange - 1
    <3>1. wraps' = wraps \cup {now} \cup {draft[v].ms : v \in {u \in Writer : draft[u].seq = 0}}
      BY <1>1, <2>2 DEF FetchAdd
    <3> QED
      BY <2>1, <3>1
  <2>3. CASE counter # TailRange - 1
    <3>1. counter' = counter + 1
      BY <1>10, <2>3
    <3>2. s # seq
      BY <1>2, <1>4, <3>1
    <3>3. s \in Issued /\ TailPart(s) \in Int
      BY <1>7, <3>2 DEF FeedInv, NumbersOK, IsNumber
    <3>4. TailPart(s) >= counter
      BY <1>2, <3>1, <3>3
    <3>5. Ms(s) = now \/ \E v \in Unnumbered : draft[v].ms = Ms(s)
      BY <2>1
    <3> QED
      BY <1>11, <3>3, <3>4, <3>5 DEF FeedInv, WrapsNoted
  <2> QED
    BY <2>2, <2>3
<1>15. Distinct' /\ KeyedOnce'
  <2>1. \A v \in Writer : draft[v].seq # 0 => draft[v].seq # seq
    BY <1>4 DEF Issued
  <2>2. seq \notin Logged
    BY <1>4 DEF Issued
  <2> QED
    BY <1>1, <1>5, <1>6, <1>7, <2>1, <2>2 DEF FeedInv, Distinct, KeyedOnce
<1>16. DraftsOK'
  <2>1. ASSUME ~draft[w].late, cursor # 0, seq <= cursor PROVE draft[w].ms \in wraps
    <3>1. Ms(cursor) <= draft[w].ms /\ cursor \in Issued
      BY <1>1, <2>1, CursorFacts DEF FeedInv, DraftsOK
    <3> QED
      BY <1>2, <2>1, <3>1, BehindOnlyAfterWrap DEF FeedInv, seq
  <2>2. cursor = 0 => ~(seq <= cursor)
    BY <1>4
  <2> QED
    BY <1>1, <1>4, <1>5, <1>6, <1>11, <2>1, <2>2 DEF FeedInv, DraftsOK, Ms
<1>17. MissedForCause'
  BY <1>1, <1>7, <1>11 DEF FeedInv, MissedForCause, Excused, Ms
<1>18. LogInOrder'
  BY <1>1, <1>11 DEF FeedInv, LogInOrder, Ms
<1> QED
  BY <1>12, <1>13, <1>14, <1>15, <1>16, <1>17, <1>18 DEF FeedInv

\* An appended row has a new key, if it has one, and its answer is itself; a row
\* that is not appended is answered by a row of the log.
LEMMA AppendOrAnswerKeeps ==
    ASSUME Types, KeyedOnce, NEW row \in Row, AppendOrAnswer(row)
    PROVE  /\ log' \in Seq(Row) /\ answers' \subseteq ToSet(log') /\ KeyedOnce'
           /\ log' = Append(log, row) \/ log' = log
           /\ Known(row.event) = {} => log' = Append(log, row)
           /\ Known(row.event) # {} => log' = log
<1>0. log \in Seq(Row) /\ answers \subseteq ToSet(log)
  BY DEF Types
<1>1. CASE Known(row.event) = {}
  <2>1. log' = Append(log, row) /\ answers' = answers \cup {row}
    BY <1>1 DEF AppendOrAnswer
  <2>2. /\ log' \in Seq(Row) /\ DOMAIN log' = 1..(Len(log) + 1)
        /\ \A i \in DOMAIN log : i \in DOMAIN log' /\ log'[i] = log[i]
        /\ log'[Len(log) + 1] = row
        /\ ToSet(log') = ToSet(log) \cup {row}
    BY <1>0, <2>1, AppendedRow
  <2>3. Len(log) \in Nat /\ DOMAIN log = 1..Len(log) /\ \A i \in DOMAIN log : log[i] \in ToSet(log)
    BY <1>0, LogFacts
  <2>4. \A i \in DOMAIN log' : i \in DOMAIN log \/ i = Len(log) + 1
    BY <2>2, <2>3
  <2>5. row.event \in Keyed => \A i \in DOMAIN log : log[i].event # row.event
    BY <1>1, <2>3 DEF Known
  <2>6. KeyedOnce'
    BY <2>2, <2>4, <2>5 DEF KeyedOnce
  <2> QED
    BY <1>0, <1>1, <2>1, <2>2, <2>6
<1>2. CASE Known(row.event) # {}
  <2>1. log' = log /\ answers' = answers \cup Known(row.event)
    BY <1>2 DEF AppendOrAnswer
  <2> QED
    BY <1>0, <1>2, <2>1 DEF Known, KeyedOnce
<1> QED
  BY <1>1, <1>2

\* The counter goes on without a row: every number is one older.
LEMMA ProjectionKeeps == ASSUME FeedInv, append_balance_projection PROVE FeedInv'
<1>1. /\ appends < MaxAppends /\ appends' = appends + 1 /\ FetchAdd
      /\ store' = store /\ now' = now /\ draft' = draft /\ log' = log /\ answers' = answers
      /\ cursor' = cursor /\ delivered' = delivered /\ late' = late
  BY DEF append_balance_projection, StartAppend, logVars, consumerVars
<1>2. /\ Logged' = Logged /\ Issued' = Issued /\ Unnumbered' = Unnumbered
      /\ \A s : TailPart(s)' = TailPart(s) /\ (IsNumber(s)' <=> IsNumber(s))
  BY <1>1 DEF Logged, Issued, Unnumbered, TailPart, Ms, IsNumber
<1>3. /\ appends \in Nat /\ appends' \in 0..MaxAppends /\ appends < TailRange
      /\ TailRange \in Nat /\ counter \in 0..(TailRange - 1)
      /\ Cardinality(Unnumbered) \in Nat
  BY <1>1, FeedBounds, UnnumberedFacts DEF FeedInv, Types
<1>4. /\ counter' \in 0..(TailRange - 1)
      /\ counter' = IF counter = TailRange - 1 THEN 0 ELSE counter + 1
      /\ \A t \in 0..(TailRange - 1) : Age(t)' = IF t = counter THEN 1 ELSE Age(t) + 1
  BY <1>1, <1>3, CounterAdvances
<1>5. wraps \subseteq wraps'
  BY <1>1 DEF FetchAdd
<1>6. Types'
  BY <1>1, <1>2, <1>3, <1>4 DEF FeedInv, Types
<1>7. NumbersOK'
  <2>1. Cardinality(Unnumbered)' <= appends'
    <3>1. Cardinality(Unnumbered) <= appends
      BY DEF FeedInv, NumbersOK
    <3> QED
      BY <1>1, <1>2, <1>3, <3>1
  <2>2. ASSUME NEW s \in Issued
        PROVE  IsNumber(s)' /\ Age(TailPart(s))' <= appends + 1 - Cardinality(Unnumbered)
    <3> DEFINE t == TailPart(s)
    <3>1. IsNumber(s) /\ t \in 0..(TailRange - 1) /\ Age(t) <= appends - Cardinality(Unnumbered)
      BY DEF FeedInv, NumbersOK, IsNumber
    <3>2. t' = t
      BY <1>2
    <3> HIDE DEF t
    <3>3. Age(t) \in Int /\ (t = counter => Age(t) = TailRange)
      BY <1>3, <3>1 DEF Age
    <3>4. t # counter
      BY <1>3, <3>1, <3>3
    <3>5. Age(t)' = Age(t) + 1
      BY <1>4, <3>1, <3>2, <3>4 DEF Age
    <3> QED
      BY <1>2, <1>3, <3>1, <3>3, <3>5 DEF t
  <2>3. Cardinality(Unnumbered)' = Cardinality(Unnumbered)
    BY <1>2
  <2> QED
    <3>1. \A s \in Issued : IsNumber(s)' /\ Age(TailPart(s))' <= appends + 1 - Cardinality(Unnumbered)
      BY <2>2
    <3>2. \A s \in Issued' : IsNumber(s)' /\ Age(TailPart(s))' <= appends' - Cardinality(Unnumbered)'
      BY <1>1, <1>2, <1>3, <2>3, <3>1
    <3> QED
      BY <2>1, <3>2 DEF NumbersOK
<1>8. WrapsNoted'
  <2> SUFFICES ASSUME NEW s \in Issued, TailPart(s) >= counter',
                      Ms(s) = now \/ \E v \in Unnumbered : draft[v].ms = Ms(s)
               PROVE  Ms(s) \in wraps'
    BY <1>1, <1>2 DEF WrapsNoted, TailPart, Ms
  <2>1. CASE counter = TailRange - 1
    <3>1. wraps' = wraps \cup {now} \cup {draft[v].ms : v \in {u \in Writer : draft[u].seq = 0}}
      BY <1>1, <2>1 DEF FetchAdd
    <3> QED
      BY <3>1 DEF Unnumbered
  <2>2. CASE counter # TailRange - 1
    <3>1. counter' = counter + 1 /\ TailPart(s) \in Int
      BY <1>4, <2>2 DEF FeedInv, NumbersOK, IsNumber
    <3>2. TailPart(s) >= counter
      BY <1>3, <3>1
    <3> QED
      BY <1>5, <3>2 DEF FeedInv, WrapsNoted
  <2> QED
    BY <2>1, <2>2
<1>9. Distinct' /\ KeyedOnce'
  BY <1>1, <1>2 DEF FeedInv, Distinct, KeyedOnce
<1>10. DraftsOK'
  BY <1>1, <1>5 DEF FeedInv, DraftsOK, Ms
<1>11. MissedForCause' /\ LogInOrder'
  BY <1>1, <1>2, <1>5 DEF FeedInv, MissedForCause, Excused, LogInOrder, Ms
<1> QED
  BY <1>6, <1>7, <1>8, <1>9, <1>10, <1>11 DEF FeedInv

\* The row becomes visible, or is found in place: the number is late, or behind the
\* cursor only because the counter wrapped.
LEMMA InsertRowKeeps == ASSUME FeedInv, NEW w \in Writer, InsertRow(w) PROVE FeedInv'
<1> DEFINE row == [seq |-> draft[w].seq, event |-> draft[w].event]
           seq == draft[w].seq
<1>1. /\ seq # 0 /\ AppendOrAnswer(row) /\ draft' = [draft EXCEPT ![w] = None]
      /\ late' = IF draft[w].late /\ seq <= cursor THEN late \cup {seq} ELSE late
      /\ store' = store /\ now' = now /\ counter' = counter /\ appends' = appends
      /\ cursor' = cursor /\ delivered' = delivered /\ wraps' = wraps
  BY DEF InsertRow, ReadPast, consumerVars
<1>2. /\ draft'[w] = None /\ draft'[w].seq = 0
      /\ draft' \in [Writer -> [event : Event \cup {"none"}, ms : Nat, seq : Nat, late : BOOLEAN]]
      /\ \A v \in Writer : v # w => draft'[v] = draft[v]
      /\ Unnumbered' = Unnumbered \ {w}
  BY <1>1, DraftDropped DEF FeedInv
<1>3. draft[w] # None /\ w \notin Unnumbered
  BY <1>1 DEF None, Unnumbered
<1>4. Unnumbered' = Unnumbered
  BY <1>2, <1>3
<1>5. row \in Row /\ row.seq = seq
  BY <1>3 DEF FeedInv, Types, Row
<1>6. seq \in Issued /\ seq \notin Logged
  BY <1>1 DEF Issued, FeedInv, Distinct
<1> HIDE DEF row, seq
<1>7. /\ log' \in Seq(Row) /\ answers' \subseteq ToSet(log') /\ KeyedOnce'
      /\ log' = Append(log, row) \/ log' = log
  BY <1>1, <1>5, AppendOrAnswerKeeps DEF FeedInv
<1>8. log \in Seq(Row)
  BY DEF FeedInv, Types
<1>9. Logged \subseteq Logged' /\ Logged' \subseteq Logged \cup {seq}
  <2>1. CASE log' = Append(log, row)
    BY <1>5, <1>8, <2>1, AppendedRow
  <2>2. CASE log' = log
    BY <2>2 DEF Logged
  <2> QED
    BY <1>7, <2>1, <2>2
<1>10. Issued' \subseteq Issued
  <2>1. \A v \in Writer : draft'[v].seq # 0 => draft'[v] = draft[v]
    BY <1>2
  <2> QED
    BY <1>6, <1>9, <2>1 DEF Issued
<1>11. Types'
  BY <1>1, <1>2, <1>7, <1>9 DEF FeedInv, Types
<1>12. NumbersOK'
  <2>1. \A t : Age(t)' = Age(t)
    BY <1>1 DEF Age
  <2>2. \A s : TailPart(s)' = TailPart(s) /\ (IsNumber(s)' <=> IsNumber(s))
    BY <1>1 DEF TailPart, Ms, IsNumber
  <2> QED
    BY <1>1, <1>4, <1>10, <2>1, <2>2 DEF FeedInv, NumbersOK
<1>13. WrapsNoted'
  <2>1. \A v \in Unnumbered : draft'[v] = draft[v]
    BY <1>2, <1>3 DEF Unnumbered
  <2> QED
    BY <1>1, <1>4, <1>10, <2>1 DEF FeedInv, WrapsNoted, TailPart, Ms
<1>14. Distinct'
  <2>1. \A i, j \in DOMAIN log' : log'[i].seq = log'[j].seq => i = j
    <3>1. CASE log' = Append(log, row)
      <4>1. /\ DOMAIN log' = 1..(Len(log) + 1)
            /\ \A i \in DOMAIN log : log'[i] = log[i]
            /\ log'[Len(log) + 1].seq = seq
        BY <1>5, <1>8, <3>1, AppendedRow
      <4>2. Len(log) \in Nat /\ DOMAIN log = 1..Len(log) /\ \A i \in DOMAIN log : log[i].seq \in Logged
        BY <1>8, LogFacts
      <4>3. \A i \in DOMAIN log' : i \in DOMAIN log \/ i = Len(log) + 1
        BY <4>1, <4>2
      <4>4. \A i \in DOMAIN log : log[i].seq # seq
        BY <1>6, <4>2
      <4> QED
        BY <4>1, <4>3, <4>4 DEF FeedInv, Distinct
    <3>2. CASE log' = log
      BY <3>2 DEF FeedInv, Distinct
    <3> QED
      BY <1>7, <3>1, <3>2
  <2>2. \A v \in Writer : draft'[v].seq # 0 => draft'[v].seq \notin Logged'
    BY <1>1, <1>2, <1>9 DEF FeedInv, Distinct, seq
  <2>3. \A u, v \in Writer : draft'[v].seq # 0 /\ draft'[v].seq = draft'[u].seq => v = u
    BY <1>2 DEF FeedInv, Distinct
  <2> QED
    BY <2>1, <2>2, <2>3 DEF Distinct
<1>15. DraftsOK'
  BY <1>1, <1>2 DEF FeedInv, DraftsOK, Ms
<1>16. store # "InMemory"
  BY <1>3 DEF FeedInv, LogInOrder
<1>17. MissedForCause'
  <2>1. ASSUME NEW s \in Logged', s <= cursor PROVE s \in delivered \/ s \in late' \/ Ms(s) \in wraps
    <3>1. CASE s = seq
      <4>1. draft[w].late \/ Ms(seq) \in wraps
        BY <1>1, <1>3, <2>1, <3>1 DEF FeedInv, DraftsOK, seq
      <4> QED
        BY <1>1, <2>1, <3>1, <4>1
    <3>2. CASE s # seq
      <4>1. s \in Logged
        BY <1>9, <3>2
      <4> QED
        BY <1>1, <2>1, <4>1 DEF FeedInv, MissedForCause, Excused
    <3> QED
      BY <3>1, <3>2
  <2> QED
    BY <1>1, <1>16, <2>1 DEF MissedForCause, Excused, Ms
<1>18. LogInOrder'
  BY <1>1, <1>16 DEF LogInOrder
<1> QED
  BY <1>7, <1>11, <1>12, <1>13, <1>14, <1>15, <1>17, <1>18 DEF FeedInv

\* In memory a number is taken and its row appended at once: the row comes after
\* every other in the order of numbers, or the counter wrapped in its millisecond.
LEMMA AppendLockedKeeps == ASSUME FeedInv, AppendLocked PROVE FeedInv'
<1> DEFINE seq == pack(now, counter)
<1>1. PICK e \in Event :
          /\ AppendOrAnswer([seq |-> seq, event |-> e])
          /\ IF Known(e) = {} THEN FetchAdd ELSE UNCHANGED <<counter, wraps>>
  BY DEF AppendLocked
<1> DEFINE row == [seq |-> seq, event |-> e]
<1>2. /\ store = "InMemory" /\ appends < MaxAppends /\ appends' = appends + 1
      /\ store' = store /\ now' = now /\ draft' = draft /\ cursor' = cursor
      /\ delivered' = delivered /\ late' = late
  BY DEF AppendLocked, StartAppend, consumerVars
<1>3. \A w \in Writer : draft[w] = None /\ draft[w].seq = 0
  BY <1>2 DEF FeedInv, LogInOrder, None
<1>4. Unnumbered = {} /\ Unnumbered' = {} /\ Cardinality({}) = 0 /\ Issued = Logged /\ Issued' = Logged'
  BY <1>2, <1>3, FS_EmptySet DEF Unnumbered, Issued
<1>5. /\ now \in 1..now /\ now \in Nat /\ appends \in Nat /\ appends' \in 0..MaxAppends
      /\ appends < TailRange /\ TailRange \in Nat /\ counter \in 0..(TailRange - 1)
  BY <1>2, FeedBounds DEF FeedInv, Types
<1>6. /\ IsNumber(seq) /\ Ms(seq) = now /\ TailPart(seq) = counter
      /\ seq \in Nat /\ seq # 0 /\ seq \notin Logged
  BY <1>4, <1>5, FreshNumber DEF FeedInv
<1>7. ASSUME NEW s \in Logged, seq <= s PROVE now \in wraps
  <2>1. Ms(s) <= now /\ s \in Issued
    BY <1>4, CursorFacts DEF FeedInv
  <2> QED
    BY <1>5, <1>7, <2>1, BehindOnlyAfterWrap DEF FeedInv
<1> HIDE DEF seq
<1>8. row \in Row /\ row.seq = seq /\ row.event = e
  BY <1>6 DEF Row
<1> HIDE DEF row
<1>9. /\ log' \in Seq(Row) /\ answers' \subseteq ToSet(log') /\ KeyedOnce'
      /\ Known(e) = {} => log' = Append(log, row)
      /\ Known(e) # {} => log' = log
  BY <1>1, <1>8, AppendOrAnswerKeeps DEF FeedInv, row
<1>10. log \in Seq(Row) /\ cursor \in {0} \cup Logged
  BY DEF FeedInv, Types
<1>11. CASE Known(e) # {}
  <2>1. log' = log /\ counter' = counter /\ wraps' = wraps
    BY <1>1, <1>9, <1>11
  <2>2. Logged' = Logged
    BY <2>1 DEF Logged
  <2>3. Types'
    BY <1>2, <1>5, <1>9, <2>1, <2>2 DEF FeedInv, Types
  <2>4. NumbersOK'
    <3>1. \A t : Age(t)' = Age(t)
      BY <2>1 DEF Age
    <3>2. \A s : TailPart(s)' = TailPart(s) /\ (IsNumber(s)' <=> IsNumber(s))
      BY <1>2 DEF TailPart, Ms, IsNumber
    <3>3. \A s \in Issued : Age(TailPart(s)) \in Int
      BY <1>5 DEF FeedInv, NumbersOK, IsNumber, Age
    <3>4. \A s \in Issued : IsNumber(s) /\ Age(TailPart(s)) <= appends
      BY <1>4, <1>5 DEF FeedInv, NumbersOK
    <3> QED
      BY <1>2, <1>4, <1>5, <2>2, <3>1, <3>2, <3>3, <3>4 DEF NumbersOK
  <2>5. WrapsNoted'
    BY <1>2, <1>4, <2>1, <2>2 DEF FeedInv, WrapsNoted, TailPart, Ms
  <2>6. Distinct' /\ DraftsOK' /\ MissedForCause' /\ LogInOrder'
    BY <1>2, <2>1, <2>2 DEF FeedInv, Distinct, DraftsOK, MissedForCause, Excused, LogInOrder, Ms
  <2> QED
    BY <1>9, <2>3, <2>4, <2>5, <2>6 DEF FeedInv
<1>12. CASE Known(e) = {}
  <2>1. log' = Append(log, row) /\ FetchAdd
    BY <1>1, <1>9, <1>12
  <2>2. /\ DOMAIN log' = 1..(Len(log) + 1)
        /\ \A i \in DOMAIN log : i \in DOMAIN log' /\ log'[i] = log[i]
        /\ log'[Len(log) + 1].seq = seq
        /\ Logged' = Logged \cup {seq}
    BY <1>8, <1>10, <2>1, AppendedRow
  <2>3. /\ Len(log) \in Nat /\ DOMAIN log = 1..Len(log)
        /\ \A i \in DOMAIN log : log[i].seq \in Logged /\ log[i].seq \in Nat
    BY <1>10, LogFacts
  <2>4. \A i \in DOMAIN log' : i \in DOMAIN log \/ i = Len(log) + 1
    BY <2>2, <2>3
  <2>5. /\ counter' \in 0..(TailRange - 1)
        /\ counter' = IF counter = TailRange - 1 THEN 0 ELSE counter + 1
        /\ \A t \in 0..(TailRange - 1) : Age(t)' = IF t = counter THEN 1 ELSE Age(t) + 1
        /\ wraps \subseteq wraps'
        /\ counter = TailRange - 1 => now \in wraps'
    BY <1>5, <2>1, CounterAdvances DEF FetchAdd
  <2>6. Types'
    BY <1>2, <1>5, <1>9, <2>2, <2>5 DEF FeedInv, Types
  <2>7. NumbersOK'
    <3>1. \A s : TailPart(s)' = TailPart(s) /\ (IsNumber(s)' <=> IsNumber(s))
      BY <1>2 DEF TailPart, Ms, IsNumber
    <3>2. ASSUME NEW s \in Logged PROVE IsNumber(s)' /\ Age(TailPart(s))' <= appends + 1
      <4>1. /\ IsNumber(s) /\ Age(TailPart(s)) <= appends /\ TailPart(s) \in 0..(TailRange - 1)
        BY <1>4, <1>5 DEF FeedInv, NumbersOK, IsNumber
      <4>2. Age(TailPart(s)) \in Int
        BY <1>5, <4>1 DEF Age
      <4> DEFINE t == TailPart(s)
      <4>3. Age(t)' = IF t = counter THEN 1 ELSE Age(t) + 1
        <5>1. t' = t
          BY <3>1
        <5> HIDE DEF t
        <5> QED
          BY <2>5, <4>1, <5>1 DEF t, Age
      <4> QED
        BY <1>5, <3>1, <4>1, <4>2, <4>3
    <3>3. ASSUME NEW s, s = seq PROVE IsNumber(s)' /\ Age(TailPart(s))' <= appends + 1
      <4> DEFINE t == TailPart(s)
      <4>1. IsNumber(s) /\ t = counter /\ t' = t
        BY <1>6, <3>1, <3>3
      <4> HIDE DEF t
      <4>2. Age(t)' = 1
        BY <1>5, <2>5, <4>1 DEF Age
      <4> QED
        BY <1>5, <3>1, <4>1, <4>2 DEF t
    <3>4. \A s \in Logged' : IsNumber(s)' /\ Age(TailPart(s))' <= appends + 1
      BY <2>2, <3>2, <3>3
    <3> QED
      BY <1>2, <1>4, <1>5, <3>4 DEF NumbersOK
  <2>8. WrapsNoted'
    <3> SUFFICES ASSUME NEW s \in Logged', TailPart(s) >= counter', Ms(s) = now
                 PROVE  Ms(s) \in wraps'
      BY <1>2, <1>4 DEF WrapsNoted, TailPart, Ms
    <3>1. CASE counter = TailRange - 1
      BY <2>5, <3>1
    <3>2. CASE counter # TailRange - 1
      <4>1. counter' = counter + 1
        BY <2>5, <3>2
      <4>2. s # seq
        BY <1>5, <1>6, <4>1
      <4>3. s \in Issued /\ TailPart(s) \in Int
        BY <1>4, <2>2, <4>2 DEF FeedInv, NumbersOK, IsNumber
      <4>4. TailPart(s) >= counter
        BY <1>5, <4>1, <4>3
      <4> QED
        BY <2>5, <4>3, <4>4 DEF FeedInv, WrapsNoted
    <3> QED
      BY <3>1, <3>2
  <2>9. Distinct'
    <3>1. \A i \in DOMAIN log : log[i].seq # seq
      BY <1>6, <2>3
    <3> QED
      BY <1>2, <1>3, <2>2, <2>4, <3>1 DEF FeedInv, Distinct
  <2>10. DraftsOK'
    BY <1>2, <1>3 DEF DraftsOK
  <2>11. MissedForCause'
    <3>1. seq <= cursor => Ms(seq) \in wraps'
      <4>1. cursor = 0 => ~(seq <= cursor)
        BY <1>6
      <4> QED
        BY <1>6, <1>7, <1>10, <2>5, <4>1
    <3> QED
      BY <1>2, <2>2, <2>5, <3>1 DEF FeedInv, MissedForCause, Excused, Ms
  <2>12. LogInOrder'
    <3> SUFFICES ASSUME NEW i \in DOMAIN log', NEW j \in DOMAIN log', i < j
                 PROVE  log'[i].seq < log'[j].seq \/ Ms(log'[j].seq) \in wraps'
      BY <1>2, <1>3 DEF LogInOrder, Ms
    <3>1. i \in DOMAIN log
      BY <2>2, <2>3
    <3>2. CASE j \in DOMAIN log
      BY <1>2, <2>2, <2>5, <3>1, <3>2 DEF FeedInv, LogInOrder
    <3>3. CASE j = Len(log) + 1
      BY <1>6, <1>7, <2>2, <2>3, <2>5, <3>1, <3>3
    <3> QED
      BY <2>4, <3>2, <3>3
  <2> QED
    BY <1>9, <2>6, <2>7, <2>8, <2>9, <2>10, <2>11, <2>12 DEF FeedInv
<1> QED
  BY <1>11, <1>12

\* A page is a first part of what follows the cursor, in the order of the store:
\* whatever follows the cursor and is not on the page comes after its last event.
LEMMA PageFacts ==
    ASSUME FeedInv, After(cursor) # {}
    PROVE  /\ ToSet(Page) \subseteq After(cursor) /\ Last(Page) \in ToSet(Page)
           /\ \A i \in After(cursor) \ ToSet(Page) :
                 IF store = "InMemory" THEN Last(Page) < i
                                       ELSE log[Last(Page)].seq < log[i].seq
<1> DEFINE S == After(cursor)
           before(i, j) == IF store = "InMemory" THEN i < j ELSE log[i].seq < log[j].seq
           R == {p \in S \X S : before(p[1], p[2])}
           all == [i \in 1..Cardinality(S) |->
                      CHOOSE x \in S : Cardinality({y \in S : before(y, x)}) = i - 1]
           n == IF Len(all) < Limit THEN Len(all) ELSE Limit
<1>1. /\ Len(log) \in Nat /\ DOMAIN log = 1..Len(log)
      /\ \A i \in DOMAIN log : log[i].seq \in Nat
      /\ \A i, j \in DOMAIN log : log[i].seq = log[j].seq => i = j
  BY LogFacts DEF FeedInv, Types, Distinct
<1>2. S \in SUBSET (1..Len(log)) /\ IsFiniteSet(S)
  <2>1. S \in SUBSET (1..Len(log)) /\ IsFiniteSet(1..Len(log))
    BY <1>1, FS_Interval DEF After
  <2> HIDE DEF S
  <2> QED
    BY <2>1, FS_Subset
<1>3. Page = SubSeq(all, 1, n)
  BY DEF Page, SortedSeq
<1> HIDE DEF S
<1>4. \A x, y \in S : <<x, y>> \in R <=> before(x, y)
  <2> HIDE DEF before
  <2> QED
    OBVIOUS
<1>5. Orders(R, S)
  <2>1. \A x, y \in S : x \in Nat /\ y \in Nat /\ log[x].seq \in Nat /\ log[y].seq \in Nat
    BY <1>1, <1>2
  <2>2. \A x, y \in S : x # y => log[x].seq # log[y].seq
    BY <1>1, <1>2
  <2> HIDE DEF R
  <2> QED
    BY <1>4, <2>1, <2>2 DEF Orders
<1> HIDE DEF before
<1>6. \A x \in S : {y \in S : before(y, x)} = Below(R, S, x)
  BY <1>4 DEF Below
<1>7. \A i \in 1..Cardinality(S) : \E x \in S : Cardinality({y \in S : before(y, x)}) = i - 1
  <2> HIDE DEF R
  <2>1. \A i \in 1..Cardinality(S) : \E x \in S : Cardinality(Below(R, S, x)) = i - 1
    BY <1>2, <1>5, PlacesTaken
  <2> QED
    BY <1>6, <2>1
<1> HIDE DEF R
<1>8. /\ all \in [1..Cardinality(S) -> S]
      /\ \A i \in 1..Cardinality(S) : Cardinality(Below(R, S, all[i])) = i - 1
  BY <1>6, <1>7
<1> HIDE DEF all
<1>9. /\ Cardinality(S) \in Nat /\ all \in Seq(S) /\ Len(all) = Cardinality(S)
      /\ DOMAIN all = 1..Cardinality(S) /\ ToSet(all) = S
      /\ \A i, j \in DOMAIN all : i < j => <<all[i], all[j]>> \in R
  <2> HIDE DEF n
  <2>0. /\ IsFiniteSet(S) /\ Orders(R, S) /\ all \in [1..Cardinality(S) -> S]
        /\ \A i \in 1..Cardinality(S) : Cardinality(Below(R, S, all[i])) = i - 1
    BY <1>2, <1>5, <1>8
  <2>1. Cardinality(S) \in Nat
    BY <2>0, FS_CardinalityType
  <2>2. all \in Seq(S) /\ Len(all) = Cardinality(S) /\ DOMAIN all = 1..Cardinality(S)
    BY <2>0, SortedFacts
  <2>3. ToSet(all) = S
    BY <2>0, SortedFacts
  <2>4. ASSUME NEW i \in DOMAIN all, NEW j \in DOMAIN all, i < j PROVE <<all[i], all[j]>> \in R
    BY <2>0, <2>4, SortedFacts
  <2> QED
    BY <2>1, <2>2, <2>3, <2>4
<1>10. n \in 1..Len(all) /\ Len(all) \in Nat
  <2>1. Cardinality(S) # 0
    BY <1>2, FS_EmptySet DEF S
  <2> QED
    BY <1>9, <2>1, FeedBounds
<1> HIDE DEF n
<1>11. Len(Page) = n /\ DOMAIN Page = 1..n /\ \A i \in 1..n : Page[i] = all[i]
  <2>1. 1 \in 1..(Len(all) + 1) /\ n \in 0..Len(all)
    BY <1>10
  <2>2. /\ SubSeq(all, 1, n) \in Seq(S) /\ Len(SubSeq(all, 1, n)) = n
        /\ \A i \in 1..n : SubSeq(all, 1, n)[i] = all[1 + i - 1]
    BY <1>9, <1>10, SubSeqProperties
  <2> QED
    BY <1>3, <1>10, <2>2, LenProperties
<1>12. Last(Page) = all[n] /\ ToSet(Page) = {all[i] : i \in 1..n}
  BY <1>10, <1>11 DEF Last, ToSet
<1>13. ToSet(Page) \subseteq S /\ Last(Page) \in ToSet(Page)
  BY <1>8, <1>9, <1>10, <1>12
<1>14. ASSUME NEW i \in S \ ToSet(Page) PROVE before(Last(Page), i)
  <2>1. PICK k \in DOMAIN all : all[k] = i
    BY <1>9 DEF ToSet
  <2>2. n < k
    BY <1>9, <1>10, <1>12, <1>14, <2>1
  <2>3. <<all[n], all[k]>> \in R /\ all[n] \in S
    BY <1>8, <1>9, <1>10, <2>1, <2>2
  <2> QED
    BY <1>4, <1>12, <2>1, <2>3
<1> QED
  BY <1>13, <1>14 DEF S, before

\* The consumer reads a page: what is now behind its cursor and was not is on the
\* page, or in memory was appended after a wrap.
LEMMA ConsumeKeeps == ASSUME FeedInv, Consume PROVE FeedInv'
<1> DEFINE last == log[Last(Page)].seq
<1>1. /\ After(cursor) # {}
      /\ delivered' = delivered \cup {log[i].seq : i \in ToSet(Page)} /\ cursor' = last
      /\ draft' = [w \in Writer |-> IF draft[w] = None THEN None
                                      ELSE [draft[w] EXCEPT !.late = TRUE]]
      /\ store' = store /\ now' = now /\ counter' = counter /\ log' = log /\ answers' = answers
      /\ appends' = appends /\ late' = late /\ wraps' = wraps
  BY DEF Consume, logVars
<1>2. /\ ToSet(Page) \subseteq After(cursor) /\ Last(Page) \in ToSet(Page)
      /\ \A i \in After(cursor) \ ToSet(Page) :
            IF store = "InMemory" THEN Last(Page) < i ELSE last < log[i].seq
  BY <1>1, PageFacts
<1>3. /\ Len(log) \in Nat /\ DOMAIN log = 1..Len(log) /\ After(cursor) \subseteq DOMAIN log
      /\ \A i \in DOMAIN log : log[i].seq \in Logged /\ log[i].seq \in Nat
      /\ \A seq \in Logged : \E i \in DOMAIN log : log[i].seq = seq
  BY LogFacts DEF FeedInv, Types, After
<1>4. last \in Logged /\ last \in Nat /\ Last(Page) \in DOMAIN log
  BY <1>2, <1>3
<1> HIDE DEF last
<1>5. Logged' = Logged
  BY <1>1 DEF Logged
<1>6. ASSUME NEW w \in Writer
      PROVE  /\ draft'[w] \in [event : Event \cup {"none"}, ms : Nat, seq : Nat, late : BOOLEAN]
             /\ draft'[w].seq = draft[w].seq /\ draft'[w].ms = draft[w].ms
             /\ draft'[w].event = draft[w].event
             /\ draft'[w] = None <=> draft[w] = None
             /\ draft'[w] # None => draft'[w].late = TRUE
  <2>1. draft[w] \in [event : Event \cup {"none"}, ms : Nat, seq : Nat, late : BOOLEAN]
    BY DEF FeedInv, Types
  <2>2. CASE draft[w] = None
    BY <1>1, <2>1, <2>2
  <2>3. CASE draft[w] # None
    <3> DEFINE d == [draft[w] EXCEPT !.late = TRUE]
    <3>1. /\ d \in [event : Event \cup {"none"}, ms : Nat, seq : Nat, late : BOOLEAN]
          /\ d.seq = draft[w].seq /\ d.ms = draft[w].ms /\ d.event = draft[w].event
          /\ d.late = TRUE
      BY <2>1
    <3>2. d # None
      BY <3>1 DEF None
    <3>3. draft'[w] = d
      BY <1>1, <2>3
    <3> HIDE DEF d
    <3> QED
      BY <2>3, <3>1, <3>2, <3>3
  <2> QED
    BY <2>2, <2>3
<1>7. draft' \in [Writer -> [event : Event \cup {"none"}, ms : Nat, seq : Nat, late : BOOLEAN]]
  <2>1. draft' = [w \in Writer |-> draft'[w]]
    BY <1>1
  <2> QED
    BY <1>6, <2>1
<1>8. Unnumbered' = Unnumbered /\ Issued' = Issued
  <2>1. Unnumbered' = Unnumbered
    BY <1>6 DEF Unnumbered
  <2>2. {v \in Writer : draft'[v].seq # 0} = {v \in Writer : draft[v].seq # 0}
    BY <1>6
  <2>3. {draft'[w].seq : w \in {v \in Writer : draft'[v].seq # 0}}
          = {draft[w].seq : w \in {v \in Writer : draft[v].seq # 0}}
    <3> DEFINE V == {v \in Writer : draft[v].seq # 0}
    <3>1. \A w \in V : draft'[w].seq = draft[w].seq
      BY <1>6
    <3> HIDE DEF V
    <3>2. {draft'[w].seq : w \in V} = {draft[w].seq : w \in V}
      BY <3>1
    <3> QED
      BY <2>2, <3>2 DEF V
  <2> QED
    BY <1>5, <2>1, <2>3 DEF Issued
<1>9. Types'
  <2>1. delivered' \subseteq Logged
    BY <1>1, <1>2, <1>3 DEF FeedInv, Types
  <2> QED
    BY <1>1, <1>4, <1>5, <1>6, <1>7, <2>1 DEF FeedInv, Types, Row
<1>10. NumbersOK'
  <2>1. \A t : Age(t)' = Age(t)
    BY <1>1 DEF Age
  <2>2. \A s : TailPart(s)' = TailPart(s) /\ (IsNumber(s)' <=> IsNumber(s))
    BY <1>1 DEF TailPart, Ms, IsNumber
  <2> QED
    BY <1>1, <1>8, <2>1, <2>2 DEF FeedInv, NumbersOK
<1>11. WrapsNoted'
  <2>1. \A v \in Unnumbered : draft'[v].ms = draft[v].ms
    BY <1>6 DEF Unnumbered
  <2> QED
    BY <1>1, <1>8, <2>1 DEF FeedInv, WrapsNoted, TailPart, Ms
<1>12. Distinct' /\ KeyedOnce'
  BY <1>1, <1>5, <1>6 DEF FeedInv, Distinct, KeyedOnce
<1>13. DraftsOK'
  BY <1>6 DEF DraftsOK
<1>14. MissedForCause'
  <2>1. ASSUME NEW seq \in Logged, seq <= last
        PROVE  seq \in delivered' \/ seq \in late \/ Ms(seq) \in wraps
    <3>1. PICK i \in DOMAIN log : log[i].seq = seq
      BY <1>3
    <3>2. CASE seq <= cursor
      BY <1>1, <3>2 DEF FeedInv, MissedForCause, Excused
    <3>3. CASE i \in ToSet(Page)
      BY <1>1, <3>1, <3>3
    <3>4. CASE ~(seq <= cursor) /\ i \notin ToSet(Page)
      <4>1. i \in After(cursor)
        BY <1>3, <3>1, <3>4, CursorFacts DEF After, FeedInv
      <4>2. IF store = "InMemory" THEN Last(Page) < i ELSE last < seq
        BY <1>2, <3>1, <3>4, <4>1
      <4>3. store = "InMemory" /\ Last(Page) < i
        BY <1>3, <1>4, <2>1, <3>1, <4>2
      <4>4. ~(last < seq)
        BY <1>3, <1>4, <2>1, <3>1
      <4> QED
        BY <1>4, <3>1, <4>3, <4>4 DEF FeedInv, LogInOrder, last
    <3> QED
      BY <3>2, <3>3, <3>4
  <2> QED
    BY <1>1, <1>5, <2>1 DEF FeedInv, MissedForCause, Excused, Ms
<1>15. LogInOrder'
  BY <1>1, <1>6 DEF FeedInv, LogInOrder, Ms
<1> QED
  BY <1>9, <1>10, <1>11, <1>12, <1>13, <1>14, <1>15 DEF FeedInv

\* Every step of the feed, and none, keeps the invariant.
LEMMA NextFeed == FeedInv /\ [Next]_vars => FeedInv'
<1> SUFFICES ASSUME FeedInv, [Next]_vars PROVE FeedInv'
  OBVIOUS
<1>1. CASE UNCHANGED vars
  <2>1. /\ store' = store /\ now' = now /\ counter' = counter /\ log' = log /\ answers' = answers
        /\ draft' = draft /\ appends' = appends /\ cursor' = cursor /\ delivered' = delivered
        /\ late' = late /\ wraps' = wraps
    BY <1>1 DEF vars, logVars, consumerVars
  <2>2. Logged' = Logged /\ Unnumbered' = Unnumbered /\ Issued' = Issued
    BY <2>1 DEF Logged, Unnumbered, Issued
  <2>3. Types' /\ Distinct' /\ KeyedOnce'
    BY <2>1, <2>2 DEF FeedInv, Types, Row, Distinct, KeyedOnce
  <2>4. NumbersOK' /\ WrapsNoted'
    BY <2>1, <2>2 DEF FeedInv, NumbersOK, WrapsNoted, IsNumber, TailPart, Ms, Age
  <2>5. DraftsOK' /\ MissedForCause' /\ LogInOrder'
    BY <2>1, <2>2 DEF FeedInv, DraftsOK, MissedForCause, Excused, LogInOrder, Ms
  <2> QED
    BY <2>3, <2>4, <2>5 DEF FeedInv
<1>2. CASE Next
  BY <1>2, TickKeeps, ConsumeKeeps, AppendLockedKeeps, ProjectionKeeps, ReadClockKeeps, TakeCounterKeeps,
     InsertRowKeeps, AbandonKeeps DEF Next
<1> QED
  BY <1>1, <1>2

-----------------------------------------------------------------------------
(* The theorems. *)

\* The tables keep their types, and a sequence number is the primary key it is used
\* as: as long as a counter range is not used up, no two rows get the same number,
\* however appends interleave and wherever the counter wraps.
THEOREM FeedTypes == Spec => []FeedTypeOK
<1>1. FeedInv => FeedTypeOK
  <2> SUFFICES ASSUME FeedInv PROVE FeedTypeOK
    OBVIOUS
  <2>1. /\ Len(log) \in Nat /\ DOMAIN log = 1..Len(log)
        /\ \A i \in DOMAIN log : log[i] \in Row /\ log[i].seq \in Logged
        /\ \A seq \in Logged : \E i \in DOMAIN log : log[i].seq = seq
        /\ \A r \in ToSet(log) : \E i \in DOMAIN log : log[i] = r
    BY LogFacts DEF FeedInv, Types
  <2>2. ASSUME NEW seq \in Issued PROVE seq \in Seq64
    <3>1. IsNumber(seq) /\ now \in Nat /\ MaxMs \in Nat /\ now <= MaxMs /\ TailRange \in Nat \ {0}
      BY FeedBounds DEF FeedInv, NumbersOK, Types
    <3> DEFINE m == Ms(seq)
               t == TailPart(seq)
    <3>2. /\ seq \in Nat /\ m \in Nat /\ m <= MaxMs /\ t \in 0..(TailRange - 1)
          /\ m * TailRange \in Nat /\ MaxMs * TailRange \in Nat /\ seq = m * TailRange + t
      BY <3>1 DEF IsNumber, TailPart
    <3> HIDE DEF m, t
    <3>3. m * TailRange <= MaxMs * TailRange
      <4>1. CASE m < MaxMs
        BY <3>1, <3>2, <4>1, MoreRanges
      <4>2. CASE m = MaxMs
        BY <3>2, <4>2
      <4> QED
        BY <3>1, <3>2, <4>1, <4>2
    <3> QED
      BY <3>1, <3>2, <3>3 DEF Seq64, pack
  <2>3. 0 \in Seq64
    BY FeedBounds, PackFacts DEF Seq64
  <2>4. \A w \in Writer : draft[w].seq \in Seq64
    BY <2>2, <2>3 DEF Issued
  <2>5. ToSet(log) \cup answers \subseteq [seq : Seq64, event : Event]
    <3>1. \A r \in Row : r.seq \in Seq64 => r \in [seq : Seq64, event : Event]
      BY DEF Row
    <3>2. \A i \in DOMAIN log : log[i].seq \in Seq64
      BY <2>1, <2>2 DEF Issued
    <3>3. answers \subseteq ToSet(log)
      BY DEF FeedInv, Types
    <3> QED
      BY <2>1, <3>1, <3>2, <3>3
  <2>6. Cardinality(Logged) = Len(log)
    <3> DEFINE f == [i \in 1..Len(log) |-> log[i].seq]
    <3>1. f \in Bijection(1..Len(log), Logged)
      BY <2>1 DEF Bijection, Injection, Surjection, IsInjective, FeedInv, Distinct
    <3> HIDE DEF f
    <3>2. ExistsBijection(1..Len(log), Logged)
      BY <3>1 DEF ExistsBijection
    <3> QED
      BY <2>1, <3>2, FS_CountingElements
  <2> QED
    BY <2>2, <2>3, <2>4, <2>5, <2>6 DEF FeedInv, Types, FeedTypeOK, Issued
<1> QED
  BY <1>1, InitFeed, NextFeed, PTL DEF Spec

\* A keyed event has one row, whoever appends it how often, and everybody is answered
\* with the number of that row: on the SQL store the conflict clause decides when the
\* row becomes visible, not when the number is taken.
THEOREM ReplaysAgreeThm == Spec => []ReplaysAgree
<1>1. FeedInv => ReplaysAgree
  <2> SUFFICES ASSUME FeedInv PROVE ReplaysAgree
    OBVIOUS
  <2>1. \A r \in ToSet(log) : \E i \in DOMAIN log : log[i] = r
    BY LogFacts DEF FeedInv, Types
  <2>2. ASSUME NEW e \in Keyed
        PROVE  Cardinality({r \in ToSet(log) : r.event = e}) <= 1
    <3> DEFINE S == {r \in ToSet(log) : r.event = e}
    <3>1. \A r, q \in S : r = q
      BY <2>1 DEF FeedInv, KeyedOnce
    <3> HIDE DEF S
    <3>2. S = {} \/ \E r : S = {r}
      BY <3>1
    <3>3. Cardinality(S) <= 1
      <4>1. CASE S = {}
        BY <4>1, FS_EmptySet
      <4>2. ASSUME NEW r, S = {r} PROVE Cardinality(S) <= 1
        BY <4>2, FS_Singleton
      <4> QED
        BY <3>2, <4>1, <4>2
    <3> QED
      BY <3>3 DEF S
  <2> QED
    BY <2>2 DEF ReplaysAgree, FeedInv, Types
<1> QED
  BY <1>1, InitFeed, NextFeed, PTL DEF Spec

\* A consumer that asks for what follows the last number it got misses an event only
\* if its append was under way while the consumer read, or the counter wrapped in its
\* millisecond; in memory only for the latter.
THEOREM MissedForCauseThm == Spec => []MissedForCause
<1>1. FeedInv => MissedForCause
  BY DEF FeedInv
<1> QED
  BY <1>1, InitFeed, NextFeed, PTL DEF Spec
=============================================================================
