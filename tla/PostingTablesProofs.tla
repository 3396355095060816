------------------------- MODULE PostingTablesProofs -------------------------
(***************************************************************************)
(* The posting primitives, for any postings, callers, calls and chunk      *)
(* size.                                                                   *)
(***************************************************************************)
EXTENDS PostingTables, SequenceTheorems, FiniteSetTheorems, TLAPS

\* The ids of one statement and the ids left for the next are ids of the call.
LEMMA ChunkFacts ==
    ASSUME NEW S, NEW ids \in Seq(S)
    PROVE  /\ Chunk(ids) \in Seq(S)
           /\ AfterChunk(ids) \in Seq(S)
           /\ ToSet(Chunk(ids)) \subseteq ToSet(ids)
           /\ ToSet(AfterChunk(ids)) \subseteq ToSet(ids)
<1> DEFINE n == IF Len(ids) < MAX_IDS_PER_QUERY THEN Len(ids) ELSE MAX_IDS_PER_QUERY
<1>1. /\ Len(ids) \in Nat /\ n \in 0..Len(ids)
      /\ DOMAIN ids = 1..Len(ids)
      /\ \A i \in 1..Len(ids) : ids[i] \in S
  BY LenProperties, ElementOfSeq, ChunkAssumption
<1>2. Chunk(ids) = SubSeq(ids, 1, n)
  BY DEF Chunk
<1> HIDE DEF n
<1>3. /\ Chunk(ids) \in Seq(S) /\ Len(Chunk(ids)) = n
      /\ \A i \in 1..n : Chunk(ids)[i] = ids[i]
      /\ DOMAIN Chunk(ids) = 1..n
  BY <1>1, <1>2, SubSeqProperties, LenProperties
<1>4. AfterChunk(ids) = SubSeq(ids, n + 1, Len(ids))
  BY <1>3 DEF AfterChunk
<1>5. /\ AfterChunk(ids) \in Seq(S)
      /\ DOMAIN AfterChunk(ids) = 1..(Len(ids) - n)
      /\ \A i \in 1..(Len(ids) - n) : AfterChunk(ids)[i] = ids[n + i]
  BY <1>1, <1>4, SubSeqProperties, LenProperties
<1>6. ToSet(Chunk(ids)) \subseteq ToSet(ids)
  BY <1>1, <1>3 DEF ToSet
<1>7. ToSet(AfterChunk(ids)) \subseteq ToSet(ids)
  BY <1>1, <1>5 DEF ToSet
<1> QED
  BY <1>3, <1>5, <1>6, <1>7

\* A sequence has finitely many elements.
LEMMA FiniteRange ==
    ASSUME NEW S, NEW s \in Seq(S)
    PROVE  IsFiniteSet(ToSet(s))
<1>1. Len(s) \in Nat /\ DOMAIN s = 1..Len(s)
  BY LenProperties
<1>2. s \in Surjection(1..Len(s), ToSet(s))
  BY <1>1 DEF Surjection, ToSet
<1> QED
  BY <1>1, <1>2, FS_Interval, FS_Surjection

\* Taking the first element of a sequence leaves a sequence of its elements.
LEMMA HeadTailFacts ==
    ASSUME NEW S, NEW s \in Seq(S), s # <<>>
    PROVE  /\ Head(s) \in ToSet(s)
           /\ Tail(s) \in Seq(S)
           /\ ToSet(Tail(s)) \subseteq ToSet(s)
<1>1. /\ Len(s) \in Nat /\ Len(s) > 0 /\ DOMAIN s = 1..Len(s)
      /\ Tail(s) \in Seq(S) /\ Len(Tail(s)) = Len(s) - 1
      /\ \A i \in 1..Len(Tail(s)) : Tail(s)[i] = s[i + 1]
      /\ Head(s) = s[1]
  BY LenProperties, HeadTailProperties, EmptySeq
<1>2. DOMAIN Tail(s) = 1..Len(Tail(s))
  BY <1>1, LenProperties
<1> QED
  BY <1>1, <1>2 DEF ToSet

\* Whatever order the database locks the matched rows in, they are the matched rows.
LEMMA OrderFacts ==
    ASSUME NEW S, IsFiniteSet(S), NEW order \in SetToSeqs(S)
    PROVE  order \in Seq(S) /\ ToSet(order) \subseteq S
<1>1. Cardinality(S) \in Nat
  BY FS_CardinalityType
<1>2. order \in [1..Cardinality(S) -> S]
  BY DEF SetToSeqs
<1> QED
  BY <1>1, <1>2, IsASeq DEF ToSet

-----------------------------------------------------------------------------
(* The inductive invariant. *)

\* What a statement of the call matches: NewValue(c) never is, so that no row is
\* taken twice.
MatchValue(c) == IF call[c].op \in {"release", "finalize"} THEN c ELSE NULL

\* Every caller has a slot in every variable, and its ids are postings.
SlotsOK ==
    /\ call \in [Caller -> Calls \cup {NoCall}]
    /\ rest \in [Caller -> Seq(PostingId)]
    /\ rows \in [Caller -> Seq(PostingId)]
    /\ DOMAIN writes = Caller /\ DOMAIN found = Caller
    /\ DOMAIN reply = Caller /\ DOMAIN held = Caller

\* What a caller is doing agrees with its call.
PhaseOf(c) ==
    /\ pc[c] = "idle" => call[c] = NoCall
    /\ pc[c] = "open" => call[c] \in Calls /\ call[c].op # "states"
    /\ pc[c] \in {"live", "present"} => call[c].op = "states"
    /\ rows[c] # <<>> => pc[c] = "open" /\ call[c].op # "insert"
    /\ pc[c] = "open" =>
          ToSet(rest[c]) \cup ToSet(rows[c]) \cup DOMAIN writes[c] \subseteq ToSet(call[c].ids)

\* The row a transaction wrote is, for everybody else, still the row it matched.
WritesOf(c) ==
    \A id \in DOMAIN writes[c] :
        /\ call[c].op = "insert" => id \notin postings /\ writes[c][id] = NULL
        /\ call[c].op # "insert" => /\ id \in DOMAIN live
                                    /\ live[id] = MatchValue(c)
                                    /\ writes[c][id] = NewValue(c)

PhaseOK == \A c \in Caller : PhaseOf(c)
WritesOK == \A c \in Caller : WritesOf(c)

TxInv == TablesTypeOK /\ SlotsOK /\ PhaseOK /\ WritesOK

\* What a reader found is what it saw; an id it did not find live was seen spent.
ReaderOf(c) ==
    /\ DOMAIN seen[c] = PostingId
    /\ DOMAIN found[c] \subseteq PostingId
    /\ reply[c] = "states" => pc[c] = "idle"
    /\ pc[c] \in {"live", "present"} =>
          /\ ToSet(rest[c]) \subseteq postings
          /\ \A id \in PostingId : State(id) \in seen[c][id]
    /\ pc[c] \in {"live", "present"} \/ reply[c] = "states" =>
          \A id \in DOMAIN found[c] : found[c][id] \in seen[c][id]
    /\ pc[c] = "present" =>
          \A id \in ToSet(Chunk(rest[c])) \ DOMAIN found[c] : GONE \in seen[c][id]

ReadersOK == DOMAIN seen = Caller /\ \A c \in Caller : ReaderOf(c)

-----------------------------------------------------------------------------
(* Transactions keep it. *)

\* Empty tables and no open transaction.
LEMMA InitTx == Init => TxInv
<1> SUFFICES ASSUME Init PROVE TxInv
  OBVIOUS
<1>1. /\ postings = {} /\ live = Empty /\ calls = 0
      /\ locks = [id \in PostingId |-> NoCaller]
      /\ pc = [c \in Caller |-> "idle"] /\ call = [c \in Caller |-> NoCall]
      /\ rest = [c \in Caller |-> <<>>] /\ rows = [c \in Caller |-> <<>>]
      /\ writes = [c \in Caller |-> Empty] /\ found = [c \in Caller |-> Empty]
      /\ reply = [c \in Caller |-> "none"] /\ held = [c \in Caller |-> {}]
  BY DEF Init
<1>2. DOMAIN Empty = {}
  BY DEF Empty
<1>3. TablesTypeOK
  BY <1>1, <1>2, CallsAssumption, CallerAssumption DEF TablesTypeOK
<1>4. SlotsOK
  BY <1>1 DEF SlotsOK
<1>5. PhaseOK
  BY <1>1 DEF PhaseOK, PhaseOf
<1>6. WritesOK
  BY <1>1, <1>2 DEF WritesOK, WritesOf
<1> QED
  BY <1>3, <1>4, <1>5, <1>6 DEF TxInv

\* A caller whose slots do not change, while the rows it wrote do not change either.
LEMMA Bystander ==
    ASSUME NEW d \in Caller, PhaseOf(d), WritesOf(d),
           pc'[d] = pc[d], call'[d] = call[d], rest'[d] = rest[d], rows'[d] = rows[d],
           writes'[d] = writes[d],
           \A id \in DOMAIN writes[d] :
              /\ id \notin postings => id \notin postings'
              /\ id \in DOMAIN live => id \in DOMAIN live' /\ live'[id] = live[id]
    PROVE  PhaseOf(d)' /\ WritesOf(d)'
<1>1. PhaseOf(d)'
  BY DEF PhaseOf
<1>2. MatchValue(d)' = MatchValue(d) /\ NewValue(d)' = NewValue(d)
  BY DEF MatchValue, NewValue
<1>3. WritesOf(d)'
  BY <1>2 DEF WritesOf
<1> QED
  BY <1>1, <1>3

\* A call begins: no statement has run.
LEMMA BeginTx ==
    ASSUME TxInv, NEW c \in Caller, Begin(c)
    PROVE  TxInv'
<1> USE DEF TxInv
<1>1. PICK w \in Calls : /\ ~Reads(w)
                          /\ pc' = [pc EXCEPT ![c] = "open"]
                          /\ call' = [call EXCEPT ![c] = w]
                          /\ rest' = [rest EXCEPT ![c] = w.ids]
  BY DEF Begin
<1>2. /\ pc[c] = "idle" /\ calls < MaxCalls /\ calls' = calls + 1
      /\ reply' = [reply EXCEPT ![c] = "none"]
      /\ postings' = postings /\ live' = live /\ locks' = locks /\ rows' = rows
      /\ writes' = writes /\ found' = found /\ held' = held
  BY DEF Begin, tables
<1>3. w.ids \in Seq(PostingId)
  BY CallsAssumption
<1>4. writes[c] = Empty /\ rows[c] = <<>> /\ DOMAIN Empty = {} /\ ToSet(<<>>) = {}
  BY <1>2 DEF TablesTypeOK, PhaseOK, PhaseOf, Empty, ToSet
<1>5. TablesTypeOK'
  BY <1>1, <1>2, <1>4, CallsAssumption DEF TablesTypeOK
<1>6. SlotsOK'
  BY <1>1, <1>2, <1>3 DEF SlotsOK
<1>7. ASSUME NEW d \in Caller PROVE PhaseOf(d)' /\ WritesOf(d)'
  <2>1. CASE d = c
    <3>1. /\ pc'[c] = "open" /\ call'[c] = w /\ rest'[c] = w.ids
          /\ writes'[c] = Empty /\ rows'[c] = <<>>
      BY <1>1, <1>2, <1>4 DEF SlotsOK, TablesTypeOK
    <3> QED
      BY <2>1, <3>1, <1>1, <1>4 DEF PhaseOf, WritesOf, Reads
  <2>2. CASE d # c
    BY <2>2, <1>1, <1>2, Bystander DEF SlotsOK, TablesTypeOK, PhaseOK, WritesOK
  <2> QED
    BY <2>1, <2>2
<1> QED
  BY <1>5, <1>6, <1>7 DEF PhaseOK, WritesOK

\* COMMIT or ROLLBACK, whatever becomes visible of the transaction, as long as the
\* rows that others hold stay as they are.
LEMMA EndTx ==
    ASSUME TxInv, NEW c \in Caller, NEW answer, End(c, answer),
           found' = found, DOMAIN held' = Caller,
           postings' \subseteq PostingId, DOMAIN live' \subseteq postings',
           \A id \in DOMAIN live' : live'[id] \in {NULL} \cup Caller,
           \A d \in Caller \ {c} : \A id \in DOMAIN writes[d] :
              /\ id \notin postings => id \notin postings'
              /\ id \in DOMAIN live => id \in DOMAIN live' /\ live'[id] = live[id]
    PROVE  TxInv'
<1> USE DEF TxInv
<1>1. /\ pc' = [pc EXCEPT ![c] = "idle"] /\ call' = [call EXCEPT ![c] = NoCall]
      /\ rest' = [rest EXCEPT ![c] = <<>>] /\ rows' = [rows EXCEPT ![c] = <<>>]
      /\ writes' = [writes EXCEPT ![c] = Empty]
      /\ locks' = [id \in PostingId |-> IF locks[id] = c THEN NoCaller ELSE locks[id]]
      /\ reply' = [reply EXCEPT ![c] = answer] /\ calls' = calls
  BY DEF End
<1>2. DOMAIN Empty = {}
  BY DEF Empty
<1>3. SlotsOK'
  BY <1>1 DEF SlotsOK
<1>4. TablesTypeOK'
  <2>1. \A d \in Caller : {id \in PostingId : locks'[id] = d} = DOMAIN writes'[d]
    BY <1>1, <1>2, CallerAssumption DEF TablesTypeOK, SlotsOK
  <2>2. locks' \in [PostingId -> Caller \cup {NoCaller}]
    BY <1>1 DEF TablesTypeOK
  <2>3. pc' \in [Caller -> {"idle", "open", "live", "present"}]
    BY <1>1 DEF TablesTypeOK
  <2>4. \A d \in Caller : pc'[d] # "open" => writes'[d] = Empty
    BY <1>1 DEF TablesTypeOK, SlotsOK
  <2> QED
    BY <1>1, <2>1, <2>2, <2>3, <2>4 DEF TablesTypeOK
<1>5. ASSUME NEW d \in Caller PROVE PhaseOf(d)' /\ WritesOf(d)'
  <2>1. CASE d = c
    <3>1. /\ pc'[c] = "idle" /\ call'[c] = NoCall /\ rows'[c] = <<>> /\ writes'[c] = Empty
      BY <1>1 DEF SlotsOK, TablesTypeOK
    <3> QED
      BY <2>1, <3>1, <1>2 DEF PhaseOf, WritesOf
  <2>2. CASE d # c
    BY <2>2, <1>1, Bystander DEF SlotsOK, TablesTypeOK, PhaseOK, WritesOK
  <2> QED
    BY <2>1, <2>2
<1> QED
  BY <1>3, <1>4, <1>5 DEF PhaseOK, WritesOK

\* A rollback drops the caller's writes and locks and leaves the tables alone.
LEMMA RollbackTx ==
    ASSUME TxInv, NEW c \in Caller, NEW answer, Rollback(c, answer)
    PROVE  TxInv'
<1>1. /\ End(c, answer) /\ postings' = postings /\ live' = live /\ found' = found /\ held' = held
  BY DEF Rollback, tables
<1> QED
  BY <1>1, EndTx DEF TxInv, TablesTypeOK, SlotsOK

\* What a commit makes of the two tables.
LEMMA CommitRows ==
    ASSUME TxInv, NEW c \in Caller, Commit(c)
    PROVE  /\ pc[c] = "open" /\ rows[c] = <<>> /\ rest[c] = <<>> /\ Complete(c)
           /\ postings' = postings \cup DOMAIN writes[c]
           /\ DOMAIN writes[c] \subseteq PostingId
           /\ \A id \in DOMAIN writes[c] : /\ writes[c][id] \in {NULL, GONE, c}
                                           /\ id \in DOMAIN live' <=> writes[c][id] # GONE
                                           /\ writes[c][id] # GONE => live'[id] = writes[c][id]
           /\ \A id : id \notin DOMAIN writes[c] =>
                 /\ id \in DOMAIN live' <=> id \in DOMAIN live
                 /\ id \in DOMAIN live => live'[id] = live[id]
<1> USE DEF TxInv
<1>1. /\ pc[c] = "open" /\ rows[c] = <<>> /\ rest[c] = <<>> /\ Complete(c)
      /\ postings' = postings \cup DOMAIN writes[c]
      /\ live' = [id \in {i \in DOMAIN live \cup DOMAIN writes[c] : Row(c, i) # GONE} |-> Row(c, id)]
  BY DEF Commit, Done
<1>2. DOMAIN writes[c] \subseteq PostingId
  BY DEF TablesTypeOK
<1>3. \A id \in DOMAIN writes[c] : Row(c, id) = writes[c][id] /\ writes[c][id] \in {NULL, GONE, c}
  BY DEF Row, WritesOK, WritesOf, NewValue
<1>4. \A id : id \notin DOMAIN writes[c] /\ id \in DOMAIN live =>
          Row(c, id) = live[id] /\ live[id] # GONE
  BY CallerAssumption DEF Row, TablesTypeOK, NULL, GONE
<1> QED
  BY <1>1, <1>2, <1>3, <1>4

\* A commit writes only rows its caller has locked, so that what the other open
\* transactions have written still fits the tables.
LEMMA CommitTx ==
    ASSUME TxInv, NEW c \in Caller, Commit(c)
    PROVE  TxInv'
<1> USE DEF TxInv
<1>1. PICK answer : End(c, answer) /\ held' = [held EXCEPT ![c] = HeldAfter(c, answer)]
  BY DEF Commit
<1>2. found' = found /\ DOMAIN held' = Caller
  BY <1>1 DEF Commit, SlotsOK
<1>3. postings' \subseteq PostingId /\ DOMAIN live' \subseteq postings'
  BY CommitRows DEF TablesTypeOK
<1>4. \A id \in DOMAIN live' : live'[id] \in {NULL} \cup Caller
  BY CommitRows DEF TablesTypeOK
<1>5. ASSUME NEW d \in Caller \ {c}, NEW id \in DOMAIN writes[d]
      PROVE  /\ id \notin postings => id \notin postings'
             /\ id \in DOMAIN live => id \in DOMAIN live' /\ live'[id] = live[id]
  <2>1. id \notin DOMAIN writes[c]
    BY DEF TablesTypeOK
  <2> QED
    BY <2>1, CommitRows
<1> QED
  BY <1>1, <1>2, <1>3, <1>4, <1>5, EndTx

\* A step of one transaction or reader that changes no table and ends no call.
LEMMA LocalTx ==
    ASSUME TxInv, NEW c \in Caller,
           postings' = postings, live' = live, calls' \in 0..MaxCalls,
           pc' \in [Caller -> {"idle", "open", "live", "present"}],
           locks' \in [PostingId -> Caller \cup {NoCaller}],
           SlotsOK', PhaseOf(c)', WritesOf(c)',
           {id \in PostingId : locks'[id] = c} = DOMAIN writes'[c],
           pc'[c] # "open" => writes'[c] = Empty,
           \A d \in Caller \ {c} :
              /\ pc'[d] = pc[d] /\ call'[d] = call[d] /\ rest'[d] = rest[d]
              /\ rows'[d] = rows[d] /\ writes'[d] = writes[d]
              /\ \A id \in PostingId : locks'[id] = d <=> locks[id] = d
    PROVE  TxInv'
<1> USE DEF TxInv
<1>1. TablesTypeOK'
  <2>1. \A d \in Caller : {id \in PostingId : locks'[id] = d} = DOMAIN writes'[d]
    BY DEF TablesTypeOK
  <2>2. \A d \in Caller : pc'[d] # "open" => writes'[d] = Empty
    BY DEF TablesTypeOK
  <2> QED
    BY <2>1, <2>2 DEF TablesTypeOK
<1>2. ASSUME NEW d \in Caller PROVE PhaseOf(d)' /\ WritesOf(d)'
  <2>1. CASE d = c
    BY <2>1
  <2>2. CASE d # c
    BY <2>2, Bystander DEF PhaseOK, WritesOK
  <2> QED
    BY <2>1, <2>2
<1> QED
  BY <1>1, <1>2 DEF PhaseOK, WritesOK

\* The statement that matches a chunk of ids writes nothing yet.
LEMMA MatchTx ==
    ASSUME TxInv, NEW c \in Caller, Match(c)
    PROVE  TxInv'
<1> USE DEF TxInv
<1> DEFINE S == {id \in ToSet(Chunk(rest[c])) : Matches(c, id)}
<1>1. PICK order \in SetToSeqs(S) : rows' = [rows EXCEPT ![c] = order]
  BY DEF Match
<1>2. /\ pc[c] = "open" /\ call[c].op # "insert"
      /\ rest' = [rest EXCEPT ![c] = AfterChunk(rest[c])]
      /\ postings' = postings /\ live' = live /\ locks' = locks /\ pc' = pc /\ call' = call
      /\ writes' = writes /\ found' = found /\ reply' = reply /\ calls' = calls /\ held' = held
  BY DEF Match, tables
<1>3. /\ Chunk(rest[c]) \in Seq(PostingId) /\ AfterChunk(rest[c]) \in Seq(PostingId)
      /\ ToSet(Chunk(rest[c])) \subseteq ToSet(rest[c])
      /\ ToSet(AfterChunk(rest[c])) \subseteq ToSet(rest[c])
  BY ChunkFacts DEF SlotsOK
<1>4. IsFiniteSet(S) /\ S \subseteq PostingId /\ S \subseteq ToSet(rest[c])
  <2>1. IsFiniteSet(ToSet(Chunk(rest[c])))
    BY <1>3, FiniteRange
  <2>2. ToSet(Chunk(rest[c])) \subseteq PostingId
    BY <1>3, ElementOfSeq, LenProperties DEF ToSet
  <2> QED
    BY <2>1, <2>2, <1>3, FS_Subset
<1> HIDE DEF S
<1>5. order \in Seq(PostingId) /\ ToSet(order) \subseteq ToSet(rest[c])
  BY <1>1, <1>4, OrderFacts, SeqMonotonic
<1>6. SlotsOK'
  BY <1>1, <1>2, <1>3, <1>5 DEF SlotsOK
<1>7. /\ pc'[c] = pc[c] /\ call'[c] = call[c] /\ writes'[c] = writes[c]
      /\ rest'[c] = AfterChunk(rest[c]) /\ rows'[c] = order
  BY <1>1, <1>2 DEF SlotsOK
<1>8. PhaseOf(c)'
  BY <1>2, <1>3, <1>5, <1>7 DEF PhaseOf, PhaseOK
<1>9. WritesOf(c)'
  BY <1>2 DEF WritesOf, WritesOK, MatchValue, NewValue
<1> QED
  BY <1>1, <1>2, <1>6, <1>8, <1>9, LocalTx DEF TablesTypeOK, SlotsOK

\* A matched row is written only once its lock is free and it still matches.
LEMMA TakeRowTx ==
    ASSUME TxInv, NEW c \in Caller, TakeRow(c)
    PROVE  TxInv'
<1> USE DEF TxInv
<1> DEFINE id == Head(rows[c])
<1>1. /\ pc[c] = "open" /\ rows[c] # <<>>
      /\ rows' = [rows EXCEPT ![c] = Tail(rows[c])]
      /\ postings' = postings /\ live' = live /\ pc' = pc /\ call' = call /\ rest' = rest
      /\ found' = found /\ reply' = reply /\ calls' = calls /\ held' = held
  BY DEF TakeRow, tables
<1>2. NextRow(c) = {id}
  <2>1. call[c].op # "insert"
    BY <1>1 DEF PhaseOK, PhaseOf
  <2> QED
    BY <1>1, <2>1 DEF NextRow
<1>3. /\ locks[id] \in {NoCaller, c}
      /\ \/ /\ Matches(c, id)
            /\ locks' = [locks EXCEPT ![id] = c]
            /\ writes' = [writes EXCEPT ![c] = Overlay([row \in {id} |-> NewValue(c)], writes[c])]
         \/ locks' = locks /\ writes' = writes
  BY <1>2 DEF TakeRow, StillMatches
<1>4. /\ id \in ToSet(rows[c]) /\ Tail(rows[c]) \in Seq(PostingId)
      /\ ToSet(Tail(rows[c])) \subseteq ToSet(rows[c])
  BY <1>1, HeadTailFacts DEF SlotsOK
<1>5. id \in PostingId /\ id \in ToSet(call[c].ids) /\ call[c].op # "insert"
  <2>1. ToSet(rows[c]) \subseteq PostingId
    BY ElementOfSeq, LenProperties DEF ToSet, SlotsOK
  <2> QED
    BY <2>1, <1>1, <1>4 DEF PhaseOK, PhaseOf
<1> HIDE DEF id
<1>6. rows'[c] = Tail(rows[c]) /\ pc'[c] = pc[c] /\ call'[c] = call[c] /\ rest'[c] = rest[c]
  BY <1>1 DEF SlotsOK
<1>7. MatchValue(c)' = MatchValue(c) /\ NewValue(c)' = NewValue(c)
  BY <1>6 DEF MatchValue, NewValue
<1>8. CASE locks' = locks /\ writes' = writes
  <2>1. SlotsOK'
    BY <1>1, <1>4, <1>8 DEF SlotsOK
  <2>2. PhaseOf(c)'
    BY <1>1, <1>4, <1>6, <1>8 DEF PhaseOK, PhaseOf
  <2>3. WritesOf(c)'
    BY <1>1, <1>7, <1>8 DEF WritesOK, WritesOf
  <2> QED
    BY <1>1, <1>8, <2>1, <2>2, <2>3, LocalTx DEF TablesTypeOK, SlotsOK
<1>9. CASE /\ Matches(c, id)
           /\ locks' = [locks EXCEPT ![id] = c]
           /\ writes' = [writes EXCEPT ![c] = Overlay([row \in {id} |-> NewValue(c)], writes[c])]
  <2>1. /\ DOMAIN writes'[c] = DOMAIN writes[c] \cup {id}
        /\ writes'[c][id] = NewValue(c)
        /\ \A x \in DOMAIN writes[c] : x # id => writes'[c][x] = writes[c][x]
    <3>1. writes'[c] = Overlay([row \in {id} |-> NewValue(c)], writes[c])
      BY <1>9 DEF SlotsOK
    <3> QED
      BY <3>1 DEF Overlay
  <2>2. Row(c, id) = MatchValue(c) /\ MatchValue(c) # GONE /\ NewValue(c) # MatchValue(c)
    BY <1>9, <1>5, CallerAssumption DEF Matches, MatchValue, NewValue, NULL, GONE
  <2>3. id \notin DOMAIN writes[c]
    BY <2>2, <1>5 DEF Row, WritesOK, WritesOf
  <2>4. id \in DOMAIN live /\ live[id] = MatchValue(c)
    BY <2>2, <2>3 DEF Row
  <2>5. SlotsOK'
    BY <1>1, <1>4, <1>9 DEF SlotsOK
  <2>6. PhaseOf(c)'
    BY <1>1, <1>4, <1>5, <1>6, <2>1 DEF PhaseOK, PhaseOf
  <2>7. WritesOf(c)'
    BY <1>1, <1>5, <1>6, <1>7, <2>1, <2>4 DEF WritesOK, WritesOf
  <2>8. locks' \in [PostingId -> Caller \cup {NoCaller}]
    BY <1>9 DEF TablesTypeOK
  <2>9. {x \in PostingId : locks'[x] = c} = DOMAIN writes'[c]
    BY <1>5, <1>9, <2>1 DEF TablesTypeOK
  <2>10. ASSUME NEW d \in Caller \ {c}
         PROVE  /\ pc'[d] = pc[d] /\ call'[d] = call[d] /\ rest'[d] = rest[d]
                /\ rows'[d] = rows[d] /\ writes'[d] = writes[d]
                /\ \A x \in PostingId : locks'[x] = d <=> locks[x] = d
    BY <1>1, <1>3, <1>5, <1>9, CallerAssumption DEF TablesTypeOK, SlotsOK
  <2> QED
    BY <1>1, <2>5, <2>6, <2>7, <2>8, <2>9, <2>10, LocalTx DEF TablesTypeOK
<1> QED
  BY <1>3, <1>8, <1>9

\* An insert takes the id it writes; an id that has a row is left alone.
LEMMA InsertRowTx ==
    ASSUME TxInv, NEW c \in Caller, InsertRow(c)
    PROVE  TxInv'
<1> USE DEF TxInv
<1> DEFINE id == Head(rest[c])
<1>1. /\ pc[c] = "open" /\ call[c].op = "insert" /\ rest[c] # <<>>
      /\ rest' = [rest EXCEPT ![c] = Tail(rest[c])]
      /\ postings' = postings /\ live' = live /\ pc' = pc /\ call' = call /\ rows' = rows
      /\ found' = found /\ reply' = reply /\ calls' = calls /\ held' = held
  BY DEF InsertRow, tables
<1>2. NextRow(c) = {id}
  <2>1. rows[c] = <<>>
    BY <1>1 DEF PhaseOK, PhaseOf
  <2> QED
    BY <1>1, <2>1 DEF NextRow
<1>3. /\ locks[id] \in {NoCaller, c}
      /\ \/ /\ id \notin postings /\ id \notin DOMAIN writes[c]
            /\ locks' = [locks EXCEPT ![id] = c]
            /\ writes' = [writes EXCEPT ![c] = Overlay([row \in {id} |-> NULL], writes[c])]
         \/ locks' = locks /\ writes' = writes
  BY <1>2 DEF InsertRow, IsNew
<1>4. /\ id \in ToSet(rest[c]) /\ Tail(rest[c]) \in Seq(PostingId)
      /\ ToSet(Tail(rest[c])) \subseteq ToSet(rest[c])
  BY <1>1, HeadTailFacts DEF SlotsOK
<1>5. id \in PostingId /\ id \in ToSet(call[c].ids)
  <2>1. ToSet(rest[c]) \subseteq PostingId
    BY ElementOfSeq, LenProperties DEF ToSet, SlotsOK
  <2> QED
    BY <2>1, <1>1, <1>4 DEF PhaseOK, PhaseOf
<1> HIDE DEF id
<1>6. rest'[c] = Tail(rest[c]) /\ pc'[c] = pc[c] /\ call'[c] = call[c] /\ rows'[c] = rows[c]
  BY <1>1 DEF SlotsOK
<1>7. CASE locks' = locks /\ writes' = writes
  <2>1. SlotsOK'
    BY <1>1, <1>4, <1>7 DEF SlotsOK
  <2>2. PhaseOf(c)'
    BY <1>1, <1>4, <1>6, <1>7 DEF PhaseOK, PhaseOf
  <2>3. WritesOf(c)'
    BY <1>1, <1>6, <1>7 DEF WritesOK, WritesOf
  <2> QED
    BY <1>1, <1>7, <2>1, <2>2, <2>3, LocalTx DEF TablesTypeOK, SlotsOK
<1>8. CASE /\ id \notin postings /\ id \notin DOMAIN writes[c]
           /\ locks' = [locks EXCEPT ![id] = c]
           /\ writes' = [writes EXCEPT ![c] = Overlay([row \in {id} |-> NULL], writes[c])]
  <2>1. /\ DOMAIN writes'[c] = DOMAIN writes[c] \cup {id}
        /\ writes'[c][id] = NULL
        /\ \A x \in DOMAIN writes[c] : x # id => writes'[c][x] = writes[c][x]
    <3>1. writes'[c] = Overlay([row \in {id} |-> NULL], writes[c])
      BY <1>8 DEF SlotsOK
    <3> QED
      BY <3>1 DEF Overlay
  <2>2. SlotsOK'
    BY <1>1, <1>4, <1>8 DEF SlotsOK
  <2>3. PhaseOf(c)'
    BY <1>1, <1>4, <1>5, <1>6, <2>1 DEF PhaseOK, PhaseOf
  <2>4. WritesOf(c)'
    BY <1>1, <1>6, <1>8, <2>1 DEF WritesOK, WritesOf
  <2>5. locks' \in [PostingId -> Caller \cup {NoCaller}]
    BY <1>8 DEF TablesTypeOK
  <2>6. {x \in PostingId : locks'[x] = c} = DOMAIN writes'[c]
    BY <1>5, <1>8, <2>1 DEF TablesTypeOK
  <2>7. ASSUME NEW d \in Caller \ {c}
        PROVE  /\ pc'[d] = pc[d] /\ call'[d] = call[d] /\ rest'[d] = rest[d]
               /\ rows'[d] = rows[d] /\ writes'[d] = writes[d]
               /\ \A x \in PostingId : locks'[x] = d <=> locks[x] = d
    BY <1>1, <1>3, <1>5, <1>8, CallerAssumption DEF TablesTypeOK, SlotsOK
  <2> QED
    BY <1>1, <2>2, <2>3, <2>4, <2>5, <2>6, <2>7, LocalTx DEF TablesTypeOK
<1> QED
  BY <1>3, <1>7, <1>8

-----------------------------------------------------------------------------
(* So do readers. *)

\* SetToSeq lists a finite set.
LEMMA ListFacts ==
    ASSUME NEW S, IsFiniteSet(S)
    PROVE  SetToSeq(S) \in Seq(S) /\ ToSet(SetToSeq(S)) \subseteq S
<1>1. Cardinality(S) \in Nat /\ ExistsBijection(1..Cardinality(S), S)
  BY FS_CardinalityType
<1>2. \E f \in [1..Cardinality(S) -> S] : IsInjective(f)
  BY <1>1 DEF ExistsBijection, Bijection, Injection, IsInjective
<1>3. SetToSeq(S) \in [1..Cardinality(S) -> S]
  BY <1>2 DEF SetToSeq
<1> QED
  BY <1>1, <1>3, IsASeq DEF ToSet

\* The first statement of a read lists ids that have a row.
LEMMA ListPostingsTx ==
    ASSUME TxInv, NEW c \in Caller, ListPostings(c)
    PROVE  /\ TxInv'
           /\ pc' = [pc EXCEPT ![c] = "live"]
           /\ ToSet(rest'[c]) \subseteq postings
           /\ found' = [found EXCEPT ![c] = Empty]
           /\ reply' = [reply EXCEPT ![c] = "none"]
           /\ postings' = postings /\ live' = live
<1> USE DEF TxInv
<1>1. PICK w \in Calls : Reads(w) /\ call' = [call EXCEPT ![c] = w]
  BY DEF ListPostings
<1>2. /\ pc[c] = "idle" /\ calls < MaxCalls /\ calls' = calls + 1
      /\ rest' = [rest EXCEPT ![c] = SetToSeq(postings)]
      /\ pc' = [pc EXCEPT ![c] = "live"]
      /\ found' = [found EXCEPT ![c] = Empty] /\ reply' = [reply EXCEPT ![c] = "none"]
      /\ postings' = postings /\ live' = live /\ locks' = locks /\ rows' = rows
      /\ writes' = writes /\ held' = held
  BY DEF ListPostings, tables
<1>3. SetToSeq(postings) \in Seq(PostingId) /\ ToSet(SetToSeq(postings)) \subseteq postings
  <2>1. IsFiniteSet(postings)
    BY PostingIdAssumption, FS_Subset DEF TablesTypeOK
  <2> QED
    BY <2>1, ListFacts, SeqMonotonic DEF TablesTypeOK
<1>4. SlotsOK'
  BY <1>1, <1>2, <1>3 DEF SlotsOK
<1>5. /\ pc'[c] = "live" /\ call'[c] = w /\ rest'[c] = SetToSeq(postings)
      /\ writes'[c] = Empty /\ rows'[c] = <<>> /\ DOMAIN Empty = {}
  BY <1>1, <1>2 DEF SlotsOK, TablesTypeOK, PhaseOK, PhaseOf, Empty
<1>6. PhaseOf(c)' /\ WritesOf(c)'
  BY <1>1, <1>5 DEF PhaseOf, WritesOf, Reads
<1>7. calls' \in 0..MaxCalls
  BY <1>2, CallsAssumption DEF TablesTypeOK
<1>8. pc' \in [Caller -> {"idle", "open", "live", "present"}]
  BY <1>2 DEF TablesTypeOK
<1>9. {id \in PostingId : locks'[id] = c} = DOMAIN writes'[c]
  BY <1>2 DEF TablesTypeOK
<1>10. ASSUME NEW d \in Caller \ {c}
       PROVE  /\ pc'[d] = pc[d] /\ call'[d] = call[d] /\ rest'[d] = rest[d]
              /\ rows'[d] = rows[d] /\ writes'[d] = writes[d]
              /\ \A id \in PostingId : locks'[id] = d <=> locks[id] = d
  BY <1>1, <1>2 DEF TablesTypeOK, SlotsOK
<1>11. locks' \in [PostingId -> Caller \cup {NoCaller}]
  BY <1>2 DEF TablesTypeOK
<1>12. TxInv'
  BY <1>2, <1>4, <1>5, <1>6, <1>7, <1>8, <1>9, <1>10, <1>11, LocalTx
<1> QED
  BY <1>2, <1>3, <1>5, <1>12

\* The second statement of a read touches no table and no lock.
LEMMA ReadLiveTx ==
    ASSUME TxInv, NEW c \in Caller, ReadLive(c)
    PROVE  TxInv'
<1> USE DEF TxInv
<1>1. /\ pc[c] = "live" /\ pc' = [pc EXCEPT ![c] = "present"] /\ DOMAIN found' = Caller
      /\ postings' = postings /\ live' = live /\ locks' = locks /\ rows' = rows
      /\ rest' = rest /\ call' = call /\ calls' = calls /\ reply' = reply
      /\ writes' = writes /\ held' = held
  BY DEF ReadLive, tables, SlotsOK
<1>2. SlotsOK'
  BY <1>1 DEF SlotsOK
<1>3. pc'[c] = "present" /\ writes'[c] = Empty /\ DOMAIN Empty = {}
  BY <1>1 DEF TablesTypeOK, Empty
<1>4. PhaseOf(c)' /\ WritesOf(c)'
  BY <1>1, <1>3 DEF PhaseOK, PhaseOf, WritesOf
<1> QED
  BY <1>1, <1>2, <1>3, <1>4, LocalTx DEF TablesTypeOK

\* The third statement of a read ends the call and touches no table and no lock.
LEMMA ReadPresentTx ==
    ASSUME TxInv, NEW c \in Caller, ReadPresent(c)
    PROVE  TxInv'
<1> USE DEF TxInv
<1>1. /\ pc[c] = "present" /\ DOMAIN found' = Caller /\ DOMAIN reply' = Caller
      /\ rest' = [rest EXCEPT ![c] = AfterChunk(rest[c])]
      /\ postings' = postings /\ live' = live /\ locks' = locks /\ rows' = rows
      /\ calls' = calls /\ writes' = writes /\ held' = held
      /\ \/ pc' = [pc EXCEPT ![c] = "idle"] /\ call' = [call EXCEPT ![c] = NoCall]
         \/ pc' = [pc EXCEPT ![c] = "live"] /\ call' = call
  BY DEF ReadPresent, tables, SlotsOK
<1>2. AfterChunk(rest[c]) \in Seq(PostingId)
  BY ChunkFacts DEF SlotsOK
<1>3. SlotsOK'
  BY <1>1, <1>2 DEF SlotsOK
<1>4. /\ writes'[c] = Empty /\ DOMAIN Empty = {} /\ rows'[c] = <<>> /\ call[c].op = "states"
  BY <1>1 DEF TablesTypeOK, PhaseOK, PhaseOf, Empty
<1>5. \/ pc'[c] = "idle" /\ call'[c] = NoCall
      \/ pc'[c] = "live" /\ call'[c] = call[c]
  BY <1>1 DEF TablesTypeOK, SlotsOK
<1>6. PhaseOf(c)' /\ WritesOf(c)'
  BY <1>4, <1>5 DEF PhaseOf, WritesOf
<1>7. pc' \in [Caller -> {"idle", "open", "live", "present"}]
  BY <1>1 DEF TablesTypeOK
<1>8. {id \in PostingId : locks'[id] = c} = DOMAIN writes'[c]
  BY <1>1 DEF TablesTypeOK
<1>9. ASSUME NEW d \in Caller \ {c}
      PROVE  /\ pc'[d] = pc[d] /\ call'[d] = call[d] /\ rest'[d] = rest[d]
             /\ rows'[d] = rows[d] /\ writes'[d] = writes[d]
             /\ \A id \in PostingId : locks'[id] = d <=> locks[id] = d
  BY <1>1 DEF TablesTypeOK, SlotsOK
<1>10. locks' \in [PostingId -> Caller \cup {NoCaller}] /\ calls' \in 0..MaxCalls
  BY <1>1 DEF TablesTypeOK
<1> QED
  BY <1>1, <1>3, <1>4, <1>6, <1>7, <1>8, <1>9, <1>10, LocalTx

\* Every step of any caller keeps the inductive invariant.
LEMMA NextTx == TxInv /\ [Next]_vars => TxInv'
<1> SUFFICES ASSUME TxInv, [Next]_vars PROVE TxInv'
  OBVIOUS
<1>1. CASE UNCHANGED vars
  <2>1. /\ postings' = postings /\ live' = live /\ locks' = locks /\ pc' = pc /\ call' = call
        /\ rest' = rest /\ rows' = rows /\ writes' = writes /\ found' = found /\ reply' = reply
        /\ calls' = calls /\ held' = held
    BY <1>1 DEF vars, tables, txVars
  <2>2. TablesTypeOK' /\ SlotsOK'
    BY <2>1 DEF TxInv, TablesTypeOK, SlotsOK
  <2>3. PhaseOK'
    BY <2>1 DEF TxInv, PhaseOK, PhaseOf
  <2>4. WritesOK'
    BY <2>1 DEF TxInv, WritesOK, WritesOf, MatchValue, NewValue
  <2> QED
    BY <2>2, <2>3, <2>4 DEF TxInv
<1>2. ASSUME NEW c \in Caller,
             Begin(c) \/ ListPostings(c) \/ Statement(c) \/ Disconnect(c)
      PROVE  TxInv'
  <2>1. CASE Reject(c) \/ BreakDeadlock(c) \/ Disconnect(c)
    BY <2>1, RollbackTx DEF Reject, BreakDeadlock, Disconnect
  <2> QED
    BY <1>2, <2>1, BeginTx, ListPostingsTx, MatchTx, TakeRowTx, InsertRowTx, CommitTx,
       ReadLiveTx, ReadPresentTx DEF Statement
<1> QED
  BY <1>1, <1>2 DEF Next

-----------------------------------------------------------------------------
(* The claim. *)

\* A step changes the tables, or what a caller was told it holds, only if it is the
\* COMMIT of one caller.
LEMMA OnlyCommits ==
    ASSUME [Next]_vars
    PROVE  \/ postings' = postings /\ live' = live /\ held' = held
           \/ \E c \in Caller : Commit(c)
<1>1. CASE UNCHANGED vars
  BY <1>1 DEF vars, tables
<1>2. ASSUME NEW c \in Caller,
             Begin(c) \/ ListPostings(c) \/ Statement(c) \/ Disconnect(c), ~Commit(c)
      PROVE  postings' = postings /\ live' = live /\ held' = held
  BY <1>2 DEF Begin, ListPostings, Statement, Disconnect, Match, TakeRow, InsertRow,
     Reject, BreakDeadlock, ReadLive, ReadPresent, Rollback, tables
<1> QED
  BY <1>1, <1>2 DEF Next

\* The states before and after a COMMIT: of the rows it wrote, from what its call
\* matches (or missing, for an insert) to what its call makes of them; of the others,
\* none.
LEMMA CommitStates ==
    ASSUME TxInv, NEW c \in Caller, Commit(c), NEW id
    PROVE  /\ id \notin DOMAIN writes[c] => State(id)' = State(id)
           /\ id \in DOMAIN writes[c] =>
                /\ id \in ToSet(call[c].ids)
                /\ State(id)' = writes[c][id]
                /\ call[c].op = "insert" => State(id) = "Missing" /\ writes[c][id] = NULL
                /\ call[c].op # "insert" =>
                      State(id) = MatchValue(c) /\ writes[c][id] = NewValue(c)
<1> USE DEF TxInv
<1>1. CASE id \notin DOMAIN writes[c]
  BY <1>1, CommitRows DEF State, StateIn
<1>2. CASE id \in DOMAIN writes[c]
  <2>1. State(id)' = writes[c][id]
    BY <1>2, CommitRows DEF State, StateIn, TablesTypeOK
  <2>2. id \in ToSet(call[c].ids)
    BY <1>2, CommitRows DEF PhaseOK, PhaseOf
  <2>3. call[c].op = "insert" => State(id) = "Missing" /\ writes[c][id] = NULL
    BY <1>2 DEF WritesOK, WritesOf, State, StateIn, TablesTypeOK
  <2>4. call[c].op # "insert" => State(id) = MatchValue(c) /\ writes[c][id] = NewValue(c)
    BY <1>2 DEF WritesOK, WritesOf, State, StateIn
  <2> QED
    BY <1>2, <2>1, <2>2, <2>3, <2>4
<1> QED
  BY <1>1, <1>2

\* No COMMIT takes a posting from the caller that holds it: no statement matches the
\* reservation of another, and a caller forgets what it gives back.
LEMMA CommitHolds ==
    ASSUME TxInv, WinnerHolds, NEW c \in Caller, Commit(c)
    PROVE  WinnerHolds'
<1>1. PICK answer \in {Count(c), "error"} :
          End(c, answer) /\ held' = [held EXCEPT ![c] = HeldAfter(c, answer)]
  BY DEF Commit
<1> SUFFICES ASSUME NEW d \in Caller, NEW id \in held'[d] PROVE State(id)' = d
  BY DEF WinnerHolds
<1>2. d \notin {"Missing", NULL, GONE}
  BY CallerAssumption DEF NULL, GONE
<1>3. CASE d # c
  <2>1. State(id) = d
    BY <1>1, <1>3 DEF WinnerHolds, TxInv, SlotsOK
  <2>2. id \notin DOMAIN writes[c]
    BY <1>2, <1>3, <2>1, CommitStates DEF MatchValue
  <2> QED
    BY <2>1, <2>2, CommitStates
<1>4. CASE d = c
  <2>1. id \in HeldAfter(c, answer)
    BY <1>1, <1>4 DEF TxInv, SlotsOK
  <2>2. CASE call[c].op = "reserve" /\ answer = "full"
    <3>1. CASE id \in ToSet(call[c].ids)
      <4>1. id \in DOMAIN writes[c]
        BY <1>1, <2>2, <3>1 DEF Count
      <4> QED
        BY <1>4, <2>2, <4>1, CommitStates DEF NewValue
    <3>2. CASE id \notin ToSet(call[c].ids)
      <4>1. id \in held[c]
        BY <2>1, <2>2, <3>2 DEF HeldAfter
      <4> QED
        BY <1>4, <3>2, <4>1, CommitStates DEF WinnerHolds
    <3> QED
      BY <3>1, <3>2
  <2>3. CASE call[c].op \in {"release", "finalize"}
    <3>1. id \in held[c] /\ id \notin ToSet(call[c].ids)
      BY <2>1, <2>3 DEF HeldAfter
    <3> QED
      BY <1>4, <3>1, CommitStates DEF WinnerHolds
  <2>4. CASE /\ ~(call[c].op = "reserve" /\ answer = "full")
             /\ call[c].op \notin {"release", "finalize"}
    <3>1. id \in held[c]
      BY <2>1, <2>4 DEF HeldAfter
    <3>2. State(id) = c
      BY <3>1 DEF WinnerHolds
    <3>3. id \notin DOMAIN writes[c]
      BY <1>2, <1>4, <2>4, <3>2, CommitStates DEF MatchValue
    <3> QED
      BY <1>4, <3>2, <3>3, CommitStates
  <2> QED
    BY <2>2, <2>3, <2>4
<1> QED
  BY <1>3, <1>4

\* One step of the stores keeps the invariant and what callers hold.
LEMMA NextHolds == TxInv /\ WinnerHolds /\ [Next]_vars => TxInv' /\ WinnerHolds'
<1> SUFFICES ASSUME TxInv, WinnerHolds, [Next]_vars PROVE WinnerHolds'
  BY NextTx
<1>1. CASE postings' = postings /\ live' = live /\ held' = held
  BY <1>1 DEF WinnerHolds, State, StateIn
<1> QED
  BY <1>1, OnlyCommits, CommitHolds

\* Types, and the strengthening that carries every other theorem, hold in every state.
THEOREM TablesTypes == Spec => []TablesTypeOK
<1>1. Init => TxInv
  BY InitTx
<1>2. TxInv /\ [Next]_vars => TxInv'
  BY NextTx
<1>3. TxInv => TablesTypeOK
  BY DEF TxInv
<1> QED
  BY <1>1, <1>2, <1>3, PTL DEF Spec

\* reserve_postings is a single-winner claim, for any number of callers, postings,
\* chunks and calls, on either kind of store, with any answers lost.
THEOREM SingleWinner == Spec => []WinnerHolds
<1>1. Init => TxInv /\ WinnerHolds
  BY InitTx DEF Init, WinnerHolds
<1> QED
  BY <1>1, NextHolds, PTL DEF Spec

\* A commit that spends is whole: whoever races it for its postings, all of them
\* were free and all of them go, or it changes nothing.
THEOREM WholeClaims == Spec => ClaimIsWhole
<1>1. Init => TxInv
  BY InitTx
<1>2. TxInv /\ [Next]_vars => TxInv'
  BY NextTx
<1>3. ASSUME TxInv, [Next]_vars, NEW c \in Caller,
             call[c].op = "spend", live' # live, pc'[c] = "idle",
             NEW id \in ToSet(call[c].ids)
      PROVE  State(id) = NULL /\ id \notin DOMAIN live'
  <2>1. PICK d \in Caller : Commit(d)
    BY <1>3, OnlyCommits
  <2>2. pc[c] # "idle"
    BY <1>3 DEF TxInv, PhaseOK, PhaseOf, NoCall
  <2>3. c = d
    BY <1>3, <2>1, <2>2 DEF Commit, End, TxInv, TablesTypeOK
  <2>4. id \in DOMAIN writes[c]
    BY <1>3, <2>1, <2>3, CommitRows DEF Complete, Count
  <2>5. State(id) = MatchValue(c) /\ writes[c][id] = NewValue(c)
    BY <1>3, <2>1, <2>3, <2>4, CommitStates
  <2>6. MatchValue(c) = NULL /\ NewValue(c) = GONE
    BY <1>3 DEF MatchValue, NewValue
  <2> QED
    BY <1>3, <2>1, <2>3, <2>4, <2>5, <2>6, CommitRows
<1>4. TxInv /\ [Next]_vars =>
        [\A c \in Caller :
            call[c].op = "spend" /\ live' # live /\ pc'[c] = "idle" =>
               \A id \in ToSet(call[c].ids) : State(id) = NULL /\ id \notin DOMAIN live']_vars
  BY <1>3
<1> QED
  BY <1>1, <1>2, <1>4, PTL DEF Spec, ClaimIsWhole

-----------------------------------------------------------------------------
(* Readers. *)

\* What Observe keeps for a reader.
LEMMA ObserveFacts ==
    ASSUME Observe, NEW c \in Caller, DOMAIN seen[c] = PostingId
    PROVE  /\ DOMAIN seen' = Caller /\ DOMAIN seen'[c] = PostingId
           /\ pc'[c] \in {"live", "present"} \/ pc[c] \in {"live", "present"} =>
                 \A id \in PostingId : /\ State(id)' \in seen'[c][id]
                                       /\ pc[c] # "idle" => seen[c][id] \subseteq seen'[c][id]
           /\ pc'[c] \in {"live", "present"} \/ pc[c] \in {"live", "present"}
                \/ (reply'[c] = "states" => seen'[c] = seen[c])
<1>1. DOMAIN seen' = Caller
  BY DEF Observe
<1>2. CASE pc'[c] \in {"live", "present"} \/ pc[c] \in {"live", "present"}
  <2>1. seen'[c] = [id \in PostingId |->
                     (IF pc[c] = "idle" THEN {} ELSE seen[c][id]) \cup {State(id)'}]
    BY <1>2 DEF Observe, State
  <2>2. DOMAIN seen'[c] = PostingId
    BY <2>1
  <2>3. \A id \in PostingId :
           seen'[c][id] = (IF pc[c] = "idle" THEN {} ELSE seen[c][id]) \cup {State(id)'}
    BY <2>1
  <2> QED
    BY <1>1, <1>2, <2>2, <2>3
<1>3. CASE ~(pc'[c] \in {"live", "present"} \/ pc[c] \in {"live", "present"})
  <2>1. seen'[c] = IF reply'[c] = "states" THEN seen[c] ELSE [id \in PostingId |-> {}]
    BY <1>3 DEF Observe
  <2> QED
    BY <1>1, <1>3, <2>1
<1> QED
  BY <1>2, <1>3

\* A caller that neither lists nor reads in this step.
LEMMA IdleReader ==
    ASSUME TxInv, Observe, NEW c \in Caller, ReaderOf(c), postings \subseteq postings',
           pc'[c] = pc[c], reply'[c] = reply[c], found'[c] = found[c],
           pc[c] \in {"live", "present"} => rest'[c] = rest[c]
    PROVE  ReaderOf(c)'
<1>1. CASE pc[c] \in {"live", "present"}
  <2>1. /\ DOMAIN seen'[c] = PostingId
        /\ \A id \in PostingId : State(id)' \in seen'[c][id] /\ seen[c][id] \subseteq seen'[c][id]
    BY <1>1, ObserveFacts DEF ReaderOf
  <2>2. Chunk(rest'[c]) = Chunk(rest[c]) /\ ToSet(Chunk(rest[c])) \subseteq PostingId
    BY <1>1, ChunkFacts DEF ReaderOf, TxInv, TablesTypeOK, SlotsOK
  <2>3. /\ DOMAIN found[c] \subseteq PostingId /\ ToSet(rest[c]) \subseteq postings
        /\ reply[c] # "states"
        /\ \A id \in DOMAIN found[c] : found[c][id] \in seen[c][id]
    BY <1>1 DEF ReaderOf
  <2>4. pc[c] = "present" =>
           \A id \in ToSet(Chunk(rest[c])) \ DOMAIN found[c] : GONE \in seen[c][id]
    BY DEF ReaderOf
  <2> QED
    BY <1>1, <2>1, <2>2, <2>3, <2>4 DEF ReaderOf
<1>2. CASE pc[c] \notin {"live", "present"}
  BY <1>2, ObserveFacts DEF ReaderOf
<1> QED
  BY <1>1, <1>2

\* A caller that begins or ends a transaction.
LEMMA NoReader ==
    ASSUME Observe, NEW c \in Caller, ReaderOf(c),
           pc'[c] \in {"idle", "open"}, reply'[c] # "states", found'[c] = found[c]
    PROVE  ReaderOf(c)'
BY ObserveFacts DEF ReaderOf

\* The listed postings exist, and their states now are the first the reader sees.
LEMMA ListReader ==
    ASSUME TxInv, NEW c \in Caller, ReaderOf(c), ListPostings(c), Observe
    PROVE  ReaderOf(c)'
<1>1. /\ pc'[c] = "live" /\ found'[c] = Empty /\ reply'[c] = "none"
      /\ ToSet(rest'[c]) \subseteq postings'
  BY ListPostingsTx DEF TxInv, TablesTypeOK, SlotsOK
<1> QED
  BY <1>1, ObserveFacts DEF ReaderOf, Empty

\* Rows found live are seen; a row that is not has been seen spent, since a listed
\* posting exists.
LEMMA LiveReader ==
    ASSUME TxInv, NEW c \in Caller, ReaderOf(c), ReadLive(c), Observe
    PROVE  ReaderOf(c)'
<1> DEFINE chunk == ToSet(Chunk(rest[c]))
<1>1. /\ pc[c] = "live" /\ pc'[c] = "present" /\ reply'[c] = reply[c] /\ rest' = rest
      /\ found'[c] = Overlay([id \in chunk \cap DOMAIN live |-> live[id]], found[c])
      /\ postings' = postings /\ live' = live
  BY DEF ReadLive, tables, TxInv, TablesTypeOK, SlotsOK
<1>2. chunk \subseteq postings /\ postings \subseteq PostingId
  BY <1>1, ChunkFacts DEF ReaderOf, TxInv, TablesTypeOK, SlotsOK
<1>3. /\ DOMAIN found'[c] = (chunk \cap DOMAIN live) \cup DOMAIN found[c]
      /\ \A id \in DOMAIN found'[c] :
            \/ id \in chunk \cap DOMAIN live /\ found'[c][id] = live[id]
            \/ id \in DOMAIN found[c] /\ found'[c][id] = found[c][id]
  BY <1>1 DEF Overlay
<1>4. \A id \in chunk : id \in DOMAIN live => live[id] \in seen[c][id]
  BY <1>1, <1>2 DEF ReaderOf, State, StateIn
<1>5. \A id \in chunk : id \notin DOMAIN live => GONE \in seen[c][id]
  BY <1>1, <1>2 DEF ReaderOf, State, StateIn
<1>6. chunk' = chunk
  BY <1>1 DEF Chunk
<1> HIDE DEF chunk
<1>7. \A id \in PostingId : State(id)' \in seen'[c][id] /\ seen[c][id] \subseteq seen'[c][id]
  BY <1>1, ObserveFacts DEF ReaderOf
<1>8. \A id \in DOMAIN found'[c] : id \in PostingId /\ found'[c][id] \in seen'[c][id]
  BY <1>1, <1>2, <1>3, <1>4, <1>7 DEF ReaderOf
<1>9. \A id \in chunk \ DOMAIN found'[c] : GONE \in seen'[c][id]
  BY <1>2, <1>3, <1>5, <1>7
<1>10. ToSet(rest'[c]) \subseteq postings' /\ reply'[c] # "states"
  BY <1>1 DEF ReaderOf
<1>11. ToSet(Chunk(rest'[c])) = chunk
  BY <1>1 DEF chunk
<1>12. DOMAIN seen'[c] = PostingId
  BY ObserveFacts DEF ReaderOf
<1> QED
  BY <1>1, <1>7, <1>8, <1>9, <1>10, <1>11, <1>12 DEF ReaderOf, Chunk

\* What the second query tells from the table postings was seen when the first one ran.
LEMMA PresentReader ==
    ASSUME TxInv, NEW c \in Caller, ReaderOf(c), ReadPresent(c), Observe
    PROVE  ReaderOf(c)'
<1> DEFINE chunk == ToSet(Chunk(rest[c]))
<1>1. /\ pc[c] = "present" /\ rest'[c] = AfterChunk(rest[c])
      /\ found'[c] = Overlay(found[c], [id \in chunk |-> Absent(id)])
      /\ postings' = postings /\ live' = live
      /\ \/ pc'[c] = "idle"
         \/ pc'[c] = "live" /\ reply'[c] = reply[c]
  BY DEF ReadPresent, tables, TxInv, TablesTypeOK, SlotsOK
<1>2. /\ chunk \subseteq postings /\ postings \subseteq PostingId
      /\ ToSet(rest'[c]) \subseteq postings'
  BY <1>1, ChunkFacts DEF ReaderOf, TxInv, TablesTypeOK, SlotsOK
<1>3. /\ DOMAIN found'[c] = chunk \cup DOMAIN found[c]
      /\ \A id \in DOMAIN found[c] : found'[c][id] = found[c][id]
      /\ \A id \in chunk \ DOMAIN found[c] : found'[c][id] = Absent(id)
  BY <1>1 DEF Overlay
<1>4. \A id \in chunk \ DOMAIN found[c] : Absent(id) \in seen[c][id]
  BY <1>1, <1>2 DEF Absent, ReaderOf
<1>5. \A id \in DOMAIN found[c] : found[c][id] \in seen[c][id] /\ id \in PostingId
  BY <1>1 DEF ReaderOf
<1> HIDE DEF chunk
<1>6. \A id \in PostingId : State(id)' \in seen'[c][id] /\ seen[c][id] \subseteq seen'[c][id]
  BY <1>1, ObserveFacts DEF ReaderOf
<1>7. \A id \in DOMAIN found'[c] : id \in PostingId /\ found'[c][id] \in seen'[c][id]
  BY <1>2, <1>3, <1>4, <1>5, <1>6
<1>8. DOMAIN seen'[c] = PostingId
  BY ObserveFacts DEF ReaderOf
<1>9. reply'[c] = "states" => pc'[c] = "idle"
  BY <1>1 DEF ReaderOf
<1>10. pc'[c] # "present"
  BY <1>1
<1> QED
  BY <1>2, <1>6, <1>7, <1>8, <1>9, <1>10 DEF ReaderOf

\* One step keeps what readers know.
LEMMA NextReaders == TxInv /\ ReadersOK /\ [Next]_vars => ReadersOK'
<1> SUFFICES ASSUME TxInv, ReadersOK, [Next]_vars PROVE ReadersOK'
  OBVIOUS
<1>1. CASE UNCHANGED vars
  BY <1>1 DEF vars, tables, txVars, ReadersOK, ReaderOf, State, StateIn, Chunk
<1>2. ASSUME NEW c \in Caller, Observe,
             Begin(c) \/ ListPostings(c) \/ Statement(c) \/ Disconnect(c),
             NEW d \in Caller
      PROVE  ReaderOf(d)'
  <2>1. ReaderOf(d) /\ ReaderOf(c)
    BY DEF ReadersOK
  <2>2. postings \subseteq postings'
    BY OnlyCommits, CommitRows
  <2>3. CASE d # c
    <3>1. /\ pc'[d] = pc[d] /\ reply'[d] = reply[d] /\ found'[d] = found[d] /\ rest'[d] = rest[d]
      BY <1>2, <2>3 DEF Begin, ListPostings, Statement, Disconnect, Match, TakeRow, InsertRow,
         Commit, Reject, BreakDeadlock, ReadLive, ReadPresent, Rollback, End,
         TxInv, TablesTypeOK, SlotsOK
    <3> QED
      BY <1>2, <2>1, <2>2, <3>1, IdleReader
  <2>4. CASE Begin(c) /\ d = c
    <3>1. pc'[c] = "open" /\ reply'[c] = "none" /\ found'[c] = found[c]
      BY <2>4 DEF Begin, TxInv, TablesTypeOK, SlotsOK
    <3> QED
      BY <1>2, <2>1, <2>4, <3>1, NoReader
  <2>5. CASE d = c /\ (Match(c) \/ TakeRow(c) \/ InsertRow(c))
    <3>1. pc[c] = "open" /\ pc' = pc /\ reply' = reply /\ found' = found
      BY <2>5 DEF Match, TakeRow, InsertRow
    <3> QED
      BY <1>2, <2>1, <2>2, <2>5, <3>1, IdleReader
  <2>6. CASE d = c /\ (Commit(c) \/ Reject(c) \/ BreakDeadlock(c) \/ Disconnect(c))
    <3>1. found' = found /\ \E answer \in {"full", "short", "error", "rejected"} : End(c, answer)
      BY <2>6 DEF Commit, Count, Reject, BreakDeadlock, Disconnect, Rollback
    <3>2. pc'[c] = "idle" /\ reply'[c] \in {"full", "short", "error", "rejected"}
      BY <3>1 DEF End, TxInv, TablesTypeOK, SlotsOK
    <3> QED
      BY <1>2, <2>1, <2>6, <3>1, <3>2, NoReader
  <2>7. CASE d = c /\ (ListPostings(c) \/ ReadLive(c) \/ ReadPresent(c))
    BY <1>2, <2>1, <2>7, ListReader, LiveReader, PresentReader
  <2> QED
    BY <1>2, <2>3, <2>4, <2>5, <2>6, <2>7 DEF Statement
<1>3. ASSUME NEW c \in Caller, Observe PROVE DOMAIN seen' = Caller
  BY <1>3 DEF Observe
<1> QED
  BY <1>1, <1>2, <1>3 DEF Next, ReadersOK

\* A reader that takes no lock and reads each chunk in two queries still returns only
\* states its postings had while it read, whatever commits between the queries.
THEOREM TrueStates == Spec => []StatesAreTrue
<1>1. Init => TxInv /\ ReadersOK
  <2> SUFFICES ASSUME Init PROVE ReadersOK
    BY InitTx
  <2> QED
    BY DEF Init, ReadersOK, ReaderOf, Empty
<1>2. TxInv /\ ReadersOK /\ [Next]_vars => TxInv' /\ ReadersOK'
  BY NextTx, NextReaders
<1>3. ReadersOK => StatesAreTrue
  BY DEF ReadersOK, ReaderOf, StatesAreTrue
<1> QED
  BY <1>1, <1>2, <1>3, PTL DEF Spec

-----------------------------------------------------------------------------
(* The abstract specification. *)

\* A COMMIT is one move of the rows it wrote along one edge of the lifecycle.
LEMMA CommitMoves ==
    ASSUME TxInv, NEW c \in Caller, Commit(c)
    PROVE  Lifecycle!Next
<1> DEFINE S == DOMAIN writes[c]
           from == IF call[c].op = "insert" THEN "Missing" ELSE MatchValue(c)
           to == IF call[c].op = "insert" THEN NULL ELSE NewValue(c)
<1>1. S \in SUBSET PostingId
  BY CommitRows
<1>2. \A id \in S : State(id) = from /\ State(id)' = to
  BY CommitStates
<1>3. \A id \in PostingId : id \notin S => State(id)' = State(id)
  BY CommitStates
<1>4. \/ from = "Missing" /\ to = "Active"
      \/ from = "Active" /\ to = "Spent"
      \/ from = "Active" /\ to = c
      \/ from = c /\ to = "Active"
      \/ from = c /\ to = "Spent"
  BY DEF MatchValue, NewValue, NULL, GONE
<1> HIDE DEF S, from, to
<1>5. Lifecycle!Move(S, from, to)
  BY <1>1, <1>2, <1>3 DEF Lifecycle!Move
<1> QED
  BY <1>1, <1>4, <1>5 DEF Lifecycle!Next, Lifecycle!InsertPostings, Lifecycle!ReservePostings,
     Lifecycle!ReleasePostings, Lifecycle!DeactivatePostings, Lifecycle!DeactivateReserved,
     Lifecycle!Missing, Lifecycle!Active, Lifecycle!Spent

\* The tables implement the lifecycle: COMMIT is where a call takes effect, and
\* everything before it, chunk by chunk, is invisible.
THEOREM TablesImplementLifecycle == Spec => ImplementsLifecycle
<1>1. Init => TxInv
  BY InitTx
<1>2. TxInv /\ [Next]_vars => TxInv'
  BY NextTx
<1>3. Init => Lifecycle!Init
  BY DEF Init, Lifecycle!Init, Lifecycle!Missing, State, StateIn, Empty
<1>4. TxInv /\ [Next]_vars => [Lifecycle!Next]_[id \in PostingId |-> State(id)]
  <2>1. CASE postings' = postings /\ live' = live /\ held' = held
    BY <2>1 DEF State, StateIn
  <2> QED
    BY <2>1, OnlyCommits, CommitMoves
<1> QED
  BY <1>1, <1>2, <1>3, <1>4, PTL DEF Spec, ImplementsLifecycle, Lifecycle!Spec
=============================================================================
