-------------------------- MODULE CommitStoreProofs --------------------------
(***************************************************************************)
(* What one atomic write of the store does to its tables and preserves of  *)
(* them, for any caller and any arguments, and what the ledger builds from  *)
(* its reads: the envelopes of transfers and of reversals.                 *)
(***************************************************************************)
EXTENDS LedgerReads, CollectionProofs, SequenceTheorems, TLAPS

NewIds(e) == {<<envelope_id(e), i>> : i \in DOMAIN e.creates}

\* The effect of a committed envelope on the tables, in terms of the envelope:
\* mem_store.rs commit_envelope, its guards and its apply phase.
LEMMA CommitEffect ==
    ASSUME NEW e, commit_envelope(CommitRequest(e))
    PROVE  /\ envelope_id(e) \notin DOMAIN transfers
           /\ ToSet(e.consumes) \subseteq active
           /\ active' = (active \ ToSet(e.consumes)) \cup NewIds(e)
           /\ DOMAIN immutable' = DOMAIN immutable \cup NewIds(e)
           /\ \A id \in DOMAIN immutable : immutable'[id] = immutable[id]
           /\ \A i \in DOMAIN e.creates :
                 <<envelope_id(e), i>> \notin DOMAIN immutable
                     => immutable'[<<envelope_id(e), i>>] = e.creates[i]
           /\ DOMAIN transfers' = DOMAIN transfers \cup {envelope_id(e)}
           /\ \A t \in DOMAIN transfers : transfers'[t] = transfers[t]
           /\ transfers'[envelope_id(e)] = e
           /\ accounts' = accounts
<1> DEFINE create == postings_to_create(e)
           tid == envelope_id(e)
<1>1. /\ tid \notin DOMAIN transfers
      /\ ToSet(e.consumes) \subseteq active
      /\ active' = (active \ ToSet(e.consumes)) \cup DOMAIN create
      /\ immutable' = WithRows(immutable, create)
      /\ transfers' = WithRows(transfers, [t \in {tid} |-> e])
      /\ accounts' = accounts
  BY DEF commit_envelope, CommitRequest, Accepts, AlreadyCommitted, ConsumedActive, ActiveAfter
<1>2. /\ DOMAIN create = NewIds(e)
      /\ \A i \in DOMAIN e.creates : create[<<tid, i>>] = e.creates[i]
  BY DEF postings_to_create, NewIds
<1> HIDE DEF create, tid
<1>3. /\ DOMAIN immutable' = DOMAIN immutable \cup DOMAIN create
      /\ \A id \in DOMAIN immutable : immutable'[id] = immutable[id]
      /\ \A id \in DOMAIN create : id \notin DOMAIN immutable => immutable'[id] = create[id]
  BY <1>1 DEF WithRows
<1>4. /\ DOMAIN transfers' = DOMAIN transfers \cup {tid}
      /\ \A t \in DOMAIN transfers : transfers'[t] = transfers[t]
      /\ transfers'[tid] = e
  BY <1>1 DEF WithRows
<1>5. \A i \in DOMAIN e.creates :
         <<tid, i>> \notin DOMAIN immutable => immutable'[<<tid, i>>] = e.creates[i]
  BY <1>2, <1>3 DEF NewIds, tid
<1> QED
  BY <1>1, <1>2, <1>3, <1>4, <1>5 DEF tid

\* The ids of an uncommitted envelope's outputs are new: every posting there is
\* carries the id of a stored transfer.
LEMMA NewIdsAreFresh ==
    ASSUME NEW e, PostingsFromLog, envelope_id(e) \notin DOMAIN transfers
    PROVE  NewIds(e) \cap DOMAIN immutable = {}
<1> SUFFICES ASSUME NEW i \in DOMAIN e.creates, <<envelope_id(e), i>> \in DOMAIN immutable
             PROVE  FALSE
  BY DEF NewIds
<1>1. <<envelope_id(e), i>>[1] \in DOMAIN transfers
  BY DEF PostingsFromLog
<1> QED
  BY <1>1

\* What the stored transfers spend, after a commit: the double-spend guard of
\* mem_store.rs commit_envelope makes the new part disjoint from the old one.
LEMMA CommitSpends ==
    ASSUME NEW e, commit_envelope(CommitRequest(e)), LiveIsUnspent
    PROVE  /\ SpentByLog' = SpentByLog \cup ToSet(e.consumes)
           /\ SpentByLog \cap ToSet(e.consumes) = {}
           /\ ToSet(e.consumes) \subseteq DOMAIN immutable
<1> DEFINE tid == envelope_id(e)
<1>1. /\ DOMAIN transfers' = DOMAIN transfers \cup {tid}
      /\ \A t \in DOMAIN transfers : transfers'[t] = transfers[t]
      /\ transfers'[tid] = e
      /\ ToSet(e.consumes) \subseteq active
  BY CommitEffect
<1> HIDE DEF tid
<1>2. SpentByLog' = UNION {ToSet(transfers'[t].consumes) : t \in DOMAIN transfers'}
  BY DEF SpentByLog, ToSet
<1>3. SpentByLog' = SpentByLog \cup ToSet(e.consumes)
  BY <1>1, <1>2 DEF SpentByLog
<1> QED
  BY <1>1, <1>3 DEF LiveIsUnspent

\* A commit keeps the spendable set equal to what the log leaves unspent.
LEMMA CommitKeepsLiveIsUnspent ==
    ASSUME NEW e, commit_envelope(CommitRequest(e)), LiveIsUnspent, PostingsFromLog
    PROVE  LiveIsUnspent'
<1>1. /\ active' = (active \ ToSet(e.consumes)) \cup NewIds(e)
      /\ DOMAIN immutable' = DOMAIN immutable \cup NewIds(e)
      /\ NewIds(e) \cap DOMAIN immutable = {}
  BY CommitEffect, NewIdsAreFresh
<1>2. /\ SpentByLog' = SpentByLog \cup ToSet(e.consumes)
      /\ SpentByLog \cap ToSet(e.consumes) = {}
      /\ ToSet(e.consumes) \subseteq DOMAIN immutable
  BY CommitSpends
<1>3. SpentByLog \subseteq DOMAIN immutable /\ active = DOMAIN immutable \ SpentByLog
  BY DEF LiveIsUnspent
<1>4. SpentByLog' \subseteq DOMAIN immutable' /\ active' = DOMAIN immutable' \ SpentByLog'
  BY <1>1, <1>2, <1>3
<1> QED
  BY <1>4 DEF LiveIsUnspent

\* A commit spends nothing a stored transfer has spent.
LEMMA CommitKeepsNoDoubleSpend ==
    ASSUME NEW e, commit_envelope(CommitRequest(e)), LiveIsUnspent, NoDoubleSpend
    PROVE  NoDoubleSpend'
<1> DEFINE tid == envelope_id(e)
<1>1. /\ DOMAIN transfers' = DOMAIN transfers \cup {tid}
      /\ \A t \in DOMAIN transfers : transfers'[t] = transfers[t]
      /\ transfers'[tid] = e
  BY CommitEffect
<1>2. \A t \in DOMAIN transfers : ToSet(transfers[t].consumes) \cap ToSet(e.consumes) = {}
  BY CommitSpends DEF SpentByLog
<1> HIDE DEF tid
<1> SUFFICES ASSUME NEW t \in DOMAIN transfers', NEW u \in DOMAIN transfers', t # u
             PROVE  ToSet(transfers'[t].consumes) \cap ToSet(transfers'[u].consumes) = {}
  BY DEF NoDoubleSpend, ToSet
<1>3. CASE t \in DOMAIN transfers /\ u \in DOMAIN transfers
  BY <1>1, <1>3 DEF NoDoubleSpend
<1>4. CASE t = tid /\ u \in DOMAIN transfers
  BY <1>1, <1>2, <1>4
<1>5. CASE u = tid /\ t \in DOMAIN transfers
  BY <1>1, <1>2, <1>5
<1> QED
  BY <1>1, <1>3, <1>4, <1>5

\* A commit keeps the posting table and the transfer log in step.
LEMMA CommitKeepsPostingsFromLog ==
    ASSUME NEW e, commit_envelope(CommitRequest(e)), PostingsFromLog
    PROVE  PostingsFromLog'
<1> DEFINE tid == envelope_id(e)
<1>1. /\ DOMAIN immutable' = DOMAIN immutable \cup NewIds(e)
      /\ \A id \in DOMAIN immutable : immutable'[id] = immutable[id]
      /\ \A i \in DOMAIN e.creates : immutable'[<<tid, i>>] = e.creates[i]
      /\ DOMAIN transfers' = DOMAIN transfers \cup {tid}
      /\ \A t \in DOMAIN transfers : transfers'[t] = transfers[t]
      /\ transfers'[tid] = e
  <2>1. /\ DOMAIN immutable' = DOMAIN immutable \cup NewIds(e)
        /\ \A id \in DOMAIN immutable : immutable'[id] = immutable[id]
        /\ DOMAIN transfers' = DOMAIN transfers \cup {tid}
        /\ \A t \in DOMAIN transfers : transfers'[t] = transfers[t]
        /\ transfers'[tid] = e
        /\ NewIds(e) \cap DOMAIN immutable = {}
    BY CommitEffect, NewIdsAreFresh
  <2>2. ASSUME NEW i \in DOMAIN e.creates
        PROVE  immutable'[<<tid, i>>] = e.creates[i]
    <3>1. <<tid, i>> \notin DOMAIN immutable
      BY <2>1 DEF NewIds
    <3> QED
      BY <3>1, CommitEffect
  <2> QED
    BY <2>1, <2>2
<1>2. ASSUME NEW id \in DOMAIN immutable'
      PROVE  /\ id = <<id[1], id[2]>>
             /\ id[1] \in DOMAIN transfers'
             /\ id[2] \in DOMAIN transfers'[id[1]].creates
             /\ immutable'[id] = transfers'[id[1]].creates[id[2]]
  <2>1. CASE id \in DOMAIN immutable
    BY <1>1, <2>1 DEF PostingsFromLog
  <2>2. CASE id \in NewIds(e)
    <3>1. PICK i \in DOMAIN e.creates : id = <<tid, i>>
      BY <2>2 DEF NewIds
    <3> QED
      BY <1>1, <3>1
  <2> QED
    BY <1>1, <2>1, <2>2
<1>3. ASSUME NEW t \in DOMAIN transfers', NEW i \in DOMAIN transfers'[t].creates
      PROVE  <<t, i>> \in DOMAIN immutable'
  <2>1. CASE t \in DOMAIN transfers
    BY <1>1, <2>1 DEF PostingsFromLog
  <2>2. CASE t = tid
    BY <1>1, <2>2 DEF NewIds
  <2> QED
    BY <1>1, <2>1, <2>2
<1> QED
  BY <1>2, <1>3 DEF PostingsFromLog

-----------------------------------------------------------------------------
(* The event log. *)

\* Appending to a sequence: its type, its old and new elements, its prefix.
LEMMA AppendFacts ==
    ASSUME NEW S, NEW seq \in Seq(S), NEW elt \in S
    PROVE  /\ Append(seq, elt) \in Seq(S)
           /\ Len(Append(seq, elt)) = Len(seq) + 1
           /\ DOMAIN Append(seq, elt) = DOMAIN seq \cup {Len(seq) + 1}
           /\ \A i \in DOMAIN seq : Append(seq, elt)[i] = seq[i]
           /\ Append(seq, elt)[Len(seq) + 1] = elt
           /\ IsPrefix(seq, Append(seq, elt))
<1>1. /\ Append(seq, elt) \in Seq(S)
      /\ Len(Append(seq, elt)) = Len(seq) + 1
      /\ \A i \in 1..Len(seq) : Append(seq, elt)[i] = seq[i]
      /\ Append(seq, elt)[Len(seq) + 1] = elt
      /\ DOMAIN seq = 1..Len(seq)
      /\ DOMAIN Append(seq, elt) = 1..(Len(seq) + 1)
      /\ Len(seq) \in Nat
  BY AppendProperties, LenProperties
<1>2. SubSeq(seq, 1, Len(seq)) = SubSeq(Append(seq, elt), 1, Len(seq))
  BY <1>1
<1> QED
  BY <1>1, <1>2 DEF IsPrefix

\* A sequence is a prefix of itself.
LEMMA PrefixOfItself ==
    ASSUME NEW S, NEW seq \in Seq(S)
    PROVE  IsPrefix(seq, seq)
  BY LenProperties DEF IsPrefix

\* events.rs / append_event_locked: an event is appended exactly when no event
\* with its dedup key is in the log, and nothing else happens to the log.
LEMMA AppendEventEffect ==
    ASSUME NEW S, events \in Seq(S), NEW ev \in S, AppendEvent(ev)
    PROVE  /\ events' \in Seq(S)
           /\ IsPrefix(events, events')
           /\ DOMAIN events \subseteq DOMAIN events'
           /\ \A i \in DOMAIN events : events'[i] = events[i]
           /\ \/ /\ \E i \in DOMAIN events : SameDedupKey(events[i], ev)
                 /\ events' = events
              \/ /\ \A i \in DOMAIN events : ~SameDedupKey(events[i], ev)
                 /\ \E n \in DOMAIN events' : /\ n \notin DOMAIN events
                                             /\ DOMAIN events' = DOMAIN events \cup {n}
                                             /\ events'[n] = ev
<1>1. CASE \E i \in DOMAIN events : SameDedupKey(events[i], ev)
  BY <1>1, PrefixOfItself DEF AppendEvent
<1>2. CASE \A i \in DOMAIN events : ~SameDedupKey(events[i], ev)
  <2>1. events' = Append(events, ev)
    BY <1>2 DEF AppendEvent
  <2>2. Len(events) + 1 \notin DOMAIN events
    BY LenProperties
  <2> QED
    BY <1>2, <2>1, <2>2, AppendFacts
<1> QED
  BY <1>1, <1>2

EventType == [kind : EventKind, subject : Account \cup DOMAIN transfers, version : Nat]

\* A commit appends exactly one event, its own, to a log that had none for it.
LEMMA CommitAnnounces ==
    ASSUME NEW e, commit_envelope(CommitRequest(e)), StoreTypeOK, EventsMatchTables
    PROVE  /\ events' \in Seq(EventType')
           /\ IsPrefix(events, events')
           /\ \A i \in DOMAIN events : i \in DOMAIN events' /\ events'[i] = events[i]
           /\ \A i \in DOMAIN events : ~SameDedupKey(events[i], TransferCommitted(envelope_id(e)))
           /\ \E n \in DOMAIN events' : /\ n \notin DOMAIN events
                                       /\ DOMAIN events' = DOMAIN events \cup {n}
                                       /\ events'[n] = TransferCommitted(envelope_id(e))
<1> DEFINE ev == TransferCommitted(envelope_id(e))
<1>1. DOMAIN transfers' = DOMAIN transfers \cup {envelope_id(e)}
      /\ envelope_id(e) \notin DOMAIN transfers
  BY CommitEffect
<1>2. EventType \subseteq EventType' /\ ev \in EventType'
  BY <1>1 DEF EventType, EventKind, TransferCommitted, Event
<1>3. events \in Seq(EventType')
  BY <1>2, SeqMonotonic DEF StoreTypeOK, EventType
<1>4. AppendEvent(ev)
  BY DEF commit_envelope, CommitRequest
<1>5. \A i \in DOMAIN events : ~SameDedupKey(events[i], ev)
  BY <1>1 DEF EventsMatchTables, SameDedupKey, TransferCommitted, Event
<1> QED
  BY <1>2, <1>3, <1>4, <1>5, AppendEventEffect

\* A commit keeps the tables typed.
LEMMA CommitKeepsTypes ==
    ASSUME NEW e, e.creates \in Seq(Posting), commit_envelope(CommitRequest(e)),
           StoreTypeOK, EventsMatchTables, PostingsFromLog
    PROVE  StoreTypeOK'
<1>1. /\ active' = (active \ ToSet(e.consumes)) \cup NewIds(e)
      /\ DOMAIN immutable' = DOMAIN immutable \cup NewIds(e)
      /\ \A id \in DOMAIN immutable : immutable'[id] = immutable[id]
      /\ accounts' = accounts
      /\ NewIds(e) \cap DOMAIN immutable = {}
  BY CommitEffect, NewIdsAreFresh
<1>2. active' \subseteq DOMAIN immutable'
  BY <1>1 DEF StoreTypeOK
<1>3. ASSUME NEW id \in DOMAIN immutable'
      PROVE  immutable'[id] \in Posting
  <2>1. CASE id \in DOMAIN immutable
    BY <1>1, <2>1 DEF StoreTypeOK
  <2>2. CASE id \in NewIds(e)
    <3>1. PICK i \in DOMAIN e.creates : id = <<envelope_id(e), i>>
      BY <2>2 DEF NewIds
    <3>2. immutable'[id] = e.creates[i]
      <4>1. <<envelope_id(e), i>> \notin DOMAIN immutable
        BY <1>1, <2>2, <3>1
      <4>2. <<envelope_id(e), i>> \notin DOMAIN immutable
               => immutable'[<<envelope_id(e), i>>] = e.creates[i]
        BY CommitEffect, Zenon
      <4> QED
        BY <3>1, <4>1, <4>2
    <3>3. e.creates[i] \in Posting
      BY ElementOfSeq, LenProperties
    <3> QED
      BY <3>2, <3>3
  <2> QED
    BY <1>1, <2>1, <2>2
<1>4. events' \in Seq(EventType')
  BY CommitAnnounces
<1> QED
  BY <1>1, <1>2, <1>3, <1>4 DEF StoreTypeOK, EventType, Posting

\* A commit keeps the event log exact and leaves the lifecycle events alone.
LEMMA CommitKeepsEvents ==
    ASSUME NEW e, commit_envelope(CommitRequest(e)), StoreTypeOK,
           EventsMatchTables, EventsTellTheTruth
    PROVE  EventsMatchTables' /\ EventsTellTheTruth'
<1> DEFINE tid == envelope_id(e)
           ev == TransferCommitted(tid)
<1>1. /\ DOMAIN transfers' = DOMAIN transfers \cup {tid}
      /\ accounts' = accounts
  BY CommitEffect
<1>2. /\ \A i \in DOMAIN events : i \in DOMAIN events' /\ events'[i] = events[i]
      /\ \A i \in DOMAIN events : ~SameDedupKey(events[i], ev)
  BY CommitAnnounces
<1>3. PICK n \in DOMAIN events' : /\ n \notin DOMAIN events
                                 /\ DOMAIN events' = DOMAIN events \cup {n}
                                 /\ events'[n] = ev
  BY CommitAnnounces
<1>4. /\ ev.kind = "TransferCommitted"
      /\ ev.subject = tid
      /\ "TransferCommitted" \notin LifecycleKind
  BY DEF TransferCommitted, Event, LifecycleKind
<1> HIDE DEF tid, ev
<1>5. ASSUME NEW t \in DOMAIN transfers'
      PROVE  \E i \in DOMAIN events' : events'[i] = TransferCommitted(t)
  <2>1. CASE t \in DOMAIN transfers
    BY <1>2, <2>1 DEF EventsMatchTables
  <2>2. CASE t = tid
    BY <1>3, <2>2 DEF ev
  <2> QED
    BY <1>1, <2>1, <2>2
<1>6. ASSUME NEW a \in Account, NEW v \in 2..Len(accounts'[a])
      PROVE  \E i \in DOMAIN events' : /\ events'[i].kind \in LifecycleKind
                                       /\ events'[i].subject = a
                                       /\ events'[i].version = v
  BY <1>1, <1>2 DEF EventsMatchTables
<1>7. ASSUME NEW i \in DOMAIN events', events'[i].kind = "TransferCommitted"
      PROVE  events'[i].subject \in DOMAIN transfers'
  BY <1>1, <1>2, <1>3, <1>4, <1>7 DEF EventsMatchTables
<1>8. ASSUME NEW i \in DOMAIN events', NEW j \in DOMAIN events', i # j
      PROVE  ~SameDedupKey(events'[i], events'[j])
  <2>1. CASE i \in DOMAIN events /\ j \in DOMAIN events
    BY <1>2, <1>8, <2>1 DEF EventsMatchTables
  <2>2. CASE i \in DOMAIN events /\ j = n
    BY <1>2, <1>3, <2>2
  <2>3. CASE i = n /\ j \in DOMAIN events
    <3>1. ~SameDedupKey(events[j], ev)
      BY <1>2, <2>3
    <3> QED
      BY <1>2, <1>3, <2>3, <3>1 DEF SameDedupKey
  <2> QED
    BY <1>3, <1>8, <2>1, <2>2, <2>3
<1>9. EventsMatchTables'
  BY <1>5, <1>6, <1>7, <1>8 DEF EventsMatchTables, TransferCommitted, Event, SameDedupKey
<1>10. EventsTellTheTruth'
  <2> SUFFICES ASSUME NEW i \in DOMAIN events', events'[i].kind \in LifecycleKind
               PROVE  /\ events'[i].subject \in Account
                      /\ events'[i].version \in 2..Len(accounts'[events'[i].subject])
                      /\ accounts'[events'[i].subject][events'[i].version].flags
                           = Mutate(events'[i].kind,
                                    accounts'[events'[i].subject][events'[i].version - 1].flags)
    BY DEF EventsTellTheTruth, Mutate
  <2>1. i \in DOMAIN events
    BY <1>3, <1>4
  <2> QED
    BY <1>1, <1>2, <2>1 DEF EventsTellTheTruth
<1> QED
  BY <1>9, <1>10

\* A commit preserves everything the store promises: mem_store.rs commit_envelope,
\* whatever was validated before it and however long ago.
LEMMA CommitKeepsInv ==
    ASSUME NEW e, e.creates \in Seq(Posting), commit_envelope(CommitRequest(e)), StoreInv
    PROVE  StoreInv'
<1>1. VersionChain'
  <2>1. accounts' = accounts
    BY CommitEffect
  <2> QED
    BY <2>1 DEF StoreInv, VersionChain
<1> QED
  BY <1>1, CommitKeepsTypes, CommitKeepsPostingsFromLog, CommitKeepsLiveIsUnspent,
     CommitKeepsNoDoubleSpend, CommitKeepsEvents DEF StoreInv

-----------------------------------------------------------------------------
(* Accounts. *)

AccountRecord == [version : Nat \ {0}, flags : SUBSET AccountFlags]

\* Steps that write neither postings nor transfers keep what relates the two.
LEMMA PostingsUntouched ==
    ASSUME UNCHANGED <<immutable, active, transfers>>,
           PostingsFromLog, LiveIsUnspent, NoDoubleSpend
    PROVE  PostingsFromLog' /\ LiveIsUnspent' /\ NoDoubleSpend'
<1>1. immutable' = immutable /\ active' = active /\ transfers' = transfers
  OBVIOUS
<1>2. PostingsFromLog'
  BY <1>1 DEF PostingsFromLog
<1>3. SpentByLog' = SpentByLog
  BY <1>1 DEF SpentByLog, ToSet
<1>4. LiveIsUnspent'
  BY <1>1, <1>3 DEF LiveIsUnspent
<1>5. NoDoubleSpend'
  BY <1>1 DEF NoDoubleSpend, ToSet
<1> QED
  BY <1>2, <1>4, <1>5

\* The head of an existing account is its last version, numbered by its place.
LEMMA HeadFacts ==
    ASSUME StoreTypeOK, VersionChain, NEW a \in Account, Exists(a)
    PROVE  /\ Len(accounts[a]) \in DOMAIN accounts[a]
           /\ Len(accounts[a]) \in Nat \ {0}
           /\ head(a).version = Len(accounts[a])
           /\ head(a) \in AccountRecord
<1>1. accounts[a] \in Seq(AccountRecord) /\ accounts[a] # <<>>
  BY DEF StoreTypeOK, AccountRecord, Exists
<1>2. Len(accounts[a]) \in Nat \ {0} /\ DOMAIN accounts[a] = 1..Len(accounts[a])
  BY <1>1, LenProperties, EmptySeq
<1>3. Len(accounts[a]) \in DOMAIN accounts[a]
  BY <1>2
<1> QED
  BY <1>1, <1>2, <1>3, ElementOfSeq DEF VersionChain, head

\* create_account gives a new account its first version and nothing else.
LEMMA CreateKeepsInv ==
    ASSUME NEW a \in Account, NEW flags \in SUBSET AccountFlags,
           create_account(a, flags), StoreInv
    PROVE  StoreInv'
<1> USE DEF StoreInv
<1>1. /\ accounts[a] = <<>>
      /\ accounts' = [accounts EXCEPT ![a] = <<NewAccount(flags)>>]
      /\ UNCHANGED <<immutable, active, transfers, events>>
  BY DEF create_account, Exists
<1>2. NewAccount(flags) \in AccountRecord /\ NewAccount(flags).version = 1
  BY DEF NewAccount, AccountRecord
<1>3. /\ accounts' \in [Account -> Seq(AccountRecord)]
      /\ accounts'[a] = <<NewAccount(flags)>>
      /\ \A b \in Account : b # a => accounts'[b] = accounts[b]
  <2>1. accounts \in [Account -> Seq(AccountRecord)]
    BY DEF StoreTypeOK, AccountRecord
  <2>2. <<NewAccount(flags)>> \in Seq(AccountRecord)
    BY <1>2
  <2> QED
    BY <1>1, <2>1, <2>2
<1>4. StoreTypeOK'
  BY <1>1, <1>3 DEF StoreTypeOK, AccountRecord
<1>5. VersionChain'
  BY <1>2, <1>3 DEF VersionChain
<1>6. PostingsFromLog' /\ LiveIsUnspent' /\ NoDoubleSpend'
  BY <1>1, PostingsUntouched
<1>7. EventsMatchTables'
  <2>1. ASSUME NEW b \in Account, NEW v \in 2..Len(accounts'[b])
        PROVE  v \in 2..Len(accounts[b])
    <3>1. CASE b = a
      <4>1. Len(accounts'[a]) = 1
        BY <1>3
      <4>2. v \in 2..1
        BY <3>1, <4>1
      <4> QED
        BY <4>2
    <3>2. CASE b # a
      BY <1>3, <3>2
    <3> QED
      BY <3>1, <3>2
  <2> QED
    BY <1>1, <2>1 DEF EventsMatchTables
<1>8. EventsTellTheTruth'
  <2>1. ASSUME NEW i \in DOMAIN events, events[i].kind \in LifecycleKind
        PROVE  events[i].subject \in Account /\ events[i].subject # a
    BY <1>1, <2>1 DEF EventsTellTheTruth
  <2>2. ASSUME NEW i \in DOMAIN events, events[i].kind \in LifecycleKind
        PROVE  accounts'[events[i].subject] = accounts[events[i].subject]
    BY <1>3, <2>1, <2>2
  <2> QED
    BY <1>1, <2>2 DEF EventsTellTheTruth
<1> QED
  BY <1>4, <1>5, <1>6, <1>7, <1>8

\* Each lifecycle mutation keeps the flags flags.
LEMMA MutateType ==
    ASSUME NEW kind \in LifecycleKind, NEW flags \in SUBSET AccountFlags
    PROVE  Mutate(kind, flags) \in SUBSET AccountFlags
<1>1. Mutate("AccountFrozen", flags) = flags \cup {"FROZEN"}
  BY DEF Mutate
<1>2. Mutate("AccountUnfrozen", flags) = flags \ {"FROZEN"}
  BY DEF Mutate
<1>3. Mutate("AccountClosed", flags) = (flags \cup {"CLOSED"}) \ {"FROZEN"}
  BY DEF Mutate
<1> QED
  BY <1>1, <1>2, <1>3 DEF LifecycleKind, AccountFlags

\* A transition that lands was computed from the head: mem_store.rs
\* commit_transition compares versions, and versions number the history.
LEMMA AppliedFromHead ==
    ASSUME NEW a \in Account, NEW kind \in LifecycleKind, NEW v \in DOMAIN accounts[a],
           StoreInv, TransitionApplied(a, NextVersion(kind, accounts[a][v]), kind)
    PROVE  /\ Exists(a)
           /\ v = Len(accounts[a])
           /\ NextVersion(kind, accounts[a][v]) \in AccountRecord
           /\ NextVersion(kind, accounts[a][v]).version = Len(accounts[a]) + 1
           /\ NextVersion(kind, accounts[a][v]).flags = Mutate(kind, head(a).flags)
<1>1. /\ Exists(a)
      /\ NextVersion(kind, accounts[a][v]).version = head(a).version + 1
  BY DEF TransitionApplied
<1>2. /\ head(a).version = Len(accounts[a]) /\ Len(accounts[a]) \in Nat \ {0}
      /\ accounts[a][v].version = v
      /\ head(a) \in AccountRecord
  BY <1>1, HeadFacts DEF StoreInv, VersionChain
<1>3. v \in Nat
  BY <1>2, LenProperties DEF StoreInv, StoreTypeOK
<1>4. NextVersion(kind, accounts[a][v]) = [version |-> v + 1, flags |-> Mutate(kind, accounts[a][v].flags)]
  BY <1>2 DEF NextVersion
<1>5. v = Len(accounts[a])
  BY <1>1, <1>2, <1>3, <1>4
<1>6. accounts[a][v] = head(a)
  BY <1>5 DEF head
<1>7. Mutate(kind, head(a).flags) \in SUBSET AccountFlags
  BY <1>2, MutateType DEF AccountRecord
<1> QED
  BY <1>1, <1>2, <1>3, <1>4, <1>5, <1>6, <1>7 DEF AccountRecord

\* The dedup key of a lifecycle event is shared only by lifecycle events of the
\* same account and version.
LEMMA LifecycleKey ==
    ASSUME StoreTypeOK, NEW i \in DOMAIN events, NEW kind \in LifecycleKind,
           NEW a, NEW version
    PROVE  SameDedupKey(events[i], Event(kind, a, version)) <=>
              /\ events[i].kind \in LifecycleKind
              /\ events[i].subject = a
              /\ events[i].version = version
<1>1. events[i].kind \in EventKind
  <2>1. events \in Seq(EventType)
    BY DEF StoreTypeOK, EventType
  <2>2. events[i] \in EventType
    BY <2>1, ElementOfSeq, LenProperties
  <2> QED
    BY <2>2 DEF EventType
<1>2. /\ Event(kind, a, version).kind = kind
      /\ Event(kind, a, version).subject = a
      /\ Event(kind, a, version).version = version
  BY DEF Event
<1> QED
  BY <1>1, <1>2 DEF SameDedupKey, EventKind, LifecycleKind

\* A transition that lands adds one version and the one event that announces it.
LEMMA AppliedEffect ==
    ASSUME NEW a \in Account, NEW kind \in LifecycleKind, NEW v \in DOMAIN accounts[a],
           StoreInv, TransitionApplied(a, NextVersion(kind, accounts[a][v]), kind)
    PROVE  LET next == NextVersion(kind, accounts[a][v])
               ev   == Event(kind, a, Len(accounts[a]) + 1)
           IN /\ accounts' \in [Account -> Seq(AccountRecord)]
              /\ accounts'[a] = Append(accounts[a], next)
              /\ \A b \in Account : b # a => accounts'[b] = accounts[b]
              /\ UNCHANGED <<immutable, active, transfers>>
              /\ events' \in Seq(EventType)
              /\ IsPrefix(events, events')
              /\ \A i \in DOMAIN events : i \in DOMAIN events' /\ events'[i] = events[i]
              /\ \A i \in DOMAIN events : ~SameDedupKey(events[i], ev)
              /\ \E n \in DOMAIN events' : /\ n \notin DOMAIN events
                                          /\ DOMAIN events' = DOMAIN events \cup {n}
                                          /\ events'[n] = ev
<1> DEFINE next == NextVersion(kind, accounts[a][v])
           ev == Event(kind, a, Len(accounts[a]) + 1)
<1>1. /\ next \in AccountRecord
      /\ next.version = Len(accounts[a]) + 1
      /\ Exists(a)
  BY AppliedFromHead
<1>2. /\ accounts' = [accounts EXCEPT ![a] = Append(accounts[a], next)]
      /\ AppendEvent(ev)
      /\ UNCHANGED <<immutable, active, transfers>>
  BY <1>1 DEF TransitionApplied
<1>3. Len(accounts[a]) \in Nat
  BY <1>1, HeadFacts DEF StoreInv
<1>4. accounts \in [Account -> Seq(AccountRecord)]
  BY DEF StoreInv, StoreTypeOK, AccountRecord
<1> HIDE DEF next
<1>5. /\ accounts' \in [Account -> Seq(AccountRecord)]
      /\ accounts'[a] = Append(accounts[a], next)
      /\ \A b \in Account : b # a => accounts'[b] = accounts[b]
  <2>1. Append(accounts[a], next) \in Seq(AccountRecord)
    BY <1>1, <1>4, AppendProperties
  <2> QED
    BY <1>2, <1>4, <2>1
<1>6. events \in Seq(EventType)
  BY DEF StoreInv, StoreTypeOK, EventType
<1>7. ev \in EventType
  BY <1>3 DEF EventType, EventKind, Event
<1>8. ASSUME NEW i \in DOMAIN events, SameDedupKey(events[i], ev)
      PROVE  FALSE
  <2>1. /\ events[i].kind \in LifecycleKind
        /\ events[i].subject = a
        /\ events[i].version = Len(accounts[a]) + 1
    BY <1>8, LifecycleKey DEF StoreInv
  <2>2. events[i].version \in 2..Len(accounts[a])
    BY <2>1 DEF StoreInv, EventsTellTheTruth
  <2> QED
    BY <1>3, <2>1, <2>2
<1> HIDE DEF ev
<1>9. /\ events' \in Seq(EventType)
      /\ IsPrefix(events, events')
      /\ \A i \in DOMAIN events : i \in DOMAIN events' /\ events'[i] = events[i]
      /\ \A i \in DOMAIN events : ~SameDedupKey(events[i], ev)
      /\ \E n \in DOMAIN events' : /\ n \notin DOMAIN events
                                  /\ DOMAIN events' = DOMAIN events \cup {n}
                                  /\ events'[n] = ev
  BY <1>2, <1>6, <1>7, <1>8, AppendEventEffect
<1> QED
  BY <1>2, <1>5, <1>9 DEF next, ev

\* A transition that lands preserves everything the store promises.
LEMMA AppliedKeepsInv ==
    ASSUME NEW a \in Account, NEW kind \in LifecycleKind, NEW v \in DOMAIN accounts[a],
           StoreInv, TransitionApplied(a, NextVersion(kind, accounts[a][v]), kind)
    PROVE  StoreInv'
<1> USE DEF StoreInv
<1> DEFINE next == NextVersion(kind, accounts[a][v])
           ev == Event(kind, a, Len(accounts[a]) + 1)
           len == Len(accounts[a])
<1>1. /\ Exists(a)
      /\ next \in AccountRecord
      /\ next.version = len + 1
      /\ next.flags = Mutate(kind, head(a).flags)
  BY AppliedFromHead
<1>2. /\ accounts' \in [Account -> Seq(AccountRecord)]
      /\ accounts'[a] = Append(accounts[a], next)
      /\ \A b \in Account : b # a => accounts'[b] = accounts[b]
      /\ immutable' = immutable /\ active' = active /\ transfers' = transfers
      /\ events' \in Seq(EventType)
      /\ \A i \in DOMAIN events : i \in DOMAIN events' /\ events'[i] = events[i]
      /\ \A i \in DOMAIN events : ~SameDedupKey(events[i], ev)
  BY AppliedEffect
<1>3. PICK n \in DOMAIN events' : /\ n \notin DOMAIN events
                                 /\ DOMAIN events' = DOMAIN events \cup {n}
                                 /\ events'[n] = ev
  BY AppliedEffect
<1>4. len \in Nat \ {0} /\ accounts[a] \in Seq(AccountRecord)
      /\ DOMAIN accounts[a] = 1..len
  BY <1>1, HeadFacts, LenProperties DEF StoreTypeOK, AccountRecord
<1>5. ev.kind = kind /\ ev.subject = a /\ ev.version = len + 1
  BY DEF Event
<1> HIDE DEF next, ev
<1>6. /\ Len(accounts'[a]) = len + 1
      /\ DOMAIN accounts'[a] = DOMAIN accounts[a] \cup {len + 1}
      /\ \A w \in DOMAIN accounts[a] : accounts'[a][w] = accounts[a][w]
      /\ accounts'[a][len + 1] = next
  BY <1>1, <1>2, <1>4, AppendFacts
<1> HIDE DEF len
<1>7. StoreTypeOK'
  BY <1>2 DEF StoreTypeOK, AccountRecord, EventType
<1>8. VersionChain'
  <2> SUFFICES ASSUME NEW b \in Account, NEW w \in DOMAIN accounts'[b]
               PROVE  accounts'[b][w].version = w
    BY DEF VersionChain
  <2>1. CASE b = a
    BY <1>1, <1>6, <2>1 DEF VersionChain
  <2>2. CASE b # a
    BY <1>2, <2>2 DEF VersionChain
  <2> QED
    BY <2>1, <2>2
<1>9. PostingsFromLog' /\ LiveIsUnspent' /\ NoDoubleSpend'
  BY <1>2, PostingsUntouched
<1>10. EventsMatchTables'
  <2>1. ASSUME NEW t \in DOMAIN transfers'
        PROVE  \E i \in DOMAIN events' : events'[i] = TransferCommitted(t)
    BY <1>2 DEF EventsMatchTables
  <2>2. ASSUME NEW b \in Account, NEW w \in 2..Len(accounts'[b])
        PROVE  \E i \in DOMAIN events' : /\ events'[i].kind \in LifecycleKind
                                         /\ events'[i].subject = b
                                         /\ events'[i].version = w
    <3>1. CASE b = a /\ w = len + 1
      BY <1>3, <1>5, <3>1
    <3>2. CASE w \in 2..Len(accounts[b])
      BY <1>2, <3>2 DEF EventsMatchTables
    <3>3. b # a => w \in 2..Len(accounts[b])
      BY <1>2
    <3>4. b = a => w = len + 1 \/ w \in 2..Len(accounts[b])
      BY <1>4, <1>6 DEF len
    <3> QED
      BY <3>1, <3>2, <3>3, <3>4
  <2>3. ASSUME NEW i \in DOMAIN events', events'[i].kind = "TransferCommitted"
        PROVE  events'[i].subject \in DOMAIN transfers'
    BY <1>2, <1>3, <1>5, <2>3 DEF EventsMatchTables, LifecycleKind
  <2>4. ASSUME NEW i \in DOMAIN events', NEW j \in DOMAIN events', i # j
        PROVE  ~SameDedupKey(events'[i], events'[j])
    <3>1. CASE i \in DOMAIN events /\ j \in DOMAIN events
      BY <1>2, <2>4, <3>1 DEF EventsMatchTables
    <3>2. CASE i \in DOMAIN events /\ j = n
      BY <1>2, <1>3, <3>2
    <3>3. CASE i = n /\ j \in DOMAIN events
      <4>1. ~SameDedupKey(events[j], ev)
        BY <1>2, <3>3
      <4> QED
        BY <1>2, <1>3, <3>3, <4>1 DEF SameDedupKey
    <3> QED
      BY <1>3, <2>4, <3>1, <3>2, <3>3
  <2> QED
    BY <2>1, <2>2, <2>3, <2>4 DEF EventsMatchTables, TransferCommitted, Event, SameDedupKey
<1>11. EventsTellTheTruth'
  <2> SUFFICES ASSUME NEW i \in DOMAIN events', events'[i].kind \in LifecycleKind
               PROVE  /\ events'[i].subject \in Account
                      /\ events'[i].version \in 2..Len(accounts'[events'[i].subject])
                      /\ accounts'[events'[i].subject][events'[i].version].flags
                           = Mutate(events'[i].kind,
                                    accounts'[events'[i].subject][events'[i].version - 1].flags)
    BY DEF EventsTellTheTruth, Mutate
  <2>1. CASE i = n
    <3>1. len + 1 \in 2..(len + 1) /\ len + 1 - 1 = len /\ len \in DOMAIN accounts[a]
      BY <1>4
    <3>2. accounts'[a][len] = head(a)
      BY <1>6, <3>1 DEF head, len
    <3> QED
      BY <1>1, <1>3, <1>5, <1>6, <2>1, <3>1, <3>2
  <2>2. CASE i \in DOMAIN events
    <3> DEFINE s == events[i].subject
               w == events[i].version
    <3>1. /\ s \in Account
          /\ w \in 2..Len(accounts[s])
          /\ accounts[s][w].flags = Mutate(events[i].kind, accounts[s][w - 1].flags)
          /\ events'[i] = events[i]
      BY <1>2, <2>2 DEF EventsTellTheTruth
    <3>2. CASE s = a
      <4>1. /\ w \in 2..(len + 1)
            /\ w \in DOMAIN accounts[a]
            /\ w - 1 \in DOMAIN accounts[a]
        BY <1>4, <3>1, <3>2 DEF len
      <4> QED
        BY <1>6, <3>1, <3>2, <4>1
    <3>3. CASE s # a
      BY <1>2, <3>1, <3>3
    <3> QED
      BY <3>2, <3>3
  <2> QED
    BY <1>3, <2>1, <2>2
<1> QED
  BY <1>7, <1>8, <1>9, <1>10, <1>11

\* A transition the head has already reached changes nothing at all: its version
\* is announced, so not even an event is added.
LEMMA AlreadyAppliedIsStutter ==
    ASSUME NEW a \in Account, NEW kind \in LifecycleKind, NEW v \in DOMAIN accounts[a],
           StoreInv, TransitionAlreadyApplied(a, NextVersion(kind, accounts[a][v]), kind)
    PROVE  UNCHANGED storeVars
<1> DEFINE ev == Event(kind, a, v + 1)
<1>1. Exists(a) /\ UNCHANGED <<accounts, immutable, active, transfers>>
  BY DEF TransitionAlreadyApplied, append_event
<1>2. /\ accounts[a][v].version = v
      /\ head(a).version = Len(accounts[a])
      /\ Len(accounts[a]) \in Nat
      /\ v \in Nat \ {0}
  <2>1. head(a).version = Len(accounts[a]) /\ Len(accounts[a]) \in Nat
    BY <1>1, HeadFacts DEF StoreInv
  <2>2. DOMAIN accounts[a] = 1..Len(accounts[a])
    BY LenProperties DEF StoreInv, StoreTypeOK
  <2>3. accounts[a][v].version = v
    BY DEF StoreInv, VersionChain
  <2> QED
    BY <2>1, <2>2, <2>3
<1>3. NextVersion(kind, accounts[a][v]).version = v + 1
  BY <1>2 DEF NextVersion
<1>4. AppendEvent(ev) /\ v + 1 \in 2..Len(accounts[a])
  BY <1>2, <1>3 DEF TransitionAlreadyApplied, append_event
<1>5. \E i \in DOMAIN events : SameDedupKey(events[i], ev)
  BY <1>4, LifecycleKey DEF StoreInv, EventsMatchTables
<1> HIDE DEF ev
<1>6. events' = events
  BY <1>4, <1>5 DEF AppendEvent
<1> QED
  BY <1>1, <1>6 DEF storeVars

-----------------------------------------------------------------------------
(* What one write may never do. *)

\* An unchanged account table keeps every history.
LEMMA SameAccountsKept ==
    ASSUME StoreTypeOK, accounts' = accounts
    PROVE  \A a \in Account : IsPrefix(accounts[a], accounts'[a])
<1> TAKE a \in Account
<1>1. accounts[a] \in Seq(AccountRecord)
  BY DEF StoreTypeOK, AccountRecord
<1> QED
  BY <1>1, PrefixOfItself

\* A commit only adds records; what it spends was live.
LEMMA CommitKeepsRecords ==
    ASSUME NEW e, commit_envelope(CommitRequest(e)), StoreInv
    PROVE  RecordsKept
<1>1. /\ active' = (active \ ToSet(e.consumes)) \cup NewIds(e)
      /\ NewIds(e) \cap DOMAIN immutable = {}
      /\ DOMAIN immutable' = DOMAIN immutable \cup NewIds(e)
      /\ \A id \in DOMAIN immutable : immutable'[id] = immutable[id]
      /\ DOMAIN transfers' = DOMAIN transfers \cup {envelope_id(e)}
      /\ \A t \in DOMAIN transfers : transfers'[t] = transfers[t]
      /\ accounts' = accounts
  BY CommitEffect, NewIdsAreFresh DEF StoreInv
<1>2. IsPrefix(events, events')
  BY CommitAnnounces DEF StoreInv
<1>3. \A a \in Account : IsPrefix(accounts[a], accounts'[a])
  BY <1>1, SameAccountsKept DEF StoreInv
<1> QED
  BY <1>1, <1>2, <1>3 DEF RecordsKept

\* A commit spends from, and pays to, accounts its account guard found open.
LEMMA CommitKeepsBlocked ==
    ASSUME NEW e, commit_envelope(CommitRequest(e)), StoreInv
    PROVE  BlockedKept
<1> SUFFICES ASSUME NEW a \in Account, is_frozen(head(a)) \/ is_closed(head(a))
             PROVE  {id \in active' : immutable'[id].owner = a} = PostingsOf(active, a)
  BY DEF BlockedKept
<1>1. a \notin CommitRequest(e).involved
  BY DEF commit_envelope, Accepts, InvolvedOpen
<1>2. /\ \A i \in DOMAIN e.creates : e.creates[i].owner # a
      /\ \A id \in ToSet(e.consumes) : immutable[id].owner # a
  BY <1>1 DEF CommitRequest, referenced_accounts, ToSet
<1>3. /\ active' = (active \ ToSet(e.consumes)) \cup NewIds(e)
      /\ NewIds(e) \cap DOMAIN immutable = {}
      /\ \A id \in DOMAIN immutable : immutable'[id] = immutable[id]
      /\ active \subseteq DOMAIN immutable
  BY CommitEffect, NewIdsAreFresh DEF StoreInv, StoreTypeOK
<1>4. ASSUME NEW id \in NewIds(e)
      PROVE  immutable'[id].owner # a
  <2>1. PICK i \in DOMAIN e.creates : id = <<envelope_id(e), i>>
    BY DEF NewIds
  <2>2. <<envelope_id(e), i>> \notin DOMAIN immutable
    BY <1>3, <2>1
  <2>3. immutable'[id] = e.creates[i]
    BY <2>1, <2>2, CommitEffect
  <2> QED
    BY <1>2, <2>3
<1> QED
  BY <1>2, <1>3, <1>4 DEF PostingsOf

\* A step that leaves the postings alone touches no account's postings.
LEMMA PostingsAloneKeepsBlocked ==
    ASSUME immutable' = immutable, active' = active
    PROVE  BlockedKept
  BY DEF BlockedKept, PostingsOf

\* Creating an account only adds a record.
LEMMA CreateKeepsRecords ==
    ASSUME NEW a \in Account, NEW flags, create_account(a, flags), StoreInv
    PROVE  RecordsKept
<1>1. /\ accounts[a] = <<>>
      /\ accounts' = [accounts EXCEPT ![a] = <<NewAccount(flags)>>]
      /\ immutable' = immutable /\ active' = active /\ transfers' = transfers
      /\ events' = events
  BY DEF create_account, Exists
<1>2. IsPrefix(events, events')
  BY <1>1, PrefixOfItself DEF StoreInv, StoreTypeOK
<1>3. ASSUME NEW b \in Account
      PROVE  IsPrefix(accounts[b], accounts'[b])
  <2>1. accounts[b] \in Seq(AccountRecord) /\ accounts \in [Account -> Seq(AccountRecord)]
    BY DEF StoreInv, StoreTypeOK, AccountRecord
  <2>2. CASE b = a
    <3>1. accounts'[b] = <<NewAccount(flags)>> /\ accounts[b] = <<>>
      BY <1>1, <2>1, <2>2
    <3>2. IsPrefix(<<>>, <<NewAccount(flags)>>)
      BY DEF IsPrefix
    <3> QED
      BY <3>1, <3>2
  <2>3. CASE b # a
    BY <1>1, <2>1, <2>3, PrefixOfItself
  <2> QED
    BY <2>2, <2>3
<1> QED
  BY <1>1, <1>2, <1>3 DEF RecordsKept

\* Landing a transition only adds a version and an event.
LEMMA AppliedKeepsRecords ==
    ASSUME NEW a \in Account, NEW kind \in LifecycleKind, NEW v \in DOMAIN accounts[a],
           StoreInv, TransitionApplied(a, NextVersion(kind, accounts[a][v]), kind)
    PROVE  RecordsKept
<1>1. /\ accounts'[a] = Append(accounts[a], NextVersion(kind, accounts[a][v]))
      /\ \A b \in Account : b # a => accounts'[b] = accounts[b]
      /\ immutable' = immutable /\ active' = active /\ transfers' = transfers
      /\ IsPrefix(events, events')
  BY AppliedEffect
<1>2. NextVersion(kind, accounts[a][v]) \in AccountRecord
  BY AppliedFromHead
<1>3. ASSUME NEW b \in Account
      PROVE  IsPrefix(accounts[b], accounts'[b])
  <2>1. accounts[b] \in Seq(AccountRecord)
    BY DEF StoreInv, StoreTypeOK, AccountRecord
  <2>2. CASE b = a
    <3>1. IsPrefix(accounts[b], Append(accounts[b], NextVersion(kind, accounts[a][v])))
      BY <1>2, <2>1, AppendFacts
    <3> QED
      BY <1>1, <2>2, <3>1
  <2>3. CASE b # a
    BY <1>1, <2>1, <2>3, PrefixOfItself
  <2> QED
    BY <2>2, <2>3
<1> QED
  BY <1>1, <1>3 DEF RecordsKept

\* A step that changes no table keeps everything.
LEMMA StutterKeeps ==
    ASSUME StoreInv, UNCHANGED storeVars
    PROVE  StoreInv' /\ RecordsKept /\ BlockedKept
<1>1. /\ accounts' = accounts /\ immutable' = immutable /\ active' = active
      /\ transfers' = transfers /\ events' = events
  BY DEF storeVars
<1>2. StoreTypeOK' /\ VersionChain'
  BY <1>1 DEF StoreInv, StoreTypeOK, VersionChain
<1>3. PostingsFromLog' /\ LiveIsUnspent' /\ NoDoubleSpend'
  BY <1>1, PostingsUntouched DEF StoreInv
<1>4. EventsMatchTables'
  BY <1>1 DEF StoreInv, EventsMatchTables, TransferCommitted, Event, SameDedupKey
<1>5. EventsTellTheTruth'
  BY <1>1 DEF StoreInv, EventsTellTheTruth, Mutate
<1>6. IsPrefix(events, events')
  BY <1>1, PrefixOfItself DEF StoreInv, StoreTypeOK
<1>7. RecordsKept
  BY <1>1, <1>6, SameAccountsKept DEF StoreInv, RecordsKept
<1>8. BlockedKept
  BY <1>1, PostingsAloneKeepsBlocked
<1> QED
  BY <1>2, <1>3, <1>4, <1>5, <1>7, <1>8 DEF StoreInv

-----------------------------------------------------------------------------
(* Sums of posting values. *)

\* The fold SumValues runs, as a function of the subsets it has still to take.
ValueSol(f, S, g) ==
    g = [s \in SUBSET S |-> IF s = {} THEN 0
                            ELSE f[CHOOSE x \in s : TRUE].value + g[s \ {CHOOSE x \in s : TRUE}]]

\* SumValues is the sum of the values.
LEMMA SumValuesIs ==
    ASSUME NEW S, IsFiniteSet(S), NEW f
    PROVE  SumValues(f, S) = SumOf([i \in S |-> f[i].value], S)
<1> DEFINE v == [i \in S |-> f[i].value]
           g == CHOOSE h : SumSol(v, S, h)
           k == CHOOSE h : ValueSol(f, S, h)
<1>1. SumValues(f, S) = k[S]
  BY DEF SumValues, MapThenSumSet, MapThenFoldSet, ValueSol
<1>2. \A s \in SUBSET S : s # {} => v[Pick(s)] = f[CHOOSE x \in s : TRUE].value
  BY PickFacts DEF Pick
<1>3. SumSol(v, S, g)
  BY SumExists, SumChosen
<1>4. ASSUME NEW h PROVE SumSol(v, S, h) <=> ValueSol(f, S, h)
  BY <1>2 DEF SumSol, ValueSol, Pick
<1>5. ValueSol(f, S, g)
  BY <1>3, <1>4
<1>6. ValueSol(f, S, k)
  <2> HIDE DEF g, v
  <2>1. \E h : ValueSol(f, S, h)
    BY <1>5
  <2> QED
    BY <2>1, Zenon
<1>7. SumSol(v, S, k)
  BY <1>4, <1>6
<1>8. k[S] = g[S]
  BY <1>3, <1>7, SumUnique
<1> QED
  BY <1>1, <1>8 DEF SumOf

\* The values summed over a set are integers.
HasValues(f, S) == IsFiniteSet(S) /\ \A i \in S : f[i].value \in Int

\* A sum of values is an integer, and zero when there are none.
LEMMA ValuesType ==
    ASSUME NEW S, NEW f, HasValues(f, S)
    PROVE  SumValues(f, S) \in Int /\ SumValues(f, {}) = 0
<1> DEFINE v == [i \in S |-> f[i].value]
<1>1. SumValues(f, S) = SumOf(v, S) /\ \A i \in S : v[i] \in Int
  BY SumValuesIs DEF HasValues
<1>2. SumOf(v, S) \in Int
  BY <1>1, SumType DEF HasValues
<1>3. SumValues(f, {}) = 0
  BY SumValuesIs, SumEmpty, FS_EmptySet
<1> QED
  BY <1>1, <1>2, <1>3

\* A sum of values that are not negative is not negative.
LEMMA ValuesNonNegative ==
    ASSUME NEW S, NEW f, HasValues(f, S), \A i \in S : f[i].value >= 0
    PROVE  SumValues(f, S) >= 0
<1> DEFINE v == [i \in S |-> f[i].value]
<1>1. SumValues(f, S) = SumOf(v, S) /\ \A i \in S : v[i] \in Int /\ v[i] >= 0
  BY SumValuesIs DEF HasValues
<1> QED
  BY <1>1, SumNonNegative DEF HasValues

\* Tables that agree on the set have the same sum.
LEMMA ValuesSame ==
    ASSUME NEW S, IsFiniteSet(S), NEW f, NEW g, \A i \in S : f[i].value = g[i].value
    PROVE  SumValues(f, S) = SumValues(g, S)
<1>1. [i \in S |-> f[i].value] = [i \in S |-> g[i].value]
  OBVIOUS
<1> QED
  BY <1>1, SumValuesIs

\* Values split over disjoint sets.
LEMMA ValuesDisjoint ==
    ASSUME NEW S, NEW R, NEW f, HasValues(f, S), HasValues(f, R), S \cap R = {}
    PROVE  SumValues(f, S \cup R) = SumValues(f, S) + SumValues(f, R)
<1> DEFINE v == [i \in S \cup R |-> f[i].value]
<1>1. IsFiniteSet(S \cup R) /\ IsFiniteSet(S) /\ IsFiniteSet(R)
  BY FS_Union DEF HasValues
<1>2. \A i \in S \cup R : v[i] \in Int
  BY DEF HasValues
<1>3. SumValues(f, S \cup R) = SumOf(v, S \cup R)
  BY <1>1, SumValuesIs
<1>4. SumOf(v, S \cup R) = SumOf(v, S) + SumOf(v, R)
  BY <1>1, <1>2, SumDisjoint
<1>5. \A T \in SUBSET (S \cup R) : IsFiniteSet(T) => SumOf(v, T) = SumValues(f, T)
  <2> SUFFICES ASSUME NEW T \in SUBSET (S \cup R), IsFiniteSet(T)
               PROVE  SumOf(v, T) = SumValues(f, T)
    OBVIOUS
  <2>1. \A i \in T : v[i] = [j \in T |-> f[j].value][i]
    OBVIOUS
  <2>2. SumOf(v, T) = SumOf([j \in T |-> f[j].value], T)
    BY <2>1, SumSame
  <2> QED
    BY <2>2, SumValuesIs
<1>6. SumOf(v, S) = SumValues(f, S) /\ SumOf(v, R) = SumValues(f, R)
  BY <1>1, <1>5
<1> QED
  BY <1>3, <1>4, <1>6

\* Values follow a renaming of their ids.
LEMMA ValuesRename ==
    ASSUME NEW S, NEW f, HasValues(f, S), NEW b, \A x, y \in S : b[x] = b[y] => x = y,
           NEW g, \A x \in S : g[b[x]].value = f[x].value
    PROVE  SumValues(g, {b[x] : x \in S}) = SumValues(f, S)
<1> DEFINE R == {b[x] : x \in S}
           v == [x \in S |-> f[x].value]
           w == [y \in R |-> g[y].value]
<1>1. IsFiniteSet(R)
  <2>1. [x \in S |-> b[x]] \in Surjection(S, R)
    BY DEF Surjection
  <2> QED
    BY <2>1, FS_Surjection DEF HasValues
<1>2. \A x \in S : v[x] \in Int /\ w[b[x]] = v[x]
  BY DEF HasValues
<1>3. SumOf(w, R) = SumOf(v, S)
  <2>1. IsFiniteSet(S)
    BY DEF HasValues
  <2> HIDE DEF v, w
  <2>2. SumOf(w, {b[x] : x \in S}) = SumOf(v, S)
    BY <1>2, <2>1, SumRename
  <2> QED
    BY <2>2
<1>4. SumValues(g, R) = SumOf(w, R) /\ SumValues(f, S) = SumOf(v, S)
  BY <1>1, SumValuesIs DEF HasValues
<1> QED
  BY <1>3, <1>4

-----------------------------------------------------------------------------
(* Balances. *)

\* There are finitely many postings, and who owns one exists: a new account has none.
FiniteTables == IsFiniteSet(DOMAIN immutable)
OwnersExist == \A id \in DOMAIN immutable : Exists(immutable[id].owner)

\* The store's invariant with the floor, and what the floor rests on.
FloorInv == StoreInv /\ FiniteTables /\ OwnersExist /\ OverdraftFloor

\* The outputs of an envelope are finitely many, numbered one to one.
LEMMA NewIdsFacts ==
    ASSUME NEW e, e.creates \in Seq(Posting)
    PROVE  /\ IsFiniteSet(DOMAIN e.creates) /\ IsFiniteSet(NewIds(e))
           /\ \A i \in DOMAIN e.creates : e.creates[i] \in Posting
<1>1. DOMAIN e.creates = 1..Len(e.creates) /\ Len(e.creates) \in Nat
  BY LenProperties
<1>2. IsFiniteSet(DOMAIN e.creates)
  BY <1>1, FS_Interval
<1>3. [i \in DOMAIN e.creates |-> <<envelope_id(e), i>>] \in Surjection(DOMAIN e.creates, NewIds(e))
  BY DEF Surjection, NewIds
<1> QED
  BY <1>1, <1>2, <1>3, FS_Surjection, ElementOfSeq

\* What a commit leaves live and what it adds, as two disjoint sets of typed rows.
LEMMA CommitLive ==
    ASSUME NEW e, e.creates \in Seq(Posting), commit_envelope(CommitRequest(e)), StoreInv,
           FiniteTables
    PROVE  /\ IsFiniteSet(DOMAIN immutable')
           /\ active' = (active \ ToSet(e.consumes)) \cup NewIds(e)
           /\ (active \ ToSet(e.consumes)) \cap NewIds(e) = {}
           /\ ToSet(e.consumes) \subseteq active
           /\ \A id \in DOMAIN immutable : immutable'[id] = immutable[id]
           /\ \A i \in DOMAIN e.creates : immutable'[<<envelope_id(e), i>>] = e.creates[i]
           /\ \A id \in active' : immutable'[id] \in Posting
<1>1. NewIds(e) \cap DOMAIN immutable = {} /\ active \subseteq DOMAIN immutable
  BY CommitEffect, NewIdsAreFresh DEF StoreInv, StoreTypeOK
<1>2. IsFiniteSet(DOMAIN immutable')
  <2>1. DOMAIN immutable' = DOMAIN immutable \cup NewIds(e)
    BY CommitEffect
  <2>2. IsFiniteSet(DOMAIN immutable \cup NewIds(e))
    BY NewIdsFacts, FS_Union DEF FiniteTables
  <2> QED
    BY <2>1, <2>2
<1>3. ASSUME NEW i \in DOMAIN e.creates
      PROVE  immutable'[<<envelope_id(e), i>>] = e.creates[i]
  <2>1. <<envelope_id(e), i>> \in NewIds(e)
    BY DEF NewIds
  <2>2. <<envelope_id(e), i>> \notin DOMAIN immutable
    BY <1>1, <2>1
  <2> QED
    BY <2>2, CommitEffect
<1>4. \A id \in NewIds(e) : immutable'[id] \in Posting
  BY <1>3, NewIdsFacts DEF NewIds
<1>5. /\ active' = (active \ ToSet(e.consumes)) \cup NewIds(e)
      /\ ToSet(e.consumes) \subseteq active
      /\ \A id \in DOMAIN immutable : immutable'[id] = immutable[id]
  BY CommitEffect
<1>6. \A id \in active : immutable'[id] \in Posting
  BY <1>1, <1>5 DEF StoreInv, StoreTypeOK
<1>7. \A id \in active' : immutable'[id] \in Posting
  BY <1>4, <1>5, <1>6
<1>8. (active \ ToSet(e.consumes)) \cap NewIds(e) = {}
  BY <1>1
<1> QED
  BY <1>2, <1>3, <1>5, <1>7, <1>8

\* The rows a commit inserts.
LEMMA CreatedRows ==
    ASSUME NEW e
    PROVE  /\ CommitRequest(e).create = postings_to_create(e)
           /\ DOMAIN postings_to_create(e) = NewIds(e)
           /\ \A i \in DOMAIN e.creates : postings_to_create(e)[<<envelope_id(e), i>>] = e.creates[i]
           /\ CommitRequest(e).consume = e.consumes
BY DEF CommitRequest, postings_to_create, NewIds

\* What a request touches, in terms of the envelope.
LEMMA TouchedFacts ==
    ASSUME NEW e, NEW a, NEW asset
    PROVE  asset \in TouchedAssets(CommitRequest(e), a) <=>
             \/ \E i \in DOMAIN e.creates : e.creates[i].owner = a /\ e.creates[i].asset = asset
             \/ \E id \in ToSet(e.consumes) : immutable[id].owner = a /\ immutable[id].asset = asset
<1> DEFINE create == postings_to_create(e)
<1>1. asset \in TouchedAssets(CommitRequest(e), a) <=>
         \/ \E id \in DOMAIN create : create[id].owner = a /\ create[id].asset = asset
         \/ \E id \in ToSet(e.consumes) : immutable[id].owner = a /\ immutable[id].asset = asset
  <2>1. TouchedAssets(CommitRequest(e), a) =
           {create[id].asset : id \in {i \in DOMAIN create : create[i].owner = a}}
           \cup {immutable[id].asset : id \in {i \in ToSet(e.consumes) : immutable[i].owner = a}}
    BY DEF TouchedAssets, PostingsOf, CommitRequest
  <2> HIDE DEF create
  <2> QED
    BY <2>1
<1>2. ASSUME NEW id \in DOMAIN create
      PROVE  \E i \in DOMAIN e.creates : create[id] = e.creates[i]
  <2>1. id \in NewIds(e)
    BY CreatedRows
  <2>2. PICK i \in DOMAIN e.creates : id = <<envelope_id(e), i>>
    BY <2>1 DEF NewIds
  <2> QED
    BY <2>2, CreatedRows
<1>3. ASSUME NEW i \in DOMAIN e.creates
      PROVE  \E id \in DOMAIN create : create[id] = e.creates[i]
  <2>1. <<envelope_id(e), i>> \in NewIds(e)
    BY DEF NewIds
  <2> QED
    BY <2>1, CreatedRows
<1> HIDE DEF create
<1> QED
  BY <1>1, <1>2, <1>3

\* The balance after a commit is the balance its floor check projected.
LEMMA CommitBalance ==
    ASSUME NEW e, e.creates \in Seq(Posting), commit_envelope(CommitRequest(e)), StoreInv,
           FiniteTables, NEW a, NEW asset
    PROVE  Balance(a, asset)' = Projected(CommitRequest(e), a, asset)
<1> DEFINE create == postings_to_create(e)
           Old == {id \in active \ ToSet(e.consumes) :
                      immutable[id].owner = a /\ immutable[id].asset = asset}
           New == {id \in NewIds(e) : create[id].owner = a /\ create[id].asset = asset}
<1>1. ASSUME NEW id \in NewIds(e) PROVE create[id] = immutable'[id]
  <2>1. PICK i \in DOMAIN e.creates : id = <<envelope_id(e), i>>
    BY DEF NewIds
  <2>2. create[id] = e.creates[i]
    BY <2>1, CreatedRows
  <2>3. immutable'[id] = e.creates[i]
    BY <2>1, CommitLive
  <2> QED
    BY <2>2, <2>3
<1>2. \A id \in Old : immutable[id] = immutable'[id]
  BY CommitLive DEF StoreInv, StoreTypeOK
<1>3. {id \in active' : immutable'[id].owner = a /\ immutable'[id].asset = asset} = Old \cup New
  <2>1. \A id \in active \ ToSet(e.consumes) : immutable'[id] = immutable[id]
    BY CommitLive DEF StoreInv, StoreTypeOK
  <2> QED
    BY <1>1, <2>1, CommitLive
<1>4. HasValues(immutable', Old) /\ HasValues(immutable', New) /\ Old \cap New = {}
  <2>1. IsFiniteSet(Old) /\ IsFiniteSet(New)
    <3>1. Old \subseteq DOMAIN immutable
      BY DEF StoreInv, StoreTypeOK
    <3>2. New \subseteq NewIds(e)
      OBVIOUS
    <3> QED
      BY <3>1, <3>2, NewIdsFacts, FS_Subset DEF FiniteTables
  <2>2. \A id \in Old \cup New : immutable'[id].value \in Int
    BY CommitLive DEF Posting
  <2> QED
    BY <2>1, <2>2, CommitLive DEF HasValues
<1>5. SumValues(immutable', Old) = SumValues(immutable, Old)
  BY <1>2, <1>4, ValuesSame DEF HasValues
<1>6. SumValues(immutable', New) = SumValues(create, New)
  BY <1>1, <1>4, ValuesSame DEF HasValues
<1>7. Projected(CommitRequest(e), a, asset) = SumValues(immutable, Old) + SumValues(create, New)
  BY CreatedRows DEF Projected
<1>8. Balance(a, asset)' = SumValues(immutable', Old \cup New)
  BY <1>3 DEF Balance
<1> HIDE DEF Old, New, create
<1>9. SumValues(immutable', Old \cup New) = SumValues(immutable', Old) + SumValues(immutable', New)
  BY <1>4, ValuesDisjoint
<1> QED
  BY <1>5, <1>6, <1>7, <1>8, <1>9

\* The value a created row set has, in terms of the envelope.
LEMMA CreatedValues ==
    ASSUME NEW e, e.creates \in Seq(Posting),
           NEW Rows \in SUBSET DOMAIN e.creates, NEW New \in SUBSET NewIds(e),
           \A i \in DOMAIN e.creates : i \in Rows <=> <<envelope_id(e), i>> \in New
    PROVE  SumValues(postings_to_create(e), New) = SumValues(e.creates, Rows)
<1> DEFINE create == postings_to_create(e)
           f == e.creates
           b == [i \in DOMAIN e.creates |-> <<envelope_id(e), i>>]
<1>0. /\ Rows \subseteq DOMAIN f /\ New \subseteq NewIds(e)
      /\ \A i \in DOMAIN f : i \in Rows <=> b[i] \in New
  OBVIOUS
<1>1. /\ \A i \in DOMAIN f : create[b[i]] = f[i]
      /\ NewIds(e) = {b[i] : i \in DOMAIN f}
      /\ \A i, j \in DOMAIN f : b[i] = b[j] => i = j
      /\ IsFiniteSet(DOMAIN f) /\ \A i \in DOMAIN f : f[i].value \in Int
  BY CreatedRows, NewIdsFacts DEF NewIds, Posting
<1> HIDE DEF create, b, f
<1>2. New = {b[i] : i \in Rows}
  BY <1>0, <1>1
<1>3. HasValues(f, Rows)
  <2>1. Rows \in SUBSET DOMAIN f
    BY <1>0
  <2>2. IsFiniteSet(Rows)
    BY <1>1, <2>1, FS_Subset
  <2> QED
    BY <1>1, <2>1, <2>2 DEF HasValues
<1>4. /\ \A x, y \in Rows : b[x] = b[y] => x = y
      /\ \A x \in Rows : create[b[x]].value = f[x].value
  BY <1>0, <1>1
<1>5. SumValues(create, {b[x] : x \in Rows}) = SumValues(f, Rows)
  BY <1>3, <1>4, ValuesRename
<1> QED
  BY <1>2, <1>3, <1>5 DEF create, f

\* What the store projects is what validation projects on the same reads: the balance
\* and the net of the envelope.
LEMMA ProjectionIsDelta ==
    ASSUME NEW e, e.creates \in Seq(Posting), ToSet(e.consumes) \subseteq active, StoreInv,
           FiniteTables, NEW a, NEW asset
    PROVE  /\ Projected(CommitRequest(e), a, asset)
              = Balance(a, asset) + Delta(e, Consumed(e), a, asset)
           /\ Balance(a, asset) \in Int /\ Delta(e, Consumed(e), a, asset) \in Int
<1> DEFINE con == Consumed(e)
           Old == {id \in active \ ToSet(e.consumes) :
                      immutable[id].owner = a /\ immutable[id].asset = asset}
           Spent == {id \in ToSet(e.consumes) :
                      immutable[id].owner = a /\ immutable[id].asset = asset}
           Rows == {i \in DOMAIN e.creates : e.creates[i].owner = a /\ e.creates[i].asset = asset}
<1>1. Projected(CommitRequest(e), a, asset)
        = SumValues(immutable, Old) + SumValues(e.creates, Rows)
  <2> DEFINE create == postings_to_create(e)
             New == {id \in NewIds(e) : create[id].owner = a /\ create[id].asset = asset}
  <2>1. Projected(CommitRequest(e), a, asset) = SumValues(immutable, Old) + SumValues(create, New)
    BY CreatedRows DEF Projected
  <2>2. /\ Rows \in SUBSET DOMAIN e.creates /\ New \in SUBSET NewIds(e)
        /\ \A i \in DOMAIN e.creates : i \in Rows <=> <<envelope_id(e), i>> \in New
    <3>1. \A i \in DOMAIN e.creates : /\ <<envelope_id(e), i>> \in NewIds(e)
                                     /\ create[<<envelope_id(e), i>>] = e.creates[i]
      BY CreatedRows DEF NewIds
    <3> HIDE DEF create
    <3> QED
      BY <3>1
  <2> HIDE DEF Rows, New
  <2>3. SumValues(create, New) = SumValues(e.creates, Rows)
    BY <2>2, CreatedValues
  <2> QED
    BY <2>1, <2>3
<1>2. HasValues(immutable, Old) /\ HasValues(immutable, Spent) /\ HasValues(e.creates, Rows)
  <2>1. Old \in SUBSET DOMAIN immutable /\ Spent \in SUBSET DOMAIN immutable
    BY DEF StoreInv, StoreTypeOK
  <2>2. \A id \in DOMAIN immutable : immutable[id].value \in Int
    BY DEF StoreInv, StoreTypeOK, Posting
  <2> HIDE DEF Old, Spent
  <2>3. IsFiniteSet(Old) /\ IsFiniteSet(Spent)
    BY <2>1, FS_Subset DEF FiniteTables
  <2>4. HasValues(e.creates, Rows)
    <3>1. Rows \in SUBSET DOMAIN e.creates
      OBVIOUS
    <3> HIDE DEF Rows
    <3>2. IsFiniteSet(Rows) /\ \A i \in DOMAIN e.creates : e.creates[i].value \in Int
      BY <3>1, NewIdsFacts, FS_Subset DEF Posting
    <3> QED
      BY <3>1, <3>2 DEF HasValues
  <2> HIDE DEF Rows
  <2> QED
    BY <2>1, <2>2, <2>3, <2>4 DEF HasValues
<1>3. Balance(a, asset) = SumValues(immutable, Old) + SumValues(immutable, Spent)
  <2>1. {id \in active : immutable[id].owner = a /\ immutable[id].asset = asset} = Old \cup Spent
    OBVIOUS
  <2>2. Old \cap Spent = {}
    OBVIOUS
  <2> HIDE DEF Old, Spent
  <2> QED
    BY <1>2, <2>1, <2>2, ValuesDisjoint DEF Balance
<1>4. Delta(e, con, a, asset) = SumValues(e.creates, Rows) - SumValues(immutable, Spent)
  <2>1. DOMAIN con = ToSet(e.consumes) /\ \A id \in DOMAIN con : con[id] = immutable[id]
    BY DEF Consumed
  <2> HIDE DEF con
  <2>2. {id \in DOMAIN con : con[id].owner = a /\ con[id].asset = asset} = Spent
    BY <2>1
  <2>3. SumValues(con, Spent) = SumValues(immutable, Spent)
    <3>1. \A id \in Spent : con[id].value = immutable[id].value
      BY <2>1
    <3> HIDE DEF Spent
    <3> QED
      BY <1>2, <3>1, ValuesSame DEF HasValues
  <2> QED
    BY <2>2, <2>3 DEF Delta
<1> HIDE DEF Old, Spent, Rows, con
<1>5. /\ SumValues(immutable, Old) \in Int /\ SumValues(immutable, Spent) \in Int
      /\ SumValues(e.creates, Rows) \in Int
  BY <1>2, ValuesType
<1> QED
  BY <1>1, <1>3, <1>4, <1>5 DEF con

\* A commit leaves the balances it does not touch.
LEMMA CommitUntouched ==
    ASSUME NEW e, e.creates \in Seq(Posting), commit_envelope(CommitRequest(e)), StoreInv,
           FiniteTables, NEW a, NEW asset, asset \notin TouchedAssets(CommitRequest(e), a)
    PROVE  Balance(a, asset)' = Balance(a, asset)
<1> DEFINE Mine == {id \in active : immutable[id].owner = a /\ immutable[id].asset = asset}
<1>1. /\ \A i \in DOMAIN e.creates : ~(e.creates[i].owner = a /\ e.creates[i].asset = asset)
      /\ \A id \in ToSet(e.consumes) : ~(immutable[id].owner = a /\ immutable[id].asset = asset)
  BY TouchedFacts
<1>2. {id \in active' : immutable'[id].owner = a /\ immutable'[id].asset = asset} = Mine
  <2>1. \A id \in active : immutable'[id] = immutable[id]
    BY CommitLive DEF StoreInv, StoreTypeOK
  <2>2. \A id \in NewIds(e) : ~(immutable'[id].owner = a /\ immutable'[id].asset = asset)
    BY <1>1, CommitLive DEF NewIds
  <2> QED
    BY <1>1, <2>1, <2>2, CommitLive
<1>3. IsFiniteSet(Mine) /\ \A id \in Mine : immutable'[id] = immutable[id]
  <2>1. Mine \subseteq DOMAIN immutable
    BY DEF StoreInv, StoreTypeOK
  <2> QED
    BY <2>1, CommitLive, FS_Subset DEF FiniteTables
<1>4. SumValues(immutable', Mine) = SumValues(immutable, Mine)
  BY <1>3, ValuesSame
<1> QED
  BY <1>2, <1>4 DEF Balance

\* The floor survives a commit: what it touches was projected under the same locks.
LEMMA CommitKeepsFloor ==
    ASSUME NEW e, e.creates \in Seq(Posting), commit_envelope(CommitRequest(e)), FloorInv
    PROVE  FloorInv'
<1> USE DEF FloorInv
<1>1. accounts' = accounts
  BY CommitEffect
<1>2. FiniteTables'
  BY CommitLive DEF FiniteTables
<1>3. OwnersExist'
  <2>1. \A i \in DOMAIN e.creates : Exists(e.creates[i].owner)
    BY DEF commit_envelope, Accepts, InvolvedOpen, CommitRequest, referenced_accounts, ToSet
  <2>2. \A id \in NewIds(e) : Exists(immutable'[id].owner)
    BY <2>1, CommitLive DEF NewIds
  <2>3. \A id \in DOMAIN immutable' : accounts[immutable'[id].owner] # <<>>
    <3>1. DOMAIN immutable' = DOMAIN immutable \cup NewIds(e)
      BY CommitEffect
    <3>2. \A id \in DOMAIN immutable : immutable'[id] = immutable[id]
      BY CommitEffect
    <3> QED
      BY <2>2, <3>1, <3>2 DEF OwnersExist, Exists
  <2> QED
    BY <1>1, <2>3 DEF OwnersExist, Exists
<1>4. ASSUME NEW a \in Account, Exists(a), forbids_overdraft(head(a)), NEW asset \in Asset
      PROVE  Balance(a, asset)' >= 0
  <2>1. CASE asset \notin TouchedAssets(CommitRequest(e), a)
    BY <1>4, <2>1, CommitUntouched DEF OverdraftFloor
  <2>2. CASE asset \in TouchedAssets(CommitRequest(e), a)
    <3>1. a \in CommitRequest(e).involved
      BY <2>2, TouchedFacts DEF CommitRequest, referenced_accounts, ToSet
    <3>2. Projected(CommitRequest(e), a, asset) >= 0
      BY <1>4, <2>2, <3>1 DEF commit_envelope, Accepts, FloorKept
    <3> QED
      BY <3>2, CommitBalance
  <2> QED
    BY <2>1, <2>2
<1>5. OverdraftFloor'
  BY <1>1, <1>4 DEF OverdraftFloor, Exists, head
<1> QED
  BY <1>2, <1>3, <1>5, CommitKeepsInv

\* A step that writes no posting changes no balance.
LEMMA BalanceAlone ==
    ASSUME immutable' = immutable, active' = active, NEW a, NEW asset
    PROVE  Balance(a, asset)' = Balance(a, asset)
BY DEF Balance

\* A new account owns nothing, so that its floor holds from the start.
LEMMA CreateKeepsFloor ==
    ASSUME NEW a \in Account, NEW flags \in SUBSET AccountFlags,
           create_account(a, flags), FloorInv
    PROVE  FloorInv'
<1> USE DEF FloorInv
<1>1. /\ accounts[a] = <<>> /\ immutable' = immutable /\ active' = active
      /\ accounts' = [accounts EXCEPT ![a] = <<NewAccount(flags)>>]
  BY DEF create_account, Exists
<1>2. \A b \in Account : b # a => accounts'[b] = accounts[b]
  BY <1>1 DEF StoreInv, StoreTypeOK
<1>3. FiniteTables'
  BY <1>1 DEF FiniteTables
<1>4. OwnersExist'
  <2>1. \A id \in DOMAIN immutable : immutable[id].owner \in Account /\ immutable[id].owner # a
    BY <1>1 DEF OwnersExist, Exists, StoreInv, StoreTypeOK, Posting
  <2> QED
    BY <1>1, <1>2, <2>1 DEF OwnersExist, Exists
<1>5. ASSUME NEW b \in Account, NEW asset \in Asset,
             Exists(b)', forbids_overdraft(head(b))'
      PROVE  Balance(b, asset) >= 0
  <2>1. CASE b = a
    <3>1. {id \in active : immutable[id].owner = a /\ immutable[id].asset = asset} = {}
      BY <1>1 DEF OwnersExist, Exists, StoreInv, StoreTypeOK
    <3>2. Balance(a, asset) = 0
      BY <3>1, ValuesType, FS_EmptySet DEF Balance, HasValues
    <3> QED
      BY <2>1, <3>2
  <2>2. CASE b # a
    BY <1>2, <1>5, <2>2 DEF OverdraftFloor, Exists, head
  <2> QED
    BY <2>1, <2>2
<1>6. OverdraftFloor'
  BY <1>1, <1>5, BalanceAlone DEF OverdraftFloor
<1> QED
  BY <1>3, <1>4, <1>6, CreateKeepsInv

\* No lifecycle change lifts or imposes a floor.
LEMMA MutateKeepsFloor ==
    ASSUME NEW kind \in LifecycleKind, NEW flags
    PROVE  "DEBIT_MUST_NOT_EXCEED_CREDIT" \in Mutate(kind, flags)
              <=> "DEBIT_MUST_NOT_EXCEED_CREDIT" \in flags
<1>1. Mutate("AccountFrozen", flags) = flags \cup {"FROZEN"}
  BY DEF Mutate
<1>2. Mutate("AccountUnfrozen", flags) = flags \ {"FROZEN"}
  BY DEF Mutate
<1>3. Mutate("AccountClosed", flags) = (flags \cup {"CLOSED"}) \ {"FROZEN"}
  BY DEF Mutate
<1> QED
  BY <1>1, <1>2, <1>3 DEF LifecycleKind

\* The head after a transition that lands.
LEMMA AppliedHead ==
    ASSUME NEW a \in Account, NEW kind \in LifecycleKind, NEW v \in DOMAIN accounts[a],
           StoreInv, TransitionApplied(a, NextVersion(kind, accounts[a][v]), kind)
    PROVE  /\ Exists(a) /\ Exists(a)'
           /\ head(a)' = NextVersion(kind, head(a))
           /\ head(a)'.flags = Mutate(kind, head(a).flags)
           /\ \A b \in Account : b # a => accounts'[b] = accounts[b]
           /\ immutable' = immutable /\ active' = active
<1> DEFINE next == NextVersion(kind, accounts[a][v])
<1>1. /\ accounts'[a] = Append(accounts[a], next)
      /\ \A b \in Account : b # a => accounts'[b] = accounts[b]
      /\ immutable' = immutable /\ active' = active
  BY AppliedEffect
<1>2. /\ Exists(a) /\ v = Len(accounts[a]) /\ next \in AccountRecord
      /\ next.flags = Mutate(kind, head(a).flags)
  BY AppliedFromHead
<1>3. accounts[a] \in Seq(AccountRecord)
  BY DEF StoreInv, StoreTypeOK, AccountRecord
<1>4. next = NextVersion(kind, head(a))
  BY <1>2 DEF head
<1> HIDE DEF next
<1>5. /\ Len(accounts'[a]) = Len(accounts[a]) + 1 /\ Len(accounts[a]) \in Nat
      /\ accounts'[a][Len(accounts[a]) + 1] = next
  BY <1>1, <1>2, <1>3, AppendProperties, LenProperties
<1>6. accounts'[a] # <<>>
  BY <1>5
<1> QED
  BY <1>1, <1>2, <1>4, <1>5, <1>6 DEF head, Exists

\* Transitions keep the floors.
LEMMA AppliedKeepsFloor ==
    ASSUME NEW a \in Account, NEW kind \in LifecycleKind, NEW v \in DOMAIN accounts[a],
           FloorInv, TransitionApplied(a, NextVersion(kind, accounts[a][v]), kind)
    PROVE  FloorInv'
<1> USE DEF FloorInv
<1>1. FiniteTables' /\ OwnersExist'
  BY AppliedHead DEF FiniteTables, OwnersExist, Exists, StoreInv, StoreTypeOK, Posting
<1>2. ASSUME NEW b \in Account, Exists(b)', forbids_overdraft(head(b))'
      PROVE  Exists(b) /\ forbids_overdraft(head(b))
  <2>1. CASE b = a
    BY <1>2, <2>1, AppliedHead, MutateKeepsFloor DEF forbids_overdraft
  <2>2. CASE b # a
    BY <1>2, <2>2, AppliedHead DEF Exists, head
  <2> QED
    BY <2>1, <2>2
<1>3. OverdraftFloor'
  BY <1>2, AppliedHead, BalanceAlone DEF OverdraftFloor
<1> QED
  BY <1>1, <1>3, AppliedKeepsInv

\* A step that changes no table keeps the floors.
LEMMA StutterKeepsFloor ==
    ASSUME FloorInv, UNCHANGED storeVars
    PROVE  FloorInv'
<1>1. accounts' = accounts /\ immutable' = immutable /\ active' = active
  BY DEF storeVars
<1> QED
  BY <1>1, StutterKeeps, BalanceAlone
     DEF FloorInv, FiniteTables, OwnersExist, OverdraftFloor, Exists, head

-----------------------------------------------------------------------------
(* Resolution builds a typed envelope. *)

\* g sums the amounts of f over every subset of S.
AmountSol(f, S, g) ==
    g = [s \in SUBSET S |-> IF s = {} THEN 0
                            ELSE f[CHOOSE x \in s : TRUE].amount + g[s \ {CHOOSE x \in s : TRUE}]]

\* The sum of the amounts of the movements, or of the legs, f[i], i in S.
Amounts(f, S) == MapThenSumSet(LAMBDA i : f[i].amount, S)

\* It is a sum.
LEMMA AmountsIs ==
    ASSUME NEW S, IsFiniteSet(S), NEW f
    PROVE  Amounts(f, S) = SumOf([i \in S |-> f[i].amount], S)
<1> DEFINE v == [i \in S |-> f[i].amount]
           g == CHOOSE h : SumSol(v, S, h)
           k == CHOOSE h : AmountSol(f, S, h)
<1>1. Amounts(f, S) = k[S]
  BY DEF Amounts, MapThenSumSet, MapThenFoldSet, AmountSol
<1>2. \A s \in SUBSET S : s # {} => v[Pick(s)] = f[CHOOSE x \in s : TRUE].amount
  BY PickFacts DEF Pick
<1>3. SumSol(v, S, g)
  BY SumExists, SumChosen
<1>4. ASSUME NEW h PROVE SumSol(v, S, h) <=> AmountSol(f, S, h)
  BY <1>2 DEF SumSol, AmountSol, Pick
<1>5. AmountSol(f, S, g)
  BY <1>3, <1>4
<1>6. AmountSol(f, S, k)
  <2> HIDE DEF g, v
  <2>1. \E h : AmountSol(f, S, h)
    BY <1>5
  <2> QED
    BY <2>1, Zenon
<1>7. k[S] = SumOf(v, S)
  <2>1. SumSol(v, S, k)
    BY <1>4, <1>6
  <2>2. k[S] = g[S]
    BY <1>3, <2>1, SumUnique
  <2> QED
    BY <2>2 DEF SumOf
<1> QED
  BY <1>1, <1>7

\* The net debit of a key is the sum of the movements out of it, an integer.
LEMMA NetDebitType ==
    ASSUME NEW ms \in Seq([from : Account, to : Account, asset : Asset, amount : Int]),
           NEW a, NEW asset
    PROVE  NetDebit(ms, a, asset) \in Int
<1> DEFINE S == {i \in DOMAIN ms : ms[i].from = a /\ ms[i].asset = asset}
           v == [i \in S |-> ms[i].amount]
<1>0. /\ IsFiniteSet(S) /\ \A i \in S : v[i] \in Int
  <2>1. Len(ms) \in Nat /\ DOMAIN ms = 1..Len(ms) /\ \A i \in 1..Len(ms) : ms[i].amount \in Int
    <3> DEFINE M == [from : Account, to : Account, asset : Asset, amount : Int]
    <3>1. \A m \in M : m.amount \in Int
      OBVIOUS
    <3>2. ms \in Seq(M)
      OBVIOUS
    <3> HIDE DEF M
    <3> QED
      BY <3>1, <3>2
  <2>2. IsFiniteSet(1..Len(ms))
    BY <2>1, FS_Interval
  <2>3. S \in SUBSET (1..Len(ms))
    BY <2>1
  <2> HIDE DEF S
  <2> QED
    BY <2>1, <2>2, <2>3, FS_Subset
<1>1. NetDebit(ms, a, asset) = Amounts(ms, S)
  BY DEF NetDebit, Amounts, MapThenSumSet, MapThenFoldSet
<1> HIDE DEF S
<1>2. Amounts(ms, S) = SumOf(v, S)
  BY <1>0, AmountsIs
<1> QED
  BY <1>0, <1>1, <1>2, SumType

Debit == [account : Account, asset : Asset, amount : Int]

\* The order of the debits, spelled out.
LEMMA DebitOrder ==
    ASSUME NEW d \in Debit, NEW e \in Debit
    PROVE  /\ d.account[1] \in Int /\ d.account[2] \in Int /\ d.asset \in Int
           /\ d.account = <<d.account[1], d.account[2]>>
           /\ DebitBefore(d, e) <=>
                 \/ d.account[1] < e.account[1]
                 \/ d.account[1] = e.account[1] /\ d.account[2] < e.account[2]
                 \/ d.account[1] = e.account[1] /\ d.account[2] = e.account[2] /\ d.asset < e.asset
<1>1. d.account \in Int \X Int /\ d.asset \in Int
  BY IdsAssumption DEF Debit
<1>2. DebitBefore(d, e) <=>
        \E i \in 1..3 : /\ <<d.account[1], d.account[2], d.asset>>[i]
                             < <<e.account[1], e.account[2], e.asset>>[i]
                        /\ \A j \in 1..(i - 1) : <<d.account[1], d.account[2], d.asset>>[j]
                                                 = <<e.account[1], e.account[2], e.asset>>[j]
  BY DEF DebitBefore
<1> DEFINE k == <<d.account[1], d.account[2], d.asset>>
           l == <<e.account[1], e.account[2], e.asset>>
<1>3. ASSUME NEW i \in 1..3
      PROVE  (\A j \in 1..(i - 1) : k[j] = l[j]) <=>
                (i > 1 => k[1] = l[1]) /\ (i > 2 => k[2] = l[2])
  <2>1. i = 1 \/ i = 2 \/ i = 3
    OBVIOUS
  <2> HIDE DEF k, l
  <2>2. 1..(1 - 1) = {} /\ 1..(2 - 1) = {1} /\ 1..(3 - 1) = {1, 2}
    OBVIOUS
  <2> QED
    BY <2>1, <2>2
<1>4. 1..3 = {1, 2, 3}
  OBVIOUS
<1>5. DebitBefore(d, e) <=>
        \/ k[1] < l[1]
        \/ k[1] = l[1] /\ k[2] < l[2]
        \/ k[1] = l[1] /\ k[2] = l[2] /\ k[3] < l[3]
  <2> HIDE DEF k, l
  <2>1. DebitBefore(d, e) <=>
          \E i \in {1, 2, 3} : k[i] < l[i] /\ (i > 1 => k[1] = l[1]) /\ (i > 2 => k[2] = l[2])
    BY <1>2, <1>3, <1>4 DEF k, l
  <2> DEFINE P(i) == k[i] < l[i] /\ (i > 1 => k[1] = l[1]) /\ (i > 2 => k[2] = l[2])
  <2>2. DebitBefore(d, e) <=> P(1) \/ P(2) \/ P(3)
    BY <2>1
  <2>3. /\ P(1) <=> k[1] < l[1]
        /\ P(2) <=> k[2] < l[2] /\ k[1] = l[1]
        /\ P(3) <=> k[3] < l[3] /\ k[1] = l[1] /\ k[2] = l[2]
    OBVIOUS
  <2> HIDE DEF P
  <2> QED
    BY <2>2, <2>3
<1>6. /\ k[1] = d.account[1] /\ k[2] = d.account[2] /\ k[3] = d.asset
      /\ l[1] = e.account[1] /\ l[2] = e.account[2] /\ l[3] = e.asset
  OBVIOUS
<1> HIDE DEF k, l
<1> QED
  BY <1>1, <1>5, <1>6

\* The debits ds are the positive nets of the movements, one for each key.
DebitsNet(ms, ds) ==
    /\ \A d \in ToSet(ds) : /\ d.amount = NetDebit(ms, d.account, d.asset)
                           /\ \E m \in ToSet(ms) : m.from = d.account
    /\ \A i, j \in DOMAIN ds : i # j => ds[i].account # ds[j].account \/ ds[i].asset # ds[j].asset
    /\ \A m \in ToSet(ms) : NetDebit(ms, m.from, m.asset) > 0 =>
          \E d \in ToSet(ds) : d.account = m.from /\ d.asset = m.asset

\* Pass 1 drafts typed postings and debits.
LEMMA DraftFacts ==
    ASSUME NEW t, WellTyped(t)
    PROVE  /\ draft_movements(t).creates \in Seq(Posting)
           /\ draft_movements(t).debits \in Seq({d \in Debit : d.amount > 0})
           /\ DebitsNet(t.movements, draft_movements(t).debits)
<1> DEFINE M == [from : Account, to : Account, asset : Asset, amount : Int]
           ms == t.movements
           N == [i \in DOMAIN ms |-> [account |-> ms[i].from, asset |-> ms[i].asset,
                                      amount |-> NetDebit(ms, ms[i].from, ms[i].asset)]]
           Nets == {[account |-> m.from, asset |-> m.asset,
                     amount |-> NetDebit(ms, m.from, m.asset)] : m \in ToSet(ms)}
           D == {d \in Nets : d.amount > 0}
           creates == [i \in DOMAIN ms |-> NewPosting(ms[i].to, ms[i].asset, ms[i].amount)]
<1>1. ms \in Seq(M)
  BY DEF WellTyped
<1>2. /\ Len(ms) \in Nat /\ DOMAIN ms = 1..Len(ms) /\ \A i \in DOMAIN ms : ms[i] \in M
  <2> HIDE DEF M, ms
  <2> QED
    BY <1>1
<1>3. creates \in Seq(Posting)
  <2>1. ASSUME NEW i \in DOMAIN ms
        PROVE  NewPosting(ms[i].to, ms[i].asset, ms[i].amount) \in Posting
    BY <1>2 DEF NewPosting, Posting
  <2>2. creates \in [1..Len(ms) -> Posting]
    BY <1>2, <2>1
  <2> HIDE DEF creates, ms
  <2> QED
    BY <1>2, <2>2, FunctionIsSeq
<1>4. /\ D \subseteq {d \in Debit : d.amount > 0}
      /\ \A d, e \in D : d.account = e.account /\ d.asset = e.asset => d = e
      /\ \A d \in D : d.amount = NetDebit(ms, d.account, d.asset)
  <2>1. ASSUME NEW d \in Nets
        PROVE  d \in Debit /\ d = [account |-> d.account, asset |-> d.asset,
                                   amount |-> NetDebit(ms, d.account, d.asset)]
    <3>1. PICK m \in ToSet(ms) : d = [account |-> m.from, asset |-> m.asset,
                                      amount |-> NetDebit(ms, m.from, m.asset)]
      OBVIOUS
    <3>2. m \in M
      BY <1>2 DEF ToSet
    <3>3. NetDebit(ms, m.from, m.asset) \in Int
      BY <1>1, NetDebitType
    <3> QED
      BY <3>1, <3>2, <3>3 DEF Debit
  <2> HIDE DEF Nets
  <2> QED
    BY <2>1
<1>5. IsFiniteSet(D)
  <2>1. N \in Surjection(DOMAIN ms, ToSet(N))
    BY DEF Surjection, ToSet
  <2>2. IsFiniteSet(DOMAIN ms)
    BY <1>2, FS_Interval
  <2>3. IsFiniteSet(ToSet(N))
    BY <2>1, <2>2, FS_Surjection
  <2>4. D \in SUBSET ToSet(N)
    BY DEF ToSet
  <2> HIDE DEF D, N
  <2> QED
    BY <2>3, <2>4, FS_Subset
<1> DEFINE R == {de \in D \X D : DebitBefore(de[1], de[2])}
<1>6. Orders(R, D)
  <2> HIDE DEF D
  <2>1. \A d, e \in D : <<d, e>> \in R <=> DebitBefore(d, e)
    OBVIOUS
  <2> HIDE DEF R
  <2> QED
    BY <1>4, <2>1, DebitOrder DEF Orders
<1>7. /\ SortedSeq(D, DebitBefore) \in [1..Cardinality(D) -> D]
      /\ \A i \in 1..Cardinality(D) :
            Cardinality(Below(R, D, SortedSeq(D, DebitBefore)[i])) = i - 1
  <2> HIDE DEF D
  <2>1. \A x \in D : {y \in D : DebitBefore(y, x)} = Below(R, D, x)
    BY DEF Below
  <2> HIDE DEF R
  <2>2. \A i \in 1..Cardinality(D) :
            \E x \in D : Cardinality({y \in D : DebitBefore(y, x)}) = i - 1
    <3>1. \A i \in 1..Cardinality(D) : \E x \in D : Cardinality(Below(R, D, x)) = i - 1
      BY <1>5, <1>6, PlacesTaken
    <3> QED
      BY <2>1, <3>1
  <2> QED
    BY <2>1, <2>2 DEF SortedSeq
<1>8. LET ds == SortedSeq(D, DebitBefore)
      IN /\ ds \in Seq(D) /\ ToSet(ds) = D
         /\ \A i, j \in DOMAIN ds : i < j => <<ds[i], ds[j]>> \in R /\ ds[i] # ds[j]
  <2> HIDE DEF D, R
  <2>1. PICK ds : ds = SortedSeq(D, DebitBefore)
    OBVIOUS
  <2>2. /\ ds \in [1..Cardinality(D) -> D]
        /\ \A i \in 1..Cardinality(D) : Cardinality(Below(R, D, ds[i])) = i - 1
    BY <1>7, <2>1
  <2>3. /\ ds \in Seq(D) /\ ToSet(ds) = D
        /\ \A i, j \in DOMAIN ds : i < j => <<ds[i], ds[j]>> \in R /\ ds[i] # ds[j]
    <3>1. ds \in Seq(D) /\ ToSet(ds) = D /\ Ascends(ds, R)
      BY <1>5, <1>6, <2>2, SortedFacts, Zenon
    <3> QED
      BY <3>1 DEF Ascends
  <2> QED
    BY <2>1, <2>3
<1>9. draft_movements(t).creates = creates /\ draft_movements(t).debits = SortedSeq(D, DebitBefore)
  BY DEF draft_movements
<1>10. \A m \in ToSet(ms) : NetDebit(ms, m.from, m.asset) > 0 =>
           \E d \in D : d.account = m.from /\ d.asset = m.asset
  <2> SUFFICES ASSUME NEW m \in ToSet(ms), NetDebit(ms, m.from, m.asset) > 0
               PROVE  \E d \in D : d.account = m.from /\ d.asset = m.asset
    OBVIOUS
  <2>1. PICK d : d = [account |-> m.from, asset |-> m.asset,
                      amount |-> NetDebit(ms, m.from, m.asset)]
    OBVIOUS
  <2>2. d \in Nets /\ d.amount = NetDebit(ms, m.from, m.asset) /\ d.account = m.from /\ d.asset = m.asset
    BY <2>1
  <2> QED
    BY <2>2
<1>a. \A d \in D : \E m \in ToSet(ms) : m.from = d.account
  <2> SUFFICES ASSUME NEW d \in D PROVE \E m \in ToSet(ms) : m.from = d.account
    OBVIOUS
  <2>1. PICK m \in ToSet(ms) : d = [account |-> m.from, asset |-> m.asset,
                                   amount |-> NetDebit(ms, m.from, m.asset)]
    OBVIOUS
  <2>2. m.from = d.account
    BY <2>1
  <2> QED
    BY <2>2
<1> DEFINE ds == SortedSeq(D, DebitBefore)
<1> HIDE DEF creates, D, R
<1>11. /\ ds \in Seq(D) /\ ToSet(ds) = D
       /\ \A i, j \in DOMAIN ds : i < j => ds[i] # ds[j]
  BY <1>8
<1>12. draft_movements(t).debits = ds
  BY <1>9
<1> HIDE DEF ds
<1>13. DOMAIN ds = 1..Len(ds) /\ Len(ds) \in Nat /\ \A i \in DOMAIN ds : ds[i] \in D
  BY <1>11
<1>14. \A i, j \in DOMAIN ds : i # j => ds[i].account # ds[j].account \/ ds[i].asset # ds[j].asset
  <2>1. ASSUME NEW i \in DOMAIN ds, NEW j \in DOMAIN ds, i # j PROVE ds[i] # ds[j]
    <3>1. i < j \/ j < i
      BY <1>13, <2>1
    <3> QED
      BY <1>11, <2>1, <3>1
  <2> QED
    BY <1>4, <1>13, <2>1
<1>15. ds \in Seq({d \in Debit : d.amount > 0})
  BY <1>4, <1>11, SeqMonotonic
<1>16. DebitsNet(ms, ds)
  BY <1>4, <1>10, <1>11, <1>14, <1>a DEF DebitsNet
<1> QED
  BY <1>3, <1>9, <1>12, <1>15, <1>16

\* Postings to spend: a finite table of integer values.
Spendable(available) == HasValues(available, DOMAIN available)

\* LargestFirst lists the positive postings, each once.
LEMMA LargestFirstFacts ==
    ASSUME NEW available, Spendable(available)
    PROVE  /\ LargestFirst(available) \in Seq(Positive(available))
           /\ ToSet(LargestFirst(available)) = Positive(available)
           /\ IsFiniteSet(Positive(available)) /\ HasValues(available, Positive(available))
           /\ IsInjective(LargestFirst(available))
           /\ \A i, j \in DOMAIN LargestFirst(available) : i < j =>
                 available[LargestFirst(available)[i]].value
                 >= available[LargestFirst(available)[j]].value
<1> DEFINE P == Positive(available)
           v(x) == available[x].value
           place(x) == Place(available, x)
           before(x, y) == \/ v(x) > v(y)
                           \/ v(x) = v(y) /\ place(x) < place(y)
           R == {xy \in P \X P : before(xy[1], xy[2])}
<1>1. /\ IsFiniteSet(P) /\ \A x \in P : v(x) \in Int
  <2>1. P \in SUBSET DOMAIN available
    BY DEF Positive
  <2> QED
    BY <2>1, FS_Subset DEF Spendable, HasValues
<1>2. /\ \A x \in P : place(x) \in Int
      /\ \A x, y \in P : place(x) = place(y) => x = y
  <2> DEFINE listed == SetToSeq(P)
  <2>1. ToSet(listed) = P /\ listed \in Seq(P)
    BY <1>1, SetToSeqFacts
  <2>2. \A x : place(x) = CHOOSE i \in DOMAIN listed : listed[i] = x
    BY DEF Place
  <2> HIDE DEF listed, place, P
  <2>3. \A x \in P : \E i \in DOMAIN listed : listed[i] = x
    BY <2>1 DEF ToSet
  <2>4. \A x \in P : place(x) \in DOMAIN listed /\ listed[place(x)] = x
    BY <2>2, <2>3
  <2> QED
    BY <2>1, <2>4
<1>3. \A x, y \in P : <<x, y>> \in R <=> before(x, y)
  <2> HIDE DEF P, before
  <2> QED
    OBVIOUS
<1>4. Orders(R, P)
  <2> HIDE DEF P, R, place, v
  <2> QED
    BY <1>1, <1>2, <1>3 DEF Orders
<1>5. LargestFirst(available)
        = [i \in 1..Cardinality(P) |->
              CHOOSE x \in P : Cardinality({y \in P : before(y, x)}) = i - 1]
  BY DEF LargestFirst, SortedSeq
<1> HIDE DEF P, before, v
<1>6. \A x \in P : {y \in P : before(y, x)} = Below(R, P, x)
  BY <1>3 DEF Below
<1>7. \A i \in 1..Cardinality(P) : \E x \in P : Cardinality({y \in P : before(y, x)}) = i - 1
  <2> HIDE DEF R
  <2>1. \A i \in 1..Cardinality(P) : \E x \in P : Cardinality(Below(R, P, x)) = i - 1
    BY <1>1, <1>4, PlacesTaken
  <2> QED
    BY <1>6, <2>1
<1> HIDE DEF R
<1>8. /\ LargestFirst(available) \in [1..Cardinality(P) -> P]
      /\ \A i \in 1..Cardinality(P) : Cardinality(Below(R, P, LargestFirst(available)[i])) = i - 1
  BY <1>5, <1>6, <1>7
<1> DEFINE c == LargestFirst(available)
<1>a. /\ c \in [1..Cardinality(P) -> P]
      /\ \A i \in 1..Cardinality(P) : Cardinality(Below(R, P, c[i])) = i - 1
  BY <1>8
<1> HIDE DEF c
<1>9. /\ c \in Seq(P) /\ ToSet(c) = P
      /\ \A i, j \in DOMAIN c : i < j => <<c[i], c[j]>> \in R /\ c[i] # c[j]
  <2>1. IsFiniteSet(P)
    BY <1>1
  <2>2. c \in Seq(P) /\ ToSet(c) = P /\ Ascends(c, R)
    BY <2>1, <1>4, <1>a, SortedFacts, Zenon
  <2> QED
    BY <2>2 DEF Ascends
<1>10. DOMAIN c = 1..Len(c) /\ Len(c) \in Nat /\ \A i \in DOMAIN c : c[i] \in P
  BY <1>9
<1>11. IsInjective(c)
  <2>1. ASSUME NEW i \in DOMAIN c, NEW j \in DOMAIN c, c[i] = c[j] PROVE i = j
    <3>1. i \in Nat /\ j \in Nat
      BY <1>10
    <3>2. ~(i < j) /\ ~(j < i)
      BY <1>9, <2>1
    <3> QED
      BY <3>1, <3>2
  <2> QED
    BY <2>1 DEF IsInjective
<1>12. \A i, j \in DOMAIN c : i < j => v(c[i]) >= v(c[j])
  <2>1. \A x, y \in P : before(x, y) => v(x) >= v(y)
    <3> HIDE DEF place
    <3> QED
      BY <1>1 DEF before
  <2>2. \A i, j \in DOMAIN c : i < j => before(c[i], c[j])
    BY <1>3, <1>9, <1>10
  <2> QED
    BY <1>10, <2>1, <2>2
<1> QED
  BY <1>1, <1>9, <1>11, <1>12 DEF P, v, HasValues, c

\* The selection is a prefix of the candidates, when they are enough.
LEMMA SelectFacts ==
    ASSUME NEW available, Spendable(available), NEW amount \in Int, amount > 0,
           SumValues(available, Positive(available)) >= amount
    PROVE  /\ SelectPostings(available, amount) \in Seq(Positive(available))
           /\ IsInjective(SelectPostings(available, amount))
           /\ \E n \in 1..Len(LargestFirst(available)) :
                 LET c == LargestFirst(available)
                 IN /\ DOMAIN SelectPostings(available, amount) = 1..n
                    /\ ToSet(SelectPostings(available, amount)) = {c[i] : i \in 1..n}
                    /\ SumValues(available, {c[i] : i \in 1..n}) >= amount
                    /\ \A k \in 1..(n - 1) : ~(SumValues(available, {c[i] : i \in 1..k}) >= amount)
<1> DEFINE P == Positive(available)
           c == LargestFirst(available)
           Covered(k) == SumValues(available, {c[i] : i \in 1..k}) >= amount
           K == {k \in 1..Len(c) : Covered(k)}
           n == CHOOSE k \in 1..Len(c) : Covered(k) /\ \A j \in 1..(k - 1) : ~Covered(j)
<1>1. c \in Seq(P) /\ ToSet(c) = P /\ HasValues(available, P) /\ IsInjective(c)
  BY LargestFirstFacts
<1>2. SelectPostings(available, amount) = SubSeq(c, 1, n)
  BY DEF SelectPostings
<1> HIDE DEF P, c
<1>3. Len(c) \in Nat /\ DOMAIN c = 1..Len(c)
  BY <1>1
<1>4. Len(c) \in K
  <2>1. {c[i] : i \in 1..Len(c)} = P
    BY <1>1, <1>3 DEF ToSet
  <2>2. P # {}
    <3>1. SumValues(available, {}) = 0
      BY <1>1, ValuesType
    <3> QED
      BY <3>1 DEF P
  <2>3. Len(c) \in 1..Len(c)
    BY <1>3, <2>1, <2>2
  <2>4. Covered(Len(c))
    BY <2>1 DEF P
  <2> QED
    BY <2>3, <2>4
<1>5. n \in 1..Len(c) /\ Covered(n) /\ \A j \in 1..(n - 1) : ~Covered(j)
  <2> HIDE DEF Covered
  <2>1. K \subseteq Nat /\ K # {}
    <3>1. K \subseteq 1..Len(c)
      OBVIOUS
    <3>2. K # {}
      <4> HIDE DEF K
      <4> QED
        BY <1>4
    <3> QED
      BY <1>3, <3>1, <3>2
  <2>2. PICK k \in K : \A m \in K : k <= m
    <3> HIDE DEF K
    <3> QED
      BY <2>1, LeastNatural
  <2>3. \A j \in 1..(k - 1) : ~Covered(j)
    BY <1>3, <2>2
  <2> QED
    BY <2>2, <2>3
<1> HIDE DEF n, Covered
<1> DEFINE s == SubSeq(c, 1, n)
<1>6. /\ s \in Seq(P) /\ DOMAIN s = 1..n /\ 1..n \subseteq DOMAIN c
      /\ \A i \in 1..n : s[i] = c[i]
  BY <1>1, <1>3, <1>5
<1>7. SelectPostings(available, amount) = s
  BY <1>2
<1> HIDE DEF s
<1>8. IsInjective(s)
  BY <1>1, <1>6 DEF IsInjective
<1>9. ToSet(s) = {c[i] : i \in 1..n}
  BY <1>6 DEF ToSet
<1> QED
  BY <1>5, <1>6, <1>7, <1>8, <1>9 DEF P, c, Covered

\* Selection spends as few postings as any choice that covers the amount: each posting
\* of the choice that is not among the first ones is at most the last one selected.
LEMMA SelectsFewest ==
    ASSUME NEW available, Spendable(available), NEW amount \in Int, amount > 0,
           NEW choice \in SUBSET DOMAIN available, SumValues(available, choice) >= amount
    PROVE  /\ SumValues(available, Positive(available)) >= amount
           /\ Cardinality(ToSet(SelectPostings(available, amount))) <= Cardinality(choice)
<1> DEFINE P == Positive(available)
           c == LargestFirst(available)
           D == DOMAIN available
           v == [x \in D |-> available[x].value]
<1>1. /\ IsFiniteSet(D) /\ \A x \in D : v[x] \in Int
      /\ \A x : x \in P <=> x \in D /\ v[x] > 0
  BY DEF Spendable, HasValues, Positive
<1>2. /\ c \in Seq(P) /\ ToSet(c) = P /\ IsInjective(c)
      /\ \A i, j \in DOMAIN c : i < j => available[c[i]].value >= available[c[j]].value
  BY LargestFirstFacts
<1>3. \A T \in SUBSET D : /\ IsFiniteSet(T) /\ SumValues(available, T) = SumOf(v, T)
                          /\ SumOf(v, T) \in Int /\ Cardinality(T) \in Nat
  <2> SUFFICES ASSUME NEW T \in SUBSET D
               PROVE  /\ IsFiniteSet(T) /\ SumValues(available, T) = SumOf(v, T)
                      /\ SumOf(v, T) \in Int /\ Cardinality(T) \in Nat
    OBVIOUS
  <2>1. IsFiniteSet(T)
    BY <1>1, FS_Subset
  <2>2. SumValues(available, T) = SumOf([x \in T |-> available[x].value], T)
    BY <2>1, SumValuesIs
  <2>3. \A x \in T : v[x] = [y \in T |-> available[y].value][x]
    OBVIOUS
  <2>4. SumOf(v, T) = SumOf([x \in T |-> available[x].value], T)
    <3> HIDE DEF v
    <3> QED
      BY <2>1, <2>3, SumSame
  <2>5. SumOf(v, T) \in Int
    <3> HIDE DEF v
    <3> QED
      BY <1>1, <2>1, SumType
  <2> QED
    BY <2>1, <2>2, <2>4, <2>5, FS_CardinalityType
<1>4. P \in SUBSET D /\ \A i \in DOMAIN c : c[i] \in P /\ c[i] \in D
  <2>1. P \in SUBSET D
    BY DEF Positive
  <2> HIDE DEF P, c, D
  <2> QED
    BY <1>2, <2>1
<1>5. \A i, j \in DOMAIN c : i < j => v[c[i]] >= v[c[j]]
  BY <1>2, <1>4
<1>6. SumOf(v, choice) >= amount
  BY <1>3
<1> HIDE DEF v, P, c, D
\* A sum of two parts.
<1>7. \A A, B \in SUBSET D : A \cap B = {} => SumOf(v, A \cup B) = SumOf(v, A) + SumOf(v, B)
  <2> SUFFICES ASSUME NEW A \in SUBSET D, NEW B \in SUBSET D, A \cap B = {}
               PROVE  SumOf(v, A \cup B) = SumOf(v, A) + SumOf(v, B)
    OBVIOUS
  <2> QED
    BY <1>1, <1>3, SumDisjoint
<1>8. SumOf(v, P) >= amount
  <2> DEFINE G == choice \cap P
             N == choice \ P
             O == P \ choice
  <2>1. /\ G \in SUBSET D /\ N \in SUBSET D /\ O \in SUBSET D
        /\ G \cap N = {} /\ G \cup N = choice /\ G \cap O = {} /\ G \cup O = P
    BY <1>4 DEF D
  <2>2. (\A x \in N : v[x] <= 0) /\ (\A x \in O : v[x] >= 0)
    BY <1>1, <2>1
  <2> HIDE DEF G, N, O
  <2>3. SumOf(v, choice) = SumOf(v, G) + SumOf(v, N) /\ SumOf(v, P) = SumOf(v, G) + SumOf(v, O)
    BY <1>7, <2>1
  <2>4. SumOf(v, N) <= Cardinality(N) * 0 /\ SumOf(v, O) >= Cardinality(O) * 0
    <3>1. IsFiniteSet(N) /\ IsFiniteSet(O) /\ (\A x \in N : v[x] \in Int) /\ (\A x \in O : v[x] \in Int)
      BY <1>1, <1>3, <2>1
    <3> QED
      BY <2>2, <3>1, SumBound
  <2>5. SumOf(v, N) <= 0 /\ SumOf(v, O) >= 0
    BY <1>3, <2>1, <2>4
  <2> QED
    BY <1>3, <1>6, <2>1, <2>3, <2>5
<1>9. SumValues(available, P) >= amount
  BY <1>3, <1>4, <1>8
<1>10. PICK n \in 1..Len(c) :
          /\ ToSet(SelectPostings(available, amount)) = {c[i] : i \in 1..n}
          /\ \A k \in 1..(n - 1) : ~(SumValues(available, {c[i] : i \in 1..k}) >= amount)
  BY <1>9, SelectFacts DEF P, c
<1>11. DOMAIN c = 1..Len(c) /\ Len(c) \in Nat /\ n \in Nat /\ n \in DOMAIN c
  BY <1>2
<1> DEFINE F == {c[i] : i \in 1..(n - 1)}
           b == v[c[n]]
<1>12. /\ F \in SUBSET D /\ F \in SUBSET P
       /\ b \in Int /\ b > 0
       /\ \A x \in F : v[x] >= b
       /\ \A x \in D \ F : v[x] <= b
  <2>1. F \in SUBSET P
    BY <1>4, <1>11
  <2>2. b \in Int /\ b > 0
    BY <1>1, <1>4, <1>11
  <2>3. ASSUME NEW x \in F PROVE v[x] >= b
    <3>1. PICK i \in 1..(n - 1) : x = c[i]
      OBVIOUS
    <3>2. i \in DOMAIN c /\ i < n
      BY <1>11
    <3> QED
      BY <1>5, <1>11, <3>1, <3>2
  <2>4. ASSUME NEW x \in D \ F PROVE v[x] <= b
    <3>1. CASE x \notin P
      BY <1>1, <2>2, <3>1
    <3>2. CASE x \in P
      <4>1. PICK j \in DOMAIN c : x = c[j]
        BY <1>2, <3>2 DEF ToSet
      <4>2. j \notin 1..(n - 1)
        BY <4>1
      <4>3. j = n \/ n < j
        BY <1>11, <4>2
      <4> HIDE DEF F
      <4>4. CASE j = n
        BY <2>2, <4>1, <4>4
      <4>5. CASE n < j
        BY <1>5, <1>11, <4>1, <4>5
      <4> QED
        BY <4>3, <4>4, <4>5
    <3> QED
      BY <3>1, <3>2
  <2> HIDE DEF F, b
  <2> QED
    BY <1>4, <2>1, <2>2, <2>3, <2>4
<1>13. SumOf(v, F) < amount
  <2>1. CASE n = 1
    <3>1. F = {}
      BY <2>1
    <3> QED
      BY <3>1, SumEmpty
  <2>2. CASE n # 1
    <3>1. n - 1 \in 1..(n - 1)
      BY <1>11, <2>2
    <3>2. ~(SumValues(available, F) >= amount)
      BY <1>10, <3>1
    <3> HIDE DEF F
    <3> QED
      BY <1>3, <1>12, <3>2
  <2> QED
    BY <2>1, <2>2
\* The places of the selection.
<1>14. Cardinality(F) = n - 1 /\ Cardinality(ToSet(SelectPostings(available, amount))) = n
  <2>1. ASSUME NEW k \in Nat, 1..k \subseteq DOMAIN c PROVE Cardinality({c[i] : i \in 1..k}) = k
    <3> DEFINE h == [i \in 1..k |-> c[i]]
               T == {c[i] : i \in 1..k}
    <3>1. h \in Bijection(1..k, T)
      <4>1. \A i, j \in 1..k : h[i] = h[j] => i = j
        BY <1>2, <2>1 DEF IsInjective
      <4> QED
        BY <4>1 DEF Bijection, Injection, Surjection, IsInjective
    <3>2. IsFiniteSet(1..k) /\ Cardinality(1..k) = k
      BY FS_Interval
    <3> HIDE DEF h, T
    <3>3. Cardinality(T) = Cardinality(1..k)
      BY <3>1, <3>2, FS_Bijection DEF ExistsBijection
    <3> QED
      BY <3>2, <3>3 DEF T
  <2>2. n - 1 \in Nat /\ 1..(n - 1) \subseteq DOMAIN c /\ 1..n \subseteq DOMAIN c
    BY <1>11
  <2> QED
    BY <1>10, <1>11, <2>1, <2>2
<1> HIDE DEF F, b
<1>15. ~(Cardinality(choice) <= n - 1)
  <2> SUFFICES ASSUME Cardinality(choice) <= n - 1 PROVE FALSE
    OBVIOUS
  <2> DEFINE G == choice \cap F
             A == choice \ F
             B == F \ choice
  <2>1. /\ G \in SUBSET D /\ A \in SUBSET D /\ B \in SUBSET D
        /\ G \cap A = {} /\ G \cup A = choice /\ G \cap B = {} /\ G \cup B = F
    BY <1>12 DEF D
  <2>2. (\A x \in A : v[x] <= b) /\ (\A x \in B : v[x] >= b)
    BY <1>12, <2>1
  <2> HIDE DEF G, A, B
  <2>3. SumOf(v, choice) = SumOf(v, G) + SumOf(v, A) /\ SumOf(v, F) = SumOf(v, G) + SumOf(v, B)
    BY <1>7, <2>1
  <2>4. IsFiniteSet(A) /\ IsFiniteSet(B) /\ IsFiniteSet(G)
        /\ (\A x \in A : v[x] \in Int) /\ (\A x \in B : v[x] \in Int)
    BY <1>1, <1>3, <2>1
  <2>5. SumOf(v, A) <= Cardinality(A) * b /\ SumOf(v, B) >= Cardinality(B) * b
    BY <1>12, <2>2, <2>4, SumBound
  <2>6. Cardinality(choice) = Cardinality(G) + Cardinality(A) /\ Cardinality(F) = Cardinality(G) + Cardinality(B)
    <3>1. \A X, Y : IsFiniteSet(X) /\ IsFiniteSet(Y) /\ X \cap Y = {} =>
                        Cardinality(X \cup Y) = Cardinality(X) + Cardinality(Y)
      <4> SUFFICES ASSUME NEW X, NEW Y, IsFiniteSet(X), IsFiniteSet(Y), X \cap Y = {}
                   PROVE  Cardinality(X \cup Y) = Cardinality(X) + Cardinality(Y)
        OBVIOUS
      <4>1. Cardinality(X \cup Y) = Cardinality(X) + Cardinality(Y) - Cardinality(X \cap Y)
        BY FS_Union
      <4>2. Cardinality(X \cap Y) = 0 /\ Cardinality(X) \in Nat /\ Cardinality(Y) \in Nat
        BY FS_EmptySet, FS_CardinalityType
      <4> QED
        BY <4>1, <4>2
    <3> QED
      BY <2>1, <2>4, <3>1
  <2>7. Cardinality(A) \in Nat /\ Cardinality(B) \in Nat /\ Cardinality(G) \in Nat
    BY <1>3, <2>1
  <2>8. Cardinality(A) <= Cardinality(B)
    BY <1>14, <2>6, <2>7
  <2>9. Cardinality(A) * b <= Cardinality(B) * b
    <3>1. PICK x \in Nat : x = Cardinality(A)
      BY <2>7
    <3>2. PICK z \in Nat : x + z = Cardinality(B)
      <4>1. Cardinality(B) - x \in Nat /\ x + (Cardinality(B) - x) = Cardinality(B)
        BY <2>7, <2>8, <3>1
      <4> QED
        BY <4>1
    <3>3. z * b >= 0
      BY <1>12
    <3>4. (x + z) * b = x * b + z * b
      BY <1>12
    <3>5. x * b \in Int /\ z * b \in Int
      BY <1>12
    <3> QED
      BY <3>1, <3>2, <3>3, <3>4, <3>5
  <2>10. Cardinality(A) * b \in Int /\ Cardinality(B) * b \in Int
    BY <1>12, <2>7
  <2>11. SumOf(v, A) <= SumOf(v, B)
    BY <1>3, <2>1, <2>5, <2>9, <2>10
  <2>12. SumOf(v, choice) <= SumOf(v, F)
    BY <1>3, <2>1, <2>3, <2>11
  <2> QED
    BY <1>3, <1>6, <1>12, <1>13, <2>12 DEF D
<1>16. Cardinality(choice) \in Nat
  BY <1>3 DEF D
<1> QED
  BY <1>9, <1>11, <1>14, <1>15, <1>16 DEF P

\* Covering a debit spends postings that are there, and leaves one posting at most.
LEMMA CoverFacts ==
    ASSUME NEW d \in Debit, d.amount > 0, NEW available, Spendable(available)
    PROVE  /\ Cover(d, available).consumes \in Seq(DOMAIN available)
           /\ Cover(d, available).creates \in Seq(Posting)
           /\ IsInjective(Cover(d, available).consumes)
           /\ ToSet(Cover(d, available).consumes) \subseteq Positive(available)
           /\ LET rest == SumValues(available, ToSet(Cover(d, available).consumes)) - d.amount
              IN /\ rest \in Int
                 /\ Cover(d, available).creates =
                       IF rest = 0 THEN <<>> ELSE <<NewPosting(d.account, d.asset, rest)>>
                 /\ SumValues(available, Positive(available)) >= d.amount => rest >= 0
<1> DEFINE P == Positive(available)
           spends == IF SumValues(available, P) >= d.amount
                       THEN SelectPostings(available, d.amount) ELSE SetToSeq(P)
           rest == SumValues(available, ToSet(spends)) - d.amount
<1>1. d.amount \in Int /\ d.account \in Account /\ d.asset \in Asset
  BY DEF Debit
<1>2. IsFiniteSet(P) /\ HasValues(available, P) /\ P \subseteq DOMAIN available
  BY LargestFirstFacts DEF Positive
<1>3. /\ spends \in Seq(P) /\ IsInjective(spends)
      /\ SumValues(available, P) >= d.amount => SumValues(available, ToSet(spends)) >= d.amount
  <2>1. CASE SumValues(available, P) >= d.amount
    <3>1. /\ SelectPostings(available, d.amount) \in Seq(P)
          /\ IsInjective(SelectPostings(available, d.amount))
          /\ SumValues(available, ToSet(SelectPostings(available, d.amount))) >= d.amount
      BY <1>1, <2>1, SelectFacts
    <3> QED
      BY <2>1, <3>1
  <2>2. CASE ~(SumValues(available, P) >= d.amount)
    <3>1. SetToSeq(P) \in Seq(P) /\ IsInjective(SetToSeq(P))
      BY <1>2, SetToSeqFacts DEF IsInjective
    <3> QED
      BY <2>2, <3>1
  <2> QED
    BY <2>1, <2>2
<1>4. /\ Cover(d, available).consumes = spends
      /\ Cover(d, available).creates = IF rest = 0 THEN <<>>
                                       ELSE <<NewPosting(d.account, d.asset, rest)>>
  BY DEF Cover
<1> HIDE DEF P, spends
<1>5. ToSet(spends) \in SUBSET P
  BY <1>3 DEF ToSet
<1>6. rest \in Int
  <2>1. HasValues(available, ToSet(spends))
    BY <1>2, <1>5, FS_Subset DEF HasValues
  <2> QED
    BY <1>1, <2>1, ValuesType
<1>7. NewPosting(d.account, d.asset, rest) \in Posting
  <2> HIDE DEF rest
  <2> QED
    BY <1>1, <1>6 DEF NewPosting, Posting
<1>8. spends \in Seq(DOMAIN available)
  BY <1>2, <1>3, SeqMonotonic
<1> QED
  <2> HIDE DEF rest
  <2>1. <<>> \in Seq(Posting) /\ <<NewPosting(d.account, d.asset, rest)>> \in Seq(Posting)
    BY <1>7
  <2>2. SumValues(available, P) >= d.amount => rest >= 0
    <3>1. SumValues(available, ToSet(spends)) \in Int
      <4>1. HasValues(available, ToSet(spends))
        BY <1>2, <1>5, FS_Subset DEF HasValues
      <4> QED
        BY <4>1, ValuesType
    <3> QED
      BY <1>1, <1>3, <3>1 DEF rest
  <2>3. rest = SumValues(available, ToSet(Cover(d, available).consumes)) - d.amount
    BY <1>4 DEF rest
  <2> QED
    BY <1>3, <1>4, <1>5, <1>6, <1>8, <2>1, <2>2, <2>3 DEF P

-----------------------------------------------------------------------------
(* What resolution moves. *)

\* The postings of a debit's key, among those of S.
KeyRows(table, S, d) ==
    [id \in {i \in S : table[i].owner = d.account /\ table[i].asset = d.asset} |-> table[id]]

\* S are finitely many postings.
PostingsIn(table, S) == IsFiniteSet(S) /\ \A id \in S : table[id] \in Posting

\* Those on one key.
OnKey(table, S, a, asset) == {id \in S : table[id].owner = a /\ table[id].asset = asset}

\* A posting's value on its own key.
KeyValue(a, asset) == [p \in Posting |-> IF p.owner = a /\ p.asset = asset THEN p.value ELSE 0]

LEMMA KeyValueType ==
    ASSUME NEW a, NEW asset
    PROVE  \A p \in Posting : /\ KeyValue(a, asset)[p] \in Int
                              /\ KeyValue(a, asset)[p]
                                   = IF p.owner = a /\ p.asset = asset THEN p.value ELSE 0
BY DEF KeyValue, Posting

\* The values w of the postings S.
TableValue(w, table, S) == [id \in S |-> w[table[id]]]

\* What covering the debits from the postings S spends, and what it leaves.
SpendsOf(table, S, ds) == [i \in DOMAIN ds |-> Cover(ds[i], KeyRows(table, S, ds[i])).consumes]
LeftOf(table, S, ds) == [i \in DOMAIN ds |-> Cover(ds[i], KeyRows(table, S, ds[i])).creates]

\* What a sequence of postings brings to a key.
LEMMA MaskedCreates ==
    ASSUME NEW s \in Seq(Posting), NEW a, NEW asset
    PROVE  /\ SeqSum(KeyValue(a, asset), s) = SumValues(s, OnKey(s, DOMAIN s, a, asset))
           /\ SeqSum(KeyValue(a, asset), s) \in Int
<1> DEFINE D == DOMAIN s
           T == {i \in D : s[i].owner = a /\ s[i].asset = asset}
           w == KeyValue(a, asset)
           v == [i \in T |-> s[i].value]
           u == [i \in D |-> w[s[i]]]
<1>1. D = 1..Len(s) /\ Len(s) \in Nat /\ \A i \in D : s[i] \in Posting
  OBVIOUS
<1>2. IsFiniteSet(D) /\ T \in SUBSET D
  BY <1>1, FS_Interval
<1>3. IsFiniteSet(T)
  BY <1>2, FS_Subset
<1>4. \A i \in D : u[i] = IF s[i].owner = a /\ s[i].asset = asset THEN s[i].value ELSE 0
  BY <1>1, KeyValueType
<1>5. \A i \in D : s[i].value \in Int
  BY <1>1 DEF Posting
<1>6. /\ \A i \in T : v[i] \in Int /\ u[i] = v[i]
      /\ \A i \in D \ T : u[i] = 0
  <2> HIDE DEF u
  <2> QED
    BY <1>4, <1>5
<1>7. SumValues(s, T) = SumOf(v, T)
  BY <1>3, SumValuesIs
<1>8. SeqSum(w, s) = SumOf(u, D)
  BY DEF SeqSum
<1> HIDE DEF T, u, v, D, w
<1>9. SumOf(u, D) = SumOf(v, T) /\ SumOf(v, T) \in Int
  BY <1>2, <1>3, <1>6, SumMask, SumType
<1> QED
  BY <1>7, <1>8, <1>9 DEF T, D, w, OnKey

\* What a set of postings has on a key.
LEMMA MaskedTable ==
    ASSUME NEW table, NEW S, PostingsIn(table, S), NEW T \in SUBSET S, NEW a, NEW asset
    PROVE  /\ SumOf(TableValue(KeyValue(a, asset), table, S), T)
                = SumValues(table, OnKey(table, T, a, asset))
           /\ \A id \in S : TableValue(KeyValue(a, asset), table, S)[id] \in Int
<1> DEFINE K == {id \in T : table[id].owner = a /\ table[id].asset = asset}
           u == [id \in S |-> KeyValue(a, asset)[table[id]]]
           v == [id \in K |-> table[id].value]
<1>1. IsFiniteSet(S) /\ \A id \in S : table[id] \in Posting
  BY DEF PostingsIn
<1>2. IsFiniteSet(T)
  BY <1>1, FS_Subset
<1>3. IsFiniteSet(K) /\ K \in SUBSET T
  BY <1>2, FS_Subset
<1>4. \A id \in S : /\ u[id] \in Int /\ table[id].value \in Int
                    /\ u[id] = IF table[id].owner = a /\ table[id].asset = asset
                                 THEN table[id].value ELSE 0
  BY <1>1, KeyValueType DEF Posting
<1>5. /\ \A id \in K : v[id] \in Int /\ u[id] = v[id]
      /\ \A id \in T \ K : u[id] = 0
  <2> HIDE DEF u
  <2> QED
    BY <1>4
<1>6. SumValues(table, K) = SumOf(v, K)
  BY <1>3, SumValuesIs
<1>7. SumOf(u, T) = SumOf(v, K)
  <2> HIDE DEF u, v, K
  <2> QED
    BY <1>2, <1>3, <1>5, SumMask
<1> QED
  BY <1>4, <1>6, <1>7 DEF TableValue, OnKey

LEMMA RowsFacts ==
    ASSUME NEW table, NEW S, PostingsIn(table, S), NEW d
    PROVE  /\ Spendable(KeyRows(table, S, d))
           /\ \A i : i \in DOMAIN KeyRows(table, S, d) <=>
                       i \in S /\ table[i].owner = d.account /\ table[i].asset = d.asset
           /\ \A id \in DOMAIN KeyRows(table, S, d) : KeyRows(table, S, d)[id] = table[id]
<1> DEFINE D == {i \in S : table[i].owner = d.account /\ table[i].asset = d.asset}
<1>1. DOMAIN KeyRows(table, S, d) = D /\ \A id \in D : KeyRows(table, S, d)[id] = table[id]
  BY DEF KeyRows
<1>2. D \in SUBSET S /\ IsFiniteSet(S) /\ \A id \in S : table[id].value \in Int
  BY DEF PostingsIn, Posting
<1>3. IsFiniteSet(D)
  BY <1>2, FS_Subset
<1>4. HasValues(KeyRows(table, S, d), D)
  <2> HIDE DEF D
  <2> QED
    BY <1>1, <1>2, <1>3 DEF HasValues
<1> QED
  BY <1>1, <1>4 DEF Spendable

\* What covering d does to a key, w and u being the values on it.
TakesDebit(c, d, w, u, a, asset) ==
    /\ SeqSum(w, c.creates) \in Int /\ SeqSum(u, c.consumes) \in Int
    /\ d.account = a /\ d.asset = asset =>
          SeqSum(w, c.creates) = SeqSum(u, c.consumes) - d.amount
    /\ ~(d.account = a /\ d.asset = asset) =>
          SeqSum(w, c.creates) = 0 /\ SeqSum(u, c.consumes) = 0

\* Covering a debit takes its amount from its own key, and nothing from others.
LEMMA CoverMoves ==
    ASSUME NEW d \in Debit, d.amount > 0, NEW table, NEW S, PostingsIn(table, S),
           NEW a, NEW asset
    PROVE  /\ Cover(d, KeyRows(table, S, d)).consumes \in Seq(S)
           /\ Cover(d, KeyRows(table, S, d)).creates \in Seq(Posting)
           /\ TakesDebit(Cover(d, KeyRows(table, S, d)), d, KeyValue(a, asset),
                         TableValue(KeyValue(a, asset), table, S), a, asset)
<1>a. PICK w : w = KeyValue(a, asset)
  OBVIOUS
<1>b. PICK u : u = TableValue(w, table, S)
  OBVIOUS
<1>c. PICK c : c = Cover(d, KeyRows(table, S, d))
  OBVIOUS
<1> SUFFICES /\ c.consumes \in Seq(S) /\ c.creates \in Seq(Posting)
             /\ SeqSum(w, c.creates) \in Int /\ SeqSum(u, c.consumes) \in Int
             /\ d.account = a /\ d.asset = asset =>
                   SeqSum(w, c.creates) = SeqSum(u, c.consumes) - d.amount
             /\ ~(d.account = a /\ d.asset = asset) =>
                   SeqSum(w, c.creates) = 0 /\ SeqSum(u, c.consumes) = 0
  BY <1>a, <1>b, <1>c DEF TakesDebit
<1>0. u = [id \in S |-> w[table[id]]]
  BY <1>b DEF TableValue
<1> DEFINE av == KeyRows(table, S, d)
           K == ToSet(c.consumes)
           rest == SumValues(av, K) - d.amount
<1>1. /\ Spendable(av)
      /\ \A i : i \in DOMAIN av <=> i \in S /\ table[i].owner = d.account /\ table[i].asset = d.asset
      /\ \A id \in DOMAIN av : av[id] = table[id]
  BY RowsFacts
<1> HIDE DEF av
<1>2. /\ c.consumes \in Seq(DOMAIN av) /\ c.creates \in Seq(Posting) /\ IsInjective(c.consumes)
      /\ rest \in Int
      /\ c.creates = IF rest = 0 THEN <<>> ELSE <<NewPosting(d.account, d.asset, rest)>>
  BY <1>1, <1>c, CoverFacts DEF av
<1>3. DOMAIN av \subseteq S /\ d.amount \in Int /\ d.account \in Account /\ d.asset \in Asset
  BY <1>1 DEF Debit
<1>4. c.consumes \in Seq(S)
  BY <1>2, <1>3, SeqMonotonic
<1>5. \A id \in S : u[id] \in Int
  <2>1. \A id \in S : table[id] \in Posting /\ u[id] = w[table[id]]
    BY <1>0 DEF PostingsIn
  <2> QED
    BY <2>1, <1>a, KeyValueType
<1>6. /\ K \in SUBSET DOMAIN av /\ K \in SUBSET S /\ IsFiniteSet(K)
      /\ SeqSum(u, c.consumes) = SumOf(u, K)
  <2>1. K \in SUBSET DOMAIN av /\ K \in SUBSET S
    BY <1>2, <1>3 DEF ToSet
  <2>2. SeqSum(u, c.consumes) = SumOf(u, K) /\ IsFiniteSet(K)
    BY <1>2, <1>4, <1>5, SeqSumOnce
  <2> QED
    BY <2>1, <2>2
<1>7. SeqSum(w, c.creates) \in Int
  BY <1>2, <1>a, MaskedCreates
<1>8. SeqSum(u, c.consumes) \in Int
  BY <1>4, <1>5, SeqSumType
<1> HIDE DEF K
<1>9. CASE d.account = a /\ d.asset = asset
  <2>1. SeqSum(u, c.consumes) = SumValues(av, K)
    <3>1. \A id \in K : u[id] = av[id].value
      <4>1. \A id \in K : id \in S /\ table[id] \in Posting /\ table[id].owner = a
                          /\ table[id].asset = asset /\ av[id] = table[id]
        BY <1>1, <1>6, <1>9 DEF PostingsIn
      <4>2. \A id \in K : u[id] = w[table[id]]
        BY <1>0, <1>6
      <4> QED
        BY <4>1, <4>2, <1>a, KeyValueType
    <3>2. SumValues(av, K) = SumOf([id \in K |-> av[id].value], K)
      BY <1>6, SumValuesIs
    <3>3. SumOf(u, K) = SumOf([id \in K |-> av[id].value], K)
      BY <1>6, <3>1, SumSame
    <3> QED
      BY <1>6, <3>2, <3>3
  <2>2. SeqSum(w, c.creates) = rest
    <3>1. CASE rest = 0
      <4>1. SeqSum(w, <<>>) = 0
        BY SumEmpty DEF SeqSum
      <4> QED
        BY <1>2, <3>1, <4>1
    <3>2. CASE rest # 0
      <4> DEFINE p == NewPosting(d.account, d.asset, rest)
      <4>1. p \in Posting /\ p.owner = a /\ p.asset = asset /\ p.value = rest
        <5> HIDE DEF rest
        <5> QED
          BY <1>2, <1>3, <1>9 DEF NewPosting, Posting
      <4>2. w[p] = rest
        <5> HIDE DEF p, rest
        <5> QED
          BY <4>1, <1>a, KeyValueType
      <4> HIDE DEF p
      <4>3. SeqSum(w, <<p>>) = w[p]
        <5> DEFINE v == [i \in DOMAIN <<p>> |-> w[<<p>>[i]]]
        <5>1. DOMAIN <<p>> = {1} /\ v[1] = w[p]
          OBVIOUS
        <5>0. SeqSum(w, <<p>>) = SumOf(v, {1})
          <6>1. SeqSum(w, <<p>>) = SumOf(v, DOMAIN <<p>>)
            BY DEF SeqSum
          <6> HIDE DEF v
          <6> QED
            BY <5>1, <6>1
        <5> HIDE DEF v
        <5>2. SumOf(v, {1}) = v[1] + SumOf(v, {1} \ {1})
          <6>1. IsFiniteSet({1}) /\ v[1] \in Int
            BY <1>2, <4>2, <5>1, FS_Singleton
          <6> QED
            BY <6>1, SumRemove
        <5>3. {1} \ {1} = {}
          OBVIOUS
        <5>4. SumOf(v, {}) = 0
          BY SumEmpty
        <5>5. v[1] \in Int
          BY <1>2, <4>2, <5>1
        <5>6. SumOf(v, {1}) = v[1]
          BY <5>2, <5>3, <5>4, <5>5
        <5> QED
          BY <5>0, <5>1, <5>6
      <4> QED
        BY <1>2, <3>2, <4>2, <4>3 DEF p
    <3> QED
      BY <3>1, <3>2
  <2> QED
    BY <1>2, <1>4, <1>7, <1>8, <1>9, <2>1, <2>2
<1>10. CASE ~(d.account = a /\ d.asset = asset)
  <2>1. SeqSum(u, c.consumes) = 0
    <3>1. \A i \in DOMAIN c.consumes : u[c.consumes[i]] = 0
      <4>1. \A i \in DOMAIN c.consumes : c.consumes[i] \in DOMAIN av
        BY <1>2
      <4>2. \A id \in DOMAIN av : u[id] = w[table[id]] /\ table[id] \in Posting
                                  /\ ~(table[id].owner = a /\ table[id].asset = asset)
        BY <1>0, <1>1, <1>10 DEF PostingsIn
      <4> QED
        BY <4>1, <4>2, <1>a, KeyValueType
    <3> QED
      BY <1>4, <3>1, SeqSumZero
  <2>2. SeqSum(w, c.creates) = 0
    <3>1. \A i \in DOMAIN c.creates : c.creates[i] \in Posting
                                      /\ ~(c.creates[i].owner = a /\ c.creates[i].asset = asset)
      <4> DEFINE p == NewPosting(d.account, d.asset, rest)
      <4>1. p.owner = d.account /\ p.asset = d.asset
        BY DEF NewPosting
      <4>2. \A i \in DOMAIN c.creates : c.creates[i] = p
        <5> HIDE DEF p, rest
        <5> QED
          BY <1>2 DEF p
      <4> HIDE DEF p
      <4> QED
        BY <1>2, <1>10, <4>1, <4>2
    <3>2. \A i \in DOMAIN c.creates : w[c.creates[i]] = 0
      BY <3>1, <1>a, KeyValueType
    <3> QED
      BY <1>2, <3>2, SeqSumZero
  <2> QED
    BY <1>2, <1>4, <1>7, <1>8, <1>10, <2>1, <2>2
<1> QED
  BY <1>9, <1>10

\* e is what resolution builds for t from the postings S.
ResolvedFrom(e, t, table, S) ==
    LET draft == draft_movements(t)
    IN e = resolve_envelope(t, draft, [i \in DOMAIN draft.debits |-> KeyRows(table, S, draft.debits[i])])

\* The parts of a resolved envelope: a credit for each movement, then, debit by debit, what
\* is spent and what is left.
Parts(e, ms, S, ds, credits, spends, left) ==
    /\ credits \in Seq(Posting) /\ DOMAIN credits = DOMAIN ms
    /\ \A i \in DOMAIN credits : credits[i] = NewPosting(ms[i].to, ms[i].asset, ms[i].amount)
    /\ DOMAIN ds = 1..Len(ds) /\ Len(ds) \in Nat
    /\ \A i \in DOMAIN ds : ds[i] \in Debit /\ ds[i].amount > 0
    /\ spends \in Seq(Seq(S)) /\ DOMAIN spends = DOMAIN ds
    /\ left \in Seq(Seq(Posting)) /\ DOMAIN left = DOMAIN ds
    /\ e.consumes = FlattenSeq(spends) /\ e.creates = credits \o FlattenSeq(left)
    /\ e.account_snapshots = <<>>
    /\ e.consumes \in Seq(S) /\ e.creates \in Seq(Posting) /\ FlattenSeq(left) \in Seq(Posting)

\* Resolution builds them.
LEMMA ResolvedParts ==
    ASSUME NEW t, WellTyped(t), NEW table, NEW S, PostingsIn(table, S),
           NEW e, ResolvedFrom(e, t, table, S)
    PROVE  Parts(e, t.movements, S, draft_movements(t).debits, draft_movements(t).creates,
                 SpendsOf(table, S, draft_movements(t).debits),
                 LeftOf(table, S, draft_movements(t).debits))
<1>a. PICK ds : ds = draft_movements(t).debits
  OBVIOUS
<1>b. PICK credits : credits = draft_movements(t).creates
  OBVIOUS
<1>c. PICK spends : spends = SpendsOf(table, S, ds)
  OBVIOUS
<1>d. PICK left : left = LeftOf(table, S, ds)
  OBVIOUS
<1> DEFINE Row(i) == KeyRows(table, S, ds[i])
           covers == [i \in DOMAIN ds |-> Cover(ds[i], Row(i))]
<1>1. /\ credits \in Seq(Posting) /\ ds \in Seq({d \in Debit : d.amount > 0})
  BY <1>a, <1>b, DraftFacts
<1>2. /\ DOMAIN credits = DOMAIN t.movements
      /\ \A i \in DOMAIN credits : credits[i] = NewPosting(t.movements[i].to, t.movements[i].asset,
                                                           t.movements[i].amount)
  BY <1>b DEF draft_movements
<1>3. /\ DOMAIN ds = 1..Len(ds) /\ Len(ds) \in Nat
      /\ \A i \in DOMAIN ds : ds[i] \in Debit /\ ds[i].amount > 0
  BY <1>1
<1>4. e = Envelope(FlattenSeq(spends), credits \o FlattenSeq(left), t.book, t.metadata)
  <2>1. e = Envelope(FlattenSeq([i \in DOMAIN covers |-> covers[i].consumes]),
                     credits \o FlattenSeq([i \in DOMAIN covers |-> covers[i].creates]),
                     t.book, t.metadata)
    BY <1>a, <1>b DEF ResolvedFrom, resolve_envelope
  <2>2. [i \in DOMAIN covers |-> covers[i].consumes] = spends /\ [i \in DOMAIN covers |-> covers[i].creates] = left
    BY <1>c, <1>d DEF SpendsOf, LeftOf
  <2> QED
    BY <2>1, <2>2
<1>5. ASSUME NEW i \in DOMAIN ds
      PROVE  spends[i] \in Seq(S) /\ left[i] \in Seq(Posting)
  <2>1. /\ Cover(ds[i], Row(i)).consumes \in Seq(S)
        /\ Cover(ds[i], Row(i)).creates \in Seq(Posting)
    BY <1>3, CoverMoves
  <2> QED
    BY <1>c, <1>d, <2>1 DEF SpendsOf, LeftOf
<1>6. spends \in Seq(Seq(S)) /\ left \in Seq(Seq(Posting))
  <2>1. spends \in [1..Len(ds) -> Seq(S)] /\ left \in [1..Len(ds) -> Seq(Posting)]
    BY <1>3, <1>5, <1>c, <1>d DEF SpendsOf, LeftOf
  <2> QED
    BY <1>3, <2>1, FunctionIsSeq
<1>7. FlattenSeq(spends) \in Seq(S) /\ FlattenSeq(left) \in Seq(Posting)
  BY <1>6, FlattenFacts
<1>8. credits \o FlattenSeq(left) \in Seq(Posting)
  BY <1>1, <1>7
<1>9. /\ e.consumes = FlattenSeq(spends) /\ e.creates = credits \o FlattenSeq(left)
      /\ e.account_snapshots = <<>>
  BY <1>4 DEF Envelope
<1>10. DOMAIN spends = DOMAIN ds /\ DOMAIN left = DOMAIN ds
  BY <1>c, <1>d DEF SpendsOf, LeftOf
<1>11. Parts(e, t.movements, S, ds, credits, spends, left)
  BY <1>1, <1>2, <1>3, <1>6, <1>7, <1>8, <1>9, <1>10 DEF Parts
<1> QED
  BY <1>11, <1>a, <1>b, <1>c, <1>d

\* What the movements bring to a key.
Brought(ms, a, asset) == Amounts(ms, {i \in DOMAIN ms : ms[i].to = a /\ ms[i].asset = asset})

LEMMA BroughtType ==
    ASSUME NEW ms \in Seq([from : Account, to : Account, asset : Asset, amount : Int]),
           NEW a, NEW asset
    PROVE  Brought(ms, a, asset) \in Int
<1> DEFINE T == {i \in DOMAIN ms : ms[i].to = a /\ ms[i].asset = asset}
           M == [from : Account, to : Account, asset : Asset, amount : Int]
<1>1. ms \in Seq(M) /\ \A m \in M : m.amount \in Int
  OBVIOUS
<1> HIDE DEF M
<1>2. DOMAIN ms = 1..Len(ms) /\ Len(ms) \in Nat /\ \A i \in DOMAIN ms : ms[i].amount \in Int
  BY <1>1
<1>3. IsFiniteSet(DOMAIN ms) /\ T \in SUBSET DOMAIN ms
  BY <1>2, FS_Interval
<1>4. IsFiniteSet(T) /\ \A i \in T : [j \in T |-> ms[j].amount][i] \in Int
  BY <1>2, <1>3, FS_Subset
<1>5. Brought(ms, a, asset) = Amounts(ms, T)
  BY DEF Brought
<1> HIDE DEF T
<1> QED
  BY <1>4, <1>5, AmountsIs, SumType

\* Resolution moves the net of each key: what the movements bring to it, less what the
\* debit on it asks for.
LEMMA ResolvedMoves ==
    ASSUME NEW t, WellTyped(t), NEW table, NEW S, PostingsIn(table, S),
           NEW e, ResolvedFrom(e, t, table, S), NEW a \in Account, NEW asset \in Asset
    PROVE  LET ms == t.movements
               net == NetDebit(ms, a, asset)
           IN /\ IsInjective(e.consumes)
              /\ SumValues(e.creates, OnKey(e.creates, DOMAIN e.creates, a, asset))
                 = SumValues(table, OnKey(table, ToSet(e.consumes), a, asset))
                   + Brought(ms, a, asset) - (IF net > 0 THEN net ELSE 0)
<1>1. PICK ds : ds = draft_movements(t).debits
  OBVIOUS
<1>2. PICK credits : credits = draft_movements(t).creates
  OBVIOUS
<1>3. PICK spends : spends = SpendsOf(table, S, ds)
  OBVIOUS
<1>4. PICK left : left = LeftOf(table, S, ds)
  OBVIOUS
<1> DEFINE ms == t.movements
           net == NetDebit(ms, a, asset)
           w == KeyValue(a, asset)
           u == TableValue(w, table, S)
<1>5. /\ credits \in Seq(Posting) /\ DOMAIN credits = DOMAIN ms
      /\ \A i \in DOMAIN credits : credits[i] = NewPosting(ms[i].to, ms[i].asset, ms[i].amount)
      /\ DOMAIN ds = 1..Len(ds) /\ Len(ds) \in Nat
      /\ \A i \in DOMAIN ds : ds[i] \in Debit /\ ds[i].amount > 0
      /\ spends \in Seq(Seq(S)) /\ DOMAIN spends = DOMAIN ds
      /\ left \in Seq(Seq(Posting)) /\ DOMAIN left = DOMAIN ds
      /\ e.consumes = FlattenSeq(spends) /\ e.creates = credits \o FlattenSeq(left)
      /\ e.consumes \in Seq(S) /\ e.creates \in Seq(Posting) /\ FlattenSeq(left) \in Seq(Posting)
  <2>1. Parts(e, ms, S, ds, credits, spends, left)
    BY <1>1, <1>2, <1>3, <1>4, ResolvedParts
  <2> QED
    BY <2>1 DEF Parts
<1>6. /\ \A d \in ToSet(ds) : d.amount = NetDebit(ms, d.account, d.asset)
      /\ \A i, j \in DOMAIN ds : i # j => ds[i].account # ds[j].account \/ ds[i].asset # ds[j].asset
      /\ \A m \in ToSet(ms) : NetDebit(ms, m.from, m.asset) > 0 =>
            \E d \in ToSet(ds) : d.account = m.from /\ d.asset = m.asset
  <2>1. DebitsNet(ms, ds)
    BY <1>1, DraftFacts
  <2> QED
    BY <2>1 DEF DebitsNet
<1>7. (\A p \in Posting : w[p] \in Int) /\ (\A id \in S : u[id] \in Int)
  <2>1. \A id \in S : table[id] \in Posting /\ u[id] = w[table[id]]
    BY DEF PostingsIn, TableValue
  <2> QED
    BY <2>1, KeyValueType
<1>8. ASSUME NEW i \in DOMAIN ds
      PROVE  /\ SeqSum(w, left[i]) \in Int /\ SeqSum(u, spends[i]) \in Int
             /\ ds[i].account = a /\ ds[i].asset = asset =>
                   SeqSum(w, left[i]) = SeqSum(u, spends[i]) - ds[i].amount
             /\ ~(ds[i].account = a /\ ds[i].asset = asset) =>
                   SeqSum(w, left[i]) = 0 /\ SeqSum(u, spends[i]) = 0
  <2>1. PICK c : c = Cover(ds[i], KeyRows(table, S, ds[i]))
    OBVIOUS
  <2>2. left[i] = c.creates /\ spends[i] = c.consumes
    BY <1>3, <1>4, <2>1 DEF SpendsOf, LeftOf
  <2>3. TakesDebit(c, ds[i], w, u, a, asset)
    BY <1>5, <2>1, CoverMoves
  <2> HIDE DEF w, u
  <2> QED
    BY <2>2, <2>3 DEF TakesDebit
<1>9. IsInjective(e.consumes)
  <2>1. ASSUME NEW i \in DOMAIN ds
        PROVE  /\ IsInjective(spends[i])
               /\ \A id \in ToSet(spends[i]) : table[id].owner = ds[i].account /\ table[id].asset = ds[i].asset
    <3>1. PICK av : av = KeyRows(table, S, ds[i])
      OBVIOUS
    <3>2. Spendable(av) /\ \A id \in DOMAIN av : table[id].owner = ds[i].account /\ table[id].asset = ds[i].asset
      BY <3>1, RowsFacts
    <3>3. PICK c : c = Cover(ds[i], av)
      OBVIOUS
    <3>4. c.consumes \in Seq(DOMAIN av) /\ IsInjective(c.consumes)
      BY <1>5, <3>2, <3>3, CoverFacts
    <3>5. spends[i] = c.consumes
      BY <1>3, <3>1, <3>3 DEF SpendsOf
    <3>6. ToSet(c.consumes) \subseteq DOMAIN av
      BY <3>4 DEF ToSet
    <3> QED
      BY <3>2, <3>4, <3>5, <3>6
  <2>2. \A i, j \in DOMAIN spends : i # j => ToSet(spends[i]) \cap ToSet(spends[j]) = {}
    <3>1. ASSUME NEW i \in DOMAIN ds, NEW j \in DOMAIN ds, i # j, NEW id,
                 id \in ToSet(spends[i]), id \in ToSet(spends[j])
          PROVE  FALSE
      <4>1. table[id].owner = ds[i].account /\ table[id].asset = ds[i].asset
        BY <2>1, <3>1
      <4>2. table[id].owner = ds[j].account /\ table[id].asset = ds[j].asset
        BY <2>1, <3>1
      <4>3. ds[i].account # ds[j].account \/ ds[i].asset # ds[j].asset
        BY <1>6, <3>1, Zenon
      <4> QED
        BY <4>1, <4>2, <4>3
    <3> QED
      BY <1>5, <3>1
  <2>3. \A i \in DOMAIN spends : IsInjective(spends[i])
    BY <1>5, <2>1
  <2> QED
    BY <1>5, <2>2, <2>3, JoinedInjective
<1> DEFINE lw == SeqSums(w, left)
           su == SeqSums(u, spends)
<1>10. /\ SeqSum(w, e.creates) = SeqSum(w, credits) + SumOf(lw, DOMAIN left)
       /\ SeqSum(u, e.consumes) = SumOf(su, DOMAIN spends)
  <2> HIDE DEF w, u
  <2>1. SeqSum(w, credits \o FlattenSeq(left)) = SeqSum(w, credits) + SeqSum(w, FlattenSeq(left))
    BY <1>5, <1>7, SeqSumConcat
  <2>2. SeqSum(w, FlattenSeq(left)) = SumOf(lw, DOMAIN left)
    BY <1>5, <1>7, SeqSumFlatten
  <2>3. SeqSum(u, FlattenSeq(spends)) = SumOf(su, DOMAIN spends)
    BY <1>5, <1>7, SeqSumFlatten
  <2> QED
    BY <1>5, <2>1, <2>2, <2>3
<1>11. SumOf(lw, DOMAIN left) = SumOf(su, DOMAIN spends) - (IF net > 0 THEN net ELSE 0)
       /\ SumOf(lw, DOMAIN left) \in Int /\ SumOf(su, DOMAIN spends) \in Int
  <2>0. IsFiniteSet(DOMAIN ds)
    <3>1. DOMAIN ds = 1..Len(ds) /\ Len(ds) \in Nat
      BY <1>5, Zenon
    <3> QED
      BY <3>1, FS_Interval
  <2>1. /\ DOMAIN left = DOMAIN ds /\ DOMAIN spends = DOMAIN ds
        /\ \A i \in DOMAIN ds : lw[i] \in Int /\ su[i] \in Int
        /\ \A i \in DOMAIN ds : ds[i].account = a /\ ds[i].asset = asset => lw[i] = su[i] - ds[i].amount
        /\ \A i \in DOMAIN ds : ~(ds[i].account = a /\ ds[i].asset = asset) => lw[i] = 0 /\ su[i] = 0
    <3> HIDE DEF w, u
    <3> QED
      BY <1>5, <1>8 DEF SeqSums
  <2> HIDE DEF w, u, lw, su, ms
  <2>2. SumOf(lw, DOMAIN ds) \in Int /\ SumOf(su, DOMAIN ds) \in Int
    BY <2>0, <2>1, SumType
  <2>3. CASE \E i \in DOMAIN ds : ds[i].account = a /\ ds[i].asset = asset
    <3>1. PICK k \in DOMAIN ds : ds[k].account = a /\ ds[k].asset = asset
      BY <2>3
    <3>2. \A i \in DOMAIN ds \ {k} : lw[i] = 0 /\ su[i] = 0
      BY <1>6, <2>1, <3>1
    <3>3. SumOf(lw, DOMAIN ds) = SumOf(lw, {k}) /\ SumOf(su, DOMAIN ds) = SumOf(su, {k})
      BY <2>0, <2>1, <3>2, SumMask
    <3>4. \A v : v[k] \in Int => SumOf(v, {k}) = v[k]
      <4>1. ASSUME NEW v, v[k] \in Int PROVE SumOf(v, {k}) = v[k]
        <5>1. SumOf(v, {k}) = v[k] + SumOf(v, {k} \ {k})
          BY <4>1, FS_Singleton, SumRemove
        <5>2. {k} \ {k} = {} /\ SumOf(v, {}) = 0
          BY SumEmpty
        <5> QED
          BY <4>1, <5>1, <5>2
      <4> QED
        BY <4>1
    <3>5. ds[k].amount = net /\ net > 0 /\ net \in Int
      <4>1. ds[k] \in ToSet(ds)
        BY DEF ToSet
      <4> QED
        BY <1>5, <1>6, <3>1, <4>1 DEF Debit
    <3> QED
      BY <2>1, <2>2, <3>1, <3>3, <3>4, <3>5
  <2>4. CASE ~ \E i \in DOMAIN ds : ds[i].account = a /\ ds[i].asset = asset
    <3>1. \A i \in DOMAIN ds : lw[i] = 0 /\ su[i] = 0
      BY <2>1, <2>4
    <3>2. SumOf(lw, DOMAIN ds) = SumOf(lw, {}) /\ SumOf(su, DOMAIN ds) = SumOf(su, {})
      BY <2>0, <3>1, SumMask
    <3>3. ~(net > 0)
      <4> SUFFICES ASSUME net > 0 PROVE FALSE
        OBVIOUS
      <4>1. CASE \E m \in ToSet(ms) : m.from = a /\ m.asset = asset
        BY <1>6, <2>4, <4>1 DEF ToSet
      <4>2. CASE ~ \E m \in ToSet(ms) : m.from = a /\ m.asset = asset
        <5>1. {i \in DOMAIN ms : ms[i].from = a /\ ms[i].asset = asset} = {}
          BY <4>2 DEF ToSet
        <5>2. net = Amounts(ms, {i \in DOMAIN ms : ms[i].from = a /\ ms[i].asset = asset})
          BY DEF NetDebit, Amounts, MapThenSumSet, MapThenFoldSet
        <5>3. Amounts(ms, {}) = 0
          BY AmountsIs, SumEmpty, FS_EmptySet
        <5>4. net = 0
          BY <5>1, <5>2, <5>3
        <5> QED
          BY <5>4
      <4> QED
        BY <4>1, <4>2
    <3> QED
      BY <2>1, <2>2, <3>2, <3>3, SumEmpty
  <2> QED
    BY <2>3, <2>4
<1> HIDE DEF lw, su
<1>12. SeqSum(w, credits) = Brought(ms, a, asset)
       /\ SeqSum(w, credits) \in Int
  <2> DEFINE T == {i \in DOMAIN credits : credits[i].owner = a /\ credits[i].asset = asset}
  <2>1. SeqSum(w, credits) = SumValues(credits, T) /\ SeqSum(w, credits) \in Int
    BY <1>5, MaskedCreates DEF OnKey
  <2>2. \A i \in DOMAIN credits : credits[i].owner = ms[i].to /\ credits[i].asset = ms[i].asset
                                  /\ credits[i].value = ms[i].amount
    <3> HIDE DEF ms
    <3> QED
      BY <1>5 DEF NewPosting
  <2> HIDE DEF w, u
  <2>3. T = {i \in DOMAIN ms : ms[i].to = a /\ ms[i].asset = asset}
    BY <1>5, <2>2
  <2>4. IsFiniteSet(T)
    <3>1. DOMAIN credits = 1..Len(credits) /\ Len(credits) \in Nat
      BY <1>5
    <3>2. IsFiniteSet(DOMAIN credits) /\ T \in SUBSET DOMAIN credits
      BY <3>1, FS_Interval
    <3> HIDE DEF T
    <3> QED
      BY <3>2, FS_Subset
  <2>5. \A i \in T : credits[i].value = ms[i].amount
    BY <2>2
  <2> HIDE DEF T
  <2>6. [i \in T |-> credits[i].value] = [i \in T |-> ms[i].amount]
    BY <2>5
  <2>7. SumValues(credits, T) = SumOf([i \in T |-> credits[i].value], T)
    BY <2>4, SumValuesIs
  <2>8. Amounts(ms, T) = SumOf([i \in T |-> ms[i].amount], T)
    <3> HIDE DEF ms
    <3> QED
      BY <2>4, AmountsIs
  <2> QED
    BY <2>1, <2>3, <2>6, <2>7, <2>8 DEF Brought
<1>13. SeqSum(u, e.consumes) = SumValues(table, OnKey(table, ToSet(e.consumes), a, asset))
  <2>1. ToSet(e.consumes) \in SUBSET S
    BY <1>5 DEF ToSet
  <2>2. SeqSum(u, e.consumes) = SumOf(u, ToSet(e.consumes))
    <3> HIDE DEF w, u
    <3> QED
      BY <1>5, <1>7, <1>9, SeqSumOnce
  <2> QED
    BY <2>1, <2>2, MaskedTable
<1>14. SeqSum(w, e.creates) = SumValues(e.creates, OnKey(e.creates, DOMAIN e.creates, a, asset))
  BY <1>5, MaskedCreates
<1>15. net \in Int
  BY NetDebitType DEF WellTyped
<1> HIDE DEF w, u, net
<1>16. SeqSum(w, e.creates) = SeqSum(u, e.consumes) + SeqSum(w, credits) - (IF net > 0 THEN net ELSE 0)
  BY <1>10, <1>11, <1>12, <1>15
<1> QED
  BY <1>9, <1>12, <1>13, <1>14, <1>16 DEF net

\* What the payer of a debit has to spend.
Funds(table, S, d) == SumValues(KeyRows(table, S, d), Positive(KeyRows(table, S, d)))

\* A resolved envelope spends positive postings of the debits' keys, the ones that cover each
\* debit, and what it creates is a credit or what a debit leaves.
LEMMA ResolvedShape ==
    ASSUME NEW t, WellTyped(t), NEW table, NEW S, PostingsIn(table, S),
           NEW e, ResolvedFrom(e, t, table, S), NEW ds, ds = draft_movements(t).debits
    PROVE  /\ \A id \in ToSet(e.consumes) : id \in S /\ table[id].value > 0
           /\ \A d \in ToSet(ds) : OnKey(table, ToSet(e.consumes), d.account, d.asset)
                                     = ToSet(Cover(d, KeyRows(table, S, d)).consumes)
           /\ \A id \in ToSet(e.consumes) : \E d \in ToSet(ds) : table[id].owner = d.account
           /\ \A p \in ToSet(e.creates) :
                 \/ \E m \in ToSet(t.movements) : p = NewPosting(m.to, m.asset, m.amount)
                 \/ \E d \in ToSet(ds) : /\ p.owner = d.account /\ p.asset = d.asset
                                         /\ Funds(table, S, d) >= d.amount => p.value >= 0
<1>1. PICK credits : credits = draft_movements(t).creates
  OBVIOUS
<1>2. PICK spends : spends = SpendsOf(table, S, ds)
  OBVIOUS
<1>3. PICK left : left = LeftOf(table, S, ds)
  OBVIOUS
<1> DEFINE ms == t.movements
<1>4. Parts(e, ms, S, ds, credits, spends, left)
  BY <1>1, <1>2, <1>3, ResolvedParts
<1> HIDE DEF ms
<1>5. /\ credits \in Seq(Posting) /\ DOMAIN credits = DOMAIN ms
      /\ \A i \in DOMAIN credits : credits[i] = NewPosting(ms[i].to, ms[i].asset, ms[i].amount)
      /\ DOMAIN ds = 1..Len(ds) /\ Len(ds) \in Nat
      /\ \A i \in DOMAIN ds : ds[i] \in Debit /\ ds[i].amount > 0
      /\ spends \in Seq(Seq(S)) /\ DOMAIN spends = DOMAIN ds
      /\ left \in Seq(Seq(Posting)) /\ DOMAIN left = DOMAIN ds
      /\ e.consumes = FlattenSeq(spends) /\ e.creates = credits \o FlattenSeq(left)
      /\ e.consumes \in Seq(S) /\ e.creates \in Seq(Posting) /\ FlattenSeq(left) \in Seq(Posting)
  BY <1>4 DEF Parts
<1>6. ASSUME NEW i \in DOMAIN ds
      PROVE  /\ spends[i] = Cover(ds[i], KeyRows(table, S, ds[i])).consumes
             /\ \A id \in ToSet(spends[i]) : /\ id \in S /\ table[id].value > 0
                                             /\ table[id].owner = ds[i].account
                                             /\ table[id].asset = ds[i].asset
             /\ \A p \in ToSet(left[i]) : /\ p.owner = ds[i].account /\ p.asset = ds[i].asset
                                          /\ Funds(table, S, ds[i]) >= ds[i].amount => p.value >= 0
  <2>1. PICK av : av = KeyRows(table, S, ds[i])
    OBVIOUS
  <2>2. /\ Spendable(av)
        /\ \A id : id \in DOMAIN av <=>
                     id \in S /\ table[id].owner = ds[i].account /\ table[id].asset = ds[i].asset
        /\ \A id \in DOMAIN av : av[id] = table[id]
    BY <2>1, RowsFacts
  <2>3. PICK c : c = Cover(ds[i], av)
    OBVIOUS
  <2>4. ds[i] \in Debit /\ ds[i].amount > 0
    BY <1>5
  <2> DEFINE rest == SumValues(av, ToSet(c.consumes)) - ds[i].amount
  <2>5. /\ ToSet(c.consumes) \subseteq Positive(av)
        /\ rest \in Int
        /\ c.creates = IF rest = 0 THEN <<>> ELSE <<NewPosting(ds[i].account, ds[i].asset, rest)>>
        /\ SumValues(av, Positive(av)) >= ds[i].amount => rest >= 0
    BY <2>2, <2>3, <2>4, CoverFacts
  <2>6. spends[i] = c.consumes /\ left[i] = c.creates
    BY <1>2, <1>3, <2>1, <2>3 DEF SpendsOf, LeftOf
  <2> HIDE DEF rest
  <2>7. \A p \in ToSet(c.creates) : p = NewPosting(ds[i].account, ds[i].asset, rest)
    BY <2>5 DEF ToSet
  <2>8. \A p \in ToSet(c.creates) : p.owner = ds[i].account /\ p.asset = ds[i].asset /\ p.value = rest
    BY <2>7 DEF NewPosting
  <2>9. \A id \in ToSet(c.consumes) : id \in DOMAIN av /\ av[id].value > 0
    BY <2>5 DEF Positive
  <2>10. Funds(table, S, ds[i]) = SumValues(av, Positive(av))
    BY <2>1 DEF Funds
  <2> QED
    BY <2>1, <2>2, <2>3, <2>5, <2>6, <2>8, <2>9, <2>10
<1>7. \A id : id \in ToSet(e.consumes) <=> \E i \in DOMAIN ds : id \in ToSet(spends[i])
  BY <1>5, JoinedSet
<1>8. \A p : p \in ToSet(e.creates) <=>
               p \in ToSet(credits) \/ \E i \in DOMAIN ds : p \in ToSet(left[i])
  <2>1. \A p : p \in ToSet(FlattenSeq(left)) <=> \E i \in DOMAIN ds : p \in ToSet(left[i])
    BY <1>5, JoinedSet
  <2>2. ToSet(credits \o FlattenSeq(left)) = ToSet(credits) \cup ToSet(FlattenSeq(left))
    BY <1>5, ConcatFacts
  <2> QED
    BY <1>5, <2>1, <2>2
<1>9. \A i, j \in DOMAIN ds : i # j => ds[i].account # ds[j].account \/ ds[i].asset # ds[j].asset
  <2>1. DebitsNet(t.movements, ds)
    BY DraftFacts
  <2> QED
    BY <2>1 DEF DebitsNet
<1>10. ASSUME NEW d \in ToSet(ds)
       PROVE  OnKey(table, ToSet(e.consumes), d.account, d.asset)
                = ToSet(Cover(d, KeyRows(table, S, d)).consumes)
  <2>1. PICK k \in DOMAIN ds : ds[k] = d
    BY DEF ToSet
  <2>2. ToSet(Cover(d, KeyRows(table, S, d)).consumes) = ToSet(spends[k])
    BY <1>6, <2>1
  <2>3. ASSUME NEW id \in ToSet(spends[k])
        PROVE  id \in OnKey(table, ToSet(e.consumes), d.account, d.asset)
    BY <1>6, <1>7, <2>1 DEF OnKey
  <2>4. ASSUME NEW id \in OnKey(table, ToSet(e.consumes), d.account, d.asset)
        PROVE  id \in ToSet(spends[k])
    <3>1. id \in ToSet(e.consumes) /\ table[id].owner = d.account /\ table[id].asset = d.asset
      BY DEF OnKey
    <3>2. PICK i \in DOMAIN ds : id \in ToSet(spends[i])
      BY <1>7, <3>1
    <3>3. table[id].owner = ds[i].account /\ table[id].asset = ds[i].asset
      BY <1>6, <3>2
    <3>4. i = k
      BY <1>9, <2>1, <3>1, <3>3
    <3> QED
      BY <3>2, <3>4
  <2> QED
    BY <2>2, <2>3, <2>4
<1>11. ASSUME NEW p \in ToSet(e.creates)
       PROVE  \/ \E m \in ToSet(ms) : p = NewPosting(m.to, m.asset, m.amount)
              \/ \E d \in ToSet(ds) : /\ p.owner = d.account /\ p.asset = d.asset
                                      /\ Funds(table, S, d) >= d.amount => p.value >= 0
  <2>1. CASE p \in ToSet(credits)
    <3>1. PICK i \in DOMAIN credits : p = credits[i]
      BY <2>1 DEF ToSet
    <3>2. ms[i] \in ToSet(ms) /\ p = NewPosting(ms[i].to, ms[i].asset, ms[i].amount)
      BY <1>5, <3>1 DEF ToSet
    <3> QED
      BY <3>2
  <2>2. CASE \E i \in DOMAIN ds : p \in ToSet(left[i])
    <3>1. PICK i \in DOMAIN ds : p \in ToSet(left[i])
      BY <2>2
    <3>2. ds[i] \in ToSet(ds)
      BY DEF ToSet
    <3> QED
      BY <1>6, <3>1, <3>2
  <2> QED
    BY <1>8, <2>1, <2>2
<1>12. ASSUME NEW id \in ToSet(e.consumes)
       PROVE  \E d \in ToSet(ds) : table[id].owner = d.account
  <2>1. PICK i \in DOMAIN ds : id \in ToSet(spends[i])
    BY <1>7
  <2>2. ds[i] \in ToSet(ds) /\ table[id].owner = ds[i].account
    BY <1>6, <2>1 DEF ToSet
  <2> QED
    BY <2>2
<1> QED
  BY <1>6, <1>7, <1>10, <1>11, <1>12 DEF ms

-----------------------------------------------------------------------------
(* Envelopes. *)

\* What every envelope a client builds looks like. Its id holds all of it.
EnvelopeOK(e) ==
    /\ e.creates \in Seq(Posting)
    /\ \E X : e.consumes \in Seq(X)
    /\ e = [consumes |-> e.consumes, creates |-> e.creates,
            account_snapshots |-> e.account_snapshots, book |-> e.book, metadata |-> e.metadata]

\* A built envelope is one.
LEMMA EnvelopeFacts ==
    ASSUME NEW consumes, NEW creates \in Seq(Posting), NEW X, consumes \in Seq(X),
           NEW book, NEW metadata
    PROVE  /\ EnvelopeOK(Envelope(consumes, creates, book, metadata))
           /\ Envelope(consumes, creates, book, metadata).consumes = consumes
           /\ Envelope(consumes, creates, book, metadata).creates = creates
BY DEF Envelope, EnvelopeOK

\* The postings a debit may spend.
LEMMA ActivePostingsFacts ==
    ASSUME StoreInv, FiniteTables, NEW a, NEW asset
    PROVE  /\ Spendable(ActivePostings(a, asset))
           /\ DOMAIN ActivePostings(a, asset) \subseteq active
<1> DEFINE S == {i \in active : immutable[i].owner = a /\ immutable[i].asset = asset}
<1>1. DOMAIN ActivePostings(a, asset) = S /\ \A id \in S : ActivePostings(a, asset)[id] = immutable[id]
  BY DEF ActivePostings
<1>2. S \in SUBSET DOMAIN immutable /\ \A id \in S : immutable[id].value \in Int
  BY DEF StoreInv, StoreTypeOK, Posting
<1>3. IsFiniteSet(S)
  BY <1>2, FS_Subset DEF FiniteTables
<1> QED
  BY <1>1, <1>2, <1>3 DEF Spendable, HasValues

\* Ledger::resolve builds an envelope of typed postings that spends live ones.
LEMMA ResolveFacts ==
    ASSUME StoreInv, FiniteTables, NEW t, WellTyped(t)
    PROVE  EnvelopeOK(resolve(t)) /\ ToSet(resolve(t).consumes) \subseteq active
<1> DEFINE draft == draft_movements(t)
           ds == draft.debits
           covers == [i \in DOMAIN ds |-> Cover(ds[i], ActivePostings(ds[i].account, ds[i].asset))]
           spends == [i \in DOMAIN ds |-> covers[i].consumes]
           change_ == [i \in DOMAIN ds |-> covers[i].creates]
<1>1. draft.creates \in Seq(Posting) /\ ds \in Seq({d \in Debit : d.amount > 0})
  BY DraftFacts
<1>2. resolve(t) = Envelope(FlattenSeq(spends), draft.creates \o FlattenSeq(change_),
                            t.book, t.metadata)
  BY DEF resolve, resolve_envelope, AvailableFor
<1> HIDE DEF draft
<1>3. /\ Len(ds) \in Nat /\ DOMAIN ds = 1..Len(ds)
      /\ \A i \in DOMAIN ds : ds[i] \in Debit /\ ds[i].amount > 0
  BY <1>1
<1> HIDE DEF ds
<1>4. ASSUME NEW i \in DOMAIN ds
      PROVE  covers[i].consumes \in Seq(active) /\ covers[i].creates \in Seq(Posting)
  <2> DEFINE av == ActivePostings(ds[i].account, ds[i].asset)
  <2>1. Spendable(av) /\ DOMAIN av \subseteq active
    BY ActivePostingsFacts
  <2> HIDE DEF av
  <2>2. Cover(ds[i], av).consumes \in Seq(DOMAIN av) /\ Cover(ds[i], av).creates \in Seq(Posting)
    BY <1>3, <2>1, CoverFacts
  <2>3. Cover(ds[i], av).consumes \in Seq(active)
    BY <2>1, <2>2, SeqMonotonic
  <2> QED
    BY <2>2, <2>3 DEF av
<1> HIDE DEF covers
<1>5. spends \in [1..Len(ds) -> Seq(active)] /\ change_ \in [1..Len(ds) -> Seq(Posting)]
  BY <1>3, <1>4
<1> HIDE DEF spends, change_
<1>6. spends \in Seq(Seq(active)) /\ change_ \in Seq(Seq(Posting))
  BY <1>3, <1>5, FunctionIsSeq
<1>7. FlattenSeq(spends) \in Seq(active) /\ FlattenSeq(change_) \in Seq(Posting)
  BY <1>6, FlattenFacts
<1>8. draft.creates \o FlattenSeq(change_) \in Seq(Posting)
  BY <1>1, <1>7
<1>9. ToSet(FlattenSeq(spends)) \subseteq active
  BY <1>7 DEF ToSet
<1> DEFINE c == FlattenSeq(spends)
           n == draft.creates \o FlattenSeq(change_)
<1>10. c \in Seq(active) /\ n \in Seq(Posting) /\ ToSet(c) \subseteq active
  BY <1>7, <1>8, <1>9
<1>11. resolve(t) = Envelope(c, n, t.book, t.metadata)
  BY <1>2
<1> HIDE DEF c, n
<1>12. EnvelopeOK(resolve(t)) /\ resolve(t).consumes = c
  BY <1>10, <1>11, EnvelopeFacts
<1> QED
  BY <1>10, <1>12

\* Every stored transfer is an envelope under its own id.
TransfersOK ==
    \A t \in DOMAIN transfers : EnvelopeOK(transfers[t]) /\ envelope_id(transfers[t]) = t

\* Ledger::reverse builds an envelope of typed postings that spends known ones.
LEMMA ReversalFacts ==
    ASSUME StoreInv, TransfersOK, NEW tid \in DOMAIN transfers
    PROVE  EnvelopeOK(Reversal(tid)) /\ ToSet(Reversal(tid).consumes) \subseteq DOMAIN immutable
<1> DEFINE o == transfers[tid]
           c == [i \in DOMAIN o.creates |-> <<tid, i>>]
           n == [i \in DOMAIN o.consumes |-> immutable[o.consumes[i]]]
<1>1. Reversal(tid) = Envelope(c, n, o.book, o.metadata)
  BY DEF Reversal
<1>2. PICK X : o.creates \in Seq(Posting) /\ o.consumes \in Seq(X)
  BY DEF TransfersOK, EnvelopeOK
<1>3. /\ \A i \in DOMAIN o.creates : <<tid, i>> \in DOMAIN immutable
      /\ \A i \in DOMAIN o.consumes : immutable[o.consumes[i]] \in Posting
  <2>1. ToSet(o.consumes) \subseteq DOMAIN immutable
    BY DEF StoreInv, LiveIsUnspent, SpentByLog
  <2>2. \A i \in DOMAIN o.consumes : o.consumes[i] \in DOMAIN immutable
    BY <2>1 DEF ToSet
  <2>3. \A i \in DOMAIN o.creates : <<tid, i>> \in DOMAIN immutable
    BY DEF StoreInv, PostingsFromLog
  <2> QED
    BY <2>2, <2>3 DEF StoreInv, StoreTypeOK
<1> HIDE DEF o
<1>4. /\ Len(o.creates) \in Nat /\ DOMAIN o.creates = 1..Len(o.creates)
      /\ Len(o.consumes) \in Nat /\ DOMAIN o.consumes = 1..Len(o.consumes)
  BY <1>2
<1>5. c \in [1..Len(o.creates) -> DOMAIN immutable] /\ n \in [1..Len(o.consumes) -> Posting]
  BY <1>3, <1>4
<1> HIDE DEF c, n
<1>6. c \in Seq(DOMAIN immutable) /\ n \in Seq(Posting)
  BY <1>4, <1>5, FunctionIsSeq
<1>7. ToSet(c) \subseteq DOMAIN immutable
  BY <1>6 DEF ToSet
<1>8. EnvelopeOK(Reversal(tid)) /\ Reversal(tid).consumes = c
  BY <1>1, <1>6, EnvelopeFacts
<1> QED
  BY <1>7, <1>8

\* Pinning accounts leaves the rest of an envelope alone.
LEMMA PinFacts ==
    ASSUME NEW e, EnvelopeOK(e), NEW s
    PROVE  EnvelopeOK([e EXCEPT !.account_snapshots = s])
<1> DEFINE f == [e EXCEPT !.account_snapshots = s]
<1>1. e = [consumes |-> e.consumes, creates |-> e.creates,
           account_snapshots |-> e.account_snapshots, book |-> e.book, metadata |-> e.metadata]
  BY DEF EnvelopeOK
<1>2. f = [consumes |-> e.consumes, creates |-> e.creates,
           account_snapshots |-> s, book |-> e.book, metadata |-> e.metadata]
  BY <1>1
<1> HIDE DEF f
<1>3. f.consumes = e.consumes /\ f.creates = e.creates /\ f.account_snapshots = s
      /\ f.book = e.book /\ f.metadata = e.metadata
  BY <1>2
<1>4. f.creates \in Seq(Posting) /\ \E X : f.consumes \in Seq(X)
  BY <1>3 DEF EnvelopeOK
<1>5. EnvelopeOK(f)
  BY <1>2, <1>3, <1>4 DEF EnvelopeOK
<1> QED
  BY <1>5 DEF f

-----------------------------------------------------------------------------
(* What the store's writes leave for a client that is between two calls. *)

\* Postings and account versions stay as they were read, and so does whether an
\* account forbids overdraft.
StoreGrows ==
    /\ \A id \in DOMAIN immutable : id \in DOMAIN immutable' /\ immutable'[id] = immutable[id]
    /\ \A a \in Account : \A v \in DOMAIN accounts[a] :
          v \in DOMAIN accounts'[a] /\ accounts'[a][v] = accounts[a][v]
    /\ \A a \in Account : Exists(a) =>
          /\ accounts'[a] # <<>>
          /\ forbids_overdraft(accounts'[a][Len(accounts'[a])]) <=> forbids_overdraft(head(a))

\* Nothing changes.
LEMMA StutterGrows == ASSUME UNCHANGED storeVars PROVE StoreGrows
BY DEF StoreGrows, storeVars, Exists, head

\* A commit adds postings.
LEMMA CommitGrows ==
    ASSUME NEW e, commit_envelope(CommitRequest(e))
    PROVE  StoreGrows
<1>1. /\ accounts' = accounts
      /\ DOMAIN immutable \subseteq DOMAIN immutable'
      /\ \A id \in DOMAIN immutable : immutable'[id] = immutable[id]
  BY CommitEffect
<1> QED
  BY <1>1 DEF StoreGrows, Exists, head

\* create_account adds an account.
LEMMA CreateGrows ==
    ASSUME NEW a \in Account, NEW flags, create_account(a, flags), StoreTypeOK
    PROVE  StoreGrows
<1>1. /\ accounts[a] = <<>> /\ immutable' = immutable
      /\ accounts' = [accounts EXCEPT ![a] = <<NewAccount(flags)>>]
  BY DEF create_account, Exists
<1>2. \A b \in Account : b # a => accounts'[b] = accounts[b]
  BY <1>1 DEF StoreTypeOK
<1>3. DOMAIN accounts[a] = {}
  BY <1>1
<1> QED
  BY <1>1, <1>2, <1>3 DEF StoreGrows, Exists, head

\* A transition adds a version, and the overdraft flag is not its to change.
LEMMA AppliedGrows ==
    ASSUME NEW a \in Account, NEW kind \in LifecycleKind, NEW v \in DOMAIN accounts[a],
           StoreInv, TransitionApplied(a, NextVersion(kind, accounts[a][v]), kind)
    PROVE  StoreGrows
<1> DEFINE next == NextVersion(kind, accounts[a][v])
<1>1. /\ accounts'[a] = Append(accounts[a], next)
      /\ \A b \in Account : b # a => accounts'[b] = accounts[b]
      /\ immutable' = immutable
  BY AppliedEffect
<1>2. accounts[a] \in Seq(AccountRecord)
  BY DEF StoreInv, StoreTypeOK, AccountRecord
<1>3. next \in AccountRecord
  BY AppliedFromHead
<1> HIDE DEF next
<1>4. \A w \in DOMAIN accounts[a] : w \in DOMAIN accounts'[a] /\ accounts'[a][w] = accounts[a][w]
  BY <1>1, <1>2, <1>3
<1>5. /\ accounts'[a] # <<>>
      /\ forbids_overdraft(accounts'[a][Len(accounts'[a])]) <=> forbids_overdraft(head(a))
  <2>1. Exists(a)' /\ head(a)'.flags = Mutate(kind, head(a).flags)
    BY AppliedHead
  <2> QED
    BY <2>1, MutateKeepsFloor DEF Exists, head, forbids_overdraft
<1> QED
  BY <1>1, <1>4, <1>5 DEF StoreGrows, Exists, head

\* Announcing an account appends one event and touches nothing else.
LEMMA AnnounceKeeps ==
    ASSUME NEW a \in Account, FloorInv, append_event(Event("AccountCreated", a, 0))
    PROVE  FloorInv' /\ StoreGrows /\ RecordsKept
<1> DEFINE ev == Event("AccountCreated", a, 0)
<1>1. /\ accounts' = accounts /\ immutable' = immutable /\ active' = active
      /\ transfers' = transfers /\ AppendEvent(ev)
  BY DEF append_event
<1>2. events \in Seq(EventType) /\ ev \in EventType
  BY DEF FloorInv, StoreInv, StoreTypeOK, EventType, Event, EventKind
<1>3. /\ ev.kind = "AccountCreated" /\ "AccountCreated" \notin LifecycleKind
      /\ \A f : ~SameDedupKey(ev, f) /\ ~SameDedupKey(f, ev)
  BY DEF Event, SameDedupKey, LifecycleKind
<1> HIDE DEF ev
<1>4. /\ events' \in Seq(EventType) /\ IsPrefix(events, events')
      /\ \A i \in DOMAIN events : i \in DOMAIN events' /\ events'[i] = events[i]
  BY <1>1, <1>2, AppendEventEffect
<1>5. PICK n \in DOMAIN events' : /\ n \notin DOMAIN events
                                  /\ DOMAIN events' = DOMAIN events \cup {n}
                                  /\ events'[n] = ev
  BY <1>1, <1>2, <1>3, AppendEventEffect
<1>6. StoreTypeOK' /\ VersionChain'
  BY <1>1, <1>4 DEF FloorInv, StoreInv, StoreTypeOK, VersionChain, EventType
<1>7. PostingsFromLog' /\ LiveIsUnspent' /\ NoDoubleSpend'
  BY <1>1, PostingsUntouched DEF FloorInv, StoreInv
<1>8. EventsMatchTables'
  <2>1. \A i, j \in DOMAIN events' : i # j => ~SameDedupKey(events'[i], events'[j])
    BY <1>3, <1>4, <1>5 DEF FloorInv, StoreInv, EventsMatchTables
  <2>2. \A t \in DOMAIN transfers : \E i \in DOMAIN events' : events'[i] = TransferCommitted(t)
    BY <1>4 DEF FloorInv, StoreInv, EventsMatchTables
  <2>3. \A b \in Account : \A v \in 2..Len(accounts[b]) : \E i \in DOMAIN events' :
           events'[i].kind \in LifecycleKind /\ events'[i].subject = b /\ events'[i].version = v
    BY <1>4 DEF FloorInv, StoreInv, EventsMatchTables
  <2>4. \A i \in DOMAIN events' :
           events'[i].kind = "TransferCommitted" => events'[i].subject \in DOMAIN transfers
    BY <1>3, <1>4, <1>5 DEF FloorInv, StoreInv, EventsMatchTables
  <2> QED
    BY <1>1, <2>1, <2>2, <2>3, <2>4 DEF EventsMatchTables, SameDedupKey, TransferCommitted, Event
<1>9. EventsTellTheTruth'
  <2>1. \A i \in DOMAIN events' : events'[i].kind \in LifecycleKind =>
           i \in DOMAIN events /\ events'[i] = events[i]
    BY <1>3, <1>4, <1>5
  <2> QED
    BY <1>1, <2>1 DEF FloorInv, StoreInv, EventsTellTheTruth, Mutate
<1>10. FiniteTables' /\ OwnersExist' /\ OverdraftFloor'
  BY <1>1, BalanceAlone DEF FloorInv, FiniteTables, OwnersExist, OverdraftFloor, Exists, head
<1>11. StoreGrows
  BY <1>1 DEF StoreGrows, Exists, head
<1>12. RecordsKept
  BY <1>1, <1>4, SameAccountsKept DEF FloorInv, StoreInv, RecordsKept
<1> QED
  BY <1>6, <1>7, <1>8, <1>9, <1>10, <1>11, <1>12 DEF FloorInv, StoreInv

-----------------------------------------------------------------------------
(* Conservation. *)

\* The value of the live postings of an asset.
LiveTotal(asset) == SumValues(immutable, {id \in active : immutable[id].asset = asset})

\* The postings of S that are of an asset.
OfAsset(table, S, asset) == {id \in S : table[id].asset = asset}

\* What a checked envelope spends of an asset is what it creates of it.
LEMMA SpentIsMade ==
    ASSUME NEW e, e.creates \in Seq(Posting), ToSet(e.consumes) \subseteq DOMAIN immutable, StoreInv,
           FiniteTables, Conserves(e, Consumed(e)), NEW asset
    PROVE  /\ HasValues(immutable, OfAsset(immutable, ToSet(e.consumes), asset))
           /\ HasValues(e.creates, OfAsset(e.creates, DOMAIN e.creates, asset))
           /\ SumValues(immutable, OfAsset(immutable, ToSet(e.consumes), asset))
              = SumValues(e.creates, OfAsset(e.creates, DOMAIN e.creates, asset))
<1> DEFINE con == Consumed(e)
           Spent == {id \in ToSet(e.consumes) : immutable[id].asset = asset}
           Rows == {i \in DOMAIN e.creates : e.creates[i].asset = asset}
<1>0. HasValues(immutable, Spent) /\ HasValues(e.creates, Rows)
  <2>1. /\ \A id \in DOMAIN immutable : immutable[id].value \in Int
        /\ \A i \in DOMAIN e.creates : e.creates[i].value \in Int
        /\ IsFiniteSet(DOMAIN immutable) /\ IsFiniteSet(DOMAIN e.creates)
    BY NewIdsFacts DEF StoreInv, StoreTypeOK, Posting, FiniteTables
  <2>2. Spent \in SUBSET DOMAIN immutable /\ Rows \in SUBSET DOMAIN e.creates
    OBVIOUS
  <2> HIDE DEF Spent, Rows
  <2>3. IsFiniteSet(Spent) /\ IsFiniteSet(Rows)
    BY <2>1, <2>2, FS_Subset
  <2> QED
    BY <2>1, <2>2, <2>3 DEF HasValues
<1>1. DOMAIN con = ToSet(e.consumes) /\ \A id \in DOMAIN con : con[id] = immutable[id]
  BY DEF Consumed
<1> HIDE DEF con
<1>2. {id \in DOMAIN con : con[id].asset = asset} = Spent
  BY <1>1
<1>3. SumValues(con, Spent) = SumValues(immutable, Spent)
  BY <1>0, <1>1, ValuesSame DEF HasValues
<1> DEFINE Keys == balance_keys(e, con)
<1>4. SumValues(immutable, Spent) = SumValues(e.creates, Rows)
  <2>1. CASE \E key \in Keys : key[2] = asset
    <3>1. SumValues(con, {id \in DOMAIN con : con[id].asset = asset}) = SumValues(e.creates, Rows)
      BY <2>1 DEF Conserves, con
    <3> QED
      BY <1>2, <1>3, <3>1
  <2>2. CASE ~ \E key \in Keys : key[2] = asset
    <3>1. \A p \in ToSet(e.creates) \cup Range(con) : p.asset # asset
      <4>1. \A p \in ToSet(e.creates) \cup Range(con) : <<p.owner, p.asset>> \in Keys
        BY DEF balance_keys
      <4> HIDE DEF Keys
      <4>2. \A p \in ToSet(e.creates) \cup Range(con) : <<p.owner, p.asset>>[2] # asset
        BY <2>2, <4>1
      <4> QED
        BY <4>2
    <3>2. Rows = {}
      BY <3>1 DEF ToSet
    <3>3. Spent = {}
      BY <1>1, <3>1 DEF Range
    <3>4. SumValues(immutable, {}) = 0 /\ SumValues(e.creates, {}) = 0
      BY <1>0, ValuesType
    <3> QED
      BY <3>2, <3>3, <3>4
  <2> QED
    BY <2>1, <2>2
<1> QED
  BY <1>0, <1>4 DEF OfAsset

\* An envelope that conserves every asset, spent by postings that are still live,
\* leaves every total as it was.
LEMMA CommitConserves ==
    ASSUME NEW e, e.creates \in Seq(Posting), commit_envelope(CommitRequest(e)), StoreInv,
           FiniteTables, Conserves(e, Consumed(e)), NEW asset
    PROVE  LiveTotal(asset)' = LiveTotal(asset)
<1> DEFINE Kept == {id \in active \ ToSet(e.consumes) : immutable[id].asset = asset}
           Spent == {id \in ToSet(e.consumes) : immutable[id].asset = asset}
           Rows == {i \in DOMAIN e.creates : e.creates[i].asset = asset}
           b == [i \in DOMAIN e.creates |-> <<envelope_id(e), i>>]
           Made == {b[i] : i \in Rows}
<1>1. /\ active' = (active \ ToSet(e.consumes)) \cup NewIds(e)
      /\ (active \ ToSet(e.consumes)) \cap NewIds(e) = {}
      /\ ToSet(e.consumes) \subseteq active /\ active \subseteq DOMAIN immutable
      /\ \A id \in DOMAIN immutable : immutable'[id] = immutable[id]
      /\ \A i \in DOMAIN e.creates : immutable'[b[i]] = e.creates[i]
      /\ NewIds(e) = {b[i] : i \in DOMAIN e.creates}
  BY CommitLive DEF StoreInv, StoreTypeOK, NewIds
<1>2. /\ \A id \in DOMAIN immutable : immutable[id].value \in Int
      /\ \A i \in DOMAIN e.creates : e.creates[i].value \in Int
      /\ IsFiniteSet(DOMAIN immutable) /\ IsFiniteSet(DOMAIN e.creates)
  BY NewIdsFacts DEF StoreInv, StoreTypeOK, Posting, FiniteTables
<1>3. \A i, j \in DOMAIN e.creates : b[i] = b[j] => i = j
  OBVIOUS
<1> HIDE DEF b
<1>4. /\ {id \in active' : immutable'[id].asset = asset} = Kept \cup Made
      /\ {id \in active : immutable[id].asset = asset} = Kept \cup Spent
      /\ Kept \cap Made = {} /\ Kept \cap Spent = {}
  <2>1. \A id \in active : immutable'[id] = immutable[id]
    BY <1>1
  <2>2. Made \subseteq NewIds(e) /\ Kept \subseteq active \ ToSet(e.consumes)
    BY <1>1
  <2>3. {id \in active' : immutable'[id].asset = asset} = Kept \cup Made
    BY <1>1, <2>1
  <2>4. {id \in active : immutable[id].asset = asset} = Kept \cup Spent
    BY <1>1
  <2> QED
    BY <1>1, <2>2, <2>3, <2>4
<1>5. /\ HasValues(immutable, Kept) /\ HasValues(immutable', Kept)
      /\ HasValues(immutable, Spent) /\ HasValues(e.creates, Rows)
  <2>1. Kept \in SUBSET DOMAIN immutable /\ Spent \in SUBSET DOMAIN immutable
        /\ Rows \in SUBSET DOMAIN e.creates
    BY <1>1
  <2> HIDE DEF Kept, Spent, Rows
  <2>2. IsFiniteSet(Kept) /\ IsFiniteSet(Spent) /\ IsFiniteSet(Rows)
    BY <1>2, <2>1, FS_Subset
  <2> QED
    BY <1>1, <1>2, <2>1, <2>2 DEF HasValues
<1>6. HasValues(immutable', Made) /\ SumValues(immutable', Made) = SumValues(e.creates, Rows)
  <2>1. /\ Rows \subseteq DOMAIN e.creates
        /\ \A x, y \in Rows : b[x] = b[y] => x = y
        /\ \A x \in Rows : immutable'[b[x]].value = e.creates[x].value
    BY <1>1, <1>3
  <2>2. [i \in Rows |-> b[i]] \in Surjection(Rows, Made)
    BY DEF Surjection
  <2> HIDE DEF Rows
  <2>3. SumValues(immutable', Made) = SumValues(e.creates, Rows)
    <3> DEFINE f == e.creates
               g == immutable'
    <3>1. /\ HasValues(f, Rows) /\ \A x, y \in Rows : b[x] = b[y] => x = y
          /\ \A x \in Rows : g[b[x]].value = f[x].value
      BY <1>5, <2>1
    <3> HIDE DEF f, g
    <3>2. SumValues(g, {b[x] : x \in Rows}) = SumValues(f, Rows)
      BY <3>1, ValuesRename
    <3> QED
      BY <3>2 DEF f, g
  <2>4. IsFiniteSet(Made)
    BY <1>5, <2>2, FS_Surjection DEF HasValues
  <2>5. \A id \in Made : immutable'[id].value \in Int
    BY <1>2, <2>1
  <2> QED
    BY <2>3, <2>4, <2>5 DEF HasValues
<1>7. SumValues(immutable, Spent) = SumValues(e.creates, Rows)
  <2>1. ToSet(e.consumes) \subseteq DOMAIN immutable
    BY <1>1
  <2>2. SumValues(immutable, OfAsset(immutable, ToSet(e.consumes), asset))
          = SumValues(e.creates, OfAsset(e.creates, DOMAIN e.creates, asset))
    BY <2>1, SpentIsMade
  <2> QED
    BY <2>2 DEF OfAsset
<1>8. SumValues(immutable', Kept) = SumValues(immutable, Kept)
  <2>1. \A id \in Kept : immutable'[id].value = immutable[id].value
    BY <1>1
  <2> QED
    BY <1>5, <2>1, ValuesSame DEF HasValues
<1>9. LiveTotal(asset)' = SumValues(immutable', Kept \cup Made)
      /\ LiveTotal(asset) = SumValues(immutable, Kept \cup Spent)
  BY <1>4 DEF LiveTotal
<1> HIDE DEF Kept, Spent, Rows, Made
<1>10. SumValues(immutable', Kept \cup Made) = SumValues(immutable', Kept) + SumValues(immutable', Made)
  BY <1>4, <1>5, <1>6, ValuesDisjoint
<1>11. SumValues(immutable, Kept \cup Spent) = SumValues(immutable, Kept) + SumValues(immutable, Spent)
  BY <1>4, <1>5, ValuesDisjoint
<1> QED
  BY <1>6, <1>7, <1>8, <1>9, <1>10, <1>11

-----------------------------------------------------------------------------
(* The store at the start. *)

\* The initial accounts are typed, at version 1 at most.
LEMMA InitialAccountsFacts ==
    ASSUME accounts = InitialAccounts
    PROVE  /\ accounts \in [Account -> Seq(AccountRecord)]
           /\ \A a \in Account : /\ Exists(a) <=> a \in DOMAIN Existing
                                 /\ Exists(a) => head(a) = NewAccount(Existing[a])
                                 /\ 2..Len(accounts[a]) = {}
                                 /\ \A v \in DOMAIN accounts[a] : v = 1 /\ accounts[a][v].version = 1
<1>1. \A a \in Account : \/ a \notin DOMAIN Existing /\ accounts[a] = <<>>
                         \/ a \in DOMAIN Existing /\ accounts[a] = <<NewAccount(Existing[a])>>
  BY DEF InitialAccounts
<1>2. ASSUME NEW a \in Account
      PROVE  /\ accounts[a] \in Seq(AccountRecord)
             /\ Exists(a) <=> a \in DOMAIN Existing
             /\ Exists(a) => head(a) = NewAccount(Existing[a])
             /\ 2..Len(accounts[a]) = {}
             /\ \A v \in DOMAIN accounts[a] : v = 1 /\ accounts[a][v].version = 1
  <2>1. CASE a \notin DOMAIN Existing /\ accounts[a] = <<>>
    BY <2>1 DEF Exists
  <2>2. CASE a \in DOMAIN Existing /\ accounts[a] = <<NewAccount(Existing[a])>>
    <3> DEFINE r == NewAccount(Existing[a])
    <3>1. r \in AccountRecord /\ r.version = 1 /\ accounts[a] = <<r>>
      BY <2>2, ExistingAssumption DEF NewAccount, AccountRecord
    <3> HIDE DEF r
    <3>2. accounts[a] # <<>> /\ Len(accounts[a]) = 1 /\ accounts[a][1] = r
      BY <3>1
    <3>3. head(a) = NewAccount(Existing[a])
      BY <3>2 DEF head, r
    <3> QED
      BY <2>2, <3>1, <3>2, <3>3 DEF Exists
  <2> QED
    BY <1>1, <2>1, <2>2
<1>3. DOMAIN accounts = Account /\ accounts = [a \in Account |-> accounts[a]]
  BY DEF InitialAccounts
<1> QED
  BY <1>2, <1>3

\* One event per account that is there.
LEMMA CreatedEvents ==
    ASSUME events = SetToSeq({Event("AccountCreated", a, 0) : a \in DOMAIN Existing})
    PROVE  /\ events \in Seq(EventType)
           /\ \A i \in DOMAIN events : events[i].kind = "AccountCreated"
<1> DEFINE E == {Event("AccountCreated", a, 0) : a \in DOMAIN Existing}
<1>2. IsFiniteSet(E)
  <2>1. DOMAIN Existing \in SUBSET Account
    BY ExistingAssumption
  <2>2. IsFiniteSet(DOMAIN Existing)
    BY <2>1, IdsAssumption, FS_Subset
  <2>3. [a \in DOMAIN Existing |-> Event("AccountCreated", a, 0)] \in Surjection(DOMAIN Existing, E)
    BY DEF Surjection
  <2> QED
    BY <2>2, <2>3, FS_Surjection
<1>3. \A ev \in E : ev \in EventType /\ ev.kind = "AccountCreated"
  BY ExistingAssumption DEF Event, EventType, EventKind
<1>4. events = SetToSeq(E)
  OBVIOUS
<1> HIDE DEF E
<1>5. events \in Seq(E)
  BY <1>2, <1>4, SetToSeqFacts
<1>6. events \in Seq(EventType)
  <2>1. E \subseteq EventType
    BY <1>3
  <2> QED
    BY <1>5, <2>1, SeqMonotonic
<1>7. \A i \in DOMAIN events : events[i] \in E
  BY <1>5
<1> QED
  BY <1>3, <1>6, <1>7

\* A store with some accounts, announced or not, and no postings.
LEMMA QuietStart ==
    ASSUME accounts = InitialAccounts, DOMAIN immutable = {}, DOMAIN transfers = {}, active = {},
           events \in Seq(EventType), \A i \in DOMAIN events : events[i].kind = "AccountCreated"
    PROVE  FloorInv /\ TransfersOK /\ Conservation /\ OffsetsOnlyWherePermitted
<1>1. StoreTypeOK /\ VersionChain
  BY InitialAccountsFacts DEF StoreTypeOK, VersionChain, AccountRecord, EventType
<1>2. PostingsFromLog /\ LiveIsUnspent /\ NoDoubleSpend
  BY DEF PostingsFromLog, LiveIsUnspent, NoDoubleSpend, SpentByLog
<1>3. EventsMatchTables /\ EventsTellTheTruth
  <2>1. \A i \in DOMAIN events : events[i].kind \notin LifecycleKind \cup {"TransferCommitted"}
    BY DEF LifecycleKind
  <2>2. \A i, j \in DOMAIN events : ~SameDedupKey(events[i], events[j])
    BY DEF SameDedupKey
  <2> QED
    BY <2>1, <2>2, InitialAccountsFacts DEF EventsMatchTables, EventsTellTheTruth
<1>4. FiniteTables /\ OwnersExist
  BY FS_EmptySet DEF FiniteTables, OwnersExist
<1>5. OverdraftFloor
  <2>1. \A a, asset : Balance(a, asset) = 0
    <3> SUFFICES ASSUME NEW a, NEW asset PROVE Balance(a, asset) = 0
      OBVIOUS
    <3>1. {id \in active : immutable[id].owner = a /\ immutable[id].asset = asset} = {}
      OBVIOUS
    <3> QED
      BY <3>1, ValuesType, FS_EmptySet DEF Balance, HasValues
  <2> QED
    BY <2>1 DEF OverdraftFloor
<1>6. TransfersOK /\ OffsetsOnlyWherePermitted
  BY DEF TransfersOK, OffsetsOnlyWherePermitted
<1>7. Conservation
  <2>1. \A asset \in Asset : {id \in active : immutable[id].asset = asset} = {}
    OBVIOUS
  <2> QED
    BY <2>1, ValuesType, FS_EmptySet DEF Conservation, HasValues
<1> QED
  BY <1>1, <1>2, <1>3, <1>4, <1>5, <1>6, <1>7 DEF FloorInv, StoreInv

-----------------------------------------------------------------------------
(* What validation finds of an envelope and no later write changes. *)

Checked(e) ==
    /\ EnvelopeOK(e)
    /\ ToSet(e.consumes) \subseteq DOMAIN immutable
    /\ NonEmpty(e) /\ IsInjective(e.consumes)
    /\ Conserves(e, Consumed(e))
    /\ \A np \in ToSet(e.creates) :
          Exists(np.owner) /\ (np.value < 0 => ~forbids_overdraft(head(np.owner)))

\* Every stored transfer was checked.
LogChecked == \A t \in DOMAIN transfers : Checked(transfers[t])

\* What the store is like when all its callers validate.
CheckedStore == FloorInv /\ TransfersOK /\ LogChecked

\* What every step leaves of it.
StoreKept == CheckedStore' /\ StoreGrows /\ RecordsKept

\* A checked envelope creates postings of accounts.
LEMMA CreatesFacts ==
    ASSUME NEW e, EnvelopeOK(e)
    PROVE  \A np \in ToSet(e.creates) : np \in Posting /\ np.owner \in Account
<1>1. e.creates \in Seq(Posting)
  BY DEF EnvelopeOK
<1>2. \A np \in Posting : np.owner \in Account
  BY DEF Posting
<1> QED
  BY <1>1, <1>2 DEF ToSet

\* What was checked stays so while the tables grow.
LEMMA CheckedStays ==
    ASSUME NEW e, Checked(e), StoreGrows
    PROVE  Checked(e)'
<1>1. \A np \in ToSet(e.creates) : np.owner \in Account
  BY CreatesFacts DEF Checked
<1>2. Consumed(e)' = Consumed(e)
  BY DEF Checked, StoreGrows, Consumed
<1>3. Conserves(e, Consumed(e))'
  <2>1. Conserves(e, Consumed(e))' <=> Conserves(e, Consumed(e)')
    BY DEF Conserves
  <2> QED
    BY <1>2, <2>1 DEF Checked
<1>4. EnvelopeOK(e)' /\ NonEmpty(e)'
  BY DEF Checked, EnvelopeOK, NonEmpty
<1>5. ToSet(e.consumes) \subseteq DOMAIN immutable'
  BY DEF Checked, StoreGrows
<1>6. \A np \in ToSet(e.creates) :
         Exists(np.owner)' /\ (np.value < 0 => ~forbids_overdraft(head(np.owner)'))
  BY <1>1 DEF Checked, StoreGrows, Exists, head
<1> QED
  BY <1>3, <1>4, <1>5, <1>6 DEF Checked, forbids_overdraft

\* Committing a checked envelope.
LEMMA CommitKeepsChecked ==
    ASSUME NEW e, Checked(e), commit_envelope(CommitRequest(e)), CheckedStore
    PROVE  StoreKept
<1>1. EnvelopeOK(e) /\ e.creates \in Seq(Posting)
  BY DEF Checked, EnvelopeOK
<1>2. FloorInv' /\ StoreGrows /\ RecordsKept
  BY <1>1, CommitKeepsFloor, CommitGrows, CommitKeepsRecords DEF CheckedStore, FloorInv
<1>3. /\ DOMAIN transfers' = DOMAIN transfers \cup {envelope_id(e)}
      /\ \A t \in DOMAIN transfers : transfers'[t] = transfers[t]
      /\ transfers'[envelope_id(e)] = e
  BY CommitEffect
<1>4. TransfersOK'
  <2>1. \A t \in DOMAIN transfers' : EnvelopeOK(transfers'[t]) /\ envelope_id(transfers'[t]) = t
    BY <1>1, <1>3 DEF CheckedStore, TransfersOK
  <2> QED
    BY <2>1 DEF TransfersOK, EnvelopeOK, envelope_id
<1>5. LogChecked'
  <2>1. ASSUME NEW t \in DOMAIN transfers' PROVE Checked(transfers[t])'
    <3>1. \/ t \in DOMAIN transfers /\ transfers'[t] = transfers[t]
          \/ transfers'[t] = e
      BY <1>3
    <3>2. PICK f : f = transfers'[t]
      OBVIOUS
    <3>3. Checked(f)
      BY <3>1, <3>2 DEF CheckedStore, LogChecked
    <3>4. Checked(f)'
      BY <1>2, <3>3, CheckedStays
    <3> QED
      BY <3>2, <3>4
  <2> QED
    BY <2>1 DEF LogChecked
<1> QED
  BY <1>2, <1>4, <1>5 DEF StoreKept, CheckedStore

\* A write that leaves the transfers alone.
LEMMA LogAlone ==
    ASSUME CheckedStore, FloorInv', StoreGrows, RecordsKept, transfers' = transfers
    PROVE  StoreKept
<1>1. TransfersOK'
  <2>1. \A t \in DOMAIN transfers : EnvelopeOK(transfers[t]) /\ envelope_id(transfers[t]) = t
    BY DEF CheckedStore, TransfersOK
  <2> QED
    BY <2>1 DEF TransfersOK, EnvelopeOK, envelope_id
<1>2. LogChecked'
  <2>1. ASSUME NEW t \in DOMAIN transfers' PROVE Checked(transfers[t])'
    <3>1. PICK f : f = transfers'[t]
      OBVIOUS
    <3>2. Checked(f)
      BY <3>1 DEF CheckedStore, LogChecked
    <3>3. Checked(f)'
      BY <3>2, CheckedStays
    <3> QED
      BY <3>1, <3>3
  <2> QED
    BY <2>1 DEF LogChecked
<1> QED
  BY <1>1, <1>2 DEF StoreKept, CheckedStore

\* Nothing happens.
LEMMA NothingHappens == ASSUME CheckedStore, UNCHANGED storeVars PROVE StoreKept
<1>1. transfers' = transfers
  BY DEF storeVars
<1> QED
  BY <1>1, LogAlone, StutterKeeps, StutterKeepsFloor, StutterGrows DEF CheckedStore, FloorInv

\* A transition computed from some version of the account.
LEMMA TransitionKeepsChecked ==
    ASSUME NEW a \in Account, NEW kind \in LifecycleKind, NEW v \in DOMAIN accounts[a],
           CheckedStore, commit_transition(a, NextVersion(kind, accounts[a][v]), kind)
    PROVE  StoreKept
<1>1. CASE TransitionApplied(a, NextVersion(kind, accounts[a][v]), kind)
  <2>1. transfers' = transfers
    BY <1>1 DEF TransitionApplied
  <2> QED
    BY <1>1, <2>1, LogAlone, AppliedKeepsFloor, AppliedKeepsRecords, AppliedGrows
       DEF CheckedStore, FloorInv
<1>2. CASE TransitionAlreadyApplied(a, NextVersion(kind, accounts[a][v]), kind)
  BY <1>2, AlreadyAppliedIsStutter, NothingHappens DEF CheckedStore, FloorInv
<1> QED
  BY <1>1, <1>2 DEF commit_transition

\* Validation checks all of it, on the records of its own step.
LEMMA ValidIsChecked ==
    ASSUME NEW e, EnvelopeOK(e), Valid(e)
    PROVE  Checked(e)
<1> DEFINE con == Consumed(e)
           as == Heads(required_accounts(e, con))
<1>1. /\ ToSet(e.consumes) \subseteq DOMAIN immutable
      /\ \A a \in required_accounts(e, con) : Exists(a)
      /\ NonEmpty(e) /\ ConsumesOnce(e, con) /\ Conserves(e, con) /\ NoForbiddenOffset(e, as)
  BY DEF Valid, Loadable, validate
<1>2. \A np \in ToSet(e.creates) : np.owner \in required_accounts(e, con)
  BY DEF required_accounts, posting_owners, referenced_accounts
<1>3. \A np \in ToSet(e.creates) : as[np.owner] = head(np.owner)
  BY <1>2 DEF Heads
<1>4. \A np \in ToSet(e.creates) : np.value < 0 => ~forbids_overdraft(head(np.owner))
  BY <1>1, <1>3 DEF NoForbiddenOffset
<1> QED
  BY <1>1, <1>2, <1>4 DEF Checked, ConsumesOnce

\* What a transfer becomes is checked.
LEMMA BuiltIsChecked ==
    ASSUME CheckedStore, NEW t, WellTyped(t), NEW e \in Built(t)
    PROVE  /\ Checked(e) /\ e = Pinned(resolve(t)) /\ Valid(e)
           /\ e.consumes = resolve(t).consumes /\ e.creates = resolve(t).creates
           /\ e.metadata = resolve(t).metadata
<1>1. e = Pinned(resolve(t)) /\ Valid(e) /\ Resolvable(t)
  BY DEF Built
<1>2. EnvelopeOK(resolve(t))
  BY ResolveFacts DEF CheckedStore, FloorInv
<1>3. /\ EnvelopeOK(e) /\ e.consumes = resolve(t).consumes /\ e.creates = resolve(t).creates
      /\ e.metadata = resolve(t).metadata
  BY <1>1, <1>2, PinFacts DEF Pinned, EnvelopeOK
<1> QED
  BY <1>1, <1>3, ValidIsChecked
=============================================================================
