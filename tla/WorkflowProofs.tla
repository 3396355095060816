--------------------------- MODULE WorkflowProofs ----------------------------
(***************************************************************************)
(* The two services on top of the ledger, for any number of clients.       *)
(*                                                                         *)
(* Part 1, run_movements (Saga): what a multi-transfer workflow keeps, for *)
(* any legs and any other clients.                                         *)
(*                                                                         *)
(* Part 2, inflight holds (Inflight): what is authorized on a hold is      *)
(* settled once or still held, for any trades and any races. The log says  *)
(* what each transfer does to a hold, and a hold is claimed by at most one *)
(* authorization before it is paid into.                                   *)
(***************************************************************************)
EXTENDS Saga, Inflight, CommitStoreProofs


-----------------------------------------------------------------------------
(* Part 1, run_movements: what a runner knows between two calls. *)

Labels == {"idle", "leg", "store_leg", "reverse", "store_reversal"}
Outcomes == {"none", "ok", "error", "unbuilt", "compensation_failed"}

RunnerTypes ==
    /\ pc \in [Runner -> Labels] /\ outcome \in [Runner -> Outcomes]
    /\ envelope = [p \in Runner |-> envelope[p]]
    /\ receipts = [p \in Runner |-> receipts[p]]
    /\ undo = [p \in Runner |-> undo[p]]

\* e consumes what tid created and creates what it consumed.
Undoes(e, tid) ==
    e.consumes = Reversal(tid).consumes /\ e.creates = Reversal(tid).creates

\* While it unwinds, every leg is still to reverse or undone already.
UnwindOK(p) ==
    /\ undo[p] # <<>>
    /\ \A tid \in ToSet(receipts[p]) : tid \in ToSet(undo[p]) \/ Undone(tid)

RunnerOK(p) ==
    /\ receipts[p] \in Seq(DOMAIN transfers) /\ undo[p] \in Seq(ToSet(receipts[p]))
    /\ pc[p] # "idle" => outcome[p] = "none"
    /\ pc[p] \in {"idle", "leg", "store_leg"} => undo[p] = <<>>
    /\ pc[p] \in {"leg", "store_leg"} => Len(receipts[p]) < Len(Movements[p])
    /\ pc[p] \in {"store_leg", "store_reversal"} => Checked(envelope[p])
    /\ pc[p] \in {"reverse", "store_reversal"} => UnwindOK(p)
    /\ pc[p] = "store_reversal" => Undoes(envelope[p], Head(undo[p]))
    /\ outcome[p] = "error" => \A tid \in ToSet(receipts[p]) : Undone(tid)
    /\ outcome[p] = "ok" => Len(receipts[p]) = Len(Movements[p])

\* Two runners that were answered with one transfer know that it is shared.
SharedOK ==
    \A p, q \in Runner : p # q => ToSet(receipts[p]) \cap ToSet(receipts[q]) \subseteq shared

\* The inductive invariant of the workflows.
SagaInv ==
    CheckedStore /\ RunnerTypes /\ (\A p \in Runner : RunnerOK(p)) /\ SharedOK

-----------------------------------------------------------------------------
(* Reversals. *)

\* The reversal of a stored transfer is always the same.
LEMMA ReversalStays ==
    ASSUME NEW tid \in DOMAIN transfers, StoreInv, StoreKept
    PROVE  Reversal(tid)' = Reversal(tid)
<1>1. tid \in DOMAIN transfers' /\ transfers'[tid] = transfers[tid]
  BY DEF StoreKept, RecordsKept
<1>2. \A i \in DOMAIN transfers[tid].consumes :
         immutable'[transfers[tid].consumes[i]] = immutable[transfers[tid].consumes[i]]
  <2>1. \A i \in DOMAIN transfers[tid].consumes : transfers[tid].consumes[i] \in SpentByLog
    BY DEF SpentByLog, ToSet
  <2> QED
    BY <2>1 DEF StoreInv, LiveIsUnspent, StoreKept, StoreGrows
<1> QED
  BY <1>1, <1>2 DEF Reversal

\* What is undone stays undone: nothing is ever taken out of the log.
LEMMA UndoneStays ==
    ASSUME NEW tid \in DOMAIN transfers, StoreInv, StoreKept, Undone(tid)
    PROVE  Undone(tid)'
<1>1. Reversal(tid)' = Reversal(tid)
  BY ReversalStays
<1>2. PICK u \in DOMAIN transfers : /\ transfers[u].consumes = Reversal(tid).consumes
                                    /\ transfers[u].creates = Reversal(tid).creates
  BY DEF Undone
<1>3. u \in DOMAIN transfers' /\ transfers'[u] = transfers[u]
  BY DEF StoreKept, RecordsKept
<1> QED
  BY <1>1, <1>2, <1>3 DEF Undone

\* A runner that takes no step keeps what it knows, whatever the others do.
LEMMA RunnerWaits ==
    ASSUME NEW p \in Runner, RunnerOK(p), StoreInv, StoreKept,
           pc'[p] = pc[p], envelope'[p] = envelope[p], receipts'[p] = receipts[p],
           undo'[p] = undo[p], outcome'[p] = outcome[p]
    PROVE  RunnerOK(p)'
<1>1. /\ receipts[p] \in Seq(DOMAIN transfers) /\ receipts'[p] \in Seq(DOMAIN transfers')
      /\ ToSet(receipts[p]) \subseteq DOMAIN transfers
      /\ undo'[p] \in Seq(ToSet(receipts'[p]))
  <2>1. receipts[p] \in Seq(DOMAIN transfers) /\ undo[p] \in Seq(ToSet(receipts[p]))
    BY DEF RunnerOK
  <2>2. DOMAIN transfers \subseteq DOMAIN transfers'
    BY DEF StoreKept, RecordsKept
  <2>3. receipts[p] \in Seq(DOMAIN transfers')
    BY <2>1, <2>2, SeqMonotonic
  <2>4. ToSet(receipts[p]) \subseteq DOMAIN transfers
    BY <2>1 DEF ToSet
  <2> QED
    BY <2>1, <2>3, <2>4
<1>2. \A tid \in ToSet(receipts[p]) : Undone(tid) => Undone(tid)'
  BY <1>1, UndoneStays
<1>3. Checked(envelope[p]) => Checked(envelope[p])'
  <2> SUFFICES ASSUME NEW e, e = envelope[p], Checked(e) PROVE Checked(e)'
    OBVIOUS
  <2> QED
    BY CheckedStays DEF StoreKept
<1>4. pc[p] = "store_reversal" => Undoes(envelope[p], Head(undo[p]))'
  <2> SUFFICES ASSUME pc[p] = "store_reversal" PROVE Undoes(envelope[p], Head(undo[p]))'
    OBVIOUS
  <2>1. undo[p] # <<>> /\ undo[p] \in Seq(ToSet(receipts[p])) /\ Undoes(envelope[p], Head(undo[p]))
    BY DEF RunnerOK, UnwindOK
  <2>2. PICK tid : tid = Head(undo[p])
    OBVIOUS
  <2>3. tid \in DOMAIN transfers
    BY <1>1, <2>1, <2>2
  <2>4. Reversal(tid)' = Reversal(tid)
    BY <2>3, ReversalStays
  <2> QED
    BY <2>1, <2>2, <2>4 DEF Undoes
<1>5. UnwindOK(p) => UnwindOK(p)'
  BY <1>2 DEF UnwindOK
<1> QED
  BY <1>1, <1>2, <1>3, <1>4, <1>5 DEF RunnerOK

\* A step of one runner: its own part is shown, the others wait.
LEMMA OneRunnerMoves ==
    ASSUME NEW p \in Runner, SagaInv, StoreKept, RunnerTypes', RunnerOK(p)', SharedOK',
           \A q \in Runner : q # p =>
               /\ pc'[q] = pc[q] /\ envelope'[q] = envelope[q] /\ receipts'[q] = receipts[q]
               /\ undo'[q] = undo[q] /\ outcome'[q] = outcome[q]
    PROVE  SagaInv'
<1>1. ASSUME NEW q \in Runner, q # p PROVE RunnerOK(q)'
  BY <1>1, RunnerWaits DEF SagaInv, CheckedStore, FloorInv
<1> QED
  BY <1>1 DEF SagaInv, StoreKept

\* A step of another client.
LEMMA OthersMove ==
    ASSUME SagaInv, StoreKept, UNCHANGED runnerVars
    PROVE  SagaInv'
<1>1. /\ pc' = pc /\ envelope' = envelope /\ receipts' = receipts /\ undo' = undo
      /\ outcome' = outcome /\ shared' = shared
  BY DEF runnerVars
<1>2. \A p \in Runner : RunnerOK(p)'
  BY <1>1, RunnerWaits DEF SagaInv, CheckedStore, FloorInv
<1>3. RunnerTypes' /\ SharedOK'
  BY <1>1 DEF SagaInv, RunnerTypes, SharedOK
<1> QED
  BY <1>2, <1>3 DEF SagaInv, StoreKept

-----------------------------------------------------------------------------
(* The start. *)

\* The opening envelope is one that validation lets through.
LEMMA OpeningChecked ==
    ASSUME accounts = InitialAccounts
    PROVE  Checked(Opening) /\ \A np \in ToSet(Opening.creates) : np.owner \in Account
<1>1. /\ Opening.consumes = <<>> /\ Opening.creates \in Seq(Posting) /\ Opening.creates # <<>>
      /\ Conserves(Opening, <<>>)
      /\ \A np \in ToSet(Opening.creates) :
            /\ np.owner \in DOMAIN Existing
            /\ np.value < 0 => "DEBIT_MUST_NOT_EXCEED_CREDIT" \notin Existing[np.owner]
  <2>1. Opening.consumes = <<>>
    BY OpeningAssumption DEF Envelope
  <2> QED
    BY <2>1, OpeningAssumption
<1>2. EnvelopeOK(Opening)
  <2>1. <<>> \in Seq({})
    OBVIOUS
  <2>2. EnvelopeOK(Envelope(<<>>, Opening.creates, Opening.book, Opening.metadata))
    BY <1>1, <2>1, EnvelopeFacts
  <2> QED
    BY <2>2, OpeningAssumption
<1>3. ToSet(Opening.consumes) = {} /\ IsInjective(Opening.consumes) /\ NonEmpty(Opening)
  BY <1>1 DEF ToSet, IsInjective, NonEmpty
<1>4. Conserves(Opening, Consumed(Opening))
  <2>1. Consumed(Opening) = <<>>
    BY <1>3 DEF Consumed
  <2> QED
    BY <1>1, <2>1
<1>5. \A np \in ToSet(Opening.creates) :
         /\ np.owner \in Account /\ Exists(np.owner)
         /\ np.value < 0 => ~forbids_overdraft(head(np.owner))
  <2>1. \A np \in ToSet(Opening.creates) : np.owner \in Account
    BY <1>1, ExistingAssumption
  <2>2. \A a \in DOMAIN Existing : NewAccount(Existing[a]).flags = Existing[a]
    BY DEF NewAccount
  <2> QED
    BY <1>1, <2>1, <2>2, InitialAccountsFacts DEF forbids_overdraft
<1> QED
  BY <1>2, <1>3, <1>4, <1>5 DEF Checked

\* What the opening envelope created is all there is.
LEMMA OpeningTables ==
    ASSUME Init
    PROVE  StoreInv /\ FiniteTables /\ OwnersExist
<1> DEFINE tid == envelope_id(Opening)
           ev == TransferCommitted(tid)
<1>1. Opening.creates \in Seq(Posting) /\ Opening.consumes = <<>>
  <2>1. Opening.consumes = <<>>
    BY OpeningAssumption DEF Envelope
  <2> QED
    BY <2>1, OpeningAssumption
<1>2. /\ immutable = postings_to_create(Opening) /\ active = DOMAIN immutable
      /\ transfers = [t \in {tid} |-> Opening] /\ events = <<ev>>
      /\ accounts = InitialAccounts
  BY DEF Init
<1>3. /\ DOMAIN immutable = NewIds(Opening) /\ IsFiniteSet(NewIds(Opening))
      /\ \A i \in DOMAIN Opening.creates : /\ immutable[<<tid, i>>] = Opening.creates[i]
                                           /\ Opening.creates[i] \in Posting
  BY <1>1, <1>2, CreatedRows, NewIdsFacts
<1>4. DOMAIN transfers = {tid} /\ transfers[tid] = Opening
  BY <1>2
<1>5. ev.kind = "TransferCommitted" /\ ev.subject = tid /\ ev \in EventType
  BY <1>4 DEF TransferCommitted, Event, EventType, EventKind
<1>6. DOMAIN events = {1} /\ events[1] = ev /\ events \in Seq(EventType)
  BY <1>2, <1>5
<1> HIDE DEF tid, ev
<1>7. StoreTypeOK
  <2>1. accounts \in [Account -> Seq(AccountRecord)]
    BY <1>2, InitialAccountsFacts
  <2>2. \A id \in DOMAIN immutable : immutable[id] \in Posting
    BY <1>3 DEF NewIds, tid
  <2> QED
    BY <1>2, <1>6, <2>1, <2>2 DEF StoreTypeOK, AccountRecord, EventType
<1>8. PostingsFromLog
  <2>1. ASSUME NEW id \in DOMAIN immutable
        PROVE  /\ id = <<id[1], id[2]>> /\ id[1] \in DOMAIN transfers
               /\ id[2] \in DOMAIN transfers[id[1]].creates
               /\ immutable[id] = transfers[id[1]].creates[id[2]]
    <3>1. PICK i \in DOMAIN Opening.creates : id = <<tid, i>>
      BY <1>3 DEF NewIds, tid
    <3> QED
      BY <1>3, <1>4, <3>1
  <2>2. \A t \in DOMAIN transfers : \A i \in DOMAIN transfers[t].creates : <<t, i>> \in DOMAIN immutable
    BY <1>3, <1>4 DEF NewIds, tid
  <2> QED
    BY <2>1, <2>2 DEF PostingsFromLog
<1>9. LiveIsUnspent /\ NoDoubleSpend
  <2>1. ToSet(Opening.consumes) = {}
    BY <1>1 DEF ToSet
  <2>2. SpentByLog = {}
    BY <1>4, <2>1 DEF SpentByLog
  <2> QED
    BY <1>2, <1>4, <2>2 DEF LiveIsUnspent, NoDoubleSpend
<1>10. VersionChain
  BY <1>2, InitialAccountsFacts DEF VersionChain
<1>11. EventsMatchTables /\ EventsTellTheTruth
  <2>1. \A a \in Account : 2..Len(accounts[a]) = {}
    BY <1>2, InitialAccountsFacts
  <2>2. ev.kind \notin LifecycleKind
    BY <1>5 DEF LifecycleKind
  <2>3. \A t \in DOMAIN transfers : TransferCommitted(t) = ev
    BY <1>4 DEF ev
  <2> QED
    BY <1>4, <1>5, <1>6, <2>1, <2>2, <2>3 DEF EventsMatchTables, EventsTellTheTruth
<1>12. OwnersExist
  <2>1. \A np \in ToSet(Opening.creates) : np.owner \in Account /\ Exists(np.owner)
    BY <1>2, OpeningChecked DEF Checked
  <2>2. \A id \in DOMAIN immutable : immutable[id] \in ToSet(Opening.creates)
    BY <1>3 DEF NewIds, ToSet, tid
  <2> QED
    BY <2>1, <2>2 DEF OwnersExist
<1> QED
  BY <1>3, <1>7, <1>8, <1>9, <1>10, <1>11, <1>12 DEF StoreInv, FiniteTables

\* The store the runners find.
LEMMA OpeningStore ==
    ASSUME Init
    PROVE  CheckedStore
<1> DEFINE tid == envelope_id(Opening)
<1>1. /\ immutable = postings_to_create(Opening) /\ active = DOMAIN immutable
      /\ DOMAIN transfers = {tid} /\ transfers[tid] = Opening /\ accounts = InitialAccounts
  BY DEF Init
<1>2. Checked(Opening) /\ EnvelopeOK(Opening) /\ Opening.creates \in Seq(Posting)
  BY <1>1, OpeningChecked DEF Checked, EnvelopeOK
<1>3. StoreInv /\ FiniteTables /\ OwnersExist
  BY OpeningTables
<1>4. OverdraftFloor
  <2> SUFFICES ASSUME NEW a \in Account, Exists(a), forbids_overdraft(head(a)), NEW asset \in Asset
               PROVE  Balance(a, asset) >= 0
    BY DEF OverdraftFloor
  <2> DEFINE S == {id \in active : immutable[id].owner = a /\ immutable[id].asset = asset}
  <2>1. DOMAIN immutable = NewIds(Opening)
        /\ \A i \in DOMAIN Opening.creates : immutable[<<tid, i>>] = Opening.creates[i]
    BY <1>1, CreatedRows
  <2>2. \A id \in DOMAIN immutable : immutable[id] \in ToSet(Opening.creates)
    BY <2>1 DEF NewIds, ToSet
  <2>3. \A id \in S : immutable[id].value \in Int /\ immutable[id].value >= 0
    <3>1. \A id \in DOMAIN immutable : immutable[id].value \in Int
      BY <1>3 DEF StoreInv, StoreTypeOK, Posting
    <3>2. \A id \in S : ~(immutable[id].value < 0)
      BY <1>1, <1>2, <2>2 DEF Checked
    <3> QED
      BY <1>1, <3>1, <3>2
  <2>4. HasValues(immutable, S)
    <3>1. S \in SUBSET DOMAIN immutable
      BY <1>1
    <3>2. IsFiniteSet(S)
      BY <1>3, <3>1, FS_Subset DEF FiniteTables
    <3> QED
      BY <2>3, <3>2 DEF HasValues
  <2> HIDE DEF S
  <2>5. SumValues(immutable, S) >= 0
    BY <2>3, <2>4, ValuesNonNegative
  <2> QED
    BY <2>5 DEF S, Balance
<1>5. TransfersOK
  BY <1>1, <1>2 DEF TransfersOK
<1>6. LogChecked
  BY <1>1, <1>2 DEF LogChecked
<1> QED
  BY <1>3, <1>4, <1>5, <1>6 DEF CheckedStore, FloorInv

\* Nobody runs yet.
LEMMA InitInv ==
    ASSUME Init
    PROVE  SagaInv
<1>1. CheckedStore
  BY OpeningStore
<1>2. /\ pc = [p \in Runner |-> "idle"] /\ envelope = [p \in Runner |-> NoEnvelope]
      /\ receipts = [p \in Runner |-> <<>>] /\ undo = [p \in Runner |-> <<>>]
      /\ outcome = [p \in Runner |-> "none"]
  BY DEF Init
<1>3. RunnerTypes
  BY <1>2 DEF RunnerTypes, Labels, Outcomes
<1>4. \A p \in Runner : RunnerOK(p)
  BY <1>2 DEF RunnerOK, ToSet
<1>5. SharedOK
  BY <1>2 DEF SharedOK, ToSet
<1> QED
  BY <1>1, <1>3, <1>4, <1>5 DEF SagaInv

-----------------------------------------------------------------------------
(* What the steps of a runner have in common. *)

\* Only runner p's part changes.
LocalStep(p) ==
    /\ \E l \in Labels : pc' = [pc EXCEPT ![p] = l]
    /\ \E o \in Outcomes : outcome' = [outcome EXCEPT ![p] = o]
    /\ \E e : envelope' = [envelope EXCEPT ![p] = e]
    /\ \E s : receipts' = [receipts EXCEPT ![p] = s]
    /\ \E s : undo' = [undo EXCEPT ![p] = s]

LEMMA RunnerSteps ==
    ASSUME NEW p \in Runner, SagaInv, StoreKept, LocalStep(p), RunnerOK(p)', SharedOK'
    PROVE  SagaInv'
<1>1. /\ pc \in [Runner -> Labels] /\ outcome \in [Runner -> Outcomes]
      /\ envelope = [q \in Runner |-> envelope[q]] /\ receipts = [q \in Runner |-> receipts[q]]
      /\ undo = [q \in Runner |-> undo[q]]
  BY DEF SagaInv, RunnerTypes
<1>2. PICK e : envelope' = [envelope EXCEPT ![p] = e]
  BY DEF LocalStep
<1>3. PICK s : receipts' = [receipts EXCEPT ![p] = s]
  BY DEF LocalStep
<1>4. PICK u : undo' = [undo EXCEPT ![p] = u]
  BY DEF LocalStep
<1>5. pc' \in [Runner -> Labels] /\ outcome' \in [Runner -> Outcomes]
      /\ \A q \in Runner : q # p => pc'[q] = pc[q] /\ outcome'[q] = outcome[q]
  BY <1>1 DEF LocalStep
<1>6. envelope' = [q \in Runner |-> envelope'[q]] /\ \A q \in Runner : q # p => envelope'[q] = envelope[q]
  BY <1>1, <1>2
<1>7. receipts' = [q \in Runner |-> receipts'[q]] /\ \A q \in Runner : q # p => receipts'[q] = receipts[q]
  BY <1>1, <1>3
<1>8. undo' = [q \in Runner |-> undo'[q]] /\ \A q \in Runner : q # p => undo'[q] = undo[q]
  BY <1>1, <1>4
<1>9. RunnerTypes'
  BY <1>5, <1>6, <1>7, <1>8 DEF RunnerTypes
<1> QED
  BY <1>5, <1>6, <1>7, <1>8, <1>9, OneRunnerMoves

\* What p knows of the log and keeps knowing.
LEMMA OwnPart ==
    ASSUME NEW p \in Runner, SagaInv, StoreKept
    PROVE  /\ receipts[p] \in Seq(DOMAIN transfers) /\ receipts[p] \in Seq(DOMAIN transfers')
           /\ ToSet(receipts[p]) \subseteq DOMAIN transfers /\ undo[p] \in Seq(ToSet(receipts[p]))
           /\ \A tid \in ToSet(receipts[p]) : Undone(tid) => Undone(tid)'
           /\ \A tid \in DOMAIN transfers : Reversal(tid)' = Reversal(tid)
<1>1. receipts[p] \in Seq(DOMAIN transfers) /\ undo[p] \in Seq(ToSet(receipts[p]))
  BY DEF SagaInv, RunnerOK
<1>2. DOMAIN transfers \subseteq DOMAIN transfers' /\ StoreInv
  BY DEF SagaInv, CheckedStore, FloorInv, StoreKept, RecordsKept
<1>3. receipts[p] \in Seq(DOMAIN transfers')
  BY <1>1, <1>2, SeqMonotonic
<1>4. ToSet(receipts[p]) \subseteq DOMAIN transfers
  BY <1>1 DEF ToSet
<1> QED
  BY <1>1, <1>2, <1>3, <1>4, UndoneStays, ReversalStays

\* run_movements returns.
LEMMA Returned ==
    ASSUME NEW p \in Runner, SagaInv, NEW result \in Outcomes \ {"none"}, Return(p, result),
           receipts'[p] \in Seq(DOMAIN transfers'),
           result = "error" => \A tid \in ToSet(receipts'[p]) : Undone(tid)',
           result = "ok" => Len(receipts'[p]) = Len(Movements[p])
    PROVE  RunnerOK(p)'
<1>1. pc \in [Runner -> Labels] /\ outcome \in [Runner -> Outcomes] /\ undo = [q \in Runner |-> undo[q]]
  BY DEF SagaInv, RunnerTypes
<1>2. pc'[p] = "idle" /\ outcome'[p] = result /\ undo'[p] = <<>>
  BY <1>1 DEF Return, Goto
<1> QED
  BY <1>2 DEF RunnerOK

\* A list reversed has the same elements.
LEMMA ReverseFacts ==
    ASSUME NEW S, NEW s \in Seq(S)
    PROVE  Reverse(s) \in Seq(ToSet(s)) /\ ToSet(Reverse(s)) = ToSet(s) /\ (s # <<>> => Reverse(s) # <<>>)
<1> DEFINE n == Len(s)
           r == Reverse(s)
<1>1. n \in Nat /\ DOMAIN s = 1..n
  OBVIOUS
<1>2. r = [i \in 1..n |-> s[(n - i) + 1]]
  BY DEF Reverse
<1> HIDE DEF n, r
<1>3. \A i \in 1..n : (n - i) + 1 \in 1..n /\ r[i] = s[(n - i) + 1] /\ r[(n - i) + 1] = s[i]
  <2> SUFFICES ASSUME NEW i \in 1..n
               PROVE  (n - i) + 1 \in 1..n /\ r[i] = s[(n - i) + 1] /\ r[(n - i) + 1] = s[i]
    OBVIOUS
  <2>1. (n - i) + 1 \in 1..n /\ (n - ((n - i) + 1)) + 1 = i
    BY <1>1
  <2> QED
    BY <1>2, <2>1
<1>4. r \in [1..n -> ToSet(s)]
  BY <1>1, <1>2, <1>3 DEF ToSet
<1>5. r \in Seq(ToSet(s)) /\ DOMAIN r = 1..n
  BY <1>1, <1>4, FunctionIsSeq
<1>6. ToSet(r) = ToSet(s)
  <2>1. \A i \in 1..n : r[i] \in ToSet(s) /\ s[i] \in ToSet(r)
    <3> SUFFICES ASSUME NEW i \in 1..n PROVE r[i] \in ToSet(s) /\ s[i] \in ToSet(r)
      OBVIOUS
    <3>1. r[i] \in ToSet(s)
      BY <1>4
    <3>2. (n - i) + 1 \in DOMAIN r /\ r[(n - i) + 1] = s[i]
      BY <1>3, <1>5
    <3> QED
      BY <3>1, <3>2 DEF ToSet
  <2> QED
    BY <1>1, <1>5, <2>1 DEF ToSet
<1>7. s # <<>> => r # <<>>
  BY <1>1, <1>5 DEF n
<1> QED
  BY <1>5, <1>6, <1>7 DEF r

-----------------------------------------------------------------------------
(* The steps of a runner. *)

\* A runner keeps its label or moves to another one, and so on.
LEMMA StartKeeps ==
    ASSUME NEW p \in Runner, SagaInv, Start(p)
    PROVE  SagaInv'
<1>1. /\ pc[p] = "idle" /\ outcome' = [outcome EXCEPT ![p] = "none"]
      /\ receipts' = [receipts EXCEPT ![p] = <<>>] /\ pc' = [pc EXCEPT ![p] = "leg"]
      /\ UNCHANGED storeVars /\ envelope' = envelope /\ undo' = undo /\ shared' = shared
  BY DEF Start, Goto
<1>2. /\ pc \in [Runner -> Labels] /\ outcome \in [Runner -> Outcomes]
      /\ envelope = [q \in Runner |-> envelope[q]] /\ receipts = [q \in Runner |-> receipts[q]]
      /\ undo = [q \in Runner |-> undo[q]] /\ RunnerOK(p)
  BY DEF SagaInv, RunnerTypes
<1>3. StoreKept
  BY <1>1, NothingHappens DEF SagaInv
<1>4. LocalStep(p)
  <2>1. "leg" \in Labels /\ "none" \in Outcomes
    BY DEF Labels, Outcomes
  <2>2. envelope' = [envelope EXCEPT ![p] = envelope[p]] /\ undo' = [undo EXCEPT ![p] = undo[p]]
    BY <1>1, <1>2
  <2> QED
    BY <1>1, <2>1, <2>2 DEF LocalStep
<1>5. RunnerOK(p)'
  <2>1. pc'[p] = "leg" /\ outcome'[p] = "none" /\ receipts'[p] = <<>> /\ undo'[p] = <<>>
    BY <1>1, <1>2 DEF RunnerOK
  <2>2. Movements[p] # <<>> /\ Len(Movements[p]) > 0
    <3>1. Movements[p] \in Seq(Range(Movements[p])) \ {<<>>}
      BY RequestsAssumption
    <3> QED
      BY <3>1
  <2> QED
    BY <2>1, <2>2 DEF RunnerOK
<1>6. SharedOK'
  <2>1. ToSet(<<>>) = {}
    BY DEF ToSet
  <2>2. \A q \in Runner : receipts'[q] = receipts[q] \/ receipts'[q] = <<>>
    BY <1>1, <1>2
  <2> QED
    BY <1>1, <2>1, <2>2 DEF SagaInv, SharedOK
<1> QED
  BY <1>3, <1>4, <1>5, <1>6, RunnerSteps

\* A leg failed: nothing is to be undone, or all of it.
LEMMA UnwindKeeps ==
    ASSUME NEW p \in Runner, SagaInv, StoreKept, pc[p] \in {"leg", "store_leg"}, Unwind(p),
           receipts' = receipts
    PROVE  RunnerOK(p)'
<1>1. /\ pc \in [Runner -> Labels] /\ outcome \in [Runner -> Outcomes]
      /\ undo = [q \in Runner |-> undo[q]] /\ outcome[p] = "none"
  BY DEF SagaInv, RunnerTypes, RunnerOK
<1>2. CASE receipts[p] = <<>>
  <2>1. Return(p, "error")
    BY <1>2 DEF Unwind
  <2>2. "error" \in Outcomes \ {"none"} /\ ToSet(receipts'[p]) = {}
    BY <1>2 DEF Outcomes, ToSet
  <2>3. receipts'[p] \in Seq(DOMAIN transfers')
    BY OwnPart
  <2> QED
    BY <2>1, <2>2, <2>3, Returned
<1>3. CASE receipts[p] # <<>>
  <2> DEFINE r == receipts[p]
  <2>1. /\ pc'[p] = "reverse" /\ undo'[p] = Reverse(r) /\ outcome'[p] = "none"
    BY <1>1, <1>3 DEF Unwind, Goto
  <2>2. r \in Seq(DOMAIN transfers) /\ r \in Seq(DOMAIN transfers')
    BY OwnPart
  <2> HIDE DEF r
  <2>3. Reverse(r) \in Seq(ToSet(r)) /\ ToSet(Reverse(r)) = ToSet(r) /\ Reverse(r) # <<>>
    BY <1>3, <2>2, ReverseFacts DEF r
  <2>4. UnwindOK(p)'
    BY <2>1, <2>3 DEF UnwindOK, r
  <2> QED
    BY <2>1, <2>2, <2>3, <2>4 DEF RunnerOK, r
<1> QED
  BY <1>2, <1>3

\* Building a leg.
LEMMA CommitLegKeeps ==
    ASSUME NEW p \in Runner, SagaInv, CommitLeg(p)
    PROVE  SagaInv'
<1> DEFINE leg == Movements[p][Len(receipts[p]) + 1]
<1>1. /\ pc[p] = "leg" /\ UNCHANGED storeVars /\ receipts' = receipts /\ shared' = shared
  BY DEF CommitLeg
<1>2. /\ pc \in [Runner -> Labels] /\ outcome \in [Runner -> Outcomes]
      /\ envelope = [q \in Runner |-> envelope[q]] /\ receipts = [q \in Runner |-> receipts[q]]
      /\ undo = [q \in Runner |-> undo[q]] /\ outcome[p] = "none" /\ undo[p] = <<>>
      /\ Len(receipts[p]) < Len(Movements[p]) /\ receipts[p] \in Seq(DOMAIN transfers)
  BY <1>1 DEF SagaInv, RunnerTypes, RunnerOK
<1>3. StoreKept
  BY <1>1, NothingHappens DEF SagaInv
<1>4. WellTyped(build(leg))
  <2>1. Movements[p] \in Seq(Range(Movements[p]))
    BY RequestsAssumption
  <2>2. Len(receipts[p]) + 1 \in DOMAIN Movements[p]
    BY <1>2, <2>1
  <2>3. leg \in Range(Movements[p])
    BY <2>1, <2>2
  <2> QED
    BY <2>3, RequestsAssumption
<1>5. SharedOK'
  BY <1>1 DEF SagaInv, SharedOK
<1>6. /\ envelope = [envelope EXCEPT ![p] = envelope[p]] /\ receipts = [receipts EXCEPT ![p] = receipts[p]]
      /\ undo = [undo EXCEPT ![p] = undo[p]] /\ outcome = [outcome EXCEPT ![p] = outcome[p]]
      /\ pc = [pc EXCEPT ![p] = pc[p]] /\ pc[p] \in Labels /\ outcome[p] \in Outcomes
  BY <1>2
<1>7. Labels = {"idle", "leg", "store_leg", "reverse", "store_reversal"}
      /\ Outcomes = {"none", "ok", "error", "unbuilt", "compensation_failed"}
  BY DEF Labels, Outcomes
<1> HIDE DEF leg
<1>8. ASSUME NEW e \in Built(build(leg)), envelope' = [envelope EXCEPT ![p] = e],
             Goto(p, "store_leg"), UNCHANGED <<undo, outcome>>
      PROVE  LocalStep(p) /\ RunnerOK(p)'
  <2>1. LocalStep(p)
    BY <1>1, <1>6, <1>7, <1>8 DEF LocalStep, Goto
  <2>2. pc'[p] = "store_leg" /\ envelope'[p] = e /\ undo'[p] = <<>> /\ outcome'[p] = "none"
    BY <1>2, <1>8 DEF Goto
  <2>3. Checked(e)'
    <3>1. Checked(e)
      BY <1>4, <1>8, BuiltIsChecked DEF SagaInv
    <3> QED
      BY <1>3, <3>1, CheckedStays DEF StoreKept
  <2>4. receipts'[p] \in Seq(DOMAIN transfers')
    BY <1>1, <1>3, OwnPart
  <2>5. Checked(envelope[p])'
    BY <2>2, <2>3 DEF Checked, EnvelopeOK, Consumed, Exists, head, NonEmpty
  <2> QED
    BY <1>1, <1>2, <2>1, <2>2, <2>4, <2>5 DEF RunnerOK
<1>9. ASSUME Unwind(p), UNCHANGED envelope
      PROVE  LocalStep(p) /\ RunnerOK(p)'
  <2>1. LocalStep(p)
    BY <1>1, <1>6, <1>7, <1>9 DEF LocalStep, Unwind, Return, Goto
  <2> QED
    BY <1>1, <1>3, <1>9, <2>1, UnwindKeeps
<1>10. ASSUME Return(p, "unbuilt"), UNCHANGED envelope
       PROVE  LocalStep(p) /\ RunnerOK(p)'
  <2>1. LocalStep(p)
    BY <1>1, <1>6, <1>7, <1>10 DEF LocalStep, Return, Goto
  <2>2. receipts'[p] \in Seq(DOMAIN transfers')
    BY <1>1, <1>3, OwnPart
  <2> QED
    BY <1>7, <1>10, <2>1, <2>2, Returned
<1> QED
  BY <1>3, <1>5, <1>8, <1>9, <1>10, RunnerSteps DEF CommitLeg, leg

\* A leg answered with a receipt: it is in the log, and it is the only new one.
LEMMA AnsweredKeeps ==
    ASSUME NEW p \in Runner, SagaInv, StoreKept, pc[p] = "store_leg", Answered(p),
           NEW id \in DOMAIN transfers', id = envelope_id(envelope[p]), envelope' = envelope
    PROVE  /\ LocalStep(p) /\ RunnerOK(p)'
           /\ ToSet(receipts'[p]) \subseteq ToSet(receipts[p]) \cup {id}
           /\ \A q \in Runner : q # p => receipts'[q] = receipts[q]
<1>1. /\ pc \in [Runner -> Labels] /\ outcome \in [Runner -> Outcomes]
      /\ envelope = [q \in Runner |-> envelope[q]] /\ receipts = [q \in Runner |-> receipts[q]]
      /\ undo = [q \in Runner |-> undo[q]] /\ outcome[p] = "none" /\ undo[p] = <<>>
      /\ Len(receipts[p]) < Len(Movements[p]) /\ receipts[p] \in Seq(DOMAIN transfers)
  BY DEF SagaInv, RunnerTypes, RunnerOK
<1>2. receipts' = [receipts EXCEPT ![p] = Append(receipts[p], id)]
  BY DEF Answered
<1>3. Len(Movements[p]) \in Nat
  <2>1. Movements[p] \in Seq(Range(Movements[p]))
    BY RequestsAssumption
  <2> QED
    BY <2>1
<1> DEFINE r == receipts[p]
<1>4. receipts'[p] = Append(r, id) /\ \A q \in Runner : q # p => receipts'[q] = receipts[q]
  BY <1>1, <1>2
<1>5. r \in Seq(DOMAIN transfers')
  BY OwnPart
<1> HIDE DEF r
<1>6. /\ receipts'[p] \in Seq(DOMAIN transfers') /\ Len(receipts'[p]) = Len(r) + 1
      /\ ToSet(receipts'[p]) \subseteq ToSet(r) \cup {id}
  <2>1. Append(r, id) \in Seq(DOMAIN transfers') /\ Len(Append(r, id)) = Len(r) + 1
    BY <1>5
  <2>2. \A i \in DOMAIN Append(r, id) : Append(r, id)[i] \in ToSet(r) \cup {id}
    BY <1>5 DEF ToSet
  <2> QED
    BY <1>4, <2>1, <2>2 DEF ToSet
<1>7. "leg" \in Labels /\ "idle" \in Labels /\ "ok" \in Outcomes
  BY DEF Labels, Outcomes
<1>8. CASE Len(r) + 1 = Len(Movements[p])
  <2>1. Return(p, "ok")
    BY <1>8 DEF Answered, r
  <2>2. LocalStep(p)
    <3>1. envelope' = [envelope EXCEPT ![p] = envelope[p]]
      BY <1>1
    <3> QED
      BY <1>2, <1>7, <2>1, <3>1 DEF LocalStep, Return, Goto
  <2> QED
    BY <1>4, <1>6, <1>7, <1>8, <2>1, <2>2, Returned DEF r
<1>9. CASE Len(r) + 1 # Len(Movements[p])
  <2>1. pc' = [pc EXCEPT ![p] = "leg"] /\ undo' = undo /\ outcome' = outcome
    BY <1>9 DEF Answered, Goto, r
  <2>2. LocalStep(p)
    <3>1. /\ envelope' = [envelope EXCEPT ![p] = envelope[p]] /\ undo' = [undo EXCEPT ![p] = undo[p]]
          /\ outcome' = [outcome EXCEPT ![p] = outcome[p]] /\ outcome[p] \in Outcomes
      BY <1>1, <2>1
    <3> QED
      BY <1>2, <1>7, <2>1, <3>1 DEF LocalStep
  <2>3. pc'[p] = "leg" /\ undo'[p] = <<>> /\ outcome'[p] = "none"
    BY <1>1, <2>1
  <2>4. Len(receipts'[p]) < Len(Movements[p])
    <3>1. Len(r) \in Nat /\ Len(r) < Len(Movements[p])
      BY <1>1 DEF r
    <3> QED
      BY <1>3, <1>6, <1>9, <3>1
  <2>5. RunnerOK(p)'
    BY <1>6, <2>3, <2>4 DEF RunnerOK
  <2> QED
    BY <1>4, <1>6, <2>2, <2>5 DEF r
<1> QED
  BY <1>8, <1>9

\* Storing a leg. A transfer that is new was nobody's receipt before.
LEMMA StoreLegKeeps ==
    ASSUME NEW p \in Runner, SagaInv, StoreLeg(p)
    PROVE  SagaInv'
<1> DEFINE req == CommitRequest(envelope[p])
           id == envelope_id(envelope[p])
<1>1. pc[p] = "store_leg" /\ envelope' = envelope /\ Checked(envelope[p])
  BY DEF StoreLeg, SagaInv, RunnerOK
<1>2. /\ envelope = [q \in Runner |-> envelope[q]] /\ receipts = [q \in Runner |-> receipts[q]]
      /\ \A q \in Runner : ToSet(receipts[q]) \subseteq DOMAIN transfers
      /\ CheckedStore
  <2>1. \A q \in Runner : receipts[q] \in Seq(DOMAIN transfers)
    BY DEF SagaInv, RunnerOK
  <2> QED
    BY <2>1 DEF SagaInv, RunnerTypes, ToSet
<1>3. CASE commit_envelope(req) /\ Answered(p) /\ UNCHANGED shared
  <2>1. StoreKept
    <3> SUFFICES ASSUME NEW e, e = envelope[p] PROVE StoreKept
      OBVIOUS
    <3> QED
      BY <1>1, <1>2, <1>3, CommitKeepsChecked
  <2>2. id \in DOMAIN transfers' /\ id \notin DOMAIN transfers
    BY <1>3, CommitEffect
  <2>3. /\ LocalStep(p) /\ RunnerOK(p)'
        /\ ToSet(receipts'[p]) \subseteq ToSet(receipts[p]) \cup {id}
        /\ \A q \in Runner : q # p => receipts'[q] = receipts[q]
    BY <1>1, <1>3, <2>1, <2>2, AnsweredKeeps
  <2>4. SharedOK'
    <3>1. ASSUME NEW q \in Runner, q # p
          PROVE  ToSet(receipts'[p]) \cap ToSet(receipts'[q]) \subseteq shared
      <4>1. ToSet(receipts[q]) \subseteq DOMAIN transfers
            /\ ToSet(receipts[p]) \cap ToSet(receipts[q]) \subseteq shared
        BY <1>2, <3>1 DEF SagaInv, SharedOK
      <4> QED
        BY <2>2, <2>3, <3>1, <4>1
    <3> QED
      BY <1>3, <2>3, <3>1 DEF SagaInv, SharedOK
  <2> QED
    BY <2>1, <2>3, <2>4, RunnerSteps
<1>4. CASE AlreadyCommitted(req) /\ Answered(p) /\ shared' = shared \cup {req.transfer_id} /\ UNCHANGED storeVars
  <2>1. StoreKept
    BY <1>2, <1>4, NothingHappens
  <2>2. id \in DOMAIN transfers' /\ req.transfer_id = id
    <3>1. id \in DOMAIN transfers /\ req.transfer_id = id
      BY <1>4 DEF AlreadyCommitted, CommitRequest
    <3> QED
      BY <1>4, <3>1 DEF storeVars
  <2>3. /\ LocalStep(p) /\ RunnerOK(p)'
        /\ ToSet(receipts'[p]) \subseteq ToSet(receipts[p]) \cup {id}
        /\ \A q \in Runner : q # p => receipts'[q] = receipts[q]
    BY <1>1, <1>4, <2>1, <2>2, AnsweredKeeps
  <2>4. SharedOK'
    <3>1. ASSUME NEW q \in Runner, q # p
          PROVE  ToSet(receipts'[p]) \cap ToSet(receipts'[q]) \subseteq shared'
      <4>1. ToSet(receipts[p]) \cap ToSet(receipts[q]) \subseteq shared
        BY <3>1 DEF SagaInv, SharedOK
      <4> QED
        BY <1>4, <2>2, <2>3, <3>1, <4>1
    <3> QED
      BY <1>4, <2>3, <3>1 DEF SagaInv, SharedOK
  <2> QED
    BY <2>1, <2>3, <2>4, RunnerSteps
<1>5. CASE Unwind(p) /\ UNCHANGED <<storeVars, receipts, shared>>
  <2>1. StoreKept
    BY <1>2, <1>5, NothingHappens
  <2>2. LocalStep(p)
    <3>1. /\ envelope' = [envelope EXCEPT ![p] = envelope[p]]
          /\ receipts' = [receipts EXCEPT ![p] = receipts[p]]
      BY <1>1, <1>2, <1>5
    <3>2. outcome = [outcome EXCEPT ![p] = outcome[p]] /\ outcome[p] \in Outcomes
          /\ "idle" \in Labels /\ "reverse" \in Labels /\ "error" \in Outcomes
      BY DEF SagaInv, RunnerTypes, Labels, Outcomes
    <3> QED
      BY <1>5, <3>1, <3>2 DEF LocalStep, Unwind, Return, Goto
  <2>3. RunnerOK(p)'
    BY <1>1, <1>5, <2>1, UnwindKeeps
  <2>4. SharedOK'
    BY <1>5 DEF SagaInv, SharedOK
  <2> QED
    BY <2>1, <2>2, <2>3, <2>4, RunnerSteps
<1> QED
  BY <1>3, <1>4, <1>5 DEF StoreLeg

\* The reversal of a stored transfer, pinned to any versions: its content, and that an
\* id tells it apart.
LEMMA PinnedReversal ==
    ASSUME CheckedStore, NEW tid \in DOMAIN transfers, NEW e, e = Pinned(Reversal(tid))
    PROVE  /\ EnvelopeOK(e) /\ Undoes(e, tid)
           /\ envelope_id(e) \in DOMAIN transfers => transfers[envelope_id(e)] = e
<1> DEFINE r == Reversal(tid)
<1>1. EnvelopeOK(r)
  BY ReversalFacts DEF CheckedStore, FloorInv
<1>2. /\ EnvelopeOK(e) /\ e.consumes = r.consumes /\ e.creates = r.creates
  <2>1. e = [r EXCEPT !.account_snapshots = resolve_snapshots(r)]
    BY DEF Pinned
  <2> HIDE DEF r
  <2>2. EnvelopeOK(e)
    BY <1>1, <2>1, PinFacts
  <2> QED
    BY <1>1, <2>1, <2>2 DEF EnvelopeOK
<1>3. ASSUME envelope_id(e) \in DOMAIN transfers PROVE transfers[envelope_id(e)] = e
  <2>1. PICK f : f = transfers[envelope_id(e)]
    OBVIOUS
  <2>2. EnvelopeOK(f) /\ envelope_id(f) = envelope_id(e)
    BY <1>3, <2>1 DEF CheckedStore, TransfersOK
  <2>3. /\ f.consumes = e.consumes /\ f.creates = e.creates
        /\ f.account_snapshots = e.account_snapshots /\ f.book = e.book /\ f.metadata = e.metadata
    BY <2>2 DEF envelope_id
  <2> QED
    BY <1>2, <2>1, <2>2, <2>3 DEF EnvelopeOK
<1> QED
  BY <1>2, <1>3 DEF Undoes

\* Building the next reversal.
LEMMA ReverseNextKeeps ==
    ASSUME NEW p \in Runner, SagaInv, ReverseNext(p)
    PROVE  SagaInv'
<1>1. /\ pc[p] = "reverse" /\ UNCHANGED storeVars /\ receipts' = receipts /\ shared' = shared
  BY DEF ReverseNext
<1>2. /\ pc \in [Runner -> Labels] /\ outcome \in [Runner -> Outcomes]
      /\ envelope = [q \in Runner |-> envelope[q]] /\ receipts = [q \in Runner |-> receipts[q]]
      /\ undo = [q \in Runner |-> undo[q]] /\ outcome[p] = "none" /\ UnwindOK(p)
  BY <1>1 DEF SagaInv, RunnerTypes, RunnerOK
<1>3. StoreKept /\ CheckedStore
  BY <1>1, NothingHappens DEF SagaInv
<1>4. PICK tid \in DOMAIN transfers : tid = Head(undo[p])
  <2>1. undo[p] # <<>> /\ undo[p] \in Seq(ToSet(receipts[p])) /\ ToSet(receipts[p]) \subseteq DOMAIN transfers
    BY <1>2, <1>3, OwnPart DEF UnwindOK
  <2> QED
    BY <2>1
<1>5. PICK e : /\ e = Pinned(Reversal(tid))
               /\ \/ /\ envelope_id(e) \in DOMAIN transfers \/ Valid(e)
                     /\ envelope' = [envelope EXCEPT ![p] = e]
                     /\ Goto(p, "store_reversal")
                     /\ UNCHANGED <<undo, outcome>>
                  \/ Return(p, "compensation_failed") /\ UNCHANGED envelope
  BY <1>4 DEF ReverseNext
<1>6. /\ EnvelopeOK(e) /\ Undoes(e, tid)
      /\ envelope_id(e) \in DOMAIN transfers => transfers[envelope_id(e)] = e
  BY <1>3, <1>5, PinnedReversal
<1>7. SharedOK'
  BY <1>1 DEF SagaInv, SharedOK
<1>8. /\ envelope = [envelope EXCEPT ![p] = envelope[p]] /\ receipts = [receipts EXCEPT ![p] = receipts[p]]
      /\ undo = [undo EXCEPT ![p] = undo[p]] /\ outcome = [outcome EXCEPT ![p] = outcome[p]]
      /\ outcome[p] \in Outcomes
  BY <1>2
<1>9. Labels = {"idle", "leg", "store_leg", "reverse", "store_reversal"}
      /\ Outcomes = {"none", "ok", "error", "unbuilt", "compensation_failed"}
  BY DEF Labels, Outcomes
<1>10. receipts'[p] \in Seq(DOMAIN transfers') /\ \A t \in DOMAIN transfers : Reversal(t)' = Reversal(t)
  BY <1>1, <1>3, OwnPart
<1>11. CASE /\ envelope_id(e) \in DOMAIN transfers \/ Valid(e)
            /\ envelope' = [envelope EXCEPT ![p] = e]
            /\ Goto(p, "store_reversal")
            /\ UNCHANGED <<undo, outcome>>
  <2>1. LocalStep(p)
    BY <1>1, <1>8, <1>9, <1>11 DEF LocalStep, Goto
  <2>2. pc'[p] = "store_reversal" /\ envelope'[p] = e /\ undo'[p] = undo[p] /\ outcome'[p] = "none"
    BY <1>2, <1>11 DEF Goto
  <2>3. Checked(envelope[p])'
    <3>1. ASSUME envelope_id(e) \in DOMAIN transfers PROVE Checked(e)
      <4>1. PICK f : f = transfers[envelope_id(e)]
        OBVIOUS
      <4>2. Checked(f)
        BY <1>3, <3>1, <4>1 DEF CheckedStore, LogChecked
      <4> QED
        BY <1>6, <3>1, <4>1, <4>2
    <3>2. ASSUME Valid(e) PROVE Checked(e)
      BY <1>6, <3>2, ValidIsChecked
    <3>3. Checked(e)
      BY <1>11, <3>1, <3>2
    <3>4. Checked(e)'
      BY <1>3, <3>3, CheckedStays DEF StoreKept
    <3> QED
      BY <2>2, <3>4 DEF Checked, EnvelopeOK, Consumed, Exists, head, NonEmpty
  <2>4. Undoes(envelope[p], Head(undo[p]))'
    BY <1>4, <1>6, <1>10, <2>2 DEF Undoes
  <2>5. UnwindOK(p)'
    <3>1. \A t \in ToSet(receipts[p]) : Undone(t) => Undone(t)'
      BY <1>3, OwnPart
    <3> QED
      BY <1>1, <1>2, <2>2, <3>1 DEF UnwindOK
  <2>6. undo'[p] \in Seq(ToSet(receipts'[p]))
    BY <1>1, <1>3, <2>2, OwnPart
  <2>7. RunnerOK(p)'
    BY <1>10, <2>2, <2>3, <2>4, <2>5, <2>6 DEF RunnerOK
  <2> QED
    BY <1>3, <1>7, <2>1, <2>7, RunnerSteps
<1>12. CASE Return(p, "compensation_failed") /\ UNCHANGED envelope
  <2>1. LocalStep(p)
    BY <1>1, <1>8, <1>9, <1>12 DEF LocalStep, Return, Goto
  <2>2. RunnerOK(p)'
    BY <1>9, <1>10, <1>12, Returned
  <2> QED
    BY <1>3, <1>7, <2>1, <2>2, RunnerSteps
<1> QED
  BY <1>5, <1>11, <1>12

\* A list is its head and its tail.
LEMMA NextToUndo ==
    ASSUME NEW S, NEW u \in Seq(S), u # <<>>
    PROVE  /\ Head(u) \in S /\ Tail(u) \in Seq(S) /\ ToSet(u) \subseteq {Head(u)} \cup ToSet(Tail(u))
           /\ Len(u) = 1 => ToSet(u) = {Head(u)}
           /\ Len(u) # 1 => Tail(u) # <<>>
<1>1. Len(u) \in Nat \ {0} /\ DOMAIN u = 1..Len(u) /\ Head(u) = u[1] /\ Head(u) \in S
  OBVIOUS
<1>2. /\ Tail(u) \in Seq(S) /\ Len(Tail(u)) = Len(u) - 1
      /\ \A i \in 1..(Len(u) - 1) : Tail(u)[i] = u[i + 1]
  OBVIOUS
<1>3. DOMAIN Tail(u) = 1..(Len(u) - 1)
  BY <1>1, <1>2
<1>4. ASSUME NEW i \in 1..Len(u) PROVE u[i] = Head(u) \/ u[i] \in ToSet(Tail(u))
  <2>1. CASE i = 1
    BY <1>1, <2>1
  <2>2. CASE i # 1
    <3>1. i - 1 \in 1..(Len(u) - 1) /\ (i - 1) + 1 = i
      BY <1>1, <2>2
    <3>2. Tail(u)[i - 1] = u[i] /\ i - 1 \in DOMAIN Tail(u)
      BY <1>2, <1>3, <3>1
    <3> QED
      BY <3>2 DEF ToSet
  <2> QED
    BY <2>1, <2>2
<1>5. Len(u) = 1 => ToSet(u) = {Head(u)}
  BY <1>1 DEF ToSet
<1>6. ASSUME Len(u) # 1 PROVE Tail(u) # <<>>
  <2>1. 1 \in DOMAIN Tail(u)
    BY <1>1, <1>3, <1>6
  <2>2. 1 \notin DOMAIN <<>>
    OBVIOUS
  <2> QED
    BY <2>1, <2>2, Zenon
<1> QED
  BY <1>1, <1>2, <1>4, <1>5, <1>6 DEF ToSet

\* A reversal is in the log: one receipt less to reverse.
LEMMA ReversedKeeps ==
    ASSUME NEW p \in Runner, SagaInv, StoreKept, pc[p] = "store_reversal", Reversed(p),
           receipts' = receipts, envelope' = envelope, NEW h, h = Head(undo[p]), Undone(h)'
    PROVE  LocalStep(p) /\ RunnerOK(p)'
<1> DEFINE u == undo[p]
<1>1. /\ pc \in [Runner -> Labels] /\ outcome \in [Runner -> Outcomes]
      /\ envelope = [q \in Runner |-> envelope[q]] /\ receipts = [q \in Runner |-> receipts[q]]
      /\ undo = [q \in Runner |-> undo[q]] /\ outcome[p] = "none" /\ UnwindOK(p)
  BY DEF SagaInv, RunnerTypes, RunnerOK
<1>2. /\ u # <<>> /\ u \in Seq(ToSet(receipts[p]))
      /\ \A tid \in ToSet(receipts[p]) : tid \in ToSet(u) \/ Undone(tid)'
      /\ receipts'[p] \in Seq(DOMAIN transfers')
  BY <1>1, OwnPart DEF UnwindOK
<1>3. /\ envelope' = [envelope EXCEPT ![p] = envelope[p]] /\ receipts' = [receipts EXCEPT ![p] = receipts[p]]
      /\ outcome = [outcome EXCEPT ![p] = outcome[p]] /\ outcome[p] \in Outcomes
  BY <1>1
<1>4. Labels = {"idle", "leg", "store_leg", "reverse", "store_reversal"}
      /\ Outcomes = {"none", "ok", "error", "unbuilt", "compensation_failed"}
  BY DEF Labels, Outcomes
<1>5. CASE Len(u) = 1
  <2>1. Return(p, "error")
    BY <1>5 DEF Reversed
  <2>2. \A tid \in ToSet(receipts'[p]) : Undone(tid)'
    <3>1. ToSet(u) = {Head(u)}
      BY <1>2, <1>5, NextToUndo
    <3> QED
      BY <1>2, <3>1
  <2>3. LocalStep(p)
    BY <1>3, <1>4, <2>1 DEF LocalStep, Return, Goto
  <2> QED
    BY <1>2, <1>4, <2>1, <2>2, <2>3, Returned
<1>6. CASE Len(u) # 1
  <2>1. undo' = [undo EXCEPT ![p] = Tail(u)] /\ pc' = [pc EXCEPT ![p] = "reverse"] /\ outcome' = outcome
    BY <1>6 DEF Reversed, Goto
  <2>2. LocalStep(p)
    BY <1>3, <1>4, <2>1 DEF LocalStep
  <2>3. pc'[p] = "reverse" /\ undo'[p] = Tail(u) /\ outcome'[p] = "none"
    BY <1>1, <2>1
  <2> HIDE DEF u
  <2>4. /\ Tail(u) # <<>> /\ Tail(u) \in Seq(ToSet(receipts[p]))
        /\ ToSet(u) \subseteq {Head(u)} \cup ToSet(Tail(u))
    BY <1>2, <1>6, NextToUndo
  <2>5. UnwindOK(p)'
    BY <1>2, <2>3, <2>4 DEF UnwindOK, u
  <2>6. RunnerOK(p)'
    BY <1>2, <2>3, <2>4, <2>5 DEF RunnerOK
  <2> QED
    BY <2>2, <2>6
<1> QED
  BY <1>5, <1>6

\* Storing a reversal, or finding it stored.
LEMMA StoreReversalKeeps ==
    ASSUME NEW p \in Runner, SagaInv, StoreReversal(p)
    PROVE  SagaInv'
<1> DEFINE req == CommitRequest(envelope[p])
           id == envelope_id(envelope[p])
<1>1. /\ pc[p] = "store_reversal" /\ envelope' = envelope /\ receipts' = receipts /\ shared' = shared
  BY DEF StoreReversal
<1>2. /\ Checked(envelope[p]) /\ Undoes(envelope[p], Head(undo[p])) /\ UnwindOK(p) /\ CheckedStore
      /\ envelope = [q \in Runner |-> envelope[q]] /\ receipts = [q \in Runner |-> receipts[q]]
      /\ outcome[p] \in Outcomes
  BY <1>1 DEF SagaInv, RunnerOK, RunnerTypes
<1>3. SharedOK'
  BY <1>1 DEF SagaInv, SharedOK
<1>4. ASSUME StoreKept PROVE Head(undo[p]) \in DOMAIN transfers
  <2>1. undo[p] # <<>> /\ undo[p] \in Seq(ToSet(receipts[p])) /\ ToSet(receipts[p]) \subseteq DOMAIN transfers
    BY <1>2, <1>4, OwnPart DEF UnwindOK
  <2> QED
    BY <2>1
<1>5. CASE commit_envelope(req) /\ Reversed(p)
  <2>1. StoreKept
    <3> SUFFICES ASSUME NEW e, e = envelope[p] PROVE StoreKept
      OBVIOUS
    <3> QED
      BY <1>2, <1>5, CommitKeepsChecked
  <2>2. id \in DOMAIN transfers' /\ transfers'[id] = envelope[p]
    BY <1>5, CommitEffect
  <2>3. PICK tid \in DOMAIN transfers : tid = Head(undo[p])
    BY <1>4, <2>1
  <2>4. Undone(tid)'
    <3>1. Reversal(tid)' = Reversal(tid)
      BY <2>1, <2>3, OwnPart
    <3> QED
      BY <1>2, <2>2, <2>3, <3>1 DEF Undone, Undoes
  <2>5. LocalStep(p) /\ RunnerOK(p)'
    BY <1>1, <1>5, <2>1, <2>3, <2>4, ReversedKeeps
  <2> QED
    BY <1>3, <2>1, <2>5, RunnerSteps
<1>6. CASE AlreadyCommitted(req) /\ Reversed(p) /\ UNCHANGED storeVars
  <2>1. StoreKept
    BY <1>2, <1>6, NothingHappens
  <2>2. id \in DOMAIN transfers
    BY <1>6 DEF AlreadyCommitted, CommitRequest
  <2>3. PICK tid \in DOMAIN transfers : tid = Head(undo[p])
    BY <1>4, <2>1
  <2>4. /\ transfers[id].consumes = envelope[p].consumes
        /\ transfers[id].creates = envelope[p].creates
    <3>1. envelope_id(transfers[id]) = id
      BY <1>2, <2>2 DEF CheckedStore, TransfersOK
    <3> QED
      BY <3>1 DEF envelope_id
  <2>5. Undone(tid)
    BY <1>2, <2>2, <2>3, <2>4 DEF Undone, Undoes
  <2>6. Undone(tid)'
    BY <1>2, <2>1, <2>5, UndoneStays DEF CheckedStore, FloorInv
  <2>7. LocalStep(p) /\ RunnerOK(p)'
    BY <1>1, <1>6, <2>1, <2>3, <2>6, ReversedKeeps
  <2> QED
    BY <1>3, <2>1, <2>7, RunnerSteps
<1>7. CASE Return(p, "compensation_failed") /\ UNCHANGED storeVars
  <2>1. StoreKept
    BY <1>2, <1>7, NothingHappens
  <2>2. LocalStep(p)
    <3>1. /\ envelope' = [envelope EXCEPT ![p] = envelope[p]]
          /\ receipts' = [receipts EXCEPT ![p] = receipts[p]]
          /\ "idle" \in Labels /\ "compensation_failed" \in Outcomes
      BY <1>1, <1>2 DEF Labels, Outcomes
    <3> QED
      BY <1>7, <3>1 DEF LocalStep, Return, Goto
  <2>3. receipts'[p] \in Seq(DOMAIN transfers') /\ "compensation_failed" \in Outcomes \ {"none"}
    BY <1>1, <2>1, OwnPart DEF Outcomes
  <2>4. RunnerOK(p)'
    BY <1>7, <2>3, Returned
  <2> QED
    BY <1>3, <2>1, <2>2, <2>4, RunnerSteps
<1> QED
  BY <1>5, <1>6, <1>7 DEF StoreReversal

-----------------------------------------------------------------------------
(* The other clients, and all steps. *)

\* A commit or a lifecycle change of another client.
LEMMA OthersKeep ==
    ASSUME SagaInv, OtherCommit \/ OtherTransition
    PROVE  SagaInv'
<1>1. UNCHANGED runnerVars
  BY DEF OtherCommit, OtherTransition, OtherStep
<1>2. CASE OtherCommit
  <2>0. PICK t \in Others : \E e \in Built(t) : commit_envelope(CommitRequest(e))
    BY <1>2 DEF OtherCommit
  <2>1. PICK e \in Built(t) : commit_envelope(CommitRequest(e))
    BY <2>0
  <2>2. Checked(e)
    BY BuiltIsChecked, RequestsAssumption DEF SagaInv
  <2>3. StoreKept
    BY <2>1, <2>2, CommitKeepsChecked DEF SagaInv
  <2> QED
    BY <1>1, <2>3, OthersMove
<1>3. CASE OtherTransition
  <2>1. PICK t \in Transition : /\ ~is_closed(head(t[1]))
                                /\ commit_transition(t[1], NextVersion(t[2], head(t[1])), t[2])
    BY <1>3 DEF OtherTransition
  <2>2. PICK a \in Account, kind \in LifecycleKind : t[1] = a /\ t[2] = kind
    BY RequestsAssumption
  <2>3. commit_transition(a, NextVersion(kind, head(a)), kind)
    BY <2>1, <2>2
  <2>4. Exists(a) /\ accounts[a] \in Seq(AccountRecord)
    BY <2>3 DEF commit_transition, TransitionApplied, TransitionAlreadyApplied,
                SagaInv, CheckedStore, FloorInv, StoreInv, StoreTypeOK, AccountRecord
  <2>5. Len(accounts[a]) \in DOMAIN accounts[a]
    BY <2>4 DEF Exists
  <2>6. StoreKept
    BY <2>3, <2>5, TransitionKeepsChecked DEF SagaInv, head
  <2> QED
    BY <1>1, <2>6, OthersMove
<1> QED
  BY <1>2, <1>3

LEMMA NextInv ==
    ASSUME SagaInv, [Next]_sagaVars
    PROVE  SagaInv'
<1>1. CASE UNCHANGED sagaVars
  <2>1. UNCHANGED storeVars /\ UNCHANGED runnerVars
    BY <1>1 DEF sagaVars
  <2>2. StoreKept
    BY <2>1, NothingHappens DEF SagaInv
  <2> QED
    BY <2>1, <2>2, OthersMove
<1>2. ASSUME NEW p \in Runner, Start(p) \/ Step(p) PROVE SagaInv'
  BY <1>2, StartKeeps, CommitLegKeeps, StoreLegKeeps, ReverseNextKeeps, StoreReversalKeeps DEF Step
<1>3. CASE OtherCommit \/ OtherTransition
  BY <1>3, OthersKeep
<1>4. CASE Rest
  BY <1>1, <1>4 DEF Rest
<1> QED
  BY <1>1, <1>2, <1>3, <1>4 DEF Next

\* The invariant of the workflows (saga.rs run_movements): in every state each runner
\* knows which of its legs are in the log and, while it unwinds, which are still to
\* undo; what it is about to store has passed validation and still would but for
\* account states and spent postings; and the log holds validated transfers only.
THEOREM SagaInvariant == Spec => []SagaInv
<1>1. Init => SagaInv
  BY InitInv
<1>2. SagaInv /\ [Next]_sagaVars => SagaInv'
  BY NextInv
<1> QED
  BY <1>1, <1>2, PTL DEF Spec

\* saga.rs run_movements / unwind: when the error of a refused leg is returned, every
\* leg that had gone through is undone, whatever the other runners and clients did in
\* between, for any legs, shared or not.
THEOREM FailedMeansUndoneThm == Spec => []FailedMeansUndone
<1>1. SagaInv => FailedMeansUndone
  <2> SUFFICES ASSUME SagaInv, NEW p \in Runner, outcome[p] = "error", NEW i \in DOMAIN receipts[p]
               PROVE  Undone(receipts[p][i])
    BY DEF FailedMeansUndone
  <2>1. receipts[p][i] \in ToSet(receipts[p])
    BY DEF ToSet
  <2> QED
    BY <2>1 DEF SagaInv, RunnerOK
<1> QED
  BY <1>1, SagaInvariant, PTL

-----------------------------------------------------------------------------
(* Why a reversal is refused. *)

\* What a reversal says about the transfer it undoes.
LEMMA UndoesFacts ==
    ASSUME CheckedStore, NEW tid \in DOMAIN transfers, NEW e, Undoes(e, tid), NEW o, o = transfers[tid]
    PROVE  /\ Checked(o) /\ o.creates \in Seq(Posting) /\ IsInjective(o.consumes)
           /\ DOMAIN e.consumes = DOMAIN o.creates /\ DOMAIN e.creates = DOMAIN o.consumes
           /\ \A i \in DOMAIN o.creates : /\ e.consumes[i] = <<tid, i>>
                                          /\ <<tid, i>> \in DOMAIN immutable
                                          /\ immutable[<<tid, i>>] = o.creates[i]
           /\ \A i \in DOMAIN o.consumes : /\ o.consumes[i] \in DOMAIN immutable
                                           /\ e.creates[i] = immutable[o.consumes[i]]
<1>1. Checked(o)
  BY DEF CheckedStore, LogChecked
<1>2. o.creates \in Seq(Posting) /\ IsInjective(o.consumes) /\ ToSet(o.consumes) \subseteq DOMAIN immutable
  BY <1>1 DEF Checked, EnvelopeOK
<1>3. /\ e.consumes = [i \in DOMAIN o.creates |-> <<tid, i>>]
      /\ e.creates = [i \in DOMAIN o.consumes |-> immutable[o.consumes[i]]]
  BY DEF Undoes, Reversal, Envelope
<1>4. \A i \in DOMAIN o.creates : <<tid, i>> \in DOMAIN immutable /\ immutable[<<tid, i>>] = o.creates[i]
  <2> SUFFICES ASSUME NEW i \in DOMAIN o.creates
               PROVE  <<tid, i>> \in DOMAIN immutable /\ immutable[<<tid, i>>] = o.creates[i]
    OBVIOUS
  <2>1. PostingsFromLog
    BY DEF CheckedStore, FloorInv, StoreInv
  <2>2. <<tid, i>> \in DOMAIN immutable
    BY <2>1 DEF PostingsFromLog
  <2> QED
    BY <2>1, <2>2 DEF PostingsFromLog
<1>5. \A i \in DOMAIN o.consumes : o.consumes[i] \in DOMAIN immutable
  BY <1>2 DEF ToSet
<1> QED
  BY <1>1, <1>2, <1>3, <1>4, <1>5

\* A reversal conserves every asset, because the transfer did.
LEMMA ReversalConserves ==
    ASSUME CheckedStore, NEW tid \in DOMAIN transfers, NEW e, Undoes(e, tid)
    PROVE  Conserves(e, Consumed(e))
<1> DEFINE con == Consumed(e)
<1> SUFFICES ASSUME NEW asset
             PROVE  SumValues(con, {id \in DOMAIN con : con[id].asset = asset})
                    = SumValues(e.creates, {i \in DOMAIN e.creates : e.creates[i].asset = asset})
  BY DEF Conserves
<1>1. PICK o : o = transfers[tid]
  OBVIOUS
<1>2. /\ Checked(o) /\ o.creates \in Seq(Posting) /\ IsInjective(o.consumes)
      /\ DOMAIN e.consumes = DOMAIN o.creates /\ DOMAIN e.creates = DOMAIN o.consumes
      /\ \A i \in DOMAIN o.creates : /\ e.consumes[i] = <<tid, i>>
                                     /\ <<tid, i>> \in DOMAIN immutable
                                     /\ immutable[<<tid, i>>] = o.creates[i]
      /\ \A i \in DOMAIN o.consumes : /\ o.consumes[i] \in DOMAIN immutable
                                      /\ e.creates[i] = immutable[o.consumes[i]]
  BY <1>1, UndoesFacts
<1> DEFINE oc == Consumed(o)
           made == o.creates
           back == e.creates
           spent == o.consumes
           Out == {i \in DOMAIN made : made[i].asset = asset}
           In == {i \in DOMAIN spent : immutable[spent[i]].asset = asset}
           b == [i \in DOMAIN made |-> <<tid, i>>]
<1>3. /\ DOMAIN con = {b[i] : i \in DOMAIN made}
      /\ \A i \in DOMAIN made : con[b[i]] = made[i]
      /\ \A i, j \in DOMAIN made : b[i] = b[j] => i = j
  <2>1. ToSet(e.consumes) = {b[i] : i \in DOMAIN made}
    BY <1>2 DEF ToSet
  <2> QED
    BY <1>2, <2>1 DEF Consumed
<1>4. /\ DOMAIN oc = {spent[i] : i \in DOMAIN spent}
      /\ \A i \in DOMAIN spent : oc[spent[i]] = immutable[spent[i]] /\ back[i] = oc[spent[i]]
      /\ \A i, j \in DOMAIN spent : spent[i] = spent[j] => i = j
      /\ DOMAIN back = DOMAIN spent
  <2>1. \A i, j \in DOMAIN spent : spent[i] = spent[j] => i = j
    BY <1>2 DEF IsInjective
  <2> QED
    BY <1>2, <2>1 DEF Consumed, ToSet
<1>5. /\ IsFiniteSet(DOMAIN made) /\ \A i \in DOMAIN made : made[i].value \in Int
      /\ IsFiniteSet(DOMAIN spent) /\ \A i \in DOMAIN spent : immutable[spent[i]].value \in Int
  <2>1. IsFiniteSet(DOMAIN made) /\ \A i \in DOMAIN made : made[i].value \in Int
    BY <1>2, NewIdsFacts DEF Posting
  <2>2. \A i \in DOMAIN spent : immutable[spent[i]].value \in Int
    BY <1>2 DEF CheckedStore, FloorInv, StoreInv, StoreTypeOK, Posting
  <2>3. IsFiniteSet(DOMAIN spent)
    <3>1. PICK X : spent \in Seq(X)
      BY <1>2 DEF Checked, EnvelopeOK
    <3>2. DOMAIN spent = 1..Len(spent) /\ Len(spent) \in Nat
      BY <3>1
    <3> QED
      BY <3>2, FS_Interval
  <2> QED
    BY <2>1, <2>2, <2>3
<1>6. Conserves(o, oc)
  BY <1>2 DEF Checked
<1>7. \A key \in balance_keys(o, oc) : key[2] = asset =>
         SumValues(oc, {id \in DOMAIN oc : oc[id].asset = asset}) = SumValues(made, Out)
  BY <1>6 DEF Conserves
<1>8. \A p \in ToSet(made) \cup Range(oc) : <<p.owner, p.asset>> \in balance_keys(o, oc)
  BY DEF balance_keys
<1> DEFINE Keys == balance_keys(o, oc)
<1> HIDE DEF con, oc, made, back, spent, b, Keys
<1>9. Out \in SUBSET DOMAIN made /\ In \in SUBSET DOMAIN spent
  OBVIOUS
<1>10. HasValues(made, Out) /\ HasValues(back, In)
  <2>1. IsFiniteSet(Out) /\ IsFiniteSet(In)
    BY <1>5, <1>9, FS_Subset
  <2> HIDE DEF Out, In
  <2>2. \A i \in In : back[i].value \in Int
    BY <1>4, <1>5, <1>9
  <2> QED
    BY <1>5, <1>9, <2>1, <2>2 DEF HasValues
<1>11. {id \in DOMAIN con : con[id].asset = asset} = {b[i] : i \in Out}
  BY <1>3
<1>12. /\ {i \in DOMAIN back : back[i].asset = asset} = In
       /\ {id \in DOMAIN oc : oc[id].asset = asset} = {spent[i] : i \in In}
  BY <1>4
<1>13. /\ \A x \in Out : con[b[x]].value = made[x].value
       /\ \A x, y \in Out : b[x] = b[y] => x = y
       /\ \A x \in In : oc[spent[x]].value = back[x].value
       /\ \A x, y \in In : spent[x] = spent[y] => x = y
  BY <1>3, <1>4
<1>14. SumValues(oc, {id \in DOMAIN oc : oc[id].asset = asset}) = SumValues(made, Out)
  <2>1. CASE \E key \in Keys : key[2] = asset
    BY <1>7, <2>1 DEF Keys
  <2>2. CASE ~ \E key \in Keys : key[2] = asset
    <3>1. \A p \in ToSet(made) \cup Range(oc) : <<p.owner, p.asset>> \in Keys
      BY <1>8 DEF Keys
    <3>2. \A p \in ToSet(made) \cup Range(oc) : <<p.owner, p.asset>>[2] # asset
      BY <2>2, <3>1
    <3>3. Out = {} /\ {id \in DOMAIN oc : oc[id].asset = asset} = {}
      BY <3>2 DEF ToSet, Range
    <3>4. SumValues(oc, {}) = 0 /\ SumValues(made, {}) = 0
      <4>1. HasValues(oc, {}) /\ HasValues(made, {})
        BY FS_EmptySet DEF HasValues
      <4> QED
        BY <4>1, ValuesType
    <3> QED
      BY <3>3, <3>4
  <2> QED
    BY <2>1, <2>2
<1> HIDE DEF Out, In
<1>15. SumValues(con, {b[x] : x \in Out}) = SumValues(made, Out)
  BY <1>10, <1>13, ValuesRename
<1>16. SumValues(oc, {spent[x] : x \in In}) = SumValues(back, In)
  BY <1>10, <1>13, ValuesRename
<1> QED
  BY <1>11, <1>12, <1>14, <1>15, <1>16 DEF back, con

\* What an account that forbids overdraft owns is never negative.
LEMMA OffsetsFromLog ==
    ASSUME CheckedStore, NEW id \in DOMAIN immutable
    PROVE  /\ immutable[id].value \in Int
           /\ immutable[id].value < 0 => ~forbids_overdraft(head(immutable[id].owner))
<1>1. /\ id[1] \in DOMAIN transfers /\ id[2] \in DOMAIN transfers[id[1]].creates
      /\ immutable[id] = transfers[id[1]].creates[id[2]] /\ immutable[id] \in Posting
  BY DEF CheckedStore, FloorInv, StoreInv, PostingsFromLog, StoreTypeOK
<1>2. PICK o : o = transfers[id[1]]
  OBVIOUS
<1>3. Checked(o)
  BY <1>1, <1>2 DEF CheckedStore, LogChecked
<1>4. immutable[id] \in ToSet(o.creates)
  BY <1>1, <1>2 DEF ToSet
<1> QED
  BY <1>1, <1>3, <1>4 DEF Checked, Posting

\* A checked envelope never takes such an account below zero while its inputs are live.
LEMMA CheckedFloor ==
    ASSUME CheckedStore, NEW e, Checked(e), ToSet(e.consumes) \subseteq active,
           NEW a, forbids_overdraft(head(a)), NEW asset
    PROVE  Projected(CommitRequest(e), a, asset) >= 0
<1> DEFINE create == postings_to_create(e)
           Old == {id \in active \ ToSet(e.consumes) :
                      immutable[id].owner = a /\ immutable[id].asset = asset}
           New == {id \in NewIds(e) : create[id].owner = a /\ create[id].asset = asset}
<1>1. Projected(CommitRequest(e), a, asset) = SumValues(immutable, Old) + SumValues(create, New)
  BY CreatedRows DEF Projected
<1>2. HasValues(immutable, Old) /\ \A id \in Old : immutable[id].value >= 0
  <2>1. Old \in SUBSET DOMAIN immutable
    BY DEF CheckedStore, FloorInv, StoreInv, StoreTypeOK
  <2>2. \A id \in Old : immutable[id].value \in Int /\ ~(immutable[id].value < 0)
    BY <2>1, OffsetsFromLog
  <2>3. IsFiniteSet(Old)
    BY <2>1, FS_Subset DEF CheckedStore, FloorInv, FiniteTables
  <2> HIDE DEF Old
  <2> QED
    BY <2>2, <2>3 DEF HasValues
<1>3. HasValues(create, New) /\ \A id \in New : create[id].value >= 0
  <2>1. e.creates \in Seq(Posting)
    BY DEF Checked, EnvelopeOK
  <2>2. IsFiniteSet(NewIds(e)) /\ New \in SUBSET NewIds(e)
    BY <2>1, NewIdsFacts
  <2>3. \A id \in NewIds(e) : create[id] \in ToSet(e.creates)
    <3> SUFFICES ASSUME NEW id \in NewIds(e) PROVE create[id] \in ToSet(e.creates)
      OBVIOUS
    <3>1. PICK i \in DOMAIN e.creates : id = <<envelope_id(e), i>>
      BY DEF NewIds
    <3>2. create[id] = e.creates[i]
      BY <3>1, CreatedRows
    <3> QED
      BY <3>2 DEF ToSet
  <2>4. \A np \in ToSet(e.creates) : np.value \in Int
    BY CreatesFacts DEF Checked, Posting
  <2>5. \A id \in New : create[id].value \in Int /\ ~(create[id].value < 0)
    BY <2>3, <2>4 DEF Checked
  <2>6. IsFiniteSet(New)
    BY <2>2, FS_Subset
  <2> HIDE DEF New, create
  <2> QED
    BY <2>5, <2>6 DEF HasValues
<1> HIDE DEF Old, New, create
<1>4. SumValues(immutable, Old) >= 0 /\ SumValues(create, New) >= 0
      /\ SumValues(immutable, Old) \in Int /\ SumValues(create, New) \in Int
  BY <1>2, <1>3, ValuesNonNegative, ValuesType
<1> QED
  BY <1>1, <1>4

\* Nothing else than the inputs and the account states can refuse a checked envelope.
LEMMA CheckedAccepted ==
    ASSUME CheckedStore, NEW e, Checked(e), ~Stuck(e), envelope_id(e) \notin DOMAIN transfers
    PROVE  Accepts(CommitRequest(e))
<1> DEFINE req == CommitRequest(e)
<1>1. /\ req.transfer_id = envelope_id(e) /\ req.consume = e.consumes
      /\ req.involved = referenced_accounts(e) \cup {immutable[id].owner : id \in ToSet(e.consumes)}
  BY DEF CommitRequest
<1>2. ToSet(e.consumes) \subseteq active
  <2>1. ToSet(e.consumes) \cap SpentByLog = {}
    BY DEF Stuck, SpentByLog
  <2> QED
    BY <2>1 DEF Checked, CheckedStore, FloorInv, StoreInv, LiveIsUnspent
<1>3. \A a \in req.involved : ~is_frozen(head(a)) /\ ~is_closed(head(a))
  BY DEF Stuck
<1>4. \A a \in req.involved : Exists(a)
  <2>1. \A np \in ToSet(e.creates) : Exists(np.owner)
    BY DEF Checked
  <2>2. \A id \in ToSet(e.consumes) : Exists(immutable[id].owner)
    BY DEF Checked, CheckedStore, FloorInv, OwnersExist
  <2> HIDE DEF req
  <2> QED
    BY <1>1, <2>1, <2>2 DEF referenced_accounts
<1>5. FloorKept(req)
  BY <1>2, CheckedFloor DEF FloorKept
<1>6. Accepts(req)
  <2> HIDE DEF req
  <2> QED
    BY <1>1, <1>2, <1>3, <1>4, <1>5 DEF Accepts, AlreadyCommitted, InvolvedOpen, ConsumedActive
<1> QED
  BY <1>6

\* ... nor can validation refuse a reversal pinned to the present versions.
LEMMA ReversalIsValid ==
    ASSUME CheckedStore, NEW tid \in DOMAIN transfers, NEW e, e = Pinned(Reversal(tid)), ~Stuck(e),
           envelope_id(e) \notin DOMAIN transfers
    PROVE  Valid(e)
<1> DEFINE con == Consumed(e)
           as == Heads(required_accounts(e, con))
           bals == LoadedBalances(e)
<1>1. PICK o : o = transfers[tid]
  OBVIOUS
<1>2. EnvelopeOK(e) /\ Undoes(e, tid)
  BY PinnedReversal
<1>3. /\ Checked(o) /\ o.creates \in Seq(Posting) /\ IsInjective(o.consumes)
      /\ DOMAIN e.consumes = DOMAIN o.creates /\ DOMAIN e.creates = DOMAIN o.consumes
      /\ \A i \in DOMAIN o.creates : /\ e.consumes[i] = <<tid, i>>
                                     /\ <<tid, i>> \in DOMAIN immutable
                                     /\ immutable[<<tid, i>>] = o.creates[i]
      /\ \A i \in DOMAIN o.consumes : /\ o.consumes[i] \in DOMAIN immutable
                                      /\ e.creates[i] = immutable[o.consumes[i]]
  BY <1>1, <1>2, UndoesFacts
<1>4. ToSet(e.consumes) \subseteq DOMAIN immutable
  <2>1. \A i \in DOMAIN e.consumes : e.consumes[i] \in DOMAIN immutable
    BY <1>3
  <2> QED
    BY <2>1 DEF ToSet
<1>5. \A np \in ToSet(e.creates) : \E id \in DOMAIN immutable : np = immutable[id]
  BY <1>3 DEF ToSet
<1>6. \A np \in ToSet(e.creates) :
         Exists(np.owner) /\ (np.value < 0 => ~forbids_overdraft(head(np.owner)))
  BY <1>5, OffsetsFromLog DEF CheckedStore, FloorInv, OwnersExist
<1>7. NonEmpty(e)
  <2>1. o.consumes # <<>> \/ o.creates # <<>>
    BY <1>3 DEF Checked, NonEmpty
  <2>2. CASE o.consumes # <<>>
    <3>1. PICK X : o.consumes \in Seq(X) /\ e.creates \in Seq(Posting)
      BY <1>2, <1>3 DEF Checked, EnvelopeOK
    <3>2. 1 \in DOMAIN o.consumes
      BY <2>2, <3>1, EmptySeq
    <3>3. 1 \in DOMAIN e.creates
      BY <1>3, <3>2
    <3>4. 1 \notin DOMAIN <<>>
      OBVIOUS
    <3>5. e.creates # <<>>
      BY <3>3, <3>4, Zenon
    <3> QED
      BY <3>5 DEF NonEmpty
  <2>3. CASE o.creates # <<>>
    <3>1. 1 \in DOMAIN o.creates
      BY <1>3, <2>3, EmptySeq
    <3>2. 1 \in DOMAIN e.consumes
      BY <1>3, <3>1
    <3>3. 1 \notin DOMAIN <<>>
      OBVIOUS
    <3>4. e.consumes # <<>>
      BY <3>2, <3>3, Zenon
    <3> QED
      BY <3>4 DEF NonEmpty
  <2> QED
    BY <2>1, <2>2, <2>3
<1>8. IsInjective(e.consumes)
  <2>1. \A i, j \in DOMAIN o.creates : <<tid, i>> = <<tid, j>> => i = j
    OBVIOUS
  <2>2. ASSUME NEW i \in DOMAIN e.consumes, NEW j \in DOMAIN e.consumes,
               e.consumes[i] = e.consumes[j]
        PROVE  i = j
    <3>1. i \in DOMAIN o.creates /\ j \in DOMAIN o.creates
      BY <1>3
    <3>2. e.consumes[i] = <<tid, i>> /\ e.consumes[j] = <<tid, j>>
      BY <1>3, <3>1
    <3> QED
      BY <2>1, <2>2, <3>1, <3>2
  <2> QED
    BY <2>2 DEF IsInjective
<1>9. Conserves(e, con)
  BY <1>2, ReversalConserves
<1>10. Checked(e)
  BY <1>2, <1>4, <1>6, <1>7, <1>8, <1>9 DEF Checked
<1>11. ToSet(e.consumes) \subseteq active
  <2>1. ToSet(e.consumes) \cap SpentByLog = {}
    BY DEF Stuck, SpentByLog
  <2> QED
    BY <1>4, <2>1 DEF CheckedStore, FloorInv, StoreInv, LiveIsUnspent
<1>12. DOMAIN con = ToSet(e.consumes) /\ \A id \in DOMAIN con : con[id] = immutable[id]
  BY DEF Consumed
<1>13. DOMAIN e.account_snapshots = referenced_accounts(e)
       /\ \A a \in referenced_accounts(e) : e.account_snapshots[a] = account_hash(head(a))
  <2>1. PICK r : r = Reversal(tid)
    OBVIOUS
  <2>2. EnvelopeOK(r) /\ e = [r EXCEPT !.account_snapshots = resolve_snapshots(r)]
    BY <2>1, ReversalFacts DEF Pinned, CheckedStore, FloorInv
  <2>3. e.account_snapshots = resolve_snapshots(r) /\ e.creates = r.creates
    BY <2>2 DEF EnvelopeOK
  <2> QED
    BY <2>3 DEF resolve_snapshots, referenced_accounts
<1> DEFINE owners == posting_owners(e, con)
           req == required_accounts(e, con)
<1>14. /\ owners = CommitRequest(e).involved /\ req = owners
       /\ \A a \in owners : Exists(a) /\ ~is_frozen(head(a)) /\ ~is_closed(head(a))
  <2>1. Accepts(CommitRequest(e))
    BY <1>10, CheckedAccepted
  <2>2. owners = CommitRequest(e).involved
    <3>1. {con[id].owner : id \in DOMAIN con} = {immutable[id].owner : id \in ToSet(e.consumes)}
      BY <1>12
    <3> QED
      BY <3>1 DEF posting_owners, CommitRequest
  <2>3. req = owners
    BY <1>13 DEF required_accounts, posting_owners
  <2> QED
    BY <2>1, <2>2, <2>3 DEF Accepts, InvolvedOpen
<1>15. as = [a \in owners |-> head(a)]
  BY <1>14 DEF Heads
<1>16. AccountsOpen(e, con, as)
  <2> HIDE DEF owners, req, con
  <2>1. posting_owners(e, con) = owners /\ DOMAIN as = owners /\ \A a \in owners : as[a] = head(a)
    BY <1>15 DEF owners
  <2> HIDE DEF as
  <2> QED
    BY <1>14, <2>1 DEF AccountsOpen
<1>17. SnapshotsMatch(e, as)
  <2>1. referenced_accounts(e) \subseteq owners
    BY DEF posting_owners
  <2> HIDE DEF owners
  <2>2. DOMAIN as = owners /\ \A a \in owners : as[a] = head(a)
    BY <1>15
  <2> HIDE DEF as
  <2> QED
    BY <1>13, <2>1, <2>2 DEF SnapshotsMatch
<1>18. NoForbiddenOffset(e, as)
  <2>1. \A np \in ToSet(e.creates) : np.owner \in owners
    BY DEF posting_owners, referenced_accounts
  <2> HIDE DEF owners
  <2>2. \A a \in owners : as[a] = head(a)
    BY <1>15
  <2> HIDE DEF as
  <2> QED
    BY <1>6, <2>1, <2>2 DEF NoForbiddenOffset
<1>19. FloorHolds(e, con, as, bals)
  <2> SUFFICES ASSUME NEW key \in balance_keys(e, con), forbids_overdraft(as[key[1]])
               PROVE  bals[key] + Delta(e, con, key[1], key[2]) >= 0
    BY DEF FloorHolds
  <2>1. key[1] \in owners /\ bals[key] = Balance(key[1], key[2])
    <3>1. PICK p \in ToSet(e.creates) \cup Range(con) : key = <<p.owner, p.asset>>
      BY DEF balance_keys
    <3>2. p.owner \in owners
      BY <3>1 DEF posting_owners, referenced_accounts, Range
    <3> QED
      BY <3>1, <3>2 DEF LoadedBalances, compute_balance
  <2>2. forbids_overdraft(head(key[1]))
    <3> HIDE DEF owners
    <3>1. as[key[1]] = head(key[1])
      BY <1>15, <2>1
    <3> QED
      BY <3>1
  <2>3. Projected(CommitRequest(e), key[1], key[2]) >= 0
    BY <1>10, <1>11, <2>2, CheckedFloor
  <2>4. Projected(CommitRequest(e), key[1], key[2])
          = Balance(key[1], key[2]) + Delta(e, con, key[1], key[2])
    BY <1>2, <1>11, ProjectionIsDelta DEF EnvelopeOK, CheckedStore, FloorInv
  <2> QED
    BY <2>1, <2>3, <2>4
<1>20. Loadable(e)
  <2> HIDE DEF owners
  <2> QED
    BY <1>4, <1>14 DEF Loadable
<1>21. ConsumesOnce(e, con)
  BY <1>8, <1>12 DEF ConsumesOnce
<1>22. validate(e, con, as, bals, {})
  <2> HIDE DEF con, as, bals
  <2> QED
    BY <1>7, <1>9, <1>16, <1>17, <1>18, <1>19, <1>21 DEF validate
<1> QED
  BY <1>20, <1>22 DEF Valid

\* A runner gives up on a reversal only when it is stuck.
LEMMA GivesUpForCause ==
    ASSUME SagaInv, [Next]_sagaVars, NEW p \in Runner, outcome[p] = "none",
           outcome'[p] = "compensation_failed"
    PROVE  Stuck(ReversalAt(p))
<1>1. outcome \in [Runner -> Outcomes] /\ CheckedStore /\ RunnerOK(p)
  BY DEF SagaInv, RunnerTypes
<1>2. ~UNCHANGED outcome
  BY <1>1
<1>3. PICK q \in Runner : Start(q) \/ Step(q)
  BY <1>2 DEF Next, OtherCommit, OtherTransition, OtherStep, Rest, sagaVars, runnerVars
<1>4. CASE Start(q)
  BY <1>1, <1>4 DEF Start
<1>5. CASE CommitLeg(q)
  BY <1>1, <1>2, <1>5 DEF CommitLeg, Unwind, Return
<1>6. CASE StoreLeg(q)
  BY <1>1, <1>2, <1>6 DEF StoreLeg, Answered, Unwind, Return
<1>7. CASE ReverseNext(q)
  <2>1. PICK e : /\ e = Pinned(Reversal(Head(undo[q])))
                 /\ \/ outcome' = outcome
                    \/ /\ envelope_id(e) \notin DOMAIN transfers /\ ~Valid(e)
                       /\ Return(q, "compensation_failed")
    BY <1>7 DEF ReverseNext
  <2>2. /\ envelope_id(e) \notin DOMAIN transfers /\ ~Valid(e)
        /\ outcome' = [outcome EXCEPT ![q] = "compensation_failed"]
    BY <1>2, <2>1 DEF Return
  <2>3. q = p
    BY <1>1, <2>2
  <2>4. pc[p] = "reverse" /\ e = ReversalAt(p)
    BY <1>7, <2>1, <2>3 DEF ReverseNext, ReversalAt
  <2>5. PICK tid \in DOMAIN transfers : tid = Head(undo[p])
    <3>1. undo[p] # <<>> /\ undo[p] \in Seq(ToSet(receipts[p])) /\ receipts[p] \in Seq(DOMAIN transfers)
      BY <1>1, <2>4 DEF RunnerOK, UnwindOK
    <3>2. ToSet(receipts[p]) \subseteq DOMAIN transfers
      BY <3>1 DEF ToSet
    <3>3. Head(undo[p]) \in ToSet(receipts[p])
      BY <3>1
    <3> QED
      BY <3>2, <3>3
  <2>6. Stuck(e)
    BY <1>1, <2>1, <2>2, <2>3, <2>5, ReversalIsValid
  <2> QED
    BY <2>4, <2>6
<1>8. CASE StoreReversal(q)
  <2>1. /\ pc[q] = "store_reversal"
        /\ \/ Reversed(q)
           \/ /\ ~AlreadyCommitted(CommitRequest(envelope[q])) /\ ~Accepts(CommitRequest(envelope[q]))
              /\ Return(q, "compensation_failed")
    BY <1>8 DEF StoreReversal
  <2>2. ~Reversed(q)
    BY <1>1, <1>2 DEF Reversed, Return
  <2>3. outcome' = [outcome EXCEPT ![q] = "compensation_failed"]
    BY <2>1, <2>2 DEF Return
  <2>4. q = p
    BY <1>1, <2>3
  <2>5. PICK e : e = envelope[p]
    OBVIOUS
  <2>6. Checked(e)
    BY <1>1, <2>1, <2>4, <2>5 DEF RunnerOK
  <2>7. envelope_id(e) \notin DOMAIN transfers /\ ~Accepts(CommitRequest(e))
    BY <2>1, <2>2, <2>4, <2>5 DEF AlreadyCommitted, CommitRequest
  <2>8. Stuck(e)
    BY <1>1, <2>6, <2>7, CheckedAccepted
  <2> QED
    BY <2>1, <2>4, <2>5, <2>8 DEF ReversalAt
<1> QED
  BY <1>3, <1>4, <1>5, <1>6, <1>7, <1>8 DEF Step

\* saga.rs unwind: the compensation is given up only when somebody spent what the
\* transfer to reverse created, or froze or closed one of its accounts. Validation -
\* conservation, offsets, floors, pins - and the floor guard of the store can refuse no
\* reversal of a transfer of this ledger.
THEOREM CompensationFailsForCauseThm == Spec => CompensationFailsForCause
<1>1. SagaInv /\ [Next]_sagaVars =>
        [\A p \in Runner : outcome[p] = "none" /\ outcome'[p] = "compensation_failed" =>
            Stuck(ReversalAt(p))]_sagaVars
  BY GivesUpForCause
<1> QED
  BY <1>1, SagaInvariant, PTL DEF Spec, CompensationFailsForCause

\* What a workflow sets out to reverse is in the log and was the answer to no leg of
\* another workflow, unless that leg was shared.
ReversesOwnLegs ==
    \A p \in Runner :
        /\ ToSet(undo[p]) \subseteq ToSet(receipts[p]) /\ ToSet(receipts[p]) \subseteq DOMAIN transfers
        /\ \A q \in Runner \ {p} : ToSet(undo[p]) \cap ToSet(receipts[q]) \subseteq shared

\* The other half of "a workflow that returned Ok stays applied": no other workflow
\* unwinds its legs, except those it was answered with by content (saga.rs commit_leg
\* through Ledger::commit of a transfer that is already there).
THEOREM ReversesOwnLegsThm == Spec => []ReversesOwnLegs
<1>1. SagaInv => ReversesOwnLegs
  <2> SUFFICES ASSUME SagaInv, NEW p \in Runner
               PROVE  /\ ToSet(undo[p]) \subseteq ToSet(receipts[p])
                      /\ ToSet(receipts[p]) \subseteq DOMAIN transfers
                      /\ \A q \in Runner \ {p} : ToSet(undo[p]) \cap ToSet(receipts[q]) \subseteq shared
    BY DEF ReversesOwnLegs
  <2>1. receipts[p] \in Seq(DOMAIN transfers) /\ undo[p] \in Seq(ToSet(receipts[p]))
    BY DEF SagaInv, RunnerOK
  <2>2. ToSet(receipts[p]) \subseteq DOMAIN transfers
    BY <2>1 DEF ToSet
  <2>3. ToSet(undo[p]) \subseteq ToSet(receipts[p])
    <3>1. PICK S : S = ToSet(receipts[p])
      OBVIOUS
    <3>2. \A i \in DOMAIN undo[p] : undo[p][i] \in S
      BY <2>1, <3>1
    <3> QED
      BY <3>1, <3>2 DEF ToSet
  <2>4. \A q \in Runner \ {p} : ToSet(receipts[p]) \cap ToSet(receipts[q]) \subseteq shared
    BY DEF SagaInv, SharedOK
  <2> QED
    BY <2>2, <2>3, <2>4
<1> QED
  BY <1>1, SagaInvariant, PTL

-----------------------------------------------------------------------------
(* Part 2, inflight holds. *)

\* A transfer with this metadata parks funds in the hold.
ParksIn(meta, h) == meta.kind = "Authorize" /\ \E l \in ToSet(meta.legs) : l.hold = h

\* The trade of the hold is authorized.
Committed(h) == \E tx \in DOMAIN transfers : ParksIn(transfers[tx].metadata, h)

\* ... and nothing of it is left.
Drained(h) == Committed(h) /\ PostingsOf(active, h) = {}

\* What an envelope creates on a key.
CreatedOn(e, a, asset) == SumValues(e.creates, OnKey(e.creates, DOMAIN e.creates, a, asset))

\* An authorization puts into each hold what its legs say, and takes nothing out of any.
AuthorizeOK(e) ==
    /\ \E t \in Trades : e.metadata = AuthorizeMeta(t)
    /\ \A l \in ToSet(e.metadata.legs) : Exists(l.hold)
    /\ \A id \in ToSet(e.consumes) : immutable[id].owner \notin Holds
    /\ \A np \in ToSet(e.creates) : np.owner \in Holds => ParksIn(e.metadata, np.owner)
    /\ \A h \in Holds, asset \in Asset :
          CreatedOn(e, h, asset) = Authorized(e.metadata.legs, h, asset)

\* A settlement spends from one hold, touches no other, and puts back only change.
SettlesFrom(e, h) ==
    /\ \A id \in ToSet(e.consumes) : immutable[id].owner = h
    /\ \A np \in ToSet(e.creates) : np.owner = h \/ np.owner \notin Holds
    /\ (\E np \in ToSet(e.creates) : np.owner = h) => e.consumes # <<>>

\* Every transfer is one or the other.
PlaysPart(e) ==
    \/ e.metadata.kind = "Authorize" /\ AuthorizeOK(e)
    \/ e.metadata.kind \in {"Confirm", "Void"} /\ \E h \in Holds : SettlesFrom(e, h)

\* The trade with every destination replaced by its hold.
Parking(t) ==
    [i \in DOMAIN t.movements |-> [t.movements[i] EXCEPT !.to = HoldOf(t, t.movements[i].to)]]

\* The transfers that clients commit.
ParksTrade(t) == \E u \in Trades : t.movements = Parking(u) /\ t.metadata = AuthorizeMeta(u)

SettlesHold(t) ==
    /\ t.metadata.kind \in {"Confirm", "Void"}
    /\ WellTyped(t)
    /\ \E h \in Holds : \A m \in ToSet(t.movements) : m.from = h /\ m.to \notin Holds

\* Holds overdraw never.
HoldsForbid == \A h \in Holds : Exists(h) => forbids_overdraft(head(h))

\* Holds are accounts.
LEMMA HoldIsAccount == \A h \in Holds : h \in Account
<1> SUFFICES ASSUME NEW h \in Holds PROVE h \in Account
  OBVIOUS
<1>1. PICK t \in Trades : h \in {HoldOf(t, m.to) : m \in ToSet(t.movements)}
  BY DEF Holds
<1>2. PICK m \in ToSet(t.movements) : h = HoldOf(t, m.to)
  BY <1>1
<1> QED
  BY <1>2, TradesAssumption DEF HoldOf

-----------------------------------------------------------------------------
(* What a commit builds. *)

\* Ledger::resolve covers the debits from the live postings.
LEMMA ResolvesLive ==
    ASSUME StoreInv, FiniteTables, NEW t
    PROVE  PostingsIn(immutable, active) /\ ResolvedFrom(resolve(t), t, immutable, active)
<1>1. active \in SUBSET DOMAIN immutable /\ \A id \in active : immutable[id] \in Posting
  BY DEF StoreInv, StoreTypeOK
<1>2. IsFiniteSet(active)
  BY <1>1, FS_Subset DEF FiniteTables
<1>3. ResolvedFrom(resolve(t), t, immutable, active)
  BY DEF ResolvedFrom, resolve, AvailableFor, ActivePostings, KeyRows
<1> QED
  BY <1>1, <1>2, <1>3 DEF PostingsIn

\* Who pays and who is paid, and how much.
LEMMA BuiltMoves ==
    ASSUME CheckedStore, NEW t, WellTyped(t), NEW e \in Built(t)
    PROVE  /\ \A id \in ToSet(e.consumes) :
                 \E m \in ToSet(t.movements) : immutable[id].owner = m.from
           /\ \A p \in ToSet(e.creates) :
                 \/ \E m \in ToSet(t.movements) : p.owner = m.to
                 \/ /\ \E m \in ToSet(t.movements) : p.owner = m.from
                    /\ NetDebit(t.movements, p.owner, p.asset) > 0
           /\ \A a \in Account, asset \in Asset :
                 CreatedOn(e, a, asset)
                   = SumValues(immutable, OnKey(immutable, ToSet(e.consumes), a, asset))
                     + Brought(t.movements, a, asset)
                     - (IF NetDebit(t.movements, a, asset) > 0
                          THEN NetDebit(t.movements, a, asset) ELSE 0)
<1>1. PICK r : r = resolve(t)
  OBVIOUS
<1>2. e.consumes = r.consumes /\ e.creates = r.creates
  BY <1>1, BuiltIsChecked
<1>3. PostingsIn(immutable, active) /\ ResolvedFrom(r, t, immutable, active)
  BY <1>1, ResolvesLive DEF CheckedStore, FloorInv
<1>4. PICK ds : ds = draft_movements(t).debits
  OBVIOUS
<1>5. /\ \A id \in ToSet(r.consumes) : \E d \in ToSet(ds) : immutable[id].owner = d.account
      /\ \A p \in ToSet(r.creates) :
            \/ \E m \in ToSet(t.movements) : p = NewPosting(m.to, m.asset, m.amount)
            \/ \E d \in ToSet(ds) : p.owner = d.account /\ p.asset = d.asset
  BY <1>3, <1>4, ResolvedShape
<1>6. \A d \in ToSet(ds) : /\ NetDebit(t.movements, d.account, d.asset) > 0
                           /\ \E m \in ToSet(t.movements) : m.from = d.account
  <2>1. ds \in Seq({d \in Debit : d.amount > 0}) /\ DebitsNet(t.movements, ds)
    BY <1>4, DraftFacts
  <2>2. \A d \in ToSet(ds) : d.amount > 0
    BY <2>1 DEF ToSet
  <2> QED
    BY <2>1, <2>2 DEF DebitsNet
<1>7. \A a \in Account, asset \in Asset :
         CreatedOn(r, a, asset)
           = SumValues(immutable, OnKey(immutable, ToSet(r.consumes), a, asset))
             + Brought(t.movements, a, asset)
             - (IF NetDebit(t.movements, a, asset) > 0
                  THEN NetDebit(t.movements, a, asset) ELSE 0)
  BY <1>3, ResolvedMoves DEF CreatedOn
<1>8. \A a \in Account, asset \in Asset : CreatedOn(e, a, asset) = CreatedOn(r, a, asset)
  BY <1>2 DEF CreatedOn
<1>9. \A p \in ToSet(r.creates) :
         \/ \E m \in ToSet(t.movements) : p.owner = m.to
         \/ /\ \E m \in ToSet(t.movements) : p.owner = m.from
            /\ NetDebit(t.movements, p.owner, p.asset) > 0
  <2> SUFFICES ASSUME NEW p \in ToSet(r.creates)
               PROVE  \/ \E m \in ToSet(t.movements) : p.owner = m.to
                      \/ /\ \E m \in ToSet(t.movements) : p.owner = m.from
                         /\ NetDebit(t.movements, p.owner, p.asset) > 0
    OBVIOUS
  <2>1. CASE \E m \in ToSet(t.movements) : p = NewPosting(m.to, m.asset, m.amount)
    BY <2>1 DEF NewPosting
  <2>2. CASE \E d \in ToSet(ds) : p.owner = d.account /\ p.asset = d.asset
    BY <1>6, <2>2
  <2> QED
    BY <1>5, <2>1, <2>2
<1>10. \A id \in ToSet(r.consumes) : \E m \in ToSet(t.movements) : immutable[id].owner = m.from
  BY <1>5, <1>6
<1> QED
  BY <1>2, <1>7, <1>8, <1>9, <1>10

\* The movements of a parked trade: same payers, assets and amounts, paid into holds.
LEMMA ParkingFacts ==
    ASSUME NEW u \in Trades, NEW t, t.movements = Parking(u)
    PROVE  /\ WellTyped(t) /\ DOMAIN t.movements = DOMAIN u.movements
           /\ \A i \in DOMAIN u.movements :
                 /\ t.movements[i].from = u.movements[i].from
                 /\ t.movements[i].to = HoldOf(u, u.movements[i].to)
                 /\ t.movements[i].asset = u.movements[i].asset
                 /\ t.movements[i].amount = u.movements[i].amount
                 /\ t.movements[i].from \notin Holds
                 /\ t.movements[i].to \in Holds
<1> DEFINE M == [from : Account, to : Account, asset : Asset, amount : Int]
           ms == u.movements
           ps == Parking(u)
<1>1. ms \in Seq(M)
  BY HoldsAssumption DEF WellTyped
<1>2. DOMAIN ms = 1..Len(ms) /\ Len(ms) \in Nat /\ \A i \in DOMAIN ms : ms[i] \in M
  <2> HIDE DEF M
  <2> QED
    BY <1>1
<1>3. /\ DOMAIN ps = DOMAIN ms
      /\ \A i \in DOMAIN ms : ps[i] = [ms[i] EXCEPT !.to = HoldOf(u, ms[i].to)]
  BY DEF Parking
<1> HIDE DEF ps
<1>4. ASSUME NEW i \in DOMAIN ms
      PROVE  /\ HoldOf(u, ms[i].to) \in Account /\ HoldOf(u, ms[i].to) \in Holds
             /\ ms[i].from \notin Holds
  <2>1. ms[i] \in ToSet(ms)
    BY DEF ToSet
  <2>2. HoldOf(u, ms[i].to) \in Holds
    BY <2>1 DEF Holds
  <2> QED
    BY <2>1, <2>2, HoldIsAccount, HoldsAssumption
<1>5. ASSUME NEW i \in DOMAIN ms
      PROVE  /\ ps[i] \in M
             /\ ps[i].from = ms[i].from /\ ps[i].to = HoldOf(u, ms[i].to)
             /\ ps[i].asset = ms[i].asset /\ ps[i].amount = ms[i].amount
  <2>1. ms[i] = [from |-> ms[i].from, to |-> ms[i].to, asset |-> ms[i].asset, amount |-> ms[i].amount]
    BY <1>2
  <2>2. ps[i] = [from |-> ms[i].from, to |-> HoldOf(u, ms[i].to), asset |-> ms[i].asset,
                 amount |-> ms[i].amount]
    BY <1>3, <2>1
  <2>3. ms[i].from \in Account /\ ms[i].asset \in Asset /\ ms[i].amount \in Int
    BY <1>2
  <2> QED
    BY <1>4, <2>2, <2>3
<1>6. ps \in Seq(M)
  <2>1. \A i \in 1..Len(ms) : ps[i] \in M
    BY <1>2, <1>5
  <2> HIDE DEF M
  <2>2. ps = [i \in 1..Len(ms) |-> ps[i]]
    BY <1>2 DEF ps, Parking
  <2>3. ps \in [1..Len(ms) -> M]
    BY <2>1, <2>2
  <2> QED
    BY <1>2, <2>3, FunctionIsSeq
<1> QED
  BY <1>3, <1>4, <1>5, <1>6 DEF ps, WellTyped

\* The legs of an authorization.
LEMMA LegsFacts ==
    ASSUME NEW u \in Trades
    PROVE  /\ AuthorizeMeta(u).kind = "Authorize"
           /\ AuthorizeMeta(u).legs \in Seq(ToSet(AuthorizeMeta(u).legs))
           /\ DOMAIN AuthorizeMeta(u).legs = DOMAIN u.movements
           /\ \A i \in DOMAIN u.movements :
                 LET l == AuthorizeMeta(u).legs[i]
                     m == u.movements[i]
                 IN /\ l.hold = HoldOf(u, m.to) /\ l.destination = m.to /\ l.funder = m.from
                    /\ l.asset = m.asset /\ l.amount = m.amount
                    /\ l.hold \in Holds /\ l.destination \in Account \ Holds
                    /\ l.funder \in Account \ Holds /\ l.asset \in Asset /\ l.amount \in Int
<1> DEFINE M == [from : Account, to : Account, asset : Asset, amount : Int]
           ms == u.movements
           ls == AuthorizeMeta(u).legs
<1>1. ms \in Seq(M)
  BY HoldsAssumption DEF WellTyped
<1>2. DOMAIN ms = 1..Len(ms) /\ Len(ms) \in Nat /\ \A i \in DOMAIN ms : ms[i] \in M
  <2> HIDE DEF M
  <2> QED
    BY <1>1
<1>3. /\ ls = [i \in DOMAIN ms |-> Leg(u, ms[i])] /\ DOMAIN ls = DOMAIN ms
      /\ AuthorizeMeta(u).kind = "Authorize"
  BY DEF AuthorizeMeta
<1>4. ls \in Seq(ToSet(ls))
  <2> HIDE DEF ls
  <2>1. ls \in [1..Len(ms) -> ToSet(ls)]
    BY <1>2, <1>3 DEF ToSet
  <2> QED
    BY <1>2, <2>1, FunctionIsSeq
<1>5. ASSUME NEW i \in DOMAIN ms
      PROVE  /\ ls[i].hold = HoldOf(u, ms[i].to) /\ ls[i].destination = ms[i].to
             /\ ls[i].funder = ms[i].from
             /\ ls[i].asset = ms[i].asset /\ ls[i].amount = ms[i].amount
             /\ ls[i].hold \in Holds /\ ls[i].destination \in Account \ Holds
             /\ ls[i].funder \in Account \ Holds /\ ls[i].asset \in Asset /\ ls[i].amount \in Int
  <2>1. ms[i] \in ToSet(ms) /\ ms[i] \in M
    BY <1>2 DEF ToSet
  <2>2. ls[i] = Leg(u, ms[i])
    BY <1>3
  <2>3. HoldOf(u, ms[i].to) \in Holds
    BY <2>1 DEF Holds
  <2>4. ms[i].from \notin Holds /\ ms[i].to \notin Holds
    BY <2>1, HoldsAssumption
  <2> QED
    BY <2>1, <2>2, <2>3, <2>4 DEF Leg
<1> QED
  BY <1>3, <1>4, <1>5

\* What a trade parks in a hold is what its legs say.
LEMMA BroughtIsAuthorized ==
    ASSUME NEW u \in Trades, NEW h, NEW asset
    PROVE  Brought(Parking(u), h, asset) = Authorized(AuthorizeMeta(u).legs, h, asset)
<1>1. PICK ps : ps = Parking(u)
  OBVIOUS
<1>2. PICK ls : ls = AuthorizeMeta(u).legs
  OBVIOUS
<1> DEFINE T == {i \in DOMAIN ps : ps[i].to = h /\ ps[i].asset = asset}
           L == {i \in DOMAIN ls : ls[i].hold = h /\ ls[i].asset = asset}
<1>3. PICK t : t = Transfer(ps, 0, 0)
  OBVIOUS
<1>4. t.movements = Parking(u)
  BY <1>1, <1>3 DEF Transfer
<1>5. /\ DOMAIN ps = DOMAIN u.movements /\ DOMAIN ls = DOMAIN u.movements
      /\ \A i \in DOMAIN u.movements : /\ ps[i].to = ls[i].hold /\ ps[i].asset = ls[i].asset
                                       /\ ps[i].amount = ls[i].amount
  BY <1>1, <1>2, <1>4, ParkingFacts, LegsFacts
<1>6. T = L
  BY <1>5
<1>7. IsFiniteSet(T)
  <2>1. ls \in Seq(ToSet(ls))
    BY <1>2, LegsFacts
  <2>2. DOMAIN ls = 1..Len(ls) /\ Len(ls) \in Nat
    BY <2>1
  <2>3. IsFiniteSet(DOMAIN ls) /\ L \in SUBSET DOMAIN ls
    BY <2>2, FS_Interval
  <2> HIDE DEF L, T
  <2> QED
    BY <1>6, <2>3, FS_Subset
<1>8. Brought(ps, h, asset) = Amounts(ps, T) /\ Authorized(ls, h, asset) = Amounts(ls, L)
  BY DEF Brought, Authorized, Amounts
<1>9. \A i \in T : ps[i].amount = ls[i].amount
  BY <1>5
<1> HIDE DEF T, L
<1>10. Amounts(ps, T) = SumOf([i \in T |-> ps[i].amount], T)
       /\ Amounts(ls, T) = SumOf([i \in T |-> ls[i].amount], T)
  BY <1>7, AmountsIs
<1>11. [i \in T |-> ps[i].amount] = [i \in T |-> ls[i].amount]
  BY <1>9
<1> QED
  BY <1>1, <1>2, <1>6, <1>8, <1>10, <1>11

\* An authorization that is ready to be stored.
LEMMA BuiltParks ==
    ASSUME CheckedStore, NEW t, ParksTrade(t), NEW e \in Built(t)
    PROVE  AuthorizeOK(e) /\ e.metadata = t.metadata /\ e.metadata.kind = "Authorize"
<1>1. PICK u \in Trades : t.movements = Parking(u) /\ t.metadata = AuthorizeMeta(u)
  BY DEF ParksTrade
<1>2. PICK ms : ms = t.movements
  OBVIOUS
<1>3. /\ WellTyped(t) /\ DOMAIN ms = DOMAIN u.movements
      /\ \A i \in DOMAIN ms : /\ ms[i].from \notin Holds
                              /\ ms[i].to \in Holds /\ ms[i].to = HoldOf(u, u.movements[i].to)
  BY <1>1, <1>2, ParkingFacts
<1>4. e.metadata = t.metadata
  BY <1>3, BuiltIsChecked DEF resolve, resolve_envelope, Envelope
<1>5. PICK ls : ls = AuthorizeMeta(u).legs
  OBVIOUS
<1>6. /\ DOMAIN ls = DOMAIN ms /\ e.metadata.kind = "Authorize" /\ e.metadata.legs = ls
      /\ \A i \in DOMAIN ls : ls[i].hold = ms[i].to
  BY <1>1, <1>3, <1>4, <1>5, LegsFacts
<1>7. \A l \in ToSet(ls) : Exists(l.hold)
  <2>1. Resolvable(t)
    BY DEF Built
  <2>2. \A i \in DOMAIN ms : Exists(ms[i].to)
    BY <1>2, <2>1 DEF Resolvable, ToSet
  <2> QED
    BY <1>6, <2>2 DEF ToSet
<1>8. \A id \in ToSet(e.consumes) : immutable[id].owner \notin Holds
  <2>1. \A id \in ToSet(e.consumes) : \E m \in ToSet(ms) : immutable[id].owner = m.from
    BY <1>2, <1>3, BuiltMoves
  <2> QED
    BY <1>3, <2>1 DEF ToSet
<1>9. \A np \in ToSet(e.creates) : np.owner \in Holds => ParksIn(e.metadata, np.owner)
  <2> SUFFICES ASSUME NEW np \in ToSet(e.creates), np.owner \in Holds
               PROVE  \E l \in ToSet(ls) : l.hold = np.owner
    BY <1>6 DEF ParksIn
  <2>1. \/ \E m \in ToSet(ms) : np.owner = m.to
        \/ \E m \in ToSet(ms) : np.owner = m.from
    BY <1>2, <1>3, BuiltMoves
  <2>2. \A m \in ToSet(ms) : m.from \notin Holds
    BY <1>3 DEF ToSet
  <2>3. PICK i \in DOMAIN ms : np.owner = ms[i].to
    BY <2>1, <2>2 DEF ToSet
  <2> QED
    BY <1>6, <2>3 DEF ToSet
<1>10. ASSUME NEW h \in Holds, NEW asset \in Asset
       PROVE  CreatedOn(e, h, asset) = Authorized(ls, h, asset)
  <2>1. h \in Account
    BY HoldIsAccount
  <2>2. CreatedOn(e, h, asset)
          = SumValues(immutable, OnKey(immutable, ToSet(e.consumes), h, asset))
            + Brought(ms, h, asset)
            - (IF NetDebit(ms, h, asset) > 0 THEN NetDebit(ms, h, asset) ELSE 0)
    BY <1>2, <1>3, <2>1, BuiltMoves
  <2>3. OnKey(immutable, ToSet(e.consumes), h, asset) = {}
    BY <1>8 DEF OnKey
  <2>4. SumValues(immutable, {}) = 0
    BY ValuesType, FS_EmptySet DEF HasValues
  <2>5. NetDebit(ms, h, asset) = 0
    <3> DEFINE S == {i \in DOMAIN ms : ms[i].from = h /\ ms[i].asset = asset}
    <3>1. S = {}
      BY <1>3
    <3>2. NetDebit(ms, h, asset) = Amounts(ms, S)
      BY DEF NetDebit, Amounts
    <3>3. Amounts(ms, {}) = SumOf([i \in {} |-> ms[i].amount], {})
      BY FS_EmptySet, AmountsIs
    <3>4. SumOf([i \in {} |-> ms[i].amount], {}) = 0
      BY SumEmpty
    <3> QED
      BY <3>1, <3>2, <3>3, <3>4
  <2>6. Brought(ms, h, asset) = Authorized(ls, h, asset)
    BY <1>1, <1>2, <1>5, BroughtIsAuthorized
  <2>7. Brought(ms, h, asset) \in Int
    BY <1>2, <1>3, BroughtType DEF WellTyped
  <2> QED
    BY <2>2, <2>3, <2>4, <2>5, <2>6, <2>7
<1> QED
  BY <1>1, <1>4, <1>6, <1>7, <1>8, <1>9, <1>10 DEF AuthorizeOK

\* Movements that do not name an account as payee bring it nothing.
LEMMA NothingBrought ==
    ASSUME NEW ms, NEW a, NEW asset, \A i \in DOMAIN ms : ms[i].to # a
    PROVE  Brought(ms, a, asset) = 0
<1> DEFINE S == {i \in DOMAIN ms : ms[i].to = a /\ ms[i].asset = asset}
<1>1. S = {}
  OBVIOUS
<1>2. Brought(ms, a, asset) = Amounts(ms, S)
  BY DEF Brought
<1>3. Amounts(ms, {}) = SumOf([i \in {} |-> ms[i].amount], {})
  BY FS_EmptySet, AmountsIs
<1> QED
  BY <1>1, <1>2, <1>3, SumEmpty

\* A settlement that is ready to be stored. Without a posting to spend there is no change:
\* it would be an offset, which a hold does not allow.
LEMMA BuiltSettles ==
    ASSUME CheckedStore, HoldsForbid, NEW t, SettlesHold(t), NEW e \in Built(t)
    PROVE  /\ e.metadata = t.metadata /\ e.metadata.kind \in {"Confirm", "Void"}
           /\ \E h \in Holds : SettlesFrom(e, h)
<1>1. PICK ms : ms = t.movements
  OBVIOUS
<1>2. /\ WellTyped(t) /\ t.metadata.kind \in {"Confirm", "Void"}
      /\ \E h \in Holds : \A m \in ToSet(ms) : m.from = h /\ m.to \notin Holds
  BY <1>1 DEF SettlesHold
<1>3. PICK h \in Holds : \A m \in ToSet(ms) : m.from = h /\ m.to \notin Holds
  BY <1>2
<1>4. e.metadata = t.metadata /\ Checked(e)
  BY <1>2, BuiltIsChecked DEF resolve, resolve_envelope, Envelope
<1>5. \A id \in ToSet(e.consumes) : immutable[id].owner = h
  <2>1. \A id \in ToSet(e.consumes) : \E m \in ToSet(ms) : immutable[id].owner = m.from
    BY <1>1, <1>2, BuiltMoves
  <2> QED
    BY <1>3, <2>1
<1>6. \A np \in ToSet(e.creates) :
         \/ np.owner \notin Holds
         \/ np.owner = h /\ NetDebit(ms, h, np.asset) > 0
  <2> SUFFICES ASSUME NEW np \in ToSet(e.creates)
               PROVE  np.owner \notin Holds \/ (np.owner = h /\ NetDebit(ms, h, np.asset) > 0)
    OBVIOUS
  <2>1. \/ \E m \in ToSet(ms) : np.owner = m.to
        \/ /\ \E m \in ToSet(ms) : np.owner = m.from
           /\ NetDebit(ms, np.owner, np.asset) > 0
    BY <1>1, <1>2, BuiltMoves
  <2> QED
    BY <1>3, <2>1
<1>7. ASSUME NEW np \in ToSet(e.creates), np.owner = h, e.consumes = <<>>
      PROVE  FALSE
  <2>1. np \in Posting /\ np.asset \in Asset /\ h \in Account
    <3>1. np \in Posting
      BY <1>4, CreatesFacts DEF Checked
    <3> QED
      BY <3>1, HoldIsAccount DEF Posting
  <2>2. PICK asset \in Asset : asset = np.asset
    BY <2>1
  <2>3. PICK net : net = NetDebit(ms, h, asset)
    OBVIOUS
  <2>4. net \in Int /\ net > 0
    <3>1. net \in Int
      BY <1>1, <1>2, <2>3, NetDebitType DEF WellTyped
    <3> QED
      BY <1>6, <1>7, <2>2, <2>3, <3>1
  <2>5. CreatedOn(e, h, asset)
          = SumValues(immutable, OnKey(immutable, ToSet(e.consumes), h, asset))
            + Brought(ms, h, asset) - (IF net > 0 THEN net ELSE 0)
    BY <1>1, <1>2, <2>1, <2>3, BuiltMoves
  <2>6. OnKey(immutable, ToSet(e.consumes), h, asset) = {}
    BY <1>7 DEF OnKey, ToSet
  <2>7. SumValues(immutable, {}) = 0
    BY ValuesType, FS_EmptySet DEF HasValues
  <2>8. Brought(ms, h, asset) = 0
    <3>1. \A i \in DOMAIN ms : ms[i].to # h
      BY <1>3 DEF ToSet
    <3> QED
      BY <3>1, NothingBrought
  <2>9. CreatedOn(e, h, asset) < 0
    BY <2>4, <2>5, <2>6, <2>7, <2>8
  <2> DEFINE K == OnKey(e.creates, DOMAIN e.creates, h, asset)
  <2>10. forbids_overdraft(head(h))
    BY <1>4, <1>7 DEF Checked, HoldsForbid
  <2>11. e.creates \in Seq(Posting)
    BY <1>4 DEF Checked, EnvelopeOK
  <2>12. K \in SUBSET DOMAIN e.creates /\ \A i \in K : e.creates[i].owner = h
    BY DEF OnKey
  <2>13. \A i \in K : e.creates[i] \in Posting /\ e.creates[i] \in ToSet(e.creates)
    BY <2>11, <2>12 DEF ToSet
  <2>14. \A i \in K : e.creates[i].value \in Int /\ e.creates[i].value >= 0
    BY <1>4, <2>10, <2>12, <2>13 DEF Checked, Posting
  <2>15. IsFiniteSet(K)
    <3>1. DOMAIN e.creates = 1..Len(e.creates) /\ Len(e.creates) \in Nat
      BY <2>11
    <3>2. IsFiniteSet(DOMAIN e.creates)
      BY <3>1, FS_Interval
    <3> QED
      BY <2>12, <3>2, FS_Subset
  <2>16. CreatedOn(e, h, asset) = SumValues(e.creates, K)
    BY DEF CreatedOn
  <2> HIDE DEF K
  <2>17. SumValues(e.creates, K) >= 0 /\ SumValues(e.creates, K) \in Int
    BY <2>14, <2>15, ValuesNonNegative, ValuesType DEF HasValues
  <2> QED
    BY <2>9, <2>16, <2>17
<1>8. SettlesFrom(e, h)
  BY <1>5, <1>6, <1>7 DEF SettlesFrom
<1> QED
  BY <1>2, <1>4, <1>8

-----------------------------------------------------------------------------
(* What the log says about a hold. *)

\* What is known of a stored or ready envelope stays so while the tables grow.
LEMMA PartStays ==
    ASSUME NEW e, Checked(e), PlaysPart(e), StoreGrows
    PROVE  PlaysPart(e)'
<1>1. \A id \in ToSet(e.consumes) : immutable'[id] = immutable[id]
  BY DEF Checked, StoreGrows
<1>2. ASSUME AuthorizeOK(e) PROVE AuthorizeOK(e)'
  <2>1. PICK t \in Trades : e.metadata = AuthorizeMeta(t)
    BY <1>2 DEF AuthorizeOK
  <2>2. \A l \in ToSet(e.metadata.legs) : l.hold \in Account
    <3>1. \A i \in DOMAIN e.metadata.legs : e.metadata.legs[i].hold \in Holds
      BY <2>1, LegsFacts
    <3> QED
      BY <3>1, HoldIsAccount DEF ToSet
  <2>3. \A l \in ToSet(e.metadata.legs) : Exists(l.hold)'
    BY <1>2, <2>2 DEF AuthorizeOK, StoreGrows, Exists
  <2>4. \A id \in ToSet(e.consumes) : immutable'[id].owner \notin Holds
    BY <1>1, <1>2 DEF AuthorizeOK
  <2> QED
    BY <1>2, <2>3, <2>4 DEF AuthorizeOK
<1>3. ASSUME NEW h, SettlesFrom(e, h) PROVE SettlesFrom(e, h)'
  BY <1>1, <1>3 DEF SettlesFrom
<1> QED
  BY <1>2, <1>3 DEF PlaysPart

\* A trade that is authorized stays so, and its holds are open accounts.
LEMMA CommittedStays ==
    ASSUME RecordsKept, NEW h, Committed(h)
    PROVE  Committed(h)'
BY DEF RecordsKept, Committed, ParksIn

LogExplained == \A t \in DOMAIN transfers : PlaysPart(transfers[t])

LEMMA CommittedExists ==
    ASSUME LogExplained, NEW h, Committed(h)
    PROVE  h \in Holds /\ Exists(h)
<1>1. PICK tx \in DOMAIN transfers : ParksIn(transfers[tx].metadata, h)
  BY DEF Committed
<1>2. PICK e : e = transfers[tx]
  OBVIOUS
<1>3. AuthorizeOK(e)
  BY <1>1, <1>2 DEF LogExplained, PlaysPart, ParksIn
<1>4. PICK l \in ToSet(e.metadata.legs) : l.hold = h
  BY <1>1, <1>2 DEF ParksIn
<1>5. PICK t \in Trades : e.metadata = AuthorizeMeta(t)
  BY <1>3 DEF AuthorizeOK
<1>6. l.hold \in Holds
  <2>1. PICK i \in DOMAIN e.metadata.legs : l = e.metadata.legs[i]
    BY <1>4 DEF ToSet
  <2> QED
    BY <1>5, <2>1, LegsFacts
<1> QED
  BY <1>3, <1>4, <1>6 DEF AuthorizeOK

\* What an envelope consumes of a key.
ConsumedOn(e, a, asset) == SumValues(immutable, OnKey(immutable, ToSet(e.consumes), a, asset))

\* What it takes out of a hold, as derive_status counts it.
OutOf(e, h, asset) ==
    SumValues(e.creates, {i \in DOMAIN e.creates : LeavesHold(e.creates[i], h) /\ e.creates[i].asset = asset})

\* Whether the store indexes it under the hold.
Involves(e, h) ==
    h \in referenced_accounts(e) \cup {immutable[id].owner : id \in ToSet(e.consumes)}


\* What an envelope changes of a balance.
Moves(e, a, asset) == CreatedOn(e, a, asset) - ConsumedOn(e, a, asset)

\* Both sums are integers.
LEMMA MovesType ==
    ASSUME StoreInv, FiniteTables, NEW e, e.creates \in Seq(Posting),
           ToSet(e.consumes) \subseteq DOMAIN immutable, NEW a, NEW asset
    PROVE  /\ HasValues(immutable, OnKey(immutable, ToSet(e.consumes), a, asset))
           /\ HasValues(e.creates, OnKey(e.creates, DOMAIN e.creates, a, asset))
           /\ CreatedOn(e, a, asset) \in Int /\ ConsumedOn(e, a, asset) \in Int
           /\ Moves(e, a, asset) \in Int
<1> DEFINE K == OnKey(immutable, ToSet(e.consumes), a, asset)
           R == OnKey(e.creates, DOMAIN e.creates, a, asset)
<1>1. K \in SUBSET DOMAIN immutable /\ R \in SUBSET DOMAIN e.creates
  BY DEF OnKey
<1>2. /\ \A id \in DOMAIN immutable : immutable[id].value \in Int
      /\ \A i \in DOMAIN e.creates : e.creates[i].value \in Int
      /\ IsFiniteSet(DOMAIN immutable) /\ IsFiniteSet(DOMAIN e.creates)
  BY NewIdsFacts DEF StoreInv, StoreTypeOK, Posting, FiniteTables
<1>3. /\ CreatedOn(e, a, asset) = SumValues(e.creates, R)
      /\ ConsumedOn(e, a, asset) = SumValues(immutable, K)
  BY DEF CreatedOn, ConsumedOn
<1> HIDE DEF K, R
<1>4. IsFiniteSet(K) /\ IsFiniteSet(R)
  BY <1>1, <1>2, FS_Subset
<1>5. HasValues(immutable, K) /\ HasValues(e.creates, R)
  BY <1>1, <1>2, <1>4 DEF HasValues
<1>6. SumValues(e.creates, R) \in Int /\ SumValues(immutable, K) \in Int
  BY <1>5, ValuesType
<1> QED
  BY <1>3, <1>5, <1>6 DEF K, R, Moves

\* ... and the balance moves by their difference.
LEMMA CommitMoves ==
    ASSUME NEW e, Checked(e), commit_envelope(CommitRequest(e)), CheckedStore, NEW a, NEW asset
    PROVE  Balance(a, asset)' = Balance(a, asset) + Moves(e, a, asset) /\ Balance(a, asset) \in Int
<1>1. e.creates \in Seq(Posting) /\ StoreInv /\ FiniteTables
  BY DEF Checked, EnvelopeOK, CheckedStore, FloorInv
<1>2. ToSet(e.consumes) \subseteq active /\ active \subseteq DOMAIN immutable
  BY <1>1, CommitEffect DEF StoreInv, StoreTypeOK
<1>3. /\ Balance(a, asset)' = Balance(a, asset) + Delta(e, Consumed(e), a, asset)
      /\ Balance(a, asset) \in Int
  BY <1>1, <1>2, CommitBalance, ProjectionIsDelta
<1> DEFINE con == Consumed(e)
           K == OnKey(immutable, ToSet(e.consumes), a, asset)
           R == OnKey(e.creates, DOMAIN e.creates, a, asset)
<1>4. DOMAIN con = ToSet(e.consumes) /\ \A id \in ToSet(e.consumes) : con[id] = immutable[id]
  BY DEF Consumed
<1>5. Delta(e, con, a, asset)
        = SumValues(e.creates, R)
          - SumValues(con, {id \in DOMAIN con : con[id].owner = a /\ con[id].asset = asset})
  BY DEF Delta, OnKey
<1> HIDE DEF con
<1>6. {id \in DOMAIN con : con[id].owner = a /\ con[id].asset = asset} = K
  BY <1>4 DEF OnKey
<1>7. \A id \in K : con[id].value = immutable[id].value
  BY <1>4 DEF OnKey
<1>8. IsFiniteSet(K)
  BY <1>1, <1>2, MovesType DEF HasValues
<1> HIDE DEF K
<1>9. SumValues(con, K) = SumValues(immutable, K)
  BY <1>7, <1>8, ValuesSame
<1>10. Delta(e, con, a, asset) = SumValues(e.creates, R) - SumValues(immutable, K)
  BY <1>5, <1>6, <1>9
<1> QED
  BY <1>3, <1>10 DEF con, K, Moves, CreatedOn, ConsumedOn

\* A settlement takes out of its hold what derive_status counts, and moves no other hold.
LEMMA SettlementMoves ==
    ASSUME CheckedStore, NEW e, Checked(e), NEW s \in Holds, SettlesFrom(e, s), NEW h \in Holds,
           NEW asset \in Asset
    PROVE  /\ OutOf(e, h, asset) \in Int
           /\ Moves(e, h, asset) = IF Involves(e, h) THEN 0 - OutOf(e, h, asset) ELSE 0
<1>1. e.creates \in Seq(Posting) /\ StoreInv /\ FiniteTables /\ ToSet(e.consumes) \subseteq DOMAIN immutable
  BY DEF Checked, EnvelopeOK, CheckedStore, FloorInv
<1> DEFINE A == OfAsset(e.creates, DOMAIN e.creates, asset)
           B == OfAsset(immutable, ToSet(e.consumes), asset)
           K == OnKey(immutable, ToSet(e.consumes), h, asset)
           R == OnKey(e.creates, DOMAIN e.creates, h, asset)
           O == {i \in DOMAIN e.creates : LeavesHold(e.creates[i], h) /\ e.creates[i].asset = asset}
<1>2. /\ HasValues(immutable, B) /\ HasValues(e.creates, A)
      /\ SumValues(immutable, B) = SumValues(e.creates, A)
  BY <1>1, SpentIsMade DEF Checked
<1>3. A = R \cup O /\ R \cap O = {} /\ O \in SUBSET A /\ R \in SUBSET A
  BY DEF OfAsset, OnKey, LeavesHold
<1>4. /\ \A id \in ToSet(e.consumes) : immutable[id].owner = s
      /\ \A i \in DOMAIN e.creates : e.creates[i].owner = s \/ e.creates[i].owner \notin Holds
  BY DEF SettlesFrom, ToSet
<1>5. OutOf(e, h, asset) = SumValues(e.creates, O)
  BY DEF OutOf
<1>6. Moves(e, h, asset) = SumValues(e.creates, R) - SumValues(immutable, K)
  BY DEF Moves, CreatedOn, ConsumedOn
<1>7. h = s => K = B
  BY <1>4 DEF OnKey, OfAsset
<1>8. h # s => K = {} /\ R = {} /\ ~Involves(e, h)
  BY <1>4 DEF OnKey, Involves, referenced_accounts, ToSet
<1>9. ~Involves(e, h) => K = {} /\ R = {}
  BY DEF OnKey, Involves, referenced_accounts, ToSet
<1>10. HasValues(e.creates, O) /\ HasValues(e.creates, R)
  <2> HIDE DEF A, O, R
  <2> QED
    BY <1>2, <1>3, FS_Subset DEF HasValues
<1> HIDE DEF A, B, K, R, O
<1>11. /\ SumValues(e.creates, A) = SumValues(e.creates, R) + SumValues(e.creates, O)
       /\ SumValues(e.creates, R) \in Int /\ SumValues(e.creates, O) \in Int
  BY <1>3, <1>10, ValuesDisjoint, ValuesType
<1>12. SumValues(e.creates, {}) = 0 /\ SumValues(immutable, {}) = 0
  BY <1>2, ValuesType
<1>13. CASE Involves(e, h)
  <2>1. h = s
    BY <1>8, <1>13
  <2> QED
    BY <1>2, <1>5, <1>6, <1>7, <1>11, <1>13, <2>1
<1>14. CASE ~Involves(e, h)
  <2>1. SumValues(e.creates, R) = 0 /\ SumValues(immutable, K) = 0
    BY <1>9, <1>12, <1>14
  <2> QED
    BY <1>5, <1>6, <1>11, <1>14, <2>1
<1> QED
  BY <1>13, <1>14

-----------------------------------------------------------------------------
(* The books of a hold add up. *)

\* The log is finite.
FiniteLog == IsFiniteSet(DOMAIN transfers)

\* g sums what the transfers park on a key, over every subset of S.
ParkSol(key, S, g) ==
    g = [s \in SUBSET S |->
            IF s = {} THEN 0
            ELSE Authorized(legs_of(CHOOSE x \in s : TRUE), key[1], key[2])
                 + g[s \ {CHOOSE x \in s : TRUE}]]

\* The authorized amount is a sum over the authorizations.
LEMMA AuthorizedIs ==
    ASSUME FiniteLog, NEW key
    PROVE  AuthorizedOn(key)
             = SumOf([t \in Inflights |-> Authorized(legs_of(t), key[1], key[2])], Inflights)
<1> DEFINE S == Inflights
           v == [t \in S |-> Authorized(legs_of(t), key[1], key[2])]
           g == CHOOSE h : SumSol(v, S, h)
           k == CHOOSE h : ParkSol(key, S, h)
<1>0. IsFiniteSet(S)
  <2>1. S \in SUBSET DOMAIN transfers
    BY DEF Inflights
  <2> QED
    BY <2>1, FS_Subset DEF FiniteLog
<1>1. AuthorizedOn(key) = k[S]
  BY DEF AuthorizedOn, MapThenSumSet, MapThenFoldSet, ParkSol
<1> HIDE DEF S
<1>2. \A s \in SUBSET S : s # {} =>
         v[Pick(s)] = Authorized(legs_of(CHOOSE x \in s : TRUE), key[1], key[2])
  BY PickFacts DEF Pick
<1>3. SumSol(v, S, g)
  BY <1>0, SumExists, SumChosen
<1>4. ASSUME NEW h PROVE SumSol(v, S, h) <=> ParkSol(key, S, h)
  BY <1>2 DEF SumSol, ParkSol, Pick
<1>5. ParkSol(key, S, g)
  BY <1>3, <1>4
<1>6. ParkSol(key, S, k)
  <2> HIDE DEF g, v
  <2>1. \E h : ParkSol(key, S, h)
    BY <1>5
  <2> QED
    BY <2>1, Zenon
<1>7. k[S] = SumOf(v, S)
  <2>1. SumSol(v, S, k)
    BY <1>4, <1>6
  <2>2. k[S] = g[S]
    BY <1>0, <1>3, <2>1, SumUnique
  <2> QED
    BY <2>2 DEF SumOf
<1> QED
  BY <1>1, <1>7 DEF S

\* The transfers of a role that are indexed under a hold.
History(role, h) == {t \in DOMAIN transfers : transfers[t].metadata.kind = role /\ Involves(transfers[t], h)}

\* g sums what they take out of it.
SettleSol(h, asset, S, g) ==
    g = [s \in SUBSET S |->
            IF s = {} THEN 0
            ELSE OutOf(transfers[CHOOSE x \in s : TRUE], h, asset)
                 + g[s \ {CHOOSE x \in s : TRUE}]]

\* The settled amount is a sum over them.
LEMMA SettledIs ==
    ASSUME FiniteLog, NEW role, NEW h, NEW asset
    PROVE  Settled(role, h, asset)
             = SumOf([t \in History(role, h) |-> OutOf(transfers[t], h, asset)], History(role, h))
<1> DEFINE S == History(role, h)
           v == [t \in S |-> OutOf(transfers[t], h, asset)]
           g == CHOOSE f : SumSol(v, S, f)
           k == CHOOSE f : SettleSol(h, asset, S, f)
<1>0. IsFiniteSet(S)
  <2>1. S \in SUBSET DOMAIN transfers
    BY DEF History
  <2> QED
    BY <2>1, FS_Subset DEF FiniteLog
<1>1. Settled(role, h, asset) = k[S]
  BY DEF Settled, MapThenSumSet, MapThenFoldSet, SettleSol, OutOf, History, Involves
<1> HIDE DEF S
<1>2. \A s \in SUBSET S : s # {} => v[Pick(s)] = OutOf(transfers[CHOOSE x \in s : TRUE], h, asset)
  BY PickFacts DEF Pick
<1>3. SumSol(v, S, g)
  BY <1>0, SumExists, SumChosen
<1>4. ASSUME NEW f PROVE SumSol(v, S, f) <=> SettleSol(h, asset, S, f)
  BY <1>2 DEF SumSol, SettleSol, Pick
<1>5. SettleSol(h, asset, S, g)
  BY <1>3, <1>4
<1>6. SettleSol(h, asset, S, k)
  <2> HIDE DEF g, v
  <2>1. \E f : SettleSol(h, asset, S, f)
    BY <1>5
  <2> QED
    BY <2>1, Zenon
<1>7. k[S] = SumOf(v, S)
  <2>1. SumSol(v, S, k)
    BY <1>4, <1>6
  <2>2. k[S] = g[S]
    BY <1>0, <1>3, <2>1, SumUnique
  <2> QED
    BY <2>2 DEF SumOf
<1> QED
  BY <1>1, <1>7 DEF S

\* What an envelope is to a hold: parked, confirmed or voided.
ParkedBy(e, h, asset) ==
    IF e.metadata.kind = "Authorize" THEN Authorized(e.metadata.legs, h, asset) ELSE 0
SettledBy(role, e, h, asset) ==
    IF e.metadata.kind = role /\ Involves(e, h) THEN OutOf(e, h, asset) ELSE 0

\* What it moves is one of the three.
LEMMA PartMoves ==
    ASSUME CheckedStore, NEW e, Checked(e), PlaysPart(e), NEW h \in Holds, NEW asset \in Asset
    PROVE  /\ Moves(e, h, asset) \in Int /\ ParkedBy(e, h, asset) \in Int
           /\ SettledBy("Confirm", e, h, asset) \in Int /\ SettledBy("Void", e, h, asset) \in Int
           /\ ParkedBy(e, h, asset) = Moves(e, h, asset)
                + (SettledBy("Confirm", e, h, asset) + SettledBy("Void", e, h, asset))
<1>1. e.creates \in Seq(Posting) /\ StoreInv /\ FiniteTables /\ ToSet(e.consumes) \subseteq DOMAIN immutable
  BY DEF Checked, EnvelopeOK, CheckedStore, FloorInv
<1>2. Moves(e, h, asset) \in Int /\ CreatedOn(e, h, asset) \in Int
  BY <1>1, MovesType
<1>3. CASE e.metadata.kind = "Authorize" /\ AuthorizeOK(e)
  <2>1. CreatedOn(e, h, asset) = ParkedBy(e, h, asset)
    BY <1>3 DEF AuthorizeOK, ParkedBy
  <2>2. ConsumedOn(e, h, asset) = 0
    <3>1. OnKey(immutable, ToSet(e.consumes), h, asset) = {}
      BY <1>3 DEF AuthorizeOK, OnKey
    <3>2. SumValues(immutable, {}) = 0
      BY ValuesType, FS_EmptySet DEF HasValues
    <3> QED
      BY <3>1, <3>2 DEF ConsumedOn
  <2>3. SettledBy("Confirm", e, h, asset) = 0 /\ SettledBy("Void", e, h, asset) = 0
    BY <1>3 DEF SettledBy
  <2>4. Moves(e, h, asset) = CreatedOn(e, h, asset)
    BY <1>2, <2>2 DEF Moves
  <2> QED
    BY <1>2, <2>1, <2>3, <2>4
<1>4. CASE e.metadata.kind \in {"Confirm", "Void"} /\ \E s \in Holds : SettlesFrom(e, s)
  <2>1. PICK s \in Holds : SettlesFrom(e, s)
    BY <1>4
  <2>2. /\ OutOf(e, h, asset) \in Int
        /\ Moves(e, h, asset) = IF Involves(e, h) THEN 0 - OutOf(e, h, asset) ELSE 0
    BY <2>1, SettlementMoves
  <2>3. ParkedBy(e, h, asset) = 0
    BY <1>4 DEF ParkedBy
  <2>4. CASE e.metadata.kind = "Confirm"
    BY <1>2, <2>2, <2>3, <2>4 DEF SettledBy
  <2>5. CASE e.metadata.kind = "Void"
    BY <1>2, <2>2, <2>3, <2>5 DEF SettledBy
  <2> QED
    BY <1>4, <2>4, <2>5
<1> QED
  BY <1>3, <1>4 DEF PlaysPart

\* What is on a hold is what the transfers moved.
BooksOK ==
    \A h \in Holds, asset \in Asset :
        /\ Balance(h, asset) \in Int
        /\ Balance(h, asset)
             = SumOf([t \in DOMAIN transfers |-> Moves(transfers[t], h, asset)], DOMAIN transfers)

\* ... so what was parked is settled or still there.
LEMMA BooksAddUp ==
    ASSUME CheckedStore, LogExplained, FiniteLog, BooksOK, NEW h \in Holds, NEW asset \in Asset
    PROVE  AuthorizedOn(<<h, asset>>)
             = Settled("Confirm", h, asset) + Settled("Void", h, asset) + Balance(h, asset)
<1> DEFINE D == DOMAIN transfers
           a == [t \in D |-> ParkedBy(transfers[t], h, asset)]
           c == [t \in D |-> SettledBy("Confirm", transfers[t], h, asset)]
           v == [t \in D |-> SettledBy("Void", transfers[t], h, asset)]
           w == [t \in D |-> c[t] + v[t]]
           m == [t \in D |-> Moves(transfers[t], h, asset)]
           A == Inflights
           C == History("Confirm", h)
           V == History("Void", h)
           fa == [t \in A |-> Authorized(legs_of(t), h, asset)]
           fc == [t \in C |-> OutOf(transfers[t], h, asset)]
           fv == [t \in V |-> OutOf(transfers[t], h, asset)]
<1>1. \A t \in D : /\ a[t] \in Int /\ c[t] \in Int /\ v[t] \in Int /\ m[t] \in Int
                   /\ w[t] = c[t] + v[t] /\ a[t] = m[t] + w[t]
  <2> SUFFICES ASSUME NEW t \in D
               PROVE  /\ a[t] \in Int /\ c[t] \in Int /\ v[t] \in Int /\ m[t] \in Int
                      /\ w[t] = c[t] + v[t] /\ a[t] = m[t] + w[t]
    OBVIOUS
  <2>1. PICK e : e = transfers[t]
    OBVIOUS
  <2>2. Checked(e) /\ PlaysPart(e)
    BY <2>1 DEF LogExplained, CheckedStore, LogChecked
  <2>3. /\ Moves(e, h, asset) \in Int /\ ParkedBy(e, h, asset) \in Int
        /\ SettledBy("Confirm", e, h, asset) \in Int /\ SettledBy("Void", e, h, asset) \in Int
        /\ ParkedBy(e, h, asset) = Moves(e, h, asset)
             + (SettledBy("Confirm", e, h, asset) + SettledBy("Void", e, h, asset))
    BY <2>2, PartMoves
  <2> QED
    BY <2>1, <2>3
<1>2. /\ A \in SUBSET D /\ C \in SUBSET D /\ V \in SUBSET D
      /\ \A t \in A : fa[t] = a[t]
      /\ \A t \in C : fc[t] = c[t]
      /\ \A t \in V : fv[t] = v[t]
      /\ \A t \in D \ A : a[t] = 0
      /\ \A t \in D \ C : c[t] = 0
      /\ \A t \in D \ V : v[t] = 0
  BY DEF Inflights, History, legs_of, ParkedBy, SettledBy
<1>3. /\ AuthorizedOn(<<h, asset>>) = SumOf(fa, A)
      /\ Settled("Confirm", h, asset) = SumOf(fc, C) /\ Settled("Void", h, asset) = SumOf(fv, V)
  <2>1. PICK key : key = <<h, asset>>
    OBVIOUS
  <2>2. AuthorizedOn(key) = SumOf([t \in A |-> Authorized(legs_of(t), key[1], key[2])], A)
    BY AuthorizedIs
  <2> QED
    BY <2>1, <2>2, SettledIs
<1>4. Balance(h, asset) = SumOf(m, D) /\ IsFiniteSet(D)
  BY DEF BooksOK, FiniteLog
<1> HIDE DEF D, a, c, v, w, m, A, C, V, fa, fc, fv
<1>5. SumOf(a, D) = SumOf(fa, A)
  <2>1. \A t \in A : fa[t] \in Int /\ a[t] = fa[t]
    BY <1>1, <1>2
  <2> QED
    BY <1>2, <1>4, <2>1, SumMask
<1>6. SumOf(c, D) = SumOf(fc, C)
  <2>1. \A t \in C : fc[t] \in Int /\ c[t] = fc[t]
    BY <1>1, <1>2
  <2> QED
    BY <1>2, <1>4, <2>1, SumMask
<1>7. SumOf(v, D) = SumOf(fv, V)
  <2>1. \A t \in V : fv[t] \in Int /\ v[t] = fv[t]
    BY <1>1, <1>2
  <2> QED
    BY <1>2, <1>4, <2>1, SumMask
<1>8. SumOf(w, D) = SumOf(c, D) + SumOf(v, D)
  BY <1>1, <1>4, SumPlus
<1>9. SumOf(a, D) = SumOf(m, D) + SumOf(w, D)
  BY <1>1, <1>4, SumPlus
<1>10. SumOf(c, D) \in Int /\ SumOf(v, D) \in Int /\ SumOf(m, D) \in Int
  BY <1>1, <1>4, SumType
<1> QED
  BY <1>3, <1>4, <1>5, <1>6, <1>7, <1>8, <1>9, <1>10

\* What an envelope moves is settled when it is checked.
LEMMA MovesStays ==
    ASSUME CheckedStore, NEW e, Checked(e), StoreGrows, NEW a, NEW asset
    PROVE  Moves(e, a, asset)' = Moves(e, a, asset)
<1>1. e.creates \in Seq(Posting) /\ StoreInv /\ FiniteTables /\ ToSet(e.consumes) \subseteq DOMAIN immutable
  BY DEF Checked, EnvelopeOK, CheckedStore, FloorInv
<1>2. \A id \in ToSet(e.consumes) : immutable'[id] = immutable[id]
  BY <1>1 DEF StoreGrows
<1> DEFINE K == OnKey(immutable, ToSet(e.consumes), a, asset)
<1>3. OnKey(immutable', ToSet(e.consumes), a, asset) = K
  BY <1>2 DEF OnKey
<1>4. IsFiniteSet(K)
  BY <1>1, MovesType DEF HasValues
<1>5. \A id \in K : immutable'[id].value = immutable[id].value
  BY <1>2 DEF OnKey
<1>6. SumValues(immutable', K) = SumValues(immutable, K)
  <2> HIDE DEF K
  <2> QED
    BY <1>4, <1>5, ValuesSame
<1>7. ConsumedOn(e, a, asset)' = SumValues(immutable', OnKey(immutable', ToSet(e.consumes), a, asset))
  BY DEF ConsumedOn
<1>8. ConsumedOn(e, a, asset)' = ConsumedOn(e, a, asset)
  BY <1>3, <1>6, <1>7 DEF ConsumedOn
<1>9. Moves(e, a, asset)' = CreatedOn(e, a, asset) - ConsumedOn(e, a, asset)'
  BY DEF Moves
<1> QED
  BY <1>8, <1>9 DEF Moves

\* The books are kept by a commit ...
LEMMA CommitKeepsBooks ==
    ASSUME NEW e, Checked(e), commit_envelope(CommitRequest(e)), CheckedStore, FiniteLog, BooksOK
    PROVE  FiniteLog' /\ BooksOK'
<1>1. PICK tid : tid = envelope_id(e)
  OBVIOUS
<1>2. /\ tid \notin DOMAIN transfers /\ DOMAIN transfers' = DOMAIN transfers \cup {tid}
      /\ \A t \in DOMAIN transfers : transfers'[t] = transfers[t]
      /\ transfers'[tid] = e
  BY <1>1, CommitEffect
<1>3. FiniteLog'
  <2>1. IsFiniteSet(DOMAIN transfers \cup {tid})
    BY FS_AddElement DEF FiniteLog
  <2> QED
    BY <1>2, <2>1 DEF FiniteLog
<1>4. StoreGrows
  BY CommitGrows
<1>5. ASSUME NEW h \in Holds, NEW asset \in Asset
      PROVE  /\ Balance(h, asset)' \in Int
             /\ Balance(h, asset)'
                  = SumOf([t \in DOMAIN transfers' |-> Moves(transfers[t], h, asset)'], DOMAIN transfers')
  <2> DEFINE D == DOMAIN transfers
             m == [t \in D |-> Moves(transfers[t], h, asset)]
             n == [t \in DOMAIN transfers' |-> Moves(transfers[t], h, asset)']
  <2>1. Balance(h, asset) = SumOf(m, D) /\ Balance(h, asset) \in Int
    BY DEF BooksOK
  <2>2. Balance(h, asset)' = Balance(h, asset) + Moves(e, h, asset)
    BY CommitMoves
  <2>3. ASSUME NEW f, Checked(f)
        PROVE  Moves(f, h, asset)' = Moves(f, h, asset) /\ Moves(f, h, asset) \in Int
    <3>1. f.creates \in Seq(Posting) /\ ToSet(f.consumes) \subseteq DOMAIN immutable /\ StoreInv /\ FiniteTables
      BY <2>3 DEF Checked, EnvelopeOK, CheckedStore, FloorInv
    <3> QED
      BY <1>4, <2>3, <3>1, MovesStays, MovesType
  <2>4. ASSUME NEW t \in D PROVE n[t] = m[t] /\ m[t] \in Int
    <3>1. PICK f : f = transfers[t]
      OBVIOUS
    <3>2. Checked(f) /\ transfers'[t] = f
      BY <1>2, <3>1 DEF CheckedStore, LogChecked
    <3>3. Moves(f, h, asset)' = Moves(f, h, asset) /\ Moves(f, h, asset) \in Int
      BY <2>3, <3>2
    <3>4. Moves(transfers[t], h, asset)' = Moves(f, h, asset)'
      BY <3>2
    <3>5. t \in DOMAIN transfers'
      BY <1>2
    <3> QED
      BY <3>1, <3>3, <3>4, <3>5
  <2>5. n[tid] = Moves(e, h, asset) /\ n[tid] \in Int
    <3>1. Moves(transfers[tid], h, asset)' = Moves(e, h, asset)'
      BY <1>2
    <3>2. tid \in DOMAIN transfers'
      BY <1>2
    <3> QED
      BY <2>3, <3>1, <3>2
  <2>6. IsFiniteSet(D) /\ tid \notin D /\ DOMAIN transfers' = D \cup {tid}
    BY <1>2 DEF FiniteLog
  <2> HIDE DEF D, m, n
  <2>7. SumOf(n, D \cup {tid}) = n[tid] + SumOf(n, D)
    BY <2>4, <2>5, <2>6, SumAdd
  <2>8. SumOf(n, D) = SumOf(m, D)
    BY <2>4, <2>6, SumSame
  <2> QED
    BY <2>1, <2>2, <2>5, <2>6, <2>7, <2>8 DEF n
<1> QED
  BY <1>3, <1>5 DEF BooksOK

\* ... and by whatever leaves postings and transfers alone.
LEMMA BooksAlone ==
    ASSUME UNCHANGED <<immutable, active, transfers>>, FiniteLog, BooksOK
    PROVE  FiniteLog' /\ BooksOK'
<1>1. immutable' = immutable /\ active' = active /\ transfers' = transfers
  OBVIOUS
<1>2. FiniteLog'
  BY <1>1 DEF FiniteLog
<1>3. \A h \in Holds, asset \in Asset : Balance(h, asset)' = Balance(h, asset)
  BY <1>1, BalanceAlone
<1>4. \A t, h, asset : Moves(transfers[t], h, asset)' = Moves(transfers[t], h, asset)
  BY <1>1 DEF Moves, ConsumedOn, CreatedOn
<1>5. ASSUME NEW h \in Holds, NEW asset \in Asset
      PROVE  /\ Balance(h, asset)' \in Int
             /\ Balance(h, asset)'
                  = SumOf([t \in DOMAIN transfers' |-> Moves(transfers[t], h, asset)'], DOMAIN transfers')
  <2>1. [t \in DOMAIN transfers' |-> Moves(transfers[t], h, asset)']
          = [t \in DOMAIN transfers |-> Moves(transfers[t], h, asset)]
    BY <1>1, <1>4
  <2> QED
    BY <1>1, <1>3, <2>1 DEF BooksOK
<1> QED
  BY <1>2, <1>5 DEF BooksOK

-----------------------------------------------------------------------------
(* What a store call leaves of what is known of the log and of the holds. *)

\* A hold forbids overdraft, and a closed one is drained.
HoldsOK ==
    \A h \in Holds : Exists(h) =>
        forbids_overdraft(head(h)) /\ (is_closed(head(h)) => Drained(h))

StorePart == CheckedStore /\ LogExplained /\ FiniteLog /\ BooksOK /\ HoldsOK

\* A drained hold stays so.
DrainedKept == \A h \in Holds : Drained(h) => Drained(h)'

PartKept == StoreKept /\ StorePart' /\ DrainedKept

\* The log and the balances are not written.
LEMMA LogAloneKeepsPart ==
    ASSUME StorePart, StoreKept, UNCHANGED <<immutable, active, transfers>>
    PROVE  LogExplained' /\ FiniteLog' /\ BooksOK' /\ DrainedKept
           /\ \A h : Committed(h)' <=> Committed(h)
<1>1. immutable' = immutable /\ active' = active /\ transfers' = transfers
  OBVIOUS
<1>2. \A h : Committed(h)' <=> Committed(h)
  BY <1>1 DEF Committed
<1>3. DrainedKept
  BY <1>1, <1>2 DEF DrainedKept, Drained, PostingsOf
<1>4. LogExplained'
  <2>1. ASSUME NEW t \in DOMAIN transfers' PROVE PlaysPart(transfers[t])'
    <3>1. PICK e : e = transfers[t]
      OBVIOUS
    <3>2. Checked(e) /\ PlaysPart(e) /\ e = transfers'[t]
      BY <1>1, <3>1 DEF StorePart, CheckedStore, LogChecked, LogExplained
    <3>3. PlaysPart(e)'
      BY <3>2, PartStays DEF StoreKept
    <3> QED
      BY <3>2, <3>3
  <2> QED
    BY <2>1 DEF LogExplained
<1> QED
  BY <1>2, <1>3, <1>4, BooksAlone DEF StorePart

\* Nothing is written at all.
LEMMA ReadKeepsPart ==
    ASSUME StorePart, UNCHANGED storeVars
    PROVE  PartKept /\ \A h : (Committed(h)' <=> Committed(h)) /\ (Exists(h)' <=> Exists(h))
<1>1. /\ UNCHANGED <<immutable, active, transfers>> /\ accounts' = accounts
  BY DEF storeVars
<1>2. StoreKept
  BY NothingHappens DEF StorePart
<1>3. /\ LogExplained' /\ FiniteLog' /\ BooksOK' /\ DrainedKept
      /\ \A h : Committed(h)' <=> Committed(h)
  BY <1>1, <1>2, LogAloneKeepsPart
<1>4. HoldsOK'
  BY <1>1, <1>3 DEF StorePart, HoldsOK, DrainedKept, Exists, head
<1> QED
  BY <1>1, <1>2, <1>3, <1>4 DEF PartKept, StorePart, StoreKept, Exists

\* authorize opens a hold.
LEMMA OpenKeepsPart ==
    ASSUME StorePart, NEW h \in Holds, create_account(h, HoldFlags)
    PROVE  /\ PartKept /\ Exists(h)'
           /\ \A a \in Holds : Exists(a) => Exists(a)'
           /\ \A a : Committed(a)' <=> Committed(a)
<1>1. h \in Account /\ HoldFlags \in SUBSET AccountFlags
  BY HoldIsAccount DEF HoldFlags, AccountFlags
<1>2. /\ accounts' = [accounts EXCEPT ![h] = <<NewAccount(HoldFlags)>>]
      /\ UNCHANGED <<immutable, active, transfers>> /\ transfers' = transfers
  BY DEF create_account
<1>3. accounts \in [Account -> Seq(AccountRecord)]
  BY DEF StorePart, CheckedStore, FloorInv, StoreInv, StoreTypeOK, AccountRecord
<1>4. /\ accounts'[h] = <<NewAccount(HoldFlags)>>
      /\ \A a \in Account : a # h => accounts'[a] = accounts[a]
  BY <1>1, <1>2, <1>3
<1>5. StoreKept
  BY <1>1, <1>2, LogAlone, CreateKeepsFloor, CreateGrows, CreateKeepsRecords
     DEF StorePart, CheckedStore, FloorInv, StoreInv
<1>6. /\ LogExplained' /\ FiniteLog' /\ BooksOK' /\ DrainedKept
      /\ \A a : Committed(a)' <=> Committed(a)
  BY <1>2, <1>5, LogAloneKeepsPart
<1>7. accounts'[h] # <<>> /\ accounts'[h][Len(accounts'[h])] = NewAccount(HoldFlags)
  BY <1>4
<1>8. forbids_overdraft(NewAccount(HoldFlags)) /\ ~is_closed(NewAccount(HoldFlags))
  BY DEF HoldFlags, NewAccount, forbids_overdraft, is_closed
<1>9. ASSUME NEW a \in Holds, Exists(a)'
      PROVE  forbids_overdraft(head(a)') /\ (is_closed(head(a)') => Drained(a)')
  <2>1. CASE a = h
    BY <1>7, <1>8, <2>1 DEF head
  <2>2. CASE a # h
    <3>1. accounts'[a] = accounts[a]
      BY <1>4, <2>2, HoldIsAccount
    <3> QED
      BY <1>6, <1>9, <3>1 DEF StorePart, HoldsOK, DrainedKept, Exists, head
  <2> QED
    BY <2>1, <2>2
<1>10. HoldsOK'
  BY <1>9 DEF HoldsOK, forbids_overdraft, is_closed
<1>11. \A a \in Holds : Exists(a) => Exists(a)'
  BY <1>4, <1>7, HoldIsAccount DEF Exists
<1> QED
  BY <1>5, <1>6, <1>7, <1>10, <1>11 DEF PartKept, StorePart, StoreKept, Exists

\* ... and announces it.
LEMMA AnnounceKeepsPart ==
    ASSUME StorePart, NEW h \in Holds, append_event(Event("AccountCreated", h, 0))
    PROVE  /\ PartKept /\ accounts' = accounts
           /\ \A a : Committed(a)' <=> Committed(a)
<1>1. h \in Account
  BY HoldIsAccount
<1>2. UNCHANGED <<immutable, active, transfers>> /\ transfers' = transfers /\ accounts' = accounts
  BY DEF append_event
<1>3. StoreKept
  BY <1>1, <1>2, LogAlone, AnnounceKeeps DEF StorePart, CheckedStore
<1>4. /\ LogExplained' /\ FiniteLog' /\ BooksOK' /\ DrainedKept
      /\ \A a : Committed(a)' <=> Committed(a)
  BY <1>2, <1>3, LogAloneKeepsPart
<1>5. HoldsOK'
  BY <1>2, <1>4 DEF StorePart, HoldsOK, DrainedKept, Exists, head
<1> QED
  BY <1>2, <1>3, <1>4, <1>5 DEF PartKept, StorePart, StoreKept

\* A drained hold is closed.
LEMMA ShutKeepsPart ==
    ASSUME StorePart, NEW h \in Holds, Drained(h), NEW v \in DOMAIN accounts[h],
           commit_transition(h, NextVersion("AccountClosed", accounts[h][v]), "AccountClosed")
    PROVE  /\ PartKept
           /\ \A a \in Holds : Exists(a) => Exists(a)'
           /\ \A a : Committed(a)' <=> Committed(a)
<1>1. h \in Account /\ "AccountClosed" \in LifecycleKind
  BY HoldIsAccount DEF LifecycleKind
<1>2. StoreKept
  BY <1>1, TransitionKeepsChecked DEF StorePart
<1>3. CASE TransitionApplied(h, NextVersion("AccountClosed", accounts[h][v]), "AccountClosed")
  <2>1. UNCHANGED <<immutable, active, transfers>>
    BY <1>3 DEF TransitionApplied
  <2>2. /\ LogExplained' /\ FiniteLog' /\ BooksOK' /\ DrainedKept
        /\ \A a : Committed(a)' <=> Committed(a)
    BY <1>2, <2>1, LogAloneKeepsPart
  <2>3. \A a \in Account : a # h => accounts'[a] = accounts[a]
    BY <1>1, <1>3, AppliedHead DEF StorePart, CheckedStore, FloorInv
  <2>4. Exists(h)
    BY <1>3 DEF TransitionApplied
  <2>5. \A a \in Holds : Exists(a) => Exists(a)' /\ (forbids_overdraft(head(a)') <=> forbids_overdraft(head(a)))
    BY <1>2, HoldIsAccount DEF StoreKept, StoreGrows, Exists, head
  <2>6. ASSUME NEW a \in Holds, Exists(a)'
        PROVE  forbids_overdraft(head(a)') /\ (is_closed(head(a)') => Drained(a)')
    <3>1. CASE a = h
      BY <2>2, <2>4, <2>5, <3>1 DEF StorePart, HoldsOK, DrainedKept
    <3>2. CASE a # h
      <4>1. accounts'[a] = accounts[a]
        BY <2>3, <3>2, HoldIsAccount
      <4> QED
        BY <2>2, <2>6, <4>1 DEF StorePart, HoldsOK, DrainedKept, Exists, head
    <3> QED
      BY <3>1, <3>2
  <2>7. HoldsOK'
    BY <2>6 DEF HoldsOK, forbids_overdraft, is_closed
  <2> QED
    BY <1>2, <2>2, <2>5, <2>7 DEF PartKept, StorePart, StoreKept
<1>4. CASE TransitionAlreadyApplied(h, NextVersion("AccountClosed", accounts[h][v]), "AccountClosed")
  <2>1. UNCHANGED storeVars
    BY <1>1, <1>4, AlreadyAppliedIsStutter DEF StorePart, CheckedStore, FloorInv
  <2> QED
    BY <2>1, ReadKeepsPart
<1> QED
  BY <1>3, <1>4 DEF commit_transition

\* A transfer does not bring a drained hold to life: what authorizes a hold comes once, and
\* what settles one spends from it.
LEMMA CommitKeepsDrained ==
    ASSUME CheckedStore, NEW e, Checked(e), PlaysPart(e), commit_envelope(CommitRequest(e)),
           NEW h \in Holds, Drained(h), ~ParksIn(e.metadata, h)
    PROVE  Drained(h)'
<1>1. e.creates \in Seq(Posting) /\ StoreInv /\ FiniteTables
  BY DEF Checked, EnvelopeOK, CheckedStore, FloorInv
<1>2. /\ active' = (active \ ToSet(e.consumes)) \cup NewIds(e) /\ ToSet(e.consumes) \subseteq active
      /\ \A id \in active : immutable'[id] = immutable[id]
      /\ \A i \in DOMAIN e.creates : immutable'[<<envelope_id(e), i>>] = e.creates[i]
  BY <1>1, CommitLive DEF StoreInv, StoreTypeOK
<1>3. Committed(h) /\ \A id \in active : immutable[id].owner # h
  BY DEF Drained, PostingsOf
<1>4. \A np \in ToSet(e.creates) : np.owner # h
  <2>1. CASE e.metadata.kind = "Authorize" /\ AuthorizeOK(e)
    BY <2>1 DEF AuthorizeOK
  <2>2. CASE \E s \in Holds : SettlesFrom(e, s)
    <3>1. PICK s \in Holds : SettlesFrom(e, s)
      BY <2>2
    <3>2. ASSUME NEW np \in ToSet(e.creates), np.owner = h PROVE FALSE
      <4>1. h = s /\ e.consumes # <<>>
        BY <3>1, <3>2 DEF SettlesFrom
      <4>2. PICK X : e.consumes \in Seq(X)
        BY DEF Checked, EnvelopeOK
      <4>3. \E id : id \in ToSet(e.consumes)
        <5>1. DOMAIN e.consumes = 1..Len(e.consumes) /\ Len(e.consumes) \in Nat
          BY <4>2
        <5>2. Len(e.consumes) # 0
          BY <4>1, <4>2, EmptySeq
        <5>3. 1 \in DOMAIN e.consumes
          BY <5>1, <5>2
        <5> QED
          BY <5>3 DEF ToSet
      <4> QED
        BY <1>2, <1>3, <3>1, <4>1, <4>3 DEF SettlesFrom
    <3> QED
      BY <3>2
  <2> QED
    BY <2>1, <2>2 DEF PlaysPart
<1>5. \A id \in NewIds(e) : immutable'[id].owner # h
  BY <1>2, <1>4 DEF NewIds, ToSet
<1>6. PostingsOf(active, h)' = {}
  <2>1. PostingsOf(active, h)' = {id \in active' : immutable'[id].owner = h}
    BY DEF PostingsOf
  <2> QED
    BY <1>2, <1>3, <1>5, <2>1
<1>7. Committed(h)'
  BY <1>1, <1>3, CommittedStays, CommitKeepsRecords
<1> QED
  BY <1>6, <1>7 DEF Drained

\* A commit that authorizes no hold a second time.
LEMMA CommitKeepsPart ==
    ASSUME StorePart, NEW e, Checked(e), PlaysPart(e), commit_envelope(CommitRequest(e)),
           \A h \in Holds : ParksIn(e.metadata, h) => ~Committed(h)
    PROVE  /\ PartKept /\ accounts' = accounts
           /\ \A h : Committed(h)' <=> Committed(h) \/ ParksIn(e.metadata, h)
<1>1. StoreKept
  BY CommitKeepsChecked DEF StorePart
<1>2. PICK tid : tid = envelope_id(e)
  OBVIOUS
<1>3. /\ DOMAIN transfers' = DOMAIN transfers \cup {tid}
      /\ \A t \in DOMAIN transfers : transfers'[t] = transfers[t]
      /\ transfers'[tid] = e /\ accounts' = accounts
  BY <1>2, CommitEffect
<1>4. \A h : Committed(h)' <=> Committed(h) \/ ParksIn(e.metadata, h)
  <2>1. ASSUME NEW h PROVE Committed(h)' <=> \E t \in DOMAIN transfers' : ParksIn(transfers'[t].metadata, h)
    BY DEF Committed, ParksIn
  <2> QED
    BY <1>3, <2>1 DEF Committed
<1>5. DrainedKept
  <2>1. \A h \in Holds : Drained(h) => Committed(h)
    BY DEF Drained
  <2> QED
    BY <2>1, CommitKeepsDrained DEF DrainedKept, StorePart
<1>6. LogExplained'
  <2>1. ASSUME NEW t \in DOMAIN transfers' PROVE PlaysPart(transfers[t])'
    <3>1. PICK f : f = transfers'[t]
      OBVIOUS
    <3>2. Checked(f) /\ PlaysPart(f)
      BY <1>3, <3>1 DEF StorePart, CheckedStore, LogChecked, LogExplained
    <3>3. PlaysPart(f)'
      BY <1>1, <3>2, PartStays DEF StoreKept
    <3> QED
      BY <3>1, <3>3
  <2> QED
    BY <2>1 DEF LogExplained
<1>7. FiniteLog' /\ BooksOK'
  BY CommitKeepsBooks DEF StorePart
<1>8. HoldsOK'
  BY <1>3, <1>5 DEF StorePart, HoldsOK, DrainedKept, Exists, head
<1> QED
  BY <1>1, <1>3, <1>4, <1>5, <1>6, <1>7, <1>8 DEF PartKept, StorePart, StoreKept

-----------------------------------------------------------------------------
(* Sequences in order. *)

\* Distinct accounts, by id and subaccount.
LEMMA InOrderFacts ==
    ASSUME NEW S \in SUBSET Account
    PROVE  InOrder(S) \in Seq(S) /\ ToSet(InOrder(S)) = S
<1>1. IsFiniteSet(S)
  BY IdsAssumption, FS_Subset
<1>2. \A a \in S : a[1] \in Int /\ a[2] \in Int /\ a = <<a[1], a[2]>>
  BY IdsAssumption
<1> DEFINE R == {ab \in S \X S : AccountBefore(ab[1], ab[2])}
<1>3. \A a, b \in S : <<a, b>> \in R <=> AccountBefore(a, b)
  OBVIOUS
<1>4. \A x \in S : {y \in S : AccountBefore(y, x)} = Below(R, S, x)
  BY DEF Below
<1> HIDE DEF R
<1>5. Orders(R, S)
  BY <1>2, <1>3 DEF Orders, AccountBefore
<1>6. PICK s : s = InOrder(S)
  OBVIOUS
<1>7. /\ s \in [1..Cardinality(S) -> S]
      /\ \A i \in 1..Cardinality(S) : Cardinality(Below(R, S, s[i])) = i - 1
  <2>1. \A i \in 1..Cardinality(S) : \E x \in S : Cardinality(Below(R, S, x)) = i - 1
    BY <1>1, <1>5, PlacesTaken
  <2>2. \A i \in 1..Cardinality(S) : \E x \in S : Cardinality({y \in S : AccountBefore(y, x)}) = i - 1
    BY <1>4, <2>1
  <2> QED
    BY <1>4, <1>6, <2>2 DEF InOrder, SortedSeq
<1>8. s \in Seq(S) /\ ToSet(s) = S
  BY <1>1, <1>5, <1>7, SortedFacts, Zenon
<1> QED
  BY <1>6, <1>8

\* Distinct integers, ascending.
LEMMA AscendingFacts ==
    ASSUME NEW S \in SUBSET Int, IsFiniteSet(S)
    PROVE  SortedSeq(S, <) \in Seq(S) /\ ToSet(SortedSeq(S, <)) = S
<1> DEFINE R == {ab \in S \X S : ab[1] < ab[2]}
<1>3. \A a, b \in S : <<a, b>> \in R <=> a < b
  OBVIOUS
<1>4. \A x \in S : {y \in S : y < x} = Below(R, S, x)
  BY DEF Below
<1> HIDE DEF R
<1>5. Orders(R, S)
  BY <1>3 DEF Orders
<1>6. PICK s : s = SortedSeq(S, <)
  OBVIOUS
<1>7. /\ s \in [1..Cardinality(S) -> S]
      /\ \A i \in 1..Cardinality(S) : Cardinality(Below(R, S, s[i])) = i - 1
  <2>1. \A i \in 1..Cardinality(S) : \E x \in S : Cardinality(Below(R, S, x)) = i - 1
    BY <1>5, PlacesTaken
  <2>2. \A i \in 1..Cardinality(S) : \E x \in S : Cardinality({y \in S : y < x}) = i - 1
    BY <1>4, <2>1
  <2> QED
    BY <1>4, <1>6, <2>2 DEF SortedSeq
<1>8. s \in Seq(S) /\ ToSet(s) = S
  BY <1>5, <1>7, SortedFacts, Zenon
<1> QED
  BY <1>6, <1>8

\* The elements of a sequence at some of its indices.
LEMMA SublistFacts ==
    ASSUME NEW X, NEW s \in Seq(X), NEW I \in SUBSET DOMAIN s
    PROVE  /\ Sublist(s, I) \in Seq(X)
           /\ \A n \in DOMAIN Sublist(s, I) : \E i \in I : Sublist(s, I)[n] = s[i]
           /\ I # {} => 1 \in DOMAIN Sublist(s, I)
<1>1. DOMAIN s = 1..Len(s) /\ Len(s) \in Nat /\ \A i \in DOMAIN s : s[i] \in X
  OBVIOUS
<1>2. I \in SUBSET Int /\ IsFiniteSet(I)
  <2>1. IsFiniteSet(DOMAIN s)
    BY <1>1, FS_Interval
  <2> QED
    BY <1>1, <2>1, FS_Subset
<1>3. PICK is : is = SortedSeq(I, <)
  OBVIOUS
<1>4. is \in Seq(I) /\ ToSet(is) = I
  BY <1>2, <1>3, AscendingFacts
<1>5. PICK r : r = Sublist(s, I)
  OBVIOUS
<1>6. r = [n \in DOMAIN is |-> s[is[n]]]
  BY <1>3, <1>5 DEF Sublist
<1>7. DOMAIN is = 1..Len(is) /\ Len(is) \in Nat /\ \A n \in DOMAIN is : is[n] \in I
  BY <1>4
<1>8. r \in [1..Len(is) -> X]
  BY <1>1, <1>6, <1>7
<1>9. r \in Seq(X)
  BY <1>7, <1>8, FunctionIsSeq
<1>10. I # {} => 1 \in DOMAIN is
  <2>1. ASSUME NEW i \in I PROVE 1 \in DOMAIN is
    <3>1. PICK n \in DOMAIN is : is[n] = i
      BY <1>4 DEF ToSet
    <3> QED
      BY <1>7, <3>1
  <2> QED
    BY <2>1
<1> QED
  BY <1>5, <1>6, <1>7, <1>9, <1>10

-----------------------------------------------------------------------------
(* The tasks of a client. *)

LegOn(tx, h) == \E l \in ToSet(legs_of(tx)) : l.hold = h

\* What is known of a task when it is put in a queue, and as long as it is there.
TaskOK(k) ==
    /\ k.op \in {"hold", "announce"} => k.hold \in Holds
    /\ k.op = "commit" => ParksTrade(k.transfer) \/ SettlesHold(k.transfer)
    /\ k.op = "submit" => Checked(k.envelope) /\ PlaysPart(k.envelope)
    /\ k.op \in {"sweep", "refund"} =>
          k.tx \in Inflights /\ k.asset \in Asset /\ LegOn(k.tx, k.hold)
    /\ k.op = "deliver" => k.tx \in Inflights /\ k.m.amount \in Int
    /\ k.op = "drained" => Committed(k.hold)
    /\ k.op = "empty" => Drained(k.hold)
    /\ k.op = "shut" =>
          /\ Drained(k.hold)
          /\ \E v \in DOMAIN accounts[k.hold] : k.next = NextVersion("AccountClosed", accounts[k.hold][v])

\* A task that commits an authorization, and the holds it is for.
Meta(k) == IF k.op = "commit" THEN k.transfer.metadata ELSE k.envelope.metadata
Parks(k) == k.op \in {"commit", "submit"} /\ Meta(k).kind = "Authorize"
ParksOn(k, h) == k.op \in {"commit", "submit"} /\ ParksIn(Meta(k), h)

\* The commit of an authorization is the last task of its request.
Shape(q) == q \in Seq(ToSet(q)) /\ \A i \in DOMAIN q : Parks(q[i]) => i = Len(q)

TasksOK(q) == \A k \in ToSet(q) : TaskOK(k)

\* A client claims the holds that it has opened and not yet paid into.
Claims(q, h) ==
    /\ \E k \in ToSet(q) : ParksOn(k, h)
    /\ \A k \in ToSet(q) : ~(k.op = "hold" /\ k.hold = h)

\* A claimed hold is open, nothing is parked in it, and nobody else claims it: opening a
\* hold that exists is refused, so that at most one authorization ever pays into it.
ClaimsOK ==
    \A p \in Client, h \in Holds : Claims(todo[p], h) =>
        /\ Exists(h) /\ ~Committed(h)
        /\ \A q \in Client : Claims(todo[q], h) => q = p

InflightInv ==
    /\ StorePart
    /\ todo = [p \in Client |-> todo[p]]
    /\ \A p \in Client : Shape(todo[p]) /\ TasksOK(todo[p])
    /\ ClaimsOK

\* What is known of a task stays so.
LEMMA TaskStays ==
    ASSUME StorePart, PartKept, NEW k, TaskOK(k)
    PROVE  TaskOK(k)'
<1>1. StoreGrows /\ RecordsKept /\ DrainedKept
  BY DEF PartKept, StoreKept
<1>2. k.op = "submit" => Checked(k.envelope)' /\ PlaysPart(k.envelope)'
  BY <1>1, CheckedStays, PartStays DEF TaskOK
<1>3. ASSUME NEW tx \in Inflights
      PROVE  tx \in Inflights' /\ transfers'[tx] = transfers[tx]
  BY <1>1 DEF RecordsKept, Inflights
<1>4. k.op \in {"sweep", "refund"} => k.tx \in Inflights' /\ k.asset \in Asset /\ LegOn(k.tx, k.hold)'
  <2> SUFFICES ASSUME k.op \in {"sweep", "refund"}
               PROVE  k.tx \in Inflights' /\ k.asset \in Asset /\ LegOn(k.tx, k.hold)'
    OBVIOUS
  <2>1. k.tx \in Inflights /\ k.asset \in Asset /\ LegOn(k.tx, k.hold)
    BY DEF TaskOK
  <2>2. k.tx \in Inflights' /\ transfers'[k.tx] = transfers[k.tx]
    BY <1>3, <2>1
  <2> QED
    BY <2>1, <2>2 DEF LegOn, legs_of
<1>5. k.op = "deliver" => k.tx \in Inflights' /\ k.m.amount \in Int
  BY <1>3 DEF TaskOK
<1>6. k.op = "drained" => Committed(k.hold)'
  BY <1>1, CommittedStays DEF TaskOK
<1>7. ASSUME NEW h, Drained(h)
      PROVE  h \in Holds /\ h \in Account /\ Drained(h)'
  <2>1. h \in Holds
    BY <1>7, CommittedExists DEF Drained, StorePart
  <2> QED
    BY <1>1, <1>7, <2>1, HoldIsAccount DEF DrainedKept
<1>8. k.op = "empty" => Drained(k.hold)'
  BY <1>7 DEF TaskOK
<1>9. ASSUME k.op = "shut"
      PROVE  /\ Drained(k.hold)'
             /\ \E v \in DOMAIN accounts'[k.hold] :
                   k.next = NextVersion("AccountClosed", accounts'[k.hold][v])
  <2>1. Drained(k.hold)
    BY <1>9 DEF TaskOK
  <2>2. PICK v \in DOMAIN accounts[k.hold] : k.next = NextVersion("AccountClosed", accounts[k.hold][v])
    BY <1>9 DEF TaskOK
  <2>3. k.hold \in Account /\ Drained(k.hold)'
    BY <1>7, <2>1
  <2>4. v \in DOMAIN accounts'[k.hold] /\ accounts'[k.hold][v] = accounts[k.hold][v]
    BY <1>1, <2>3 DEF StoreGrows
  <2>5. k.next = NextVersion("AccountClosed", accounts'[k.hold][v])
    BY <2>2, <2>4
  <2> QED
    BY <2>3, <2>4, <2>5
<1>10. k.op = "commit" => ParksTrade(k.transfer) \/ SettlesHold(k.transfer)
  BY DEF TaskOK
<1>11. k.op \in {"hold", "announce"} => k.hold \in Holds
  BY DEF TaskOK
<1>12. k.op = "shut" => \E v \in DOMAIN accounts'[k.hold] :
          k.next = NextVersion("AccountClosed", accounts[k.hold][v])'
  BY <1>9 DEF NextVersion
<1> QED
  BY <1>2, <1>4, <1>5, <1>6, <1>8, <1>9, <1>10, <1>11, <1>12 DEF TaskOK

\* The head and the tail of a queue.
LEMMA TailFacts ==
    ASSUME NEW q, q \in Seq(ToSet(q)), q # <<>>
    PROVE  /\ 1 \in DOMAIN q /\ q[1] \in ToSet(q)
           /\ Tail(q) \in Seq(ToSet(Tail(q))) /\ ToSet(Tail(q)) \subseteq ToSet(q)
           /\ ToSet(q) = {q[1]} \cup ToSet(Tail(q))
           /\ Len(Tail(q)) = Len(q) - 1 /\ DOMAIN Tail(q) = 1..(Len(q) - 1) /\ Len(q) \in Nat \ {0}
           /\ \A i \in DOMAIN Tail(q) : i + 1 \in DOMAIN q /\ Tail(q)[i] = q[i + 1]
<1>1. PICK X : X = ToSet(q)
  OBVIOUS
<1>2. q \in Seq(X) /\ DOMAIN q = 1..Len(q) /\ Len(q) \in Nat
  BY <1>1
<1>3. Len(q) # 0
  BY <1>2, EmptySeq
<1>4. PICK r : r = Tail(q)
  OBVIOUS
<1>5. r \in Seq(X) /\ Len(r) = Len(q) - 1 /\ \A i \in 1..(Len(q) - 1) : r[i] = q[i + 1]
  BY <1>2, <1>3, <1>4, HeadTailProperties
<1>6. DOMAIN r = 1..(Len(q) - 1) /\ \A i \in DOMAIN r : i + 1 \in DOMAIN q
  BY <1>2, <1>3, <1>5
<1>7. 1 \in DOMAIN q
  BY <1>2, <1>3
<1>8. ToSet(r) \subseteq ToSet(q)
  BY <1>5, <1>6 DEF ToSet
<1>9. ToSet(q) = {q[1]} \cup ToSet(r)
  <2>1. ASSUME NEW i \in DOMAIN q PROVE q[i] = q[1] \/ q[i] \in ToSet(r)
    <3>1. CASE i = 1
      BY <3>1
    <3>2. CASE i # 1
      <4>1. i - 1 \in DOMAIN r /\ (i - 1) + 1 = i
        BY <1>2, <1>3, <1>6, <3>2
      <4>2. r[i - 1] = q[i]
        BY <1>5, <1>6, <4>1
      <4> QED
        BY <4>1, <4>2 DEF ToSet
    <3> QED
      BY <3>1, <3>2
  <2> QED
    BY <1>7, <1>8, <2>1 DEF ToSet
<1>10. r \in Seq(ToSet(r))
  <2>1. r \in [1..Len(r) -> ToSet(r)] /\ Len(r) \in Nat
    BY <1>2, <1>3, <1>5, <1>6 DEF ToSet
  <2> QED
    BY <2>1, FunctionIsSeq
<1> QED
  BY <1>2, <1>3, <1>4, <1>5, <1>6, <1>7, <1>8, <1>9, <1>10 DEF ToSet

\* A sequence is one of its own elements.
LEMMA OwnElements ==
    ASSUME NEW X, NEW s \in Seq(X)
    PROVE  s \in Seq(ToSet(s)) /\ ToSet(s) \subseteq X
<1>1. DOMAIN s = 1..Len(s) /\ Len(s) \in Nat /\ \A i \in DOMAIN s : s[i] \in X
  OBVIOUS
<1>2. s \in [1..Len(s) -> ToSet(s)]
  BY <1>1 DEF ToSet
<1> QED
  BY <1>1, <1>2, FunctionIsSeq DEF ToSet

\* Two queues in a row.
LEMMA JoinFacts ==
    ASSUME NEW s, s \in Seq(ToSet(s)), NEW r, r \in Seq(ToSet(r))
    PROVE  /\ s \o r \in Seq(ToSet(s \o r)) /\ ToSet(s \o r) = ToSet(s) \cup ToSet(r)
           /\ Len(s \o r) = Len(s) + Len(r) /\ Len(s) \in Nat /\ Len(r) \in Nat
           /\ \A i \in DOMAIN (s \o r) :
                 \/ i \in DOMAIN s /\ (s \o r)[i] = s[i]
                 \/ \E j \in DOMAIN r : i = Len(s) + j /\ (s \o r)[i] = r[j]
<1>1. PICK X : X = ToSet(s) \cup ToSet(r)
  OBVIOUS
<1>2. s \in Seq(X) /\ r \in Seq(X)
  BY <1>1, SeqMonotonic
<1>3. /\ s \o r \in Seq(X) /\ ToSet(s \o r) = ToSet(s) \cup ToSet(r)
      /\ DOMAIN (s \o r) = DOMAIN s \cup {Len(s) + j : j \in DOMAIN r}
      /\ \A i \in DOMAIN s : (s \o r)[i] = s[i]
      /\ \A j \in DOMAIN r : (s \o r)[Len(s) + j] = r[j]
  BY <1>2, ConcatFacts
<1>4. Len(s \o r) = Len(s) + Len(r) /\ Len(s) \in Nat /\ Len(r) \in Nat
  BY <1>2
<1> QED
  BY <1>1, <1>3, <1>4

\* The head of a queue is replaced by tasks that park nothing.
LEMMA ReplaceHead ==
    ASSUME NEW q, Shape(q), q # <<>>, NEW s, s \in Seq(ToSet(s)), \A k \in ToSet(s) : ~Parks(k)
    PROVE  /\ Shape(s \o Tail(q)) /\ ToSet(s \o Tail(q)) = ToSet(s) \cup ToSet(Tail(q))
           /\ q[1].op # "hold" => \A h : Claims(s \o Tail(q), h) => Claims(q, h)
<1>1. PICK r : r = Tail(q)
  OBVIOUS
<1>2. /\ r \in Seq(ToSet(r)) /\ Len(r) = Len(q) - 1 /\ DOMAIN r = 1..(Len(q) - 1)
      /\ Len(q) \in Nat \ {0} /\ ToSet(q) = {q[1]} \cup ToSet(r)
      /\ \A i \in DOMAIN r : i + 1 \in DOMAIN q /\ r[i] = q[i + 1]
  BY <1>1, TailFacts DEF Shape
<1>3. \A i \in DOMAIN r : Parks(r[i]) => i = Len(r)
  <2> SUFFICES ASSUME NEW i \in DOMAIN r, Parks(r[i]) PROVE i = Len(r)
    OBVIOUS
  <2>1. i + 1 = Len(q)
    BY <1>2 DEF Shape
  <2> QED
    BY <1>2, <2>1
<1>4. PICK n : n = s \o r
  OBVIOUS
<1>5. /\ n \in Seq(ToSet(n)) /\ ToSet(n) = ToSet(s) \cup ToSet(r)
      /\ Len(n) = Len(s) + Len(r) /\ Len(s) \in Nat /\ Len(r) \in Nat
      /\ \A i \in DOMAIN n : \/ i \in DOMAIN s /\ n[i] = s[i]
                             \/ \E j \in DOMAIN r : i = Len(s) + j /\ n[i] = r[j]
  <2>1. /\ s \o r \in Seq(ToSet(s \o r)) /\ ToSet(s \o r) = ToSet(s) \cup ToSet(r)
        /\ Len(s \o r) = Len(s) + Len(r) /\ Len(s) \in Nat /\ Len(r) \in Nat
        /\ \A i \in DOMAIN (s \o r) :
              \/ i \in DOMAIN s /\ (s \o r)[i] = s[i]
              \/ \E j \in DOMAIN r : i = Len(s) + j /\ (s \o r)[i] = r[j]
    BY <1>2, JoinFacts
  <2> QED
    BY <1>4, <2>1, Zenon
<1>6. \A i \in DOMAIN s : ~Parks(s[i])
  BY DEF ToSet
<1>7. Shape(n)
  <2>1. ASSUME NEW i \in DOMAIN n, Parks(n[i]) PROVE i = Len(n)
    <3>1. PICK j \in DOMAIN r : i = Len(s) + j /\ n[i] = r[j]
      BY <1>5, <1>6, <2>1
    <3>2. j = Len(r)
      BY <1>3, <2>1, <3>1
    <3> QED
      BY <1>5, <3>1, <3>2
  <2> QED
    BY <1>5, <2>1 DEF Shape
<1>8. \A k, h : ParksOn(k, h) => Parks(k)
  BY DEF ParksOn, Parks, ParksIn
<1>9. q[1].op # "hold" => \A h : Claims(n, h) => Claims(q, h)
  BY <1>2, <1>5, <1>8 DEF Claims
<1> QED
  BY <1>1, <1>4, <1>5, <1>7, <1>9

\* Client p takes a step and is left with the queue nq.
LEMMA ClientStep ==
    ASSUME InflightInv, PartKept, NEW p \in Client, NEW nq, todo' = [todo EXCEPT ![p] = nq],
           Shape(nq), TasksOK(nq)',
           \A h \in Holds : Claims(nq, h) =>
               Exists(h)' /\ ~Committed(h)' /\ \A q \in Client : Claims(todo[q], h) => q = p,
           \A h \in Holds, q \in Client : q # p /\ Claims(todo[q], h) => ~Committed(h)'
    PROVE  InflightInv'
<1>1. /\ todo' = [q \in Client |-> todo'[q]] /\ todo'[p] = nq
      /\ \A q \in Client : q # p => todo'[q] = todo[q]
  BY DEF InflightInv
<1>2. ASSUME NEW q \in Client PROVE Shape(todo'[q]) /\ TasksOK(todo[q])'
  <2>1. CASE q = p
    BY <1>1, <2>1 DEF TasksOK
  <2>2. CASE q # p
    <3>1. PICK x : x = todo[q]
      OBVIOUS
    <3>2. Shape(x) /\ \A k \in ToSet(x) : TaskOK(k)
      BY <3>1 DEF InflightInv, TasksOK
    <3>3. \A k \in ToSet(x) : TaskOK(k)'
      BY <3>2, TaskStays DEF InflightInv
    <3>4. todo'[q] = x
      BY <1>1, <2>2, <3>1
    <3> QED
      BY <3>2, <3>3, <3>4 DEF TasksOK
  <2> QED
    BY <2>1, <2>2
<1>3. StoreGrows
  BY DEF PartKept, StoreKept
<1>4. ASSUME NEW q \in Client, NEW h \in Holds, Claims(todo'[q], h)
      PROVE  /\ Exists(h)' /\ ~Committed(h)'
             /\ \A r \in Client : Claims(todo'[r], h) => r = q
  <2>1. CASE q = p
    <3>1. Claims(nq, h)
      BY <1>1, <1>4, <2>1
    <3> QED
      BY <1>1, <2>1, <3>1
  <2>2. CASE q # p
    <3>1. Claims(todo[q], h)
      BY <1>1, <1>4, <2>2
    <3>2. Exists(h) /\ \A r \in Client : Claims(todo[r], h) => r = q
      BY <3>1 DEF InflightInv, ClaimsOK
    <3>3. Exists(h)'
      BY <1>3, <3>2, HoldIsAccount DEF StoreGrows, Exists
    <3>4. ~Claims(nq, h)
      BY <2>2, <3>1
    <3> QED
      BY <1>1, <2>2, <3>1, <3>2, <3>3, <3>4
  <2> QED
    BY <2>1, <2>2
<1>5. ClaimsOK'
  BY <1>4 DEF ClaimsOK, Claims, ParksOn, Meta, ParksIn
<1>6. \A q \in Client : Shape(todo[q])'
  BY <1>2 DEF Shape, Parks, Meta
<1> QED
  BY <1>1, <1>2, <1>5, <1>6 DEF InflightInv, PartKept

\* ... without a write, and claims nothing new.
LEMMA QuietStep ==
    ASSUME InflightInv, UNCHANGED storeVars, NEW p \in Client, NEW nq,
           todo' = [todo EXCEPT ![p] = nq], Shape(nq), TasksOK(nq),
           \A h \in Holds : Claims(nq, h) => Claims(todo[p], h)
    PROVE  InflightInv'
<1>1. PartKept /\ \A h : (Committed(h)' <=> Committed(h)) /\ (Exists(h)' <=> Exists(h))
  BY ReadKeepsPart DEF InflightInv
<1>2. TasksOK(nq)'
  <2>1. \A k \in ToSet(nq) : TaskOK(k)'
    BY <1>1, TaskStays DEF InflightInv, TasksOK
  <2> QED
    BY <2>1 DEF TasksOK
<1>3. \A h \in Holds : Claims(nq, h) =>
         Exists(h)' /\ ~Committed(h)' /\ \A q \in Client : Claims(todo[q], h) => q = p
  BY <1>1 DEF InflightInv, ClaimsOK
<1>4. \A h \in Holds, q \in Client : q # p /\ Claims(todo[q], h) => ~Committed(h)'
  BY <1>1 DEF InflightInv, ClaimsOK
<1> QED
  BY <1>1, <1>2, <1>3, <1>4, ClientStep

\* The head task turns into others that park nothing.
LEMMA TaskStep ==
    ASSUME InflightInv, UNCHANGED storeVars, NEW p \in Client, Busy(p), todo[p][1].op # "hold",
           NEW s, s \in Seq(ToSet(s)), Become(p, s), \A k \in ToSet(s) : TaskOK(k) /\ ~Parks(k)
    PROVE  InflightInv'
<1>1. PICK q : q = todo[p]
  OBVIOUS
<1>2. Shape(q) /\ TasksOK(q) /\ q # <<>>
  BY <1>1 DEF InflightInv, Busy
<1>3. PICK nq : nq = s \o Tail(q)
  OBVIOUS
<1>4. /\ Shape(nq) /\ ToSet(nq) = ToSet(s) \cup ToSet(Tail(q))
      /\ \A h : Claims(nq, h) => Claims(q, h)
  BY <1>1, <1>2, <1>3, ReplaceHead
<1>5. TasksOK(nq)
  BY <1>2, <1>4, TailFacts DEF TasksOK, Shape
<1>6. todo' = [todo EXCEPT ![p] = nq]
  BY <1>1, <1>3 DEF Become, InflightInv
<1> QED
  BY <1>1, <1>4, <1>5, <1>6, QuietStep

\* The request is over.
LEMMA NoTasks == Shape(<<>>) /\ TasksOK(<<>>) /\ (\A h : ~Claims(<<>>, h)) /\ <<>> \in Seq(ToSet(<<>>))
<1>1. DOMAIN <<>> = {} /\ ToSet(<<>>) = {} /\ <<>> \in Seq(ToSet(<<>>))
  BY DEF ToSet
<1> QED
  BY <1>1 DEF Shape, TasksOK, Claims

LEMMA LastTask ==
    ASSUME InflightInv, UNCHANGED storeVars, NEW p \in Client, todo' = [todo EXCEPT ![p] = <<>>]
    PROVE  InflightInv'
BY NoTasks, QuietStep

-----------------------------------------------------------------------------
(* The steps of a request. *)

\* A queue of one task.
LEMMA OneTask ==
    ASSUME NEW k
    PROVE  <<k>> \in Seq(ToSet(<<k>>)) /\ ToSet(<<k>>) = {k} /\ Len(<<k>>) = 1 /\ DOMAIN <<k>> = {1}
           /\ <<k>>[1] = k
<1>1. DOMAIN <<k>> = {1} /\ <<k>>[1] = k /\ Len(<<k>>) = 1
  OBVIOUS
<1>2. ToSet(<<k>>) = {k}
  BY <1>1 DEF ToSet
<1> QED
  BY <1>1, <1>2

\* The head task of a client.
LEMMA HeadTask ==
    ASSUME InflightInv, NEW p \in Client, Busy(p)
    PROVE  /\ TaskOK(todo[p][1]) /\ 1 \in DOMAIN todo[p] /\ todo[p][1] \in ToSet(todo[p])
           /\ todo[p] # <<>> /\ Shape(todo[p]) /\ TasksOK(todo[p])
<1>1. PICK q : q = todo[p]
  OBVIOUS
<1>2. q # <<>> /\ Shape(q) /\ TasksOK(q)
  BY <1>1 DEF InflightInv, Busy
<1>3. 1 \in DOMAIN q /\ q[1] \in ToSet(q)
  BY <1>2, TailFacts DEF Shape
<1> QED
  BY <1>1, <1>2, <1>3 DEF TasksOK

\* A head task that is done.
LEMMA DoneStep ==
    ASSUME InflightInv, UNCHANGED storeVars, NEW p \in Client, Busy(p), todo[p][1].op # "hold", Done(p)
    PROVE  InflightInv'
<1>1. <<>> \in Seq(ToSet(<<>>)) /\ \A k \in ToSet(<<>>) : FALSE
  BY NoTasks DEF ToSet
<1>2. Become(p, <<>>)
  BY DEF Done
<1> QED
  BY <1>1, <1>2, TaskStep

\* ... or turns into one task.
LEMMA BecomeStep ==
    ASSUME InflightInv, UNCHANGED storeVars, NEW p \in Client, Busy(p), todo[p][1].op # "hold",
           NEW k, Become(p, <<k>>), TaskOK(k), ~Parks(k)
    PROVE  InflightInv'
<1>1. PICK s : s = <<k>>
  OBVIOUS
<1>2. s \in Seq(ToSet(s)) /\ \A j \in ToSet(s) : TaskOK(j) /\ ~Parks(j)
  BY <1>1, OneTask
<1> QED
  BY <1>1, <1>2, TaskStep

\* ... or fails.
LEMMA FailStep ==
    ASSUME InflightInv, UNCHANGED storeVars, NEW p \in Client, Fail(p)
    PROVE  InflightInv'
BY LastTask DEF Fail

\* What load_inflight decodes.
LEMMA InflightLegs ==
    ASSUME LogExplained, NEW tx \in Inflights
    PROVE  /\ legs_of(tx) \in Seq(ToSet(legs_of(tx)))
           /\ \A l \in ToSet(legs_of(tx)) :
                 /\ l.hold \in Holds /\ Committed(l.hold) /\ LegOn(tx, l.hold)
                 /\ l.destination \in Account \ Holds /\ l.funder \in Account \ Holds
                 /\ l.asset \in Asset /\ l.amount \in Int
<1>1. PICK e : e = transfers[tx]
  OBVIOUS
<1>2. tx \in DOMAIN transfers /\ e.metadata.kind = "Authorize" /\ PlaysPart(e)
  BY <1>1 DEF Inflights, LogExplained
<1>3. PICK u \in Trades : e.metadata = AuthorizeMeta(u)
  BY <1>2 DEF PlaysPart, AuthorizeOK
<1>4. PICK ls : ls = legs_of(tx)
  OBVIOUS
<1>5. ls = AuthorizeMeta(u).legs /\ e.metadata.legs = ls
  BY <1>1, <1>3, <1>4 DEF legs_of
<1>6. ls \in Seq(ToSet(ls))
  BY <1>5, LegsFacts
<1>7. \A i \in DOMAIN ls :
         /\ ls[i].hold \in Holds /\ ls[i].destination \in Account \ Holds
         /\ ls[i].funder \in Account \ Holds /\ ls[i].asset \in Asset /\ ls[i].amount \in Int
  BY <1>5, LegsFacts
<1>8. \A l \in ToSet(ls) : Committed(l.hold) /\ LegOn(tx, l.hold)
  BY <1>1, <1>2, <1>4, <1>5 DEF Committed, ParksIn, LegOn
<1>9. \A l \in ToSet(ls) :
         /\ l.hold \in Holds /\ l.destination \in Account \ Holds
         /\ l.funder \in Account \ Holds /\ l.asset \in Asset /\ l.amount \in Int
  BY <1>7 DEF ToSet
<1> QED
  BY <1>4, <1>6, <1>8, <1>9

\* The destination of a hold's first leg.
LEMMA DestinationFacts ==
    ASSUME LogExplained, NEW tx \in Inflights, NEW h, LegOn(tx, h)
    PROVE  h \in Holds /\ Committed(h) /\ destination_of(legs_of(tx), h) \in Account \ Holds
<1>1. PICK ls : ls = legs_of(tx)
  OBVIOUS
<1>2. ls \in Seq(ToSet(ls)) /\ \A l \in ToSet(ls) : /\ l.destination \in Account \ Holds
                                                   /\ l.hold \in Holds /\ Committed(l.hold)
  BY <1>1, InflightLegs
<1>3. PICK I : I = {i \in DOMAIN ls : ls[i].hold = h}
  OBVIOUS
<1>4. I \in SUBSET DOMAIN ls
  BY <1>3
<1>5. I # {}
  <2>1. PICK l \in ToSet(ls) : l.hold = h
    BY <1>1 DEF LegOn
  <2>2. PICK i \in DOMAIN ls : ls[i] = l
    BY <2>1 DEF ToSet
  <2> QED
    BY <1>3, <2>1, <2>2
<1>6. PICK r : r = Sublist(ls, I)
  OBVIOUS
<1>7. 1 \in DOMAIN r /\ \A n \in DOMAIN r : \E i \in I : r[n] = ls[i]
  BY <1>2, <1>4, <1>5, <1>6, SublistFacts
<1>8. r[1] \in ToSet(ls)
  BY <1>4, <1>7 DEF ToSet
<1>9. destination_of(ls, h) = r[1].destination
  BY <1>3, <1>6 DEF destination_of
<1>10. h \in Holds /\ Committed(h)
  BY <1>1, <1>2 DEF LegOn
<1> QED
  BY <1>1, <1>2, <1>8, <1>9, <1>10

\* A settling commit.
LEMMA SettleTask ==
    ASSUME NEW role \in {"Confirm", "Void"}, NEW tx, NEW h \in Holds, NEW target \in Account \ Holds,
           NEW destination, NEW asset \in Asset, NEW amount \in Int
    PROVE  /\ TaskOK(settle(role, tx, h, target, destination, asset, amount))
           /\ ~Parks(settle(role, tx, h, target, destination, asset, amount))
<1>1. PICK k : k = settle(role, tx, h, target, destination, asset, amount)
  OBVIOUS
<1>2. PICK t : t = k.transfer
  OBVIOUS
<1>3. PICK m : m = [from |-> h, to |-> target, asset |-> asset, amount |-> amount]
  OBVIOUS
<1>4. k.op = "commit" /\ t.movements = <<m>> /\ t.metadata.kind = role
  BY <1>1, <1>2, <1>3 DEF settle, CommitTask, Transfer, pay, Movement, SettleMeta
<1>5. m \in [from : Account, to : Account, asset : Asset, amount : Int]
  BY <1>3, HoldIsAccount
<1>6. WellTyped(t)
  <2> DEFINE M == [from : Account, to : Account, asset : Asset, amount : Int]
  <2>1. m \in M
    BY <1>5
  <2>2. WellTyped(t) <=> t.movements \in Seq(M)
    BY DEF WellTyped
  <2> HIDE DEF M
  <2> QED
    BY <1>4, <2>1, <2>2
<1>7. ToSet(t.movements) = {m} /\ m.from = h /\ m.to = target
  BY <1>3, <1>4, OneTask
<1>8. SettlesHold(t)
  BY <1>4, <1>6, <1>7 DEF SettlesHold
<1>9. ~Parks(k)
  BY <1>2, <1>4 DEF Parks, Meta
<1> QED
  BY <1>1, <1>2, <1>4, <1>8, <1>9 DEF TaskOK

\* confirm_all
LEMMA SweepStep ==
    ASSUME InflightInv, NEW p \in Client, Sweep(p)
    PROVE  InflightInv'
<1>1. PICK k : k = todo[p][1]
  OBVIOUS
<1>2. Busy(p) /\ k.op = "sweep" /\ UNCHANGED storeVars
  BY <1>1 DEF Sweep, At
<1>3. k.tx \in Inflights /\ k.asset \in Asset /\ LegOn(k.tx, k.hold)
  BY <1>1, <1>2, HeadTask DEF TaskOK
<1>4. PICK dest : dest = destination_of(legs_of(k.tx), k.hold)
  OBVIOUS
<1>5. k.hold \in Holds /\ dest \in Account \ Holds
  BY <1>3, <1>4, DestinationFacts DEF InflightInv, StorePart
<1>6. PICK bal : bal = compute_balance(k.hold, k.asset)
  OBVIOUS
<1>7. bal \in Int
  BY <1>3, <1>5, <1>6 DEF compute_balance, InflightInv, StorePart, BooksOK
<1>8. PICK n : n = settle("Confirm", k.tx, k.hold, dest, dest, k.asset, bal)
  OBVIOUS
<1>9. TaskOK(n) /\ ~Parks(n)
  BY <1>3, <1>5, <1>7, <1>8, SettleTask
<1>10. Become(p, <<n>>) \/ Done(p)
  BY <1>1, <1>4, <1>6, <1>8 DEF Sweep
<1> QED
  BY <1>1, <1>2, <1>9, <1>10, BecomeStep, DoneStep

\* confirm
LEMMA DeliverStep ==
    ASSUME InflightInv, NEW p \in Client, Deliver(p)
    PROVE  InflightInv'
<1>1. PICK k : k = todo[p][1]
  OBVIOUS
<1>2. Busy(p) /\ k.op = "deliver" /\ UNCHANGED storeVars
  BY <1>1 DEF Deliver, At
<1>3. k.tx \in Inflights /\ k.m.amount \in Int
  BY <1>1, <1>2, HeadTask DEF TaskOK
<1>4. CASE Fail(p)
  BY <1>2, <1>4, FailStep
<1>5. CASE \E l \in LegsNamed(k.tx, k.m) :
              Become(p, <<settle("Confirm", k.tx, l.hold, k.m.to, k.m.to, k.m.asset, k.m.amount)>>)
  <2>1. PICK l \in LegsNamed(k.tx, k.m) :
              Become(p, <<settle("Confirm", k.tx, l.hold, k.m.to, k.m.to, k.m.asset, k.m.amount)>>)
    BY <1>5
  <2>2. l \in ToSet(legs_of(k.tx)) /\ l.destination = k.m.to /\ l.asset = k.m.asset
    BY DEF LegsNamed
  <2>3. l.hold \in Holds /\ k.m.to \in Account \ Holds /\ k.m.asset \in Asset
    BY <1>3, <2>2, InflightLegs DEF InflightInv, StorePart
  <2>4. PICK n : n = settle("Confirm", k.tx, l.hold, k.m.to, k.m.to, k.m.asset, k.m.amount)
    OBVIOUS
  <2>5. TaskOK(n) /\ ~Parks(n)
    BY <1>3, <2>3, <2>4, SettleTask
  <2> QED
    BY <1>1, <1>2, <2>1, <2>4, <2>5, BecomeStep
<1> QED
  BY <1>1, <1>4, <1>5 DEF Deliver

\* close_if_drained
LEMMA CloseIfDrainedStep ==
    ASSUME InflightInv, NEW p \in Client, CloseIfDrained(p)
    PROVE  InflightInv'
<1>1. PICK k : k = todo[p][1]
  OBVIOUS
<1>2. Busy(p) /\ k.op = "drained" /\ UNCHANGED storeVars
  BY <1>1 DEF CloseIfDrained, At
<1>3. Committed(k.hold)
  BY <1>1, <1>2, HeadTask DEF TaskOK
<1>4. CASE Done(p)
  BY <1>1, <1>2, <1>4, DoneStep
<1>5. CASE ~has_live_postings(k.hold) /\ Become(p, <<[op |-> "empty", hold |-> k.hold]>>)
  <2>1. PICK n : n = [op |-> "empty", hold |-> k.hold]
    OBVIOUS
  <2>2. Drained(k.hold)
    BY <1>3, <1>5 DEF Drained, has_live_postings
  <2>3. TaskOK(n) /\ ~Parks(n)
    BY <2>1, <2>2 DEF TaskOK, Parks
  <2> QED
    BY <1>1, <1>2, <1>5, <2>1, <2>3, BecomeStep
<1> QED
  BY <1>1, <1>4, <1>5 DEF CloseIfDrained

\* close
LEMMA CloseHoldStep ==
    ASSUME InflightInv, NEW p \in Client, CloseHold(p)
    PROVE  InflightInv'
<1>1. PICK k : k = todo[p][1]
  OBVIOUS
<1>2. Busy(p) /\ k.op = "empty" /\ UNCHANGED storeVars
  BY <1>1 DEF CloseHold, At
<1>3. Drained(k.hold)
  BY <1>1, <1>2, HeadTask DEF TaskOK
<1>4. CASE Fail(p)
  BY <1>2, <1>4, FailStep
<1>5. CASE Become(p, <<[op |-> "shut", hold |-> k.hold,
                        next |-> NextVersion("AccountClosed", head(k.hold))]>>)
  <2>1. PICK n : n = [op |-> "shut", hold |-> k.hold,
                      next |-> NextVersion("AccountClosed", head(k.hold))]
    OBVIOUS
  <2>2. k.hold \in Holds /\ Exists(k.hold) /\ k.hold \in Account
    BY <1>3, CommittedExists, HoldIsAccount DEF Drained, InflightInv, StorePart
  <2>3. Len(accounts[k.hold]) \in DOMAIN accounts[k.hold]
    BY <2>2, HeadFacts DEF InflightInv, StorePart, CheckedStore, FloorInv, StoreInv
  <2>4. \E v \in DOMAIN accounts[k.hold] : n.next = NextVersion("AccountClosed", accounts[k.hold][v])
    BY <2>1, <2>3 DEF head
  <2>5. n.op = "shut" /\ n.hold = k.hold
    BY <2>1
  <2>6. TaskOK(n) /\ ~Parks(n)
    BY <1>3, <2>4, <2>5 DEF TaskOK, Parks
  <2> QED
    BY <1>1, <1>2, <1>5, <2>1, <2>6, BecomeStep
<1> QED
  BY <1>1, <1>4, <1>5 DEF CloseHold

\* inflight_status
LEMMA StatusStep ==
    ASSUME InflightInv, NEW p \in Client, ReadHistory(p) \/ ReadHeld(p)
    PROVE  InflightInv'
<1>1. CASE ReadHistory(p)
  <2>1. PICK n : /\ Become(p, <<n>>) /\ n.op = "held"
    BY <1>1 DEF ReadHistory
  <2>2. TaskOK(n) /\ ~Parks(n)
    BY <2>1 DEF TaskOK, Parks
  <2>3. Busy(p) /\ todo[p][1].op # "hold" /\ UNCHANGED storeVars
    BY <1>1 DEF ReadHistory, At
  <2> QED
    BY <2>1, <2>2, <2>3, BecomeStep
<1>2. CASE ReadHeld(p)
  <2>1. Busy(p) /\ todo[p][1].op # "hold" /\ UNCHANGED storeVars /\ Done(p)
    BY <1>2 DEF ReadHeld, At
  <2> QED
    BY <2>1, DoneStep
<1> QED
  BY <1>1, <1>2

\* What void gives back: to accounts that are no holds.
LEMMA DistributeFacts ==
    ASSUME NEW ls, ls \in Seq(ToSet(ls)),
           \A l \in ToSet(ls) : l.funder \in Account \ Holds /\ l.amount \in Int,
           NEW h, NEW asset, NEW rem \in Int, NEW r, r = distribute_to_funders(ls, h, asset, rem)
    PROVE  r \in Seq(ToSet(r)) /\ \A i \in DOMAIN r : r[i].funder \in Account \ Holds /\ r[i].give \in Int
<1> DEFINE I == {i \in DOMAIN ls : ls[i].hold = h /\ ls[i].asset = asset}
           fs == Sublist(ls, I)
<1>3. fs \in Seq(ToSet(ls))
  <2>1. I \in SUBSET DOMAIN ls
    OBVIOUS
  <2> HIDE DEF I
  <2> QED
    BY <2>1, SublistFacts
<1>4. DOMAIN fs = 1..Len(fs) /\ Len(fs) \in Nat /\ \A i \in DOMAIN fs : fs[i] \in ToSet(ls)
  <2> HIDE DEF fs
  <2> QED
    BY <1>3
<1> DEFINE Left(i) == rem - Amounts(fs, 1..(i - 1))
           Give(i) == IF i < Len(fs) /\ fs[i].amount < Left(i) THEN fs[i].amount ELSE Left(i)
           P == [i \in DOMAIN fs |-> [funder |-> fs[i].funder, give |-> Give(i)]]
           J == {i \in DOMAIN P : P[i].give > 0}
<1>5. r = Sublist(P, J)
  BY DEF distribute_to_funders, Amounts
<1> HIDE DEF fs
<1>6. ASSUME NEW i \in DOMAIN fs PROVE Left(i) \in Int
  <2>1. PICK S : S = 1..(i - 1)
    OBVIOUS
  <2>0. i \in Int /\ i - 1 \in Int /\ 1 \in Int /\ i <= Len(fs)
    BY <1>4
  <2>2. IsFiniteSet(S) /\ \A j \in S : j \in DOMAIN fs
    <3>1. IsFiniteSet(S)
      BY <2>0, <2>1, FS_Interval
    <3>2. ASSUME NEW j \in S PROVE j \in DOMAIN fs
      BY <1>4, <2>0, <2>1
    <3> QED
      BY <3>1, <3>2
  <2>3. PICK v : v = [j \in S |-> fs[j].amount]
    OBVIOUS
  <2>4. \A j \in S : v[j] \in Int
    BY <1>4, <2>2, <2>3
  <2>5. Amounts(fs, S) = SumOf(v, S)
    BY <2>2, <2>3, AmountsIs
  <2>6. SumOf(v, S) \in Int
    BY <2>2, <2>4, SumType
  <2> QED
    BY <2>1, <2>5, <2>6
<1> HIDE DEF Left
<1>7. \A i \in DOMAIN fs : Give(i) \in Int
  BY <1>4, <1>6
<1> HIDE DEF Give
<1>8. DOMAIN P = DOMAIN fs /\ \A i \in DOMAIN P : P[i].funder \in Account \ Holds /\ P[i].give \in Int
  BY <1>4, <1>7
<1>9. J \in SUBSET DOMAIN P
  OBVIOUS
<1> HIDE DEF P, J
<1>10. P \in Seq(ToSet(P))
  <2>1. P \in [1..Len(fs) -> ToSet(P)]
    BY <1>4, <1>8 DEF ToSet, P
  <2> QED
    BY <1>4, <2>1, FunctionIsSeq
<1>11. /\ Sublist(P, J) \in Seq(ToSet(P))
       /\ \A n \in DOMAIN Sublist(P, J) : \E i \in J : Sublist(P, J)[n] = P[i]
  BY <1>9, <1>10, SublistFacts
<1>12. r \in Seq(ToSet(P)) /\ \A n \in DOMAIN r : \E i \in J : r[n] = P[i]
  BY <1>5, <1>11
<1>13. \A n \in DOMAIN r : r[n].funder \in Account \ Holds /\ r[n].give \in Int
  BY <1>8, <1>9, <1>12
<1> QED
  BY <1>12, <1>13, OwnElements

\* void
LEMMA RefundStep ==
    ASSUME InflightInv, NEW p \in Client, Refund(p)
    PROVE  InflightInv'
<1>1. PICK k : k = todo[p][1]
  OBVIOUS
<1>2. Busy(p) /\ k.op = "refund" /\ UNCHANGED storeVars
  BY <1>1 DEF Refund, At
<1>3. k.tx \in Inflights /\ k.asset \in Asset /\ LegOn(k.tx, k.hold)
  BY <1>1, <1>2, HeadTask DEF TaskOK
<1>4. PICK ls : ls = legs_of(k.tx)
  OBVIOUS
<1>5. ls \in Seq(ToSet(ls)) /\ \A l \in ToSet(ls) : l.funder \in Account \ Holds /\ l.amount \in Int
  BY <1>3, <1>4, InflightLegs DEF InflightInv, StorePart
<1>6. PICK dest : dest = destination_of(ls, k.hold)
  OBVIOUS
<1>7. k.hold \in Holds
  BY <1>3, DestinationFacts DEF InflightInv, StorePart
<1>8. PICK bal : bal = compute_balance(k.hold, k.asset)
  OBVIOUS
<1>9. bal \in Int
  BY <1>3, <1>7, <1>8 DEF compute_balance, InflightInv, StorePart, BooksOK
<1>10. PICK fs : fs = distribute_to_funders(ls, k.hold, k.asset, bal)
  OBVIOUS
<1>11. fs \in Seq(ToSet(fs)) /\ \A i \in DOMAIN fs : fs[i].funder \in Account \ Holds /\ fs[i].give \in Int
  BY <1>5, <1>9, <1>10, DistributeFacts
<1>12. PICK s : s = [i \in DOMAIN fs |->
                       settle("Void", k.tx, k.hold, fs[i].funder, dest, k.asset, fs[i].give)]
  OBVIOUS
<1>13. \A i \in DOMAIN fs : TaskOK(s[i]) /\ ~Parks(s[i])
  <2> SUFFICES ASSUME NEW i \in DOMAIN fs PROVE TaskOK(s[i]) /\ ~Parks(s[i])
    OBVIOUS
  <2>1. PICK n : n = settle("Void", k.tx, k.hold, fs[i].funder, dest, k.asset, fs[i].give)
    OBVIOUS
  <2>2. TaskOK(n) /\ ~Parks(n)
    BY <1>3, <1>7, <1>11, <2>1, SettleTask
  <2>3. s[i] = n
    BY <1>12, <2>1
  <2> QED
    BY <2>2, <2>3
<1>14. DOMAIN s = DOMAIN fs /\ DOMAIN fs = 1..Len(fs) /\ Len(fs) \in Nat
  BY <1>11, <1>12
<1>15. s \in Seq(ToSet(s))
  <2>1. s \in [1..Len(fs) -> ToSet(s)]
    BY <1>12, <1>14 DEF ToSet
  <2> QED
    BY <1>14, <2>1, FunctionIsSeq
<1>16. \A n \in ToSet(s) : TaskOK(n) /\ ~Parks(n)
  BY <1>13, <1>14 DEF ToSet
<1>17. Become(p, s)
  BY <1>1, <1>4, <1>6, <1>8, <1>10, <1>12 DEF Refund
<1>18. todo[p][1].op # "hold"
  BY <1>1, <1>2
<1> QED
  BY <1>2, <1>15, <1>16, <1>17, <1>18, TaskStep

\* The head task writes, and is done.
LEMMA WriteStep ==
    ASSUME InflightInv, PartKept, NEW p \in Client, Busy(p), todo[p][1].op # "hold", Done(p),
           \A h \in Holds, q \in Client : Claims(todo[q], h) => ~Committed(h)'
    PROVE  InflightInv'
<1>1. PICK q : q = todo[p]
  OBVIOUS
<1>2. Shape(q) /\ TasksOK(q) /\ q # <<>>
  BY <1>1, HeadTask
<1>3. <<>> \in Seq(ToSet(<<>>)) /\ ToSet(<<>>) = {}
  BY NoTasks DEF ToSet
<1>4. PICK nq : nq = <<>> \o Tail(q)
  OBVIOUS
<1>5. /\ Shape(nq) /\ ToSet(nq) = ToSet(<<>>) \cup ToSet(Tail(q))
      /\ \A h : Claims(nq, h) => Claims(q, h)
  BY <1>1, <1>2, <1>3, <1>4, ReplaceHead
<1>6. TasksOK(nq)'
  <2>1. \A k \in ToSet(nq) : TaskOK(k)
    BY <1>2, <1>3, <1>5, TailFacts DEF TasksOK, Shape
  <2>2. \A k \in ToSet(nq) : TaskOK(k)'
    BY <2>1, TaskStays DEF InflightInv
  <2> QED
    BY <2>2 DEF TasksOK
<1>7. todo' = [todo EXCEPT ![p] = nq]
  BY <1>1, <1>4 DEF Done, Become, InflightInv
<1>8. \A h \in Holds : Claims(nq, h) =>
         Exists(h)' /\ ~Committed(h)' /\ \A r \in Client : Claims(todo[r], h) => r = p
  <2> SUFFICES ASSUME NEW h \in Holds, Claims(nq, h)
               PROVE  Exists(h)' /\ ~Committed(h)' /\ \A r \in Client : Claims(todo[r], h) => r = p
    OBVIOUS
  <2>1. Claims(todo[p], h)
    BY <1>1, <1>5
  <2>2. Exists(h) /\ \A r \in Client : Claims(todo[r], h) => r = p
    BY <2>1 DEF InflightInv, ClaimsOK
  <2>3. Exists(h)'
    BY <2>2, HoldIsAccount DEF PartKept, StoreKept, StoreGrows, Exists
  <2> QED
    BY <2>1, <2>2, <2>3
<1> QED
  BY <1>5, <1>6, <1>7, <1>8, ClientStep

\* AccountCreated for a hold.
LEMMA AnnounceStep ==
    ASSUME InflightInv, NEW p \in Client, AnnounceHold(p)
    PROVE  InflightInv'
<1>1. PICK k : k = todo[p][1]
  OBVIOUS
<1>2. /\ Busy(p) /\ k.op = "announce" /\ append_event(Event("AccountCreated", k.hold, 0))
      /\ Done(p)
  BY <1>1 DEF AnnounceHold, At
<1>3. k.hold \in Holds
  BY <1>1, <1>2, HeadTask DEF TaskOK
<1>4. PartKept /\ \A a : Committed(a)' <=> Committed(a)
  BY <1>2, <1>3, AnnounceKeepsPart DEF InflightInv
<1>5. \A h \in Holds, q \in Client : Claims(todo[q], h) => ~Committed(h)'
  BY <1>4 DEF InflightInv, ClaimsOK
<1> QED
  BY <1>1, <1>2, <1>4, <1>5, WriteStep

\* The transition that closes a hold.
LEMMA ShutStep ==
    ASSUME InflightInv, NEW p \in Client, ShutHold(p)
    PROVE  InflightInv'
<1>1. PICK k : k = todo[p][1]
  OBVIOUS
<1>2. Busy(p) /\ k.op = "shut"
  BY <1>1 DEF ShutHold, At
<1>3. /\ Drained(k.hold)
      /\ \E v \in DOMAIN accounts[k.hold] : k.next = NextVersion("AccountClosed", accounts[k.hold][v])
  BY <1>1, <1>2, HeadTask DEF TaskOK
<1>4. k.hold \in Holds
  BY <1>3, CommittedExists DEF Drained, InflightInv, StorePart
<1>5. CASE Fail(p) /\ UNCHANGED storeVars
  BY <1>5, FailStep
<1>6. CASE commit_transition(k.hold, k.next, "AccountClosed") /\ Done(p)
  <2>1. PICK v \in DOMAIN accounts[k.hold] : k.next = NextVersion("AccountClosed", accounts[k.hold][v])
    BY <1>3
  <2>2. PartKept /\ \A a : Committed(a)' <=> Committed(a)
    BY <1>3, <1>4, <1>6, <2>1, ShutKeepsPart DEF InflightInv
  <2>3. \A h \in Holds, q \in Client : Claims(todo[q], h) => ~Committed(h)'
    BY <2>2 DEF InflightInv, ClaimsOK
  <2> QED
    BY <1>1, <1>2, <1>6, <2>2, <2>3, WriteStep
<1> QED
  BY <1>1, <1>5, <1>6 DEF ShutHold

\* A hold is opened, or exists.
LEMMA CreateStep ==
    ASSUME InflightInv, NEW p \in Client, CreateHold(p)
    PROVE  InflightInv'
<1>1. PICK q : q = todo[p]
  OBVIOUS
<1>2. PICK h0 : h0 = q[1].hold
  OBVIOUS
<1>3. Busy(p) /\ q[1].op = "hold"
  BY <1>1 DEF CreateHold, At
<1>4. /\ h0 \in Holds /\ Shape(q) /\ TasksOK(q) /\ q # <<>>
  BY <1>1, <1>2, <1>3, HeadTask DEF TaskOK
<1>5. CASE Fail(p) /\ UNCHANGED storeVars
  BY <1>5, FailStep
<1>6. CASE create_account(h0, HoldFlags) /\ Become(p, <<[op |-> "announce", hold |-> h0]>>)
  <2>1. /\ PartKept /\ Exists(h0)' /\ \A a : Committed(a)' <=> Committed(a)
        /\ \A a \in Holds : Exists(a) => Exists(a)'
    BY <1>4, <1>6, OpenKeepsPart DEF InflightInv
  <2>2. ~Exists(h0)
    BY <1>6 DEF create_account
  <2>3. ~Committed(h0)
    BY <2>2, CommittedExists DEF InflightInv, StorePart
  <2>4. PICK n : n = [op |-> "announce", hold |-> h0]
    OBVIOUS
  <2>5. n.op = "announce" /\ n.hold = h0 /\ ~Parks(n) /\ \A h : ~ParksOn(n, h)
    BY <2>4 DEF Parks, ParksOn
  <2>6. PICK s : s = <<n>>
    OBVIOUS
  <2>7. s \in Seq(ToSet(s)) /\ ToSet(s) = {n}
    BY <2>6, OneTask
  <2>8. PICK nq : nq = s \o Tail(q)
    OBVIOUS
  <2>9. Shape(nq) /\ ToSet(nq) = {n} \cup ToSet(Tail(q))
    BY <1>4, <2>5, <2>7, <2>8, ReplaceHead
  <2>10. ToSet(q) = {q[1]} \cup ToSet(Tail(q))
    BY <1>4, TailFacts DEF Shape
  <2>11. TasksOK(nq)'
    <3>1. \A k \in ToSet(Tail(q)) : TaskOK(k)
      BY <1>4, <2>10 DEF TasksOK
    <3>2. TaskOK(n)
      BY <1>4, <2>5 DEF TaskOK
    <3>3. \A k \in ToSet(nq) : TaskOK(k)'
      BY <2>1, <2>9, <3>1, <3>2, TaskStays DEF InflightInv
    <3> QED
      BY <3>3 DEF TasksOK
  <2>12. todo' = [todo EXCEPT ![p] = nq]
    BY <1>1, <1>6, <2>4, <2>6, <2>8 DEF Become, InflightInv
  <2>13. \A h \in Holds : Claims(nq, h) => h = h0 \/ Claims(q, h)
    <3> SUFFICES ASSUME NEW h \in Holds, Claims(nq, h), h # h0 PROVE Claims(q, h)
      OBVIOUS
    <3>1. \E k \in ToSet(q) : ParksOn(k, h)
      BY <2>5, <2>9, <2>10 DEF Claims
    <3>2. \A k \in ToSet(q) : ~(k.op = "hold" /\ k.hold = h)
      BY <1>2, <2>9, <2>10 DEF Claims
    <3> QED
      BY <3>1, <3>2 DEF Claims
  <2>14. ASSUME NEW h \in Holds, Claims(nq, h)
         PROVE  Exists(h)' /\ ~Committed(h)' /\ \A r \in Client : Claims(todo[r], h) => r = p
    <3>1. CASE h = h0
      BY <2>1, <2>2, <2>3, <3>1 DEF InflightInv, ClaimsOK
    <3>2. CASE h # h0
      <4>1. Claims(todo[p], h)
        BY <1>1, <2>13, <2>14, <3>2
      <4> QED
        BY <2>1, <4>1 DEF InflightInv, ClaimsOK
    <3> QED
      BY <3>1, <3>2
  <2>15. \A h \in Holds, r \in Client : r # p /\ Claims(todo[r], h) => ~Committed(h)'
    BY <2>1 DEF InflightInv, ClaimsOK
  <2> QED
    BY <2>1, <2>9, <2>11, <2>12, <2>14, <2>15, ClientStep
<1> QED
  BY <1>1, <1>2, <1>5, <1>6 DEF CreateHold

\* The commit of an authorization is the only task left of its request.
LEMMA OnlyTask ==
    ASSUME NEW q, Shape(q), q # <<>>, Parks(q[1])
    PROVE  Tail(q) = <<>> /\ ToSet(q) = {q[1]}
<1>1. /\ 1 \in DOMAIN q /\ Tail(q) \in Seq(ToSet(Tail(q))) /\ Len(Tail(q)) = Len(q) - 1
      /\ ToSet(q) = {q[1]} \cup ToSet(Tail(q))
  BY TailFacts DEF Shape
<1>2. 1 = Len(q)
  BY <1>1 DEF Shape
<1>3. Len(Tail(q)) = 0
  <2>1. \A n : n = 1 => n - 1 = 0
    OBVIOUS
  <2> QED
    BY <1>1, <1>2, <2>1, Zenon
<1>4. Tail(q) = <<>>
  BY <1>1, <1>3, EmptySeq
<1> QED
  BY <1>1, <1>4 DEF ToSet

\* commit, up to validation.
LEMMA BuildStep ==
    ASSUME InflightInv, NEW p \in Client, BuildCommit(p)
    PROVE  InflightInv'
<1>1. PICK q : q = todo[p]
  OBVIOUS
<1>2. PICK t : t = q[1].transfer
  OBVIOUS
<1>3. Busy(p) /\ q[1].op = "commit" /\ UNCHANGED storeVars
  BY <1>1 DEF BuildCommit, At
<1>4. /\ ParksTrade(t) \/ SettlesHold(t)
      /\ Shape(q) /\ TasksOK(q) /\ q # <<>>
  BY <1>1, <1>2, <1>3, HeadTask DEF TaskOK
<1>5. CASE Fail(p)
  BY <1>3, <1>5, FailStep
<1>6. ASSUME NEW e \in Built(t), Become(p, <<[op |-> "submit", envelope |-> e]>>)
      PROVE  InflightInv'
  <2>1. PICK n : n = [op |-> "submit", envelope |-> e]
    OBVIOUS
  <2>2. n.op = "submit" /\ n.envelope = e /\ Become(p, <<n>>) /\ Meta(n) = e.metadata
    BY <1>6, <2>1 DEF Meta
  <2>3. CheckedStore
    BY DEF InflightInv, StorePart
  <2>4. CASE SettlesHold(t)
    <3>1. HoldsForbid
      BY DEF InflightInv, StorePart, HoldsOK, HoldsForbid
    <3>2. e.metadata.kind \in {"Confirm", "Void"} /\ \E h \in Holds : SettlesFrom(e, h)
      BY <1>6, <2>3, <2>4, <3>1, BuiltSettles
    <3>3. Checked(e)
      BY <1>6, <2>3, <2>4, BuiltIsChecked DEF SettlesHold
    <3>4. PlaysPart(e)
      BY <3>2 DEF PlaysPart
    <3>5. TaskOK(n)
      BY <2>2, <3>3, <3>4 DEF TaskOK
    <3>6. ~Parks(n)
      BY <2>2, <3>2 DEF Parks
    <3> QED
      BY <1>1, <1>3, <2>2, <3>5, <3>6, BecomeStep
  <2>5. CASE ParksTrade(t)
    <3>1. AuthorizeOK(e) /\ e.metadata = t.metadata /\ e.metadata.kind = "Authorize"
      BY <1>6, <2>3, <2>5, BuiltParks
    <3>2. WellTyped(t)
      BY <2>5, ParkingFacts DEF ParksTrade
    <3>3. Checked(e)
      BY <1>6, <2>3, <3>2, BuiltIsChecked
    <3>4. PlaysPart(e)
      BY <3>1 DEF PlaysPart
    <3>5. TaskOK(n)
      BY <2>2, <3>3, <3>4 DEF TaskOK
    <3>6. Meta(q[1]) = Meta(n) /\ Parks(q[1])
      BY <1>2, <1>3, <2>2, <3>1 DEF Meta, Parks
    <3>7. Tail(q) = <<>> /\ ToSet(q) = {q[1]}
      BY <1>4, <3>6, OnlyTask
    <3>8. PICK nq : nq = <<n>>
      OBVIOUS
    <3>9. /\ nq \in Seq(ToSet(nq)) /\ ToSet(nq) = {n} /\ Len(nq) = 1 /\ DOMAIN nq = {1} /\ nq[1] = n
      BY <3>8, OneTask
    <3>10. nq \o Tail(q) = nq
      BY <3>7, <3>9, ConcatEmptySeq
    <3>11. Shape(nq) /\ TasksOK(nq)
      BY <3>5, <3>9 DEF Shape, TasksOK
    <3>12. ASSUME NEW h \in Holds, Claims(nq, h) PROVE Claims(q, h)
      <4>1. ParksOn(n, h)
        BY <3>9, <3>12 DEF Claims
      <4>2. ParksOn(q[1], h) /\ q[1].op # "hold"
        BY <1>3, <3>6, <4>1 DEF ParksOn
      <4> QED
        BY <3>7, <4>2 DEF Claims
    <3>13. todo' = [todo EXCEPT ![p] = nq]
      BY <1>1, <2>2, <3>8, <3>10 DEF Become, InflightInv
    <3> QED
      BY <1>1, <1>3, <3>11, <3>12, <3>13, QuietStep
  <2> QED
    BY <1>4, <2>4, <2>5
<1> QED
  BY <1>1, <1>2, <1>5, <1>6 DEF BuildCommit

\* commit, the store call.
LEMMA SubmitStep ==
    ASSUME InflightInv, NEW p \in Client, SubmitCommit(p)
    PROVE  InflightInv'
<1>1. PICK q : q = todo[p]
  OBVIOUS
<1>2. PICK e : e = q[1].envelope
  OBVIOUS
<1>3. Busy(p) /\ q[1].op = "submit"
  BY <1>1 DEF SubmitCommit, At
<1>4. Checked(e) /\ PlaysPart(e) /\ Shape(q) /\ TasksOK(q) /\ q # <<>>
  BY <1>1, <1>2, <1>3, HeadTask DEF TaskOK
<1>5. CASE Done(p) /\ UNCHANGED storeVars
  BY <1>1, <1>3, <1>5, DoneStep
<1>6. CASE Fail(p) /\ UNCHANGED storeVars
  BY <1>6, FailStep
<1>7. CASE commit_envelope(CommitRequest(e)) /\ Done(p)
  <2>0. Meta(q[1]) = e.metadata
    BY <1>2, <1>3 DEF Meta
  <2>1. ASSUME NEW h \in Holds, ParksIn(e.metadata, h)
        PROVE  Claims(todo[p], h) /\ ~Committed(h) /\ \A r \in Client : Claims(todo[r], h) => r = p
    <3>1. Parks(q[1]) /\ ParksOn(q[1], h)
      BY <1>3, <2>0, <2>1 DEF Parks, ParksOn, ParksIn
    <3>2. ToSet(q) = {q[1]}
      BY <1>4, <3>1, OnlyTask
    <3>3. Claims(todo[p], h)
      BY <1>1, <1>3, <3>1, <3>2 DEF Claims
    <3> QED
      BY <3>3 DEF InflightInv, ClaimsOK
  <2>2. \A h \in Holds : ParksIn(e.metadata, h) => ~Committed(h)
    BY <2>1
  <2>3. PartKept /\ \A h : Committed(h)' <=> Committed(h) \/ ParksIn(e.metadata, h)
    BY <1>4, <1>7, <2>2, CommitKeepsPart DEF InflightInv
  <2>4. CASE Parks(q[1])
    <3>1. Tail(q) = <<>> /\ <<>> \o <<>> = <<>>
      BY <1>4, <2>4, OnlyTask
    <3>2. todo' = [todo EXCEPT ![p] = <<>>]
      BY <1>1, <1>7, <3>1 DEF Done, Become, InflightInv
    <3>3. Shape(<<>>) /\ TasksOK(<<>>)' /\ \A h : ~Claims(<<>>, h)
      BY NoTasks DEF TasksOK, ToSet
    <3>4. \A h \in Holds, r \in Client : r # p /\ Claims(todo[r], h) => ~Committed(h)'
      BY <2>1, <2>3 DEF InflightInv, ClaimsOK
    <3> QED
      BY <2>3, <3>2, <3>3, <3>4, ClientStep
  <2>5. CASE ~Parks(q[1])
    <3>1. \A h : ~ParksIn(e.metadata, h)
      BY <1>3, <2>0, <2>5 DEF Parks, ParksIn
    <3>2. \A h \in Holds, r \in Client : Claims(todo[r], h) => ~Committed(h)'
      BY <2>3, <3>1 DEF InflightInv, ClaimsOK
    <3> QED
      BY <1>1, <1>3, <1>7, <2>3, <3>2, WriteStep
  <2> QED
    BY <2>4, <2>5
<1> QED
  BY <1>1, <1>2, <1>5, <1>6, <1>7 DEF SubmitCommit

-----------------------------------------------------------------------------
(* Requests. *)

\* A sequence made element by element from another.
LEMMA MappedSeq ==
    ASSUME NEW X, NEW s \in Seq(X), NEW Y, NEW f \in [DOMAIN s -> Y]
    PROVE  f \in Seq(Y) /\ Len(f) = Len(s) /\ DOMAIN f = DOMAIN s
<1>1. DOMAIN s = 1..Len(s) /\ Len(s) \in Nat
  OBVIOUS
<1> QED
  BY <1>1, FunctionIsSeq

\* A request starts with tasks that claim nothing.
LEMMA BeginStep ==
    ASSUME InflightInv, NEW p \in Client, NEW nq, Begin(p, nq), Shape(nq), TasksOK(nq),
           \A h \in Holds : ~Claims(nq, h)
    PROVE  InflightInv'
BY QuietStep DEF Begin

\* ... that park nothing at all.
LEMMA BeginQuiet ==
    ASSUME InflightInv, NEW p \in Client, NEW nq, Begin(p, nq), nq \in Seq(ToSet(nq)),
           \A k \in ToSet(nq) : TaskOK(k) /\ k.op \notin {"commit", "submit"}
    PROVE  InflightInv'
<1>1. \A i \in DOMAIN nq : nq[i] \in ToSet(nq)
  BY DEF ToSet
<1>2. Shape(nq) /\ TasksOK(nq)
  BY <1>1 DEF Shape, TasksOK, Parks
<1>3. \A h \in Holds : ~Claims(nq, h)
  BY DEF Claims, ParksOn
<1> QED
  BY <1>2, <1>3, BeginStep

\* authorize: every hold that the commit pays into is opened first.
LEMMA AuthorizeStep ==
    ASSUME InflightInv, NEW p \in Client, authorize(p)
    PROVE  InflightInv'
<1> DEFINE Dest(t) == {m.to : m \in ToSet(t.movements)}
           Open(t, dests) == [i \in DOMAIN dests |->
                                 [op |-> "hold", hold |-> HoldOf(t, dests[i]), trade |-> t]]
           LastStep(t) == CommitTask(Transfer(Parking(t), t.book, AuthorizeMeta(t)))
<1>1. PICK t \in Trades : Begin(p, Append(Open(t, InOrder(Dest(t))), LastStep(t)))
  BY DEF authorize, Parking
<1>2. PICK D : D = Dest(t)
  OBVIOUS
<1>3. PICK dests : dests = InOrder(D)
  OBVIOUS
<1>4. PICK hs : hs = Open(t, dests)
  OBVIOUS
<1>5. PICK c : c = LastStep(t)
  OBVIOUS
<1>6. PICK nq : nq = Append(hs, c)
  OBVIOUS
<1>7. Begin(p, nq)
  BY <1>1, <1>2, <1>3, <1>4, <1>5, <1>6
<1>8. D \in SUBSET Account
  <2>1. PICK ms : ms = t.movements
    OBVIOUS
  <2>2. PICK M : M = [from : Account, to : Account, asset : Asset, amount : Int]
    OBVIOUS
  <2>3. ms \in Seq(M)
    BY <2>1, <2>2, HoldsAssumption DEF WellTyped
  <2>4. \A i \in DOMAIN ms : ms[i] \in M
    BY <2>3
  <2>5. \A m \in M : m.to \in Account
    BY <2>2
  <2>6. \A m \in ToSet(ms) : m.to \in Account
    BY <2>4, <2>5 DEF ToSet
  <2> QED
    BY <1>2, <2>1, <2>6
<1>9. dests \in Seq(D) /\ ToSet(dests) = D
  BY <1>3, <1>8, InOrderFacts
<1>10. /\ DOMAIN hs = DOMAIN dests
       /\ \A i \in DOMAIN dests : hs[i].op = "hold" /\ hs[i].hold = HoldOf(t, dests[i])
  BY <1>4
<1>11. c.op = "commit" /\ c.transfer.movements = Parking(t) /\ c.transfer.metadata = AuthorizeMeta(t)
  BY <1>5 DEF CommitTask, Transfer
<1> HIDE DEF Dest, Open, LastStep
<1>12. \A i \in DOMAIN hs : hs[i].hold \in Holds
  <2> SUFFICES ASSUME NEW i \in DOMAIN hs PROVE hs[i].hold \in Holds
    OBVIOUS
  <2>1. dests[i] \in D
    BY <1>9, <1>10
  <2>2. PICK m \in ToSet(t.movements) : dests[i] = m.to
    BY <1>2, <2>1 DEF Dest
  <2> QED
    BY <1>10, <2>2 DEF Holds
<1>13. PICK Y : Y = ToSet(hs) \cup {c}
  OBVIOUS
<1>14. hs \in Seq(Y) /\ Len(hs) \in Nat
  <2>1. hs = [i \in DOMAIN dests |-> hs[i]]
    BY <1>4 DEF Open
  <2>2. hs \in [DOMAIN dests -> Y]
    BY <1>10, <1>13, <2>1 DEF ToSet
  <2>3. hs \in Seq(Y)
    BY <1>9, <2>2, MappedSeq
  <2> QED
    BY <2>3
<1>15. /\ nq \in Seq(Y) /\ Len(nq) = Len(hs) + 1 /\ DOMAIN nq = DOMAIN hs \cup {Len(hs) + 1}
       /\ \A i \in DOMAIN hs : nq[i] = hs[i]
       /\ nq[Len(hs) + 1] = c
  BY <1>6, <1>13, <1>14, AppendFacts
<1>16. nq \in Seq(ToSet(nq))
  BY <1>15, OwnElements
<1>17. Shape(nq)
  <2>1. \A i \in DOMAIN hs : ~Parks(nq[i])
    BY <1>10, <1>15 DEF Parks
  <2> QED
    BY <1>15, <1>16, <2>1 DEF Shape
<1>18. TasksOK(nq)
  <2>1. \A i \in DOMAIN hs : TaskOK(nq[i])
    BY <1>10, <1>12, <1>15 DEF TaskOK
  <2>2. ParksTrade(c.transfer)
    BY <1>11 DEF ParksTrade
  <2>3. TaskOK(c)
    BY <1>11, <2>2 DEF TaskOK
  <2>4. \A i \in DOMAIN nq : TaskOK(nq[i])
    BY <1>15, <2>1, <2>3
  <2> QED
    BY <2>4 DEF TasksOK, ToSet
<1>19. ASSUME NEW h \in Holds, Claims(nq, h) PROVE FALSE
  <2>1. PICK k \in ToSet(nq) : ParksOn(k, h)
    BY <1>19 DEF Claims
  <2>2. PICK n \in DOMAIN nq : k = nq[n]
    BY <2>1 DEF ToSet
  <2>3. k = c
    BY <1>10, <1>15, <2>1, <2>2 DEF ParksOn
  <2>4. ParksIn(AuthorizeMeta(t), h)
    BY <1>11, <2>1, <2>3 DEF ParksOn, Meta
  <2>5. PICK i \in DOMAIN AuthorizeMeta(t).legs : AuthorizeMeta(t).legs[i].hold = h
    BY <2>4 DEF ParksIn, ToSet
  <2>6. i \in DOMAIN t.movements /\ h = HoldOf(t, t.movements[i].to)
    BY <2>5, LegsFacts
  <2>7. t.movements[i].to \in D
    BY <1>2, <2>6 DEF Dest, ToSet
  <2>8. PICK j \in DOMAIN dests : dests[j] = t.movements[i].to
    BY <1>9, <2>7 DEF ToSet
  <2>9. j \in DOMAIN nq /\ nq[j].op = "hold" /\ nq[j].hold = h
    BY <1>10, <1>15, <2>6, <2>8
  <2> QED
    BY <1>19, <2>9 DEF Claims, ToSet
<1> QED
  BY <1>7, <1>17, <1>18, <1>19, BeginStep

\* The tasks of the holds of an inflight.
LEMMA PerHoldFacts ==
    ASSUME InflightInv, NEW tx \in Inflights, NEW op \in {"sweep", "refund", "history"}
    PROVE  /\ PerHold(tx, op) \in Seq(ToSet(PerHold(tx, op)))
           /\ \A k \in ToSet(PerHold(tx, op)) : TaskOK(k) /\ k.op \in {op, "drained"}
<1> DEFINE ls == legs_of(tx)
           Tasks(h) == LET vs == assets_of(ls, h)
                       IN [i \in DOMAIN vs |-> [op |-> op, tx |-> tx, hold |-> h, asset |-> vs[i]]]
           hs == holds_of(ls)
           X == {k \in UNION {ToSet(Append(Tasks(h), CloseTask(h))) : h \in ToSet(hs)} :
                    TaskOK(k) /\ k.op \in {op, "drained"}}
           Q == [i \in DOMAIN hs |-> Append(Tasks(hs[i]), CloseTask(hs[i]))]
<1>1. PerHold(tx, op) = FlattenSeq(Q)
  BY DEF PerHold
<1>0. ls \in Seq(ToSet(ls))
  BY InflightLegs DEF InflightInv, StorePart
<1>2. \A l \in ToSet(ls) : l.hold \in Holds /\ Committed(l.hold) /\ LegOn(tx, l.hold) /\ l.asset \in Asset
  BY InflightLegs DEF InflightInv, StorePart
<1> HIDE DEF ls
<1>3. PICK H : H = {l.hold : l \in ToSet(ls)}
  OBVIOUS
<1>4. H \in SUBSET Account /\ \A h \in H : Committed(h) /\ LegOn(tx, h)
  BY <1>2, <1>3, HoldIsAccount
<1>5. hs \in Seq(H) /\ ToSet(hs) = H
  BY <1>3, <1>4, InOrderFacts DEF holds_of
<1>6. ASSUME NEW h \in H PROVE Append(Tasks(h), CloseTask(h)) \in Seq(X)
  <2>1. PICK A : A = {l.asset : l \in {k \in ToSet(ls) : k.hold = h}}
    OBVIOUS
  <2>2. A \in SUBSET Asset /\ A \in SUBSET Int /\ IsFiniteSet(A)
    <3>1. A \in SUBSET Asset
      BY <1>2, <2>1
    <3>2. DOMAIN ls = 1..Len(ls) /\ Len(ls) \in Int /\ 1 \in Int
      BY <1>0
    <3>3. IsFiniteSet(DOMAIN ls)
      BY <3>2, FS_Interval
    <3>4. PICK I : I = {i \in DOMAIN ls : ls[i].hold = h}
      OBVIOUS
    <3>5. IsFiniteSet(I)
      BY <3>3, <3>4, FS_Subset
    <3>6. PICK f : f = [i \in I |-> ls[i].asset]
      OBVIOUS
    <3>7. f \in Surjection(I, A)
      BY <2>1, <3>4, <3>6 DEF Surjection, ToSet
    <3> QED
      BY <3>1, <3>5, <3>7, IdsAssumption, FS_Surjection
  <2>3. PICK vs : vs = assets_of(ls, h)
    OBVIOUS
  <2>4. vs \in Seq(A)
    BY <2>1, <2>2, <2>3, AscendingFacts DEF assets_of
  <2>4a. \A n \in DOMAIN vs : vs[n] \in Asset
    <3>1. \A n \in 1..Len(vs) : vs[n] \in A
      BY <2>4, ElementOfSeq
    <3>2. DOMAIN vs = 1..Len(vs)
      BY <2>4, LenProperties
    <3> QED
      BY <2>2, <3>1, <3>2
  <2>5. PICK ts : ts = Tasks(h)
    OBVIOUS
  <2>6. ts = [i \in DOMAIN vs |-> [op |-> op, tx |-> tx, hold |-> h, asset |-> vs[i]]]
    BY <2>3, <2>5
  <2>7. PICK c : c = CloseTask(h)
    OBVIOUS
  <2>8. c.op = "drained" /\ c.hold = h
    BY <2>7 DEF CloseTask
  <2>9. TaskOK(c)
    BY <1>4, <2>8 DEF TaskOK
  <2>10. ASSUME NEW i \in DOMAIN ts PROVE TaskOK(ts[i]) /\ ts[i].op = op
    <3>0. i \in DOMAIN vs
      BY <2>6
    <3>1. i \in DOMAIN vs /\ vs[i] \in Asset
      BY <2>4a, <3>0
    <3>2. ts[i].op = op /\ ts[i].tx = tx /\ ts[i].hold = h /\ ts[i].asset = vs[i]
      BY <2>6, <3>1
    <3>3. tx \in Inflights /\ LegOn(tx, h)
      BY <1>4
    <3> QED
      BY <3>1, <3>2, <3>3 DEF TaskOK
  <2>11. PICK Y : Y = ToSet(ts) \cup {c}
    OBVIOUS
  <2>12. ts \in Seq(Y)
    <3>1. ts = [i \in DOMAIN vs |-> ts[i]]
      BY <2>6
    <3>2. ts \in [DOMAIN vs -> Y]
      BY <2>6, <2>11, <3>1 DEF ToSet
    <3> QED
      BY <2>4, <3>2, MappedSeq
  <2>13. PICK r : r = Append(ts, c)
    OBVIOUS
  <2>14. /\ r \in Seq(Y) /\ DOMAIN r = DOMAIN ts \cup {Len(ts) + 1}
         /\ \A i \in DOMAIN ts : r[i] = ts[i]
         /\ r[Len(ts) + 1] = c
    BY <2>11, <2>12, <2>13, AppendFacts
  <2>15. \A i \in DOMAIN r : TaskOK(r[i]) /\ r[i].op \in {op, "drained"}
    BY <2>8, <2>9, <2>10, <2>14
  <2>16. r = Append(Tasks(h), CloseTask(h))
    BY <2>5, <2>7, <2>13
  <2>17. \A i \in DOMAIN r : r[i] \in X
    <3> HIDE DEF Tasks, hs
    <3> QED
      BY <1>5, <2>15, <2>16 DEF ToSet
  <2>18. r \in Seq(X)
    <3> HIDE DEF X
    <3> QED
      BY <2>14, <2>17, MappedSeq
  <2> QED
    BY <2>16, <2>18
<1> HIDE DEF Tasks, X, hs
<1>7. \A i \in DOMAIN hs : hs[i] \in H
  BY <1>5
<1>8. Q \in [DOMAIN hs -> Seq(X)]
  BY <1>6, <1>7
<1> HIDE DEF Q
<1>9. Q \in Seq(Seq(X))
  BY <1>5, <1>8, MappedSeq
<1>10. FlattenSeq(Q) \in Seq(X)
  BY <1>9, FlattenFacts
<1>11. /\ FlattenSeq(Q) \in Seq(ToSet(FlattenSeq(Q))) /\ ToSet(FlattenSeq(Q)) \subseteq X
  BY <1>10, OwnElements
<1> QED
  BY <1>1, <1>11 DEF X

\* confirm_all, void and inflight_status.
LEMMA PerHoldSteps ==
    ASSUME InflightInv, NEW p \in Client, confirm_all(p) \/ void(p) \/ inflight_status(p)
    PROVE  InflightInv'
<1>1. ASSUME NEW tx \in Inflights, NEW op \in {"sweep", "refund"}, Begin(p, PerHold(tx, op))
      PROVE  InflightInv'
  <2>1. PICK nq : nq = PerHold(tx, op)
    OBVIOUS
  <2>2. nq \in Seq(ToSet(nq)) /\ \A k \in ToSet(nq) : TaskOK(k) /\ k.op \notin {"commit", "submit"}
    BY <2>1, PerHoldFacts
  <2> QED
    BY <1>1, <2>1, <2>2, BeginQuiet
<1>2. CASE inflight_status(p)
  <2>1. PICK tx \in Inflights :
          LET tasks == PerHold(tx, "history")
          IN Begin(p, Sublist(tasks, {i \in DOMAIN tasks : tasks[i].op = "history"}))
    BY <1>2 DEF inflight_status
  <2>2. PICK ts : ts = PerHold(tx, "history")
    OBVIOUS
  <2>3. PICK I : I = {i \in DOMAIN ts : ts[i].op = "history"}
    OBVIOUS
  <2>4. PICK nq : nq = Sublist(ts, I)
    OBVIOUS
  <2>5. Begin(p, nq)
    BY <2>1, <2>2, <2>3, <2>4
  <2>6. ts \in Seq(ToSet(ts)) /\ \A k \in ToSet(ts) : TaskOK(k) /\ k.op \notin {"commit", "submit"}
    BY <2>2, PerHoldFacts
  <2>7. nq \in Seq(ToSet(ts))
    BY <2>3, <2>4, <2>6, SublistFacts
  <2>8. nq \in Seq(ToSet(nq)) /\ ToSet(nq) \subseteq ToSet(ts)
    BY <2>7, OwnElements
  <2> QED
    BY <2>5, <2>6, <2>8, BeginQuiet
<1> QED
  BY <1>1, <1>2 DEF confirm_all, void

\* confirm
LEMMA ConfirmStep ==
    ASSUME InflightInv, NEW p \in Client, confirm(p)
    PROVE  InflightInv'
<1> DEFINE Touched(tx, ms) == {l.hold : l \in UNION {LegsNamed(tx, m) : m \in ToSet(ms)}}
           Give(tx, ms) == [i \in DOMAIN ms |-> [op |-> "deliver", tx |-> tx, m |-> ms[i]]]
           Shut(hs) == [i \in DOMAIN hs |-> CloseTask(hs[i])]
<1>1. PICK tx \in Inflights, ms \in Confirms : Begin(p, Give(tx, ms) \o Shut(InOrder(Touched(tx, ms))))
  BY DEF confirm
<1>2. PICK H : H = Touched(tx, ms)
  OBVIOUS
<1>3. PICK hs : hs = InOrder(H)
  OBVIOUS
<1>4. PICK ds : ds = Give(tx, ms)
  OBVIOUS
<1>5. PICK cs : cs = Shut(hs)
  OBVIOUS
<1>6. PICK nq : nq = ds \o cs
  OBVIOUS
<1>7. Begin(p, nq)
  BY <1>1, <1>2, <1>3, <1>4, <1>5, <1>6
<1>8. \A h \in H : h \in Account /\ Committed(h)
  <2>1. \A l \in ToSet(legs_of(tx)) : l.hold \in Holds /\ Committed(l.hold)
    BY InflightLegs DEF InflightInv, StorePart
  <2> QED
    BY <1>2, <2>1, HoldIsAccount DEF LegsNamed
<1>9. hs \in Seq(H)
  BY <1>3, <1>8, InOrderFacts
<1>10. ms \in Seq(ToSet(ms)) /\ \A m \in ToSet(ms) : m.amount \in Int
  BY HoldsAssumption
<1>11. /\ ds = [i \in DOMAIN ms |-> ds[i]] /\ DOMAIN ds = DOMAIN ms
       /\ \A i \in DOMAIN ms : ds[i].op = "deliver" /\ ds[i].tx = tx /\ ds[i].m = ms[i]
  BY <1>4
<1>12. /\ cs = [i \in DOMAIN hs |-> cs[i]] /\ DOMAIN cs = DOMAIN hs
       /\ \A i \in DOMAIN hs : cs[i].op = "drained" /\ cs[i].hold = hs[i]
  BY <1>5 DEF CloseTask
<1> HIDE DEF Touched, Give, Shut
<1>13. ds \in Seq(ToSet(ds))
  <2>1. ds \in [DOMAIN ms -> ToSet(ds)]
    BY <1>11 DEF ToSet
  <2> QED
    BY <1>10, <2>1, MappedSeq
<1>14. cs \in Seq(ToSet(cs))
  <2>1. cs \in [DOMAIN hs -> ToSet(cs)]
    BY <1>12 DEF ToSet
  <2> QED
    BY <1>9, <2>1, MappedSeq
<1>15. \A k \in ToSet(ds) : TaskOK(k) /\ k.op \notin {"commit", "submit"}
  <2> SUFFICES ASSUME NEW i \in DOMAIN ds
               PROVE  TaskOK(ds[i]) /\ ds[i].op \notin {"commit", "submit"}
    BY DEF ToSet
  <2>1. ds[i].op = "deliver" /\ ds[i].tx = tx /\ ds[i].m = ms[i]
    BY <1>11
  <2>2. ms[i].amount \in Int
    BY <1>10, <1>11 DEF ToSet
  <2> QED
    BY <2>1, <2>2 DEF TaskOK
<1>16. \A k \in ToSet(cs) : TaskOK(k) /\ k.op \notin {"commit", "submit"}
  <2> SUFFICES ASSUME NEW i \in DOMAIN cs
               PROVE  TaskOK(cs[i]) /\ cs[i].op \notin {"commit", "submit"}
    BY DEF ToSet
  <2>1. cs[i].op = "drained" /\ cs[i].hold = hs[i]
    BY <1>12
  <2>2. \A n \in DOMAIN hs : hs[n] \in H
    BY <1>9
  <2>3. Committed(hs[i])
    BY <1>8, <1>12, <2>2
  <2> QED
    BY <2>1, <2>3 DEF TaskOK
<1>17. nq \in Seq(ToSet(nq)) /\ ToSet(nq) = ToSet(ds) \cup ToSet(cs)
  BY <1>6, <1>13, <1>14, JoinFacts
<1> QED
  BY <1>7, <1>15, <1>16, <1>17, BeginQuiet

-----------------------------------------------------------------------------
(* The invariant of the holds, and what follows. *)

\* It holds before the first request: no hold is open and the log is empty.
LEMMA InflightStart ==
    ASSUME InflightInit
    PROVE  InflightInv
<1>1. /\ accounts = InitialAccounts /\ DOMAIN immutable = {} /\ DOMAIN transfers = {} /\ active = {}
      /\ events = SetToSeq({Event("AccountCreated", a, 0) : a \in DOMAIN Existing})
      /\ todo = [p \in Client |-> <<>>]
  BY DEF InflightInit
<1>2. events \in Seq(EventType) /\ \A i \in DOMAIN events : events[i].kind = "AccountCreated"
  BY <1>1, CreatedEvents
<1>3. CheckedStore
  BY <1>1, <1>2, QuietStart DEF CheckedStore, LogChecked
<1>4. LogExplained /\ FiniteLog
  BY <1>1, FS_EmptySet DEF LogExplained, FiniteLog
<1>5. BooksOK
  <2> SUFFICES ASSUME NEW h \in Holds, NEW asset \in Asset
               PROVE  /\ Balance(h, asset) = 0
                      /\ SumOf([t \in DOMAIN transfers |-> Moves(transfers[t], h, asset)],
                               DOMAIN transfers) = 0
    BY DEF BooksOK
  <2>1. {id \in active : immutable[id].owner = h /\ immutable[id].asset = asset} = {}
    BY <1>1
  <2>2. Balance(h, asset) = 0
    BY <2>1, ValuesType, FS_EmptySet DEF Balance, HasValues
  <2> QED
    BY <1>1, <2>2, SumEmpty
<1>6. HoldsOK
  <2>1. \A h \in Holds : ~Exists(h)
    BY <1>1, HoldIsAccount, HoldsAssumption, InitialAccountsFacts
  <2> QED
    BY <2>1 DEF HoldsOK
<1>7. \A p \in Client : todo[p] = <<>>
  BY <1>1
<1>8. todo = [p \in Client |-> todo[p]]
  BY <1>1
<1>9. \A p \in Client : Shape(todo[p]) /\ TasksOK(todo[p])
  BY <1>7, NoTasks
<1>10. ClaimsOK
  BY <1>7, NoTasks DEF ClaimsOK
<1> QED
  BY <1>3, <1>4, <1>5, <1>6, <1>8, <1>9, <1>10 DEF InflightInv, StorePart

\* ... and after every step.
LEMMA InflightStep ==
    ASSUME InflightInv, [InflightNext]_inflightVars
    PROVE  InflightInv'
<1>1. CASE UNCHANGED inflightVars
  <2>1. UNCHANGED storeVars /\ todo' = todo
    BY <1>1 DEF inflightVars
  <2>2. CASE Client = {}
    <3>1. PartKept
      BY <2>1, ReadKeepsPart DEF InflightInv
    <3> QED
      BY <2>1, <2>2, <3>1 DEF InflightInv, ClaimsOK, PartKept
  <2>3. ASSUME NEW p \in Client PROVE InflightInv'
    <3>1. todo' = [todo EXCEPT ![p] = todo[p]]
      BY <2>1 DEF InflightInv
    <3>2. PICK q : q = todo[p]
      OBVIOUS
    <3>3. Shape(q) /\ TasksOK(q)
      BY <3>2 DEF InflightInv
    <3> QED
      BY <2>1, <3>1, <3>2, <3>3, QuietStep
  <2> QED
    BY <2>2, <2>3
<1>2. ASSUME NEW p \in Client, Request(p) PROVE InflightInv'
  BY <1>2, AuthorizeStep, PerHoldSteps, ConfirmStep DEF Request
<1>3. ASSUME NEW p \in Client, RunTask(p) PROVE InflightInv'
  BY <1>3, CreateStep, AnnounceStep, BuildStep, SubmitStep, SweepStep, DeliverStep, RefundStep,
     CloseIfDrainedStep, CloseHoldStep, ShutStep, StatusStep DEF RunTask
<1>4. ASSUME NEW p \in Client, Interrupt(p) PROVE InflightInv'
  BY <1>4, LastTask DEF Interrupt
<1> QED
  BY <1>1, <1>2, <1>3, <1>4 DEF InflightNext

-----------------------------------------------------------------------------
(* Theorems. *)

\* Along every behaviour of the inflight operations, with any number of clients, trades and
\* interruptions: the store stays checked, every transfer of the log is an authorization or a
\* settlement of one hold, a hold's balance is what the log moved on it, a closed hold is
\* drained for good, and at most one client is about to pay into a hold.
THEOREM InflightInvariant == InflightSpec => []InflightInv
<1>1. InflightInit => InflightInv
  BY InflightStart
<1>2. InflightInv /\ [InflightNext]_inflightVars => InflightInv'
  BY InflightStep
<1> QED
  BY <1>1, <1>2, PTL DEF InflightSpec

\* A hold that a committed authorization parks funds in.
LEMMA ParkedFacts ==
    ASSUME InflightInv, NEW key \in Parked
    PROVE  key = <<key[1], key[2]>> /\ key[1] \in Holds /\ Committed(key[1]) /\ key[2] \in Asset
<1>1. PICK tx \in Inflights : key \in {<<l.hold, l.asset>> : l \in ToSet(legs_of(tx))}
  BY DEF Parked
<1>2. PICK l \in ToSet(legs_of(tx)) : key = <<l.hold, l.asset>>
  BY <1>1
<1>3. l.hold \in Holds /\ Committed(l.hold) /\ l.asset \in Asset
  BY InflightLegs DEF InflightInv, StorePart
<1> QED
  BY <1>2, <1>3

\* Whatever races of authorize, confirm, confirm_all and void run on a hold and wherever they
\* break off, what was authorized on it is confirmed, voided or still held: nothing is settled
\* twice and nothing is lost.
THEOREM HeldIsAccountedForThm == InflightSpec => []HeldIsAccountedFor
<1>1. InflightInv => HeldIsAccountedFor
  <2> SUFFICES ASSUME InflightInv, NEW key \in Parked
               PROVE  AuthorizedOn(key) = Settled("Confirm", key[1], key[2])
                                          + Settled("Void", key[1], key[2])
                                          + compute_balance(key[1], key[2])
    BY DEF HeldIsAccountedFor
  <2>1. key = <<key[1], key[2]>> /\ key[1] \in Holds /\ key[2] \in Asset
    BY ParkedFacts
  <2>2. PICK h, asset : h = key[1] /\ asset = key[2]
    OBVIOUS
  <2>3. AuthorizedOn(<<h, asset>>)
          = Settled("Confirm", h, asset) + Settled("Void", h, asset) + Balance(h, asset)
    BY <2>1, <2>2, BooksAddUp DEF InflightInv, StorePart
  <2>4. compute_balance(h, asset) = Balance(h, asset)
    BY DEF compute_balance
  <2> QED
    BY <2>1, <2>2, <2>3, <2>4
<1> QED
  BY <1>1, InflightInvariant, PTL

\* close_if_drained checks and closes in separate calls, and no settlement or authorization
\* that runs in between can put money into the hold: a closed hold is empty.
THEOREM ClosedHoldIsEmptyThm == InflightSpec => []ClosedHoldIsEmpty
<1>1. InflightInv => ClosedHoldIsEmpty
  <2> SUFFICES ASSUME InflightInv, NEW key \in Parked, is_closed(head(key[1]))
               PROVE  compute_balance(key[1], key[2]) = 0
    BY DEF ClosedHoldIsEmpty
  <2>1. key[1] \in Holds /\ Committed(key[1])
    BY ParkedFacts
  <2>2. PICK h, asset : h = key[1] /\ asset = key[2]
    OBVIOUS
  <2>3. Exists(h)
    BY <2>1, <2>2, CommittedExists DEF InflightInv, StorePart
  <2>4. Drained(h)
    BY <2>1, <2>2, <2>3 DEF InflightInv, StorePart, HoldsOK
  <2>5. {id \in active : immutable[id].owner = h /\ immutable[id].asset = asset} = {}
    BY <2>4 DEF Drained, PostingsOf
  <2>6. Balance(h, asset) = 0
    BY <2>5, ValuesType, FS_EmptySet DEF Balance, HasValues
  <2> QED
    BY <2>2, <2>6 DEF compute_balance
<1> QED
  BY <1>1, InflightInvariant, PTL
=============================================================================
