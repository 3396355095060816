--------------------------- MODULE SqlCommitProofs ---------------------------
(***************************************************************************)
(* The statements of the SQL store, for any number of sessions, accounts   *)
(* and requests: what a transaction checked still holds when it commits,   *)
(* and it takes effect as one step of the store, or is a replay.           *)
(*                                                                         *)
(* The invariant says what each open transaction has established so far.   *)
(* It survives the other sessions' commits for a different reason on each  *)
(* database: on Postgres they touch only accounts they hold the lock of;   *)
(* on Sqlite they make the transaction's snapshot outdated.                *)
(***************************************************************************)
EXTENDS SqlCommit, CommitStoreProofs

-----------------------------------------------------------------------------
(* The inductive invariant. *)

\* The committed tables: postings and transfers are keyed by content, and each
\* transfer is announced.
TablesOK ==
    /\ IsFiniteSet(DOMAIN immutable)
    /\ immutable = [id \in DOMAIN immutable |-> immutable[id]]
    /\ transfers = [t \in DOMAIN transfers |-> transfers[t]]
    /\ PostingsFromLog
    /\ \A t \in DOMAIN transfers : /\ t = envelope_id(transfers[t])
                                   /\ \E i \in DOMAIN events : events[i] = TransferCommitted(t)

\* A session's call fits its next statement, and its arguments are still ones a
\* caller could have computed; a head that was found still exists.
CallOK(s) ==
    /\ todo[s] \in Seq(Account)
    /\ pc[s] \in {"receipt", "claim", "floor", "record"} => work[s] \in CommitCalls
    /\ pc[s] = "receipt" => work[s].req.involved \subseteq ToSet(todo[s])
    /\ pc[s] = "head" => work[s] \in CommitCalls \cup ChangeCalls("transition")
                                       \cup ChangeCalls("append")
    /\ pc[s] = "head" /\ work[s].op # "commit" => todo[s] = <<work[s].account>>
    /\ pc[s] = "move" => work[s] \in ChangeCalls("transition") \cup ChangeCalls("append")
    /\ pc[s] \in {"create", "first"} => work[s] \in CreateCalls
    /\ seen[s] # 0 => pc[s] = "head" /\ todo[s] # <<>> /\ Exists(Head(todo[s]))

\* The session has read the account's head, found it usable, and still holds it.
Held(s, a) ==
    /\ Exists(a) /\ Usable(a)
    /\ dialect = "Postgres" => locked[a] = s

\* What a session whose snapshot is current has established on its way to COMMIT.
ChecksOK(s) ==
    /\ pc[s] \in {"head", "claim", "floor", "record"} /\ work[s].op = "commit" =>
          /\ \A a \in work[s].req.involved \ ToSet(todo[s]) : Held(s, a)
          /\ dialect = "Sqlite" => ~AlreadyCommitted(work[s].req)
    /\ pc[s] \in {"claim", "floor", "record"} => todo[s] = <<>>
    /\ pc[s] \in {"floor", "record"} => ConsumedActive(work[s].req)
    /\ pc[s] = "record" => FloorKeptBy(work[s].req)
    /\ pc[s] = "move" /\ dialect = "Postgres" => locked[work[s].account] = s

\* Each session has its local variables.
LocalsOK == /\ DOMAIN work = Session /\ DOMAIN todo = Session
            /\ DOMAIN seen = Session /\ DOMAIN reply = Session

SqlInv ==
    /\ SqlTypeOK
    /\ LocalsOK
    /\ TablesOK
    /\ dialect = "Postgres" => stale = {}
    /\ \A s \in Session : CallOK(s)
    /\ \A s \in Session \ stale : ChecksOK(s)

-----------------------------------------------------------------------------
(* What stays true while the tables grow. *)

\* Versions and postings are only added.
TablesGrow ==
    /\ \A a \in Account : \A v \in DOMAIN accounts[a] :
          v \in DOMAIN accounts'[a] /\ accounts'[a][v] = accounts[a][v]
    /\ \A a \in Account : Exists(a) => Exists(a)'
    /\ \A id \in DOMAIN immutable : id \in DOMAIN immutable' /\ immutable'[id] = immutable[id]

\* The request of an envelope whose inputs are stored stays the same request.
LEMMA RequestStays ==
    ASSUME TablesGrow, NEW e, ToSet(e.consumes) \subseteq DOMAIN immutable
    PROVE  CommitRequest(e)' = CommitRequest(e)
<1>1. {immutable'[id].owner : id \in ToSet(e.consumes)}
        = {immutable[id].owner : id \in ToSet(e.consumes)}
  BY DEF TablesGrow
<1> QED
  BY <1>1 DEF CommitRequest

\* A call that could be made can still be made.
LEMMA CallsStay ==
    ASSUME TablesGrow, NEW op
    PROVE  CommitCalls \subseteq CommitCalls' /\ ChangeCalls(op) \subseteq ChangeCalls(op)'
<1>1. ASSUME NEW w \in CommitCalls PROVE w \in CommitCalls'
  <2>1. PICK e \in Envelopes : /\ ToSet(e.consumes) \subseteq DOMAIN immutable
                               /\ w = [op |-> "commit", req |-> CommitRequest(e)]
    BY DEF CommitCalls
  <2>2. ToSet(e.consumes) \subseteq DOMAIN immutable'
    BY <2>1 DEF TablesGrow
  <2>3. CommitRequest(e)' = CommitRequest(e)
    BY <2>1, RequestStays
  <2> QED
    BY <2>1, <2>2, <2>3 DEF CommitCalls
<1>2. ASSUME NEW w \in ChangeCalls(op) PROVE w \in ChangeCalls(op)'
  <2>1. PICK t \in Transition :
          \E v \in DOMAIN accounts[t[1]] :
             /\ v < MaxVersion /\ (op = "transition" => ~is_closed(accounts[t[1]][v]))
             /\ w = [op |-> op, account |-> t[1], kind |-> t[2],
                     next |-> NextVersion(t[2], accounts[t[1]][v])]
    BY DEF ChangeCalls
  <2>2. PICK v \in DOMAIN accounts[t[1]] :
             /\ v < MaxVersion /\ (op = "transition" => ~is_closed(accounts[t[1]][v]))
             /\ w = [op |-> op, account |-> t[1], kind |-> t[2],
                     next |-> NextVersion(t[2], accounts[t[1]][v])]
    BY <2>1
  <2>3. t[1] \in Account
    BY AccountAssumption
  <2>4. v \in DOMAIN accounts'[t[1]] /\ accounts'[t[1]][v] = accounts[t[1]][v]
    BY <2>2, <2>3 DEF TablesGrow
  <2> QED
    BY <2>2, <2>4 DEF ChangeCalls
<1> QED
  BY <1>1, <1>2

\* The tables may have stayed as they are.
LEMMA SameTablesGrow ==
    ASSUME UNCHANGED storeVars
    PROVE  TablesGrow
  BY DEF storeVars, TablesGrow, Exists

\* A commit call is the request of an envelope whose inputs are stored.
LEMMA CommitCallFacts ==
    ASSUME NEW w \in CommitCalls
    PROVE  \E e \in Envelopes : /\ ToSet(e.consumes) \subseteq DOMAIN immutable
                                /\ w.op = "commit" /\ w.req = CommitRequest(e)
  BY DEF CommitCalls

\* A change call asks for the version after one the account has.
LEMMA ChangeCallFacts ==
    ASSUME NEW op, NEW w \in ChangeCalls(op)
    PROVE  /\ w.op = op /\ w.account \in Account /\ w.kind \in LifecycleKind
           /\ \E v \in DOMAIN accounts[w.account] :
                 w.next = NextVersion(w.kind, accounts[w.account][v])
<1>1. PICK t \in Transition :
        \E v \in DOMAIN accounts[t[1]] :
           w = [op |-> op, account |-> t[1], kind |-> t[2],
                next |-> NextVersion(t[2], accounts[t[1]][v])]
  BY DEF ChangeCalls
<1>2. t[1] \in Account /\ t[2] \in LifecycleKind
  BY AccountAssumption
<1> QED
  BY <1>1, <1>2

\* A create call opens a listed account.
LEMMA CreateCallFacts ==
    ASSUME NEW w \in CreateCalls
    PROVE  /\ w.op = "create" /\ w.account \in DOMAIN Creatable
           /\ w.next = NewAccount(Creatable[w.account])
           /\ w.account \in Account /\ w.next.flags = Creatable[w.account]
           /\ w.next.flags \in SUBSET AccountFlags
  BY AccountAssumption DEF CreateCalls, NewAccount

\* The image of a finite set is finite.
LEMMA FiniteImage ==
    ASSUME NEW S, IsFiniteSet(S), NEW f, DOMAIN f = S
    PROVE  IsFiniteSet({f[x] : x \in S})
<1> DEFINE T == {f[x] : x \in S}
           g == [x \in S |-> f[x]]
<1>1. g \in Surjection(S, T)
  BY DEF Surjection
<1>2. \E h : h \in Surjection(S, T)
  BY <1>1
<1> HIDE DEF T
<1> QED
  BY <1>2, FS_Surjection DEF T

\* What a request involves are accounts, finitely many, and the owners of all it
\* consumes and creates.
LEMMA RequestFacts ==
    ASSUME StoreTypeOK, IsFiniteSet(DOMAIN immutable), NEW e \in Envelopes,
           ToSet(e.consumes) \subseteq DOMAIN immutable
    PROVE  /\ CommitRequest(e).involved \subseteq Account
           /\ IsFiniteSet(CommitRequest(e).involved)
           /\ \A id \in ToSet(e.consumes) : immutable[id].owner \in CommitRequest(e).involved
           /\ \A i \in DOMAIN e.creates : /\ e.creates[i].owner \in CommitRequest(e).involved
                                          /\ e.creates[i] \in Posting
<1> DEFINE C == ToSet(e.consumes)
           A == {immutable[id].owner : id \in C}
           B == {np.owner : np \in ToSet(e.creates)}
<1>1. CommitRequest(e).involved = B \cup A
  BY DEF CommitRequest, referenced_accounts
<1>2. e.creates \in Seq(Posting)
  BY EnvelopesAssumption
<1>3. /\ IsFiniteSet(DOMAIN e.creates)
      /\ \A i \in DOMAIN e.creates : e.creates[i] \in Posting
  BY <1>2, NewIdsFacts
<1>4. \A p \in Posting : p.owner \in Account
  BY DEF Posting
<1>5. A \subseteq Account
  BY <1>4 DEF StoreTypeOK
<1>6. B = {e.creates[i].owner : i \in DOMAIN e.creates}
  BY DEF ToSet
<1>7. B \subseteq Account
  BY <1>3, <1>4, <1>6
<1>8. IsFiniteSet(C)
  BY FS_Subset
<1>9. IsFiniteSet(A)
  <2> DEFINE f == [id \in C |-> immutable[id].owner]
  <2>1. A = {f[id] : id \in C} /\ DOMAIN f = C
    OBVIOUS
  <2> HIDE DEF f, C, A
  <2> QED
    BY <1>8, <2>1, FiniteImage
<1>10. IsFiniteSet(B)
  <2> DEFINE D == DOMAIN e.creates
             f == [i \in D |-> e.creates[i].owner]
  <2>1. B = {f[i] : i \in D} /\ DOMAIN f = D
    BY <1>6
  <2>2. IsFiniteSet(D)
    BY <1>3
  <2> HIDE DEF f, D, B
  <2> QED
    BY <2>1, <2>2, FiniteImage
<1>11. IsFiniteSet(B \cup A)
  BY <1>9, <1>10, FS_Union
<1> QED
  BY <1>1, <1>3, <1>5, <1>6, <1>7, <1>11

\* The session took no step: its variables and its locks are as they were.
Bystander(s) ==
    /\ pc'[s] = pc[s] /\ work'[s] = work[s] /\ todo'[s] = todo[s] /\ seen'[s] = seen[s]
    /\ \A a \in Account : locked[a] = s => locked'[a] = s

\* A bystander's call stays in order while the tables grow.
LEMMA BystandersCall ==
    ASSUME NEW s \in Session, TablesGrow, Bystander(s), CallOK(s)
    PROVE  CallOK(s)'
<1>1. /\ CommitCalls \subseteq CommitCalls'
      /\ ChangeCalls("transition") \subseteq ChangeCalls("transition")'
      /\ ChangeCalls("append") \subseteq ChangeCalls("append")'
  BY CallsStay
<1>2. CreateCalls' = CreateCalls
  BY DEF CreateCalls
<1>3. pc'[s] = pc[s] /\ work'[s] = work[s] /\ todo'[s] = todo[s] /\ seen'[s] = seen[s]
  BY DEF Bystander
<1>4. seen[s] # 0 => pc[s] = "head" /\ todo[s] # <<>> /\ Exists(Head(todo[s]))'
  <2> SUFFICES ASSUME seen[s] # 0
               PROVE  pc[s] = "head" /\ todo[s] # <<>> /\ Exists(Head(todo[s]))'
    OBVIOUS
  <2>1. pc[s] = "head" /\ todo[s] # <<>> /\ Exists(Head(todo[s])) /\ todo[s] \in Seq(Account)
    BY DEF CallOK
  <2>2. Head(todo[s]) \in Account
    BY <2>1
  <2>3. \A a \in Account : Exists(a) => accounts'[a] # <<>>
    BY DEF TablesGrow, Exists
  <2> QED
    BY <1>3, <2>1, <2>2, <2>3 DEF Exists
<1> QED
  BY <1>1, <1>2, <1>3, <1>4 DEF CallOK

\* The lock order lists exactly the involved accounts.
LEMMA LockOrderFacts ==
    ASSUME NEW req, req.involved \subseteq Account, IsFiniteSet(req.involved)
    PROVE  LockOrder(req) \in Seq(Account) /\ ToSet(LockOrder(req)) = req.involved
<1> DEFINE S == req.involved
           before(a, b) == a[1] < b[1] \/ (a[1] = b[1] /\ a[2] < b[2])
           R == {p \in S \X S : before(p[1], p[2])}
           all == [i \in 1..Cardinality(S) |->
                      CHOOSE x \in S : Cardinality({y \in S : before(y, x)}) = i - 1]
<1>1. LockOrder(req) = all
  BY DEF LockOrder, SortedSeq
<1>2. \A x \in S : x = <<x[1], x[2]>> /\ x[1] \in Int /\ x[2] \in Int
  BY AccountAssumption
<1>3. IsFiniteSet(S) /\ S \subseteq Account
  OBVIOUS
<1> HIDE DEF S
<1>4. \A x, y \in S : <<x, y>> \in R <=> before(x, y)
  <2> HIDE DEF before
  <2> QED
    OBVIOUS
<1>5. Orders(R, S)
  <2>1. \A x, y \in S : x # y => x[1] # y[1] \/ x[2] # y[2]
    BY <1>2
  <2> HIDE DEF R
  <2> QED
    BY <1>2, <1>4, <2>1 DEF Orders
<1> HIDE DEF before
<1>6. \A x \in S : {y \in S : before(y, x)} = Below(R, S, x)
  BY <1>4 DEF Below
<1>7. \A i \in 1..Cardinality(S) : \E x \in S : Cardinality({y \in S : before(y, x)}) = i - 1
  <2> HIDE DEF R
  <2>1. \A i \in 1..Cardinality(S) : \E x \in S : Cardinality(Below(R, S, x)) = i - 1
    BY <1>3, <1>5, PlacesTaken
  <2> QED
    BY <1>6, <2>1
<1> HIDE DEF R
<1>8. /\ all \in [1..Cardinality(S) -> S]
      /\ \A i \in 1..Cardinality(S) : Cardinality(Below(R, S, all[i])) = i - 1
  BY <1>6, <1>7
<1> HIDE DEF all
<1>9. all \in Seq(S) /\ ToSet(all) = S
  BY <1>3, <1>5, <1>8, SortedFacts
<1>10. all \in Seq(Account)
  BY <1>3, <1>9, SeqMonotonic
<1> QED
  BY <1>1, <1>9, <1>10 DEF S

\* The guards read the same while the tables stay as they are.
LEMMA SameReads ==
    ASSUME UNCHANGED storeVars, NEW req
    PROVE  /\ FloorKeptBy(req)' = FloorKeptBy(req)
           /\ ConsumedActive(req)' = ConsumedActive(req)
           /\ AlreadyCommitted(req)' = AlreadyCommitted(req)
<1>1. /\ accounts' = accounts /\ immutable' = immutable /\ active' = active
      /\ transfers' = transfers
  BY DEF storeVars
<1>2. ASSUME NEW a, NEW asset PROVE live_balance(req, a, asset)' = live_balance(req, a, asset)
  BY <1>1, Zenon DEF live_balance, WithRows
<1>3. ASSUME NEW a PROVE TouchedAssets(req, a)' = TouchedAssets(req, a) /\ head(a)' = head(a)
  BY <1>1, Zenon DEF TouchedAssets, PostingsOf, head
<1>4. FloorKeptBy(req)' = FloorKeptBy(req)
  BY <1>2, <1>3 DEF FloorKeptBy, forbids_overdraft
<1> QED
  BY <1>1, <1>4 DEF ConsumedActive, AlreadyCommitted

\* While the tables stay as they are, a bystander loses nothing it has established.
LEMMA BystandersChecksQuiet ==
    ASSUME NEW s \in Session, UNCHANGED storeVars, dialect' = dialect, Bystander(s),
           StoreTypeOK, IsFiniteSet(DOMAIN immutable), CallOK(s), ChecksOK(s)
    PROVE  ChecksOK(s)'
<1>1. /\ accounts' = accounts /\ immutable' = immutable /\ active' = active
      /\ transfers' = transfers
  BY DEF storeVars
<1>2. pc'[s] = pc[s] /\ work'[s] = work[s] /\ todo'[s] = todo[s] /\ seen'[s] = seen[s]
  BY DEF Bystander
<1>3. ASSUME NEW a \in Account, Held(s, a) PROVE Held(s, a)'
  BY <1>1, <1>3 DEF Held, Exists, Usable, head, Bystander
<1>4. ASSUME pc[s] \in {"head", "claim", "floor", "record"}, work[s].op = "commit"
      PROVE  /\ \A a \in work[s].req.involved \ ToSet(todo[s]) : Held(s, a)'
             /\ dialect = "Sqlite" => ~AlreadyCommitted(work[s].req)'
  <2>1. work[s] \in CommitCalls
    BY <1>4, ChangeCallFacts DEF CallOK
  <2>2. work[s].req.involved \subseteq Account
    BY <2>1, CommitCallFacts, RequestFacts
  <2>3. \A a \in work[s].req.involved \ ToSet(todo[s]) : Held(s, a)
    BY <1>4 DEF ChecksOK
  <2>4. dialect = "Sqlite" => ~AlreadyCommitted(work[s].req)
    BY <1>4 DEF ChecksOK
  <2> QED
    BY <1>1, <1>2, <1>3, <2>2, <2>3, <2>4 DEF AlreadyCommitted
<1>5. ConsumedActive(work[s].req) => ConsumedActive(work[s].req)'
  BY <1>1, <1>2 DEF ConsumedActive
<1>6. FloorKeptBy(work[s].req) => FloorKeptBy(work[s].req)'
  <2>1. ASSUME NEW req PROVE FloorKeptBy(req)' = FloorKeptBy(req)
    BY SameReads
  <2> QED
    BY <1>2, <2>1
<1>7. pc[s] = "move" /\ dialect = "Postgres" => locked'[work[s].account] = s
  BY ChangeCallFacts DEF CallOK, ChecksOK, Bystander
<1> QED
  BY <1>2, <1>4, <1>5, <1>6, <1>7 DEF ChecksOK

-----------------------------------------------------------------------------
(* Postgres: a commit touches only accounts its session has locked. *)

\* The step changes the heads and the live postings of accounts in B alone.
TouchesOnly(B) ==
    /\ \A a \in Account \ B : accounts'[a] = accounts[a]
    /\ \A id \in DOMAIN immutable :
          immutable[id].owner \notin B => (id \in active' <=> id \in active)
    /\ \A id \in DOMAIN immutable' \ DOMAIN immutable : immutable'[id].owner \in B

\* A posting id names its content: two envelopes that would create the same id
\* create the same posting under it.
LEMMA IdsNameContent ==
    ASSUME TablesOK, NEW e, NEW id \in NewIds(e), id \in DOMAIN immutable
    PROVE  immutable[id] = postings_to_create(e)[id] /\ id[2] \in DOMAIN e.creates
<1>1. PICK i \in DOMAIN e.creates : id = <<envelope_id(e), i>>
  BY DEF NewIds
<1>2. /\ id[1] \in DOMAIN transfers /\ immutable[id] = transfers[id[1]].creates[id[2]]
      /\ id[1] = envelope_id(transfers[id[1]])
  BY DEF TablesOK, PostingsFromLog
<1>3. envelope_id(transfers[id[1]]) = envelope_id(e)
  BY <1>1, <1>2
<1>4. transfers[id[1]].creates = e.creates
  BY <1>3 DEF envelope_id
<1>5. postings_to_create(e)[id] = e.creates[i]
  BY <1>1, CreatedRows
<1> QED
  BY <1>1, <1>2, <1>4, <1>5

\* What a transaction reads of an account that nobody else touched is what it
\* would read now.
LEMMA LiveBalanceStays ==
    ASSUME NEW e \in Envelopes, NEW req, req = CommitRequest(e), NEW B, NEW a, a \notin B,
           NEW asset, StoreTypeOK, StoreTypeOK', TablesOK, TablesOK', TablesGrow, TouchesOnly(B)
    PROVE  live_balance(req, a, asset)' = live_balance(req, a, asset)
<1> DEFINE C == ToSet(req.consume)
           N == DOMAIN req.create
           rows == WithRows(immutable, req.create)
           rowsN == WithRows(immutable', req.create)
           S == {id \in (active \ C) \cup N : rows[id].owner = a /\ rows[id].asset = asset}
           SN == {id \in (active' \ C) \cup N : rowsN[id].owner = a /\ rowsN[id].asset = asset}
<1>1. /\ live_balance(req, a, asset) = SumValues(rows, S)
      /\ live_balance(req, a, asset)' = SumValues(rowsN, SN)
  BY DEF live_balance
<1>2. N = NewIds(e) /\ req.create = postings_to_create(e) /\ IsFiniteSet(N)
  BY CreatedRows, NewIdsFacts, EnvelopesAssumption
<1>3. active \subseteq DOMAIN immutable /\ active' \subseteq DOMAIN immutable'
  BY DEF StoreTypeOK
<1>4. \A id \in DOMAIN immutable : rows[id] = immutable[id] /\ rowsN[id] = immutable[id]
  BY DEF TablesGrow, WithRows
<1>5. \A id \in DOMAIN immutable' \ DOMAIN immutable : rowsN[id] = immutable'[id]
  BY DEF WithRows
<1>6. ASSUME NEW id \in N, id \notin DOMAIN immutable PROVE rows[id] = rowsN[id]
  <2>1. rows[id] = req.create[id]
    BY <1>6 DEF WithRows
  <2>2. CASE id \notin DOMAIN immutable'
    BY <2>1, <2>2 DEF WithRows
  <2>3. CASE id \in DOMAIN immutable'
    <3>1. immutable'[id] = postings_to_create(e)[id]
      <4>1. NewIds(e)' = NewIds(e) /\ postings_to_create(e)' = postings_to_create(e)
        BY DEF NewIds, postings_to_create
      <4>2. (id \in NewIds(e) /\ id \in DOMAIN immutable => immutable[id] = postings_to_create(e)[id])'
        <5>1. TablesOK'
          OBVIOUS
        <5> QED
          BY <5>1, IdsNameContent, PTL
      <4> QED
        BY <1>2, <1>6, <2>3, <4>1, <4>2
    <3> QED
      BY <1>2, <2>1, <2>3, <3>1 DEF WithRows
  <2> QED
    BY <2>2, <2>3
<1>7. ASSUME NEW id \in (active' \ C) \cup N, rowsN[id].owner = a PROVE id \in (active \ C) \cup N
  <2>1. CASE id \in N
    BY <2>1
  <2>2. CASE id \in active' \ C /\ id \in DOMAIN immutable
    BY <1>4, <1>7, <2>2 DEF TouchesOnly
  <2>3. CASE id \in active' \ C /\ id \notin DOMAIN immutable
    BY <1>3, <1>5, <1>7, <2>3 DEF TouchesOnly
  <2> QED
    BY <2>1, <2>2, <2>3
<1>8. ASSUME NEW id \in (active \ C) \cup N, rows[id].owner = a
      PROVE  id \in (active' \ C) \cup N
  <2>1. CASE id \in N
    BY <2>1
  <2>2. CASE id \in active \ C
    BY <1>3, <1>4, <1>8, <2>2 DEF TouchesOnly
  <2> QED
    BY <2>1, <2>2
<1>9. \A id \in (active \ C) \cup N : rows[id] = rowsN[id]
  BY <1>3, <1>4, <1>6
<1>10. SN = S
  <2> HIDE DEF rows, rowsN, C, N
  <2> QED
    BY <1>7, <1>8, <1>9
<1>11. IsFiniteSet(S)
  <2>1. IsFiniteSet(DOMAIN immutable \cup N)
    BY <1>2, FS_Union DEF TablesOK
  <2>2. S \in SUBSET (DOMAIN immutable \cup N)
    BY <1>3
  <2> HIDE DEF S
  <2> QED
    BY <2>1, <2>2, FS_Subset
<1>12. \A id \in S : rows[id].value = rowsN[id].value
  BY <1>9
<1> HIDE DEF S, SN, rows, rowsN
<1>13. SumValues(rows, S) = SumValues(rowsN, S)
  BY <1>11, <1>12, ValuesSame
<1> QED
  BY <1>1, <1>10, <1>13

\* Another session's commit takes nothing from a session on Postgres whose
\* accounts it does not touch.
LEMMA BystandersChecksBusy ==
    ASSUME NEW s \in Session, NEW B, \A a \in Account : Held(s, a) => a \notin B,
           dialect = "Postgres", dialect' = dialect, Bystander(s), CallOK(s), ChecksOK(s),
           StoreTypeOK, StoreTypeOK', TablesOK, TablesOK', TablesGrow, TouchesOnly(B)
    PROVE  ChecksOK(s)'
<1>1. pc'[s] = pc[s] /\ work'[s] = work[s] /\ todo'[s] = todo[s] /\ seen'[s] = seen[s]
  BY DEF Bystander
<1>2. ASSUME NEW a \in Account, Held(s, a)
      PROVE  Held(s, a)' /\ a \notin B /\ accounts'[a] = accounts[a]
  <2>1. a \notin B
    BY <1>2
  <2>2. accounts'[a] = accounts[a]
    BY <2>1 DEF TouchesOnly
  <2>3. locked'[a] = s
    BY <1>2 DEF Held, Bystander
  <2> QED
    BY <1>2, <2>1, <2>2, <2>3 DEF Held, Exists, Usable, head
<1>3. dialect # "Sqlite" /\ dialect' # "Sqlite"
  OBVIOUS
<1>4. ASSUME pc[s] \in {"head", "claim", "floor", "record"}, work[s].op = "commit"
      PROVE  \E e \in Envelopes :
                /\ ToSet(e.consumes) \subseteq DOMAIN immutable
                /\ work[s].req = CommitRequest(e)
                /\ work[s].req.involved \subseteq Account
                /\ \A id \in ToSet(e.consumes) : immutable[id].owner \in work[s].req.involved
  <2>1. work[s] \in CommitCalls
    BY <1>4, ChangeCallFacts DEF CallOK
  <2>2. PICK e \in Envelopes : /\ ToSet(e.consumes) \subseteq DOMAIN immutable
                               /\ work[s].req = CommitRequest(e)
    BY <2>1, CommitCallFacts
  <2>3. /\ CommitRequest(e).involved \subseteq Account
        /\ \A id \in ToSet(e.consumes) : immutable[id].owner \in CommitRequest(e).involved
    BY <2>2, RequestFacts DEF TablesOK
  <2> QED
    BY <2>2, <2>3
<1>5. ASSUME pc[s] \in {"head", "claim", "floor", "record"}, work[s].op = "commit"
      PROVE  \A a \in work[s].req.involved \ ToSet(todo[s]) : Held(s, a)'
  BY <1>2, <1>4, <1>5 DEF ChecksOK
<1>6. ASSUME pc[s] \in {"floor", "record"}
      PROVE  /\ ConsumedActive(work[s].req)'
             /\ pc[s] = "record" => FloorKeptBy(work[s].req)'
  <2>0. work[s].op = "commit" /\ todo[s] = <<>> /\ ConsumedActive(work[s].req)
    BY <1>6, CommitCallFacts DEF CallOK, ChecksOK
  <2>1. PICK e \in Envelopes :
                /\ ToSet(e.consumes) \subseteq DOMAIN immutable
                /\ work[s].req = CommitRequest(e)
                /\ work[s].req.involved \subseteq Account
                /\ \A id \in ToSet(e.consumes) : immutable[id].owner \in work[s].req.involved
    BY <1>4, <1>6, <2>0
  <2>2. ToSet(todo[s]) = {}
    BY <2>0 DEF ToSet
  <2>3. \A a \in work[s].req.involved : Held(s, a) /\ a \notin B /\ accounts'[a] = accounts[a]
    BY <1>2, <1>6, <2>0, <2>1, <2>2 DEF ChecksOK
  <2>4. ToSet(e.consumes) \subseteq active'
    BY <2>0, <2>1, <2>3, CreatedRows DEF ConsumedActive, TouchesOnly
  <2>5. ASSUME NEW req, req = CommitRequest(e), FloorKeptBy(req) PROVE FloorKeptBy(req)'
    <3>1. req.involved = work[s].req.involved /\ req.consume = e.consumes
      BY <2>1, <2>5, CreatedRows
    <3>2. ASSUME NEW a \in req.involved, NEW asset
          PROVE  live_balance(req, a, asset)' = live_balance(req, a, asset)
      BY <2>3, <2>5, <3>1, LiveBalanceStays
    <3>3. ASSUME NEW a \in req.involved PROVE TouchedAssets(req, a)' = TouchedAssets(req, a)
      <4>1. \A id \in ToSet(req.consume) : immutable'[id] = immutable[id]
        BY <2>1, <3>1 DEF TablesGrow
      <4> QED
        BY <4>1 DEF TouchedAssets, PostingsOf
    <3>4. ASSUME NEW a \in req.involved PROVE head(a)' = head(a)
      BY <2>3, <3>1 DEF head
    <3> QED
      BY <2>5, <3>2, <3>3, <3>4 DEF FloorKeptBy, forbids_overdraft
  <2>6. pc[s] = "record" => FloorKeptBy(work[s].req)
    BY DEF ChecksOK
  <2>7. ASSUME NEW req, req = CommitRequest(e) PROVE ConsumedActive(req)'
    BY <2>4, <2>7, CreatedRows DEF ConsumedActive
  <2> QED
    BY <1>1, <2>1, <2>5, <2>6, <2>7
<1>7. pc[s] = "move" /\ dialect = "Postgres" => locked'[work[s].account] = s
  BY ChangeCallFacts DEF CallOK, ChecksOK, Bystander
<1>8. pc[s] \in {"claim", "floor", "record"} => todo'[s] = <<>>
  BY <1>1 DEF ChecksOK
<1> QED
  BY <1>1, <1>3, <1>5, <1>6, <1>7, <1>8 DEF ChecksOK

-----------------------------------------------------------------------------
(* Steps that leave the tables alone, and steps that commit. *)

\* The end of a transaction: the session is idle and holds nothing, the others are
\* where they were.
LEMMA EndFacts ==
    ASSUME NEW u \in Session, NEW answer, End(u, answer), SqlTypeOK, LocalsOK
    PROVE  /\ pc' \in [Session -> SqlPc] /\ LocalsOK'
           /\ pc'[u] = "idle" /\ todo'[u] = <<>> /\ seen'[u] = 0
           /\ locked' \in [Account -> Session \cup {NoSession}]
           /\ \A a \in Account : locked'[a] # u /\ locked'[a] \in {locked[a], NoSession}
           /\ dialect' = dialect /\ requests' = requests
           /\ \A s \in Session \ {u} : Bystander(s) /\ pc'[s] = pc[s]
<1>1. u # NoSession
  BY SessionAssumption
<1>2. /\ pc \in [Session -> SqlPc] /\ locked \in [Account -> Session \cup {NoSession}]
  BY DEF SqlTypeOK
<1>3. locked' = [a \in Account |-> IF locked[a] = u THEN NoSession ELSE locked[a]]
  BY DEF End
<1>4. pc' = [pc EXCEPT ![u] = "idle"] /\ "idle" \in SqlPc
  BY DEF End, SqlPc
<1>5. LocalsOK' /\ todo'[u] = <<>> /\ seen'[u] = 0
  BY DEF End, LocalsOK
<1>6. \A s \in Session \ {u} : Bystander(s)
  BY <1>2, <1>3, <1>4 DEF End, LocalsOK, Bystander
<1> QED
  BY <1>1, <1>2, <1>3, <1>4, <1>5, <1>6 DEF End

\* An idle session has established nothing and claims nothing.
LEMMA IdleOK ==
    ASSUME NEW s, pc[s] = "idle", todo[s] = <<>>, seen[s] = 0
    PROVE  CallOK(s) /\ ChecksOK(s)
  BY DEF CallOK, ChecksOK

\* The store's types and tables while it stays as it is.
LEMMA SameTablesOK ==
    ASSUME UNCHANGED storeVars
    PROVE  (StoreTypeOK => StoreTypeOK') /\ (TablesOK => TablesOK')
  BY DEF storeVars, StoreTypeOK, TablesOK, PostingsFromLog

\* A step that leaves the tables alone keeps the invariant if the session that
\* takes it keeps its own part.
LEMMA QuietKeeps ==
    ASSUME SqlInv, NEW u \in Session, UNCHANGED storeVars, dialect' = dialect,
           stale' \subseteq stale, \A s \in Session \ {u} : Bystander(s),
           SqlTypeOK', LocalsOK', CallOK(u)', u \notin stale' => ChecksOK(u)',
           \A s \in stale : s # u => s \in stale'
    PROVE  SqlInv'
<1>1. TablesOK'
  BY SameTablesOK DEF SqlInv
<1>2. dialect' = "Postgres" => stale' = {}
  BY DEF SqlInv
<1>3. \A s \in Session \ {u} : CallOK(s)'
  BY BystandersCall, SameTablesGrow DEF SqlInv
<1>4. ASSUME NEW s \in Session \ stale', s # u PROVE ChecksOK(s)'
  <2>1. s \in Session \ stale
    BY <1>4
  <2> QED
    BY <1>4, <2>1, BystandersChecksQuiet DEF SqlInv, SqlTypeOK, TablesOK
<1> QED
  BY <1>1, <1>2, <1>3, <1>4 DEF SqlInv

\* ROLLBACK keeps the invariant, whenever it comes.
LEMMA RollbackKeeps ==
    ASSUME SqlInv, NEW u \in Session, NEW answer, Rollback(u, answer)
    PROVE  SqlInv'
<1>0. SqlTypeOK /\ LocalsOK /\ End(u, answer)
  BY DEF SqlInv, Rollback
<1>1. /\ pc' \in [Session -> SqlPc] /\ LocalsOK'
      /\ pc'[u] = "idle" /\ todo'[u] = <<>> /\ seen'[u] = 0
      /\ locked' \in [Account -> Session \cup {NoSession}]
      /\ \A a \in Account : locked'[a] # u /\ locked'[a] \in {locked[a], NoSession}
      /\ dialect' = dialect /\ requests' = requests
      /\ \A s \in Session \ {u} : Bystander(s) /\ pc'[s] = pc[s]
  BY <1>0, EndFacts
<1>2. /\ UNCHANGED storeVars /\ stale' = stale \ {u}
      /\ writer' = IF writer = u THEN NoSession ELSE writer
  BY DEF Rollback
<1>3. CallOK(u)' /\ ChecksOK(u)'
  BY <1>1 DEF CallOK, ChecksOK
<1>4. SqlTypeOK'
  <2>1. StoreTypeOK'
    BY <1>0, <1>2, SameTablesOK DEF SqlTypeOK
  <2>2. \A s \in Session : pc'[s] = "idle" =>
            s \notin stale' /\ s # writer' /\ \A a \in Account : locked'[a] # s
    <3>1. ASSUME NEW s \in Session, s # u, pc'[s] = "idle"
          PROVE  s \notin stale' /\ s # writer' /\ \A a \in Account : locked'[a] # s
      BY <1>0, <1>1, <1>2, <3>1, SessionAssumption DEF SqlTypeOK
    <3>2. u \notin stale' /\ u # writer' /\ \A a \in Account : locked'[a] # u
      BY <1>1, <1>2, SessionAssumption
    <3> QED
      BY <3>1, <3>2
  <2> QED
    BY <1>0, <1>1, <1>2, <2>1, <2>2 DEF SqlTypeOK
<1> QED
  BY <1>1, <1>2, <1>3, <1>4, QuietKeeps

\* COMMIT keeps the invariant if what it writes belongs to accounts that, on
\* Postgres, no other session holds.
LEMMA CommitKeeps ==
    ASSUME SqlInv, NEW u \in Session, NEW answer, Commit(u, answer), NEW B,
           StoreTypeOK', TablesOK', TablesGrow, TouchesOnly(B),
           dialect = "Postgres" =>
               \A s \in Session \ {u} : \A a \in Account : Held(s, a) => a \notin B
    PROVE  SqlInv'
<1>0. PICK ans : SqlTypeOK /\ LocalsOK /\ End(u, ans)
  BY DEF SqlInv, Commit
<1>1. /\ pc' \in [Session -> SqlPc] /\ LocalsOK'
      /\ pc'[u] = "idle" /\ todo'[u] = <<>> /\ seen'[u] = 0
      /\ locked' \in [Account -> Session \cup {NoSession}]
      /\ \A a \in Account : locked'[a] # u /\ locked'[a] \in {locked[a], NoSession}
      /\ dialect' = dialect /\ requests' = requests
      /\ \A s \in Session \ {u} : Bystander(s) /\ pc'[s] = pc[s]
  BY <1>0, EndFacts
<1>2. /\ writer' = NoSession
      /\ stale' = IF dialect = "Sqlite" THEN {t \in Session \ {u} : HasSnapshot(t)} ELSE {}
  BY DEF Commit
<1>3. CallOK(u)' /\ ChecksOK(u)'
  BY <1>1 DEF CallOK, ChecksOK
<1>4. dialect = "Postgres" \/ dialect = "Sqlite"
  BY <1>0, DialectsAssumption DEF SqlTypeOK
<1>5. SqlTypeOK'
  <2>1. \A s \in Session : pc'[s] = "idle" =>
            s \notin stale' /\ s # writer' /\ \A a \in Account : locked'[a] # s
    <3>1. ASSUME NEW s \in Session, s # u, pc'[s] = "idle"
          PROVE  s \notin stale' /\ s # writer' /\ \A a \in Account : locked'[a] # s
      BY <1>0, <1>1, <1>2, <3>1, SessionAssumption DEF SqlTypeOK, HasSnapshot
    <3>2. u \notin stale' /\ u # writer' /\ \A a \in Account : locked'[a] # u
      BY <1>1, <1>2, SessionAssumption
    <3> QED
      BY <3>1, <3>2
  <2> QED
    BY <1>0, <1>1, <1>2, <2>1 DEF SqlTypeOK
<1>6. \A s \in Session : CallOK(s)'
  BY <1>1, <1>3, BystandersCall DEF SqlInv
<1>7. ASSUME NEW s \in Session \ stale', s # u PROVE ChecksOK(s)'
  <2>1. CASE dialect = "Postgres"
    <3>1. s \in Session \ stale /\ ChecksOK(s) /\ CallOK(s) /\ TablesOK /\ StoreTypeOK
      BY <2>1 DEF SqlInv, SqlTypeOK
    <3> QED
      BY <1>1, <1>7, <2>1, <3>1, BystandersChecksBusy
  <2>2. CASE dialect = "Sqlite"
    <3>1. ~HasSnapshot(s)
      BY <1>2, <1>7, <2>2
    <3>2. pc'[s] = pc[s] /\ work'[s] = work[s]
      BY <1>1, <1>7 DEF Bystander
    <3>3. \/ pc[s] \in {"idle", "receipt", "create"}
          \/ pc[s] = "head" /\ work[s].op # "commit"
      BY <3>1 DEF HasSnapshot
    <3> QED
      BY <3>2, <3>3 DEF ChecksOK
  <2> QED
    BY <1>4, <2>1, <2>2
<1>8. dialect' = "Postgres" => stale' = {}
  BY <1>1, <1>2
<1> QED
  BY <1>1, <1>3, <1>5, <1>6, <1>7, <1>8 DEF SqlInv

-----------------------------------------------------------------------------
(* Statements that neither commit nor roll back. *)

\* The session moves on to another statement, perhaps with a lock more, and the
\* others stay where they are.
Advances(u) ==
    /\ UNCHANGED storeVars /\ UNCHANGED <<dialect, stale>>
    /\ pc' \in [Session -> SqlPc] /\ pc'[u] # "idle"
    /\ DOMAIN work' = Session /\ DOMAIN todo' = Session
    /\ DOMAIN seen' = Session /\ DOMAIN reply' = Session
    /\ \A s \in Session \ {u} : /\ pc'[s] = pc[s] /\ work'[s] = work[s]
                                /\ todo'[s] = todo[s] /\ seen'[s] = seen[s]
    /\ locked' \in [Account -> Session \cup {NoSession}]
    /\ \A a \in Account : \/ locked'[a] = locked[a]
                          \/ locked'[a] = u /\ locked[a] \in {NoSession, u}
    /\ writer' \in {writer, u}
    /\ requests' \in 0..MaxRequests

\* Moving on keeps the invariant if the session's own part is kept.
LEMMA AdvanceKeeps ==
    ASSUME SqlInv, NEW u \in Session, Advances(u), CallOK(u)', u \notin stale => ChecksOK(u)'
    PROVE  SqlInv'
<1>1. SqlTypeOK'
  <2>1. StoreTypeOK'
    BY SameTablesOK DEF SqlInv, SqlTypeOK, Advances
  <2>2. ASSUME NEW s \in Session, pc'[s] = "idle"
        PROVE  s \notin stale' /\ s # writer' /\ \A a \in Account : locked'[a] # s
    BY <2>2 DEF SqlInv, SqlTypeOK, Advances
  <2> QED
    BY <2>1, <2>2 DEF SqlInv, SqlTypeOK, Advances
<1>2. LocalsOK'
  BY DEF Advances, LocalsOK
<1>3. \A s \in Session \ {u} : Bystander(s)
  BY SessionAssumption DEF Advances, Bystander
<1>4. UNCHANGED storeVars /\ dialect' = dialect /\ stale' = stale
  BY DEF Advances
<1> QED
  BY <1>1, <1>2, <1>3, <1>4, QuietKeeps

\* While the tables stay, so do the calls that can be made and the heads.
LEMMA SameCalls ==
    ASSUME UNCHANGED storeVars
    PROVE  /\ CommitCalls \subseteq CommitCalls' /\ CreateCalls' = CreateCalls
           /\ ChangeCalls("transition") \subseteq ChangeCalls("transition")'
           /\ ChangeCalls("append") \subseteq ChangeCalls("append")'
           /\ \A a : Exists(a)' = Exists(a) /\ head(a)' = head(a)
<1>1. /\ CommitCalls \subseteq CommitCalls'
      /\ ChangeCalls("transition") \subseteq ChangeCalls("transition")'
      /\ ChangeCalls("append") \subseteq ChangeCalls("append")'
  BY CallsStay, SameTablesGrow
<1>2. \A a : Exists(a)' = Exists(a) /\ head(a)' = head(a)
  BY DEF storeVars, Exists, head
<1>3. CreateCalls' = CreateCalls
  BY DEF CreateCalls
<1> QED
  BY <1>1, <1>2, <1>3

\* Beginning a call.
LEMMA BeginKeeps ==
    ASSUME SqlInv, NEW u \in Session, Begin(u)
    PROVE  SqlInv'
<1>0. SqlTypeOK /\ LocalsOK /\ UNCHANGED storeVars /\ pc[u] = "idle"
  BY DEF SqlInv, Begin
<1>1. PICK w \in CommitCalls \cup ChangeCalls("transition") \cup ChangeCalls("append")
                \cup CreateCalls :
          /\ work' = [work EXCEPT ![u] = w]
          /\ todo' = [todo EXCEPT ![u] = CASE w.op = "commit" -> LockOrder(w.req)
                                           [] w.op = "create" -> <<>>
                                           [] OTHER           -> <<w.account>>]
          /\ Goto(u, CASE w.op = "commit" -> "receipt"
                       [] w.op = "create" -> "create"
                       [] OTHER           -> "head")
  BY DEF Begin
<1>2. /\ work'[u] = w
      /\ todo'[u] = CASE w.op = "commit" -> LockOrder(w.req)
                      [] w.op = "create" -> <<>>
                      [] OTHER           -> <<w.account>>
      /\ pc'[u] = CASE w.op = "commit" -> "receipt"
                    [] w.op = "create" -> "create"
                    [] OTHER           -> "head"
      /\ seen' = seen
  BY <1>0, <1>1 DEF LocalsOK, Goto, SqlTypeOK, Begin
<1>3. Advances(u)
  <2>1. requests' \in 0..MaxRequests
    BY <1>0, BoundsAssumption DEF SqlTypeOK, Begin
  <2>2. pc' \in [Session -> SqlPc] /\ pc'[u] # "idle"
    BY <1>0, <1>1, <1>2 DEF SqlTypeOK, Goto, SqlPc
  <2>3. \A s \in Session \ {u} : /\ pc'[s] = pc[s] /\ work'[s] = work[s]
                                 /\ todo'[s] = todo[s] /\ seen'[s] = seen[s]
    BY <1>0, <1>1, <1>2 DEF SqlTypeOK, LocalsOK, Goto
  <2>4. /\ DOMAIN work' = Session /\ DOMAIN todo' = Session
        /\ DOMAIN seen' = Session /\ DOMAIN reply' = Session
    BY <1>0, <1>1, <1>2 DEF LocalsOK, Begin
  <2>5. locked' = locked /\ writer' = writer /\ UNCHANGED <<dialect, stale>>
    BY DEF Begin
  <2> QED
    BY <1>0, <2>1, <2>2, <2>3, <2>4, <2>5 DEF Advances, SqlTypeOK
<1>4. seen[u] = 0
  BY <1>0 DEF SqlInv, CallOK
<1>5. CASE w \in CommitCalls
  <2>1. PICK e \in Envelopes : /\ ToSet(e.consumes) \subseteq DOMAIN immutable
                               /\ w.op = "commit" /\ w.req = CommitRequest(e)
    BY <1>5, CommitCallFacts
  <2>2. LockOrder(w.req) \in Seq(Account) /\ ToSet(LockOrder(w.req)) = w.req.involved
    <3>1. w.req.involved \subseteq Account /\ IsFiniteSet(w.req.involved)
      BY <2>1, RequestFacts DEF SqlInv, SqlTypeOK, TablesOK
    <3> QED
      BY <3>1, LockOrderFacts
  <2>3. pc'[u] = "receipt" /\ todo'[u] = LockOrder(w.req)
    BY <1>2, <2>1
  <2>4. CallOK(u)' /\ ChecksOK(u)'
    BY <1>0, <1>2, <1>4, <1>5, <2>2, <2>3, SameCalls DEF CallOK, ChecksOK
  <2> QED
    BY <1>3, <2>4, AdvanceKeeps
<1>6. CASE w \in ChangeCalls("transition") \cup ChangeCalls("append")
  <2>1. (w.op = "transition" \/ w.op = "append") /\ w.account \in Account
    BY <1>6, ChangeCallFacts
  <2>2. pc'[u] = "head" /\ todo'[u] = <<w.account>>
    BY <1>2, <2>1
  <2>3. CallOK(u)' /\ ChecksOK(u)'
    BY <1>0, <1>2, <1>4, <1>6, <2>1, <2>2, SameCalls DEF CallOK, ChecksOK
  <2> QED
    BY <1>3, <2>3, AdvanceKeeps
<1>7. CASE w \in CreateCalls
  <2>1. w.op = "create"
    BY <1>7, CreateCallFacts
  <2>2. pc'[u] = "create" /\ todo'[u] = <<>>
    BY <1>2, <2>1
  <2>3. CallOK(u)' /\ ChecksOK(u)'
    BY <1>0, <1>2, <1>4, <1>7, <2>2, SameCalls DEF CallOK, ChecksOK
  <2> QED
    BY <1>3, <2>3, AdvanceKeeps
<1> QED
  BY <1>5, <1>6, <1>7

\* A statement that only moves pc, and perhaps makes the session the writer.
LEMMA GotoAdvances ==
    ASSUME SqlInv, NEW u \in Session, NEW label \in SqlPc, label # "idle", Goto(u, label),
           UNCHANGED storeVars,
           UNCHANGED <<dialect, work, todo, seen, locked, stale, reply, requests>>,
           writer' \in {writer, u}
    PROVE  Advances(u) /\ pc'[u] = label
<1>1. pc' = [pc EXCEPT ![u] = label] /\ pc \in [Session -> SqlPc]
  BY DEF Goto, SqlInv, SqlTypeOK
<1> QED
  BY <1>1 DEF Advances, SqlInv, SqlTypeOK, LocalsOK

\* Looking the head up.
LEMMA ReadHeadKeeps ==
    ASSUME SqlInv, NEW u \in Session, ReadHead(u)
    PROVE  SqlInv'
<1> DEFINE a == Head(todo[u])
<1>1. pc[u] = "head" /\ todo[u] # <<>> /\ u \notin stale
  BY DEF ReadHead, At
<1>2. CASE /\ Exists(a)
           /\ seen' = [seen EXCEPT ![u] = head(a).version]
           /\ UNCHANGED <<storeVars, dialect, pc, work, todo, locked, writer, stale,
                          reply, requests>>
  <2>1. UNCHANGED storeVars
    BY <1>2
  <2>2. Advances(u)
    BY <1>1, <1>2 DEF Advances, SqlInv, SqlTypeOK, LocalsOK
  <2>3. CallOK(u) /\ ChecksOK(u)
    BY <1>1 DEF SqlInv
  <2>4. CallOK(u)'
    BY <1>1, <1>2, <2>1, <2>3, SameCalls DEF CallOK
  <2>5. ChecksOK(u)'
    <3>2. \A b \in Account : Held(u, b) => Held(u, b)'
      BY <1>2, <2>1, SameCalls DEF Held, Usable
    <3>3. work[u].op = "commit" => work[u].req.involved \subseteq Account
      <4> SUFFICES ASSUME work[u].op = "commit" PROVE work[u].req.involved \subseteq Account
        OBVIOUS
      <4>1. work[u] \in CommitCalls
        BY <1>1, <2>3, ChangeCallFacts DEF CallOK
      <4> QED
        BY <4>1, CommitCallFacts, RequestFacts DEF SqlInv, SqlTypeOK, TablesOK
    <3>4. AlreadyCommitted(work[u].req)' = AlreadyCommitted(work[u].req)
      BY <1>2, <2>1 DEF AlreadyCommitted, storeVars
    <3> QED
      BY <1>1, <1>2, <2>3, <3>2, <3>3, <3>4 DEF ChecksOK
  <2> QED
    BY <2>2, <2>4, <2>5, AdvanceKeeps
<1>3. CASE Rollback(u, "missing")
  BY <1>3, RollbackKeeps
<1> QED
  BY <1>2, <1>3 DEF ReadHead

\* Looking for a receipt: without one, the locks come next.
LEMMA ReadReceiptKeeps ==
    ASSUME SqlInv, NEW u \in Session, ReadReceipt(u)
    PROVE  SqlInv'
<1>1. pc[u] = "receipt" /\ u \notin stale
  BY DEF ReadReceipt, At
<1>2. CASE Rollback(u, "already")
  BY <1>2, RollbackKeeps
<1>3. CASE /\ ~AlreadyCommitted(work[u].req)
           /\ Goto(u, "head")
           /\ UNCHANGED <<storeVars, dialect, work, todo, seen, locked, writer, stale,
                          reply, requests>>
  <2>1. UNCHANGED storeVars
    BY <1>3
  <2>2. Advances(u) /\ pc'[u] = "head"
    BY <1>3, GotoAdvances DEF SqlPc
  <2>3. CallOK(u) /\ work[u] \in CommitCalls /\ work[u].op = "commit" /\ seen[u] = 0
    BY <1>1, CommitCallFacts DEF SqlInv, CallOK
  <2>4. CallOK(u)'
    BY <1>1, <1>3, <2>1, <2>2, <2>3, SameCalls DEF CallOK
  <2>5. ChecksOK(u)'
    <3>1. AlreadyCommitted(work[u].req)' = AlreadyCommitted(work[u].req)
      BY <1>3, <2>1 DEF AlreadyCommitted, storeVars
    <3>2. work[u].req.involved \ ToSet(todo[u]) = {}
      BY <1>1, <2>3 DEF CallOK
    <3> QED
      BY <1>3, <2>2, <3>1, <3>2 DEF ChecksOK
  <2> QED
    BY <2>2, <2>4, <2>5, AdvanceKeeps
<1> QED
  BY <1>2, <1>3 DEF ReadReceipt

\* Looking for an account that is to be created.
LEMMA LookForAccountKeeps ==
    ASSUME SqlInv, NEW u \in Session, LookForAccount(u)
    PROVE  SqlInv'
<1>1. pc[u] = "create" /\ u \notin stale
  BY DEF LookForAccount, At
<1>2. CASE Rollback(u, "rejected")
  BY <1>2, RollbackKeeps
<1>3. CASE /\ Goto(u, "first")
           /\ UNCHANGED <<storeVars, dialect, work, todo, seen, locked, writer, stale,
                          reply, requests>>
  <2>1. UNCHANGED storeVars
    BY <1>3
  <2>2. Advances(u) /\ pc'[u] = "first"
    BY <1>3, GotoAdvances DEF SqlPc
  <2>3. CallOK(u) /\ work[u] \in CreateCalls /\ seen[u] = 0
    BY <1>1 DEF SqlInv, CallOK
  <2>4. CallOK(u)' /\ ChecksOK(u)'
    BY <1>1, <1>3, <2>1, <2>2, <2>3, SameCalls DEF CallOK, ChecksOK
  <2> QED
    BY <2>2, <2>4, AdvanceKeeps
<1> QED
  BY <1>2, <1>3 DEF LookForAccount

\* A session in a commit has a request for accounts.
LEMMA InCommit ==
    ASSUME SqlInv, NEW u \in Session, pc[u] \in {"head", "claim", "floor", "record"},
           pc[u] = "head" => work[u].op = "commit"
    PROVE  /\ work[u] \in CommitCalls /\ work[u].op = "commit"
           /\ work[u].req.involved \subseteq Account
<1>1. CallOK(u)
  BY DEF SqlInv
<1>2. work[u] \in CommitCalls
  BY <1>1, ChangeCallFacts DEF CallOK
<1> QED
  BY <1>2, CommitCallFacts, RequestFacts DEF SqlInv, SqlTypeOK, TablesOK

\* Getting the lock: one account more is held, or the account has moved on.
LEMMA LockHeadKeeps ==
    ASSUME SqlInv, NEW u \in Session, LockHead(u)
    PROVE  SqlInv'
<1> DEFINE a == Head(todo[u])
           label == IF Len(todo[u]) > 1 THEN "head"
                    ELSE IF work[u].op = "commit" THEN "claim" ELSE "move"
<1>1. /\ pc[u] = "head" /\ todo[u] # <<>> /\ seen[u] # 0 /\ u \notin stale /\ RowFree(u, a)
  BY DEF LockHead, At
<1>2. CASE /\ work[u].op = "commit" => Usable(a)
           /\ locked' = IF dialect = "Postgres" THEN [locked EXCEPT ![a] = u] ELSE locked
           /\ todo' = [todo EXCEPT ![u] = Tail(@)]
           /\ seen' = [seen EXCEPT ![u] = 0]
           /\ Goto(u, label)
           /\ UNCHANGED <<storeVars, dialect, work, writer, stale, reply, requests>>
  <2>1. UNCHANGED storeVars
    BY <1>2
  <2>2. CallOK(u) /\ ChecksOK(u) /\ SqlTypeOK /\ LocalsOK
    BY <1>1 DEF SqlInv
  <2>3. /\ todo[u] \in Seq(Account) /\ a \in Account /\ Exists(a) /\ Tail(todo[u]) \in Seq(Account)
        /\ Len(todo[u]) \in Nat \ {0} /\ Len(Tail(todo[u])) = Len(todo[u]) - 1
        /\ Len(todo[u]) <= 1 => Tail(todo[u]) = <<>>
        /\ ToSet(todo[u]) = {a} \cup ToSet(Tail(todo[u]))
    <3>1. todo[u] \in Seq(Account) /\ todo[u] # <<>> /\ Exists(a)
      BY <1>1, <2>2 DEF CallOK
    <3>2. ASSUME NEW q \in Seq(Account), q # <<>>
          PROVE  /\ Head(q) \in Account /\ Tail(q) \in Seq(Account)
                 /\ Len(q) \in Nat \ {0} /\ Len(Tail(q)) = Len(q) - 1
                 /\ Len(q) <= 1 => Tail(q) = <<>>
                 /\ ToSet(q) = {Head(q)} \cup ToSet(Tail(q))
      <4>1. /\ Head(q) \in Account /\ Tail(q) \in Seq(Account)
            /\ Len(q) \in Nat \ {0} /\ Len(Tail(q)) = Len(q) - 1
            /\ \A i \in 1..Len(Tail(q)) : Tail(q)[i] = q[i + 1]
            /\ DOMAIN q = 1..Len(q) /\ DOMAIN Tail(q) = 1..Len(Tail(q)) /\ Head(q) = q[1]
        BY <3>2, HeadTailProperties, LenProperties, EmptySeq
      <4>2. Len(q) <= 1 => Tail(q) = <<>>
        BY <4>1, EmptySeq
      <4>3. ToSet(q) \subseteq {Head(q)} \cup ToSet(Tail(q))
        <5>1. ASSUME NEW i \in 1..Len(q), i # 1 PROVE q[i] \in ToSet(Tail(q))
          <6>1. i - 1 \in 1..Len(Tail(q)) /\ (i - 1) + 1 = i
            BY <4>1, <5>1
          <6>2. Tail(q)[i - 1] = q[i]
            BY <4>1, <6>1
          <6> QED
            BY <4>1, <6>1, <6>2 DEF ToSet
        <5> QED
          BY <4>1, <5>1 DEF ToSet
      <4>4. {Head(q)} \cup ToSet(Tail(q)) \subseteq ToSet(q)
        <5>1. \A i \in 1..Len(Tail(q)) : i + 1 \in 1..Len(q)
          BY <4>1
        <5>2. 1 \in 1..Len(q)
          BY <4>1
        <5> QED
          BY <4>1, <5>1, <5>2 DEF ToSet
      <4> QED
        BY <4>1, <4>2, <4>3, <4>4
    <3> QED
      BY <3>1, <3>2
  <2> HIDE DEF a
  <2>4. label \in {"head", "claim", "move"}
    OBVIOUS
  <2>5. /\ pc'[u] = label /\ work' = work /\ seen'[u] = 0 /\ todo'[u] = Tail(todo[u])
        /\ dialect' = dialect
    BY <1>2, <2>2 DEF SqlTypeOK, LocalsOK, Goto
  <2>6. /\ locked' \in [Account -> Session \cup {NoSession}]
        /\ \A b \in Account : \/ locked'[b] = locked[b]
                              \/ locked'[b] = u /\ locked[b] \in {NoSession, u}
        /\ dialect = "Postgres" => locked'[a] = u
        /\ \A b \in Account : locked[b] = u => locked'[b] = u
    BY <1>1, <1>2, <2>2, <2>3 DEF SqlTypeOK, RowFree
  <2>7. Advances(u)
    <3>1. pc' \in [Session -> SqlPc] /\ pc'[u] # "idle"
      BY <1>2, <2>2, <2>4, <2>5 DEF SqlTypeOK, Goto, SqlPc
    <3>2. \A s \in Session \ {u} : /\ pc'[s] = pc[s] /\ work'[s] = work[s]
                                   /\ todo'[s] = todo[s] /\ seen'[s] = seen[s]
      BY <1>2, <2>2 DEF SqlTypeOK, LocalsOK, Goto
    <3> HIDE DEF label
    <3> QED
      BY <1>2, <2>1, <2>2, <2>6, <3>1, <3>2 DEF Advances, SqlTypeOK, LocalsOK
  <2>8. CASE work[u].op = "commit"
    <3>1. work[u] \in CommitCalls /\ work[u].req.involved \subseteq Account
      BY <1>1, <2>8, InCommit
    <3>2. label \in {"head", "claim"} /\ (label = "claim" => Tail(todo[u]) = <<>>)
      <4>1. label = IF Len(todo[u]) > 1 THEN "head" ELSE "claim"
        BY <2>8
      <4>2. Len(todo[u]) > 1 \/ Tail(todo[u]) = <<>>
        BY <2>3
      <4> HIDE DEF label
      <4> QED
        BY <4>1, <4>2
    <3> HIDE DEF label
    <3>3. CallOK(u)'
      BY <2>1, <2>3, <2>5, <2>8, <3>1, <3>2, SameCalls DEF CallOK
    <3>4. ASSUME NEW b \in work[u].req.involved \ ToSet(Tail(todo[u])) PROVE Held(u, b)'
      <4>0. b \in Account
        BY <3>1
      <4>1. CASE b = a
        BY <1>2, <2>1, <2>3, <2>5, <2>6, <2>8, <4>1, SameCalls DEF Held, Usable
      <4>2. CASE b # a
        <5>1. Held(u, b)
          BY <1>1, <2>2, <2>3, <2>8, <3>4, <4>2 DEF ChecksOK
        <5> QED
          BY <2>1, <2>5, <2>6, <4>0, <5>1, SameCalls DEF Held, Usable
      <4> QED
        BY <4>1, <4>2
    <3>5. dialect = "Sqlite" => ~AlreadyCommitted(work[u].req)'
      <4>1. dialect = "Sqlite" => ~AlreadyCommitted(work[u].req)
        BY <1>1, <2>2, <2>8 DEF ChecksOK
      <4> QED
        BY <2>1, <2>5, <4>1 DEF AlreadyCommitted, storeVars
    <3>6. ChecksOK(u)'
      BY <2>5, <3>2, <3>4, <3>5 DEF ChecksOK
    <3> QED
      BY <2>7, <3>3, <3>6, AdvanceKeeps
  <2>9. CASE work[u].op # "commit"
    <3>1. /\ todo[u] = <<work[u].account>>
          /\ work[u] \in ChangeCalls("transition") \cup ChangeCalls("append")
      BY <1>1, <2>2, <2>9, CommitCallFacts DEF CallOK
    <3>2. a = work[u].account /\ Len(todo[u]) = 1
      BY <3>1 DEF a
    <3>3. label = "move" /\ Tail(todo[u]) = <<>>
      BY <2>3, <2>9, <3>2
    <3> HIDE DEF label
    <3>4. CallOK(u)'
      BY <2>1, <2>3, <2>5, <3>1, <3>3, SameCalls DEF CallOK
    <3>5. ChecksOK(u)'
      BY <2>5, <2>6, <3>2, <3>3 DEF ChecksOK
    <3> QED
      BY <2>7, <3>4, <3>5, AdvanceKeeps
  <2> QED
    BY <2>8, <2>9
<1>3. CASE Rollback(u, "rejected") \/ Rollback(u, "missing")
  BY <1>3, RollbackKeeps
<1> QED
  BY <1>2, <1>3 DEF LockHead

\* A statement of commit_envelope that moves on to the next keeps what the session
\* had established before it.
LEMMA MovesOnInCommit ==
    ASSUME SqlInv, NEW u \in Session, u \notin stale, pc[u] \in {"claim", "floor"},
           NEW label \in {"floor", "record"}, Goto(u, label), UNCHANGED storeVars,
           UNCHANGED <<dialect, work, todo, seen, locked, stale, reply, requests>>,
           writer' \in {writer, u}, ConsumedActive(work[u].req),
           label = "record" => FloorKeptBy(work[u].req)
    PROVE  SqlInv'
<1>1. Advances(u) /\ pc'[u] = label
  BY GotoAdvances DEF SqlPc
<1>2. CallOK(u) /\ ChecksOK(u) /\ seen[u] = 0
  BY DEF SqlInv, CallOK
<1>3. work[u] \in CommitCalls /\ work[u].op = "commit" /\ work[u].req.involved \subseteq Account
  BY InCommit
<1>4. CallOK(u)'
  BY <1>1, <1>2, <1>3, SameCalls DEF CallOK
<1>5. \A a \in work[u].req.involved \ ToSet(todo[u]) : Held(u, a)'
  <2>1. \A a \in work[u].req.involved \ ToSet(todo[u]) : Held(u, a)
    BY <1>2, <1>3 DEF ChecksOK
  <2> QED
    BY <2>1, SameCalls DEF Held, Usable
<1>6. ASSUME NEW req, req = work[u].req
      PROVE  /\ ConsumedActive(req)'
             /\ label = "record" => FloorKeptBy(req)'
             /\ dialect = "Sqlite" => ~AlreadyCommitted(req)'
  <2>1. dialect = "Sqlite" => ~AlreadyCommitted(req)
    BY <1>2, <1>3, <1>6 DEF ChecksOK
  <2> QED
    BY <1>6, <2>1, SameReads
<1>7. ChecksOK(u)'
  BY <1>1, <1>2, <1>5, <1>6 DEF ChecksOK
<1> QED
  BY <1>1, <1>4, <1>7, AdvanceKeeps

\* Claiming the consumed rows.
LEMMA ClaimConsumedKeeps ==
    ASSUME SqlInv, NEW u \in Session, ClaimConsumed(u)
    PROVE  SqlInv'
<1>1. pc[u] = "claim" /\ u \notin stale
  BY DEF ClaimConsumed, At
<1>2. CASE Rollback(u, "rejected")
  BY <1>2, RollbackKeeps
<1>3. CASE /\ ConsumedActive(work[u].req)
           /\ IF work[u].req.consume = <<>> THEN UNCHANGED writer ELSE Writes(u)
           /\ Goto(u, "floor")
           /\ UNCHANGED <<storeVars, dialect, work, todo, seen, locked, stale, reply, requests>>
  <2>1. writer' \in {writer, u}
    BY <1>3 DEF Writes
  <2> QED
    BY <1>1, <1>3, <2>1, MovesOnInCommit
<1> QED
  BY <1>2, <1>3 DEF ClaimConsumed

\* Inserting the created rows and reading the floors.
LEMMA InsertAndCheckFloorKeeps ==
    ASSUME SqlInv, NEW u \in Session, InsertAndCheckFloor(u)
    PROVE  SqlInv'
<1>1. pc[u] = "floor" /\ u \notin stale
  BY DEF InsertAndCheckFloor, At
<1>2. CASE Rollback(u, "rejected")
  BY <1>2, RollbackKeeps
<1>3. CASE /\ FloorKeptBy(work[u].req)
           /\ IF work[u].req.record.creates = <<>> THEN UNCHANGED writer ELSE Writes(u)
           /\ Goto(u, "record")
           /\ UNCHANGED <<storeVars, dialect, work, todo, seen, locked, stale, reply, requests>>
  <2>1. writer' \in {writer, u}
    BY <1>3 DEF Writes
  <2>2. ConsumedActive(work[u].req)
    BY <1>1 DEF SqlInv, ChecksOK
  <2> QED
    BY <1>1, <1>3, <2>1, <2>2, MovesOnInCommit
<1> QED
  BY <1>2, <1>3 DEF InsertAndCheckFloor

-----------------------------------------------------------------------------
(* What the committing statements write. *)

\* The rows a commit writes, inserted only where they are missing: first time or
\* replay, the tables stay well formed and only involved accounts are touched.
LEMMA RecordEffect ==
    ASSUME StoreTypeOK, TablesOK, NEW e \in Envelopes, NEW req, req = CommitRequest(e),
           ToSet(e.consumes) \subseteq DOMAIN immutable,
           active' = ActiveAfter(req), immutable' = WithRows(immutable, req.create),
           transfers' = WithRows(transfers, [tid \in {req.transfer_id} |-> req.record]),
           AppendEvent(TransferCommitted(req.transfer_id)), accounts' = accounts
    PROVE  StoreTypeOK' /\ TablesOK' /\ TablesGrow /\ TouchesOnly(req.involved)
<1> DEFINE tid == envelope_id(e)
           N == NewIds(e)
           ev == TransferCommitted(tid)
<1>1. /\ req.transfer_id = tid /\ req.record = e /\ req.consume = e.consumes
      /\ req.create = postings_to_create(e) /\ DOMAIN req.create = N
  BY CreatedRows DEF CommitRequest
<1>2. /\ \A id \in ToSet(e.consumes) : immutable[id].owner \in req.involved
      /\ \A i \in DOMAIN e.creates : e.creates[i].owner \in req.involved /\ e.creates[i] \in Posting
  BY RequestFacts DEF TablesOK
<1>3. /\ active' = (active \ ToSet(e.consumes)) \cup N
      /\ DOMAIN immutable' = DOMAIN immutable \cup N
      /\ \A id \in DOMAIN immutable : immutable'[id] = immutable[id]
      /\ \A id \in N \ DOMAIN immutable : immutable'[id] = postings_to_create(e)[id]
  BY <1>1 DEF ActiveAfter, WithRows
<1>4. \A id \in N : immutable'[id] = postings_to_create(e)[id]
  BY <1>3, IdsNameContent
<1>5. \A id \in N : \E i \in DOMAIN e.creates : id = <<tid, i>> /\ immutable'[id] = e.creates[i]
  BY <1>4, CreatedRows DEF NewIds
<1>6. \A id \in N : immutable'[id] \in Posting /\ immutable'[id].owner \in req.involved
  BY <1>2, <1>5
<1>7. /\ DOMAIN transfers' = DOMAIN transfers \cup {tid}
      /\ \A t \in DOMAIN transfers : transfers'[t] = transfers[t]
      /\ tid \notin DOMAIN transfers => transfers'[tid] = e
  BY <1>1 DEF WithRows
<1>8. transfers'[tid].creates = e.creates /\ tid = envelope_id(transfers'[tid])
  <2>1. CASE tid \in DOMAIN transfers
    <3>1. envelope_id(transfers[tid]) = envelope_id(e) /\ transfers'[tid] = transfers[tid]
      BY <1>7, <2>1 DEF TablesOK
    <3> QED
      BY <3>1 DEF envelope_id
  <2>2. CASE tid \notin DOMAIN transfers
    BY <1>7, <2>2
  <2> QED
    BY <2>1, <2>2
<1>9. TablesGrow
  BY <1>3 DEF TablesGrow, Exists
<1>10. TouchesOnly(req.involved)
  <2>1. ASSUME NEW id \in DOMAIN immutable, immutable[id].owner \notin req.involved
        PROVE  id \in active' <=> id \in active
    <3>1. id \notin ToSet(e.consumes)
      BY <1>2, <2>1
    <3>2. id \notin N
      BY <1>3, <1>6, <2>1
    <3> QED
      BY <1>3, <3>1, <3>2
  <2>2. \A id \in DOMAIN immutable' \ DOMAIN immutable : immutable'[id].owner \in req.involved
    BY <1>3, <1>6
  <2> QED
    BY <2>1, <2>2 DEF TouchesOnly
<1>11. /\ events' \in Seq(EventType')
       /\ DOMAIN events \subseteq DOMAIN events' /\ \A i \in DOMAIN events : events'[i] = events[i]
       /\ \E i \in DOMAIN events' : events'[i] = ev
  <2>1. EventType \subseteq EventType' /\ ev \in EventType'
    BY <1>7 DEF EventType, EventKind, TransferCommitted, Event
  <2>2. events \in Seq(EventType) /\ events \in Seq(EventType')
    <3>1. events \in Seq(EventType)
      BY DEF StoreTypeOK, EventType
    <3> QED
      BY <2>1, <3>1, SeqMonotonic
  <2>3. AppendEvent(ev)
    BY <1>1
  <2>4. /\ events' \in Seq(EventType')
        /\ DOMAIN events \subseteq DOMAIN events' /\ \A i \in DOMAIN events : events'[i] = events[i]
    BY <2>1, <2>2, <2>3, AppendEventEffect
  <2>5. CASE \E i \in DOMAIN events : SameDedupKey(events[i], ev)
    <3>1. PICK i \in DOMAIN events : SameDedupKey(events[i], ev)
      BY <2>5
    <3>2. events[i] \in EventType
      BY <2>2, ElementOfSeq, LenProperties
    <3>3. events[i] = ev
      BY <3>1, <3>2 DEF SameDedupKey, TransferCommitted, Event, EventType
    <3> QED
      BY <2>4, <3>3
  <2>6. CASE \E n \in DOMAIN events' : events'[n] = ev
    BY <2>4, <2>6
  <2> QED
    BY <2>1, <2>2, <2>3, <2>5, <2>6, AppendEventEffect
<1>12. StoreTypeOK'
  <2>1. active' \subseteq DOMAIN immutable'
    BY <1>3 DEF StoreTypeOK
  <2>2. \A id \in DOMAIN immutable' : immutable'[id] \in Posting
    BY <1>3, <1>6 DEF StoreTypeOK
  <2> QED
    BY <1>11, <2>1, <2>2 DEF StoreTypeOK, EventType, Posting
<1>13. PostingsFromLog'
  <2>1. ASSUME NEW id \in DOMAIN immutable'
        PROVE  /\ id = <<id[1], id[2]>>
               /\ id[1] \in DOMAIN transfers'
               /\ id[2] \in DOMAIN transfers'[id[1]].creates
               /\ immutable'[id] = transfers'[id[1]].creates[id[2]]
    <3>1. CASE id \in N
      <4>1. PICK i \in DOMAIN e.creates : id = <<tid, i>> /\ immutable'[id] = e.creates[i]
        BY <1>5, <3>1
      <4> QED
        BY <1>7, <1>8, <4>1
    <3>2. CASE id \in DOMAIN immutable
      BY <1>3, <1>7, <3>2 DEF TablesOK, PostingsFromLog
    <3> QED
      BY <1>3, <3>1, <3>2
  <2>2. ASSUME NEW t \in DOMAIN transfers', NEW i \in DOMAIN transfers'[t].creates
        PROVE  <<t, i>> \in DOMAIN immutable'
    <3>1. CASE t = tid
      BY <1>3, <1>8, <2>2, <3>1 DEF NewIds
    <3>2. CASE t # tid
      BY <1>3, <1>7, <2>2, <3>2 DEF TablesOK, PostingsFromLog
    <3> QED
      BY <3>1, <3>2
  <2> QED
    BY <2>1, <2>2 DEF PostingsFromLog
<1>14. TablesOK'
  <2>1. IsFiniteSet(N)
    BY NewIdsFacts, EnvelopesAssumption
  <2>2. IsFiniteSet(DOMAIN immutable')
    <3>1. IsFiniteSet(DOMAIN immutable)
      BY DEF TablesOK
    <3>2. DOMAIN immutable' = DOMAIN immutable \cup N
      BY <1>3
    <3>3. IsFiniteSet(DOMAIN immutable \cup N)
      <4> HIDE DEF N
      <4> QED
        BY <2>1, <3>1, FS_Union
    <3> HIDE DEF N
    <3> QED
      BY <3>2, <3>3, Zenon
  <2>3. /\ immutable' = [id \in DOMAIN immutable' |-> immutable'[id]]
        /\ transfers' = [t \in DOMAIN transfers' |-> transfers'[t]]
    BY DEF WithRows
  <2>4. ASSUME NEW t \in DOMAIN transfers'
        PROVE  /\ t = envelope_id(transfers'[t])
               /\ \E i \in DOMAIN events' : events'[i] = TransferCommitted(t)
    <3>1. CASE t = tid
      BY <1>8, <1>11, <3>1
    <3>2. CASE t # tid
      BY <1>7, <1>11, <3>2 DEF TablesOK
    <3> QED
      BY <3>1, <3>2
  <2>5. \A t \in DOMAIN transfers' : envelope_id(transfers[t])' = envelope_id(transfers'[t])
    BY DEF envelope_id
  <2> QED
    BY <1>13, <2>2, <2>3, <2>4, <2>5 DEF TablesOK, TransferCommitted, Event
<1> QED
  BY <1>9, <1>10, <1>12, <1>14

\* Recording a transfer.
LEMMA RecordTransferKeeps ==
    ASSUME SqlInv, NEW u \in Session, RecordTransfer(u)
    PROVE  SqlInv'
<1> DEFINE req == work[u].req
<1>1. pc[u] = "record" /\ u \notin stale /\ Commit(u, "committed")
  BY DEF RecordTransfer, At
<1>2. StoreTypeOK /\ TablesOK /\ CallOK(u) /\ ChecksOK(u)
  BY <1>1 DEF SqlInv, SqlTypeOK
<1>3. PICK e \in Envelopes : ToSet(e.consumes) \subseteq DOMAIN immutable /\ req = CommitRequest(e)
  BY <1>1, <1>2, CommitCallFacts DEF CallOK
<1>4. /\ active' = ActiveAfter(req)
      /\ immutable' = WithRows(immutable, req.create)
      /\ transfers' = WithRows(transfers, [tid \in {req.transfer_id} |-> req.record])
      /\ AppendEvent(TransferCommitted(req.transfer_id))
      /\ accounts' = accounts
  BY DEF RecordTransfer, append_event_tx
<1>5. \A a \in req.involved : Held(u, a)
  <2>1. todo[u] = <<>> /\ work[u].op = "commit"
    BY <1>1, <1>2, CommitCallFacts DEF CallOK, ChecksOK
  <2>2. ToSet(todo[u]) = {}
    BY <2>1 DEF ToSet
  <2> QED
    BY <1>1, <1>2, <2>1, <2>2 DEF ChecksOK
<1>6. dialect = "Postgres" =>
        \A s \in Session \ {u} : \A a \in Account : Held(s, a) => a \notin req.involved
  BY <1>5 DEF Held
<1> HIDE DEF req
<1>7. StoreTypeOK' /\ TablesOK' /\ TablesGrow /\ TouchesOnly(req.involved)
  BY <1>2, <1>3, <1>4, RecordEffect
<1> QED
  BY <1>1, <1>6, <1>7, CommitKeeps

\* A version put after the head of one account.
LEMMA VersionEffect ==
    ASSUME StoreTypeOK, TablesOK, NEW a \in Account, NEW next \in AccountRecord,
           accounts' = [accounts EXCEPT ![a] = Append(@, next)],
           UNCHANGED <<immutable, active, transfers>>, events' \in Seq(EventType),
           \A i \in DOMAIN events : i \in DOMAIN events' /\ events'[i] = events[i]
    PROVE  StoreTypeOK' /\ TablesOK' /\ TablesGrow /\ TouchesOnly({a})
<1>1. accounts \in [Account -> Seq(AccountRecord)]
  BY DEF StoreTypeOK, AccountRecord
<1>2. /\ accounts' \in [Account -> Seq(AccountRecord)]
      /\ \A b \in Account : b # a => accounts'[b] = accounts[b]
      /\ \A v \in DOMAIN accounts[a] : v \in DOMAIN accounts'[a] /\ accounts'[a][v] = accounts[a][v]
      /\ accounts'[a] # <<>>
  <2>1. accounts[a] \in Seq(AccountRecord) /\ accounts'[a] = Append(accounts[a], next)
    BY <1>1
  <2>2. /\ Append(accounts[a], next) \in Seq(AccountRecord)
        /\ Len(Append(accounts[a], next)) = Len(accounts[a]) + 1
        /\ DOMAIN Append(accounts[a], next) = DOMAIN accounts[a] \cup {Len(accounts[a]) + 1}
        /\ \A i \in DOMAIN accounts[a] : Append(accounts[a], next)[i] = accounts[a][i]
    BY <2>1, AppendFacts
  <2>3. Append(accounts[a], next) # <<>>
    BY <2>1, AppendProperties
  <2> QED
    BY <1>1, <2>1, <2>2, <2>3
<1>3. TablesGrow
  BY <1>2 DEF TablesGrow, Exists
<1>4. TouchesOnly({a})
  BY <1>2 DEF TouchesOnly
<1>5. StoreTypeOK'
  BY <1>2 DEF StoreTypeOK, AccountRecord, EventType
<1>6. TablesOK'
  BY DEF TablesOK, PostingsFromLog, TransferCommitted, Event
<1> QED
  BY <1>3, <1>4, <1>5, <1>6

\* The version a change call asks for is a record.
LEMMA NextIsRecord ==
    ASSUME StoreTypeOK, NEW op, NEW w \in ChangeCalls(op)
    PROVE  w.next \in AccountRecord
<1>1. PICK v \in DOMAIN accounts[w.account] : w.next = NextVersion(w.kind, accounts[w.account][v])
  BY ChangeCallFacts
<1>2. w.account \in Account /\ w.kind \in LifecycleKind
  BY ChangeCallFacts
<1>3. accounts[w.account][v] \in AccountRecord
  <2>1. accounts[w.account] \in Seq(AccountRecord)
    BY <1>2 DEF StoreTypeOK, AccountRecord
  <2> QED
    BY <2>1, ElementOfSeq, LenProperties
<1>4. Mutate(w.kind, accounts[w.account][v].flags) \in SUBSET AccountFlags
  BY <1>2, <1>3, MutateType DEF AccountRecord
<1> QED
  BY <1>1, <1>3, <1>4 DEF NextVersion, AccountRecord

\* The event of a transition is appended or was there.
LEMMA TransitionEvent ==
    ASSUME StoreTypeOK, NEW a \in Account, NEW kind \in LifecycleKind, NEW next \in AccountRecord,
           AppendEvent(Event(kind, a, next.version))
    PROVE  /\ events' \in Seq(EventType)
           /\ \A i \in DOMAIN events : i \in DOMAIN events' /\ events'[i] = events[i]
<1>1. events \in Seq(EventType)
  BY DEF StoreTypeOK, EventType
<1>2. Event(kind, a, next.version) \in EventType
  BY DEF Event, EventType, EventKind, LifecycleKind, AccountRecord
<1> QED
  BY <1>1, <1>2, AppendEventEffect

\* commit_transition at its last statement.
LEMMA MoveHeadKeeps ==
    ASSUME SqlInv, NEW u \in Session, MoveHead(u)
    PROVE  SqlInv'
<1> DEFINE a == work[u].account
           next == work[u].next
           kind == work[u].kind
<1>1. pc[u] = "move" /\ u \notin stale /\ work[u].op = "transition"
  BY DEF MoveHead, At
<1>2. StoreTypeOK /\ TablesOK /\ CallOK(u) /\ ChecksOK(u)
  BY <1>1 DEF SqlInv, SqlTypeOK
<1>3. work[u] \in ChangeCalls("transition")
  BY <1>1, <1>2, ChangeCallFacts DEF CallOK
<1>4. a \in Account /\ kind \in LifecycleKind /\ next \in AccountRecord
  BY <1>2, <1>3, ChangeCallFacts, NextIsRecord
<1>5. dialect = "Postgres" => locked[a] = u
  BY <1>1, <1>2 DEF ChecksOK
<1>6. dialect = "Postgres" =>
        \A s \in Session \ {u} : \A b \in Account : Held(s, b) => b \notin {a}
  BY <1>5 DEF Held
<1> HIDE DEF a, next, kind
<1>7. CASE TransitionApplied(a, next, kind) /\ Commit(u, "applied")
  <2>1. /\ accounts' = [accounts EXCEPT ![a] = Append(@, next)]
        /\ AppendEvent(Event(kind, a, next.version))
        /\ UNCHANGED <<immutable, active, transfers>>
    BY <1>7 DEF TransitionApplied
  <2>2. /\ events' \in Seq(EventType)
        /\ \A i \in DOMAIN events : i \in DOMAIN events' /\ events'[i] = events[i]
    BY <1>2, <1>4, <2>1, TransitionEvent
  <2>3. StoreTypeOK' /\ TablesOK' /\ TablesGrow /\ TouchesOnly({a})
    BY <1>2, <1>4, <2>1, <2>2, VersionEffect
  <2> QED
    BY <1>6, <1>7, <2>3, CommitKeeps
<1>8. CASE TransitionAlreadyApplied(a, next, kind) /\ Commit(u, "already")
  <2>1. /\ AppendEvent(Event(kind, a, next.version))
        /\ UNCHANGED <<accounts, immutable, active, transfers>>
    BY <1>8 DEF TransitionAlreadyApplied, append_event
  <2>2. /\ events' \in Seq(EventType)
        /\ \A i \in DOMAIN events : i \in DOMAIN events' /\ events'[i] = events[i]
    BY <1>2, <1>4, <2>1, TransitionEvent
  <2>3. StoreTypeOK'
    BY <1>2, <2>1, <2>2 DEF StoreTypeOK, EventType
  <2>4. TablesOK'
    BY <1>2, <2>1, <2>2 DEF TablesOK, PostingsFromLog, TransferCommitted, Event
  <2>5. TablesGrow /\ TouchesOnly({a})
    BY <2>1 DEF TablesGrow, TouchesOnly, Exists
  <2> QED
    BY <1>6, <1>8, <2>3, <2>4, <2>5, CommitKeeps
<1>9. CASE Rollback(u, "rejected")
  BY <1>9, RollbackKeeps
<1> QED
  BY <1>7, <1>8, <1>9 DEF MoveHead, a, next, kind

\* append_account_version at its last statement.
LEMMA AppendVersionKeeps ==
    ASSUME SqlInv, NEW u \in Session, AppendVersion(u)
    PROVE  SqlInv'
<1> DEFINE a == work[u].account
           next == work[u].next
<1>1. pc[u] = "move" /\ u \notin stale /\ work[u].op = "append"
  BY DEF AppendVersion, At
<1>2. StoreTypeOK /\ TablesOK /\ CallOK(u) /\ ChecksOK(u)
  BY <1>1 DEF SqlInv, SqlTypeOK
<1>3. work[u] \in ChangeCalls("append")
  BY <1>1, <1>2, ChangeCallFacts DEF CallOK
<1>4. a \in Account /\ next \in AccountRecord
  BY <1>2, <1>3, ChangeCallFacts, NextIsRecord
<1>5. dialect = "Postgres" =>
        \A s \in Session \ {u} : \A b \in Account : Held(s, b) => b \notin {a}
  BY <1>1, <1>2 DEF Held, ChecksOK
<1> HIDE DEF a, next
<1>6. CASE /\ accounts' = [accounts EXCEPT ![a] = Append(@, next)]
           /\ UNCHANGED <<immutable, active, transfers, events>>
           /\ Commit(u, "applied")
  <2>1. /\ events' \in Seq(EventType)
        /\ \A i \in DOMAIN events : i \in DOMAIN events' /\ events'[i] = events[i]
    BY <1>2, <1>6 DEF StoreTypeOK, EventType
  <2>2. StoreTypeOK' /\ TablesOK' /\ TablesGrow /\ TouchesOnly({a})
    BY <1>2, <1>4, <1>6, <2>1, VersionEffect
  <2> QED
    BY <1>5, <1>6, <2>2, CommitKeeps
<1>7. CASE Rollback(u, "rejected")
  BY <1>7, RollbackKeeps
<1> QED
  BY <1>6, <1>7 DEF AppendVersion, a, next

\* create_account at its last statement: nobody holds an account that is not there.
LEMMA InsertAccountKeeps ==
    ASSUME SqlInv, NEW u \in Session, InsertAccount(u)
    PROVE  SqlInv'
<1> DEFINE a == work[u].account
           flags == work[u].next.flags
<1>1. pc[u] = "first" /\ u \notin stale
  BY DEF InsertAccount, At
<1>2. StoreTypeOK /\ TablesOK /\ CallOK(u)
  BY DEF SqlInv, SqlTypeOK
<1>3. a \in Account /\ flags \in SUBSET AccountFlags
  BY <1>1, <1>2, CreateCallFacts DEF CallOK
<1> HIDE DEF a, flags
<1>4. CASE create_account(a, flags) /\ Commit(u, "applied")
  <2>1. /\ ~Exists(a)
        /\ accounts' = [accounts EXCEPT ![a] = <<NewAccount(flags)>>]
        /\ UNCHANGED <<immutable, active, transfers, events>>
    BY <1>4 DEF create_account
  <2>2. \A s \in Session \ {u} : \A b \in Account : Held(s, b) => b \notin {a}
    BY <2>1 DEF Held
  <2>3. NewAccount(flags) \in AccountRecord
    BY <1>3 DEF NewAccount, AccountRecord
  <2>4. accounts \in [Account -> Seq(AccountRecord)]
    BY <1>2 DEF StoreTypeOK, AccountRecord
  <2>5. /\ accounts' \in [Account -> Seq(AccountRecord)]
        /\ \A b \in Account : b # a => accounts'[b] = accounts[b]
        /\ accounts'[a] # <<>> /\ accounts[a] = <<>>
    BY <1>3, <2>1, <2>3, <2>4 DEF Exists
  <2>6. StoreTypeOK'
    BY <1>2, <2>1, <2>5 DEF StoreTypeOK, AccountRecord
  <2>7. TablesOK'
    BY <1>2, <2>1 DEF TablesOK, PostingsFromLog, TransferCommitted, Event
  <2>8. TablesGrow /\ TouchesOnly({a})
    <3>1. DOMAIN accounts[a] = {}
      BY <2>5
    <3> QED
      BY <2>1, <2>5, <3>1 DEF TablesGrow, TouchesOnly, Exists
  <2> QED
    BY <1>4, <2>2, <2>6, <2>7, <2>8, CommitKeeps
<1>5. CASE Rollback(u, "rejected")
  BY <1>5, RollbackKeeps
<1> QED
  BY <1>4, <1>5 DEF InsertAccount, a, flags

-----------------------------------------------------------------------------
(* The invariant holds. *)

\* The store as it is when the sessions start.
LEMMA InitInv ==
    ASSUME Init
    PROVE  SqlInv
<1> DEFINE tid == envelope_id(Opening)
           ev == TransferCommitted(tid)
<1>1. Opening.creates \in Seq(Posting)
  BY EnvelopesAssumption
<1>2. /\ immutable = postings_to_create(Opening) /\ active = DOMAIN immutable
      /\ transfers = [t \in {tid} |-> Opening] /\ events = <<ev>>
      /\ accounts = InitialAccounts
  BY DEF Init
<1>3. /\ DOMAIN immutable = NewIds(Opening) /\ IsFiniteSet(NewIds(Opening))
      /\ \A i \in DOMAIN Opening.creates : /\ immutable[<<tid, i>>] = Opening.creates[i]
                                           /\ Opening.creates[i] \in Posting
  BY <1>1, <1>2, CreatedRows, NewIdsFacts
<1>4. StoreTypeOK
  <2>2. accounts \in [Account -> Seq(AccountRecord)]
    BY <1>2, InitialAccountsFacts
  <2>3. \A id \in DOMAIN immutable : immutable[id] \in Posting
    BY <1>3 DEF NewIds
  <2>4. ev \in EventType
    BY <1>2 DEF TransferCommitted, Event, EventType, EventKind
  <2>5. events \in Seq(EventType)
    BY <1>2, <2>4
  <2> QED
    BY <1>2, <2>2, <2>3, <2>5 DEF StoreTypeOK, AccountRecord, EventType
<1>5. TablesOK
  <2>1. immutable = [id \in DOMAIN immutable |-> immutable[id]]
    BY <1>2 DEF postings_to_create
  <2>2. DOMAIN transfers = {tid} /\ transfers[tid] = Opening
    BY <1>2
  <2>3. transfers = [t \in DOMAIN transfers |-> transfers[t]]
    BY <1>2
  <2>4. PostingsFromLog
    <3>1. ASSUME NEW id \in DOMAIN immutable
          PROVE  /\ id = <<id[1], id[2]>> /\ id[1] \in DOMAIN transfers
                 /\ id[2] \in DOMAIN transfers[id[1]].creates
                 /\ immutable[id] = transfers[id[1]].creates[id[2]]
      <4>1. PICK i \in DOMAIN Opening.creates : id = <<tid, i>>
        BY <1>3 DEF NewIds
      <4> QED
        BY <1>3, <2>2, <4>1
    <3>2. \A t \in DOMAIN transfers : \A i \in DOMAIN transfers[t].creates : <<t, i>> \in DOMAIN immutable
      BY <1>3, <2>2 DEF NewIds
    <3> QED
      BY <3>1, <3>2 DEF PostingsFromLog
  <2>5. \E i \in DOMAIN events : events[i] = ev
    <3>1. 1 \in DOMAIN events /\ events[1] = ev
      BY <1>2
    <3> QED
      BY <3>1
  <2> QED
    BY <1>3, <2>1, <2>2, <2>3, <2>4, <2>5 DEF TablesOK
<1>6. /\ dialect \in Dialects
      /\ pc = [s \in Session |-> "idle"] /\ todo = [s \in Session |-> <<>>]
      /\ seen = [s \in Session |-> 0] /\ locked = [a \in Account |-> NoSession]
      /\ writer = NoSession /\ stale = {} /\ requests = 0 /\ LocalsOK
  BY DEF Init, LocalsOK
<1>7. SqlTypeOK
  BY <1>4, <1>6, SessionAssumption, BoundsAssumption DEF SqlTypeOK, SqlPc
<1>8. \A s \in Session : CallOK(s) /\ ChecksOK(s)
  BY <1>6, IdleOK
<1> QED
  BY <1>5, <1>6, <1>7, <1>8 DEF SqlInv

\* Every step keeps the invariant.
LEMMA StepInv ==
    ASSUME SqlInv, [Next]_vars
    PROVE  SqlInv'
<1>1. CASE UNCHANGED vars
  <2>0. UNCHANGED storeVars /\ UNCHANGED sqlVars
    BY <1>1 DEF vars
  <2>1. /\ dialect' = dialect /\ pc' = pc /\ work' = work /\ todo' = todo /\ seen' = seen
        /\ locked' = locked /\ writer' = writer /\ stale' = stale /\ reply' = reply
        /\ requests' = requests
    BY <2>0 DEF sqlVars
  <2>2. StoreTypeOK' /\ TablesOK'
    BY <2>0, SameTablesOK DEF SqlInv, SqlTypeOK
  <2>3. SqlTypeOK' /\ LocalsOK'
    BY <2>1, <2>2 DEF SqlInv, SqlTypeOK, LocalsOK
  <2>4. \A s \in Session : Bystander(s)
    BY <2>1 DEF Bystander
  <2>5. \A s \in Session : CallOK(s)'
    BY <2>0, <2>4, BystandersCall, SameTablesGrow DEF SqlInv
  <2>6. \A s \in Session \ stale : ChecksOK(s)'
    BY <2>0, <2>1, <2>4, BystandersChecksQuiet DEF SqlInv, SqlTypeOK, TablesOK
  <2> QED
    BY <2>1, <2>2, <2>3, <2>5, <2>6 DEF SqlInv
<1>2. ASSUME NEW u \in Session, Begin(u) PROVE SqlInv'
  BY <1>2, BeginKeeps
<1>3. ASSUME NEW u \in Session, Disconnect(u) PROVE SqlInv'
  BY <1>3, RollbackKeeps DEF Disconnect
<1>4. ASSUME NEW u \in Session, Statement(u) PROVE SqlInv'
  BY <1>4, ReadHeadKeeps, LockHeadKeeps, ReadReceiptKeeps, ClaimConsumedKeeps,
     InsertAndCheckFloorKeeps, RecordTransferKeeps, MoveHeadKeeps, AppendVersionKeeps,
     LookForAccountKeeps, InsertAccountKeeps, RollbackKeeps DEF Statement, Outdated
<1> QED
  BY <1>1, <1>2, <1>3, <1>4 DEF Next

\* The invariant of the SQL store's transactions, for any number of sessions.
THEOREM SqlInvariant == Spec => []SqlInv
<1>1. Init => SqlInv
  BY InitInv
<1>2. SqlInv /\ [Next]_vars => SqlInv'
  BY StepInv
<1> QED
  BY <1>1, <1>2, PTL DEF Spec

\* Types of tables and sessions, and no lock, snapshot or writer's place outlives
\* its transaction, whatever fails (SqlTypeOK).
THEOREM SqlTypes == Spec => []SqlTypeOK
<1>1. SqlInv => SqlTypeOK
  BY DEF SqlInv
<1> QED
  BY <1>1, SqlInvariant, PTL

\* Everything a commit checked in its earlier statements still holds at COMMIT:
\* accounts open, inputs live, floors kept (GuardsHoldAtCommit).
THEOREM GuardsHoldAtCommitThm == Spec => []GuardsHoldAtCommit
<1>1. SqlInv => GuardsHoldAtCommit
  <2> SUFFICES ASSUME SqlInv, NEW s \in Session \ stale, pc[s] = "record"
               PROVE  /\ InvolvedOpen(work[s].req)
                      /\ ConsumedActive(work[s].req)
                      /\ FloorKeptBy(work[s].req)
    BY DEF GuardsHoldAtCommit
  <2>1. ChecksOK(s) /\ work[s].op = "commit"
    BY InCommit DEF SqlInv
  <2>2. todo[s] = <<>> /\ ConsumedActive(work[s].req) /\ FloorKeptBy(work[s].req)
    BY <2>1 DEF ChecksOK
  <2>3. ToSet(todo[s]) = {}
    BY <2>2 DEF ToSet
  <2>4. \A a \in work[s].req.involved : Exists(a) /\ Usable(a)
    BY <2>1, <2>3 DEF ChecksOK, Held
  <2> QED
    BY <2>2, <2>4 DEF InvolvedOpen, Usable
<1> QED
  BY <1>1, SqlInvariant, PTL

-----------------------------------------------------------------------------
(* A transaction is one step of the store. *)

\* What the transaction reads with its own rows inserted is what the in-memory
\* store projects, when the rows are new.
LEMMA LiveIsProjected ==
    ASSUME StoreTypeOK, TablesOK, NEW e \in Envelopes, envelope_id(e) \notin DOMAIN transfers,
           NEW a, NEW asset
    PROVE  live_balance(CommitRequest(e), a, asset) = Projected(CommitRequest(e), a, asset)
<1> DEFINE req == CommitRequest(e)
           N == NewIds(e)
           C == ToSet(e.consumes)
           rows == WithRows(immutable, req.create)
           S == {id \in active \ C : immutable[id].owner = a /\ immutable[id].asset = asset}
           R == {id \in N : req.create[id].owner = a /\ req.create[id].asset = asset}
           both == {id \in (active \ C) \cup N : rows[id].owner = a /\ rows[id].asset = asset}
<1>1. /\ req.create = postings_to_create(e) /\ DOMAIN req.create = N /\ req.consume = e.consumes
      /\ \A i \in DOMAIN e.creates : req.create[<<envelope_id(e), i>>] = e.creates[i]
  BY CreatedRows
<1>2. /\ live_balance(req, a, asset) = SumValues(rows, both)
      /\ Projected(req, a, asset) = SumValues(immutable, S) + SumValues(req.create, R)
  BY <1>1 DEF live_balance, Projected
<1>3. N \cap DOMAIN immutable = {} /\ active \subseteq DOMAIN immutable
  BY NewIdsAreFresh DEF TablesOK, StoreTypeOK
<1>4. /\ \A id \in active \ C : rows[id] = immutable[id]
      /\ \A id \in N : rows[id] = req.create[id]
  <2> HIDE DEF req, N
  <2> QED
    BY <1>1, <1>3 DEF WithRows
<1>5. IsFiniteSet(N) /\ \A id \in N : req.create[id] \in Posting
  BY <1>1, NewIdsFacts, EnvelopesAssumption DEF NewIds
<1>6. IsFiniteSet(DOMAIN immutable) /\ \A id \in active : immutable[id] \in Posting
  BY DEF TablesOK, StoreTypeOK
<1>7. S \in SUBSET DOMAIN immutable /\ S \subseteq active /\ R \in SUBSET N
  BY <1>3
<1>8. both = S \cup R /\ S \cap R = {}
  <2> HIDE DEF req, N, rows, C
  <2> QED
    BY <1>3, <1>4
<1>9. \A p \in Posting : p.value \in Int
  BY DEF Posting
<1>10. /\ \A id \in S : rows[id] = immutable[id] /\ rows[id].value \in Int
       /\ \A id \in R : rows[id] = req.create[id] /\ rows[id].value \in Int
  <2> HIDE DEF req, N, rows, C
  <2> QED
    BY <1>4, <1>5, <1>6, <1>7, <1>9
<1> HIDE DEF req, N, C, rows, S, R, both
<1>11. IsFiniteSet(S) /\ IsFiniteSet(R)
  BY <1>5, <1>6, <1>7, FS_Subset
<1>12. HasValues(rows, S) /\ HasValues(rows, R)
  BY <1>10, <1>11 DEF HasValues
<1>13. SumValues(rows, S \cup R) = SumValues(rows, S) + SumValues(rows, R)
  BY <1>8, <1>12, ValuesDisjoint
<1>14. SumValues(rows, S) = SumValues(immutable, S)
  BY <1>10, <1>11, ValuesSame
<1>15. SumValues(rows, R) = SumValues(req.create, R)
  BY <1>10, <1>11, ValuesSame
<1> QED
  BY <1>2, <1>8, <1>13, <1>14, <1>15 DEF req

\* A transfer that is recorded again adds no row: its postings may only become
\* live once more. If it consumes something, that had been made live before.
LEMMA RecordAgain ==
    ASSUME StoreTypeOK, TablesOK, NEW e \in Envelopes, NEW req, req = CommitRequest(e),
           AlreadyCommitted(req), ConsumedActive(req),
           immutable' = WithRows(immutable, req.create),
           transfers' = WithRows(transfers, [tid \in {req.transfer_id} |-> req.record]),
           AppendEvent(TransferCommitted(req.transfer_id))
    PROVE  /\ UNCHANGED <<immutable, transfers, events>>
           /\ req.consume # <<>> => ~LiveIsUnspent
<1> DEFINE tid == envelope_id(e)
<1>1. /\ req.transfer_id = tid /\ req.record = e /\ req.consume = e.consumes
      /\ DOMAIN req.create = NewIds(e)
  BY CreatedRows DEF CommitRequest
<1>2. tid \in DOMAIN transfers /\ envelope_id(transfers[tid]) = envelope_id(e)
  BY <1>1 DEF AlreadyCommitted, TablesOK
<1>3. transfers[tid].creates = e.creates /\ transfers[tid].consumes = e.consumes
  BY <1>2 DEF envelope_id
<1>4. NewIds(e) \subseteq DOMAIN immutable
  BY <1>2, <1>3 DEF TablesOK, PostingsFromLog, NewIds
<1>5. immutable' = immutable
  <2>1. DOMAIN immutable \cup DOMAIN req.create = DOMAIN immutable
    BY <1>1, <1>4
  <2>2. immutable' = [id \in DOMAIN immutable |-> immutable[id]]
    BY <2>1 DEF WithRows
  <2> QED
    BY <2>2 DEF TablesOK
<1>6. transfers' = transfers
  <2>1. transfers' = [t \in DOMAIN transfers |-> transfers[t]]
    BY <1>1, <1>2 DEF WithRows
  <2> QED
    BY <2>1 DEF TablesOK
<1>7. events' = events
  <2>1. PICK i \in DOMAIN events : events[i] = TransferCommitted(tid)
    BY <1>2 DEF TablesOK
  <2>2. SameDedupKey(events[i], TransferCommitted(tid))
    BY <2>1 DEF SameDedupKey, TransferCommitted, Event
  <2> QED
    BY <1>1, <2>2 DEF AppendEvent
<1>8. ASSUME req.consume # <<>>, LiveIsUnspent PROVE FALSE
  <2>1. e.consumes \in Seq({e.consumes[i] : i \in DOMAIN e.consumes}) /\ e.consumes # <<>>
    BY <1>1, <1>8, EnvelopesAssumption
  <2>2. 1 \in DOMAIN e.consumes
    <3>1. Len(e.consumes) \in Nat /\ DOMAIN e.consumes = 1..Len(e.consumes) /\ Len(e.consumes) # 0
      BY <2>1, LenProperties, EmptySeq
    <3> QED
      BY <3>1
  <2>3. e.consumes[1] \in ToSet(e.consumes)
    BY <2>2 DEF ToSet
  <2>4. e.consumes[1] \in active
    BY <1>1, <2>3 DEF ConsumedActive
  <2>5. e.consumes[1] \in SpentByLog
    BY <1>2, <1>3, <2>3 DEF SpentByLog
  <2> QED
    BY <1>8, <2>4, <2>5 DEF LiveIsUnspent
<1> QED
  BY <1>5, <1>6, <1>7, <1>8

\* Recording a transfer is a step of the store, or a replay.
LEMMA RecordIsAtomic ==
    ASSUME SqlInv, NEW u \in Session, RecordTransfer(u)
    PROVE  StoreStep \/ Replay
<1>1. pc[u] = "record" /\ u \notin stale
  BY DEF RecordTransfer, At
<1>2. StoreTypeOK /\ TablesOK /\ CallOK(u) /\ ChecksOK(u) /\ dialect \in {"Postgres", "Sqlite"}
  BY <1>1, DialectsAssumption DEF SqlInv, SqlTypeOK
<1>3. PICK e \in Envelopes : /\ ToSet(e.consumes) \subseteq DOMAIN immutable
                             /\ work[u].op = "commit" /\ work[u].req = CommitRequest(e)
  BY <1>1, <1>2, CommitCallFacts DEF CallOK
<1> DEFINE req == CommitRequest(e)
<1>4. /\ active' = ActiveAfter(req)
      /\ immutable' = WithRows(immutable, req.create)
      /\ transfers' = WithRows(transfers, [tid \in {req.transfer_id} |-> req.record])
      /\ AppendEvent(TransferCommitted(req.transfer_id))
      /\ accounts' = accounts
  BY <1>3 DEF RecordTransfer, append_event_tx
<1>5. ConsumedActive(req) /\ FloorKeptBy(req)
  BY <1>1, <1>2, <1>3 DEF ChecksOK
<1>6. InvolvedOpen(req)
  <2>1. ToSet(todo[u]) = {}
    BY <1>1, <1>2 DEF ChecksOK, ToSet
  <2>2. \A a \in work[u].req.involved : Held(u, a)
    BY <1>1, <1>2, <1>3, <2>1 DEF ChecksOK
  <2> QED
    BY <1>3, <2>2 DEF InvolvedOpen, Held, Usable
<1>7. CASE AlreadyCommitted(req)
  <2>1. dialect = "Postgres"
    BY <1>1, <1>2, <1>3, <1>7 DEF ChecksOK
  <2>2. UNCHANGED <<immutable, transfers, events>> /\ (req.consume # <<>> => ~LiveIsUnspent)
    <3> HIDE DEF req
    <3>1. req = CommitRequest(e)
      BY DEF req
    <3> QED
      BY <1>2, <1>4, <1>5, <1>7, <3>1, RecordAgain
  <2>3. work[u].req = req
    BY <1>3
  <2> HIDE DEF req
  <2> QED
    BY <1>1, <1>4, <1>7, <2>1, <2>2, <2>3 DEF Replay
<1>8. CASE ~AlreadyCommitted(req)
  <2>1. envelope_id(e) \notin DOMAIN transfers
    BY <1>8 DEF AlreadyCommitted, CommitRequest
  <2>2. FloorKept(req)
    <3>1. \A a, asset : live_balance(req, a, asset) = Projected(req, a, asset)
      BY <1>2, <2>1, LiveIsProjected
    <3> HIDE DEF req
    <3> QED
      BY <1>5, <3>1 DEF FloorKept, FloorKeptBy
  <2>3. commit_envelope(req)
    <3> HIDE DEF req
    <3> QED
      BY <1>4, <1>5, <1>6, <1>8, <2>2 DEF commit_envelope, Accepts
  <2> QED
    BY <1>3, <2>3 DEF StoreStep
<1> QED
  BY <1>7, <1>8

\* The committing statements of the account calls are steps of the store.
LEMMA AccountsAtomic ==
    ASSUME SqlInv, NEW u \in Session, MoveHead(u) \/ AppendVersion(u) \/ InsertAccount(u)
    PROVE  StoreStep \/ UNCHANGED storeVars
<1>0. CallOK(u)
  BY DEF SqlInv
<1>1. CASE MoveHead(u)
  <2>1. work[u] \in ChangeCalls("transition")
    BY <1>0, <1>1, ChangeCallFacts DEF MoveHead, At, CallOK
  <2> QED
    BY <1>1, <2>1 DEF MoveHead, StoreStep, commit_transition, Rollback
<1>2. CASE AppendVersion(u)
  <2>1. work[u] \in ChangeCalls("append")
    BY <1>0, <1>2, ChangeCallFacts DEF AppendVersion, At, CallOK
  <2> QED
    BY <1>2, <2>1 DEF AppendVersion, IsNext, StoreStep, Rollback
<1>3. CASE InsertAccount(u)
  <2>1. /\ work[u].account \in DOMAIN Creatable
        /\ work[u].next.flags = Creatable[work[u].account]
    BY <1>0, <1>3, CreateCallFacts DEF InsertAccount, At, CallOK
  <2> QED
    BY <1>3, <2>1 DEF InsertAccount, StoreStep, Rollback
<1> QED
  BY <1>1, <1>2, <1>3

\* However statements interleave and connections fail, a transaction takes effect
\* as one step of the in-memory store; the only exception is a replay, on Postgres
\* (AtomicUnlessReplayed).
THEOREM AtomicUnlessReplayedThm == Spec => AtomicUnlessReplayed
<1>1. SqlInv /\ [Next]_vars => [StoreStep \/ Replay]_storeVars
  <2> SUFFICES ASSUME SqlInv, [Next]_vars PROVE StoreStep \/ Replay \/ UNCHANGED storeVars
    OBVIOUS
  <2>1. CASE UNCHANGED vars
    BY <2>1 DEF vars
  <2>2. ASSUME NEW u \in Session, RecordTransfer(u) PROVE StoreStep \/ Replay
    BY <2>2, RecordIsAtomic
  <2>3. ASSUME NEW u \in Session, MoveHead(u) \/ AppendVersion(u) \/ InsertAccount(u)
        PROVE  StoreStep \/ UNCHANGED storeVars
    BY <2>3, AccountsAtomic
  <2>4. ASSUME NEW u \in Session, \/ Begin(u) \/ Disconnect(u) \/ ReadHead(u) \/ LockHead(u)
                                  \/ ReadReceipt(u) \/ ClaimConsumed(u) \/ InsertAndCheckFloor(u)
                                  \/ LookForAccount(u) \/ Outdated(u)
        PROVE  UNCHANGED storeVars
    BY <2>4 DEF Begin, Disconnect, ReadHead, LockHead, ReadReceipt, ClaimConsumed,
                InsertAndCheckFloor, LookForAccount, Outdated, Rollback
  <2> QED
    BY <2>1, <2>2, <2>3, <2>4 DEF Next, Statement
<1> QED
  BY <1>1, SqlInvariant, PTL DEF Spec, AtomicUnlessReplayed
=============================================================================
