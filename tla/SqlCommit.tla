------------------------------ MODULE SqlCommit ------------------------------
(***************************************************************************)
(* kuatia-storage-sql: the writes of CommitStore and AccountStore, one     *)
(* SQL statement per step, run by concurrent sessions of the database.     *)
(*                                                                         *)
(*   commit_envelope      receipt -> head* -> claim -> floor -> record     *)
(*   commit_transition    head -> move                                     *)
(*   append_account_version  head -> move                                  *)
(*   create_account       create -> first                                  *)
(*                                                                         *)
(* The tables of CommitStore are what is committed: the writes of an open  *)
(* transaction land together in its last step. What the two databases do   *)
(* with the statements is external to the code:                            *)
(*                                                                         *)
(*   Postgres  each statement reads what is committed when it runs; FOR    *)
(*             UPDATE waits for the row's lock, and finds no row when the  *)
(*             holder deleted it;                                          *)
(*   Sqlite    a transaction reads the snapshot of its first statement,    *)
(*             there is one writer, and one whose snapshot is no longer    *)
(*             the latest cannot become it.                                *)
(*                                                                         *)
(* A connection may fail at any statement, and at the COMMIT after it took *)
(* effect. Left out: serialisation of rows to text, splitting id lists at  *)
(* 500, and reservations, which no transaction here makes.                 *)
(***************************************************************************)
EXTENDS CommitStore

CONSTANTS Session,      \* concurrent database sessions
          NoSession,    \* no owner of a lock
          Dialects,     \* the databases to run on
          Opening,      \* the envelope committed before the sessions start
          Creatable,    \* the accounts sessions may create: account -> flags
          Envelopes,    \* the envelopes sessions may commit
          Transition,   \* the changes sessions may make: {<<account, kind>>}
          MaxVersion,   \* bound: the version an account may reach
          MaxRequests   \* bound: transactions begun in a behaviour

ASSUME SessionAssumption == NoSession \notin Session
ASSUME DialectsAssumption == Dialects \subseteq {"Postgres", "Sqlite"}
ASSUME BoundsAssumption == MaxVersion \in Nat /\ MaxRequests \in Nat
ASSUME AccountAssumption ==
    /\ Account \subseteq Int \X Int
    /\ DOMAIN Creatable \subseteq Account
    /\ \A a \in DOMAIN Creatable : Creatable[a] \subseteq AccountFlags
    /\ Transition \subseteq Account \X LifecycleKind
ASSUME EnvelopesAssumption ==
    \A e \in Envelopes \cup {Opening} :
        /\ e.creates \in Seq(Posting)
        /\ e.consumes \in Seq({e.consumes[i] : i \in DOMAIN e.consumes})

VARIABLES dialect,   \* the database this store runs on
          pc,        \* session -> its next statement
          work,      \* session -> the call it makes
          todo,      \* session -> the accounts whose head it has still to lock
          seen,      \* session -> the version its locking read found, 0: none yet
          locked,    \* account -> the session that holds its head row (Postgres)
          writer,    \* the session that is the writer (Sqlite)
          stale,     \* the sessions whose snapshot is not the latest (Sqlite)
          reply,     \* session -> what its last call returned
          requests

sqlVars == <<dialect, pc, work, todo, seen, locked, writer, stale, reply, requests>>
vars == <<storeVars, sqlVars>>

NoWork == [op |-> "none"]

\* The store after the Existing accounts were created and Opening was committed.
Init ==
    /\ accounts = InitialAccounts
    /\ immutable = postings_to_create(Opening)
    /\ active = DOMAIN immutable
    /\ transfers = [tid \in {envelope_id(Opening)} |-> Opening]
    /\ events = <<TransferCommitted(envelope_id(Opening))>>
    /\ dialect \in Dialects
    /\ pc = [s \in Session |-> "idle"]
    /\ work = [s \in Session |-> NoWork]
    /\ todo = [s \in Session |-> <<>>]
    /\ seen = [s \in Session |-> 0]
    /\ locked = [a \in Account |-> NoSession]
    /\ writer = NoSession
    /\ stale = {}
    /\ reply = [s \in Session |-> "none"]
    /\ requests = 0

-----------------------------------------------------------------------------
(* Transactions, as the databases run them. *)

\* The session has issued a statement, so that it has a snapshot.
HasSnapshot(s) ==
    /\ pc[s] \notin {"idle", "receipt", "create"}
    /\ pc[s] = "head" /\ work[s].op # "commit" => seen[s] # 0

\* A statement that reads can run: Sqlite's reads of an outdated snapshot only
\* lead to a refusal or to a write that fails, which is Outdated below.
At(s, label) == pc[s] = label /\ s \notin stale

\* Sqlite makes the session the writer, or has it wait for the present one.
Writes(s) ==
    /\ dialect = "Sqlite" => writer \in {NoSession, s}
    /\ writer' = IF dialect = "Sqlite" THEN s ELSE writer

Goto(s, label) == pc' = [pc EXCEPT ![s] = label]

\* (Mutant: the locks outlive the transaction.)
End_KeepsLocks(s, answer) ==
    /\ pc' = [pc EXCEPT ![s] = "idle"]
    /\ work' = [work EXCEPT ![s] = NoWork]
    /\ todo' = [todo EXCEPT ![s] = <<>>]
    /\ seen' = [seen EXCEPT ![s] = 0]
    /\ reply' = [reply EXCEPT ![s] = answer]
    /\ UNCHANGED <<dialect, locked, requests>>

\* COMMIT or ROLLBACK: the locks are released and the call returns.
End(s, answer) ==
    /\ pc' = [pc EXCEPT ![s] = "idle"]
    /\ work' = [work EXCEPT ![s] = NoWork]
    /\ todo' = [todo EXCEPT ![s] = <<>>]
    /\ seen' = [seen EXCEPT ![s] = 0]
    /\ locked' = [a \in Account |-> IF locked[a] = s THEN NoSession ELSE locked[a]]
    /\ reply' = [reply EXCEPT ![s] = answer]
    /\ UNCHANGED <<dialect, requests>>

Rollback(s, answer) ==
    /\ End(s, answer)
    /\ writer' = IF writer = s THEN NoSession ELSE writer
    /\ stale' = stale \ {s}
    /\ UNCHANGED storeVars

\* COMMIT, which may land and still be reported as an error.
Commit(s, answer) ==
    /\ \E a \in {answer, "error"} : End(s, a)
    /\ dialect = "Sqlite" => writer \in {NoSession, s}
    /\ writer' = NoSession
    /\ stale' = IF dialect = "Sqlite" THEN {t \in Session \ {s} : HasSnapshot(t)} ELSE {}

\* The connection fails at any statement.
Disconnect(s) == pc[s] # "idle" /\ Rollback(s, "error")

Outdated(s) == s \in stale /\ Rollback(s, "error")

-----------------------------------------------------------------------------
(* The calls. *)

\* (Mutant: the accounts are locked in the order the envelope names them.)
LockOrder_AsNamed(req) ==
    LET created  == [i \in DOMAIN req.record.creates |-> req.record.creates[i].owner]
        consumed == [i \in DOMAIN req.consume |-> immutable[req.consume[i]].owner]
    IN created \o consumed

\* The ledger sorts the involved accounts by id and drops the duplicates.
LockOrder(req) ==
    SortedSeq(req.involved, LAMBDA a, b : a[1] < b[1] \/ (a[1] = b[1] /\ a[2] < b[2]))

\* The envelope's consumed postings were loaded before the call.
CommitCalls ==
    {[op |-> "commit", req |-> CommitRequest(e)] :
        e \in {f \in Envelopes : ToSet(f.consumes) \subseteq DOMAIN immutable}}

\* A change of a version the account has or once had; the ledger makes no transition
\* from a closed one.
ChangeCalls(op) ==
    UNION {{[op |-> op, account |-> t[1], kind |-> t[2],
             next |-> NextVersion(t[2], accounts[t[1]][v])] :
                v \in {u \in DOMAIN accounts[t[1]] :
                         /\ u < MaxVersion
                         /\ op = "transition" => ~is_closed(accounts[t[1]][u])}} :
              t \in Transition}

CreateCalls ==
    {[op |-> "create", account |-> a, next |-> NewAccount(Creatable[a])] : a \in DOMAIN Creatable}

Begin(s) ==
    /\ pc[s] = "idle"
    /\ requests < MaxRequests
    /\ requests' = requests + 1
    /\ \E w \in CommitCalls \cup ChangeCalls("transition") \cup ChangeCalls("append")
                \cup CreateCalls :
          /\ work' = [work EXCEPT ![s] = w]
          /\ todo' = [todo EXCEPT ![s] = CASE w.op = "commit" -> LockOrder(w.req)
                                           [] w.op = "create" -> <<>>
                                           [] OTHER           -> <<w.account>>]
          /\ Goto(s, CASE w.op = "commit" -> "receipt"
                       [] w.op = "create" -> "create"
                       [] OTHER           -> "head")
    /\ reply' = [reply EXCEPT ![s] = "none"]
    /\ UNCHANGED <<storeVars, dialect, seen, locked, writer, stale>>

-----------------------------------------------------------------------------
(* locked_account: the head row of one account, FOR UPDATE. *)

\* The statement looks the row up. Without one the call fails; append_account_
\* version reports that nothing matched.
ReadHead(s) ==
    LET a == Head(todo[s])
    IN /\ At(s, "head") /\ todo[s] # <<>> /\ seen[s] = 0
       /\ \/ /\ Exists(a)
             /\ seen' = [seen EXCEPT ![s] = head(a).version]
             /\ UNCHANGED <<storeVars, dialect, pc, work, todo, locked, writer, stale,
                            reply, requests>>
          \/ /\ ~Exists(a)
             /\ Rollback(s, "missing")

\* (Mutant: the locking clause is left out.)
RowFree_NoLock(s, a) == TRUE

\* Nobody else holds the row.
RowFree(s, a) == dialect = "Postgres" => locked[a] \in {NoSession, s}

\* Neither frozen nor closed.
Usable(a) == ~is_frozen(head(a)) /\ ~is_closed(head(a))

\* The statement gets the row, unless the session it waited for replaced it; a
\* commit returns when the account is frozen or closed.
LockHead(s) ==
    LET a    == Head(todo[s])
        kept == head(a).version = seen[s]
    IN /\ At(s, "head") /\ todo[s] # <<>> /\ seen[s] # 0
       /\ RowFree(s, a)
       /\ \/ /\ kept
             /\ work[s].op = "commit" => Usable(a)
             /\ locked' = IF dialect = "Postgres" THEN [locked EXCEPT ![a] = s] ELSE locked
             /\ todo' = [todo EXCEPT ![s] = Tail(@)]
             /\ seen' = [seen EXCEPT ![s] = 0]
             /\ Goto(s, IF Len(todo[s]) > 1 THEN "head"
                         ELSE IF work[s].op = "commit" THEN "claim" ELSE "move")
             /\ UNCHANGED <<storeVars, dialect, work, writer, stale, reply, requests>>
          \/ /\ kept
             /\ work[s].op = "commit" /\ ~Usable(a)
             /\ Rollback(s, "rejected")
          \/ /\ ~kept
             /\ Rollback(s, "missing")

-----------------------------------------------------------------------------
(* commit_envelope. *)

\* A committed transfer answers with its receipt.
ReadReceipt(s) ==
    /\ At(s, "receipt")
    /\ \/ /\ AlreadyCommitted(work[s].req)
          /\ Rollback(s, "already")
       \/ /\ ~AlreadyCommitted(work[s].req)
          /\ Goto(s, "head")
          /\ UNCHANGED <<storeVars, dialect, work, todo, seen, locked, writer, stale,
                         reply, requests>>

\* The consumed rows are read and, when all of them are live, deleted.
ClaimConsumed(s) ==
    LET req == work[s].req
    IN /\ At(s, "claim")
       /\ \/ /\ ConsumedActive(req)
             /\ IF req.consume = <<>> THEN UNCHANGED writer ELSE Writes(s)
             /\ Goto(s, "floor")
             /\ UNCHANGED <<storeVars, dialect, work, todo, seen, locked, stale, reply,
                            requests>>
          \/ /\ ~ConsumedActive(req)
             /\ Rollback(s, "rejected")

\* (Mutant: the rows the transaction inserted are not counted.)
live_balance_CommittedRows(req, a, asset) ==
    SumValues(immutable, {id \in active \ ToSet(req.consume) :
                              immutable[id].owner = a /\ immutable[id].asset = asset})

\* live_balance: the live rows of one key as the transaction sees them.
live_balance(req, a, asset) ==
    LET rows == WithRows(immutable, req.create)
    IN SumValues(rows, {id \in (active \ ToSet(req.consume)) \cup DOMAIN req.create :
                            rows[id].owner = a /\ rows[id].asset = asset})

FloorKeptBy(req) ==
    \A a \in req.involved :
        forbids_overdraft(head(a)) =>
            \A asset \in TouchedAssets(req, a) : live_balance(req, a, asset) >= 0

\* The created rows are inserted, then each touched floor is read.
InsertAndCheckFloor(s) ==
    /\ At(s, "floor")
    /\ \/ /\ FloorKeptBy(work[s].req)
          /\ IF work[s].req.record.creates = <<>> THEN UNCHANGED writer ELSE Writes(s)
          /\ Goto(s, "record")
          /\ UNCHANGED <<storeVars, dialect, work, todo, seen, locked, stale, reply, requests>>
       \/ /\ ~FloorKeptBy(work[s].req)
          /\ Rollback(s, "rejected")

\* append_event_tx: ON CONFLICT (dedup_key) DO NOTHING.
append_event_tx(event) == AppendEvent(event)

\* Transfer, index and event rows are inserted unless they are there, and the
\* transaction commits: only now do others see what it deleted and inserted.
RecordTransfer(s) ==
    LET req == work[s].req
    IN /\ At(s, "record")
       /\ active' = ActiveAfter(req)
       /\ immutable' = WithRows(immutable, req.create)
       /\ transfers' = WithRows(transfers, [tid \in {req.transfer_id} |-> req.record])
       /\ append_event_tx(TransferCommitted(req.transfer_id))
       /\ UNCHANGED accounts
       /\ Commit(s, "committed")

-----------------------------------------------------------------------------
(* Account versions. *)

\* commit_transition with the head locked: apply it, find it applied, or refuse.
MoveHead(s) ==
    LET a == work[s].account next == work[s].next
    IN /\ At(s, "move") /\ work[s].op = "transition"
       /\ \/ TransitionApplied(a, next, work[s].kind) /\ Commit(s, "applied")
          \/ TransitionAlreadyApplied(a, next, work[s].kind) /\ Commit(s, "already")
          \/ TransitionRefused(a, next) /\ Rollback(s, "rejected")

\* The version after the head, and no other.
IsNext(a, next) == next.version = head(a).version + 1

\* append_account_version with the head locked: a guarded write, and no event.
AppendVersion(s) ==
    LET a == work[s].account next == work[s].next
    IN /\ At(s, "move") /\ work[s].op = "append"
       /\ \/ /\ IsNext(a, next)
             /\ accounts' = [accounts EXCEPT ![a] = Append(@, next)]
             /\ UNCHANGED <<immutable, active, transfers, events>>
             /\ Commit(s, "applied")
          \/ /\ ~IsNext(a, next)
             /\ Rollback(s, "rejected")

\* create_account: an account with a head row is left as it is. There is no row
\* to lock before the first version exists.
LookForAccount(s) ==
    /\ At(s, "create")
    /\ \/ /\ Exists(work[s].account)
          /\ Rollback(s, "rejected")
       \/ /\ ~Exists(work[s].account)
          /\ Goto(s, "first")
          /\ UNCHANGED <<storeVars, dialect, work, todo, seen, locked, writer, stale,
                         reply, requests>>

\* The inserts wait for another creator's and then find its rows in place.
InsertAccount(s) ==
    /\ At(s, "first")
    /\ \/ /\ create_account(work[s].account, work[s].next.flags)
          /\ Commit(s, "applied")
       \/ /\ Exists(work[s].account)
          /\ Rollback(s, "rejected")

-----------------------------------------------------------------------------
\* A statement of the session; which of them can run depends on pc.
Statement(s) ==
    \/ ReadHead(s) \/ LockHead(s)
    \/ ReadReceipt(s) \/ ClaimConsumed(s) \/ InsertAndCheckFloor(s) \/ RecordTransfer(s)
    \/ MoveHead(s) \/ AppendVersion(s) \/ LookForAccount(s) \/ InsertAccount(s)
    \/ Outdated(s)

Next == \E s \in Session : Begin(s) \/ Statement(s) \/ Disconnect(s)

\* A session that can run its next statement runs it: the database neither stops
\* nor keeps a statement waiting for a row that is free.
Spec == Init /\ [][Next]_vars /\ \A s \in Session : WF_vars(Statement(s))

-----------------------------------------------------------------------------
(* Correctness. *)

SqlPc == {"idle", "receipt", "head", "claim", "floor", "record", "move", "create", "first"}

\* Types; a session holds locks, and is outdated or the writer, only in a transaction.
SqlTypeOK ==
    /\ StoreTypeOK
    /\ dialect \in Dialects
    /\ pc \in [Session -> SqlPc]
    /\ locked \in [Account -> Session \cup {NoSession}]
    /\ writer \in Session \cup {NoSession}
    /\ stale \subseteq Session
    /\ requests \in 0..MaxRequests
    /\ \A s \in Session :
          pc[s] = "idle" => s \notin stale /\ s # writer /\ \A a \in Account : locked[a] # s

\* Everything a transaction checked in its earlier statements is still so when it
\* commits, several statements later: its accounts are open, what it consumes is
\* live, the floors it read are kept.
GuardsHoldAtCommit ==
    \A s \in Session \ stale : pc[s] = "record" =>
        /\ InvolvedOpen(work[s].req)
        /\ ConsumedActive(work[s].req)
        /\ FloorKeptBy(work[s].req)

\* A replay: a transfer committed since this session looked for its receipt is
\* written again. One that consumes something passes its guards only when an
\* earlier replay has made what it spent live again.
Replay ==
    \E s \in Session :
        LET req == work[s].req
        IN /\ dialect = "Postgres" /\ pc[s] = "record"
           /\ AlreadyCommitted(req)
           /\ req.consume # <<>> => ~LiveIsUnspent
           /\ active' = ActiveAfter(req)
           /\ UNCHANGED <<accounts, immutable, transfers, events>>

\* One step of the store: what the in-memory store does under its locks.
StoreStep ==
    \/ \E e \in Envelopes : /\ ToSet(e.consumes) \subseteq DOMAIN immutable
                            /\ commit_envelope(CommitRequest(e))
    \/ \E a \in DOMAIN Creatable : create_account(a, Creatable[a])
    \/ \E w \in ChangeCalls("transition") : commit_transition(w.account, w.next, w.kind)
    \/ \E w \in ChangeCalls("append") :
          /\ w.next.version = head(w.account).version + 1
          /\ accounts' = [accounts EXCEPT ![w.account] = Append(@, w.next)]
          /\ UNCHANGED <<immutable, active, transfers, events>>

\* Statement by statement, with any interleaving and any failure, a transaction is
\* one atomic step of the store; on Postgres the only other step is a replay.
AtomicUnlessReplayed == [][StoreStep \/ Replay]_storeVars

\* Every transaction comes to an end: no two wait for each other's rows.
EveryTransactionEnds == \A s \in Session : pc[s] # "idle" ~> pc[s] = "idle"

-----------------------------------------------------------------------------
(* What the code says of itself and does not do. *)

\* posting.rs: a replayed commit does not re-activate a posting spent since.
SpentStaysSpent ==
    [][\A id \in DOMAIN immutable : id \notin active => id \notin active']_vars
=============================================================================
