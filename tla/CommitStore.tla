----------------------------- MODULE CommitStore -----------------------------
(***************************************************************************)
(* kuatia-storage: the tables of a store and its atomic writes, as the     *)
(* in-memory store performs them under its locks.                          *)
(*                                                                         *)
(*   accounts   account -> sequence of versions (<<>>: no such account)    *)
(*   immutable  posting id -> posting, every posting ever created          *)
(*   active     ids of the spendable postings                              *)
(*   transfers  transfer id -> envelope                                    *)
(*   events     the event log, oldest first                                *)
(*                                                                         *)
(* A posting in `immutable` and not in `active` is Spent. Reservations (no *)
(* ledger operation makes one) are not part of this module.                *)
(***************************************************************************)
EXTENDS Validate

CONSTANT Existing   \* the accounts that exist at the start: account -> flags

ASSUME ExistingAssumption ==
    /\ DOMAIN Existing \subseteq Account
    /\ \A a \in DOMAIN Existing : Existing[a] \subseteq AccountFlags

VARIABLES accounts, immutable, active, transfers, events

storeVars == <<accounts, immutable, active, transfers, events>>

Exists(a) == accounts[a] # <<>>
head(a) == accounts[a][Len(accounts[a])]

PostingsOf(ids, account) == {id \in ids : immutable[id].owner = account}

-----------------------------------------------------------------------------
(* The event log. *)

LifecycleKind == {"AccountFrozen", "AccountUnfrozen", "AccountClosed"}

Event(kind, subject, version) ==
    [kind |-> kind, subject |-> subject, version |-> version]

TransferCommitted(tid) == Event("TransferCommitted", tid, 0)

\* (Mutants: the key leaves the version out, or has the kind in.)
SameDedupKey_NoVersion(e, f) ==
    /\ e.kind = "TransferCommitted" <=> f.kind = "TransferCommitted"
    /\ "AccountCreated" \notin {e.kind, f.kind}
    /\ e.subject = f.subject

SameDedupKey_WithKind(e, f) ==
    /\ e.kind = f.kind
    /\ e.kind # "AccountCreated"
    /\ e.subject = f.subject
    /\ e.version = f.version

\* event_dedup_key: a transfer is keyed by its id, a lifecycle transition by
\* account and version whatever its kind; AccountCreated has no key.
SameDedupKey(e, f) ==
    /\ e.kind = "TransferCommitted" <=> f.kind = "TransferCommitted"
    /\ "AccountCreated" \notin {e.kind, f.kind}
    /\ e.subject = f.subject
    /\ e.version = f.version

AppendEvent(e) ==
    events' = IF \E i \in DOMAIN events : SameDedupKey(events[i], e)
                THEN events
                ELSE Append(events, e)

-----------------------------------------------------------------------------
(* commit_envelope. *)

\* The request an envelope becomes: what it consumes, what it creates, and the
\* owners of both, which the store indexes and guards.
CommitRequest(envelope) ==
    [transfer_id |-> envelope_id(envelope),
     consume     |-> envelope.consumes,
     create      |-> postings_to_create(envelope),
     involved    |-> referenced_accounts(envelope)
                     \cup {immutable[id].owner : id \in ToSet(envelope.consumes)},
     record      |-> envelope]

\* (Mutant: a transfer is recognised by its outputs instead of its id.)
AlreadyCommitted_ByOutputs(req) ==
    \E t \in DOMAIN transfers : transfers[t].creates = req.record.creates

AlreadyCommitted(req) == req.transfer_id \in DOMAIN transfers

\* (Mutant: frozen accounts pass the guard.)
InvolvedOpen_IgnoresFreeze(req) ==
    \A a \in req.involved : Exists(a) /\ ~is_closed(head(a))

\* The account guard: every involved account exists, not frozen, not closed.
InvolvedOpen(req) ==
    \A a \in req.involved : Exists(a) /\ ~is_frozen(head(a)) /\ ~is_closed(head(a))

\* (Mutant: the consumed postings are not looked up.)
ConsumedActive_Unchecked(req) == TRUE

\* The double-spend guard: every consumed posting is still active.
ConsumedActive(req) == ToSet(req.consume) \subseteq active

\* The assets of an account that a request touches.
TouchedAssets(req, a) ==
    {req.create[id].asset : id \in {i \in DOMAIN req.create : req.create[i].owner = a}}
    \cup {immutable[id].asset : id \in PostingsOf(ToSet(req.consume), a)}

\* The balance of (a, asset) once the request is applied: the active postings
\* that survive it plus the created ones.
Projected(req, a, asset) ==
    SumValues(immutable, {id \in active \ ToSet(req.consume) :
                              immutable[id].owner = a /\ immutable[id].asset = asset})
    + SumValues(req.create, {id \in DOMAIN req.create :
                              req.create[id].owner = a /\ req.create[id].asset = asset})

\* (Mutant: the floor is left to validation.)
FloorKept_Unchecked(req) == TRUE

\* The overdraft floor of the accounts that forbid overdraft.
FloorKept(req) ==
    \A a \in req.involved :
        forbids_overdraft(head(a)) =>
            \A asset \in TouchedAssets(req, a) : Projected(req, a, asset) >= 0

Accepts(req) ==
    /\ ~AlreadyCommitted(req)
    /\ InvolvedOpen(req)
    /\ ConsumedActive(req)
    /\ FloorKept(req)

\* (Mutant: consumed postings stay spendable.)
ActiveAfter_KeepsConsumed(req) == active \cup DOMAIN req.create

\* The spendable postings once the request is applied.
ActiveAfter(req) == (active \ ToSet(req.consume)) \cup DOMAIN req.create

\* Committed: spend, create, record and announce, in one step.
commit_envelope(req) ==
    /\ Accepts(req)
    /\ active' = ActiveAfter(req)
    /\ immutable' = WithRows(immutable, req.create)
    /\ transfers' = WithRows(transfers, [tid \in {req.transfer_id} |-> req.record])
    /\ AppendEvent(TransferCommitted(req.transfer_id))
    /\ UNCHANGED accounts

-----------------------------------------------------------------------------
(* Accounts: creation and version transitions. *)

\* (Mutant: an existing account is overwritten.)
create_account_Overwrites(a, flags) ==
    /\ accounts' = [accounts EXCEPT ![a] = <<NewAccount(flags)>>]
    /\ UNCHANGED <<immutable, active, transfers, events>>

create_account(a, flags) ==
    /\ ~Exists(a)
    /\ accounts' = [accounts EXCEPT ![a] = <<NewAccount(flags)>>]
    /\ UNCHANGED <<immutable, active, transfers, events>>

append_event(e) ==
    /\ AppendEvent(e)
    /\ UNCHANGED <<accounts, immutable, active, transfers>>

\* Refused: no such account, closed, or a version past the next one.
TransitionRefused(a, next) ==
    \/ ~Exists(a)
    \/ is_closed(head(a))
    \/ next.version > head(a).version + 1

\* AlreadyApplied: the head has reached this version; only the event is ensured.
TransitionAlreadyApplied(a, next, kind) ==
    /\ Exists(a)
    /\ ~is_closed(head(a))
    /\ head(a).version >= next.version
    /\ append_event(Event(kind, a, next.version))

\* (Mutant: the version is not compared with the head's.)
TransitionApplied_AnyVersion(a, next, kind) ==
    /\ Exists(a)
    /\ ~is_closed(head(a))
    /\ accounts' = [accounts EXCEPT ![a] = Append(@, next)]
    /\ AppendEvent(Event(kind, a, next.version))
    /\ UNCHANGED <<immutable, active, transfers>>

\* Applied: the version and its event land together.
TransitionApplied(a, next, kind) ==
    /\ Exists(a)
    /\ ~is_closed(head(a))
    /\ next.version = head(a).version + 1
    /\ accounts' = [accounts EXCEPT ![a] = Append(@, next)]
    /\ AppendEvent(Event(kind, a, next.version))
    /\ UNCHANGED <<immutable, active, transfers>>

commit_transition(a, next, kind) ==
    TransitionApplied(a, next, kind) \/ TransitionAlreadyApplied(a, next, kind)

-----------------------------------------------------------------------------
\* The flag mutations of freeze, unfreeze and close.
Mutate(kind, flags) ==
    CASE kind = "AccountFrozen"   -> flags \cup {"FROZEN"}
      [] kind = "AccountUnfrozen" -> flags \ {"FROZEN"}
      [] kind = "AccountClosed"   -> (flags \cup {"CLOSED"}) \ {"FROZEN"}

\* The next version a caller that read `account` asks for.
NextVersion(kind, account) ==
    [version |-> account.version + 1, flags |-> Mutate(kind, account.flags)]

\* The accounts that exist at the start, at their first version.
InitialAccounts ==
    [a \in Account |-> IF a \in DOMAIN Existing THEN <<NewAccount(Existing[a])>> ELSE <<>>]

StoreInit ==
    /\ accounts = InitialAccounts
    /\ immutable = <<>>
    /\ active = {}
    /\ transfers = <<>>
    /\ events = <<>>

-----------------------------------------------------------------------------
(* Correctness. *)

EventKind == LifecycleKind \cup {"TransferCommitted", "AccountCreated"}

\* Types of the tables; the subject of an event is an account or a stored transfer.
StoreTypeOK ==
    /\ accounts \in [Account -> Seq([version : Nat \ {0}, flags : SUBSET AccountFlags])]
    /\ \A id \in DOMAIN immutable : immutable[id] \in Posting
    /\ active \subseteq DOMAIN immutable
    /\ events \in Seq([kind : EventKind, subject : Account \cup DOMAIN transfers,
                      version : Nat])

\* The postings that committed transfers have spent.
SpentByLog == UNION {ToSet(transfers[tid].consumes) : tid \in DOMAIN transfers}

\* The spendable set is exactly what the transfer log leaves unspent: whatever
\* order commits ran in, no posting is lost and none comes back to life.
LiveIsUnspent ==
    /\ SpentByLog \subseteq DOMAIN immutable
    /\ active = DOMAIN immutable \ SpentByLog

\* No posting is spent by two committed transfers, however their commits raced.
NoDoubleSpend ==
    \A t, u \in DOMAIN transfers :
        t # u => ToSet(transfers[t].consumes) \cap ToSet(transfers[u].consumes) = {}

\* Every posting is the output of a stored transfer, with the stored content, and
\* every output of a stored transfer is a posting: the log alone rebuilds the table.
PostingsFromLog ==
    /\ \A id \in DOMAIN immutable :
          /\ id = <<id[1], id[2]>>
          /\ id[1] \in DOMAIN transfers
          /\ id[2] \in DOMAIN transfers[id[1]].creates
          /\ immutable[id] = transfers[id[1]].creates[id[2]]
    /\ \A t \in DOMAIN transfers :
          \A i \in DOMAIN transfers[t].creates : <<t, i>> \in DOMAIN immutable

\* Version numbers have no gap and no repetition: a transition computed from a
\* version that is no longer the head never lands.
VersionChain == \A a \in Account : \A v \in DOMAIN accounts[a] : accounts[a][v].version = v

\* Each stored transfer and each version bump is announced, exactly once, and no
\* transfer is announced that is not stored.
EventsMatchTables ==
    /\ \A t \in DOMAIN transfers : \E i \in DOMAIN events : events[i] = TransferCommitted(t)
    /\ \A a \in Account : \A v \in 2..Len(accounts[a]) :
          \E i \in DOMAIN events :
              events[i].kind \in LifecycleKind /\ events[i].subject = a /\ events[i].version = v
    /\ \A i \in DOMAIN events :
          events[i].kind = "TransferCommitted" => events[i].subject \in DOMAIN transfers
    /\ \A i, j \in DOMAIN events : i # j => ~SameDedupKey(events[i], events[j])

\* The kind of the announced transition is the change its version made, even
\* when a stale caller asked for a different change of the same version.
EventsTellTheTruth ==
    \A i \in DOMAIN events :
        LET e == events[i]
        IN e.kind \in LifecycleKind =>
              /\ e.subject \in Account
              /\ e.version \in 2..Len(accounts[e.subject])
              /\ accounts[e.subject][e.version].flags
                   = Mutate(e.kind, accounts[e.subject][e.version - 1].flags)

\* What every step of every caller preserves, and enough to show that it does.
StoreInv ==
    /\ StoreTypeOK
    /\ PostingsFromLog
    /\ LiveIsUnspent
    /\ NoDoubleSpend
    /\ VersionChain
    /\ EventsMatchTables
    /\ EventsTellTheTruth

Balance(a, asset) ==
    SumValues(immutable, {id \in active : immutable[id].owner = a /\ immutable[id].asset = asset})

\* An account that forbids overdraft never has a negative balance.
OverdraftFloor ==
    \A a \in Account : Exists(a) /\ forbids_overdraft(head(a)) =>
        \A asset \in Asset : Balance(a, asset) >= 0

\* Nothing stored changes or disappears.
RecordsKept ==
    /\ \A t \in DOMAIN transfers : t \in DOMAIN transfers' /\ transfers'[t] = transfers[t]
    /\ \A id \in DOMAIN immutable : id \in DOMAIN immutable' /\ immutable'[id] = immutable[id]
    /\ \A id \in DOMAIN immutable : id \notin active => id \notin active'
    /\ \A a \in Account : IsPrefix(accounts[a], accounts'[a])
    /\ IsPrefix(events, events')

\* Nothing a frozen or closed account owns comes or goes.
BlockedKept ==
    \A a \in Account :
        Exists(a) /\ (is_frozen(head(a)) \/ is_closed(head(a))) =>
            {id \in active' : immutable'[id].owner = a} = PostingsOf(active, a)

\* No step changes what a frozen or closed account owns.
BlockedAccountsUntouched == [][BlockedKept]_storeVars

\* Records are append-only: no stored transfer, posting, account version or event
\* is changed or dropped, and a spent posting never becomes active again.
AppendOnly == [][RecordsKept]_storeVars
=============================================================================
