------------------------------- MODULE Ledger --------------------------------
(***************************************************************************)
(* kuatia/src/ledger: the operations clients run against the store. Every  *)
(* operation is a sequence of store calls with an await between any two,   *)
(* so each call is a step of its own and clients interleave at every one.  *)
(*                                                                         *)
(*   commit    resolve -> pin -> precheck -> load -> plan -> store         *)
(*   reverse             pin -> precheck -> load -> plan -> store          *)
(*   resubmit                   precheck -> load -> plan -> store          *)
(*   freeze, unfreeze    read -> transition                                *)
(*   close               empty -> read -> transition                       *)
(*   create_account      create -> announce                                *)
(*                                                                         *)
(* A client may vanish between any two calls (Abandon), and may submit the *)
(* envelope it last resolved again (Resubmit).                             *)
(*                                                                         *)
(* Per client: pc, the next call; envelope, the last envelope it built;    *)
(* loaded, the account records validation will see; change, the account    *)
(* change it is making; reply, what its last request returned.             *)
(***************************************************************************)
EXTENDS LedgerReads

CONSTANTS Client,      \* concurrent callers of the ledger
          Transfers,   \* the transfers clients may commit
          Books,       \* book id -> policy, for the books that exist
          Opening,     \* the accounts clients may create: account -> flags
          Transition,  \* the lifecycle changes clients may ask for: {<<account, kind>>}
          MaxRequests  \* bound: requests started in a behaviour

ASSUME TransfersAssumption == \A t \in Transfers : WellTyped(t)
ASSUME MaxRequestsAssumption == MaxRequests \in Nat
ASSUME OpeningAssumption ==
    /\ DOMAIN Opening \subseteq Account
    /\ \A a \in DOMAIN Opening : Opening[a] \subseteq AccountFlags
ASSUME TransitionAssumption == Transition \subseteq Account \X LifecycleKind

VARIABLES pc, envelope, loaded, change, reply, requests

clientVars == <<pc, envelope, loaded, change, reply, requests>>
vars == <<storeVars, clientVars>>

\* What a client holds before its first request.
NoEnvelope == Envelope(<<>>, <<>>, DEFAULT_BOOK, "none")
NoChange == [account |-> <<0, 0>>, kind |-> "none", next |-> NewAccount({})]

\* A store where the Existing accounts were created and announced.
Init ==
    /\ accounts = InitialAccounts
    /\ events = SetToSeq({Event("AccountCreated", a, 0) : a \in DOMAIN Existing})
    /\ immutable = <<>> /\ active = {} /\ transfers = <<>>
    /\ pc = [p \in Client |-> "idle"]
    /\ envelope = [p \in Client |-> NoEnvelope]
    /\ loaded = [p \in Client |-> <<>>]
    /\ change = [p \in Client |-> NoChange]
    /\ reply = [p \in Client |-> "none"]
    /\ requests = 0

-----------------------------------------------------------------------------
(* Client control. *)

\* An idle client starts a request.
Begin(p) ==
    /\ pc[p] = "idle"
    /\ requests < MaxRequests
    /\ requests' = requests + 1

Goto(p, label) == pc' = [pc EXCEPT ![p] = label]

\* A request returns; what was loaded for it is dropped.
Return(p, answer) ==
    /\ Goto(p, "idle")
    /\ reply' = [reply EXCEPT ![p] = answer]
    /\ loaded' = [loaded EXCEPT ![p] = <<>>]
    /\ change' = [change EXCEPT ![p] = NoChange]

-----------------------------------------------------------------------------
(* commit and reverse build an envelope. *)

\* Ledger::resolve up to pinning: draft, load the debits' postings and accounts,
\* select. A missing payer or insufficient funds end the request.
Resolve(p) ==
    /\ Begin(p)
    /\ \E t \in Transfers :
          \/ /\ Funded(t)
             /\ envelope' = [envelope EXCEPT ![p] = resolve(t)]
             /\ reply' = [reply EXCEPT ![p] = "none"]
             /\ Goto(p, "pin")
             /\ UNCHANGED <<loaded, change>>
          \/ /\ ~Funded(t)
             /\ Return(p, "error")
             /\ UNCHANGED envelope
    /\ UNCHANGED storeVars

\* Ledger::reverse builds the reversal of a stored transfer.
ReverseTransfer(p) ==
    /\ Begin(p)
    /\ \E tid \in DOMAIN transfers : envelope' = [envelope EXCEPT ![p] = Reversal(tid)]
    /\ reply' = [reply EXCEPT ![p] = "none"]
    /\ Goto(p, "pin")
    /\ UNCHANGED <<storeVars, loaded, change>>

\* commit_envelope with the envelope this client built last: it is pinned only
\* when it has no pin yet.
Resubmit(p) ==
    /\ Begin(p)
    /\ envelope[p] # NoEnvelope
    /\ reply' = [reply EXCEPT ![p] = "none"]
    /\ Goto(p, IF envelope[p].account_snapshots = <<>> THEN "pin" ELSE "precheck")
    /\ UNCHANGED <<storeVars, envelope, loaded, change>>

-----------------------------------------------------------------------------
(* Ledger::commit_envelope. *)

\* resolve_snapshots: pin the owners of the created postings.
PinSnapshots(p) ==
    LET owners == referenced_accounts(envelope[p])
    IN /\ pc[p] = "pin"
       /\ \/ /\ \A a \in owners : Exists(a)
             /\ envelope' = [envelope EXCEPT ![p].account_snapshots =
                                             resolve_snapshots(envelope[p])]
             /\ Goto(p, "precheck")
             /\ UNCHANGED <<loaded, change, reply>>
          \/ /\ \E a \in owners : ~Exists(a)
             /\ Return(p, "error")
             /\ UNCHANGED envelope
       /\ UNCHANGED <<storeVars, requests>>

\* The idempotency pre-check: a committed envelope returns its receipt.
Precheck(p) ==
    /\ pc[p] = "precheck"
    /\ IF envelope_id(envelope[p]) \in DOMAIN transfers
         THEN Return(p, "ok")
         ELSE Goto(p, "load") /\ UNCHANGED <<loaded, change, reply>>
    /\ UNCHANGED <<storeVars, envelope, requests>>

\* Load the accounts (and postings, which never change) validation needs.
LoadAccounts(p) ==
    LET e     == envelope[p]
        known == Loadable(e) /\ e.book \in DOMAIN Books \cup {DEFAULT_BOOK}
    IN /\ pc[p] = "load"
       /\ \/ /\ known
             /\ loaded' = [loaded EXCEPT ![p] = Heads(required_accounts(e, Consumed(e)))]
             /\ Goto(p, "plan")
             /\ UNCHANGED <<change, reply>>
          \/ /\ ~known
             /\ Return(p, "error")
       /\ UNCHANGED <<storeVars, envelope, requests>>

\* Read the balances, then validate against everything that was loaded.
LoadBalancesAndPlan(p) ==
    LET e        == envelope[p]
        policies == {Books[b] : b \in {e.book} \cap DOMAIN Books}
    IN /\ pc[p] = "plan"
       /\ IF validate(e, Consumed(e), loaded[p], LoadedBalances(e), policies)
            THEN Goto(p, "store") /\ UNCHANGED <<loaded, change, reply>>
            ELSE Return(p, "error")
       /\ UNCHANGED <<storeVars, envelope, requests>>

\* The store applies the envelope, recognises it, or rejects it.
StoreCommit(p) ==
    LET req == CommitRequest(envelope[p])
    IN /\ pc[p] = "store"
       /\ \/ commit_envelope(req) /\ Return(p, "ok")
          \/ AlreadyCommitted(req) /\ Return(p, "ok") /\ UNCHANGED storeVars
          \/ /\ ~AlreadyCommitted(req)
             /\ ~Accepts(req)
             /\ Return(p, "error")
             /\ UNCHANGED storeVars
       /\ UNCHANGED <<envelope, requests>>

-----------------------------------------------------------------------------
(* Lifecycle: create_account, freeze, unfreeze, close. *)

CreateAccount(p) ==
    /\ Begin(p)
    /\ \E a \in DOMAIN Opening :
          \/ /\ create_account(a, Opening[a])
             /\ change' = [change EXCEPT ![p].account = a]
             /\ reply' = [reply EXCEPT ![p] = "none"]
             /\ Goto(p, "announce")
             /\ UNCHANGED loaded
          \/ /\ Exists(a)
             /\ Return(p, "error")
             /\ UNCHANGED storeVars
    /\ UNCHANGED envelope

\* The AccountCreated event is a second, separate write.
AnnounceAccount(p) ==
    /\ pc[p] = "announce"
    /\ append_event(Event("AccountCreated", change[p].account, 0))
    /\ Return(p, "ok")
    /\ UNCHANGED <<envelope, requests>>

\* freeze and unfreeze start by reading the account; close first asks whether
\* the account is empty.
BeginTransition(p) ==
    /\ Begin(p)
    /\ \E t \in Transition : LET a == t[1] kind == t[2] IN
          \/ /\ kind = "AccountClosed" => ~has_live_postings(a)
             /\ change' = [change EXCEPT ![p] = [NoChange EXCEPT !.account = a, !.kind = kind]]
             /\ reply' = [reply EXCEPT ![p] = "none"]
             /\ Goto(p, "read")
             /\ UNCHANGED loaded
          \/ /\ kind = "AccountClosed" /\ has_live_postings(a)
             /\ Return(p, "error")
    /\ UNCHANGED <<storeVars, envelope>>

\* transition: read the account, refuse a closed one, build the next version.
ReadAccount(p) ==
    LET a == change[p].account
    IN /\ pc[p] = "read"
       /\ \/ /\ Exists(a) /\ ~is_closed(head(a))
             /\ change' = [change EXCEPT ![p].next = NextVersion(change[p].kind, head(a))]
             /\ Goto(p, "transition")
             /\ UNCHANGED <<loaded, reply>>
          \/ /\ ~Exists(a) \/ is_closed(head(a))
             /\ Return(p, "error")
       /\ UNCHANGED <<storeVars, envelope, requests>>

\* Applied and AlreadyApplied both return Ok.
StoreTransition(p) ==
    LET c == change[p]
    IN /\ pc[p] = "transition"
       /\ \/ commit_transition(c.account, c.next, c.kind) /\ Return(p, "ok")
          \/ /\ TransitionRefused(c.account, c.next)
             /\ Return(p, "error")
             /\ UNCHANGED storeVars
       /\ UNCHANGED <<envelope, requests>>

\* The caller goes away (crash, timeout, dropped future) between two calls.
Abandon(p) ==
    /\ pc[p] # "idle"
    /\ Return(p, "none")
    /\ UNCHANGED <<storeVars, envelope, requests>>

-----------------------------------------------------------------------------
Next ==
    \E p \in Client :
        \/ Resolve(p) \/ ReverseTransfer(p) \/ Resubmit(p)
        \/ PinSnapshots(p) \/ Precheck(p) \/ LoadAccounts(p)
        \/ LoadBalancesAndPlan(p) \/ StoreCommit(p)
        \/ CreateAccount(p) \/ AnnounceAccount(p)
        \/ BeginTransition(p) \/ ReadAccount(p) \/ StoreTransition(p)
        \/ Abandon(p)

Spec == Init /\ [][Next]_vars

-----------------------------------------------------------------------------
(* Correctness. *)

\* A step on which client p's commit_envelope returns its receipt.
ReceiptReturned(p) == pc[p] \in {"precheck", "store"} /\ reply'[p] = "ok"

\* A receipt is returned only for a transfer that is stored and announced, and
\* its outputs are postings, whichever of the three paths to Ok was taken.
ReceiptsAreDurable ==
    [][\A p \in Client : ReceiptReturned(p) =>
          LET tid == envelope_id(envelope[p])
          IN /\ tid \in DOMAIN transfers'
             /\ \E i \in DOMAIN events' : events'[i] = TransferCommitted(tid)
             /\ \A i \in DOMAIN envelope[p].creates : <<tid, i>> \in DOMAIN immutable']_vars

\* The state of the abstract ledger this one implements.
AbstractBalance == [key \in Account \X Asset |-> Balance(key[1], key[2])]
AbstractStatus ==
    [a \in Account |-> IF ~Exists(a) THEN "absent"
                       ELSE IF is_closed(head(a)) THEN "closed"
                       ELSE IF is_frozen(head(a)) THEN "frozen" ELSE "open"]
AbstractMayOverdraw == {a \in Account : Exists(a) /\ ~forbids_overdraft(head(a))}

Abstract == INSTANCE AbstractLedger WITH
                balance <- AbstractBalance, status <- AbstractStatus,
                mayOverdraw <- AbstractMayOverdraw

\* Every step of the concurrent ledger is one atomic step of the abstract one.
ImplementsAbstractLedger == Abstract!Spec

-----------------------------------------------------------------------------
(* What a comment of the code says and the code does not do. *)

\* store.rs: a transition whose head a concurrent one moved is refused, so one
\* that is acknowledged is in the account's history.
AcknowledgedTransitionLanded ==
    [][\A p \in Client : pc[p] = "transition" /\ reply'[p] = "ok" =>
          accounts'[change[p].account][change[p].next.version] = change[p].next]_vars
=============================================================================
