---------------------------- MODULE LedgerProofs -----------------------------
(***************************************************************************)
(* What the store keeps by itself, and what the ledger's operations keep   *)
(* over it, for any number of clients, accounts, assets and requests; last *)
(* what resolution and validation do to a transfer between the two.        *)
(* StoreInv is inductive as it stands: its parts need one another (fresh   *)
(* ids need PostingsFromLog, the event dedup needs VersionChain and        *)
(* EventsTellTheTruth), so it is proved as one.                            *)
(***************************************************************************)
EXTENDS Ledger, BareStore, Resolution, CommitStoreProofs

-----------------------------------------------------------------------------
(* The bare store. *)

\* The initial store satisfies the invariant.
LEMMA StoreInitInv == StoreInit => FloorInv
<1> SUFFICES ASSUME StoreInit PROVE FloorInv
  OBVIOUS
<1>1. /\ DOMAIN immutable = {} /\ DOMAIN transfers = {} /\ active = {} /\ events = <<>>
      /\ accounts = InitialAccounts
  BY DEF StoreInit
<1>2. events \in Seq(EventType) /\ DOMAIN events = {}
  BY <1>1
<1> QED
  BY <1>1, <1>2, QuietStart

\* Every step preserves the invariant, only adds records, and leaves the
\* postings of frozen and closed accounts alone.
LEMMA StoreNextInv ==
    ASSUME StoreInv, StoreNext
    PROVE  StoreInv' /\ RecordsKept /\ BlockedKept
<1>1. CASE CommitAny
  <2>1. PICK e \in Envelopes : commit_envelope(CommitRequest(e))
    BY <1>1 DEF CommitAny
  <2>2. e.creates \in Seq(Posting)
    BY EnvelopesAssumption
  <2> QED
    BY <2>1, <2>2, CommitKeepsInv, CommitKeepsRecords, CommitKeepsBlocked
<1>2. CASE CreateAny
  <2>1. PICK a \in Account, flags \in InitialFlags : create_account(a, flags)
    BY <1>2 DEF CreateAny
  <2>2. flags \in SUBSET AccountFlags
    BY DEF InitialFlags, AccountFlags
  <2>3. immutable' = immutable /\ active' = active
    BY <2>1 DEF create_account
  <2> QED
    BY <2>1, <2>2, <2>3, CreateKeepsInv, CreateKeepsRecords, PostingsAloneKeepsBlocked
<1>3. CASE TransitionAny
  <2>1. PICK a \in Account, kind \in LifecycleKind :
            \E v \in DOMAIN accounts[a] :
                commit_transition(a, NextVersion(kind, accounts[a][v]), kind)
    BY <1>3 DEF TransitionAny
  <2>2. PICK v \in DOMAIN accounts[a] :
            commit_transition(a, NextVersion(kind, accounts[a][v]), kind)
    BY <2>1
  <2>3. CASE TransitionApplied(a, NextVersion(kind, accounts[a][v]), kind)
    <3>1. immutable' = immutable /\ active' = active
      BY <2>3 DEF TransitionApplied
    <3> QED
      BY <2>3, <3>1, AppliedKeepsInv, AppliedKeepsRecords, PostingsAloneKeepsBlocked
  <2>4. CASE TransitionAlreadyApplied(a, NextVersion(kind, accounts[a][v]), kind)
    <3>1. UNCHANGED storeVars
      BY <2>4, AlreadyAppliedIsStutter
    <3> QED
      BY <3>1, StutterKeeps
  <2> QED
    BY <2>2, <2>3, <2>4 DEF commit_transition
<1> QED
  BY <1>1, <1>2, <1>3 DEF StoreNext

\* The inductive invariant holds in every state of every behaviour.
THEOREM StoreInvariant == StoreSpec => []StoreInv
<1>1. StoreInv /\ [StoreNext]_storeVars => StoreInv'
  BY StoreNextInv, StutterKeeps
<1>2. StoreInit => StoreInv
  BY StoreInitInv DEF FloorInv
<1> QED
  BY <1>1, <1>2, PTL DEF StoreSpec

\* Type correctness of the tables.
THEOREM StoreTypes == StoreSpec => []StoreTypeOK
<1>1. StoreInv => StoreTypeOK
  BY DEF StoreInv
<1> QED
  BY <1>1, StoreInvariant, PTL

\* No posting is spent by two transfers: the double-spend guard of
\* commit_envelope, for any number of racing callers.
THEOREM NoDoubleSpendThm == StoreSpec => []NoDoubleSpend
<1>1. StoreInv => NoDoubleSpend
  BY DEF StoreInv
<1> QED
  BY <1>1, StoreInvariant, PTL

\* The spendable set is what the transfer log leaves unspent.
THEOREM LiveIsUnspentThm == StoreSpec => []LiveIsUnspent
<1>1. StoreInv => LiveIsUnspent
  BY DEF StoreInv
<1> QED
  BY <1>1, StoreInvariant, PTL

\* The transfer log rebuilds the posting table.
THEOREM PostingsFromLogThm == StoreSpec => []PostingsFromLog
<1>1. StoreInv => PostingsFromLog
  BY DEF StoreInv
<1> QED
  BY <1>1, StoreInvariant, PTL

\* Version histories have no gap and no repetition, however stale the callers of
\* commit_transition are.
THEOREM VersionChainThm == StoreSpec => []VersionChain
<1>1. StoreInv => VersionChain
  BY DEF StoreInv
<1> QED
  BY <1>1, StoreInvariant, PTL

\* Each transfer and each version is announced, and announced once: the dedup key
\* of append_event loses none and repeats none.
THEOREM HistoryIsExact == StoreSpec => []EventsMatchTables
<1>1. StoreInv => EventsMatchTables
  BY DEF StoreInv
<1> QED
  BY <1>1, StoreInvariant, PTL

\* The event of a version names the change that version made.
THEOREM EventsTellTheTruthThm == StoreSpec => []EventsTellTheTruth
<1>1. StoreInv => EventsTellTheTruth
  BY DEF StoreInv
<1> QED
  BY <1>1, StoreInvariant, PTL

\* Records are append-only in every behaviour.
THEOREM AppendOnlyThm == StoreSpec => AppendOnly
<1>1. StoreInv /\ [StoreNext]_storeVars => [RecordsKept]_storeVars
  BY StoreNextInv
<1> QED
  BY <1>1, StoreInvariant, PTL DEF StoreSpec, AppendOnly

\* No behaviour changes what a frozen or closed account owns.
THEOREM BlockedAccountsUntouchedThm == StoreSpec => BlockedAccountsUntouched
<1>1. StoreInv /\ [StoreNext]_storeVars => [BlockedKept]_storeVars
  BY StoreNextInv
<1> QED
  BY <1>1, StoreInvariant, PTL DEF StoreSpec, BlockedAccountsUntouched

\* Every step keeps the floors of the accounts that forbid overdraft.
LEMMA StoreNextFloor ==
    ASSUME FloorInv, StoreNext
    PROVE  FloorInv'
<1>1. CASE CommitAny
  <2>1. PICK e \in Envelopes : commit_envelope(CommitRequest(e))
    BY <1>1 DEF CommitAny
  <2> QED
    BY <2>1, EnvelopesAssumption, CommitKeepsFloor
<1>2. CASE CreateAny
  <2>1. PICK a \in Account, flags \in InitialFlags : create_account(a, flags)
    BY <1>2 DEF CreateAny
  <2>2. flags \in SUBSET AccountFlags
    BY DEF InitialFlags, AccountFlags
  <2> QED
    BY <2>1, <2>2, CreateKeepsFloor
<1>3. CASE TransitionAny
  <2>1. PICK a \in Account, kind \in LifecycleKind :
            \E v \in DOMAIN accounts[a] :
                commit_transition(a, NextVersion(kind, accounts[a][v]), kind)
    BY <1>3 DEF TransitionAny
  <2>2. PICK v \in DOMAIN accounts[a] :
            commit_transition(a, NextVersion(kind, accounts[a][v]), kind)
    BY <2>1
  <2> QED
    BY <2>2, AppliedKeepsFloor, AlreadyAppliedIsStutter, StutterKeepsFloor
       DEF commit_transition, FloorInv
<1> QED
  BY <1>1, <1>2, <1>3 DEF StoreNext

\* An account that forbids overdraft never has a negative balance, whatever was
\* validated before the commit and against which balance: the floor check under the
\* locks of commit_envelope is enough on its own, for any number of postings.
THEOREM OverdraftFloorThm == StoreSpec => []OverdraftFloor
<1>1. StoreInit => FloorInv
  BY StoreInitInv
<1>2. FloorInv /\ [StoreNext]_storeVars => FloorInv'
  BY StoreNextFloor, StutterKeepsFloor
<1>3. FloorInv => OverdraftFloor
  BY DEF FloorInv
<1> QED
  BY <1>1, <1>2, <1>3, PTL DEF StoreSpec

-----------------------------------------------------------------------------
(* What a client holds between two calls. *)

Label == {"idle", "pin", "precheck", "load", "plan", "store", "announce", "read", "transition"}

ClientTypes ==
    /\ pc \in [Client -> Label]
    /\ reply \in [Client -> {"none", "ok", "error"}]
    /\ envelope = [p \in Client |-> envelope[p]]
    /\ loaded = [p \in Client |-> loaded[p]]
    /\ change \in [Client -> [account : Account \cup {<<0, 0>>}, kind : LifecycleKind \cup {"none"},
                              next : AccountRecord]]

\* The records validation will see are old, but right about who forbids overdraft.
PlanReady(p) ==
    /\ ToSet(envelope[p].consumes) \subseteq DOMAIN immutable
    /\ \A np \in ToSet(envelope[p].creates) :
          /\ Exists(np.owner)
          /\ forbids_overdraft(loaded[p][np.owner]) <=> forbids_overdraft(head(np.owner))

\* What was validated and the store does not check again still holds.
StoreReady(p) ==
    /\ ToSet(envelope[p].consumes) \subseteq DOMAIN immutable
    /\ Conserves(envelope[p], Consumed(envelope[p]))
    /\ \A np \in ToSet(envelope[p].creates) :
          Exists(np.owner) /\ (np.value < 0 => ~forbids_overdraft(head(np.owner)))

\* The version a transition asks for was computed from a version of the account.
TransitionReady(p) ==
    \E v \in DOMAIN accounts[change[p].account] :
        change[p].next = NextVersion(change[p].kind, accounts[change[p].account][v])

ClientOK(p) ==
    /\ EnvelopeOK(envelope[p])
    /\ pc[p] # "idle" => reply[p] = "none"
    /\ pc[p] = "plan" => PlanReady(p)
    /\ pc[p] = "store" => StoreReady(p)
    /\ pc[p] \in {"announce", "read", "transition"} => change[p].account \in Account
    /\ pc[p] \in {"read", "transition"} => change[p].kind \in LifecycleKind
    /\ pc[p] = "transition" => TransitionReady(p)

ClientsOK == ClientTypes /\ \A p \in Client : ClientOK(p)

\* The inductive invariant of the ledger.
LedgerInv ==
    FloorInv /\ TransfersOK /\ Conservation /\ OffsetsOnlyWherePermitted /\ ClientsOK

\* A client that takes no step keeps what it holds, whatever the others do.
LEMMA Waiting ==
    ASSUME NEW p, ClientOK(p), StoreGrows, pc'[p] = pc[p], reply'[p] = reply[p],
           envelope'[p] = envelope[p], loaded'[p] = loaded[p], change'[p] = change[p]
    PROVE  ClientOK(p)'
<1>0. \A np \in ToSet(envelope[p].creates) : np.owner \in Account
  <2>1. envelope[p].creates \in Seq(Posting)
    BY DEF ClientOK, EnvelopeOK
  <2>2. \A np \in Posting : np.owner \in Account
    BY DEF Posting
  <2> QED
    BY <2>1, <2>2 DEF ToSet
<1>1. PlanReady(p) => PlanReady(p)'
  BY <1>0 DEF PlanReady, StoreGrows, Exists, head
<1>2. StoreReady(p) => StoreReady(p)'
  <2> SUFFICES ASSUME StoreReady(p) PROVE StoreReady(p)'
    OBVIOUS
  <2>1. Consumed(envelope[p])' = Consumed(envelope[p])
    BY DEF StoreReady, StoreGrows, Consumed
  <2>2. Conserves(envelope[p], Consumed(envelope[p]))'
    <3>1. Conserves(envelope[p], Consumed(envelope[p]))'
            <=> Conserves(envelope'[p], Consumed(envelope[p])')
      BY DEF Conserves
    <3> QED
      BY <2>1, <3>1 DEF StoreReady
  <2>3. ToSet(envelope'[p].consumes) \subseteq DOMAIN immutable'
    BY DEF StoreReady, StoreGrows
  <2> QED
    BY <1>0, <2>2, <2>3 DEF StoreReady, StoreGrows, Exists, head
<1>3. change[p].account \in Account /\ TransitionReady(p) => TransitionReady(p)'
  BY DEF TransitionReady, StoreGrows
<1> QED
  BY <1>1, <1>2, <1>3 DEF ClientOK

\* A step of one client: its own part is shown, the others are waiting.
LEMMA OneClientMoves ==
    ASSUME NEW p \in Client, ClientsOK, StoreGrows, ClientTypes', ClientOK(p)',
           \A q \in Client : q # p =>
               /\ pc'[q] = pc[q] /\ reply'[q] = reply[q] /\ envelope'[q] = envelope[q]
               /\ loaded'[q] = loaded[q] /\ change'[q] = change[q]
    PROVE  ClientsOK'
<1>1. ASSUME NEW q \in Client, q # p PROVE ClientOK(q)'
  BY <1>1, Waiting DEF ClientsOK
<1> QED
  BY <1>1 DEF ClientsOK

\* A request that returns leaves its client with the envelope it built.
LEMMA ReturnKeeps ==
    ASSUME NEW p \in Client, NEW answer \in {"none", "ok", "error"}, ClientsOK, StoreGrows,
           Return(p, answer), envelope' = envelope
    PROVE  ClientsOK'
<1>1. /\ pc' = [pc EXCEPT ![p] = "idle"] /\ reply' = [reply EXCEPT ![p] = answer]
      /\ loaded' = [loaded EXCEPT ![p] = <<>>] /\ change' = [change EXCEPT ![p] = NoChange]
  BY DEF Return, Goto
<1>2. NoChange \in [account : Account \cup {<<0, 0>>}, kind : LifecycleKind \cup {"none"},
                    next : AccountRecord]
  BY DEF NoChange, NewAccount, AccountRecord
<1>3. ClientTypes'
  <2> HIDE DEF NoChange
  <2> QED
    BY <1>1, <1>2 DEF ClientsOK, ClientTypes, Label
<1>4. ClientOK(p)'
  <2>1. pc'[p] = "idle" /\ envelope'[p] = envelope[p]
    BY <1>1 DEF ClientsOK, ClientTypes
  <2> QED
    BY <2>1 DEF ClientsOK, ClientOK, EnvelopeOK
<1>5. \A q \in Client : q # p =>
               /\ pc'[q] = pc[q] /\ reply'[q] = reply[q] /\ envelope'[q] = envelope[q]
               /\ loaded'[q] = loaded[q] /\ change'[q] = change[q]
  BY <1>1 DEF ClientsOK, ClientTypes
<1> QED
  BY <1>3, <1>4, <1>5, OneClientMoves

\* A step that calls no write of the store keeps what the store holds.
LEMMA ReadsKeepStore ==
    ASSUME LedgerInv, UNCHANGED storeVars
    PROVE  /\ StoreGrows
           /\ FloorInv' /\ TransfersOK' /\ Conservation' /\ OffsetsOnlyWherePermitted'
<1>1. /\ accounts' = accounts /\ immutable' = immutable /\ active' = active
      /\ transfers' = transfers
  BY DEF storeVars
<1>2. FloorInv' /\ StoreGrows
  BY StutterKeepsFloor, StutterGrows DEF LedgerInv
<1>3. TransfersOK'
  BY <1>1 DEF LedgerInv, TransfersOK, EnvelopeOK, envelope_id
<1>4. Conservation'
  BY <1>1 DEF LedgerInv, Conservation
<1>5. OffsetsOnlyWherePermitted'
  BY <1>1 DEF LedgerInv, OffsetsOnlyWherePermitted, head, forbids_overdraft
<1> QED
  BY <1>2, <1>3, <1>4, <1>5

\* A client moves on to its next call, with an envelope it may just have built.
LEMMA GotoKeeps ==
    ASSUME NEW p \in Client, NEW label \in Label, LedgerInv, UNCHANGED storeVars, Goto(p, label),
           reply' = [reply EXCEPT ![p] = "none"] \/ (pc[p] # "idle" /\ reply' = reply),
           UNCHANGED <<loaded, change>>,
           NEW e, EnvelopeOK(e), envelope' = [envelope EXCEPT ![p] = e],
           label \in {"pin", "precheck", "load"}
    PROVE  LedgerInv'
<1> USE DEF LedgerInv, ClientsOK
<1>1. ClientTypes'
  <2>1. pc' \in [Client -> Label] /\ reply' \in [Client -> {"none", "ok", "error"}]
        /\ envelope' = [q \in Client |-> envelope'[q]]
    BY DEF ClientTypes, Goto
  <2> QED
    BY <2>1 DEF ClientTypes
<1>2. /\ pc'[p] = label /\ reply'[p] = "none" /\ envelope'[p] = e
      /\ \A q \in Client : q # p =>
               /\ pc'[q] = pc[q] /\ reply'[q] = reply[q] /\ envelope'[q] = envelope[q]
               /\ loaded'[q] = loaded[q] /\ change'[q] = change[q]
  BY DEF ClientTypes, ClientOK, Goto
<1>3. ClientOK(p)'
  BY <1>2 DEF ClientOK, EnvelopeOK
<1>4. ClientsOK'
  BY <1>1, <1>2, <1>3, ReadsKeepStore, OneClientMoves
<1> QED
  BY <1>4, ReadsKeepStore

\* A request that fails or is abandoned without a write.
LEMMA QuietReturn ==
    ASSUME NEW p \in Client, NEW answer \in {"none", "ok", "error"}, LedgerInv,
           Return(p, answer), envelope' = envelope, UNCHANGED storeVars
    PROVE  LedgerInv'
BY ReadsKeepStore, ReturnKeeps DEF LedgerInv

\* Ledger::resolve.
LEMMA ResolveKeeps == ASSUME NEW p \in Client, LedgerInv, Resolve(p) PROVE LedgerInv'
<1>1. PICK t \in Transfers :
          \/ /\ envelope' = [envelope EXCEPT ![p] = resolve(t)]
             /\ reply' = [reply EXCEPT ![p] = "none"]
             /\ Goto(p, "pin")
             /\ UNCHANGED <<loaded, change>>
          \/ Return(p, "error") /\ UNCHANGED envelope
  BY DEF Resolve
<1>2. UNCHANGED storeVars
  BY DEF Resolve
<1>3. EnvelopeOK(resolve(t))
  BY TransfersAssumption, ResolveFacts DEF LedgerInv, FloorInv
<1>4. CASE Return(p, "error") /\ UNCHANGED envelope
  BY <1>2, <1>4, QuietReturn
<1>5. CASE /\ envelope' = [envelope EXCEPT ![p] = resolve(t)]
           /\ reply' = [reply EXCEPT ![p] = "none"]
           /\ Goto(p, "pin")
           /\ UNCHANGED <<loaded, change>>
  BY <1>2, <1>3, <1>5, GotoKeeps DEF Label
<1> QED
  BY <1>1, <1>4, <1>5

\* Ledger::reverse.
LEMMA ReverseKeeps == ASSUME NEW p \in Client, LedgerInv, ReverseTransfer(p) PROVE LedgerInv'
<1>1. PICK tid \in DOMAIN transfers : envelope' = [envelope EXCEPT ![p] = Reversal(tid)]
  BY DEF ReverseTransfer
<1>2. EnvelopeOK(Reversal(tid))
  BY ReversalFacts DEF LedgerInv, FloorInv
<1>3. /\ UNCHANGED storeVars /\ UNCHANGED <<loaded, change>> /\ Goto(p, "pin")
      /\ reply' = [reply EXCEPT ![p] = "none"]
  BY DEF ReverseTransfer
<1> QED
  BY <1>1, <1>2, <1>3, GotoKeeps DEF Label

\* An unchanged envelope, as the update of one entry.
LEMMA SameEnvelope ==
    ASSUME NEW p \in Client, LedgerInv, envelope' = envelope
    PROVE  EnvelopeOK(envelope[p]) /\ envelope' = [envelope EXCEPT ![p] = envelope[p]]
BY DEF LedgerInv, ClientsOK, ClientOK, ClientTypes

\* Submitting an envelope again.
LEMMA ResubmitKeeps == ASSUME NEW p \in Client, LedgerInv, Resubmit(p) PROVE LedgerInv'
<1>1. /\ UNCHANGED storeVars /\ UNCHANGED <<loaded, change>> /\ envelope' = envelope
      /\ reply' = [reply EXCEPT ![p] = "none"]
  BY DEF Resubmit
<1>2. PICK label \in {"pin", "precheck"} : Goto(p, label)
  BY DEF Resubmit
<1>3. label \in Label /\ label \in {"pin", "precheck", "load"}
  BY <1>2 DEF Label
<1>4. EnvelopeOK(envelope[p]) /\ envelope' = [envelope EXCEPT ![p] = envelope[p]]
  BY <1>1, SameEnvelope
<1> QED
  BY <1>1, <1>2, <1>3, <1>4, GotoKeeps

\* resolve_snapshots.
LEMMA PinKeeps == ASSUME NEW p \in Client, LedgerInv, PinSnapshots(p) PROVE LedgerInv'
<1> DEFINE e == [envelope[p] EXCEPT !.account_snapshots = resolve_snapshots(envelope[p])]
<1>1. UNCHANGED storeVars /\ pc[p] = "pin"
  BY DEF PinSnapshots
<1>2. \/ /\ envelope' = [envelope EXCEPT ![p].account_snapshots = resolve_snapshots(envelope[p])]
         /\ Goto(p, "precheck") /\ UNCHANGED <<loaded, change, reply>>
      \/ Return(p, "error") /\ UNCHANGED envelope
  BY DEF PinSnapshots
<1>3. CASE Return(p, "error") /\ UNCHANGED envelope
  BY <1>1, <1>3, QuietReturn
<1>4. CASE /\ envelope' = [envelope EXCEPT ![p].account_snapshots = resolve_snapshots(envelope[p])]
           /\ Goto(p, "precheck") /\ UNCHANGED <<loaded, change, reply>>
  <2>1. EnvelopeOK(envelope[p])
    BY DEF LedgerInv, ClientsOK, ClientOK
  <2>2. EnvelopeOK(e) /\ envelope' = [envelope EXCEPT ![p] = e]
    BY <1>4, <2>1, PinFacts
  <2> HIDE DEF e
  <2> QED
    BY <1>1, <1>4, <2>2, GotoKeeps DEF Label
<1> QED
  BY <1>2, <1>3, <1>4

\* The idempotency pre-check.
LEMMA PrecheckKeeps == ASSUME NEW p \in Client, LedgerInv, Precheck(p) PROVE LedgerInv'
<1>1. UNCHANGED storeVars /\ envelope' = envelope /\ pc[p] = "precheck"
  BY DEF Precheck
<1>2. CASE Return(p, "ok")
  BY <1>1, <1>2, QuietReturn
<1>3. CASE Goto(p, "load") /\ UNCHANGED <<loaded, change, reply>>
  BY <1>1, <1>3, SameEnvelope, GotoKeeps DEF Label
<1> QED
  BY <1>2, <1>3 DEF Precheck

\* Ledger::load: the account records are the heads of this moment.
LEMMA LoadKeeps == ASSUME NEW p \in Client, LedgerInv, LoadAccounts(p) PROVE LedgerInv'
<1> USE DEF LedgerInv, ClientsOK
<1> DEFINE e == envelope[p]
           req == required_accounts(e, Consumed(e))
<1>1. UNCHANGED storeVars /\ envelope' = envelope /\ pc[p] = "load"
  BY DEF LoadAccounts
<1>2. \/ /\ Loadable(e) /\ loaded' = [loaded EXCEPT ![p] = Heads(req)]
         /\ Goto(p, "plan") /\ UNCHANGED <<change, reply>>
      \/ Return(p, "error")
  BY DEF LoadAccounts
<1>3. CASE Return(p, "error")
  BY <1>1, <1>3, QuietReturn
<1>4. CASE /\ Loadable(e) /\ loaded' = [loaded EXCEPT ![p] = Heads(req)]
           /\ Goto(p, "plan") /\ UNCHANGED <<change, reply>>
  <2>1. ClientTypes'
    <3>1. pc' \in [Client -> Label] /\ loaded' = [q \in Client |-> loaded'[q]]
      BY <1>4 DEF ClientTypes, Goto, Label
    <3> QED
      BY <1>1, <1>4, <3>1 DEF ClientTypes
  <2>2. /\ pc'[p] = "plan" /\ loaded'[p] = Heads(req) /\ reply'[p] = "none"
        /\ \A q \in Client : q # p => pc'[q] = pc[q] /\ loaded'[q] = loaded[q]
    BY <1>1, <1>4 DEF ClientTypes, ClientOK, Goto
  <2>3. \A np \in ToSet(e.creates) :
           Exists(np.owner) /\ Heads(req)[np.owner] = head(np.owner)
    BY <1>4 DEF Loadable, required_accounts, posting_owners, referenced_accounts, Heads
  <2>4. ToSet(e.consumes) \subseteq DOMAIN immutable
    BY <1>4 DEF Loadable
  <2>5. PlanReady(p)'
    BY <1>1, <2>2, <2>3, <2>4 DEF PlanReady, storeVars, Exists, head
  <2>6. ClientOK(p)'
    BY <1>1, <2>2, <2>5 DEF ClientOK, EnvelopeOK
  <2>7. ClientsOK'
    BY <1>1, <1>4, <2>1, <2>2, <2>6, ReadsKeepStore, OneClientMoves
  <2> QED
    BY <1>1, <2>7, ReadsKeepStore
<1> QED
  BY <1>2, <1>3, <1>4

\* Ledger::plan: what validation accepts conserves every asset, and puts a negative
\* posting only where overdraft is permitted.
LEMMA PlanKeeps == ASSUME NEW p \in Client, LedgerInv, LoadBalancesAndPlan(p) PROVE LedgerInv'
<1> USE DEF LedgerInv, ClientsOK
<1> DEFINE e == envelope[p]
<1>1. UNCHANGED storeVars /\ envelope' = envelope /\ pc[p] = "plan"
  BY DEF LoadBalancesAndPlan
<1>2. \/ /\ Conserves(e, Consumed(e)) /\ NoForbiddenOffset(e, loaded[p])
         /\ Goto(p, "store") /\ UNCHANGED <<loaded, change, reply>>
      \/ Return(p, "error")
  BY DEF LoadBalancesAndPlan, validate
<1>3. CASE Return(p, "error")
  BY <1>1, <1>3, QuietReturn
<1>4. CASE /\ Conserves(e, Consumed(e)) /\ NoForbiddenOffset(e, loaded[p])
           /\ Goto(p, "store") /\ UNCHANGED <<loaded, change, reply>>
  <2>1. ClientTypes'
    BY <1>1, <1>4 DEF ClientTypes, Goto, Label
  <2>2. /\ pc'[p] = "store" /\ reply'[p] = "none"
        /\ \A q \in Client : q # p => pc'[q] = pc[q]
    BY <1>1, <1>4 DEF ClientTypes, ClientOK, Goto
  <2>3. PlanReady(p)
    BY <1>1 DEF ClientOK
  <2>4. StoreReady(p)
    BY <1>4, <2>3 DEF PlanReady, StoreReady, NoForbiddenOffset
  <2>5. StoreReady(p)'
    <3>1. Consumed(e)' = Consumed(e)
      BY <1>1 DEF Consumed, storeVars
    <3>2. Conserves(e, Consumed(e))' <=> Conserves(e', Consumed(e)')
      BY DEF Conserves
    <3>3. Conserves(e, Consumed(e))'
      BY <1>1, <1>4, <3>1, <3>2
    <3> QED
      BY <1>1, <2>4, <3>3 DEF StoreReady, storeVars, Exists, head
  <2>6. ClientOK(p)'
    BY <1>1, <2>2, <2>5 DEF ClientOK, EnvelopeOK
  <2>7. ClientsOK'
    BY <1>1, <1>4, <2>1, <2>2, <2>6, ReadsKeepStore, OneClientMoves
  <2> QED
    BY <1>1, <2>7, ReadsKeepStore
<1> QED
  BY <1>2, <1>3, <1>4

\* The commit itself: everything the store does not check was validated on records
\* that were old by then, and still holds.
LEMMA CommitKeepsLedger ==
    ASSUME NEW p \in Client, LedgerInv, pc[p] = "store", envelope' = envelope,
           commit_envelope(CommitRequest(envelope[p])), Return(p, "ok")
    PROVE  LedgerInv'
<1> USE DEF LedgerInv, ClientsOK
<1> DEFINE e == envelope[p]
<1>1. EnvelopeOK(e) /\ e.creates \in Seq(Posting) /\ StoreReady(p)
  BY DEF ClientOK, EnvelopeOK
<1>2. StoreInv /\ FiniteTables /\ OwnersExist
  BY DEF FloorInv
<1>3. FloorInv'
  BY <1>1, CommitKeepsFloor
<1>4. StoreGrows
  BY CommitGrows
<1>5. ClientsOK'
  BY <1>4, ReturnKeeps
<1>6. TransfersOK'
  <2>1. /\ DOMAIN transfers' = DOMAIN transfers \cup {envelope_id(e)}
        /\ \A t \in DOMAIN transfers : transfers'[t] = transfers[t]
        /\ transfers'[envelope_id(e)] = e
    BY CommitEffect
  <2>2. \A t \in DOMAIN transfers' : EnvelopeOK(transfers'[t]) /\ envelope_id(transfers'[t]) = t
    BY <1>1, <2>1 DEF TransfersOK
  <2> QED
    BY <2>2 DEF TransfersOK, EnvelopeOK, envelope_id
<1>7. Conservation'
  <2>1. \A asset \in Asset : LiveTotal(asset)' = LiveTotal(asset)
    <3>1. Conserves(e, Consumed(e))
      BY <1>1 DEF StoreReady
    <3> QED
      BY <1>1, <1>2, <3>1, CommitConserves
  <2> QED
    BY <2>1 DEF Conservation, LiveTotal
<1>8. OffsetsOnlyWherePermitted'
  <2> SUFFICES ASSUME NEW id \in DOMAIN immutable', immutable'[id].value < 0
               PROVE  ~forbids_overdraft(head(immutable'[id].owner))
    <3>1. accounts' = accounts
      BY CommitEffect
    <3> QED
      BY <3>1 DEF OffsetsOnlyWherePermitted, head, forbids_overdraft
  <2>1. CASE id \in DOMAIN immutable
    BY <2>1, CommitEffect DEF OffsetsOnlyWherePermitted
  <2>2. CASE id \in NewIds(e)
    <3>1. PICK i \in DOMAIN e.creates : immutable'[id] = e.creates[i]
      <4>1. PICK i \in DOMAIN e.creates : id = <<envelope_id(e), i>>
        BY <2>2 DEF NewIds
      <4> QED
        BY <1>1, <1>2, <4>1, CommitLive
    <3>2. e.creates[i] \in ToSet(e.creates)
      BY DEF ToSet
    <3> QED
      BY <1>1, <3>1, <3>2 DEF StoreReady
  <2>3. id \in DOMAIN immutable \/ id \in NewIds(e)
    <3> HIDE DEF LedgerInv, ClientsOK
    <3>1. DOMAIN immutable' = DOMAIN immutable \cup NewIds(e)
      BY CommitEffect
    <3> QED
      BY <3>1
  <2> QED
    BY <2>1, <2>2, <2>3
<1> QED
  BY <1>3, <1>5, <1>6, <1>7, <1>8

\* The store's commit_envelope, in its three outcomes.
LEMMA StoreCommitKeeps == ASSUME NEW p \in Client, LedgerInv, StoreCommit(p) PROVE LedgerInv'
<1>1. pc[p] = "store" /\ envelope' = envelope
  BY DEF StoreCommit
<1>2. CASE commit_envelope(CommitRequest(envelope[p])) /\ Return(p, "ok")
  BY <1>1, <1>2, CommitKeepsLedger
<1>3. CASE Return(p, "ok") /\ UNCHANGED storeVars
  BY <1>1, <1>3, QuietReturn
<1>4. CASE Return(p, "error") /\ UNCHANGED storeVars
  BY <1>1, <1>4, QuietReturn
<1> QED
  BY <1>2, <1>3, <1>4 DEF StoreCommit

-----------------------------------------------------------------------------
(* Lifecycle operations. *)

\* A write of accounts or events leaves totals and offsets as they were.
LEMMA AccountsKeepMoney ==
    ASSUME LedgerInv, StoreGrows, immutable' = immutable, active' = active, transfers' = transfers
    PROVE  TransfersOK' /\ Conservation' /\ OffsetsOnlyWherePermitted'
<1>1. TransfersOK'
  BY DEF LedgerInv, TransfersOK, EnvelopeOK, envelope_id
<1>2. Conservation'
  BY DEF LedgerInv, Conservation
<1>3. \A id \in DOMAIN immutable : immutable[id].owner \in Account /\ Exists(immutable[id].owner)
  BY DEF LedgerInv, FloorInv, StoreInv, StoreTypeOK, OwnersExist, Posting
<1>4. OffsetsOnlyWherePermitted'
  BY <1>3 DEF LedgerInv, OffsetsOnlyWherePermitted, StoreGrows, head
<1> QED
  BY <1>1, <1>2, <1>4

ChangeType == [account : Account \cup {<<0, 0>>}, kind : LifecycleKind \cup {"none"},
               next : AccountRecord]

\* A client moves on with a change it is making.
LEMMA ChangeKeeps ==
    ASSUME NEW p \in Client, ClientsOK, StoreGrows,
           NEW label \in {"announce", "read", "transition"}, Goto(p, label),
           reply' = [reply EXCEPT ![p] = "none"] \/ (pc[p] # "idle" /\ reply' = reply),
           NEW c \in ChangeType, c.account \in Account, change' = [change EXCEPT ![p] = c],
           label # "announce" => c.kind \in LifecycleKind,
           label = "transition" =>
               \E v \in DOMAIN accounts[c.account] :
                   c.next = NextVersion(c.kind, accounts[c.account][v]),
           envelope' = envelope, loaded' = loaded
    PROVE  ClientsOK'
<1> USE DEF ClientsOK
<1>1. ClientTypes'
  <2>1. pc' \in [Client -> Label] /\ reply' \in [Client -> {"none", "ok", "error"}]
    BY DEF ClientTypes, Goto, Label
  <2>2. change' \in [Client -> ChangeType]
    BY DEF ClientTypes, ChangeType
  <2> QED
    BY <2>1, <2>2 DEF ClientTypes, ChangeType
<1>2. /\ pc'[p] = label /\ reply'[p] = "none" /\ change'[p] = c /\ envelope'[p] = envelope[p]
      /\ \A q \in Client : q # p =>
               /\ pc'[q] = pc[q] /\ reply'[q] = reply[q] /\ envelope'[q] = envelope[q]
               /\ loaded'[q] = loaded[q] /\ change'[q] = change[q]
  BY DEF ClientTypes, ClientOK, Goto
<1>3. label = "transition" => TransitionReady(p)'
  BY <1>2 DEF TransitionReady, StoreGrows
<1>4. EnvelopeOK(envelope[p])'
  BY <1>2 DEF ClientOK, EnvelopeOK
<1>5. ClientOK(p)'
  BY <1>2, <1>3, <1>4 DEF ClientOK
<1> QED
  BY <1>1, <1>2, <1>5, OneClientMoves

\* create_account's first write.
LEMMA CreateAccountKeeps == ASSUME NEW p \in Client, LedgerInv, CreateAccount(p) PROVE LedgerInv'
<1> USE DEF LedgerInv
<1>1. PICK a \in DOMAIN Opening :
          \/ /\ create_account(a, Opening[a])
             /\ change' = [change EXCEPT ![p].account = a]
             /\ reply' = [reply EXCEPT ![p] = "none"]
             /\ Goto(p, "announce") /\ UNCHANGED loaded
          \/ Return(p, "error") /\ UNCHANGED storeVars
  BY DEF CreateAccount
<1>2. envelope' = envelope /\ a \in Account /\ Opening[a] \in SUBSET AccountFlags
  BY OpeningAssumption DEF CreateAccount
<1>3. CASE Return(p, "error") /\ UNCHANGED storeVars
  BY <1>2, <1>3, QuietReturn
<1>4. CASE /\ create_account(a, Opening[a])
           /\ change' = [change EXCEPT ![p].account = a]
           /\ reply' = [reply EXCEPT ![p] = "none"]
           /\ Goto(p, "announce") /\ UNCHANGED loaded
  <2>1. FloorInv' /\ StoreGrows
    BY <1>2, <1>4, CreateKeepsFloor, CreateGrows DEF FloorInv, StoreInv
  <2>2. immutable' = immutable /\ active' = active /\ transfers' = transfers
    BY <1>4 DEF create_account
  <2> DEFINE c == [change[p] EXCEPT !.account = a]
  <2>3. c \in ChangeType /\ c.account = a /\ change' = [change EXCEPT ![p] = c]
    <3>1. change[p] \in ChangeType
      BY DEF ClientsOK, ClientTypes, ChangeType
    <3> QED
      BY <1>2, <1>4, <3>1 DEF ChangeType
  <2> HIDE DEF c
  <2>4. ClientsOK'
    BY <1>2, <1>4, <2>1, <2>3, ChangeKeeps
  <2> QED
    BY <2>1, <2>2, <2>4, AccountsKeepMoney
<1> QED
  BY <1>1, <1>3, <1>4

\* create_account's second write.
LEMMA AnnounceAccountKeeps == ASSUME NEW p \in Client, LedgerInv, AnnounceAccount(p) PROVE LedgerInv'
<1> USE DEF LedgerInv
<1>1. /\ pc[p] = "announce" /\ envelope' = envelope /\ Return(p, "ok")
      /\ append_event(Event("AccountCreated", change[p].account, 0))
  BY DEF AnnounceAccount
<1>2. change[p].account \in Account
  BY <1>1 DEF ClientsOK, ClientOK
<1>3. FloorInv' /\ StoreGrows
  BY <1>1, <1>2, AnnounceKeeps
<1>4. immutable' = immutable /\ active' = active /\ transfers' = transfers
  BY <1>1 DEF append_event
<1>5. ClientsOK'
  BY <1>1, <1>3, ReturnKeeps
<1> QED
  BY <1>3, <1>4, <1>5, AccountsKeepMoney

\* freeze, unfreeze and close start.
LEMMA BeginTransitionKeeps == ASSUME NEW p \in Client, LedgerInv, BeginTransition(p) PROVE LedgerInv'
<1> USE DEF LedgerInv
<1>1. PICK t \in Transition :
          \/ /\ change' = [change EXCEPT ![p] = [NoChange EXCEPT !.account = t[1], !.kind = t[2]]]
             /\ reply' = [reply EXCEPT ![p] = "none"]
             /\ Goto(p, "read") /\ UNCHANGED loaded
          \/ Return(p, "error")
  BY DEF BeginTransition
<1>2. UNCHANGED storeVars /\ envelope' = envelope
  BY DEF BeginTransition
<1>3. CASE Return(p, "error")
  BY <1>2, <1>3, QuietReturn
<1>4. CASE /\ change' = [change EXCEPT ![p] = [NoChange EXCEPT !.account = t[1], !.kind = t[2]]]
           /\ reply' = [reply EXCEPT ![p] = "none"]
           /\ Goto(p, "read") /\ UNCHANGED loaded
  <2> DEFINE c == [NoChange EXCEPT !.account = t[1], !.kind = t[2]]
  <2>1. t[1] \in Account /\ t[2] \in LifecycleKind
    BY TransitionAssumption
  <2>2. c \in ChangeType /\ c.account \in Account /\ c.kind \in LifecycleKind
    <3> DEFINE record == NewAccount({})
    <3>1. c = [account |-> t[1], kind |-> t[2], next |-> record]
      <4> DEFINE x == <<0, 0>>
                 y == "none"
                 b == t[1]
                 k == t[2]
      <4>1. NoChange = [account |-> x, kind |-> y, next |-> record]
        BY DEF NoChange
      <4>2. c = [NoChange EXCEPT !.account = b, !.kind = k]
        OBVIOUS
      <4> HIDE DEF record, x, y, b, k, c
      <4>3. [[account |-> x, kind |-> y, next |-> record] EXCEPT !.account = b]
              = [account |-> b, kind |-> y, next |-> record]
        OBVIOUS
      <4>4. [[account |-> b, kind |-> y, next |-> record] EXCEPT !.kind = k]
              = [account |-> b, kind |-> k, next |-> record]
        OBVIOUS
      <4>5. c = [account |-> b, kind |-> k, next |-> record]
        BY <4>1, <4>2, <4>3, <4>4
      <4> QED
        BY <4>5 DEF b, k
    <3>2. record \in AccountRecord
      BY DEF NewAccount, AccountRecord
    <3> HIDE DEF record, c
    <3> QED
      BY <2>1, <3>1, <3>2 DEF ChangeType
  <2> HIDE DEF c
  <2>3. change' = [change EXCEPT ![p] = c]
    BY <1>4 DEF c
  <2>4. ClientsOK'
    BY <1>2, <1>4, <2>2, <2>3, ReadsKeepStore, ChangeKeeps
  <2> QED
    BY <1>2, <2>4, ReadsKeepStore
<1> QED
  BY <1>1, <1>3, <1>4

\* transition reads the account and computes the version it will ask for.
LEMMA ReadAccountKeeps == ASSUME NEW p \in Client, LedgerInv, ReadAccount(p) PROVE LedgerInv'
<1> USE DEF LedgerInv
<1> DEFINE a == change[p].account
           kind == change[p].kind
<1>1. UNCHANGED storeVars /\ envelope' = envelope /\ pc[p] = "read"
  BY DEF ReadAccount
<1>2. \/ /\ Exists(a)
         /\ change' = [change EXCEPT ![p].next = NextVersion(kind, head(a))]
         /\ Goto(p, "transition") /\ UNCHANGED <<loaded, reply>>
      \/ Return(p, "error")
  BY DEF ReadAccount
<1>3. CASE Return(p, "error")
  BY <1>1, <1>3, QuietReturn
<1>4. CASE /\ Exists(a)
           /\ change' = [change EXCEPT ![p].next = NextVersion(kind, head(a))]
           /\ Goto(p, "transition") /\ UNCHANGED <<loaded, reply>>
  <2> DEFINE next == NextVersion(kind, head(a))
             c == [change[p] EXCEPT !.next = next]
  <2>1. a \in Account /\ kind \in LifecycleKind /\ change[p] \in ChangeType
    BY <1>1 DEF ClientsOK, ClientOK, ClientTypes, ChangeType
  <2>2. Len(accounts[a]) \in DOMAIN accounts[a] /\ head(a) \in AccountRecord
    BY <1>4, <2>1, HeadFacts DEF FloorInv, StoreInv
  <2>3. next \in AccountRecord
    <3>1. head(a).version + 1 \in Nat \ {0} /\ head(a).flags \in SUBSET AccountFlags
      BY <2>2 DEF AccountRecord
    <3>2. Mutate(kind, head(a).flags) \in SUBSET AccountFlags
      BY <2>1, <3>1, MutateType
    <3> QED
      BY <3>1, <3>2 DEF NextVersion, AccountRecord
  <2> HIDE DEF next
  <2>4. /\ c \in ChangeType /\ c.account = a /\ c.kind = kind /\ c.next = next
        /\ change' = [change EXCEPT ![p] = c]
    BY <1>4, <2>1, <2>3 DEF ChangeType, next
  <2>5. \E v \in DOMAIN accounts[a] : next = NextVersion(kind, accounts[a][v])
    BY <2>2 DEF next, head
  <2> HIDE DEF c, a, kind
  <2>6. ClientsOK'
    <3>1. StoreGrows /\ ClientsOK
      BY <1>1, ReadsKeepStore
    <3>2. /\ Goto(p, "transition") /\ pc[p] # "idle" /\ reply' = reply
          /\ envelope' = envelope /\ loaded' = loaded
      BY <1>1, <1>4
    <3> HIDE DEF LedgerInv
    <3> QED
      BY <2>1, <2>4, <2>5, <3>1, <3>2, ChangeKeeps
  <2> QED
    BY <1>1, <2>6, ReadsKeepStore
<1> QED
  BY <1>2, <1>3, <1>4

\* The store's commit_transition, applied, already applied or refused.
LEMMA StoreTransitionKeeps == ASSUME NEW p \in Client, LedgerInv, StoreTransition(p) PROVE LedgerInv'
<1> USE DEF LedgerInv
<1> DEFINE a == change[p].account
           kind == change[p].kind
<1>1. envelope' = envelope /\ pc[p] = "transition"
  BY DEF StoreTransition
<1>2. \/ commit_transition(a, change[p].next, kind) /\ Return(p, "ok")
      \/ Return(p, "error") /\ UNCHANGED storeVars
  BY DEF StoreTransition
<1>3. CASE Return(p, "error") /\ UNCHANGED storeVars
  BY <1>1, <1>3, QuietReturn
<1>4. CASE commit_transition(a, change[p].next, kind) /\ Return(p, "ok")
  <2>1. a \in Account /\ kind \in LifecycleKind /\ TransitionReady(p)
    BY <1>1 DEF ClientsOK, ClientOK
  <2>2. PICK v \in DOMAIN accounts[a] : change[p].next = NextVersion(kind, accounts[a][v])
    BY <2>1 DEF TransitionReady
  <2>3. CASE TransitionApplied(a, NextVersion(kind, accounts[a][v]), kind)
    <3>1. FloorInv' /\ StoreGrows
      BY <2>1, <2>3, AppliedKeepsFloor, AppliedGrows DEF FloorInv
    <3>2. immutable' = immutable /\ active' = active /\ transfers' = transfers
      BY <2>3 DEF TransitionApplied
    <3>3. ClientsOK'
      BY <1>1, <1>4, <3>1, ReturnKeeps
    <3> QED
      BY <3>1, <3>2, <3>3, AccountsKeepMoney
  <2>4. CASE TransitionAlreadyApplied(a, NextVersion(kind, accounts[a][v]), kind)
    <3>1. UNCHANGED storeVars
      BY <2>1, <2>4, AlreadyAppliedIsStutter DEF FloorInv
    <3> QED
      BY <1>1, <1>4, <3>1, QuietReturn
  <2> QED
    BY <1>4, <2>2, <2>3, <2>4 DEF commit_transition
<1> QED
  BY <1>2, <1>3, <1>4

\* A client vanishes.
LEMMA AbandonKeeps == ASSUME NEW p \in Client, LedgerInv, Abandon(p) PROVE LedgerInv'
BY QuietReturn DEF Abandon

-----------------------------------------------------------------------------
(* The invariant. *)

\* The initial state satisfies the invariant.
LEMMA InitLedger == Init => LedgerInv
<1> SUFFICES ASSUME Init PROVE LedgerInv
  OBVIOUS
<1> DEFINE E == {Event("AccountCreated", a, 0) : a \in DOMAIN Existing}
<1>1. FloorInv /\ TransfersOK /\ Conservation /\ OffsetsOnlyWherePermitted
  <2>1. /\ DOMAIN immutable = {} /\ DOMAIN transfers = {} /\ active = {}
        /\ accounts = InitialAccounts /\ events = SetToSeq(E)
    BY DEF Init
  <2>2. /\ events \in Seq(EventType)
        /\ \A i \in DOMAIN events : events[i].kind = "AccountCreated"
    BY <2>1, CreatedEvents
  <2> QED
    BY <2>1, <2>2, QuietStart
<1>4. NoChange \in ChangeType
  BY DEF NoChange, NewAccount, AccountRecord, ChangeType
<1>5. EnvelopeOK(NoEnvelope)
  <2>1. <<>> \in Seq(Posting)
    OBVIOUS
  <2> QED
    BY <2>1, EnvelopeFacts DEF NoEnvelope
<1>6. ClientTypes
  BY <1>4 DEF Init, ClientTypes, ChangeType, Label
<1>7. \A p \in Client : ClientOK(p)
  BY <1>5 DEF Init, ClientOK
<1> QED
  BY <1>1, <1>6, <1>7 DEF LedgerInv, ClientsOK

\* Every step keeps it.
LEMMA NextLedger == LedgerInv /\ [Next]_vars => LedgerInv'
<1> SUFFICES ASSUME LedgerInv, [Next]_vars PROVE LedgerInv'
  OBVIOUS
<1>1. CASE UNCHANGED vars
  <2>1. /\ UNCHANGED storeVars /\ pc' = pc /\ envelope' = envelope /\ loaded' = loaded
        /\ change' = change /\ reply' = reply
    BY <1>1 DEF vars, clientVars
  <2>2. ClientTypes'
    BY <2>1 DEF LedgerInv, ClientsOK, ClientTypes
  <2>3. \A p \in Client : ClientOK(p)'
    BY <2>1, ReadsKeepStore, Waiting DEF LedgerInv, ClientsOK
  <2> QED
    BY <2>1, <2>2, <2>3, ReadsKeepStore DEF LedgerInv, ClientsOK
<1>2. CASE Next
  BY <1>2, ResolveKeeps, ReverseKeeps, ResubmitKeeps, PinKeeps, PrecheckKeeps, LoadKeeps,
     PlanKeeps, StoreCommitKeeps, CreateAccountKeeps, AnnounceAccountKeeps,
     BeginTransitionKeeps, ReadAccountKeeps, StoreTransitionKeeps, AbandonKeeps DEF Next
<1> QED
  BY <1>1, <1>2

\* The inductive invariant holds in every state of every behaviour.
THEOREM LedgerInvariant == Spec => []LedgerInv
BY InitLedger, NextLedger, PTL DEF Spec

\* The live postings of every asset sum to zero in every state, for any number of
\* clients, accounts and requests: what Ledger::plan validated on records loaded
\* earlier is enough when the store's guards hold.
THEOREM ConservationThm == Spec => []Conservation
<1>1. LedgerInv => Conservation
  BY DEF LedgerInv
<1> QED
  BY <1>1, LedgerInvariant, PTL

\* Only accounts that permit overdraft own negative postings, although only
\* validation looks at the sign and it looks at old records: no lifecycle change
\* touches the flag.
THEOREM OffsetsOnlyWherePermittedThm == Spec => []OffsetsOnlyWherePermitted
<1>1. LedgerInv => OffsetsOnlyWherePermitted
  BY DEF LedgerInv
<1> QED
  BY <1>1, LedgerInvariant, PTL

\* What the store promises its callers holds for the ledger's clients: they meet
\* the store's preconditions.
THEOREM LedgerStore == Spec => [](StoreInv /\ OverdraftFloor)
<1>1. LedgerInv => StoreInv /\ OverdraftFloor
  BY DEF LedgerInv, FloorInv
<1> QED
  BY <1>1, LedgerInvariant, PTL

\* A client that returns a receipt for its envelope is the one that moved.
LEMMA ReceiptMover ==
    ASSUME LedgerInv, Next, NEW p \in Client, ReceiptReturned(p)
    PROVE  \/ Precheck(p) /\ envelope_id(envelope[p]) \in DOMAIN transfers
           \/ StoreCommit(p)
<1>1. reply[p] = "none" /\ reply'[p] = "ok"
  BY DEF ReceiptReturned, LedgerInv, ClientsOK, ClientOK
<1>2. PICK q \in Client :
        \/ Resolve(q) \/ ReverseTransfer(q) \/ Resubmit(q)
        \/ PinSnapshots(q) \/ Precheck(q) \/ LoadAccounts(q)
        \/ LoadBalancesAndPlan(q) \/ StoreCommit(q)
        \/ CreateAccount(q) \/ AnnounceAccount(q)
        \/ BeginTransition(q) \/ ReadAccount(q) \/ StoreTransition(q)
        \/ Abandon(q)
  BY DEF Next
<1>3. DOMAIN reply = Client
  BY DEF LedgerInv, ClientsOK, ClientTypes
<1>4. q = p
  <2> SUFFICES ASSUME q # p PROVE reply'[p] = reply[p]
    BY <1>1
  <2>1. reply' = reply \/ \E x : reply' = [reply EXCEPT ![q] = x]
    BY <1>2 DEF Resolve, ReverseTransfer, Resubmit, PinSnapshots, Precheck, LoadAccounts,
       LoadBalancesAndPlan, StoreCommit, CreateAccount, AnnounceAccount, BeginTransition,
       ReadAccount, StoreTransition, Abandon, Return
  <2> QED
    BY <1>3, <2>1
<1>5. Precheck(p) \/ StoreCommit(p)
  <2>1. pc[p] \in {"precheck", "store"}
    BY DEF ReceiptReturned
  <2>2. ~Resolve(p) /\ ~ReverseTransfer(p) /\ ~Resubmit(p) /\ ~CreateAccount(p)
        /\ ~BeginTransition(p)
    BY <2>1 DEF Resolve, ReverseTransfer, Resubmit, CreateAccount, BeginTransition, Begin
  <2>3. ~PinSnapshots(p) /\ ~LoadAccounts(p) /\ ~LoadBalancesAndPlan(p)
        /\ ~AnnounceAccount(p) /\ ~ReadAccount(p) /\ ~StoreTransition(p)
    BY <2>1 DEF PinSnapshots, LoadAccounts, LoadBalancesAndPlan, AnnounceAccount, ReadAccount,
       StoreTransition
  <2>4. ~Abandon(p)
    BY <1>1, <1>3 DEF Abandon, Return
  <2> QED
    BY <1>2, <1>4, <2>2, <2>3, <2>4
<1>6. Precheck(p) => envelope_id(envelope[p]) \in DOMAIN transfers
  BY <1>1 DEF Precheck
<1> QED
  BY <1>5, <1>6

\* A receipt is returned only for a transfer that is stored, announced and has its
\* postings, whichever of the three ways to Ok commit_envelope took.
THEOREM ReceiptsAreDurableThm == Spec => ReceiptsAreDurable
<1> DEFINE Durable(p) ==
              LET tid == envelope_id(envelope[p])
              IN /\ tid \in DOMAIN transfers'
                 /\ \E i \in DOMAIN events' : events'[i] = TransferCommitted(tid)
                 /\ \A i \in DOMAIN envelope[p].creates : <<tid, i>> \in DOMAIN immutable'
<1>1. ASSUME LedgerInv, LedgerInv', Next, NEW p \in Client, ReceiptReturned(p)
      PROVE  Durable(p)
  <2> DEFINE tid == envelope_id(envelope[p])
  <2>1. tid \in DOMAIN transfers'
    <3>1. CASE Precheck(p) /\ tid \in DOMAIN transfers
      BY <3>1 DEF Precheck, storeVars
    <3>2. CASE StoreCommit(p)
      <4>1. reply'[p] = "ok"
        BY <1>1 DEF ReceiptReturned
      <4>2. ~Return(p, "error")
        BY <1>1, <4>1 DEF Return, LedgerInv, ClientsOK, ClientTypes
      <4>3. CASE commit_envelope(CommitRequest(envelope[p]))
        BY <4>3, CommitEffect
      <4>4. CASE AlreadyCommitted(CommitRequest(envelope[p])) /\ UNCHANGED storeVars
        BY <4>4 DEF AlreadyCommitted, CommitRequest, storeVars
      <4> QED
        BY <3>2, <4>2, <4>3, <4>4 DEF StoreCommit
    <3> QED
      BY <1>1, <3>1, <3>2, ReceiptMover
  <2>2. \E i \in DOMAIN events' : events'[i] = TransferCommitted(tid)
    <3>1. EventsMatchTables'
      BY <1>1 DEF LedgerInv, FloorInv, StoreInv
    <3> HIDE DEF tid
    <3> QED
      BY <2>1, <3>1 DEF EventsMatchTables, TransferCommitted, Event
  <2>3. transfers'[tid].creates = envelope[p].creates
    <3>1. envelope_id(transfers'[tid]) = tid
      <4>1. TransfersOK'
        BY <1>1 DEF LedgerInv
      <4> HIDE DEF tid
      <4> QED
        BY <2>1, <4>1 DEF TransfersOK, envelope_id
    <3> QED
      BY <3>1 DEF envelope_id
  <2>4. \A i \in DOMAIN envelope[p].creates : <<tid, i>> \in DOMAIN immutable'
    <3>1. PostingsFromLog'
      BY <1>1 DEF LedgerInv, FloorInv, StoreInv
    <3> HIDE DEF tid
    <3> QED
      BY <2>1, <2>3, <3>1 DEF PostingsFromLog
  <2> QED
    BY <2>1, <2>2, <2>4
<1>2. ASSUME LedgerInv, NEW p \in Client, UNCHANGED vars PROVE ~ReceiptReturned(p)
  BY <1>2 DEF vars, clientVars, ReceiptReturned, LedgerInv, ClientsOK, ClientOK
<1>3. LedgerInv /\ LedgerInv' /\ [Next]_vars =>
        [\A p \in Client : ReceiptReturned(p) => Durable(p)]_vars
  BY <1>1, <1>2
<1> QED
  BY <1>3, LedgerInvariant, PTL DEF Spec, ReceiptsAreDurable

-----------------------------------------------------------------------------
(* Refinement: the concurrent ledger implements the abstract one. *)

\* g sums b over the accounts, for one asset.
TotalSol(b, asset, S, g) ==
    g = [s \in SUBSET S |-> IF s = {} THEN 0
                            ELSE b[<<CHOOSE x \in s : TRUE, asset>>] + g[s \ {CHOOSE x \in s : TRUE}]]

\* The abstract total is the sum of the balances.
LEMMA TotalIs ==
    ASSUME NEW b, NEW asset
    PROVE  Abstract!Total(b, asset) = SumOf([a \in Account |-> b[<<a, asset>>]], Account)
<1> DEFINE S == Account
           v == [a \in S |-> b[<<a, asset>>]]
           g == CHOOSE h : SumSol(v, S, h)
           k == CHOOSE h : TotalSol(b, asset, S, h)
<1>0. IsFiniteSet(S)
  BY IdsAssumption
<1>1. Abstract!Total(b, asset) = k[S]
  BY DEF Abstract!Total, Abstract!MapThenSumSet, Abstract!MapThenFoldSet, TotalSol
<1>2. \A s \in SUBSET S : s # {} => v[Pick(s)] = b[<<CHOOSE x \in s : TRUE, asset>>]
  BY PickFacts DEF Pick
<1> HIDE DEF S
<1>3. SumSol(v, S, g)
  BY <1>0, SumExists, SumChosen
<1>4. ASSUME NEW h PROVE SumSol(v, S, h) <=> TotalSol(b, asset, S, h)
  BY <1>2 DEF SumSol, TotalSol, Pick
<1>5. TotalSol(b, asset, S, g)
  BY <1>3, <1>4
<1>6. TotalSol(b, asset, S, k)
  <2> HIDE DEF g, v
  <2>1. \E h : TotalSol(b, asset, S, h)
    BY <1>5
  <2> QED
    BY <2>1, Zenon
<1>7. SumSol(v, S, k)
  BY <1>4, <1>6
<1>8. k[S] = g[S]
  BY <1>0, <1>3, <1>7, SumUnique
<1> QED
  BY <1>1, <1>8 DEF SumOf, S

AddsUp ==
    \A asset \in Asset :
        SumOf([a \in Account |-> AbstractBalance[<<a, asset>>]], Account) = LiveTotal(asset)

\* The balances of an asset sum to the value of its live postings.
LEMMA BalancesAddUp == StoreInv /\ FiniteTables => AddsUp
<1> SUFFICES ASSUME StoreInv, FiniteTables, NEW asset \in Asset
             PROVE  SumOf([a \in Account |-> AbstractBalance[<<a, asset>>]], Account)
                      = LiveTotal(asset)
  BY DEF AddsUp
<1> DEFINE S == {id \in active : immutable[id].asset = asset}
           v == [id \in S |-> immutable[id].value]
           key == [id \in S |-> immutable[id].owner]
           total == [a \in Account |-> AbstractBalance[<<a, asset>>]]
<1>1. \A id \in active : immutable[id].owner \in Account /\ immutable[id].value \in Int
  BY DEF StoreInv, StoreTypeOK, Posting
<1>2. IsFiniteSet(S)
  <2>1. S \in SUBSET DOMAIN immutable
    BY DEF StoreInv, StoreTypeOK
  <2> QED
    BY <2>1, FS_Subset DEF FiniteTables
<1>3. \A id \in S : key[id] \in Account /\ v[id] \in Int
  BY <1>1
<1>4. ASSUME NEW a \in Account PROVE total[a] = SumOf(v, {id \in S : key[id] = a})
  <2> DEFINE T == {id \in S : key[id] = a}
  <2>1. T = {id \in active : immutable[id].owner = a /\ immutable[id].asset = asset}
    OBVIOUS
  <2>2. total[a] = SumValues(immutable, T)
    BY <2>1 DEF AbstractBalance, Balance
  <2>3. T \in SUBSET S
    OBVIOUS
  <2>4. IsFiniteSet(T) /\ \A id \in T : v[id] = [i \in T |-> immutable[i].value][id]
    BY <1>2, <2>3, FS_Subset
  <2> HIDE DEF T, v
  <2>5. SumOf(v, T) = SumOf([i \in T |-> immutable[i].value], T)
    BY <2>4, SumSame
  <2>6. SumValues(immutable, T) = SumOf([i \in T |-> immutable[i].value], T)
    BY <2>4, SumValuesIs
  <2> QED
    BY <2>2, <2>5, <2>6 DEF T
<1>5. LiveTotal(asset) = SumOf(v, S)
  BY <1>2, SumValuesIs DEF LiveTotal
<1>6. SumOf(total, Account) = SumOf(v, S)
  <2> HIDE DEF S, v, key, total
  <2>1. IsFiniteSet(Account)
    BY IdsAssumption
  <2>2. /\ \A id \in S : key[id] \in Account
        /\ \A id \in S : v[id] \in Int
        /\ \A a \in Account : total[a] = SumOf(v, {id \in S : key[id] = a})
    BY <1>3, <1>4
  <2> QED
    BY <1>2, <2>1, <2>2, SumByKey
<1> QED
  BY <1>5, <1>6

\* In the next state too.
LEMMA BalancesAddUpNext == (StoreInv /\ FiniteTables => AddsUp)'
BY BalancesAddUp, PTL

\* A step that writes no posting, account or transfer is a stutter of the abstraction.
LEMMA AbstractStutter ==
    ASSUME accounts' = accounts, immutable' = immutable, active' = active
    PROVE  UNCHANGED Abstract!absVars
<1>1. AbstractBalance' = AbstractBalance
  BY DEF AbstractBalance, Balance
<1>2. AbstractStatus' = AbstractStatus
  BY DEF AbstractStatus, Exists, head, is_closed, is_frozen
<1>3. AbstractMayOverdraw' = AbstractMayOverdraw
  BY DEF AbstractMayOverdraw, Exists, head, forbids_overdraft
<1> QED
  BY <1>1, <1>2, <1>3 DEF Abstract!absVars

\* A commit is one abstract move.
LEMMA CommitIsMove ==
    ASSUME NEW p \in Client, LedgerInv, LedgerInv', pc[p] = "store",
           commit_envelope(CommitRequest(envelope[p]))
    PROVE  Abstract!Move
<1> DEFINE e == envelope[p]
<1>1. StoreInv /\ FiniteTables /\ OverdraftFloor /\ StoreInv' /\ FiniteTables' /\ OverdraftFloor'
  BY DEF LedgerInv, FloorInv
<1>2. e.creates \in Seq(Posting) /\ Conserves(e, Consumed(e))
  BY DEF LedgerInv, ClientsOK, ClientOK, EnvelopeOK, StoreReady
<1>3. accounts' = accounts
  BY CommitEffect
<1>4. ASSUME NEW asset \in Asset
      PROVE  Abstract!Total(AbstractBalance', asset) = Abstract!Total(AbstractBalance, asset)
  <2>1. LiveTotal(asset)' = LiveTotal(asset)
    BY <1>1, <1>2, CommitConserves
  <2>2. Abstract!Total(AbstractBalance, asset) = LiveTotal(asset)
    BY <1>1, BalancesAddUp, TotalIs DEF AddsUp
  <2>3. Abstract!Total(AbstractBalance', asset) = LiveTotal(asset)'
    <3>1. SumOf([a \in Account |-> AbstractBalance'[<<a, asset>>]], Account) = LiveTotal(asset)'
      BY <1>1, BalancesAddUpNext DEF AddsUp
    <3> QED
      BY <3>1, TotalIs
  <2> QED
    BY <2>1, <2>2, <2>3
<1>5. ASSUME NEW key \in Account \X Asset, AbstractBalance'[key] # AbstractBalance[key]
      PROVE  /\ AbstractStatus[key[1]] = "open"
             /\ AbstractBalance'[key] >= 0 \/ key[1] \in AbstractMayOverdraw
  <2> DEFINE a == key[1]
             asset == key[2]
  <2>1. a \in Account /\ asset \in Asset
    OBVIOUS
  <2>2. AbstractBalance[key] = Balance(a, asset) /\ AbstractBalance'[key] = Balance(a, asset)'
    BY DEF AbstractBalance
  <2> HIDE DEF a, asset
  <2>3. asset \in TouchedAssets(CommitRequest(e), a)
    BY <1>1, <1>2, <1>5, <2>2, CommitUntouched
  <2>4. a \in CommitRequest(e).involved
    BY <2>3, TouchedFacts DEF CommitRequest, referenced_accounts, ToSet
  <2>5. Exists(a) /\ ~is_frozen(head(a)) /\ ~is_closed(head(a))
    BY <2>4 DEF commit_envelope, Accepts, InvolvedOpen
  <2>6. AbstractStatus[a] = "open"
    BY <2>1, <2>5 DEF AbstractStatus
  <2>7. Balance(a, asset)' >= 0 \/ a \in AbstractMayOverdraw
    <3>1. CASE forbids_overdraft(head(a))
      BY <1>1, <1>3, <2>1, <2>5, <3>1 DEF OverdraftFloor, Exists, head
    <3>2. CASE ~forbids_overdraft(head(a))
      BY <2>1, <2>5, <3>2 DEF AbstractMayOverdraw
    <3> QED
      BY <3>1, <3>2
  <2> QED
    BY <2>2, <2>6, <2>7 DEF a
<1>6. AbstractStatus' = AbstractStatus /\ AbstractMayOverdraw' = AbstractMayOverdraw
  BY <1>3 DEF AbstractStatus, AbstractMayOverdraw, Exists, head, is_closed, is_frozen,
              forbids_overdraft
<1> QED
  BY <1>4, <1>5, <1>6 DEF Abstract!Move

\* create_account opens an account, in the status its flags give it.
LEMMA CreateIsOpen ==
    ASSUME NEW a \in Account, NEW flags, StoreTypeOK, create_account(a, flags)
    PROVE  Abstract!Open(a)
<1> DEFINE r == NewAccount(flags)
           new == IF is_closed(r) THEN "closed" ELSE IF is_frozen(r) THEN "frozen" ELSE "open"
<1>1. /\ accounts[a] = <<>> /\ immutable' = immutable /\ active' = active
      /\ accounts' = [accounts EXCEPT ![a] = <<r>>]
  BY DEF create_account, Exists
<1>2. /\ DOMAIN accounts = Account
      /\ accounts'[a] = <<r>> /\ \A b \in Account : b # a => accounts'[b] = accounts[b]
  BY <1>1 DEF StoreTypeOK
<1>3. accounts'[a] # <<>> /\ accounts'[a][Len(accounts'[a])] = r
  <2> HIDE DEF r
  <2> QED
    BY <1>2
<1> HIDE DEF r
<1>4. AbstractBalance' = AbstractBalance
  BY <1>1 DEF AbstractBalance, Balance
<1>5. AbstractStatus[a] = "absent"
  BY <1>1 DEF AbstractStatus, Exists
<1>6. AbstractStatus' = [AbstractStatus EXCEPT ![a] = new]
  <2>1. AbstractStatus'[a] = new
    BY <1>3 DEF AbstractStatus, Exists, head
  <2>2. \A b \in Account : b # a => AbstractStatus'[b] = AbstractStatus[b]
    BY <1>2 DEF AbstractStatus, Exists, head
  <2>3. /\ AbstractStatus = [b \in Account |-> AbstractStatus[b]]
        /\ AbstractStatus' = [b \in Account |-> AbstractStatus'[b]]
    BY DEF AbstractStatus
  <2> HIDE DEF new
  <2> QED
    BY <2>1, <2>2, <2>3
<1>7. AbstractMayOverdraw' \in {AbstractMayOverdraw, AbstractMayOverdraw \cup {a}}
  <2>1. \A b \in Account : b # a => (b \in AbstractMayOverdraw' <=> b \in AbstractMayOverdraw)
    BY <1>2 DEF AbstractMayOverdraw, Exists, head
  <2>2. a \notin AbstractMayOverdraw
    BY <1>1 DEF AbstractMayOverdraw, Exists
  <2>3. AbstractMayOverdraw \subseteq Account /\ AbstractMayOverdraw' \subseteq Account
    BY DEF AbstractMayOverdraw
  <2>4. CASE a \in AbstractMayOverdraw'
    <3>1. AbstractMayOverdraw' = AbstractMayOverdraw \cup {a}
      BY <2>1, <2>3, <2>4
    <3> QED
      BY <3>1
  <2>5. CASE a \notin AbstractMayOverdraw'
    <3>1. AbstractMayOverdraw' = AbstractMayOverdraw
      BY <2>1, <2>2, <2>3, <2>5
    <3> QED
      BY <3>1
  <2> QED
    BY <2>4, <2>5
<1>8. new \in Abstract!Opened
  BY DEF Abstract!Opened
<1> QED
  <2> HIDE DEF new
  <2> QED
    BY <1>4, <1>5, <1>6, <1>7, <1>8 DEF Abstract!Open

\* A transition that lands is one abstract change of status, or none: a frozen
\* account that is frozen again only gets a new version.
LEMMA AppliedIsStatusChange ==
    ASSUME NEW a \in Account, NEW kind \in LifecycleKind, NEW v \in DOMAIN accounts[a],
           StoreInv, TransitionApplied(a, NextVersion(kind, accounts[a][v]), kind)
    PROVE  \/ Abstract!Freeze(a) \/ Abstract!Unfreeze(a) \/ Abstract!Close(a)
           \/ UNCHANGED Abstract!absVars
<1> DEFINE old == head(a).flags
           new == Mutate(kind, old)
<1>1. /\ Exists(a) /\ Exists(a)' /\ head(a)'.flags = new
      /\ \A b \in Account : b # a => accounts'[b] = accounts[b]
      /\ immutable' = immutable /\ active' = active
  BY AppliedHead
<1>2. ~is_closed(head(a))
  BY DEF TransitionApplied
<1>3. AbstractBalance' = AbstractBalance
  BY <1>1 DEF AbstractBalance, Balance
<1>4. AbstractMayOverdraw' = AbstractMayOverdraw
  <2>1. forbids_overdraft(head(a))' <=> forbids_overdraft(head(a))
    BY <1>1, MutateKeepsFloor DEF forbids_overdraft
  <2>2. a \in AbstractMayOverdraw' <=> a \in AbstractMayOverdraw
    BY <1>1, <2>1 DEF AbstractMayOverdraw
  <2>3. \A b \in Account : b # a => (b \in AbstractMayOverdraw' <=> b \in AbstractMayOverdraw)
    BY <1>1 DEF AbstractMayOverdraw, Exists, head
  <2>4. AbstractMayOverdraw \subseteq Account /\ AbstractMayOverdraw' \subseteq Account
    BY DEF AbstractMayOverdraw
  <2> QED
    BY <2>2, <2>3, <2>4
<1>5. /\ AbstractStatus = [b \in Account |-> AbstractStatus[b]]
      /\ AbstractStatus' = [b \in Account |-> AbstractStatus'[b]]
      /\ \A b \in Account : b # a => AbstractStatus'[b] = AbstractStatus[b]
  <2>1. \A b \in Account : b # a => AbstractStatus'[b] = AbstractStatus[b]
    BY <1>1 DEF AbstractStatus, Exists, head
  <2> QED
    BY <2>1 DEF AbstractStatus
<1>6. AbstractStatus[a] = IF "FROZEN" \in old THEN "frozen" ELSE "open"
  BY <1>1, <1>2 DEF AbstractStatus, is_frozen
<1>7. AbstractStatus'[a] = IF "CLOSED" \in new THEN "closed"
                           ELSE IF "FROZEN" \in new THEN "frozen" ELSE "open"
  BY <1>1 DEF AbstractStatus, is_frozen, is_closed
<1>8. "CLOSED" \notin old
  BY <1>2 DEF is_closed
<1>9. \/ kind = "AccountFrozen" /\ new = old \cup {"FROZEN"}
      \/ kind = "AccountUnfrozen" /\ new = old \ {"FROZEN"}
      \/ kind = "AccountClosed" /\ new = (old \cup {"CLOSED"}) \ {"FROZEN"}
  <2> HIDE DEF old
  <2>1. Mutate("AccountFrozen", old) = old \cup {"FROZEN"}
    BY DEF Mutate
  <2>2. Mutate("AccountUnfrozen", old) = old \ {"FROZEN"}
    BY DEF Mutate
  <2>3. Mutate("AccountClosed", old) = (old \cup {"CLOSED"}) \ {"FROZEN"}
    BY DEF Mutate
  <2> QED
    BY <2>1, <2>2, <2>3 DEF LifecycleKind
<1> HIDE DEF old, new
<1>10. \/ AbstractStatus[a] = "open" /\ AbstractStatus'[a] = "frozen"
       \/ AbstractStatus[a] = "frozen" /\ AbstractStatus'[a] = "open"
       \/ AbstractStatus[a] \in {"open", "frozen"} /\ AbstractStatus'[a] = "closed"
       \/ AbstractStatus'[a] = AbstractStatus[a]
  BY <1>6, <1>7, <1>8, <1>9
<1>11. ASSUME NEW s, AbstractStatus'[a] = s
       PROVE  AbstractStatus' = [AbstractStatus EXCEPT ![a] = s]
  BY <1>5, <1>11
<1>12. AbstractStatus'[a] = AbstractStatus[a] => AbstractStatus' = AbstractStatus
  BY <1>5
<1> QED
  BY <1>3, <1>4, <1>10, <1>11, <1>12
     DEF Abstract!Freeze, Abstract!Unfreeze, Abstract!Close, Abstract!absVars

\* Steps that write no table are abstract stutters.
LEMMA ReadsAreStutters ==
    ASSUME UNCHANGED storeVars PROVE UNCHANGED Abstract!absVars
BY AbstractStutter DEF storeVars

\* Every step of the ledger is one abstract step or none.
LEMMA NextImplements ==
    ASSUME LedgerInv, LedgerInv', Next
    PROVE  [Abstract!Next]_Abstract!absVars
<1> SUFFICES ASSUME ~ UNCHANGED storeVars PROVE [Abstract!Next]_Abstract!absVars
  BY ReadsAreStutters
<1>1. PICK p \in Client :
        StoreCommit(p) \/ CreateAccount(p) \/ AnnounceAccount(p) \/ StoreTransition(p)
  BY DEF Next, Resolve, ReverseTransfer, Resubmit, PinSnapshots, Precheck, LoadAccounts,
     LoadBalancesAndPlan, BeginTransition, ReadAccount, Abandon
<1>2. CASE StoreCommit(p)
  <2>1. pc[p] = "store" /\ commit_envelope(CommitRequest(envelope[p]))
    BY <1>2 DEF StoreCommit
  <2> QED
    BY <2>1, CommitIsMove DEF Abstract!Next
<1>3. CASE CreateAccount(p)
  <2>1. PICK a \in DOMAIN Opening : create_account(a, Opening[a])
    BY <1>3 DEF CreateAccount
  <2>2. a \in Account
    BY OpeningAssumption
  <2>3. Abstract!Open(a)
    BY <2>1, <2>2, CreateIsOpen DEF LedgerInv, FloorInv, StoreInv
  <2> QED
    BY <2>2, <2>3 DEF Abstract!Next
<1>4. CASE AnnounceAccount(p)
  <2>1. accounts' = accounts /\ immutable' = immutable /\ active' = active
    BY <1>4 DEF AnnounceAccount, append_event
  <2> QED
    BY <2>1, AbstractStutter
<1>5. CASE StoreTransition(p)
  <2> DEFINE a == change[p].account
             kind == change[p].kind
  <2>1. pc[p] = "transition" /\ commit_transition(a, change[p].next, kind)
    BY <1>5 DEF StoreTransition
  <2>2. a \in Account /\ kind \in LifecycleKind /\ TransitionReady(p)
    BY <2>1 DEF LedgerInv, ClientsOK, ClientOK
  <2>3. PICK v \in DOMAIN accounts[a] : change[p].next = NextVersion(kind, accounts[a][v])
    BY <2>2 DEF TransitionReady
  <2>4. StoreInv
    BY DEF LedgerInv, FloorInv
  <2>5. CASE TransitionApplied(a, NextVersion(kind, accounts[a][v]), kind)
    <3>1. \/ Abstract!Freeze(a) \/ Abstract!Unfreeze(a) \/ Abstract!Close(a)
          \/ UNCHANGED Abstract!absVars
      BY <2>2, <2>4, <2>5, AppliedIsStatusChange
    <3> HIDE DEF a
    <3> QED
      BY <2>2, <3>1 DEF Abstract!Next
  <2>6. CASE TransitionAlreadyApplied(a, NextVersion(kind, accounts[a][v]), kind)
    BY <2>2, <2>4, <2>6, AlreadyAppliedIsStutter
  <2> QED
    BY <2>1, <2>3, <2>5, <2>6 DEF commit_transition
<1> QED
  BY <1>1, <1>2, <1>3, <1>4, <1>5

\* The initial ledger is an initial abstract one.
LEMMA InitImplements == Init => Abstract!Init
<1> SUFFICES ASSUME Init PROVE Abstract!Init
  OBVIOUS
<1>1. AbstractBalance = [key \in Account \X Asset |-> 0]
  <2>1. \A a, asset : Balance(a, asset) = 0
    <3> SUFFICES ASSUME NEW a, NEW asset PROVE Balance(a, asset) = 0
      OBVIOUS
    <3>1. {id \in active : immutable[id].owner = a /\ immutable[id].asset = asset} = {}
      BY DEF Init
    <3> QED
      BY <3>1, ValuesType, FS_EmptySet DEF Balance, HasValues
  <2> QED
    BY <2>1 DEF AbstractBalance
<1>2. AbstractStatus \in [Account -> Abstract!Opened \cup {"absent"}]
  BY DEF AbstractStatus, Abstract!Opened
<1>3. AbstractMayOverdraw \subseteq {a \in Account : AbstractStatus[a] # "absent"}
  BY DEF AbstractMayOverdraw, AbstractStatus
<1> QED
  BY <1>1, <1>2, <1>3 DEF Abstract!Init

\* The ledger, with its retries, races, stale reads and abandoned requests, does
\* nothing that atomic transfers and lifecycle changes could not do.
THEOREM LedgerImplementsAbstract == Spec => ImplementsAbstractLedger
<1>1. LedgerInv /\ LedgerInv' /\ [Next]_vars => [Abstract!Next]_Abstract!absVars
  <2>1. CASE UNCHANGED vars
    BY <2>1, ReadsAreStutters DEF vars
  <2> QED
    BY <2>1, NextImplements
<1> QED
  BY <1>1, InitImplements, LedgerInvariant, PTL DEF Spec, ImplementsAbstractLedger, Abstract!Spec

-----------------------------------------------------------------------------
(* Resolution, alone. *)

\* A payer whose postings do not cover a debit may overdraw.
FundedOrAllowed(t, table) ==
    \A d \in ToSet(draft_movements(t).debits) :
        Funds(table, DOMAIN table, d) >= d.amount \/ ~forbids_overdraft(Holders[d.account])

\* What was resolved is what the passes build from the wallet, every debit being covered.
ResolutionInv ==
    /\ wallet \in Wallets /\ transfer \in Requests
    /\ Resolved => /\ ResolvedFrom(built, transfer, wallet, DOMAIN wallet)
                   /\ FundedOrAllowed(transfer, wallet)

\* It holds throughout.
LEMMA ResolutionInvariant == ResolutionSpec => []ResolutionInv
<1>1. ResolutionInit => ResolutionInv
  BY DEF ResolutionInit, ResolutionInv, Resolved
<1>2. ResolutionInv /\ [ResolveOnce]_resolutionVars => ResolutionInv'
  <2> SUFFICES ASSUME ResolutionInv, [ResolveOnce]_resolutionVars PROVE ResolutionInv'
    OBVIOUS
  <2>1. CASE UNCHANGED resolutionVars
    BY <2>1 DEF ResolutionInv, Resolved, resolutionVars
  <2>2. CASE ResolveOnce
    <3>1. wallet' = wallet /\ transfer' = transfer
      BY <2>2 DEF ResolveOnce
    <3>2. PICK draft : draft = draft_movements(transfer)
      OBVIOUS
    <3> DEFINE S == DOMAIN wallet
               ds == draft.debits
               available == [i \in DOMAIN ds |-> KeyRows(wallet, S, ds[i])]
               payers == [i \in DOMAIN ds |-> Holders[ds[i].account]]
    <3>3. \A d : Available(d) = KeyRows(wallet, S, d)
      BY DEF Available, KeyRows
    <3>4. [i \in DOMAIN ds |-> Available(ds[i])] = available
      BY <3>3
    <3>5. Resolved' => /\ ~InsufficientFunds(draft, available, payers)
                       /\ built' = resolve_envelope(transfer, draft, available)
      <4> HIDE DEF ds, available, payers
      <4>1. \/ outcome' = "refused"
            \/ /\ ~InsufficientFunds(draft, available, payers)
               /\ built' = resolve_envelope(transfer, draft, available)
        BY <2>2, <3>2, <3>4 DEF ResolveOnce, ds, payers
      <4> QED
        BY <4>1 DEF Resolved
    <3> SUFFICES ASSUME Resolved'
                 PROVE  /\ ResolvedFrom(built', transfer, wallet, DOMAIN wallet)
                        /\ FundedOrAllowed(transfer, wallet)
      BY <3>1 DEF ResolutionInv, Resolved, ResolvedFrom, FundedOrAllowed, Funds
    <3>6. ResolvedFrom(built', transfer, wallet, DOMAIN wallet)
      BY <3>2, <3>5 DEF ResolvedFrom
    <3>7. ASSUME NEW d \in ToSet(ds)
          PROVE  Funds(wallet, S, d) >= d.amount \/ ~forbids_overdraft(Holders[d.account])
      <4>1. PICK i \in DOMAIN ds : d = ds[i]
        BY DEF ToSet
      <4>2. CanCover(ds[i], available[i], payers[i])
        BY <3>5 DEF InsufficientFunds
      <4> QED
        BY <4>1, <4>2 DEF CanCover, Funds
    <3> QED
      BY <3>2, <3>6, <3>7 DEF FundedOrAllowed
  <2> QED
    BY <2>1, <2>2
<1> QED
  BY <1>1, <1>2, PTL DEF ResolutionSpec

\* What every resolved state offers the theorems below.
LEMMA ResolvedState ==
    ASSUME ResolutionInv, Resolved
    PROVE  /\ WellTyped(transfer) /\ PostingsIn(wallet, DOMAIN wallet)
           /\ ResolvedFrom(built, transfer, wallet, DOMAIN wallet)
           /\ FundedOrAllowed(transfer, wallet)
           /\ DOMAIN Spent = ToSet(built.consumes) /\ ToSet(built.consumes) \subseteq DOMAIN wallet
           /\ \A id \in DOMAIN Spent : Spent[id] = wallet[id] /\ Spent[id] \in Posting
           /\ built.consumes \in Seq(DOMAIN wallet) /\ built.creates \in Seq(Posting)
           /\ built.account_snapshots = <<>>
           /\ IsFiniteSet(DOMAIN Spent)
<1>1. /\ WellTyped(transfer) /\ PostingsIn(wallet, DOMAIN wallet)
      /\ ResolvedFrom(built, transfer, wallet, DOMAIN wallet)
      /\ FundedOrAllowed(transfer, wallet)
  BY HoldersAssumption, PaymentsAssumption DEF ResolutionInv, PostingsIn
<1>2. /\ built.consumes \in Seq(DOMAIN wallet) /\ built.creates \in Seq(Posting)
      /\ built.account_snapshots = <<>>
  <2>1. PICK ds, credits, spends, left :
            Parts(built, transfer.movements, DOMAIN wallet, ds, credits, spends, left)
    BY <1>1, ResolvedParts
  <2> QED
    BY <2>1 DEF Parts
<1>3. ToSet(built.consumes) \subseteq DOMAIN wallet
  BY <1>2 DEF ToSet
<1>4. DOMAIN Spent = ToSet(built.consumes) /\ \A id \in DOMAIN Spent : Spent[id] = wallet[id]
  BY DEF Spent
<1>5. IsFiniteSet(ToSet(built.consumes))
  BY <1>1, <1>3, FS_Subset DEF PostingsIn
<1> QED
  BY <1>1, <1>2, <1>3, <1>4, <1>5 DEF PostingsIn

\* The delta of the envelope on a key is what it creates less what it spends of the wallet.
LEMMA SpentDelta ==
    ASSUME ResolutionInv, Resolved, NEW a, NEW asset
    PROVE  /\ SumValues(Spent, {id \in DOMAIN Spent : Spent[id].owner = a /\ Spent[id].asset = asset})
                = SumValues(wallet, OnKey(wallet, ToSet(built.consumes), a, asset))
           /\ Delta(built, Spent, a, asset)
                = SumValues(built.creates, OnKey(built.creates, DOMAIN built.creates, a, asset))
                  - SumValues(wallet, OnKey(wallet, ToSet(built.consumes), a, asset))
           /\ SumValues(built.creates, OnKey(built.creates, DOMAIN built.creates, a, asset)) \in Int
           /\ SumValues(wallet, OnKey(wallet, ToSet(built.consumes), a, asset)) \in Int
<1> DEFINE K == OnKey(wallet, ToSet(built.consumes), a, asset)
           N == OnKey(built.creates, DOMAIN built.creates, a, asset)
<1>1. /\ DOMAIN Spent = ToSet(built.consumes) /\ ToSet(built.consumes) \subseteq DOMAIN wallet
      /\ \A id \in DOMAIN Spent : Spent[id] = wallet[id] /\ Spent[id] \in Posting
      /\ IsFiniteSet(DOMAIN Spent) /\ built.creates \in Seq(Posting)
  BY ResolvedState
<1>2. {id \in DOMAIN Spent : Spent[id].owner = a /\ Spent[id].asset = asset} = K
  BY <1>1 DEF OnKey
<1>3. K \in SUBSET DOMAIN Spent
  BY <1>1 DEF OnKey
<1> HIDE DEF K
<1>4. IsFiniteSet(K) /\ \A id \in K : Spent[id].value = wallet[id].value /\ wallet[id].value \in Int
  BY <1>1, <1>3, FS_Subset DEF Posting
<1>5. SumValues(Spent, K) = SumValues(wallet, K) /\ SumValues(wallet, K) \in Int
  BY <1>4, ValuesSame, ValuesType DEF HasValues
<1>6. SumValues(built.creates, N) \in Int
  BY <1>1, MaskedCreates
<1>7. Delta(built, Spent, a, asset) = SumValues(built.creates, N) - SumValues(Spent, K)
  BY <1>2 DEF Delta, OnKey
<1> QED
  BY <1>2, <1>5, <1>6, <1>7 DEF K

\* posting_resolution.rs: whatever the wallet and whatever the request's movements, the resolved
\* envelope moves what they ask for on every key, change and offsets netted out.
THEOREM MovesWhatWasAskedThm == ResolutionSpec => []MovesWhatWasAsked
<1>1. ResolutionInv => MovesWhatWasAsked
  <2> SUFFICES ASSUME ResolutionInv, Resolved, NEW a \in DOMAIN Holders, NEW asset \in Assets
               PROVE  Delta(built, Spent, a, asset) = Intended(a, asset)
    BY DEF MovesWhatWasAsked
  <2> DEFINE ms == transfer.movements
             In == Brought(ms, a, asset)
             net == NetDebit(ms, a, asset)
  <2>1. /\ WellTyped(transfer) /\ PostingsIn(wallet, DOMAIN wallet)
        /\ ResolvedFrom(built, transfer, wallet, DOMAIN wallet)
    BY ResolvedState
  <2>2. a \in Account /\ asset \in Asset
    <3>1. a \in Account
      BY HoldersAssumption
    <3>2. PICK m \in ToSet(ms) : asset = m.asset
      BY DEF Assets
    <3> DEFINE M == [from : Account, to : Account, asset : Asset, amount : Int]
    <3>3. ms \in Seq(M) /\ \A k \in M : k.asset \in Asset
      BY <2>1 DEF WellTyped
    <3> HIDE DEF M
    <3>4. m \in M
      BY <3>2, <3>3 DEF ToSet
    <3> QED
      BY <3>1, <3>2, <3>3, <3>4
  <2>3. net >= 0 /\ net \in Int
    <3>1. net >= 0
      BY <2>2, PaymentsAssumption DEF ResolutionInv
    <3> QED
      BY <2>1, <3>1, NetDebitType DEF WellTyped
  <2>4. Intended(a, asset) = In - net
    BY DEF Intended, Brought, Amounts, NetDebit
  <2>5. SumValues(built.creates, OnKey(built.creates, DOMAIN built.creates, a, asset))
          = SumValues(wallet, OnKey(wallet, ToSet(built.consumes), a, asset)) + In
            - (IF net > 0 THEN net ELSE 0)
    BY <2>1, <2>2, ResolvedMoves
  <2>6. In \in Int
    BY <2>1, BroughtType DEF WellTyped
  <2> HIDE DEF In, net
  <2> DEFINE x == SumValues(built.creates, OnKey(built.creates, DOMAIN built.creates, a, asset))
             y == SumValues(wallet, OnKey(wallet, ToSet(built.consumes), a, asset))
  <2>7. Delta(built, Spent, a, asset) = x - y /\ x \in Int /\ y \in Int
    BY SpentDelta
  <2>8. x = y + In - (IF net > 0 THEN net ELSE 0)
    BY <2>5
  <2> HIDE DEF x, y
  <2> QED
    BY <2>3, <2>4, <2>6, <2>7, <2>8
<1> QED
  BY <1>1, ResolutionInvariant, PTL

\* posting_resolution.rs: largest-first selection is optimal in the number of postings it spends,
\* for every debit of every request.
THEOREM SpendsFewestThm == ResolutionSpec => []SpendsFewest
<1>1. ResolutionInv => SpendsFewest
  <2> SUFFICES ASSUME ResolutionInv, Resolved, NEW d \in ToSet(draft_movements(transfer).debits),
                      NEW choice \in SUBSET DOMAIN Available(d), SumValues(wallet, choice) >= d.amount
               PROVE  Cardinality({id \in DOMAIN Spent : Spent[id].owner = d.account
                                                         /\ Spent[id].asset = d.asset})
                        <= Cardinality(choice)
    BY DEF SpendsFewest
  <2> DEFINE S == DOMAIN wallet
             mine == {id \in DOMAIN Spent : Spent[id].owner = d.account /\ Spent[id].asset = d.asset}
  <2>1. PICK av : av = KeyRows(wallet, S, d)
    OBVIOUS
  <2>2. /\ WellTyped(transfer) /\ PostingsIn(wallet, S) /\ ResolvedFrom(built, transfer, wallet, S)
        /\ DOMAIN Spent = ToSet(built.consumes) /\ \A id \in DOMAIN Spent : Spent[id] = wallet[id]
    BY ResolvedState
  <2>3. Spendable(av) /\ \A id \in DOMAIN av : av[id] = wallet[id]
    BY <2>1, <2>2, RowsFacts
  <2>4. d \in Debit /\ d.amount > 0 /\ d.amount \in Int
    <3>1. draft_movements(transfer).debits \in Seq({k \in Debit : k.amount > 0})
      BY <2>2, DraftFacts
    <3> HIDE DEF Debit
    <3>2. d \in {k \in Debit : k.amount > 0}
      BY <3>1 DEF ToSet
    <3> QED
      BY <3>2 DEF Debit
  <2>5. choice \in SUBSET DOMAIN av
    BY <2>1 DEF Available, KeyRows
  <2>6. SumValues(av, choice) >= d.amount
    <3>1. IsFiniteSet(choice)
      BY <2>3, <2>5, FS_Subset DEF Spendable, HasValues
    <3>2. SumValues(wallet, choice) = SumValues(av, choice)
      BY <2>3, <2>5, <3>1, ValuesSame
    <3> QED
      BY <3>2
  <2>7. /\ SumValues(av, Positive(av)) >= d.amount
        /\ Cardinality(ToSet(SelectPostings(av, d.amount))) <= Cardinality(choice)
    BY <2>3, <2>4, <2>5, <2>6, SelectsFewest
  <2>8. Cover(d, av).consumes = SelectPostings(av, d.amount)
    BY <2>7 DEF Cover
  <2>9. mine = OnKey(wallet, ToSet(built.consumes), d.account, d.asset)
    BY <2>2 DEF OnKey
  <2>10. OnKey(wallet, ToSet(built.consumes), d.account, d.asset) = ToSet(Cover(d, av).consumes)
    <3>1. PICK ds : ds = draft_movements(transfer).debits
      OBVIOUS
    <3>2. d \in ToSet(ds)
      BY <3>1
    <3> QED
      BY <2>1, <2>2, <3>1, <3>2, ResolvedShape
  <2> QED
    BY <2>7, <2>8, <2>9, <2>10
<1> QED
  BY <1>1, ResolutionInvariant, PTL

\* Balances by owner add up.
LEMMA ValuesByOwner ==
    ASSUME NEW f, NEW S, HasValues(f, S), NEW key, \A i \in S : key[i] \in Account,
           NEW total, \A a \in Account : total[a] = SumValues(f, GroupOf(S, key, a))
    PROVE  SumOf(total, Account) = SumValues(f, S)
<1> DEFINE v == [i \in S |-> f[i].value]
<1>1. IsFiniteSet(S) /\ IsFiniteSet(Account) /\ \A i \in S : v[i] \in Int
  BY IdsAssumption DEF HasValues
<1>2. ASSUME NEW a \in Account PROVE total[a] = SumOf(v, GroupOf(S, key, a))
  <2> DEFINE T == GroupOf(S, key, a)
  <2>1. T \in SUBSET S
    BY DEF GroupOf
  <2> HIDE DEF T
  <2>2. IsFiniteSet(T) /\ \A i \in T : v[i] = [j \in T |-> f[j].value][i]
    BY <1>1, <2>1, FS_Subset
  <2> HIDE DEF v
  <2>3. SumOf(v, T) = SumOf([j \in T |-> f[j].value], T) /\ SumValues(f, T) = SumOf([j \in T |-> f[j].value], T)
    BY <2>2, SumSame, SumValuesIs
  <2> QED
    BY <2>3 DEF T
<1>3. SumValues(f, S) = SumOf(v, S)
  BY <1>1, SumValuesIs
<1> HIDE DEF v
<1>4. SumOf(total, Account) = SumOf(v, S)
  BY <1>1, <1>2, SumByGroup
<1> QED
  BY <1>3, <1>4

\* ... and so do amounts by any of their accounts.
LEMMA AmountsByAccount ==
    ASSUME NEW f, NEW S, IsFiniteSet(S), \A i \in S : f[i].amount \in Int,
           NEW key, \A i \in S : key[i] \in Account,
           NEW total, \A a \in Account : total[a] = Amounts(f, GroupOf(S, key, a))
    PROVE  SumOf(total, Account) = Amounts(f, S)
<1> DEFINE v == [i \in S |-> f[i].amount]
<1>1. IsFiniteSet(Account) /\ \A i \in S : v[i] \in Int
  BY IdsAssumption
<1>2. ASSUME NEW a \in Account PROVE total[a] = SumOf(v, GroupOf(S, key, a))
  <2> DEFINE T == GroupOf(S, key, a)
  <2>1. T \in SUBSET S
    BY DEF GroupOf
  <2> HIDE DEF T
  <2>2. IsFiniteSet(T) /\ \A i \in T : v[i] = [j \in T |-> f[j].amount][i]
    BY <2>1, FS_Subset
  <2> HIDE DEF v
  <2>3. SumOf(v, T) = SumOf([j \in T |-> f[j].amount], T) /\ Amounts(f, T) = SumOf([j \in T |-> f[j].amount], T)
    BY <2>2, SumSame, AmountsIs
  <2> QED
    BY <2>3 DEF T
<1>3. Amounts(f, S) = SumOf(v, S)
  BY AmountsIs
<1> HIDE DEF v
<1>4. SumOf(total, Account) = SumOf(v, S)
  BY <1>1, <1>2, SumByGroup
<1> QED
  BY <1>3, <1>4

\* What the resolved envelope consumes of an asset it creates.
LEMMA ResolvedConserves ==
    ASSUME ResolutionInv, Resolved, NEW asset \in Asset
    PROVE  SumValues(Spent, {id \in DOMAIN Spent : Spent[id].asset = asset})
           = SumValues(built.creates, {i \in DOMAIN built.creates : built.creates[i].asset = asset})
<1> DEFINE ms == transfer.movements
           M == [from : Account, to : Account, asset : Asset, amount : Int]
           N == {i \in DOMAIN built.creates : built.creates[i].asset = asset}
           K == {id \in DOMAIN Spent : Spent[id].asset = asset}
           I == {i \in DOMAIN ms : ms[i].asset = asset}
           created == [a \in Account |-> SumValues(built.creates, OnKey(built.creates, DOMAIN built.creates, a, asset))]
           spent == [a \in Account |-> SumValues(wallet, OnKey(wallet, ToSet(built.consumes), a, asset))]
           in == [a \in Account |-> Brought(ms, a, asset)]
           out == [a \in Account |-> NetDebit(ms, a, asset)]
           both == [a \in Account |-> created[a] + out[a]]
<1>1. /\ WellTyped(transfer) /\ PostingsIn(wallet, DOMAIN wallet)
      /\ ResolvedFrom(built, transfer, wallet, DOMAIN wallet)
      /\ DOMAIN Spent = ToSet(built.consumes)
      /\ \A id \in DOMAIN Spent : Spent[id] = wallet[id] /\ Spent[id] \in Posting
      /\ built.creates \in Seq(Posting) /\ IsFiniteSet(DOMAIN Spent)
  BY ResolvedState
<1>2. IsFiniteSet(Account)
  BY IdsAssumption
<1>3. ms \in Seq(M)
  BY <1>1 DEF WellTyped
<1>4. ASSUME NEW a \in Account
      PROVE  /\ created[a] \in Int /\ spent[a] \in Int /\ in[a] \in Int /\ out[a] \in Int
             /\ created[a] = spent[a] + in[a] - out[a]
  <2>1. created[a] \in Int /\ spent[a] \in Int
    BY SpentDelta
  <2>2. in[a] \in Int /\ out[a] \in Int
    BY <1>3, BroughtType, NetDebitType
  <2>3. out[a] >= 0
    BY PaymentsAssumption DEF ResolutionInv
  <2>4. created[a] = spent[a] + in[a] - (IF out[a] > 0 THEN out[a] ELSE 0)
    BY <1>1, ResolvedMoves
  <2> HIDE DEF created, spent, in, out
  <2> QED
    BY <2>1, <2>2, <2>3, <2>4
<1>5. SumOf(created, Account) + SumOf(out, Account) = SumOf(spent, Account) + SumOf(in, Account)
  <2>1. \A a \in Account : both[a] = created[a] + out[a]
    OBVIOUS
  <2> HIDE DEF created, spent, in, out, both
  <2>2. SumOf(both, Account) = SumOf(created, Account) + SumOf(out, Account)
    BY <1>2, <1>4, <2>1, SumPlus
  <2>3. \A a \in Account : both[a] = spent[a] + in[a]
    BY <1>4, <2>1
  <2>4. SumOf(both, Account) = SumOf(spent, Account) + SumOf(in, Account)
    BY <1>2, <1>4, <2>3, SumPlus
  <2> QED
    BY <2>2, <2>4
<1>6. SumOf(created, Account) = SumValues(built.creates, N)
  <2>1. \A i \in DOMAIN built.creates : built.creates[i] \in Posting
    BY <1>1
  <2>2. HasValues(built.creates, N) /\ \A i \in N : built.creates[i].owner \in Account
    <3>1. DOMAIN built.creates = 1..Len(built.creates) /\ Len(built.creates) \in Nat
      BY <1>1
    <3>2. IsFiniteSet(DOMAIN built.creates) /\ N \in SUBSET DOMAIN built.creates
      BY <3>1, FS_Interval
    <3> QED
      BY <2>1, <3>2, FS_Subset DEF HasValues, Posting
  <2> DEFINE key == [i \in N |-> built.creates[i].owner]
  <2>3. \A a \in Account : created[a] = SumValues(built.creates, GroupOf(N, key, a))
    <3> SUFFICES ASSUME NEW a \in Account
                 PROVE  created[a] = SumValues(built.creates, GroupOf(N, key, a))
      OBVIOUS
    <3>1. OnKey(built.creates, DOMAIN built.creates, a, asset) = GroupOf(N, key, a)
      BY DEF OnKey, GroupOf
    <3> QED
      BY <3>1
  <2>4. \A i \in N : key[i] \in Account
    BY <2>2
  <2> HIDE DEF created, N, key
  <2> QED
    BY <2>2, <2>3, <2>4, ValuesByOwner
<1>7. SumOf(spent, Account) = SumValues(Spent, K)
  <2>1. HasValues(Spent, K) /\ \A id \in K : Spent[id].owner \in Account
    <3>1. K \in SUBSET DOMAIN Spent
      OBVIOUS
    <3> QED
      BY <1>1, <3>1, FS_Subset DEF HasValues, Posting
  <2> DEFINE key == [id \in K |-> Spent[id].owner]
  <2>2. \A a \in Account : spent[a] = SumValues(Spent, GroupOf(K, key, a))
    <3> SUFFICES ASSUME NEW a \in Account
                 PROVE  spent[a] = SumValues(Spent, GroupOf(K, key, a))
      OBVIOUS
    <3>1. {id \in DOMAIN Spent : Spent[id].owner = a /\ Spent[id].asset = asset}
            = GroupOf(K, key, a)
      BY DEF GroupOf
    <3>2. SumValues(Spent, {id \in DOMAIN Spent : Spent[id].owner = a /\ Spent[id].asset = asset}) = spent[a]
      BY SpentDelta
    <3> QED
      BY <3>1, <3>2
  <2>3. \A id \in K : key[id] \in Account
    BY <2>1
  <2> HIDE DEF spent, K, key
  <2> QED
    BY <2>1, <2>2, <2>3, ValuesByOwner
<1>8. SumOf(in, Account) = SumOf(out, Account) /\ SumOf(in, Account) \in Int
  <2> DEFINE to == [i \in I |-> ms[i].to]
             from == [i \in I |-> ms[i].from]
  <2>1. /\ IsFiniteSet(I)
        /\ \A i \in I : ms[i].amount \in Int /\ to[i] \in Account /\ from[i] \in Account
    <3>1. \A m \in M : m.amount \in Int /\ m.to \in Account /\ m.from \in Account
      OBVIOUS
    <3> HIDE DEF M
    <3>2. DOMAIN ms = 1..Len(ms) /\ Len(ms) \in Nat /\ \A i \in DOMAIN ms : ms[i] \in M
      BY <1>3
    <3>3. IsFiniteSet(DOMAIN ms) /\ I \in SUBSET DOMAIN ms
      BY <3>2, FS_Interval
    <3> HIDE DEF ms
    <3> QED
      BY <3>1, <3>2, <3>3, FS_Subset
  <2>2. \A a \in Account : in[a] = Amounts(ms, GroupOf(I, to, a))
    <3> SUFFICES ASSUME NEW a \in Account PROVE in[a] = Amounts(ms, GroupOf(I, to, a))
      OBVIOUS
    <3>1. GroupOf(I, to, a) = {i \in DOMAIN ms : ms[i].to = a /\ ms[i].asset = asset}
      BY DEF GroupOf
    <3> QED
      BY <3>1 DEF Brought
  <2>3. \A a \in Account : out[a] = Amounts(ms, GroupOf(I, from, a))
    <3> SUFFICES ASSUME NEW a \in Account PROVE out[a] = Amounts(ms, GroupOf(I, from, a))
      OBVIOUS
    <3>1. GroupOf(I, from, a) = {i \in DOMAIN ms : ms[i].from = a /\ ms[i].asset = asset}
      BY DEF GroupOf
    <3>2. out[a] = Amounts(ms, {i \in DOMAIN ms : ms[i].from = a /\ ms[i].asset = asset})
      BY DEF NetDebit, Amounts
    <3> QED
      BY <3>1, <3>2
  <2> HIDE DEF in, out, to, from, I, ms
  <2>4. SumOf(in, Account) = Amounts(ms, I) /\ SumOf(out, Account) = Amounts(ms, I)
    <3>1. /\ \A i \in I : ms[i].amount \in Int
          /\ \A i \in I : to[i] \in Account
          /\ \A i \in I : from[i] \in Account
      BY <2>1
    <3>2. SumOf(in, Account) = Amounts(ms, I)
      BY <2>1, <3>1, <2>2, AmountsByAccount
    <3>3. SumOf(out, Account) = Amounts(ms, I)
      BY <2>1, <3>1, <2>3, AmountsByAccount
    <3> QED
      BY <3>2, <3>3
  <2>5. SumOf(in, Account) \in Int
    BY <1>2, <1>4, SumType
  <2> QED
    BY <2>4, <2>5
<1>9. SumOf(created, Account) \in Int /\ SumOf(spent, Account) \in Int
  <2> HIDE DEF created, spent, in, out
  <2> QED
    BY <1>2, <1>4, SumType
<1> HIDE DEF created, spent, in, out, N, K
<1> QED
  BY <1>5, <1>6, <1>7, <1>8, <1>9 DEF N, K

\* An account that forbids overdraft gets no negative posting.
LEMMA ResolvedOffsets ==
    ASSUME ResolutionInv, Resolved, NEW p \in ToSet(built.creates), p.value < 0
    PROVE  ~forbids_overdraft(Holders[p.owner])
<1>1. PICK ds : ds = draft_movements(transfer).debits
  OBVIOUS
<1>2. /\ WellTyped(transfer) /\ PostingsIn(wallet, DOMAIN wallet)
      /\ ResolvedFrom(built, transfer, wallet, DOMAIN wallet) /\ FundedOrAllowed(transfer, wallet)
      /\ built.creates \in Seq(Posting)
  BY ResolvedState
<1>3. \/ \E m \in ToSet(transfer.movements) : p = NewPosting(m.to, m.asset, m.amount)
      \/ \E d \in ToSet(ds) : /\ p.owner = d.account
                              /\ Funds(wallet, DOMAIN wallet, d) >= d.amount => p.value >= 0
  BY <1>1, <1>2, ResolvedShape
<1>4. CASE \E m \in ToSet(transfer.movements) : p = NewPosting(m.to, m.asset, m.amount)
  BY <1>4, PaymentsAssumption DEF ResolutionInv, NewPosting
<1>5. CASE \E d \in ToSet(ds) : /\ p.owner = d.account
                                /\ Funds(wallet, DOMAIN wallet, d) >= d.amount => p.value >= 0
  <2>1. PICK d \in ToSet(ds) : /\ p.owner = d.account
                               /\ Funds(wallet, DOMAIN wallet, d) >= d.amount => p.value >= 0
    BY <1>5
  <2>2. Funds(wallet, DOMAIN wallet, d) >= d.amount \/ ~forbids_overdraft(Holders[d.account])
    BY <1>1, <1>2, <2>1 DEF FundedOrAllowed
  <2>3. p.value \in Int
    <3>1. \A i \in DOMAIN built.creates : built.creates[i] \in Posting
      BY <1>2
    <3>2. p \in Posting
      BY <3>1 DEF ToSet
    <3> QED
      BY <3>2 DEF Posting
  <2> QED
    BY <2>1, <2>2, <2>3
<1> QED
  BY <1>3, <1>4, <1>5

\* It stays at zero or above: it spends what it has, and gets nothing negative.
LEMMA ResolvedFloor ==
    ASSUME ResolutionInv, Resolved, NEW a \in Account, NEW asset, forbids_overdraft(Holders[a])
    PROVE  SumValues(wallet, {id \in DOMAIN wallet : wallet[id].owner = a /\ wallet[id].asset = asset})
           + Delta(built, Spent, a, asset) >= 0
<1> DEFINE W == {id \in DOMAIN wallet : wallet[id].owner = a /\ wallet[id].asset = asset}
           K == OnKey(wallet, ToSet(built.consumes), a, asset)
           N == OnKey(built.creates, DOMAIN built.creates, a, asset)
           L == W \ K
<1>1. /\ PostingsIn(wallet, DOMAIN wallet) /\ ToSet(built.consumes) \subseteq DOMAIN wallet
      /\ built.creates \in Seq(Posting)
  BY ResolvedState
<1>2. IsFiniteSet(DOMAIN wallet) /\ \A id \in DOMAIN wallet : wallet[id].value \in Int
  BY <1>1 DEF PostingsIn, Posting
<1>3. \A id \in W : wallet[id].value >= 0
  <2>1. \A id \in DOMAIN wallet : wallet[id].value < 0 => ~forbids_overdraft(Holders[wallet[id].owner])
    BY HoldersAssumption DEF ResolutionInv
  <2> QED
    BY <1>2, <2>1
<1>4. W \in SUBSET DOMAIN wallet /\ K \in SUBSET W
  BY <1>1 DEF OnKey
<1>5. N \in SUBSET DOMAIN built.creates /\ \A i \in N : built.creates[i].owner = a
  BY DEF OnKey
<1> HIDE DEF W, K, N
<1>6. /\ L \in SUBSET DOMAIN wallet /\ L \cap K = {} /\ L \cup K = W
      /\ \A id \in L : wallet[id].value >= 0
  BY <1>3, <1>4
<1> HIDE DEF L
<1>7. HasValues(wallet, L) /\ HasValues(wallet, K)
  BY <1>2, <1>4, <1>6, FS_Subset DEF HasValues
<1>8. SumValues(wallet, W) = SumValues(wallet, L) + SumValues(wallet, K)
  BY <1>6, <1>7, ValuesDisjoint
<1>9. SumValues(wallet, L) >= 0 /\ SumValues(wallet, L) \in Int /\ SumValues(wallet, K) \in Int
  BY <1>6, <1>7, ValuesNonNegative, ValuesType
<1>10. SumValues(built.creates, N) >= 0 /\ SumValues(built.creates, N) \in Int
  <2>1. DOMAIN built.creates = 1..Len(built.creates) /\ Len(built.creates) \in Nat
        /\ \A i \in DOMAIN built.creates : built.creates[i].value \in Int
    <3>1. DOMAIN built.creates = 1..Len(built.creates) /\ Len(built.creates) \in Nat
          /\ \A i \in DOMAIN built.creates : built.creates[i] \in Posting
      BY <1>1
    <3> QED
      BY <3>1 DEF Posting
  <2>2. HasValues(built.creates, N)
    <3>1. IsFiniteSet(DOMAIN built.creates)
      BY <2>1, FS_Interval
    <3> QED
      BY <1>5, <2>1, <3>1, FS_Subset DEF HasValues
  <2>3. \A i \in N : built.creates[i].value >= 0
    <3> SUFFICES ASSUME NEW i \in N, built.creates[i].value < 0 PROVE FALSE
      BY <1>5, <2>1
    <3>1. built.creates[i] \in ToSet(built.creates) /\ built.creates[i].owner = a
      BY <1>5 DEF ToSet
    <3> QED
      BY <3>1, ResolvedOffsets
  <2> QED
    BY <2>2, <2>3, ValuesNonNegative, ValuesType
<1>11. Delta(built, Spent, a, asset) = SumValues(built.creates, N) - SumValues(wallet, K)
  BY SpentDelta DEF N, K
<1> QED
  BY <1>8, <1>9, <1>10, <1>11 DEF W

\* posting_resolution.rs and validate.rs: on the state it was resolved from, validation accepts the
\* envelope: it is not empty, spends nothing twice, conserves every asset, and keeps the floors.
THEOREM ValidationAgreesThm == ResolutionSpec => []ValidationAgrees
<1>1. ResolutionInv => ValidationAgrees
  <2> SUFFICES ASSUME ResolutionInv, Resolved
               PROVE  LET keys     == balance_keys(built, Spent)
                          balances == [key \in keys |-> SumValues(wallet,
                                         {id \in DOMAIN wallet : wallet[id].owner = key[1]
                                                                 /\ wallet[id].asset = key[2]})]
                      IN validate(built, Spent, Holders, balances, {})
    BY DEF ValidationAgrees
  <2> DEFINE keys == balance_keys(built, Spent)
             balances == [key \in keys |-> SumValues(wallet,
                            {id \in DOMAIN wallet : wallet[id].owner = key[1]
                                                    /\ wallet[id].asset = key[2]})]
  <2>1. /\ WellTyped(transfer) /\ PostingsIn(wallet, DOMAIN wallet)
        /\ ResolvedFrom(built, transfer, wallet, DOMAIN wallet)
        /\ DOMAIN Spent = ToSet(built.consumes)
        /\ \A id \in DOMAIN Spent : Spent[id] = wallet[id] /\ Spent[id] \in Posting
        /\ built.consumes \in Seq(DOMAIN wallet) /\ built.creates \in Seq(Posting)
        /\ built.account_snapshots = <<>>
    BY ResolvedState
  <2>2. \A p \in ToSet(built.creates) \cup Range(Spent) : p \in Posting
    <3>1. \A p \in ToSet(built.creates) : p \in Posting
      BY <2>1 DEF ToSet
    <3>2. \A p \in Range(Spent) : p \in Posting
      BY <2>1 DEF Range
    <3> QED
      BY <3>1, <3>2
  <2>3. \A key \in keys : key = <<key[1], key[2]>> /\ key[1] \in Account /\ key[2] \in Asset
    BY <2>2 DEF balance_keys, Posting
  <2>4. NonEmpty(built) /\ 1 \in DOMAIN built.creates
    <3>1. PICK ds, credits, spends, left :
              Parts(built, transfer.movements, DOMAIN wallet, ds, credits, spends, left)
      BY <2>1, ResolvedParts
    <3>2. /\ credits \in Seq(Posting) /\ DOMAIN credits = DOMAIN transfer.movements
          /\ FlattenSeq(left) \in Seq(Posting) /\ built.creates = credits \o FlattenSeq(left)
      BY <3>1 DEF Parts
    <3>3. 1 \in DOMAIN transfer.movements
      <4>1. transfer.movements # <<>>
        BY PaymentsAssumption DEF ResolutionInv
      <4> DEFINE M == [from : Account, to : Account, asset : Asset, amount : Int]
      <4>2. transfer.movements \in Seq(M)
        BY <2>1 DEF WellTyped
      <4> HIDE DEF M
      <4> QED
        BY <4>1, <4>2
    <3>4. 1 \in DOMAIN built.creates
      BY <3>2, <3>3, ConcatFacts
    <3> QED
      BY <3>4 DEF NonEmpty
  <2>5. ConsumesOnce(built, Spent)
    <3>1. IsInjective(built.consumes)
      <4>1. PICK a, asset : a \in Account /\ asset \in Asset
        <5>1. built.creates[1] \in Posting
          BY <2>1, <2>4
        <5> QED
          BY <5>1 DEF Posting
      <4> QED
        BY <2>1, <4>1, ResolvedMoves
    <3> QED
      BY <2>1, <3>1 DEF ConsumesOnce
  <2>6. AccountsOpen(built, Spent, Holders)
    <3>1. \A a \in posting_owners(built, Spent) : a \in Account
      BY <2>1, <2>2 DEF posting_owners, referenced_accounts, Posting
    <3> QED
      BY <3>1, HoldersAssumption DEF AccountsOpen
  <2>7. SnapshotsMatch(built, Holders)
    BY <2>1 DEF SnapshotsMatch
  <2>8. Conserves(built, Spent)
    BY <2>3, ResolvedConserves DEF Conserves
  <2>9. NoForbiddenOffset(built, Holders)
    BY ResolvedOffsets DEF NoForbiddenOffset
  <2>10. FloorHolds(built, Spent, Holders, balances)
    <3> SUFFICES ASSUME NEW key \in keys, forbids_overdraft(Holders[key[1]])
                 PROVE  balances[key] + Delta(built, Spent, key[1], key[2]) >= 0
      BY DEF FloorHolds
    <3>1. key[1] \in Account
      BY <2>3
    <3>2. PICK a : a = key[1]
      OBVIOUS
    <3>3. PICK asset : asset = key[2]
      OBVIOUS
    <3>4. SumValues(wallet, {id \in DOMAIN wallet : wallet[id].owner = a /\ wallet[id].asset = asset})
          + Delta(built, Spent, a, asset) >= 0
      BY <3>1, <3>2, <3>3, ResolvedFloor
    <3> QED
      BY <3>2, <3>3, <3>4
  <2> QED
    BY <2>4, <2>5, <2>6, <2>7, <2>8, <2>9, <2>10 DEF validate
<1> QED
  BY <1>1, ResolutionInvariant, PTL
=============================================================================
