------------------------------ MODULE BareStore ------------------------------
(***************************************************************************)
(* The store on its own, as its trait offers it to any caller: commits of  *)
(* any envelope of Envelopes at any time, and transitions computed from    *)
(* any version the account ever had, however stale. Whatever the ledger's  *)
(* clients do between their reads and their writes, the store sees a       *)
(* behaviour of this kind.                                                 *)
(***************************************************************************)
EXTENDS CommitStore

CONSTANTS Envelopes,   \* the envelopes callers may commit
          MaxVersion   \* bound: the version each account may reach

\* What callers commit: a sequence of typed postings, a sequence of ids.
ASSUME EnvelopesAssumption ==
    \A e \in Envelopes :
        /\ e.creates \in Seq(Posting)
        /\ e.consumes \in Seq({e.consumes[i] : i \in DOMAIN e.consumes})

ASSUME MaxVersionAssumption == MaxVersion \in [Account -> Nat]

\* Flags an account may be created with.
InitialFlags == {{}, {"DEBIT_MUST_NOT_EXCEED_CREDIT"}}

CommitAny ==
    \E e \in Envelopes :
        /\ ToSet(e.consumes) \subseteq DOMAIN immutable
        /\ commit_envelope(CommitRequest(e))

CreateAny == \E a \in Account, flags \in InitialFlags : create_account(a, flags)

TransitionAny ==
    \E a \in Account, kind \in LifecycleKind :
        \E v \in DOMAIN accounts[a] :
            /\ v < MaxVersion[a]
            /\ ~is_closed(accounts[a][v])
            /\ commit_transition(a, NextVersion(kind, accounts[a][v]), kind)

StoreNext == CommitAny \/ CreateAny \/ TransitionAny

StoreSpec == StoreInit /\ [][StoreNext]_storeVars

=============================================================================
