---------------------------- MODULE LedgerReads ------------------------------
(***************************************************************************)
(* What the ledger's operations read from the store, and what they build   *)
(* from it, shared by every module that runs them.                         *)
(***************************************************************************)
EXTENDS CommitStore, PostingResolution

DEFAULT_BOOK == 0

\* get_postings_by_account(.., Active) for one debit.
ActivePostings(account, asset) ==
    [id \in {i \in active : immutable[i].owner = account /\ immutable[i].asset = asset}
        |-> immutable[id]]

\* get_accounts on a set of accounts that all exist.
Heads(as) == [a \in as |-> head(a)]

\* compute_balance: the live postings of the account, and no cache.
compute_balance(account, asset) == Balance(account, asset)

\* (Mutant: the live postings are not asked for.)
has_live_postings_Never(account) == FALSE

has_live_postings(account) == PostingsOf(active, account) # {}

-----------------------------------------------------------------------------
(* Ledger::resolve. *)

\* The postings each debit of a draft may spend.
AvailableFor(draft) ==
    [i \in DOMAIN draft.debits |-> ActivePostings(draft.debits[i].account, draft.debits[i].asset)]

\* Every payer exists and can cover its debits.
Funded(transfer) ==
    LET draft == draft_movements(transfer)
    IN /\ \A d \in ToSet(draft.debits) : Exists(d.account)
       /\ ~InsufficientFunds(draft, AvailableFor(draft),
                             [i \in DOMAIN draft.debits |-> head(draft.debits[i].account)])

\* The envelope of a funded transfer, no account pinned yet.
resolve(transfer) ==
    LET draft == draft_movements(transfer)
    IN resolve_envelope(transfer, draft, AvailableFor(draft))

\* resolve_snapshots: the owners of the created postings, at their present version.
resolve_snapshots(e) == [a \in referenced_accounts(e) |-> account_hash(head(a))]

-----------------------------------------------------------------------------
(* Ledger::load and Ledger::plan. *)

\* The consumed postings of an envelope, all known.
Consumed(e) == [id \in ToSet(e.consumes) |-> immutable[id]]

\* Everything load asks for is there.
Loadable(e) ==
    /\ ToSet(e.consumes) \subseteq DOMAIN immutable
    /\ \A a \in required_accounts(e, Consumed(e)) : Exists(a)

LoadedBalances(e) ==
    [key \in balance_keys(e, Consumed(e)) |-> compute_balance(key[1], key[2])]

-----------------------------------------------------------------------------
(* Ledger::commit and Ledger::reverse up to the store call, in one step. *)

\* The payers can cover it and the payees exist.
Resolvable(transfer) ==
    Funded(transfer) /\ \A m \in ToSet(transfer.movements) : Exists(m.to)

\* The envelope pinned to the present versions of its accounts.
Pinned(e) == [e EXCEPT !.account_snapshots = resolve_snapshots(e)]

\* load and plan accept it.
Valid(e) ==
    /\ Loadable(e)
    /\ \E consumed \in {Consumed(e)} :
          validate(e, consumed, Heads(required_accounts(e, consumed)), LoadedBalances(e), {})

\* The envelope a transfer becomes, if it passes everything before the store call.
Built(transfer) ==
    IF Resolvable(transfer)
      THEN {e \in {Pinned(r) : r \in {resolve(transfer)}} : Valid(e)}
      ELSE {}

\* Ledger::reverse: consume what the transfer created, recreate what it consumed.
Reversal(tid) ==
    LET original == transfers[tid]
    IN Envelope([i \in DOMAIN original.creates |-> <<tid, i>>],
                [i \in DOMAIN original.consumes |-> immutable[original.consumes[i]]],
                original.book, original.metadata)

-----------------------------------------------------------------------------
(* Correctness: what callers that validate keep, on top of what the store keeps. *)

\* The live postings of every asset sum to zero in every state: validation's
\* per-envelope check, made on state loaded earlier, is enough under any
\* interleaving of commits, reversals and retries.
Conservation ==
    \A asset \in Asset :
        SumValues(immutable, {id \in active : immutable[id].asset = asset}) = 0

\* Only an account that permits overdraft ever owns a negative posting: the store
\* does not check this, so it rests on what was validated before the commit.
OffsetsOnlyWherePermitted ==
    \A id \in DOMAIN immutable :
        immutable[id].value < 0 => ~forbids_overdraft(head(immutable[id].owner))
=============================================================================
