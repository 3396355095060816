------------------------------- MODULE Validate ------------------------------
(***************************************************************************)
(* kuatia-core/validate.rs: the pure decision whether an envelope may be   *)
(* committed against the state that was loaded for it.                     *)
(*   consumed  the loaded postings, id -> posting                          *)
(*   accounts  the loaded account records, account -> [version, flags]     *)
(*   balances  the loaded balances, <<account, asset>> -> amount           *)
(*   policies  the book policy in force: {} (no book loaded) or {policy}   *)
(* Which error a rejected envelope gets is left out.                       *)
(***************************************************************************)
EXTENDS LedgerTypes

\* posting_keys: owners and (owner, asset) keys of what an envelope touches.
posting_owners(envelope, consumed) ==
    referenced_accounts(envelope) \cup {consumed[id].owner : id \in DOMAIN consumed}

balance_keys(envelope, consumed) ==
    {<<p.owner, p.asset>> : p \in ToSet(envelope.creates) \cup Range(consumed)}

\* required_state: the accounts validation reads, pinned ones included.
required_accounts(envelope, consumed) ==
    posting_owners(envelope, consumed) \cup DOMAIN envelope.account_snapshots

NonEmpty(envelope) == envelope.consumes # <<>> \/ envelope.creates # <<>>

\* No posting is consumed twice, and each one was found.
ConsumesOnce(envelope, consumed) ==
    /\ IsInjective(envelope.consumes)
    /\ ToSet(envelope.consumes) \subseteq DOMAIN consumed

AccountsOpen(envelope, consumed, accounts) ==
    \A a \in posting_owners(envelope, consumed) :
        /\ a \in DOMAIN accounts
        /\ ~is_frozen(accounts[a])
        /\ ~is_closed(accounts[a])

\* Every pinned account still has the pinned hash.
SnapshotsMatch(envelope, accounts) ==
    \A a \in DOMAIN envelope.account_snapshots :
        /\ a \in DOMAIN accounts
        /\ envelope.account_snapshots[a] = account_hash(accounts[a])

\* Book policy: an empty field restricts nothing; a listed base account admits
\* all its subaccounts; a flag in common admits an account that is not listed.
PolicyAllows(envelope, consumed, accounts, policy) ==
    /\ policy.allowed_assets # {} =>
         \A p \in ToSet(envelope.creates) \cup Range(consumed) :
             p.asset \in policy.allowed_assets
    /\ policy.allowed_accounts # {} \/ policy.allowed_flags # {} =>
         \A a \in posting_owners(envelope, consumed) :
             \/ base(a) \in policy.allowed_accounts
             \/ accounts[a].flags \cap policy.allowed_flags # {}

\* The net of what an envelope creates and consumes on one key.
Delta(envelope, consumed, account, asset) ==
    LET OnKey(p) == p.owner = account /\ p.asset = asset
    IN SumValues(envelope.creates, {i \in DOMAIN envelope.creates : OnKey(envelope.creates[i])})
       - SumValues(consumed, {id \in DOMAIN consumed : OnKey(consumed[id])})

\* Per asset, what is consumed equals what is created.
Conserves(envelope, consumed) ==
    \A asset \in {key[2] : key \in balance_keys(envelope, consumed)} :
        SumValues(consumed, {id \in DOMAIN consumed : consumed[id].asset = asset})
        = SumValues(envelope.creates,
                    {i \in DOMAIN envelope.creates : envelope.creates[i].asset = asset})

\* (Mutant: the sign of a created posting is not looked at.)
NoForbiddenOffset_Unchecked(envelope, accounts) == TRUE

\* An account that forbids overdraft receives no negative posting.
NoForbiddenOffset(envelope, accounts) ==
    \A np \in ToSet(envelope.creates) :
        np.value < 0 => ~forbids_overdraft(accounts[np.owner])

\* ... and does not project below zero.
FloorHolds(envelope, consumed, accounts, balances) ==
    \A key \in balance_keys(envelope, consumed) :
        forbids_overdraft(accounts[key[1]]) =>
            balances[key] + Delta(envelope, consumed, key[1], key[2]) >= 0

validate(envelope, consumed, accounts, balances, policies) ==
    /\ NonEmpty(envelope)
    /\ ConsumesOnce(envelope, consumed)
    /\ AccountsOpen(envelope, consumed, accounts)
    /\ SnapshotsMatch(envelope, accounts)
    /\ \A policy \in policies : PolicyAllows(envelope, consumed, accounts, policy)
    /\ Conserves(envelope, consumed)
    /\ NoForbiddenOffset(envelope, accounts)
    /\ FloorHolds(envelope, consumed, accounts, balances)

\* (Mutant: the index does not advance.)
postings_to_create_OneIndex(envelope) ==
    LET tid == envelope_id(envelope)
    IN [id \in {<<tid, 1>> : i \in DOMAIN envelope.creates} |-> envelope.creates[id[2]]]

\* The plan: posting i of the envelope gets the id <<transfer, i>>.
postings_to_create(envelope) ==
    LET tid == envelope_id(envelope)
    IN [id \in {<<tid, i>> : i \in DOMAIN envelope.creates} |-> envelope.creates[id[2]]]
=============================================================================
