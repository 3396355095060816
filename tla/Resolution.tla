----------------------------- MODULE Resolution ------------------------------
(***************************************************************************)
(* Ledger::resolve on its own, with nobody else running: any wallet, any   *)
(* request, one resolution. What the pure passes of posting_resolution.rs  *)
(* compute is compared with what the request's movements mean, with the    *)
(* best choice over all sets of postings, and with the validation that     *)
(* reads the result next.                                                  *)
(***************************************************************************)
EXTENDS PostingResolution, Validate

CONSTANTS Wallets,    \* the live postings to try: posting id -> posting
          Requests,   \* the transfers to try
          Holders     \* account -> record, for every account there is

\* Every account is there and open; accounts that forbid overdraft own no negative
\* posting, which is what validation kept out.
ASSUME HoldersAssumption ==
    /\ DOMAIN Holders = Account
    /\ \A a \in Account : ~is_frozen(Holders[a]) /\ ~is_closed(Holders[a])
    /\ \A w \in Wallets :
         /\ IsFiniteSet(DOMAIN w)
         /\ \A id \in DOMAIN w : /\ w[id] \in Posting
                                 /\ w[id].value < 0 => ~forbids_overdraft(Holders[w[id].owner])

\* What pay, deposit and withdraw build: no key is a net receiver as a payer, and a
\* negative posting goes to an account that may overdraw.
ASSUME PaymentsAssumption ==
    \A t \in Requests :
        /\ WellTyped(t)
        /\ t.movements # <<>>
        /\ \A a \in Account, asset \in Asset : NetDebit(t.movements, a, asset) >= 0
        /\ \A m \in ToSet(t.movements) : m.amount < 0 => ~forbids_overdraft(Holders[m.to])

VARIABLES wallet, transfer,
          outcome,   \* "pending", "refused" or "resolved"
          built      \* the envelope, once resolved

resolutionVars == <<wallet, transfer, outcome, built>>

ResolutionInit ==
    /\ wallet \in Wallets
    /\ transfer \in Requests
    /\ outcome = "pending"
    /\ built = Envelope(<<>>, <<>>, 0, "none")

\* The payer's live postings of the debit's asset, from the wallet.
Available(debit) ==
    LET ids == {id \in DOMAIN wallet : /\ wallet[id].owner = debit.account
                                       /\ wallet[id].asset = debit.asset}
    IN [id \in ids |-> wallet[id]]

\* resolve: load for each debit, then select, or refuse.
ResolveOnce ==
    /\ outcome = "pending"
    /\ LET draft     == draft_movements(transfer)
           available == [i \in DOMAIN draft.debits |-> Available(draft.debits[i])]
           payers    == [i \in DOMAIN draft.debits |-> Holders[draft.debits[i].account]]
       IN \/ /\ InsufficientFunds(draft, available, payers)
             /\ outcome' = "refused"
             /\ UNCHANGED built
          \/ /\ ~InsufficientFunds(draft, available, payers)
             /\ outcome' = "resolved"
             /\ built' = resolve_envelope(transfer, draft, available)
    /\ UNCHANGED <<wallet, transfer>>

ResolutionSpec == ResolutionInit /\ [][ResolveOnce]_resolutionVars

-----------------------------------------------------------------------------
Resolved == outcome = "resolved"

Spent == [id \in ToSet(built.consumes) |-> wallet[id]]

\* What the movements mean for one key: what they bring minus what they take.
Intended(account, asset) ==
    LET ms == transfer.movements
        Amounts(I) == MapThenSumSet(LAMBDA i : ms[i].amount, I)
    IN Amounts({i \in DOMAIN ms : ms[i].to = account /\ ms[i].asset = asset})
       - Amounts({i \in DOMAIN ms : ms[i].from = account /\ ms[i].asset = asset})

Assets == {m.asset : m \in ToSet(transfer.movements)}

\* The envelope moves exactly what was asked, on every account and asset: the
\* payee's credit, the payer's debit, and nothing else once change is netted.
MovesWhatWasAsked ==
    Resolved => \A a \in DOMAIN Holders, asset \in Assets :
                    Delta(built, Spent, a, asset) = Intended(a, asset)

\* Largest-first selection spends as few postings as any choice could.
SpendsFewest ==
    Resolved => \A d \in ToSet(draft_movements(transfer).debits) :
        LET mine == {id \in DOMAIN Spent : Spent[id].owner = d.account /\ Spent[id].asset = d.asset}
        IN \A choice \in SUBSET DOMAIN Available(d) :
              SumValues(wallet, choice) >= d.amount => Cardinality(mine) <= Cardinality(choice)

\* Validation accepts, on the state it was resolved from, every envelope that
\* resolution builds from payments, deposits and withdrawals: the two sides read
\* the same overdraft flag and keep the same conservation law.
ValidationAgrees ==
    Resolved =>
        LET keys     == balance_keys(built, Spent)
            balances == [key \in keys |-> SumValues(wallet,
                           {id \in DOMAIN wallet : wallet[id].owner = key[1]
                                                   /\ wallet[id].asset = key[2]})]
        IN validate(built, Spent, Holders, balances, {})
=============================================================================
