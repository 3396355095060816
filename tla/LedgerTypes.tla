---------------------------- MODULE LedgerTypes ----------------------------
(***************************************************************************)
(* The value types of kuatia-types and the hashes of kuatia-core, reduced  *)
(* to what the ledger's guards read.                                       *)
(*                                                                         *)
(* Account  an AccountId <<id, sub>>; its record is [version, flags].      *)
(* Posting  [owner, asset, value]; its id is <<transfer, index>>.          *)
(* Transfer [movements, book, metadata]: an intent.                        *)
(* Envelope [consumes, creates, account_snapshots, book, metadata].        *)
(*                                                                         *)
(* Left out: an account's book and metadata and a posting's payer, which   *)
(* no guard reads; amounts are unbounded integers (the code's i64          *)
(* arithmetic is checked and fails the request on overflow).               *)
(***************************************************************************)
EXTENDS Integers, Sequences, FiniteSets, SequencesExt, Sorting

CONSTANTS Account,   \* account ids
          Asset      \* asset ids

\* AccountFlags: the lifecycle and balance-constraint bits of system range.
AccountFlags == {"FROZEN", "CLOSED", "INFLIGHT", "DEBIT_MUST_NOT_EXCEED_CREDIT"}

is_frozen(account) == "FROZEN" \in account.flags
is_closed(account) == "CLOSED" \in account.flags
forbids_overdraft(account) == "DEBIT_MUST_NOT_EXCEED_CREDIT" \in account.flags

\* Account::new_ref: a version-1 record.
NewAccount(flags) == [version |-> 1, flags |-> flags]

\* AccountId::base: the main account of an id.
base(account) == <<account[1], 0>>

Posting == [owner : Account, asset : Asset, value : Int]

NewPosting(owner, asset, value) ==
    [owner |-> owner, asset |-> asset, value |-> value]

\* EnvelopeBuilder::build with no account pinned yet.
Envelope(consumes, creates, book, metadata) ==
    [consumes |-> consumes, creates |-> creates, account_snapshots |-> <<>>,
     book |-> book, metadata |-> metadata]

\* Envelope::referenced_accounts: the owners of the created postings.
referenced_accounts(envelope) == {np.owner : np \in ToSet(envelope.creates)}

\* The double SHA-256 of the canonical bytes, taken to be collision free: two
\* envelopes have the same id exactly when these fields agree, in this order.
envelope_id(envelope) ==
    <<envelope.consumes, envelope.creates, envelope.account_snapshots,
      envelope.book, envelope.metadata>>

\* The hash an account is pinned by covers its version and its flags.
account_hash(account) == <<account.version, account.flags>>

\* (Mutant: the rows are never inserted.)
WithRows_Dropped(table, rows) == table

\* A table with new rows added; a row that is there already stays as it is.
WithRows(table, rows) ==
    [key \in DOMAIN table \cup DOMAIN rows |->
        IF key \in DOMAIN table THEN table[key] ELSE rows[key]]

\* The sum of the values of the postings `f[i]`, i in S.
SumValues(f, S) == MapThenSumSet(LAMBDA i : f[i].value, S)

-----------------------------------------------------------------------------
(* TransferBuilder: what each kind of request asks for. *)

Movement(from, to, asset, amount) ==
    [from |-> from, to |-> to, asset |-> asset, amount |-> amount]

pay(from, to, asset, amount) == <<Movement(from, to, asset, amount)>>

deposit(to, asset, amount, external) ==
    <<Movement(external, external, asset, -amount),
      Movement(external, to, asset, amount)>>

withdraw(from, asset, amount, external) ==
    <<Movement(from, external, asset, amount)>>

Transfer(movements, book, metadata) ==
    [movements |-> movements, book |-> book, metadata |-> metadata]
=============================================================================
