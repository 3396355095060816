------------------------------ MODULE MCLedger -------------------------------
(***************************************************************************)
(* Small instances of the ledger: one asset, an external account that may  *)
(* overdraw, and two customers that may not. A deposit and a payment that  *)
(* leaves change are enough for double spends, reversals and retries;      *)
(* Alice's lifecycle changes while they run, Bob is opened while they run. *)
(***************************************************************************)
EXTENDS Ledger

External == <<1, 0>>
Alice == <<2, 0>>
Bob == <<3, 0>>
NoOverdraft == {"DEBIT_MUST_NOT_EXCEED_CREDIT"}

MCAccount == {External, Alice, Bob}
MCAsset == {1}
MCBooks == <<>>

Fund(amount) == Transfer(deposit(Alice, 1, amount, External), DEFAULT_BOOK, "fund")
Pay(amount) == Transfer(pay(Alice, Bob, 1, amount), DEFAULT_BOOK, "pay")
\* A payment the external account makes by overdrawing.
Advance(amount) == Transfer(pay(External, Alice, 1, amount), DEFAULT_BOOK, "advance")

\* Fund(-1) would leave Alice a negative posting, which validation refuses.
MCTransfers == {Fund(2), Fund(-1), Pay(1), Advance(1)}
MCExisting == (External :> {}) @@ (Alice :> NoOverdraft)
MCOpening == (Bob :> NoOverdraft)
MCTransition == {Alice} \X LifecycleKind

\* For the run about a lost transition: a deposit and the changes that race it.
DepositOnly == {Fund(2)}
FreezeUnfreeze == {Alice} \X {"AccountFrozen", "AccountUnfrozen"}
NoOpening == <<>>

ClientSymmetry == Permutations(Client)
=============================================================================
