---------------------------- MODULE MCSqlCommit ------------------------------
(***************************************************************************)
(* Two sessions over an external account and two customers. Alice starts   *)
(* with 2. Two withdrawals that each leave her 0 together break her floor; *)
(* a payment races them and its own retry; a deposit that consumes nothing *)
(* can be sent twice and its posting spent in between.                     *)
(***************************************************************************)
EXTENDS SqlCommit

External == <<1, 0>>
Alice == <<2, 0>>
Bob == <<3, 0>>

MCAccount == {External, Alice, Bob}
MCAsset == {1}
NoOverdraft == {"DEBIT_MUST_NOT_EXCEED_CREDIT"}

Usd(owner, value) == NewPosting(owner, 1, value)
Env(consumes, creates, note) == Envelope(consumes, creates, 0, note)
Out(envelope, i) == <<envelope_id(envelope), i>>

MCOpening == Env(<<>>, <<Usd(External, -2), Usd(Alice, 2)>>, "open")
DrawA == Env(<<>>, <<Usd(Alice, -2), Usd(External, 2)>>, "a")
DrawB == Env(<<>>, <<Usd(Alice, -2), Usd(External, 2)>>, "b")
Pay == Env(<<Out(MCOpening, 2)>>, <<Usd(External, 2)>>, "pay")
Deposit == Env(<<>>, <<Usd(External, -1), Usd(Alice, 1)>>, "deposit")
Spend == Env(<<Out(Deposit, 2)>>, <<Usd(External, 1)>>, "spend")

MCEnvelopes == {DrawA, DrawB, Pay, Deposit, Spend}
MCExisting == (External :> {}) @@ (Alice :> NoOverdraft)
MCCreatable == (Bob :> NoOverdraft)
MCTransition == {<<Alice, "AccountFrozen">>, <<Alice, "AccountClosed">>}

\* For the run about replayed deposits.
DepositAndSpend == {Deposit, Spend}
NoAccounts == <<>>
NoTransition == {}
=============================================================================
