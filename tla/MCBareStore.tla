---------------------------- MODULE MCBareStore ----------------------------
(***************************************************************************)
(* The bare store on a small instance: an external account, which may      *)
(* overdraw, and two customers; two deposits, and every way to spend       *)
(* their postings that a double spend, an overdraft or a reversal needs.   *)
(***************************************************************************)
EXTENDS BareStore

External == <<1, 0>>
Alice == <<2, 0>>
Bob == <<3, 0>>

MCAccount == {External, Alice, Bob}
MCAsset == {1}
NoAccounts == <<>>

Usd(owner, value) == NewPosting(owner, 1, value)
Env(consumes, creates, note) == Envelope(consumes, creates, 0, note)
Out(envelope, i) == <<envelope_id(envelope), i>>

DepositA == Env(<<>>, <<Usd(External, -2), Usd(Alice, 2)>>, "a")
DepositB == Env(<<>>, <<Usd(External, -1), Usd(Alice, 1)>>, "b")
PayBob == Env(<<Out(DepositA, 2)>>, <<Usd(Bob, 1), Usd(Alice, 1)>>, "a")
PayBobAll == Env(<<Out(DepositA, 2), Out(DepositB, 2)>>, <<Usd(Bob, 3)>>, "a")
UndoDepositA == Env(<<Out(DepositA, 1), Out(DepositA, 2)>>, <<>>, "a")
UndoPayBob == Env(<<Out(PayBob, 1), Out(PayBob, 2)>>, <<Usd(Alice, 2)>>, "a")
\* Spends nothing and leaves Bob one short.
Overdraw == Env(<<>>, <<Usd(Bob, -1), Usd(External, 1)>>, "o")

MCEnvelopes == {DepositA, DepositB, PayBob, PayBobAll, UndoDepositA, UndoPayBob, Overdraw}

MCMaxVersion == (External :> 1) @@ (Alice :> 3) @@ (Bob :> 2)
=============================================================================
