------------------------------- MODULE MCSaga --------------------------------
(***************************************************************************)
(* Two runners over an external account and two customers. Both begin with *)
(* the same payment from Alice to Bob, so that they are answered with one  *)
(* transfer. The first goes on with a deposit for Alice and a payment out  *)
(* of Bob's money; the second pays Bob more than Alice has without that    *)
(* deposit and ends with a leg that cannot be built. Either may reverse    *)
(* what the other still counts on. Others take Alice's money, freeze Bob,  *)
(* or move Alice's account to its next version, which a reversal is pinned *)
(* to.                                                                     *)
(***************************************************************************)
EXTENDS Saga

External == <<1, 0>>
Alice == <<2, 0>>
Bob == <<3, 0>>
NoOverdraft == {"DEBIT_MUST_NOT_EXCEED_CREDIT"}

MCAccount == {External, Alice, Bob}
MCAsset == {1}
MCMinCent == -128
MCExisting == (External :> {}) @@ (Alice :> NoOverdraft) @@ (Bob :> NoOverdraft)
MCOpening == Envelope(<<>>, <<NewPosting(External, 1, -1), NewPosting(Alice, 1, 1)>>,
                      DEFAULT_BOOK, "open")

Fund == Deposit(Alice, 1, 2, External)
Share == Pay(Alice, Bob, 1, 1)
Chain == <<Share, Fund, Pay(Bob, External, 1, 1)>>
Spree == <<Share, Pay(Alice, Bob, 1, 2), Deposit(Bob, 1, MCMinCent, External)>>

CONSTANTS r1, r2
MCMovements == (r1 :> Chain) @@ (r2 :> Spree)
MCOthers == {Transfer(pay(Alice, External, 1, 1), DEFAULT_BOOK, "other")}
MCTransition ==
    {<<Bob, "AccountFrozen">>, <<Bob, "AccountUnfrozen">>, <<Alice, "AccountUnfrozen">>}

\* One runner, alone: the last leg asks for more than Bob has.
Overspent == r1 :> <<Fund, Pay(Alice, Bob, 1, 2), Pay(Bob, External, 1, 5)>>
=============================================================================
