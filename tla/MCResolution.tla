---------------------------- MODULE MCResolution -----------------------------
(***************************************************************************)
(* Every wallet of up to three postings of Alice's (values 0 to 3, equal   *)
(* ones included) and one of the external account's, and every transfer of *)
(* one or two parts among payments, a deposit and withdrawals.             *)
(***************************************************************************)
EXTENDS Resolution

External == <<1, 0>>
Alice == <<2, 0>>
Bob == <<3, 0>>

MCAccount == {External, Alice, Bob}
MCAsset == {1}

MCHolders == (External :> NewAccount({}))
             @@ (Alice :> NewAccount({"DEBIT_MUST_NOT_EXCEED_CREDIT"}))
             @@ (Bob :> NewAccount({"DEBIT_MUST_NOT_EXCEED_CREDIT"}))

Held(owner, values) ==
    [id \in {<<owner, i>> : i \in DOMAIN values} |-> NewPosting(owner, 1, values[id[2]])]

MCWallets == {Held(Alice, a) @@ Held(External, e) :
                a \in SeqOf(0..3, 3), e \in SeqOf({-2, 2}, 1)}

Parts == {pay(Alice, Bob, 1, n) : n \in 1..4}
         \cup {pay(External, Bob, 1, n) : n \in {1, 3}}
         \cup {withdraw(Alice, 1, n, External) : n \in {1, 2}}
         \cup {deposit(Alice, 1, 2, External), pay(Alice, Alice, 1, 2)}

MCRequests == {Transfer(p, 0, "m") : p \in Parts \cup {q \o r : q, r \in Parts}}
=============================================================================
