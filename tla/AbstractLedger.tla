---------------------------- MODULE AbstractLedger ---------------------------
(***************************************************************************)
(* What the ledger promises its users: balances that only change by atomic *)
(* transfers, which conserve every asset, touch open accounts only and     *)
(* overdraw no account that may not be overdrawn; accounts that are        *)
(* opened once, frozen and unfrozen, and closed for good. No postings, no  *)
(* versions, no retries.                                                   *)
(***************************************************************************)
EXTENDS Integers, FiniteSetsExt

CONSTANTS Account, Asset

VARIABLES balance,      \* <<account, asset>> -> amount
          status,       \* account -> "absent" | "open" | "frozen" | "closed"
          mayOverdraw   \* the existing accounts that permit overdraft

absVars == <<balance, status, mayOverdraw>>

\* What an account that exists may be; one may be opened in any of these.
Opened == {"open", "frozen", "closed"}

Total(b, asset) == MapThenSumSet(LAMBDA a : b[<<a, asset>>], Account)

Init ==
    /\ balance = [key \in Account \X Asset |-> 0]
    /\ status \in [Account -> Opened \cup {"absent"}]
    /\ mayOverdraw \subseteq {a \in Account : status[a] # "absent"}

\* A transfer moves value between open accounts.
Move ==
    /\ \A asset \in Asset : Total(balance', asset) = Total(balance, asset)
    /\ \A key \in Account \X Asset :
          balance'[key] # balance[key] =>
              /\ status[key[1]] = "open"
              /\ balance'[key] >= 0 \/ key[1] \in mayOverdraw
    /\ UNCHANGED <<status, mayOverdraw>>

Open(a) ==
    /\ status[a] = "absent"
    /\ \E new \in Opened : status' = [status EXCEPT ![a] = new]
    /\ mayOverdraw' \in {mayOverdraw, mayOverdraw \cup {a}}
    /\ UNCHANGED balance

Freeze(a) ==
    /\ status[a] = "open"
    /\ status' = [status EXCEPT ![a] = "frozen"]
    /\ UNCHANGED <<balance, mayOverdraw>>

Unfreeze(a) ==
    /\ status[a] = "frozen"
    /\ status' = [status EXCEPT ![a] = "open"]
    /\ UNCHANGED <<balance, mayOverdraw>>

Close(a) ==
    /\ status[a] \in {"open", "frozen"}
    /\ status' = [status EXCEPT ![a] = "closed"]
    /\ UNCHANGED <<balance, mayOverdraw>>

Next == Move \/ \E a \in Account : Open(a) \/ Freeze(a) \/ Unfreeze(a) \/ Close(a)

Spec == Init /\ [][Next]_absVars
=============================================================================
