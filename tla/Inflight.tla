------------------------------ MODULE Inflight -------------------------------
(***************************************************************************)
(* kuatia/src/inflight.rs: hold funds now, settle them later. authorize    *)
(* creates one holding subaccount per destination and commits the trade    *)
(* with every destination replaced by its hold; confirm, confirm_all and   *)
(* void commit transfers out of the holds and close the drained ones.      *)
(* Nothing is stored but ordinary accounts and transfers; the metadata of  *)
(* a transfer says which part it plays.                                    *)
(*                                                                         *)
(* An operation is a loop over store calls. A client holds the calls it    *)
(* still has to make as a queue of tasks, and its head may be replaced by  *)
(* the tasks it turns into:                                                *)
(*   hold, announce           create_account and its event                 *)
(*   commit, submit           Ledger::commit: build and validate, apply    *)
(*   sweep, deliver, refund   read a hold's balance, decide what to settle *)
(*   drained, empty, shut     close_if_drained, close, the transition      *)
(*   history, held            one line of inflight_status                  *)
(*                                                                         *)
(* commit is two steps here: everything up to validation, then the store   *)
(* call (module Ledger has the finer steps). Balances are read live: the   *)
(* cached read is module BalanceCache. Requests that are refused before    *)
(* they read anything that changes (unknown handle) are left out.          *)
(***************************************************************************)
EXTENDS LedgerReads

CONSTANTS Client,        \* concurrent callers
          Trades,        \* the transfers clients may authorize
          Sub,           \* inflight_subaccount: trade -> subaccount id, by hash
          Confirms,      \* the movement sequences clients may confirm
          MaxRequests,   \* bound: requests started
          MaxInterrupts  \* bound: requests that break off

ASSUME TradesAssumption ==
    /\ Sub \in [Trades -> Nat \ {0}]
    /\ \A t, u \in Trades : Sub[t] = Sub[u] => t = u
    /\ \A t \in Trades : \A m \in ToSet(t.movements) : <<m.to[1], Sub[t]>> \in Account
    /\ MaxRequests \in Nat /\ MaxInterrupts \in Nat

VARIABLES todo,        \* client -> tasks left of its request
          reply,       \* client -> how its last request ended
          requests, interrupts

inflightVars == <<storeVars, todo, reply, requests, interrupts>>

-----------------------------------------------------------------------------
(* The leg table and the projection over it (inflight/projection.rs). *)

AccountBefore(a, b) == a[1] < b[1] \/ (a[1] = b[1] /\ a[2] < b[2])
InOrder(as) == SortedSeq(as, AccountBefore)

\* AccountId::with_sub(m.to.id, sub).
HoldOf(trade, destination) == <<destination[1], Sub[trade]>>

\* The accounts that trades are parked in.
Holds == UNION {{HoldOf(t, m.to) : m \in ToSet(t.movements)} : t \in Trades}

\* Holds are opened by authorize, and clients do not name them: no trade is funded from
\* or paid to the hold of another one. Amounts are of any sign.
ASSUME HoldsAssumption ==
    /\ Holds \cap DOMAIN Existing = {}
    /\ \A t \in Trades : /\ WellTyped(t)
                        /\ \A m \in ToSet(t.movements) : m.from \notin Holds /\ m.to \notin Holds
    /\ \A ms \in Confirms : ms \in Seq(ToSet(ms)) /\ \A m \in ToSet(ms) : m.amount \in Int

Leg(trade, m) ==
    [destination |-> m.to, hold |-> HoldOf(trade, m.to), funder |-> m.from,
     asset |-> m.asset, amount |-> m.amount]

AuthorizeMeta(trade) ==
    [kind |-> "Authorize", legs |-> [i \in DOMAIN trade.movements |-> Leg(trade, trade.movements[i])]]

SettleMeta(role, tx, destination) == [kind |-> role, tx |-> tx, destination |-> destination]

\* The committed authorize transfers, and the legs load_inflight decodes.
Inflights == {tx \in DOMAIN transfers : transfers[tx].metadata.kind = "Authorize"}
legs_of(tx) == transfers[tx].metadata.legs

\* group_holds.
holds_of(legs) == InOrder({l.hold : l \in ToSet(legs)})
assets_of(legs, hold) == SortedSeq({l.asset : l \in {k \in ToSet(legs) : k.hold = hold}}, <)
destination_of(legs, hold) ==
    Sublist(legs, {i \in DOMAIN legs : legs[i].hold = hold})[1].destination

Authorized(legs, hold, asset) ==
    MapThenSumSet(LAMBDA i : legs[i].amount,
                  {i \in DOMAIN legs : legs[i].hold = hold /\ legs[i].asset = asset})

\* (Mutant: change counts as settled.)
LeavesHold_WithChange(np, hold) == TRUE

\* Change returned to the hold is not settled out.
LeavesHold(np, hold) == np.owner # hold

\* derive_status: what the settling transfers of one role took out of a hold, from
\* the transfers indexed under it.
Settled(role, hold, asset) ==
    LET history == {t \in DOMAIN transfers :
                      /\ transfers[t].metadata.kind = role
                      /\ hold \in referenced_accounts(transfers[t])
                                  \cup {immutable[id].owner : id \in ToSet(transfers[t].consumes)}}
        Out(t) == SumValues(transfers[t].creates,
                     {i \in DOMAIN transfers[t].creates :
                        /\ LeavesHold(transfers[t].creates[i], hold)
                        /\ transfers[t].creates[i].asset = asset})
    IN MapThenSumSet(Out, history)

\* distribute_to_funders: in leg order, each up to what it funded, the last one
\* without a cap; only positive payouts.
distribute_to_funders(legs, hold, asset, remaining) ==
    LET fs == Sublist(legs, {i \in DOMAIN legs : legs[i].hold = hold /\ legs[i].asset = asset})
        Left(i) == remaining - MapThenSumSet(LAMBDA j : fs[j].amount, 1..(i - 1))
        Give(i) == IF i < Len(fs) /\ fs[i].amount < Left(i) THEN fs[i].amount ELSE Left(i)
        payouts == [i \in DOMAIN fs |-> [funder |-> fs[i].funder, give |-> Give(i)]]
    IN Sublist(payouts, {i \in DOMAIN payouts : payouts[i].give > 0})

-----------------------------------------------------------------------------
(* Client control. *)

InflightInit ==
    /\ accounts = InitialAccounts
    /\ events = SetToSeq({Event("AccountCreated", a, 0) : a \in DOMAIN Existing})
    /\ immutable = <<>> /\ active = {} /\ transfers = <<>>
    /\ todo = [p \in Client |-> <<>>]
    /\ reply = [p \in Client |-> "none"]
    /\ requests = 0 /\ interrupts = 0

Busy(p) == todo[p] # <<>>
At(p, op) == Busy(p) /\ todo[p][1].op = op

\* The head task is done and turns into `tasks`; the request is over when none is left.
Become(p, tasks) ==
    /\ todo' = [todo EXCEPT ![p] = tasks \o Tail(@)]
    /\ reply' = [reply EXCEPT ![p] = IF todo'[p] = <<>> THEN "ok" ELSE "none"]
    /\ UNCHANGED <<requests, interrupts>>

Done(p) == Become(p, <<>>)

\* The request returns an error; what it did so far stays.
Fail(p) ==
    /\ todo' = [todo EXCEPT ![p] = <<>>]
    /\ reply' = [reply EXCEPT ![p] = "error"]
    /\ UNCHANGED <<requests, interrupts>>

Begin(p, tasks) ==
    /\ ~Busy(p)
    /\ requests < MaxRequests
    /\ requests' = requests + 1
    /\ todo' = [todo EXCEPT ![p] = tasks]
    /\ reply' = [reply EXCEPT ![p] = "none"]
    /\ UNCHANGED <<storeVars, interrupts>>

-----------------------------------------------------------------------------
(* The requests. *)

CommitTask(transfer) == [op |-> "commit", transfer |-> transfer]
CloseTask(hold) == [op |-> "drained", hold |-> hold]

\* A movement from an account to itself is refused.
NoSelfMovement(trade) == \A m \in ToSet(trade.movements) : m.from # m.to

authorize(p) ==
    \E t \in Trades :
        LET dests == InOrder({m.to : m \in ToSet(t.movements)})
            holds == [i \in DOMAIN dests |-> [op |-> "hold", hold |-> HoldOf(t, dests[i]), trade |-> t]]
            parked == [i \in DOMAIN t.movements |->
                          [t.movements[i] EXCEPT !.to = HoldOf(t, t.movements[i].to)]]
        IN /\ NoSelfMovement(t)
           /\ Begin(p, Append(holds, CommitTask(Transfer(parked, t.book, AuthorizeMeta(t)))))

\* The tasks `op` of every hold and asset of an inflight, each hold closed after its own.
PerHold(tx, op) ==
    LET legs == legs_of(tx)
        Tasks(hold) == LET as == assets_of(legs, hold)
                       IN [i \in DOMAIN as |-> [op |-> op, tx |-> tx, hold |-> hold, asset |-> as[i]]]
        holds == holds_of(legs)
    IN FlattenSeq([i \in DOMAIN holds |-> Append(Tasks(holds[i]), CloseTask(holds[i]))])

confirm_all(p) == \E tx \in Inflights : Begin(p, PerHold(tx, "sweep"))

void(p) == \E tx \in Inflights : Begin(p, PerHold(tx, "refund"))

\* The leg a confirm movement names.
LegsNamed(tx, m) ==
    {l \in ToSet(legs_of(tx)) : l.funder = m.from /\ l.destination = m.to /\ l.asset = m.asset}

\* Movements settle in order; the holds they touched are closed at the end.
confirm(p) ==
    \E tx \in Inflights, ms \in Confirms :
        LET touched == InOrder({l.hold : l \in UNION {LegsNamed(tx, m) : m \in ToSet(ms)}})
        IN Begin(p, [i \in DOMAIN ms |-> [op |-> "deliver", tx |-> tx, m |-> ms[i]]]
                    \o [i \in DOMAIN touched |-> CloseTask(touched[i])])

inflight_status(p) ==
    \E tx \in Inflights :
        LET tasks == PerHold(tx, "history")
        IN Begin(p, Sublist(tasks, {i \in DOMAIN tasks : tasks[i].op = "history"}))

-----------------------------------------------------------------------------
(* Creating the holds. *)

HoldFlags == {"INFLIGHT", "DEBIT_MUST_NOT_EXCEED_CREDIT"}

\* An existing account is InflightAlreadyOpen.
CreateHold(p) ==
    /\ At(p, "hold")
    /\ LET hold == todo[p][1].hold
       IN \/ create_account(hold, HoldFlags) /\ Become(p, <<[op |-> "announce", hold |-> hold]>>)
          \/ Exists(hold) /\ Fail(p) /\ UNCHANGED storeVars

AnnounceHold(p) ==
    /\ At(p, "announce")
    /\ append_event(Event("AccountCreated", todo[p][1].hold, 0))
    /\ Done(p)

-----------------------------------------------------------------------------
(* Ledger::commit. *)

BuildCommit(p) ==
    /\ At(p, "commit")
    /\ LET t == todo[p][1].transfer
       IN \/ \E e \in Built(t) : Become(p, <<[op |-> "submit", envelope |-> e]>>)
          \/ Built(t) = {} /\ Fail(p)
    /\ UNCHANGED storeVars

SubmitCommit(p) ==
    /\ At(p, "submit")
    /\ LET req == CommitRequest(todo[p][1].envelope)
       IN \/ commit_envelope(req) /\ Done(p)
          \/ AlreadyCommitted(req) /\ Done(p) /\ UNCHANGED storeVars
          \/ ~AlreadyCommitted(req) /\ ~Accepts(req) /\ Fail(p) /\ UNCHANGED storeVars

-----------------------------------------------------------------------------
(* Settling. *)

settle(role, tx, hold, target, destination, asset, amount) ==
    CommitTask(Transfer(pay(hold, target, asset, amount), transfers[tx].book,
                        SettleMeta(role, tx, destination)))

\* confirm_all: whatever is left goes to the destination.
Sweep(p) ==
    /\ At(p, "sweep")
    /\ LET k    == todo[p][1]
           dest == destination_of(legs_of(k.tx), k.hold)
           bal  == compute_balance(k.hold, k.asset)
       IN \/ bal > 0 /\ Become(p, <<settle("Confirm", k.tx, k.hold, dest, dest, k.asset, bal)>>)
          \/ bal <= 0 /\ Done(p)
    /\ UNCHANGED storeVars

\* confirm: one movement, refused without a leg or with too little held.
Deliver(p) ==
    /\ At(p, "deliver")
    /\ LET k == todo[p][1]
           Covered(l) == k.m.amount <= compute_balance(l.hold, k.m.asset)
       IN \/ \E l \in LegsNamed(k.tx, k.m) :
                /\ Covered(l)
                /\ Become(p, <<settle("Confirm", k.tx, l.hold, k.m.to, k.m.to, k.m.asset, k.m.amount)>>)
          \/ (\A l \in LegsNamed(k.tx, k.m) : ~Covered(l)) /\ Fail(p)
    /\ UNCHANGED storeVars

\* void: what is left of a hold goes back to its funders, one commit each.
Refund(p) ==
    /\ At(p, "refund")
    /\ LET k    == todo[p][1]
           legs == legs_of(k.tx)
           dest == destination_of(legs, k.hold)
           fs   == distribute_to_funders(legs, k.hold, k.asset, compute_balance(k.hold, k.asset))
       IN Become(p, [i \in DOMAIN fs |->
                        settle("Void", k.tx, k.hold, fs[i].funder, dest, k.asset, fs[i].give)])
    /\ UNCHANGED storeVars

-----------------------------------------------------------------------------
(* Closing a hold. *)

\* close_if_drained: nothing to do while it holds funds, nor once it is closed.
CloseIfDrained(p) ==
    /\ At(p, "drained")
    /\ LET hold == todo[p][1].hold
       IN \/ (has_live_postings(hold) \/ is_closed(head(hold))) /\ Done(p)
          \/ /\ ~has_live_postings(hold) /\ ~is_closed(head(hold))
             /\ Become(p, <<[op |-> "empty", hold |-> hold]>>)
    /\ UNCHANGED storeVars

\* close and transition read once more.
CloseHold(p) ==
    /\ At(p, "empty")
    /\ LET hold == todo[p][1].hold
       IN \/ (has_live_postings(hold) \/ is_closed(head(hold))) /\ Fail(p)
          \/ /\ ~has_live_postings(hold) /\ ~is_closed(head(hold))
             /\ Become(p, <<[op |-> "shut", hold |-> hold,
                             next |-> NextVersion("AccountClosed", head(hold))]>>)
    /\ UNCHANGED storeVars

ShutHold(p) ==
    /\ At(p, "shut")
    /\ LET k == todo[p][1]
       IN \/ commit_transition(k.hold, k.next, "AccountClosed") /\ Done(p)
          \/ TransitionRefused(k.hold, k.next) /\ Fail(p) /\ UNCHANGED storeVars

-----------------------------------------------------------------------------
(* inflight_status. *)

\* The settled amounts from the hold's transfers ...
ReadHistory(p) ==
    /\ At(p, "history")
    /\ LET k == todo[p][1]
       IN Become(p, <<[op |-> "held", tx |-> k.tx, hold |-> k.hold, asset |-> k.asset,
                       confirmed |-> Settled("Confirm", k.hold, k.asset),
                       voided |-> Settled("Void", k.hold, k.asset)]>>)
    /\ UNCHANGED storeVars

\* ... then its balance.
ReadHeld(p) == At(p, "held") /\ Done(p) /\ UNCHANGED storeVars

-----------------------------------------------------------------------------
\* A request breaks off: a store error, a validation against reads that are no
\* longer true, or a caller that goes away.
Interrupt(p) ==
    /\ Busy(p)
    /\ interrupts < MaxInterrupts
    /\ interrupts' = interrupts + 1
    /\ todo' = [todo EXCEPT ![p] = <<>>]
    /\ reply' = [reply EXCEPT ![p] = "error"]
    /\ UNCHANGED <<storeVars, requests>>

Request(p) == authorize(p) \/ confirm_all(p) \/ confirm(p) \/ void(p) \/ inflight_status(p)

RunTask(p) ==
    \/ CreateHold(p) \/ AnnounceHold(p)
    \/ BuildCommit(p) \/ SubmitCommit(p)
    \/ Sweep(p) \/ Deliver(p) \/ Refund(p)
    \/ CloseIfDrained(p) \/ CloseHold(p) \/ ShutHold(p)
    \/ ReadHistory(p) \/ ReadHeld(p)

InflightNext == \E p \in Client : Request(p) \/ RunTask(p) \/ Interrupt(p)

InflightSpec == InflightInit /\ [][InflightNext]_inflightVars

-----------------------------------------------------------------------------
(* Correctness. *)

\* The holds of the committed inflights, with the assets they park.
Parked == UNION {{<<l.hold, l.asset>> : l \in ToSet(legs_of(tx))} : tx \in Inflights}

AuthorizedOn(key) ==
    MapThenSumSet(LAMBDA tx : Authorized(legs_of(tx), key[1], key[2]), Inflights)

\* Every cent authorized is confirmed, voided or still held, and none twice, under
\* any race of confirms, sweeps and voids on the same hold and however they fail.
HeldIsAccountedFor ==
    \A key \in Parked :
        AuthorizedOn(key) = Settled("Confirm", key[1], key[2]) + Settled("Void", key[1], key[2])
                            + compute_balance(key[1], key[2])

\* No money is locked in: a hold that somebody closed has nothing left in it, and
\* every hold that parks funds is open.
ClosedHoldIsEmpty ==
    \A key \in Parked : is_closed(head(key[1])) => compute_balance(key[1], key[2]) = 0
=============================================================================
