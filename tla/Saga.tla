-------------------------------- MODULE Saga ---------------------------------
(***************************************************************************)
(* kuatia/src/saga.rs: run_movements commits a list of movements in order  *)
(* and, when one fails, reverses the committed ones, last first.           *)
(*                                                                         *)
(* Several runners work on one ledger while other clients commit transfers *)
(* and change accounts. A commit and a reversal are two steps each: what   *)
(* they read, validation included, and the store call (module Ledger has   *)
(* the finer steps and shows that a commit is atomic). What other clients  *)
(* do is one step.                                                         *)
(*                                                                         *)
(* Per runner: pc, the next step; envelope, what it is about to store;     *)
(* receipts, the transfers its legs were answered with; undo, the receipts *)
(* still to reverse; outcome, what run_movements returned: "unbuilt" is    *)
(* the error of a leg that could not be built. shared is history: the      *)
(* transfers that answered a leg although they were there before.          *)
(***************************************************************************)
EXTENDS LedgerReads

CONSTANTS Runner,        \* concurrent callers of run_movements
          Movements,     \* runner -> the legs it runs
          Opening,       \* the envelope committed before the runners start
          Others,        \* the transfers other clients may commit
          Transition,    \* the account changes other clients may make
          MinCent,       \* i64::MIN, the amount that has no negation
          MaxOthers,     \* bound: steps of other clients
          MaxAttempts    \* bound: runs of one runner

ASSUME RunnerAssumption ==
    /\ DOMAIN Movements = Runner
    /\ MinCent \in Int /\ MaxOthers \in Nat /\ MaxAttempts \in Nat

\* What was committed at the start brought money in and passed validation.
ASSUME OpeningAssumption ==
    /\ Opening = Envelope(<<>>, Opening.creates, Opening.book, Opening.metadata)
    /\ Opening.creates \in Seq(Posting) \ {<<>>}
    /\ Conserves(Opening, <<>>)
    /\ \A np \in ToSet(Opening.creates) :
          /\ np.owner \in DOMAIN Existing
          /\ np.value < 0 => "DEBIT_MUST_NOT_EXCEED_CREDIT" \notin Existing[np.owner]

VARIABLES pc, envelope, receipts, undo, outcome, attempts, others, shared

runnerVars == <<pc, envelope, receipts, undo, outcome, attempts, shared>>
sagaVars == <<storeVars, runnerVars, others>>

Pay(from, to, asset, amount) ==
    [kind |-> "Pay", amount |-> amount, movements |-> pay(from, to, asset, amount)]

Deposit(to, asset, amount, external) ==
    [kind |-> "Deposit", amount |-> amount, movements |-> deposit(to, asset, amount, external)]

\* Movement::build: a deposit negates its amount, which i64::MIN does not allow.
Builds(leg) == leg.kind = "Deposit" => leg.amount # MinCent
build(leg) == Transfer(leg.movements, DEFAULT_BOOK, "none")

\* Every workflow has a leg; one without returns at once. Amounts are of any sign.
ASSUME RequestsAssumption ==
    /\ \A p \in Runner : /\ Movements[p] \in Seq(Range(Movements[p])) \ {<<>>}
                         /\ \A leg \in Range(Movements[p]) : WellTyped(build(leg))
    /\ \A t \in Others : WellTyped(t)
    /\ Transition \subseteq Account \X LifecycleKind

NoEnvelope == Envelope(<<>>, <<>>, DEFAULT_BOOK, "none")

Init ==
    /\ accounts = InitialAccounts
    /\ events = <<TransferCommitted(envelope_id(Opening))>>
    /\ immutable = postings_to_create(Opening)
    /\ active = DOMAIN immutable
    /\ transfers = [tid \in {envelope_id(Opening)} |-> Opening]
    /\ pc = [p \in Runner |-> "idle"]
    /\ envelope = [p \in Runner |-> NoEnvelope]
    /\ receipts = [p \in Runner |-> <<>>]
    /\ undo = [p \in Runner |-> <<>>]
    /\ outcome = [p \in Runner |-> "none"]
    /\ attempts = [p \in Runner |-> 0]
    /\ others = 0
    /\ shared = {}

-----------------------------------------------------------------------------
(* run_movements. *)

Goto(p, label) == pc' = [pc EXCEPT ![p] = label]

Return(p, result) ==
    /\ Goto(p, "idle")
    /\ outcome' = [outcome EXCEPT ![p] = result]
    /\ undo' = [undo EXCEPT ![p] = <<>>]

\* (Mutant: the first receipt is forgotten.)
Unwind_SkipsFirst(p) ==
    IF Len(receipts[p]) <= 1
      THEN Return(p, "error")
      ELSE /\ undo' = [undo EXCEPT ![p] = Reverse(Tail(receipts[p]))]
           /\ Goto(p, "reverse")
           /\ UNCHANGED outcome

\* A leg failed: reverse what is committed, or return when nothing is.
Unwind(p) ==
    IF receipts[p] = <<>>
      THEN Return(p, "error")
      ELSE /\ undo' = [undo EXCEPT ![p] = Reverse(receipts[p])]
           /\ Goto(p, "reverse")
           /\ UNCHANGED outcome

Start(p) ==
    /\ pc[p] = "idle"
    /\ outcome[p] # "ok"
    /\ attempts[p] < MaxAttempts
    /\ attempts' = [attempts EXCEPT ![p] = @ + 1]
    /\ receipts' = [receipts EXCEPT ![p] = <<>>]
    /\ outcome' = [outcome EXCEPT ![p] = "none"]
    /\ Goto(p, "leg")
    /\ UNCHANGED <<storeVars, envelope, undo, others, shared>>

\* The next leg, up to its store call. A leg that cannot be built makes the whole
\* call return at once.
CommitLeg(p) ==
    LET leg == Movements[p][Len(receipts[p]) + 1]
    IN /\ pc[p] = "leg"
       /\ \/ /\ Builds(leg)
             /\ \E e \in Built(build(leg)) :
                   /\ envelope' = [envelope EXCEPT ![p] = e]
                   /\ Goto(p, "store_leg")
                   /\ UNCHANGED <<undo, outcome>>
          \/ /\ Builds(leg)
             /\ Built(build(leg)) = {}
             /\ Unwind(p)
             /\ UNCHANGED envelope
          \/ /\ ~Builds(leg)
             /\ Return(p, "unbuilt")
             /\ UNCHANGED envelope
       /\ UNCHANGED <<storeVars, receipts, attempts, others, shared>>

\* A leg was answered with a receipt.
Answered(p) ==
    /\ receipts' = [receipts EXCEPT ![p] = Append(@, envelope_id(envelope[p]))]
    /\ IF Len(receipts[p]) + 1 = Len(Movements[p])
         THEN Return(p, "ok")
         ELSE Goto(p, "leg") /\ UNCHANGED <<undo, outcome>>

StoreLeg(p) ==
    LET req == CommitRequest(envelope[p])
    IN /\ pc[p] = "store_leg"
       /\ \/ /\ commit_envelope(req)
             /\ Answered(p)
             /\ UNCHANGED shared
          \/ /\ AlreadyCommitted(req)
             /\ Answered(p)
             /\ shared' = shared \cup {req.transfer_id}
             /\ UNCHANGED storeVars
          \/ /\ ~AlreadyCommitted(req) /\ ~Accepts(req)
             /\ Unwind(p)
             /\ UNCHANGED <<storeVars, receipts, shared>>
       /\ UNCHANGED <<envelope, attempts, others>>

\* Ledger::reverse of the next receipt, up to its store call: a reversal that is
\* committed already is answered with its receipt.
ReverseNext(p) ==
    /\ pc[p] = "reverse"
    /\ \E e \in {Pinned(r) : r \in {Reversal(Head(undo[p]))}} :
          \/ /\ envelope_id(e) \in DOMAIN transfers \/ Valid(e)
             /\ envelope' = [envelope EXCEPT ![p] = e]
             /\ Goto(p, "store_reversal")
             /\ UNCHANGED <<undo, outcome>>
          \/ /\ envelope_id(e) \notin DOMAIN transfers /\ ~Valid(e)
             /\ Return(p, "compensation_failed")
             /\ UNCHANGED envelope
    /\ UNCHANGED <<storeVars, receipts, attempts, others, shared>>

\* (Mutant: the receipt that was reversed stays at the head of the list.)
Reversed_KeepsHead(p) ==
    /\ Goto(p, "reverse")
    /\ UNCHANGED <<undo, outcome>>

\* (Mutant: the receipts are returned after they were reversed.)
Reversed_ReturnsOk(p) ==
    IF Len(undo[p]) = 1
      THEN Return(p, "ok")
      ELSE /\ undo' = [undo EXCEPT ![p] = Tail(@)]
           /\ Goto(p, "reverse")
           /\ UNCHANGED outcome

\* A reversal went through: on to the next one, or return the original error.
Reversed(p) ==
    IF Len(undo[p]) = 1
      THEN Return(p, "error")
      ELSE /\ undo' = [undo EXCEPT ![p] = Tail(@)]
           /\ Goto(p, "reverse")
           /\ UNCHANGED outcome

\* (Mutant: a reversal that is there already counts as a failed one.)
StoreReversal_OnlyOnce(p) ==
    LET req == CommitRequest(envelope[p])
    IN /\ pc[p] = "store_reversal"
       /\ \/ commit_envelope(req) /\ Reversed(p)
          \/ /\ ~Accepts(req)
             /\ Return(p, "compensation_failed")
             /\ UNCHANGED storeVars
       /\ UNCHANGED <<envelope, receipts, attempts, others, shared>>

StoreReversal(p) ==
    LET req == CommitRequest(envelope[p])
    IN /\ pc[p] = "store_reversal"
       /\ \/ commit_envelope(req) /\ Reversed(p)
          \/ AlreadyCommitted(req) /\ Reversed(p) /\ UNCHANGED storeVars
          \/ /\ ~AlreadyCommitted(req) /\ ~Accepts(req)
             /\ Return(p, "compensation_failed")
             /\ UNCHANGED storeVars
       /\ UNCHANGED <<envelope, receipts, attempts, others, shared>>

-----------------------------------------------------------------------------
(* Other clients of the ledger. *)

OtherStep ==
    /\ others < MaxOthers
    /\ others' = others + 1
    /\ UNCHANGED runnerVars

OtherCommit ==
    /\ OtherStep
    /\ \E t \in Others : \E e \in Built(t) : commit_envelope(CommitRequest(e))

OtherTransition ==
    /\ OtherStep
    /\ \E t \in Transition :
          /\ ~is_closed(head(t[1]))
          /\ commit_transition(t[1], NextVersion(t[2], head(t[1])), t[2])

-----------------------------------------------------------------------------
Step(p) == CommitLeg(p) \/ StoreLeg(p) \/ ReverseNext(p) \/ StoreReversal(p)

\* Nobody is running a workflow: the system may rest. A runner that is stuck inside
\* one would deadlock.
Rest == (\A p \in Runner : pc[p] = "idle") /\ UNCHANGED sagaVars

Next == (\E p \in Runner : Start(p) \/ Step(p)) \/ OtherCommit \/ OtherTransition \/ Rest

\* run_movements goes on until it returns: its ledger calls are answered. Step(p) is
\* enabled whenever pc[p] is not "idle" and always moves pc[p], so this is its weak
\* fairness, in a form that spares TLC the evaluation of ENABLED Step(p).
Fairness ==
    \A p \in Runner : \/ []<>(pc[p] = "idle")
                       \/ []<><<pc'[p] # pc[p]>>_pc

Spec == Init /\ [][Next]_sagaVars /\ Fairness

-----------------------------------------------------------------------------
(* Correctness. *)

\* Some stored transfer spends all a transfer created and creates what it consumed.
Undone(tid) ==
    \E u \in DOMAIN transfers :
        /\ transfers[u].consumes = Reversal(tid).consumes
        /\ transfers[u].creates = Reversal(tid).creates

\* When run_movements returns the error of a refused leg, every leg that went through
\* before it is undone, whoever else was active meanwhile. (After "unbuilt" nothing is.)
FailedMeansUndone ==
    \A p \in Runner : outcome[p] = "error" =>
        \A i \in DOMAIN receipts[p] : Undone(receipts[p][i])

\* ... and when it returns Ok every leg is in force. The exception is a leg that was
\* answered with the receipt of a transfer another run committed: ids are by content.
OkMeansApplied ==
    \A p \in Runner : outcome[p] = "ok" =>
        \A i \in DOMAIN receipts[p] :
            /\ receipts[p][i] \in DOMAIN transfers
            /\ Undone(receipts[p][i]) => receipts[p][i] \in shared

\* The reversal runner p is at: as it would be pinned now, or as it was built.
ReversalAt(p) ==
    IF pc[p] = "reverse" THEN Pinned(Reversal(Head(undo[p]))) ELSE envelope[p]

\* An envelope that is not stored and cannot be: somebody spent what it consumes, or
\* froze or closed an account of its.
Stuck(e) ==
    /\ envelope_id(e) \notin DOMAIN transfers
    /\ \/ \E u \in DOMAIN transfers : ToSet(transfers[u].consumes) \cap ToSet(e.consumes) # {}
       \/ \E a \in CommitRequest(e).involved : is_frozen(head(a)) \/ is_closed(head(a))

\* run_movements gives up on the unwinding only when what the transfer it is at created
\* was spent meanwhile - by another client, by a later leg, or to undo a shared leg at
\* other account versions - or when an account is blocked. No other guard and no part
\* of validation ever refuses a reversal, nor is a reversal that is there a failure.
CompensationFailsForCause ==
    [][\A p \in Runner :
          outcome[p] = "none" /\ outcome'[p] = "compensation_failed" =>
              Stuck(ReversalAt(p))]_sagaVars

\* "several transfers behave as one all-or-nothing workflow": when nobody else is
\* active, a workflow that fails leaves every balance as it was.
OpeningBalance(a, asset) ==
    SumValues(Opening.creates, {i \in DOMAIN Opening.creates :
        Opening.creates[i].owner = a /\ Opening.creates[i].asset = asset})

AllOrNothing ==
    \A p \in Runner : outcome[p] \notin {"none", "ok"} =>
        \A a \in Account, asset \in Asset :
            compute_balance(a, asset) = OpeningBalance(a, asset)

\* Every run of run_movements returns.
SagaEnds == \A p \in Runner : pc[p] # "idle" ~> pc[p] = "idle"
=============================================================================
