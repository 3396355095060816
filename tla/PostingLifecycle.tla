-------------------------- MODULE PostingLifecycle ---------------------------
(***************************************************************************)
(* What the posting store promises (trait PostingStore): a posting is      *)
(* written once and then only moves forward.                               *)
(*                                                                         *)
(*    Missing -> Active <-> Reserved by one reservation -> Spent           *)
(*                      ----------------------------->                     *)
(*                                                                         *)
(* One call moves a set of postings at once, all along the same edge, and  *)
(* only postings that are at the start of that edge.                       *)
(***************************************************************************)
CONSTANTS PostingId, Reservation

\* The derived state of a posting; Reserved(rid) is the reservation itself.
Missing == "Missing"
Active == "Active"
Spent == "Spent"

VARIABLE state

PostingState == {Missing, Active, Spent} \cup Reservation

\* The postings of S all move from one state to the other.
Move(S, from, to) ==
    /\ \A id \in S : state[id] = from
    /\ state' = [id \in PostingId |-> IF id \in S THEN to ELSE state[id]]

InsertPostings(S) == Move(S, Missing, Active)
ReservePostings(S, rid) == Move(S, Active, rid)
ReleasePostings(S, rid) == Move(S, rid, Active)
DeactivatePostings(S) == Move(S, Active, Spent)
DeactivateReserved(S, rid) == Move(S, rid, Spent)

Init == state = [id \in PostingId |-> Missing]

Next ==
    \E S \in SUBSET PostingId :
        \/ InsertPostings(S)
        \/ DeactivatePostings(S)
        \/ \E rid \in Reservation :
              \/ ReservePostings(S, rid)
              \/ ReleasePostings(S, rid)
              \/ DeactivateReserved(S, rid)

Spec == Init /\ [][Next]_state
=============================================================================
