-------------------------- MODULE MCPostingTables ----------------------------
(***************************************************************************)
(* Two callers and three postings, two ids per statement: a call on all is *)
(* a transaction of two statements, and callers that take the rows in      *)
(* opposite orders wait for each other.                                    *)
(***************************************************************************)
EXTENDS PostingTables

CONSTANTS p1, p2, p3

Call(op, ids) == [op |-> op, ids |-> ids]

MCCalls ==
    {Call("insert", <<p1, p2, p3>>), Call("states", <<>>),
     Call("reserve", <<p1, p2, p3>>), Call("reserve", <<p3, p2>>),
     Call("release", <<p1>>), Call("finalize", <<p3, p2>>),
     Call("deactivate", <<p1>>), Call("spend", <<p2, p3, p1>>)}
=============================================================================
