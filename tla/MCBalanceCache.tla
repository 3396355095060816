--------------------------- MODULE MCBalanceCache ----------------------------
(***************************************************************************)
(* Three transfers of different amounts (their partial sums all differ),   *)
(* one of them carrying two postings, and two concurrent readers.          *)
(***************************************************************************)
EXTENDS BalanceCache, TLC

MCCommit == {1, 2, 3}
MCDelta == (1 :> 1) @@ (2 :> 2) @@ (3 :> -5)
MCTouches == (1 :> 1) @@ (2 :> 1) @@ (3 :> 2)

ReaderSymmetry == Permutations(Reader)
=============================================================================
