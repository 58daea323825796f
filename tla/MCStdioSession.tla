--------------------------- MODULE MCStdioSession ---------------------------
(***************************************************************************)
(* StdioSession for TLC: the ids a client uses are interchangeable as long *)
(* as the upstream uses none of them or all of them.                       *)
(***************************************************************************)
EXTENDS StdioSession, TLC

IdSymmetry == Permutations(Ids)
=============================================================================
