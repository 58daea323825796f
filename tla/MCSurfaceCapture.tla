-------------------------- MODULE MCSurfaceCapture --------------------------
(***************************************************************************)
(* SurfaceCapture for TLC.  No definition tells one id from another.       *)
(***************************************************************************)
EXTENDS SurfaceCapture

Symmetry == Permutations(Ids)
=============================================================================
