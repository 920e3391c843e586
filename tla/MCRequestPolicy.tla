-------------------------- MODULE MCRequestPolicy --------------------------
(***************************************************************************)
(* Small instances of RequestPolicy for TLC.                               *)
(***************************************************************************)
EXTENDS RequestPolicy, TLC

\* Requests are interchangeable.
Symmetry == Permutations(Request)
=============================================================================
