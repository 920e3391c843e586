------------------------ MODULE MCUpstreamSelection ------------------------
(***************************************************************************)
(* Small instances of UpstreamSelection for TLC.                           *)
(***************************************************************************)
EXTENDS UpstreamSelection

CONSTANTS u1, u2

MCPool == << <<u1, u2>> >>
MCWeight == (u1 :> 2) @@ (u2 :> 1)

\* Requests are interchangeable.
Symmetry == Permutations(Request)
=============================================================================
