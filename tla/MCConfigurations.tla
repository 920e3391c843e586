-------------------------- MODULE MCConfigurations --------------------------
(***************************************************************************)
(* Small instances of Configurations for TLC.                              *)
(***************************************************************************)
EXTENDS Configurations, TLC

CONSTANTS s1, v1, u1

MCServiceOf == [v \in {v1} |-> s1]
MCVersionOf == [u \in {u1} |-> v1]

\* Listeners and administrators are interchangeable.
Symmetry == Permutations(Listener) \cup Permutations(Actor)
=============================================================================
