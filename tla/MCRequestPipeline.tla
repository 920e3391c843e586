------------------------- MODULE MCRequestPipeline -------------------------
(***************************************************************************)
(* A small instance of RequestPipeline for TLC: one upstream, and requests *)
(* of three listeners that share its circuit.                              *)
(***************************************************************************)
EXTENDS RequestPipeline

CONSTANTS u1, q1, q2, q3

MCPool == << <<u1>> >>
MCWeight == [u \in Candidate |-> 1]

\* The listeners open the circuit at the second and at the third failure; that
\* of q3 has no circuit breaker.
MCThreshold == [q \in Request |-> IF q = q1 THEN 2 ELSE IF q = q2 THEN 3 ELSE 0]
MCOpenFor == [q \in Request |-> 1]
=============================================================================
