--------------------------- MODULE MCHealthProbes ---------------------------
(***************************************************************************)
(* Small instances of HealthProbes for TLC: an upstream that leaves the    *)
(* configuration and returns, next to one that stays.                      *)
(***************************************************************************)
EXTENDS HealthProbes

CONSTANTS u1, u2, q1, q2, q3

MCPool == <<<<u1, u2>>, <<u2>>, <<u1, u2>>>>
MCWeight == (u1 :> 2) @@ (u2 :> 1)

\* A whole round of tickets on one snapshot.
Round ==
    [requests |-> {q1, q2, q3}, snapshots |-> 1, maxChanges |-> 0,
     allowed |-> SUBSET Candidate, probes |-> FALSE, stops |-> FALSE]

\* Reloads and failing upstreams around one request.
Turbulent ==
    [requests |-> {q1}, snapshots |-> 3, maxChanges |-> 2,
     allowed |-> {Candidate}, probes |-> TRUE, stops |-> FALSE]

\* The process is told to stop.
Stopping ==
    [requests |-> {q1}, snapshots |-> 2, maxChanges |-> 1,
     allowed |-> {Candidate}, probes |-> TRUE, stops |-> TRUE]

\* Two requests on both sides of a reload.
Pair ==
    [requests |-> {q1, q2}, snapshots |-> 2, maxChanges |-> 1,
     allowed |-> SUBSET Candidate, probes |-> TRUE, stops |-> FALSE]

Deployments == {Round, Turbulent, Stopping, Pair}
=============================================================================
