--------------------------- MODULE MCRuntimeSync ---------------------------
(***************************************************************************)
(* Small instances of RuntimeSync for TLC: one consumer owns all keys.     *)
(***************************************************************************)
EXTENDS RuntimeSync

CONSTANTS c1, t1, t2

MCOwnerOf == [k \in Key |-> c1]

\* One administrator at a time; faults, and a configuration (2) that no
\* gateway can load followed by one (3) that it can.
SerialLossy ==
    [connections |-> {t1}, maxClock |-> 5, maxFaults |-> 2, maxConfig |-> 3,
     unloadable |-> {2}]

\* Overlapping requests, every notification delivered, every load succeeds.
OverlapReliable ==
    [connections |-> {t1, t2}, maxClock |-> 4, maxFaults |-> 0, maxConfig |-> 2,
     unloadable |-> {}]

\* Overlapping requests and one lost notification.
OverlapLossy ==
    [connections |-> {t1, t2}, maxClock |-> 5, maxFaults |-> 1, maxConfig |-> 1,
     unloadable |-> {}]

SupportedDeployments == {SerialLossy, OverlapReliable}
LossyDeployment == {OverlapLossy}
=============================================================================
