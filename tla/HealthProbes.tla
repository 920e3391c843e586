---------------------------- MODULE HealthProbes ----------------------------
(***************************************************************************)
(* Where the health flags that selections read come from: the goroutine of *)
(* Runtime.Run alternates between reloads, which build a new snapshot and  *)
(* carry the flags over (copyHealth), and probes, which ask every upstream *)
(* of the current snapshot in a goroutine of its own.  Requests select     *)
(* meanwhile, from the snapshot they arrived with.                         *)
(*                                                                         *)
(* up is what a probe would find out now: the upstream answers its health  *)
(* path in time with a status from 200 to 399.                             *)
(***************************************************************************)
EXTENDS UpstreamSelection

CONSTANTS
    Slots,          \* probes that may be under way at once (16 in the code)
    Deployment      \* the settings under which the system is checked

\* A deployment says which requests arrive, how many snapshots are loaded and
\* how often upstreams change, which sets of them circuits leave to choose
\* from, whether the gateway probes within the time observed, and whether it
\* is told to stop.
ASSUME ProbesAssumption ==
    /\ Slots \in Nat \ {0}
    /\ \A d \in Deployment :
          /\ d.requests \subseteq Request
          /\ d.snapshots \in Nat \ {0} /\ 1 .. d.snapshots \subseteq Snapshot
          /\ d.maxChanges \in Nat
          /\ d.allowed \subseteq SUBSET Candidate
          /\ d.probes \in BOOLEAN /\ d.stops \in BOOLEAN

VARIABLES
    deployment,     \* the setting of this behaviour, never changed
    up,             \* what the upstreams are
    changes,        \* changes of up so far
    current,        \* Runtime.current
    run,            \* the goroutine of Runtime.Run
    probing,        \* the goroutines of a probe, by upstream
    cancelled,      \* the process was told to stop
    knownDown,      \* upstreams a probe found down that have stayed so since
    avoid           \* those of them known when the request arrived (history)

probeVars == <<up, changes, current, run, probing, cancelled, knownDown, avoid>>
gatewayVars == <<selectionVars, deployment, probeVars>>

Members(s) == Range(Pool[s])

-----------------------------------------------------------------------------
(* Runtime.Run *)

\* Mutant of Carried: the new snapshot starts with the flags of buildSnapshot.
CarriedNever(s, u) == TRUE

\* copyHealth: an upstream keeps its flag, one that was not there is healthy.
Carried(s, u) == IF u \in Members(current) THEN healthy[current][u] ELSE TRUE

\* Load: only the flags of the new snapshot are written, before it is stored.
Reload ==
    LET s == current + 1 IN
    /\ run = "select"
    /\ s <= deployment.snapshots
    /\ current' = s
    /\ healthy' = [healthy EXCEPT ![s] = [u \in Members(s) |-> Carried(s, u)]]
    /\ knownDown' = knownDown \cap Members(s)
    /\ UNCHANGED <<cursor, sel, deployment, up, changes, run, probing, cancelled,
                   avoid>>

\* Mutant of BeginProbe: an upstream that is out of service is not probed.
BeginProbeOfHealthy ==
    /\ deployment.probes
    /\ run = "select"
    /\ run' = "probe"
    /\ probing' = [u \in Candidate |->
          IF u \in Members(current) /\ healthy[current][u] THEN "waiting" ELSE "none"]
    /\ UNCHANGED <<selectionVars, deployment, up, changes, current, cancelled,
                   knownDown, avoid>>

\* probe starts a goroutine for every upstream of the snapshot.
BeginProbe ==
    /\ deployment.probes
    /\ run = "select"
    /\ run' = "probe"
    /\ probing' = [u \in Candidate |->
          IF u \in Members(current) THEN "waiting" ELSE "none"]
    /\ UNCHANGED <<selectionVars, deployment, up, changes, current, cancelled,
                   knownDown, avoid>>

\* wait.Wait() returns.
EndProbe ==
    /\ run = "probe"
    /\ \A u \in Candidate : probing[u] = "none"
    /\ run' = "select"
    /\ UNCHANGED <<selectionVars, deployment, up, changes, current, probing,
                   cancelled, knownDown, avoid>>

\* The case ctx.Done().
StopRunning ==
    /\ run = "select"
    /\ cancelled
    /\ run' = "ended"
    /\ UNCHANGED <<selectionVars, deployment, up, changes, current, probing,
                   cancelled, knownDown, avoid>>

-----------------------------------------------------------------------------
(* A probe of one upstream *)

Busy == {u \in Candidate : probing[u] \in {"sent", "healthy", "unhealthy"}}

Becomes(u, state) == probing' = [probing EXCEPT ![u] = state]

TakeSlot(u) ==
    /\ probing[u] = "waiting"
    /\ Cardinality(Busy) < Slots
    /\ Becomes(u, "sent")
    /\ UNCHANGED <<selectionVars, deployment, up, changes, current, run, cancelled,
                   knownDown, avoid>>

\* The context ends while the goroutine waits: it returns.
GiveUp(u) ==
    /\ probing[u] = "waiting"
    /\ cancelled
    /\ Becomes(u, "none")
    /\ UNCHANGED <<selectionVars, deployment, up, changes, current, run, cancelled,
                   knownDown, avoid>>

\* client.Do returns what it found; once the context is done, an error.
Observe(u) ==
    /\ probing[u] = "sent"
    /\ \/ Becomes(u, IF up[u] THEN "healthy" ELSE "unhealthy")
       \/ cancelled /\ Becomes(u, "unhealthy")
    /\ UNCHANGED <<selectionVars, deployment, up, changes, current, run, cancelled,
                   knownDown, avoid>>

\* SetHealthy, and the slot is free.
Store(u) ==
    /\ probing[u] \in {"healthy", "unhealthy"}
    /\ SetHealthy(current, u, probing[u] = "healthy")
    /\ Becomes(u, "none")
    /\ knownDown' = IF probing[u] = "unhealthy" /\ ~up[u]
                    THEN knownDown \cup {u} ELSE knownDown
    /\ UNCHANGED <<deployment, up, changes, current, run, cancelled, avoid>>

-----------------------------------------------------------------------------
(* Upstreams, the process, and requests *)

ChangeHealth(u) ==
    /\ changes < deployment.maxChanges
    /\ changes' = changes + 1
    /\ up' = [up EXCEPT ![u] = ~@]
    /\ knownDown' = knownDown \ {u}
    /\ avoid' = [q \in Request |-> avoid[q] \ {u}]
    /\ UNCHANGED <<selectionVars, deployment, current, run, probing, cancelled>>

Cancel ==
    /\ deployment.stops /\ ~cancelled
    /\ cancelled' = TRUE
    /\ UNCHANGED <<selectionVars, deployment, up, changes, current, run, probing,
                   knownDown, avoid>>

ArriveAtCurrent(q) ==
    /\ q \in deployment.requests
    /\ TakeSnapshot(q, current)
    /\ avoid' = [avoid EXCEPT ![q] = knownDown]
    /\ UNCHANGED <<deployment, up, changes, current, run, probing, cancelled,
                   knownDown>>

SelectUpstream(q) ==
    /\ \/ \E allowed \in deployment.allowed : BeginSelect(q, allowed)
       \/ SelectStep(q)
    /\ UNCHANGED <<deployment, probeVars>>

-----------------------------------------------------------------------------
ProbesInit ==
    /\ SelectionInit
    /\ deployment \in Deployment
    /\ up = [u \in Candidate |-> TRUE]
    /\ changes = 0
    /\ current = 1
    /\ run = "select"
    /\ probing = [u \in Candidate |-> "none"]
    /\ cancelled = FALSE
    /\ knownDown = {}
    /\ avoid = [q \in Request |-> {}]

Probe(u) == TakeSlot(u) \/ GiveUp(u) \/ Observe(u) \/ Store(u)

ProbesNext ==
    \/ Reload
    \/ BeginProbe
    \/ EndProbe
    \/ StopRunning
    \/ \E u \in Candidate : TakeSlot(u)
    \/ \E u \in Candidate : GiveUp(u)
    \/ \E u \in Candidate : Observe(u)
    \/ \E u \in Candidate : Store(u)
    \/ \E u \in Candidate : ChangeHealth(u)
    \/ Cancel
    \/ \E q \in Request : ArriveAtCurrent(q)
    \/ \E q \in Request : SelectUpstream(q)

(***************************************************************************)
(* Fairness.  The health timer fires again and again and Run's select      *)
(* chooses at random among the cases that are ready; a probe has a timeout *)
(* and frees its slot.                                                     *)
(***************************************************************************)
ProbesFairness ==
    /\ SF_gatewayVars(BeginProbe)
    /\ WF_gatewayVars(EndProbe)
    /\ \A u \in Candidate : WF_gatewayVars(Probe(u))

ProbesSpec == ProbesInit /\ [][ProbesNext]_gatewayVars /\ ProbesFairness

-----------------------------------------------------------------------------
(* Properties *)

\* Every variable has the values Run and its probes can give it, and no more
\* than Slots probes are under way.
ProbesTypeOK ==
    /\ SelectionTypeOK
    /\ deployment \in Deployment
    /\ up \in [Candidate -> BOOLEAN]
    /\ changes \in 0 .. deployment.maxChanges
    /\ current \in 1 .. deployment.snapshots
    /\ run \in {"select", "probe", "ended"}
    /\ probing \in [Candidate -> {"none", "waiting", "sent", "healthy", "unhealthy"}]
    /\ Cardinality(Busy) <= Slots
    /\ cancelled \in BOOLEAN
    /\ knownDown \subseteq Candidate
    /\ avoid \in [Request -> SUBSET Candidate]

(***************************************************************************)
(* An upstream that a probe found down is given no request that arrives    *)
(* afterwards, until it is up again: not through a snapshot loaded in      *)
(* between, nor through an old one that a request still holds.             *)
(***************************************************************************)
KnownDownAvoided == \A q \in Request : sel[q].result \notin avoid[q]

(***************************************************************************)
(* Once the upstreams settle, the flags of the current snapshot become and *)
(* stay right, whatever was probed and reloaded meanwhile, for as long as  *)
(* the process runs.  (A stop during a probe takes every upstream not yet  *)
(* heard from out of service, while requests in flight are still served.)  *)
(***************************************************************************)
FlagsSettle ==
    deployment.probes =>
        <>[](cancelled \/ \A u \in Members(current) : healthy[current][u] = up[u])
=============================================================================
