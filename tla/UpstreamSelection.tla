------------------------- MODULE UpstreamSelection -------------------------
(***************************************************************************)
(* Weighted round robin over the upstreams of one listener:                *)
(* Listener.SelectUpstreamWhere, run by concurrent requests while the      *)
(* health prober changes the upstreams' flags.  The flags and the cursor   *)
(* are atomics, so every load is a step of its own.  The pool is walked    *)
(* twice, once to add up the weights and once to find the upstream that    *)
(* the ticket falls on, and a flag may change in between.                  *)
(*                                                                         *)
(* Every snapshot has a listener of its own, with its pool, cursor and     *)
(* flags; a request keeps the snapshot it found when it arrived.           *)
(***************************************************************************)
EXTENDS Integers, Sequences, SequencesExt, FiniteSets

CONSTANTS
    Request,      \* requests, each selecting once
    Snapshot,     \* the snapshots the gateway loads, numbered from 1
    Pool,         \* listener.Upstreams of each: a sequence, sorted by id
    Weight,       \* the weight of each upstream
    CursorSize,   \* values of the cursor (2^64 in the code)
    None          \* nil

Candidate == UNION {Range(Pool[s]) : s \in Snapshot}

ASSUME SelectionAssumption ==
    /\ Snapshot \subseteq Nat \ {0}
    /\ \A s \in Snapshot : Pool[s] \in Seq(Candidate) /\ IsInjective(Pool[s])
    /\ Weight \in [Candidate -> Nat \ {0}]
    /\ CursorSize \in Nat \ {0}
    /\ None \notin Candidate

VARIABLES
    healthy,      \* Upstream.healthy, in each snapshot
    cursor,       \* Listener.cursor, in each snapshot
    sel           \* the selection of each request

selectionVars == <<healthy, cursor, sel>>

-----------------------------------------------------------------------------
\* A selection in the middle of its two walks.
Selecting(q) == sel[q].pc \in {"count", "scan"}

\* A request that has arrived but not begun to select.
Holding(q) == sel[q].pc = "idle" /\ sel[q].on # 0

\* The pool request q walks over, and the flags of its upstreams.
PoolOf(q) == Pool[sel[q].on]

\* The upstreams of pool s that a selection may return.
Eligible(s, allowed, flags) == {u \in allowed \cap Range(Pool[s]) : flags[s][u]}

\* Two fields only observe: outage, that at some moment of the selection no
\* allowed upstream was healthy, and steady, that no flag has changed since.
NotStarted ==
    [pc |-> "idle", on |-> 0, allowed |-> {}, i |-> 1, total |-> 0,
     selected |-> 0, result |-> None, outage |-> FALSE, steady |-> TRUE]

\* buildSnapshot takes every upstream for healthy.
SelectionInit ==
    /\ healthy = [s \in Snapshot |-> [u \in Range(Pool[s]) |-> TRUE]]
    /\ cursor = [s \in Snapshot |-> 0]
    /\ sel = [q \in Request |-> NotStarted]

\* The first thing ServeHTTP does.
TakeSnapshot(q, s) ==
    /\ sel[q].pc = "idle" /\ sel[q].on = 0
    /\ sel' = [sel EXCEPT ![q].on = s]
    /\ UNCHANGED <<healthy, cursor>>

BeginSelect(q, allowed) ==
    /\ Holding(q)
    /\ sel' = [sel EXCEPT ![q].pc = "count", ![q].allowed = allowed,
          ![q].outage = Eligible(sel[q].on, allowed, healthy) = {}]
    /\ UNCHANGED <<healthy, cursor>>

\* Mutant of Usable: the allowed predicate is not asked.
UsableHealthy(q) == healthy[sel[q].on][PoolOf(q)[sel[q].i]]

\* Healthy() && allowed(upstream), for the upstream the walk has reached.
Usable(q) ==
    LET u == PoolOf(q)[sel[q].i]
    IN  healthy[sel[q].on][u] /\ u \in sel[q].allowed

CountNext(q) ==
    /\ sel[q].pc = "count"
    /\ sel[q].i <= Len(PoolOf(q))
    /\ sel' = [sel EXCEPT
          ![q].total = IF Usable(q) THEN @ + Weight[PoolOf(q)[sel[q].i]] ELSE @,
          ![q].i = @ + 1]
    /\ UNCHANGED <<healthy, cursor>>

\* total == 0 returns nil; otherwise the request draws a ticket.
Draw(q) ==
    /\ sel[q].pc = "count"
    /\ sel[q].i > Len(PoolOf(q))
    /\ IF sel[q].total = 0
       THEN /\ sel' = [sel EXCEPT ![q].pc = "done"]
            /\ UNCHANGED cursor
       ELSE /\ sel' = [sel EXCEPT ![q].pc = "scan", ![q].i = 1,
                                  ![q].selected = cursor[sel[q].on] % sel[q].total]
            /\ cursor' = [cursor EXCEPT ![sel[q].on] = (@ + 1) % CursorSize]
    /\ UNCHANGED healthy

\* Mutant of ScanNext: the comparison is off by one.
ScanNextInclusive(q) ==
    /\ sel[q].pc = "scan"
    /\ sel[q].i <= Len(PoolOf(q))
    /\ LET u == PoolOf(q)[sel[q].i] IN
       sel' = [sel EXCEPT ![q] =
          IF ~Usable(q) THEN [@ EXCEPT !.i = @ + 1]
          ELSE IF sel[q].selected <= Weight[u]
          THEN [@ EXCEPT !.pc = "done", !.result = u]
          ELSE [@ EXCEPT !.selected = @ - Weight[u], !.i = @ + 1]]
    /\ UNCHANGED <<healthy, cursor>>

\* Mutant of ScanNext: an unusable upstream's weight is subtracted too.
ScanNextCountsAll(q) ==
    /\ sel[q].pc = "scan"
    /\ sel[q].i <= Len(PoolOf(q))
    /\ LET u == PoolOf(q)[sel[q].i] IN
       sel' = [sel EXCEPT ![q] =
          IF Usable(q) /\ sel[q].selected < Weight[u]
          THEN [@ EXCEPT !.pc = "done", !.result = u]
          ELSE [@ EXCEPT !.selected = @ - Weight[u], !.i = @ + 1]]
    /\ UNCHANGED <<healthy, cursor>>

ScanNext(q) ==
    /\ sel[q].pc = "scan"
    /\ sel[q].i <= Len(PoolOf(q))
    /\ LET u == PoolOf(q)[sel[q].i] IN
       sel' = [sel EXCEPT ![q] =
          IF ~Usable(q) THEN [sel[q] EXCEPT !.i = @ + 1]
          ELSE IF sel[q].selected < Weight[u]
          THEN [sel[q] EXCEPT !.pc = "done", !.result = u]
          ELSE [sel[q] EXCEPT !.selected = @ - Weight[u], !.i = @ + 1]]
    /\ UNCHANGED <<healthy, cursor>>

\* The second walk ended without a match: nil.
ScanEnd(q) ==
    /\ sel[q].pc = "scan"
    /\ sel[q].i > Len(PoolOf(q))
    /\ sel' = [sel EXCEPT ![q].pc = "done"]
    /\ UNCHANGED <<healthy, cursor>>

SelectStep(q) == CountNext(q) \/ Draw(q) \/ ScanNext(q) \/ ScanEnd(q)

\* Upstream.SetHealthy, for an upstream of snapshot s.
SetHealthy(s, u, value) ==
    /\ healthy' = [healthy EXCEPT ![s][u] = value]
    /\ sel' = [q \in Request |->
          IF Selecting(q) /\ sel[q].on = s /\ healthy[s][u] # value
          THEN [sel[q] EXCEPT !.steady = FALSE,
                              !.outage = @ \/ Eligible(s, sel[q].allowed, healthy') = {}]
          ELSE sel[q]]
    /\ UNCHANGED cursor

\* Any flag may change: what a prober that knows of nothing else can do.
Flip ==
    \E s \in Snapshot : \E u \in Range(Pool[s]), value \in BOOLEAN :
        healthy[s][u] # value /\ SetHealthy(s, u, value)

SelectionNext ==
    \/ \E q \in Request, s \in Snapshot : TakeSnapshot(q, s)
    \/ \E q \in Request, allowed \in SUBSET Candidate : BeginSelect(q, allowed)
    \/ \E q \in Request : SelectStep(q)
    \/ Flip

SelectionSpec == SelectionInit /\ [][SelectionNext]_selectionVars

-----------------------------------------------------------------------------
(* Properties *)

\* The flags, the cursor and the local variables of SelectUpstreamWhere.
SelectionTypeOK ==
    /\ DOMAIN healthy = Snapshot
    /\ \A s \in Snapshot : healthy[s] \in [Range(Pool[s]) -> BOOLEAN]
    /\ cursor \in [Snapshot -> 0 .. CursorSize - 1]
    /\ sel \in [Request ->
          [pc : {"idle", "count", "scan", "done"},
           on : Snapshot \cup {0},
           allowed : SUBSET Candidate,
           i : Nat \ {0},
           total : Nat,
           selected : Nat,
           result : Candidate \cup {None},
           outage : BOOLEAN,
           steady : BOOLEAN]]
    /\ \A q \in Request : sel[q].pc # "idle" =>
          sel[q].on # 0 /\ sel[q].i <= Len(PoolOf(q)) + 1

\* The weight of those upstreams of a pool that are in us.
WeightOf(us, pool) ==
    LET sum[k \in 0 .. Len(pool)] ==
            IF k = 0 THEN 0
            ELSE sum[k - 1] + (IF pool[k] \in us THEN Weight[pool[k]] ELSE 0)
    IN  sum[Len(pool)]

(***************************************************************************)
(* A selection during which no flag changed finds an upstream exactly when *)
(* an allowed one is healthy, and the one it finds is: the ticket always   *)
(* falls on somebody, whatever other requests draw meanwhile.              *)
(***************************************************************************)
SteadySelectionExact ==
    \A q \in Request : (sel[q].pc = "done" /\ sel[q].steady) =>
        /\ sel[q].result = None <=> sel[q].outage
        /\ sel[q].result # None => sel[q].result \in sel[q].allowed

(***************************************************************************)
(* Weights are shares: when all requests that drew from a snapshot's       *)
(* cursor found the same upstreams eligible throughout, every full round   *)
(* of tickets has sent each of them as many requests as its weight,        *)
(* however the requests' steps interleave.                                 *)
(***************************************************************************)
WeightedShare ==
    \A s \in Snapshot, allowed \in SUBSET Candidate :
        LET drawn == {q \in Request : sel[q].on = s /\ sel[q].pc # "idle"}
            total == WeightOf(allowed, Pool[s])
        IN  (/\ total > 0
             /\ \A q \in drawn : /\ sel[q].pc = "done" /\ sel[q].steady
                                  /\ sel[q].allowed = allowed
                                  /\ sel[q].total = total
             /\ Cardinality(drawn) % total = 0) =>
            \A u \in allowed \cap Range(Pool[s]) :
                Cardinality({q \in drawn : sel[q].result = u}) =
                    Weight[u] * (Cardinality(drawn) \div total)

(***************************************************************************)
(* The 503 that follows a nil selection says "No healthy upstream is       *)
(* available.": at some moment of the selection no allowed upstream was    *)
(* healthy.  The second walk can miss: the code returns nil also when the  *)
(* ticket falls on an upstream that has just turned unhealthy.             *)
(***************************************************************************)
OutageIsReal ==
    \A q \in Request :
        (sel[q].pc = "done" /\ sel[q].result = None) => sel[q].outage
=============================================================================
