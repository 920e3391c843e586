-------------------------- MODULE SelectionProofs --------------------------
(***************************************************************************)
(* Proofs about the two modules that build on UpstreamSelection, for any   *)
(* snapshots, pools, weights and requests: HealthProbes, where the flags   *)
(* come from, and RequestPipeline, where the requests do.                  *)
(***************************************************************************)
EXTENDS HealthProbes, RequestPipeline, FiniteSetTheorems, FunctionTheorems,
        NaturalsInduction, WellFoundedInduction, TLAPS

-----------------------------------------------------------------------------
(* Pools and weights *)

\* A pool is a sequence of upstreams without repetitions.
LEMMA PoolFacts ==
    ASSUME NEW s \in Snapshot
    PROVE  /\ s # 0
           /\ Len(Pool[s]) \in Nat
           /\ \A k \in 1 .. Len(Pool[s]) : /\ Pool[s][k] \in Range(Pool[s])
                                           /\ Pool[s][k] \in Candidate
           /\ \A u \in Range(Pool[s]) : \E k \in 1 .. Len(Pool[s]) : Pool[s][k] = u
           /\ Range(Pool[s]) \subseteq Candidate
           /\ \A j, k \in 1 .. Len(Pool[s]) : Pool[s][j] = Pool[s][k] => j = k
<1>1. Pool[s] \in Seq(Candidate) /\ IsInjective(Pool[s]) /\ s \in Nat \ {0}
  BY SelectionAssumption
<1>2. DOMAIN Pool[s] = 1 .. Len(Pool[s]) /\ Len(Pool[s]) \in Nat
  BY <1>1
<1>3. Range(Pool[s]) \subseteq Candidate
  BY DEF Candidate
<1> QED
  BY <1>1, <1>2, <1>3 DEF Range, IsInjective

LEMMA WeightFacts == \A u \in Candidate : Weight[u] \in Nat /\ Weight[u] > 0
BY SelectionAssumption

-----------------------------------------------------------------------------
(***************************************************************************)
(* The invariant of the two walks.  It is stated of the record r of a      *)
(* request, under the flags of its snapshot.                               *)
(***************************************************************************)
Selection ==
    [pc : {"idle", "count", "scan", "done"}, on : Snapshot \cup {0},
     allowed : SUBSET Candidate, i : Nat \ {0}, total : Nat, selected : Nat,
     result : Candidate \cup {None}, outage : BOOLEAN, steady : BOOLEAN]

Chosen(r) == Eligible(r.on, r.allowed, healthy)

\* What the k-th upstream of the pool adds to the total.
Share(r, k) ==
    IF Pool[r.on][k] \in Chosen(r) THEN Weight[Pool[r.on][k]] ELSE 0

\* sums[k] is the sum of the first k shares, up to the n-th.
PrefixSums(sums, n, r) ==
    /\ sums \in [0 .. n -> Nat]
    /\ sums[0] = 0
    /\ \A k \in 1 .. n : sums[k] = sums[k - 1] + Share(r, k)

\* The first walk has added up the shares before i.
Counted(r) ==
    /\ r.outage <=> Chosen(r) = {}
    /\ r.total = 0 <=> \A k \in 1 .. r.i - 1 : Pool[r.on][k] \notin Chosen(r)
    /\ \E sums : PrefixSums(sums, r.i - 1, r) /\ sums[r.i - 1] = r.total

\* What is left of the ticket is less than the shares from i on: the second
\* walk cannot run past the end.
TicketFalls(r) ==
    LET n == Len(Pool[r.on]) IN
    /\ ~r.outage
    /\ \E sums : PrefixSums(sums, n, r) /\ r.selected + sums[r.i - 1] < sums[n]

WalkInv(r) ==
    /\ r.pc = "idle" => r = [NotStarted EXCEPT !.on = r.on]
    /\ r.pc # "idle" => r.on \in Snapshot /\ r.i <= Len(Pool[r.on]) + 1
    /\ r.result # None => /\ r.pc = "done"
                          /\ r.result \in r.allowed
                          /\ r.result \in Range(Pool[r.on])
    /\ r.steady => /\ r.pc = "count" => Counted(r)
                   /\ r.pc = "scan" => TicketFalls(r)
                   /\ r.pc = "done" => (r.result = None <=> r.outage)

SelectionInv == SelectionTypeOK /\ \A q \in Request : WalkInv(sel[q])

LEMMA SelectionTyped ==
    ASSUME SelectionInv, NEW q \in Request
    PROVE  /\ sel[q] \in Selection /\ WalkInv(sel[q])
           /\ sel[q].on # 0 => sel[q].on \in Snapshot
BY DEF SelectionInv, SelectionTypeOK, Selection

\* A step of one request that gives its selection the new value r.
LEMMA SelectionUpdated ==
    ASSUME SelectionInv, NEW q \in Request, NEW r \in Selection, WalkInv(r),
           sel' = [sel EXCEPT ![q] = r], healthy' = healthy,
           cursor' \in [Snapshot -> 0 .. CursorSize - 1]
    PROVE  SelectionInv'
<1>1. sel \in [Request -> Selection]
  BY DEF SelectionInv, SelectionTypeOK, Selection
<1>2. sel' \in [Request -> Selection]
  BY <1>1
<1>3. ASSUME NEW p \in Request PROVE WalkInv(sel'[p])
  BY <1>1 DEF SelectionInv
<1>4. ASSUME NEW p \in Request PROVE WalkInv(sel[p])'
  <2>1. Chosen(sel[p])' = Chosen(sel'[p])
    BY DEF Chosen, Eligible
  <2>2. \A k : Share(sel[p], k)' = Share(sel'[p], k)
    BY <2>1 DEF Share
  <2>3. \A sums, n : PrefixSums(sums, n, sel[p])' <=> PrefixSums(sums, n, sel'[p])
    BY <2>2 DEF PrefixSums
  <2>4. /\ Counted(sel[p])' <=> Counted(sel'[p])
        /\ TicketFalls(sel[p])' <=> TicketFalls(sel'[p])
    BY <2>1, <2>3 DEF Counted, TicketFalls
  <2> QED
    BY <1>3, <2>4 DEF WalkInv
<1>5. ASSUME NEW p \in Request, sel'[p].pc # "idle"
      PROVE  sel'[p].on # 0 /\ sel'[p].i <= Len(Pool[sel'[p].on]) + 1
  BY <1>3, <1>5, PoolFacts DEF WalkInv
<1> QED
  BY <1>2, <1>4, <1>5 DEF SelectionInv, SelectionTypeOK, Selection, PoolOf

LEMMA SelectionBegins == SelectionInit => SelectionInv
<1> SUFFICES ASSUME SelectionInit PROVE SelectionInv
  OBVIOUS
<1>1. NotStarted \in Selection
  BY DEF NotStarted, Selection
<1>2. SelectionTypeOK
  BY <1>1, SelectionAssumption
     DEF SelectionInit, SelectionTypeOK, Selection, NotStarted
<1>3. WalkInv(NotStarted)
  BY DEF WalkInv, NotStarted
<1> QED
  BY <1>2, <1>3 DEF SelectionInit, SelectionInv

LEMMA TakeSnapshotKeeps ==
    ASSUME SelectionInv, NEW q \in Request, NEW s \in Snapshot, TakeSnapshot(q, s)
    PROVE  SelectionInv'
<1> DEFINE r == [sel[q] EXCEPT !.on = s]
<1>1. sel[q] = [NotStarted EXCEPT !.on = sel[q].on] /\ sel[q] \in Selection
  BY SelectionTyped DEF TakeSnapshot, WalkInv
<1>2. r \in Selection /\ WalkInv(r)
  BY <1>1 DEF Selection, WalkInv, NotStarted
<1>3. sel' = [sel EXCEPT ![q] = r] /\ UNCHANGED <<healthy, cursor>>
  BY DEF TakeSnapshot
<1> HIDE DEF r
<1> QED
  BY <1>2, <1>3, SelectionUpdated DEF SelectionInv, SelectionTypeOK

LEMMA BeginSelectKeeps ==
    ASSUME SelectionInv, NEW q \in Request, NEW allowed \in SUBSET Candidate,
           BeginSelect(q, allowed)
    PROVE  SelectionInv'
<1> DEFINE out == Eligible(sel[q].on, allowed, healthy) = {}
           r == [sel[q] EXCEPT !.pc = "count", !.allowed = allowed, !.outage = out]
           sums == [k \in 0 .. 0 |-> 0]
<1>1. /\ sel[q] = [NotStarted EXCEPT !.on = sel[q].on]
      /\ sel[q] \in Selection /\ sel[q].on \in Snapshot
  BY SelectionTyped DEF BeginSelect, Holding, WalkInv
<1>2. out \in BOOLEAN
  OBVIOUS
<1>3. sel' = [sel EXCEPT ![q] = r] /\ UNCHANGED <<healthy, cursor>>
  BY DEF BeginSelect
<1>4. r.outage <=> Chosen(r) = {}
  BY <1>1 DEF Chosen, Selection
<1> HIDE DEF out
<1>5. /\ r \in Selection /\ r.on \in Snapshot /\ r.i = 1 /\ r.total = 0
      /\ r.pc = "count" /\ r.result = None
  BY <1>1, <1>2 DEF Selection, NotStarted
<1> HIDE DEF r
<1>6. PrefixSums(sums, r.i - 1, r) /\ sums[r.i - 1] = r.total
  BY <1>5 DEF PrefixSums
<1>7. Counted(r)
  BY <1>4, <1>5, <1>6 DEF Counted
<1>8. WalkInv(r)
  BY <1>5, <1>7, PoolFacts DEF WalkInv
<1> QED
  BY <1>3, <1>5, <1>8, SelectionUpdated DEF SelectionInv, SelectionTypeOK

\* A selection in the middle of a walk.
LEMMA WalkTyped ==
    ASSUME SelectionInv, NEW q \in Request, sel[q].pc \in {"count", "scan"}
    PROVE  /\ sel[q] \in Selection /\ WalkInv(sel[q])
           /\ sel[q].on \in Snapshot /\ sel[q].result = None
           /\ sel[q].i \in Nat \ {0} /\ sel[q].i <= Len(Pool[sel[q].on]) + 1
           /\ Len(Pool[sel[q].on]) \in Nat
           /\ sel[q].total \in Nat /\ sel[q].selected \in Nat
<1>1. sel[q] \in Selection /\ WalkInv(sel[q])
  BY SelectionTyped
<1>2. sel[q].i \in Nat \ {0} /\ sel[q].total \in Nat /\ sel[q].selected \in Nat
  BY <1>1 DEF Selection
<1>3. /\ sel[q].on \in Snapshot /\ sel[q].i <= Len(Pool[sel[q].on]) + 1
      /\ sel[q].result = None
  BY <1>1 DEF WalkInv
<1> QED
  BY <1>1, <1>2, <1>3, PoolFacts

\* An upstream the walk may return is one whose flag it has just read.
LEMMA UsableChosen ==
    ASSUME SelectionInv, NEW q \in Request, sel[q].pc \in {"count", "scan"},
           sel[q].i <= Len(PoolOf(q))
    PROVE  LET u == Pool[sel[q].on][sel[q].i] IN
           /\ u \in Candidate /\ u \in Range(Pool[sel[q].on])
           /\ Usable(q) <=> u \in Chosen(sel[q])
           /\ Usable(q) <=> u \in sel[q].allowed /\ healthy[sel[q].on][u]
<1>1. sel[q].on \in Snapshot /\ sel[q].i \in 1 .. Len(Pool[sel[q].on])
  BY WalkTyped DEF PoolOf
<1> QED
  BY <1>1, PoolFacts DEF Usable, Chosen, Eligible, PoolOf

LEMMA CountNextKeeps ==
    ASSUME SelectionInv, NEW q \in Request, CountNext(q)
    PROVE  SelectionInv'
<1> DEFINE s == sel[q]
           u == Pool[s.on][s.i]
           r == [s EXCEPT !.total = IF Usable(q) THEN @ + Weight[u] ELSE @,
                          !.i = @ + 1]
<1>1. /\ s \in Selection /\ WalkInv(s) /\ s.pc = "count" /\ s.on \in Snapshot
      /\ s.result = None
      /\ s.i \in 1 .. Len(Pool[s.on]) /\ Len(Pool[s.on]) \in Nat
      /\ s.i \in Nat \ {0} /\ s.total \in Nat
  BY WalkTyped DEF CountNext, PoolOf
<1>2. sel' = [sel EXCEPT ![q] = r] /\ UNCHANGED <<healthy, cursor>>
  BY DEF CountNext, PoolOf
<1>3. /\ u \in Candidate /\ Weight[u] \in Nat /\ Weight[u] > 0
      /\ Usable(q) <=> u \in Chosen(s)
  <2>1. sel[q].pc \in {"count", "scan"} /\ sel[q].i <= Len(PoolOf(q))
    BY DEF CountNext
  <2>2. u \in Candidate /\ (Usable(q) <=> u \in Chosen(s))
    BY <2>1, UsableChosen
  <2> QED
    BY <2>2, WeightFacts
<1> DEFINE gain == IF Usable(q) THEN Weight[u] ELSE 0
<1>10. gain \in Nat /\ gain = Share(s, s.i)
  BY <1>3 DEF Share
<1>11. r = [s EXCEPT !.total = s.total + gain, !.i = s.i + 1]
  <2>1. CASE Usable(q)
    BY <2>1
  <2>2. CASE ~Usable(q)
    <3>1. gain = 0 /\ s.total + gain = s.total
      BY <1>1, <2>2
    <3> QED
      BY <2>2, <3>1
  <2> QED
    BY <2>1, <2>2
<1> HIDE DEF r, gain
<1>4. /\ r \in Selection /\ r.pc = "count" /\ r.i = s.i + 1 /\ r.result = None
      /\ r.total = s.total + Share(s, s.i)
      /\ r.on = s.on /\ r.allowed = s.allowed
      /\ r.outage = s.outage /\ r.steady = s.steady
  <2>1. s.total + gain \in Nat /\ s.i + 1 \in Nat \ {0}
    BY <1>1, <1>10
  <2> QED
    BY <1>1, <1>10, <1>11, <2>1 DEF Selection
<1> HIDE DEF u
<1>5. Chosen(r) = Chosen(s) /\ \A k : Share(r, k) = Share(s, k)
  BY <1>4 DEF Chosen, Share
<1>6. ASSUME s.steady PROVE Counted(r)
  <2>1. Counted(s)
    BY <1>1, <1>6 DEF WalkInv
  <2>2. PICK sums : PrefixSums(sums, s.i - 1, s) /\ sums[s.i - 1] = s.total
    BY <2>1 DEF Counted
  <2> DEFINE next == [k \in 0 .. s.i |-> IF k = s.i THEN r.total ELSE sums[k]]
  <2>3. s.total \in Nat /\ r.total \in Nat /\ s.i \in Nat \ {0}
    BY <1>1, <1>4 DEF Selection
  <2>4. PrefixSums(next, s.i, r)
    <3>1. next \in [0 .. s.i -> Nat] /\ next[0] = 0
      BY <2>2, <2>3 DEF PrefixSums
    <3>2. ASSUME NEW k \in 1 .. s.i PROVE next[k] = next[k - 1] + Share(r, k)
      <4>1. CASE k = s.i
        BY <1>4, <1>5, <2>2, <2>3, <4>1
      <4>2. CASE k # s.i
        BY <1>5, <2>2, <2>3, <4>2 DEF PrefixSums
      <4> QED
        BY <4>1, <4>2
    <3> QED
      BY <3>1, <3>2 DEF PrefixSums
  <2>5. PrefixSums(next, r.i - 1, r) /\ next[r.i - 1] = r.total
    BY <1>4, <2>3, <2>4
  <2>6. r.total = 0 <=> \A k \in 1 .. r.i - 1 : Pool[r.on][k] \notin Chosen(r)
    <3>1. r.total = 0 <=> s.total = 0 /\ u \notin Chosen(s)
      BY <1>3, <1>4, <2>3 DEF Share, u
    <3>2. \A k \in 1 .. r.i - 1 : k \in 1 .. s.i - 1 \/ k = s.i
      BY <1>4, <2>3
    <3>3. \A k \in 1 .. s.i - 1 : k \in 1 .. r.i - 1
      BY <1>4, <2>3
    <3>4. s.i \in 1 .. r.i - 1
      BY <1>4, <2>3
    <3> QED
      BY <1>4, <1>5, <2>1, <3>1, <3>2, <3>3, <3>4 DEF Counted, u
  <2>7. r.outage <=> Chosen(r) = {}
    BY <1>4, <1>5, <2>1 DEF Counted
  <2> QED
    BY <2>5, <2>6, <2>7 DEF Counted
<1>7. WalkInv(r)
  BY <1>1, <1>4, <1>6 DEF WalkInv
<1> QED
  BY <1>2, <1>4, <1>7, SelectionUpdated DEF SelectionInv, SelectionTypeOK

\* A ticket is less than the total it is drawn from.
LEMMA TicketBelowTotal ==
    ASSUME NEW total \in Nat \ {0}, NEW c \in Nat
    PROVE  c % total \in Nat /\ c % total < total
OBVIOUS

LEMMA ScanBegins ==
    ASSUME NEW s \in Selection, NEW ticket \in Nat
    PROVE  [s EXCEPT !.pc = "scan", !.i = 1, !.selected = ticket] \in Selection
<1> DEFINE a == [s EXCEPT !.pc = "scan"]
           b == [a EXCEPT !.i = 1]
<1>1. a \in Selection
  BY DEF Selection
<1>2. b \in Selection
  <2> HIDE DEF a
  <2> QED
    BY <1>1 DEF Selection
<1>3. [b EXCEPT !.selected = ticket] \in Selection
  <2> HIDE DEF a, b
  <2> QED
    BY <1>2 DEF Selection
<1> QED
  BY <1>3

LEMMA DrawKeeps ==
    ASSUME SelectionInv, NEW q \in Request, Draw(q)
    PROVE  SelectionInv'
<1> DEFINE s == sel[q]
<1>1. /\ s \in Selection /\ WalkInv(s) /\ s.pc = "count" /\ s.on \in Snapshot
      /\ s.result = None
      /\ s.i = Len(Pool[s.on]) + 1 /\ Len(Pool[s.on]) \in Nat
      /\ s.total \in Nat
  BY WalkTyped DEF Draw, PoolOf
<1>2. healthy' = healthy /\ cursor[s.on] \in 0 .. CursorSize - 1
      /\ CursorSize \in Nat \ {0}
  BY <1>1, SelectionAssumption DEF Draw, SelectionInv, SelectionTypeOK
<1>3. s.steady => (s.total = 0 <=> s.outage)
  <2> SUFFICES ASSUME s.steady PROVE s.total = 0 <=> s.outage
    OBVIOUS
  <2>1. Counted(s)
    BY <1>1 DEF WalkInv
  <2>2. \A k \in 1 .. Len(Pool[s.on]) : k \in 1 .. s.i - 1
    BY <1>1
  <2>3. \A v \in Chosen(s) : \E k \in 1 .. Len(Pool[s.on]) : Pool[s.on][k] = v
    BY <1>1, PoolFacts DEF Chosen, Eligible
  <2>4. s.total = 0 => Chosen(s) = {}
    BY <2>1, <2>2, <2>3 DEF Counted
  <2> QED
    BY <2>1, <2>4 DEF Counted
<1>4. CASE s.total = 0
  <2> DEFINE r == [s EXCEPT !.pc = "done"]
  <2>1. sel' = [sel EXCEPT ![q] = r] /\ UNCHANGED <<healthy, cursor>>
    BY <1>4 DEF Draw
  <2>2. r \in Selection /\ WalkInv(r)
    BY <1>1, <1>3, <1>4 DEF Selection, WalkInv
  <2> HIDE DEF r
  <2> QED
    BY <2>1, <2>2, SelectionUpdated DEF SelectionInv, SelectionTypeOK
<1>5. CASE s.total # 0
  <2> DEFINE ticket == cursor[s.on] % s.total
             r == [s EXCEPT !.pc = "scan", !.i = 1, !.selected = ticket]
  <2>1. sel' = [sel EXCEPT ![q] = r]
    BY <1>5 DEF Draw
  <2>2. s.total \in Nat \ {0}
    BY <1>1, <1>5 DEF Selection
  <2>3. ticket \in Nat /\ ticket < s.total
    BY <1>2, <2>2, TicketBelowTotal
  <2> HIDE DEF ticket
  <2>4. /\ r \in Selection /\ r.pc = "scan" /\ r.i = 1 /\ r.result = None
        /\ r.selected \in Nat /\ r.selected < s.total
        /\ r.on = s.on /\ r.allowed = s.allowed
        /\ r.outage = s.outage /\ r.steady = s.steady
    <3>1. s \in Selection /\ s.result = None
      BY <1>1
    <3>2. r \in Selection
      BY <3>1, <2>3, ScanBegins
    <3>3. r.pc = "scan" /\ r.i = 1 /\ r.result = None
      BY <3>1 DEF Selection
    <3>4. r.selected = ticket
      BY <3>1 DEF Selection
    <3>5. /\ r.on = s.on /\ r.allowed = s.allowed
          /\ r.outage = s.outage /\ r.steady = s.steady
      BY <3>1 DEF Selection
    <3> QED
      BY <2>2, <2>3, <3>2, <3>3, <3>4, <3>5
  <2> HIDE DEF r
  <2>5. Chosen(r) = Chosen(s) /\ \A k : Share(r, k) = Share(s, k)
    BY <2>4 DEF Chosen, Share
  <2>6. ASSUME s.steady PROVE TicketFalls(r)
    <3>1. PICK sums : PrefixSums(sums, s.i - 1, s) /\ sums[s.i - 1] = s.total
      BY <1>1, <2>6 DEF WalkInv, Counted
    <3>2. s.i - 1 = Len(Pool[r.on])
      BY <1>1, <2>4
    <3>3. PrefixSums(sums, Len(Pool[r.on]), r) /\ sums[Len(Pool[r.on])] = s.total
      BY <2>5, <3>1, <3>2 DEF PrefixSums
    <3>4. r.selected + sums[r.i - 1] < sums[Len(Pool[r.on])]
      BY <2>2, <2>4, <3>3 DEF PrefixSums
    <3>5. ~r.outage
      BY <1>3, <1>5, <2>4, <2>6
    <3> QED
      BY <3>3, <3>4, <3>5 DEF TicketFalls
  <2>7. WalkInv(r)
    BY <1>1, <2>4, <2>6 DEF WalkInv
  <2>8. cursor' \in [Snapshot -> 0 .. CursorSize - 1]
    <3>1. (cursor[s.on] + 1) % CursorSize \in 0 .. CursorSize - 1
      BY <1>2
    <3>2. cursor' = [cursor EXCEPT ![s.on] = (cursor[s.on] + 1) % CursorSize]
      BY <1>5 DEF Draw
    <3> QED
      BY <3>1, <3>2 DEF SelectionInv, SelectionTypeOK
  <2> QED
    BY <1>2, <2>1, <2>4, <2>7, <2>8, SelectionUpdated
<1> QED
  BY <1>4, <1>5

LEMMA ScanNextKeeps ==
    ASSUME SelectionInv, NEW q \in Request, ScanNext(q)
    PROVE  SelectionInv'
<1> DEFINE s == sel[q]
           u == Pool[s.on][s.i]
           n == Len(Pool[s.on])
<1>1. /\ s \in Selection /\ WalkInv(s) /\ s.pc = "scan" /\ s.on \in Snapshot
      /\ s.result = None /\ n \in Nat
      /\ s.i \in Nat \ {0} /\ s.i <= n /\ s.selected \in Nat
  BY WalkTyped DEF ScanNext, PoolOf
<1>2. /\ u \in Candidate /\ u \in Range(Pool[s.on]) /\ u # None
      /\ Usable(q) <=> u \in Chosen(s)
      /\ Usable(q) => u \in s.allowed
  BY <1>1, UsableChosen, SelectionAssumption DEF ScanNext
<1>3. Weight[u] \in Nat
  BY <1>2, WeightFacts
<1>4. /\ healthy' = healthy /\ cursor' \in [Snapshot -> 0 .. CursorSize - 1]
      /\ sel' = [sel EXCEPT ![q] =
            IF ~Usable(q) THEN [s EXCEPT !.i = s.i + 1]
            ELSE IF s.selected < Weight[u]
            THEN [s EXCEPT !.pc = "done", !.result = u]
            ELSE [s EXCEPT !.selected = s.selected - Weight[u], !.i = s.i + 1]]
  <2>1. /\ healthy' = healthy
        /\ cursor' \in [Snapshot -> 0 .. CursorSize - 1]
    BY DEF ScanNext, SelectionInv, SelectionTypeOK
  <2>2. sel' = [sel EXCEPT ![q] =
            IF ~Usable(q) THEN [s EXCEPT !.i = s.i + 1]
            ELSE IF s.selected < Weight[u]
            THEN [s EXCEPT !.pc = "done", !.result = u]
            ELSE [s EXCEPT !.selected = s.selected - Weight[u], !.i = s.i + 1]]
    BY DEF ScanNext, PoolOf
  <2> QED
    BY <2>1, <2>2
<1>5. s.steady => TicketFalls(s)
  BY <1>1 DEF WalkInv
<1> HIDE DEF u
\* What is passed over is taken off the ticket.
<1>6. ASSUME NEW r \in Selection, r.pc = "scan", r.result = None, r.on = s.on,
             r.allowed = s.allowed, r.outage = s.outage, r.steady = s.steady,
             r.i = s.i + 1, r.selected + Share(s, s.i) = s.selected,
             Share(s, s.i) \in Nat, r.selected \in Nat
      PROVE  WalkInv(r)
  <2>1. Chosen(r) = Chosen(s) /\ \A k : Share(r, k) = Share(s, k)
    BY <1>6 DEF Chosen, Share
  <2>2. ASSUME s.steady PROVE TicketFalls(r)
    <3>1. PICK sums : PrefixSums(sums, n, s) /\ s.selected + sums[s.i - 1] < sums[n]
      BY <1>5, <2>2 DEF TicketFalls
    <3>2. PrefixSums(sums, n, r)
      BY <1>6, <2>1, <3>1 DEF PrefixSums
    <3>3. /\ sums[s.i] = sums[s.i - 1] + Share(s, s.i)
          /\ sums[s.i - 1] \in Nat /\ sums[n] \in Nat
      <4>1. s.i \in 1 .. n /\ s.i - 1 \in 0 .. n /\ n \in 0 .. n
        BY <1>1
      <4> QED
        BY <3>1, <4>1 DEF PrefixSums
    <3>4. r.i - 1 = s.i
      BY <1>1, <1>6
    <3>5. r.selected + sums[r.i - 1] < sums[n]
      BY <1>1, <1>6, <3>1, <3>3, <3>4
    <3>6. ~s.outage
      BY <1>5, <2>2 DEF TicketFalls
    <3> QED
      BY <1>6, <3>2, <3>5, <3>6 DEF TicketFalls
  <2> QED
    BY <1>1, <1>6, <2>2 DEF WalkInv
<1>7. CASE ~Usable(q)
  <2> DEFINE r == [s EXCEPT !.i = s.i + 1]
  <2>1. sel' = [sel EXCEPT ![q] = r]
    BY <1>4, <1>7
  <2>2. /\ r \in Selection /\ r.pc = "scan" /\ r.result = None /\ r.on = s.on
        /\ r.allowed = s.allowed /\ r.outage = s.outage /\ r.steady = s.steady
        /\ r.i = s.i + 1 /\ r.selected = s.selected
    BY <1>1 DEF Selection
  <2>3. Share(s, s.i) = 0
    BY <1>2, <1>7 DEF Share, u
  <2> HIDE DEF r
  <2>4. WalkInv(r)
    BY <1>1, <1>6, <2>2, <2>3
  <2> QED
    BY <1>4, <2>1, <2>2, <2>4, SelectionUpdated
<1>8. CASE Usable(q) /\ s.selected < Weight[u]
  <2> DEFINE r == [s EXCEPT !.pc = "done", !.result = u]
  <2>1. sel' = [sel EXCEPT ![q] = r]
    BY <1>4, <1>8
  <2>2. /\ r \in Selection /\ r.pc = "done" /\ r.result = u /\ r.on = s.on
        /\ r.allowed = s.allowed /\ r.outage = s.outage /\ r.steady = s.steady
        /\ r.i = s.i
    BY <1>1, <1>2 DEF Selection
  <2> HIDE DEF r
  <2>3. r.steady => ~r.outage
    BY <1>5, <2>2 DEF TicketFalls
  <2>4. WalkInv(r)
    BY <1>1, <1>2, <1>8, <2>2, <2>3 DEF WalkInv
  <2> QED
    BY <1>4, <2>1, <2>2, <2>4, SelectionUpdated
<1>9. CASE Usable(q) /\ ~(s.selected < Weight[u])
  <2> DEFINE rest == s.selected - Weight[u]
             r == [s EXCEPT !.selected = rest, !.i = s.i + 1]
  <2>1. sel' = [sel EXCEPT ![q] = r]
    BY <1>4, <1>9
  <2>2. /\ rest \in Nat /\ rest + Weight[u] = s.selected
        /\ s.i + 1 \in Nat \ {0}
    BY <1>1, <1>3, <1>9
  <2> HIDE DEF rest
  <2>3. /\ r \in Selection /\ r.pc = "scan" /\ r.result = None /\ r.on = s.on
        /\ r.allowed = s.allowed /\ r.outage = s.outage /\ r.steady = s.steady
        /\ r.i = s.i + 1 /\ r.selected = rest
    BY <1>1, <2>2 DEF Selection
  <2>4. Share(s, s.i) = Weight[u]
    BY <1>2, <1>9 DEF Share, u
  <2> HIDE DEF r
  <2>5. WalkInv(r)
    BY <1>3, <1>6, <2>2, <2>3, <2>4
  <2> QED
    BY <1>4, <2>1, <2>3, <2>5, SelectionUpdated
<1> QED
  BY <1>7, <1>8, <1>9

\* A steady walk does not get here.
LEMMA ScanEndKeeps ==
    ASSUME SelectionInv, NEW q \in Request, ScanEnd(q)
    PROVE  SelectionInv'
<1> DEFINE s == sel[q]
           n == Len(Pool[s.on])
           r == [s EXCEPT !.pc = "done"]
<1>1. /\ s \in Selection /\ WalkInv(s) /\ s.pc = "scan" /\ s.on \in Snapshot
      /\ s.result = None /\ n \in Nat
      /\ s.i = n + 1 /\ s.selected \in Nat
  BY WalkTyped DEF ScanEnd, PoolOf
<1>2. /\ healthy' = healthy /\ cursor' \in [Snapshot -> 0 .. CursorSize - 1]
      /\ sel' = [sel EXCEPT ![q] = r]
  BY DEF ScanEnd, SelectionInv, SelectionTypeOK
<1>3. ~s.steady
  <2> SUFFICES ASSUME s.steady PROVE FALSE
    OBVIOUS
  <2>1. TicketFalls(s)
    BY <1>1 DEF WalkInv
  <2>2. PICK sums : PrefixSums(sums, n, s) /\ s.selected + sums[s.i - 1] < sums[n]
    BY <2>1 DEF TicketFalls
  <2>3. s.i - 1 = n /\ sums[n] \in Nat
    BY <1>1, <2>2 DEF PrefixSums
  <2> QED
    BY <1>1, <2>2, <2>3
<1>4. /\ r \in Selection /\ r.pc = "done" /\ r.on = s.on /\ r.i = s.i
      /\ r.result = None /\ r.steady = s.steady
  BY <1>1 DEF Selection
<1> HIDE DEF r
<1>5. WalkInv(r)
  BY <1>1, <1>3, <1>4 DEF WalkInv
<1> QED
  BY <1>2, <1>4, <1>5, SelectionUpdated

LEMMA SelectStepKeeps ==
    ASSUME SelectionInv, NEW q \in Request, SelectStep(q)
    PROVE  SelectionInv'
BY CountNextKeeps, DrawKeeps, ScanNextKeeps, ScanEndKeeps DEF SelectStep

-----------------------------------------------------------------------------
(* Changing flags *)

\* A request that is not walking the pool whose flags change does not notice.
LEMMA WalkIgnores ==
    ASSUME SelectionInv, NEW q \in Request, sel'[q] = sel[q],
           \/ ~Selecting(q)
           \/ healthy'[sel[q].on] = healthy[sel[q].on]
    PROVE  WalkInv(sel[q])'
<1>1. WalkInv(sel[q])
  BY SelectionTyped
<1>2. CASE ~Selecting(q)
  BY <1>1, <1>2 DEF WalkInv, Selecting
<1>3. CASE healthy'[sel[q].on] = healthy[sel[q].on]
  <2>1. Chosen(sel[q])' = Chosen(sel[q])
    BY <1>3 DEF Chosen, Eligible
  <2>2. \A k : Share(sel[q], k)' = Share(sel[q], k)
    BY <2>1 DEF Share
  <2>3. \A sums, n : PrefixSums(sums, n, sel[q])' <=> PrefixSums(sums, n, sel[q])
    BY <2>2 DEF PrefixSums
  <2>4. Counted(sel[q])' <=> Counted(sel[q])
    BY <2>1, <2>3 DEF Counted
  <2>5. TicketFalls(sel[q])' <=> TicketFalls(sel[q])
    BY <2>3 DEF TicketFalls
  <2> QED
    BY <1>1, <2>4, <2>5 DEF WalkInv
<1> QED
  BY <1>2, <1>3

LEMMA SetHealthyKeeps ==
    ASSUME SelectionInv, NEW s \in Snapshot, NEW u \in Range(Pool[s]),
           NEW value \in BOOLEAN, SetHealthy(s, u, value)
    PROVE  SelectionInv'
<1> DEFINE flags == [healthy[s] EXCEPT ![u] = value]
<1>1. /\ DOMAIN healthy = Snapshot
      /\ \A t \in Snapshot : healthy[t] \in [Range(Pool[t]) -> BOOLEAN]
  BY DEF SelectionInv, SelectionTypeOK
<1>2. flags \in [Range(Pool[s]) -> BOOLEAN]
  BY <1>1
<1>3. cursor' \in [Snapshot -> 0 .. CursorSize - 1]
  BY DEF SetHealthy, SelectionInv, SelectionTypeOK
<1>4. healthy' = [healthy EXCEPT ![s] = flags]
  BY DEF SetHealthy
<1> HIDE DEF flags
<1>5. /\ DOMAIN healthy' = Snapshot /\ healthy'[s] = flags
      /\ \A t \in Snapshot \ {s} : healthy'[t] = healthy[t]
  BY <1>1, <1>4
<1>6. \A t \in Snapshot : healthy'[t] \in [Range(Pool[t]) -> BOOLEAN]
  BY <1>1, <1>2, <1>5
<1>7. ASSUME NEW q \in Request
      PROVE  /\ sel'[q] \in Selection /\ WalkInv(sel[q])'
             /\ sel'[q].pc = sel[q].pc /\ sel'[q].on = sel[q].on
             /\ sel'[q].i = sel[q].i
  <2> DEFINE r == sel[q]
             out == r.outage \/ Eligible(s, r.allowed, healthy') = {}
             t == [r EXCEPT !.steady = FALSE, !.outage = out]
  <2>1. r \in Selection /\ WalkInv(r) /\ (r.on # 0 => r.on \in Snapshot)
    BY SelectionTyped
  <2>2. CASE Selecting(q) /\ r.on = s /\ healthy[s][u] # value
    <3>1. sel'[q] = t
      BY <2>2 DEF SetHealthy
    <3>2. out \in BOOLEAN
      BY <2>1 DEF Selection
    <3> HIDE DEF out
    <3>3. /\ t \in Selection /\ t.pc = r.pc /\ t.on = r.on /\ t.i = r.i
          /\ t.allowed = r.allowed /\ t.result = r.result /\ ~t.steady
      BY <2>1, <3>2 DEF Selection
    <3> HIDE DEF t
    <3>4. WalkInv(r) /\ r.pc # "idle"
      BY <2>1, <2>2 DEF Selecting
    <3>5. WalkInv(sel[q])'
      BY <3>1, <3>3, <3>4 DEF WalkInv
    <3> QED
      BY <3>1, <3>3, <3>5
  <2>3. CASE ~(Selecting(q) /\ r.on = s /\ healthy[s][u] # value)
    <3>1. sel'[q] = sel[q]
      BY <2>3 DEF SetHealthy
    <3>2. CASE ~Selecting(q)
      BY <2>1, <3>1, <3>2, WalkIgnores
    <3>3. CASE r.on # s /\ Selecting(q)
      <4>1. r.on \in Snapshot \ {s}
        BY <2>1, <3>3 DEF Selecting, WalkInv
      <4> QED
        BY <1>5, <2>1, <3>1, <4>1, WalkIgnores
    <3>4. CASE r.on = s /\ healthy[s][u] = value
      <4>1. flags = healthy[s]
        BY <1>1, <3>4 DEF flags
      <4> QED
        BY <1>5, <2>1, <3>1, <3>4, <4>1, WalkIgnores
    <3> QED
      BY <2>3, <3>2, <3>3, <3>4
  <2> QED
    BY <2>2, <2>3
<1>8. sel' = [q \in Request |-> sel'[q]]
  BY DEF SetHealthy
<1>9. sel' \in [Request -> Selection]
  BY <1>7, <1>8
<1>10. ASSUME NEW q \in Request, sel'[q].pc # "idle"
       PROVE  sel'[q].on # 0 /\ sel'[q].i <= Len(Pool[sel'[q].on]) + 1
  BY <1>7, <1>10 DEF SelectionInv, SelectionTypeOK, PoolOf
<1>11. SelectionTypeOK'
  BY <1>3, <1>5, <1>6, <1>9, <1>10 DEF SelectionTypeOK, Selection, PoolOf
<1> QED
  BY <1>7, <1>11 DEF SelectionInv

\* A snapshot that nobody holds yet gets its flags.
LEMMA FlagsReplaced ==
    ASSUME SelectionInv, NEW s \in Snapshot,
           NEW flags \in [Range(Pool[s]) -> BOOLEAN],
           healthy' = [healthy EXCEPT ![s] = flags], UNCHANGED <<cursor, sel>>,
           \A q \in Request : sel[q].on # s
    PROVE  SelectionInv'
<1>1. /\ DOMAIN healthy = Snapshot
      /\ \A t \in Snapshot : healthy[t] \in [Range(Pool[t]) -> BOOLEAN]
  BY DEF SelectionInv, SelectionTypeOK
<1>2. /\ DOMAIN healthy' = Snapshot
      /\ \A t \in Snapshot : healthy'[t] \in [Range(Pool[t]) -> BOOLEAN]
      /\ \A t \in Snapshot \ {s} : healthy'[t] = healthy[t]
  BY <1>1
<1>3. SelectionTypeOK'
  BY <1>2 DEF SelectionInv, SelectionTypeOK, PoolOf
<1>4. ASSUME NEW q \in Request PROVE WalkInv(sel[q])'
  <2>1. CASE ~Selecting(q)
    BY <2>1, WalkIgnores
  <2>2. CASE Selecting(q)
    BY <1>2, <2>2, WalkTyped, WalkIgnores DEF Selecting
  <2> QED
    BY <2>1, <2>2
<1> QED
  BY <1>3, <1>4 DEF SelectionInv

LEMMA SteadyExact == SelectionInv => SteadySelectionExact
BY SelectionTyped DEF WalkInv, SteadySelectionExact

LEMMA SetHealthyEffect ==
    ASSUME SelectionInv, NEW s \in Snapshot, NEW u \in Range(Pool[s]),
           NEW value \in BOOLEAN, SetHealthy(s, u, value)
    PROVE  /\ \A t \in Snapshot : \A v \in Range(Pool[t]) :
                 healthy'[t][v] = IF t = s /\ v = u THEN value ELSE healthy[t][v]
           /\ \A q \in Request : /\ sel'[q].pc = sel[q].pc
                                 /\ sel'[q].on = sel[q].on
                                 /\ sel'[q].result = sel[q].result
<1>1. ASSUME NEW q \in Request
      PROVE  /\ sel'[q].pc = sel[q].pc /\ sel'[q].on = sel[q].on
             /\ sel'[q].result = sel[q].result
  BY SelectionTyped DEF SetHealthy, Selection
<1>2. ASSUME NEW t \in Snapshot, NEW v \in Range(Pool[t])
      PROVE  healthy'[t][v] = IF t = s /\ v = u THEN value ELSE healthy[t][v]
  BY DEF SetHealthy, SelectionInv, SelectionTypeOK
<1> QED
  BY <1>1, <1>2

\* A selection step changes one request, and what it returns was healthy.
LEMMA SelectEffect ==
    ASSUME SelectionInv, NEW q \in Request,
           \/ \E allowed \in SUBSET Candidate : BeginSelect(q, allowed)
           \/ SelectStep(q)
    PROVE  /\ SelectionInv' /\ healthy' = healthy
           /\ \A p \in Request : /\ sel'[p].on = sel[p].on
                                 /\ p # q => sel'[p] = sel[p]
           /\ sel'[q].result # sel[q].result =>
                 LET u == sel'[q].result IN
                 /\ u \in Range(Pool[sel[q].on]) /\ sel[q].on \in Snapshot
                 /\ healthy[sel[q].on][u] /\ u \in sel[q].allowed
<1>1. sel \in [Request -> Selection] /\ SelectionInv'
  BY BeginSelectKeeps, SelectStepKeeps
     DEF SelectionInv, SelectionTypeOK, Selection
<1>2. CASE \E allowed \in SUBSET Candidate : BeginSelect(q, allowed)
  <2>1. PICK allowed \in SUBSET Candidate : BeginSelect(q, allowed)
    BY <1>2
  <2> DEFINE out == Eligible(sel[q].on, allowed, healthy) = {}
  <2>2. /\ healthy' = healthy
        /\ sel' = [sel EXCEPT ![q].pc = "count", ![q].allowed = allowed,
                              ![q].outage = out]
    BY <2>1 DEF BeginSelect
  <2> HIDE DEF out
  <2> QED
    BY <1>1, <2>2 DEF Selection
<1>3. CASE CountNext(q)
  BY <1>1, <1>3 DEF CountNext, Selection
<1>4. CASE Draw(q)
  <2> DEFINE ticket == cursor[sel[q].on] % sel[q].total
  <2>1. /\ healthy' = healthy
        /\ \/ sel' = [sel EXCEPT ![q].pc = "done"]
           \/ sel' = [sel EXCEPT ![q].pc = "scan", ![q].i = 1, ![q].selected = ticket]
    BY <1>4 DEF Draw
  <2> HIDE DEF ticket
  <2> QED
    BY <1>1, <2>1 DEF Selection
<1>5. CASE ScanEnd(q)
  BY <1>1, <1>5 DEF ScanEnd, Selection
<1>6. CASE ScanNext(q)
  <2> DEFINE s == sel[q]
             u == Pool[s.on][s.i]
  <2>1. s \in Selection /\ s.on \in Snapshot
    BY <1>6, WalkTyped DEF ScanNext
  <2>2. /\ u \in Range(Pool[s.on])
        /\ Usable(q) <=> u \in s.allowed /\ healthy[s.on][u]
    BY <1>6, UsableChosen DEF ScanNext
  <2>3. healthy' = healthy /\ sel' = [sel EXCEPT ![q] =
            IF ~Usable(q) THEN [s EXCEPT !.i = s.i + 1]
            ELSE IF s.selected < Weight[u]
            THEN [s EXCEPT !.pc = "done", !.result = u]
            ELSE [s EXCEPT !.selected = s.selected - Weight[u], !.i = s.i + 1]]
    BY <1>6 DEF ScanNext, PoolOf
  <2> HIDE DEF u
  <2>4. sel'[q].on = s.on /\ (sel'[q].result # s.result =>
                                 Usable(q) /\ sel'[q].result = u)
    BY <1>1, <2>1, <2>3 DEF Selection
  <2>5. \A p \in Request \ {q} : sel'[p] = sel[p]
    BY <1>1, <2>3
  <2> QED
    BY <1>1, <2>1, <2>2, <2>3, <2>4, <2>5
<1> QED
  BY <1>2, <1>3, <1>4, <1>5, <1>6 DEF SelectStep

-----------------------------------------------------------------------------
(* The prober: what holds besides the types *)

\* Probes under way are of upstreams of the current snapshot, and the
\* goroutine of Run waits for them.
ProbesLocated ==
    \A u \in Candidate :
        probing[u] # "none" => run = "probe" /\ u \in Members(current)

\* No request holds a snapshot that is still to be loaded.
SnapshotsTaken == \A q \in Request : sel[q].on <= current

\* What is known to be down is down, no probe says otherwise, and the flag of
\* the snapshot that a selection would ask says so too.
KnownDownNow ==
    \A u \in knownDown : /\ u \in Members(current)
                         /\ ~up[u] /\ probing[u] # "healthy"
                         /\ ~healthy[current][u]

KnownDownHeld ==
    \A q \in Request : \A u \in avoid[q] :
        /\ ~up[u] /\ probing[u] # "healthy"
        /\ sel[q].on # 0 /\ u \in Members(sel[q].on) => ~healthy[sel[q].on][u]
        /\ sel[q].result # u

ProberTyped ==
    /\ deployment \in Deployment
    /\ up \in [Candidate -> BOOLEAN]
    /\ changes \in 0 .. deployment.maxChanges
    /\ current \in 1 .. deployment.snapshots
    /\ run \in {"select", "probe", "ended"}
    /\ probing \in [Candidate -> {"none", "waiting", "sent", "healthy", "unhealthy"}]
    /\ cancelled \in BOOLEAN
    /\ knownDown \subseteq Candidate
    /\ avoid \in [Request -> SUBSET Candidate]

SlotsRespected == IsFiniteSet(Busy) /\ Cardinality(Busy) <= Slots

ProbesInv ==
    /\ SelectionInv
    /\ ProberTyped
    /\ SlotsRespected
    /\ ProbesLocated
    /\ SnapshotsTaken
    /\ KnownDownNow
    /\ KnownDownHeld

LEMMA DeploymentFacts ==
    ASSUME deployment \in Deployment
    PROVE  /\ deployment.snapshots \in Nat \ {0}
           /\ 1 .. deployment.snapshots \subseteq Snapshot
           /\ deployment.maxChanges \in Nat
           /\ deployment.allowed \subseteq SUBSET Candidate
BY ProbesAssumption

LEMMA CurrentFacts ==
    ASSUME ProberTyped
    PROVE  /\ current \in Snapshot /\ current \in Nat \ {0}
           /\ Members(current) \subseteq Candidate
<1>1. current \in Snapshot
  BY DeploymentFacts DEF ProberTyped
<1>2. current \in Nat \ {0}
  BY <1>1, SelectionAssumption
<1> QED
  BY <1>1, <1>2, PoolFacts DEF Members

\* Slots do not change hands when no probe begins or ends.
LEMMA SlotsUntouched ==
    ASSUME SlotsRespected, Busy' = Busy PROVE SlotsRespected'
BY DEF SlotsRespected

LEMMA NobodyBusy ==
    ASSUME Busy' = {} PROVE SlotsRespected'
<1>1. IsFiniteSet({}) /\ Cardinality({}) = 0
  BY FS_EmptySet
<1> QED
  BY <1>1, ProbesAssumption DEF SlotsRespected

LEMMA ProbesBegin == ProbesInit => ProbesInv
<1> SUFFICES ASSUME ProbesInit PROVE ProbesInv
  OBVIOUS
<1>1. SelectionInv
  BY SelectionBegins DEF ProbesInit
<1>2. 1 \in 1 .. deployment.snapshots /\ 0 \in 0 .. deployment.maxChanges
  BY DeploymentFacts DEF ProbesInit
<1>3. ProberTyped
  BY <1>2 DEF ProbesInit, ProberTyped
<1>4. SlotsRespected
  <2>1. Busy = {}
    BY DEF ProbesInit, Busy
  <2> QED
    BY <2>1, FS_EmptySet, ProbesAssumption DEF SlotsRespected
<1>5. ProbesLocated /\ KnownDownNow /\ KnownDownHeld
  BY DEF ProbesInit, ProbesLocated, KnownDownNow, KnownDownHeld
<1>6. SnapshotsTaken
  BY DEF ProbesInit, SelectionInit, NotStarted, SnapshotsTaken
<1> QED
  BY <1>1, <1>3, <1>4, <1>5, <1>6 DEF ProbesInv

\* Run's loop and the probes change no selection but by SetHealthy.
LEMMA SelectionUntouched ==
    ASSUME SelectionInv, UNCHANGED selectionVars PROVE SelectionInv'
<1>1. SelectionTypeOK'
  BY DEF SelectionInv, SelectionTypeOK, selectionVars, PoolOf
<1>2. ASSUME NEW q \in Request PROVE WalkInv(sel[q])'
  BY WalkIgnores DEF selectionVars
<1> QED
  BY <1>1, <1>2 DEF SelectionInv

LEMMA ReloadKeeps ==
    ASSUME ProbesInv, Reload
    PROVE  ProbesInv'
<1> DEFINE s == current + 1
           flags == [u \in Members(s) |-> Carried(s, u)]
<1>1. /\ s \in Snapshot /\ current \in Snapshot /\ current \in Nat
      /\ s \in 1 .. deployment.snapshots
  <2>1. current \in Snapshot /\ current \in Nat \ {0}
    BY CurrentFacts DEF ProbesInv
  <2>2. /\ s <= deployment.snapshots /\ deployment.snapshots \in Nat
        /\ 1 .. deployment.snapshots \subseteq Snapshot
    BY DeploymentFacts DEF ProbesInv, ProberTyped, Reload
  <2>3. s \in 1 .. deployment.snapshots
    BY <2>1, <2>2
  <2> QED
    BY <2>1, <2>2, <2>3
<1>2. /\ current' = s /\ healthy' = [healthy EXCEPT ![s] = flags]
      /\ run = "select" /\ knownDown' = knownDown \cap Members(s)
      /\ UNCHANGED <<cursor, sel, deployment, up, changes, run, probing, cancelled,
                     avoid>>
  BY DEF Reload
<1>3. \A u \in Candidate : probing[u] = "none"
  BY <1>2 DEF ProbesInv, ProbesLocated
<1>4. healthy[current] \in [Members(current) -> BOOLEAN] /\ DOMAIN healthy = Snapshot
  BY <1>1 DEF ProbesInv, SelectionInv, SelectionTypeOK, Members
<1>5. flags \in [Range(Pool[s]) -> BOOLEAN]
  BY <1>4 DEF Carried, Members
<1>6. \A u \in Members(s) \cap Members(current) : flags[u] = healthy[current][u]
  BY DEF Carried
<1> HIDE DEF flags
<1>7. \A q \in Request : sel[q].on # s /\ sel[q].on <= s
  <2> TAKE q \in Request
  <2>1. sel[q] \in Selection /\ sel[q].on <= current
    BY SelectionTyped DEF ProbesInv, SnapshotsTaken
  <2>2. sel[q].on \in Nat
    <3>1. CASE sel[q].on = 0
      BY <3>1
    <3>2. CASE sel[q].on # 0
      BY <3>2, SelectionTyped, SelectionAssumption DEF ProbesInv
    <3> QED
      BY <3>1, <3>2
  <2> QED
    BY <1>1, <2>1, <2>2
<1>8. SelectionInv'
  BY <1>1, <1>2, <1>5, <1>7, FlagsReplaced DEF ProbesInv
<1>9. /\ healthy'[s] = flags
      /\ \A t \in Snapshot \ {s} : healthy'[t] = healthy[t]
  BY <1>1, <1>2, <1>4
<1> HIDE DEF s
<1>10. ProberTyped' /\ ProbesLocated' /\ SnapshotsTaken'
  BY <1>1, <1>2, <1>3, <1>7
     DEF ProbesInv, ProberTyped, ProbesLocated, SnapshotsTaken
<1>11. SlotsRespected'
  BY <1>2, SlotsUntouched DEF ProbesInv, Busy
<1>12. KnownDownNow'
  BY <1>2, <1>6, <1>9 DEF ProbesInv, KnownDownNow
<1>13. KnownDownHeld'
  <2>1. \A q \in Request : sel[q].on # 0 => sel[q].on \in Snapshot \ {s}
    BY <1>7, SelectionTyped DEF ProbesInv
  <2> QED
    BY <1>2, <1>9, <2>1 DEF ProbesInv, KnownDownHeld
<1> QED
  BY <1>8, <1>10, <1>11, <1>12, <1>13 DEF ProbesInv

LEMMA RunKeeps ==
    ASSUME ProbesInv, BeginProbe \/ EndProbe \/ StopRunning
    PROVE  ProbesInv'
<1>1. /\ UNCHANGED <<selectionVars, deployment, up, changes, current, cancelled,
                     knownDown, avoid>>
      /\ \/ /\ run = "select" /\ run' = "probe"
            /\ probing' = [u \in Candidate |->
                  IF u \in Members(current) THEN "waiting" ELSE "none"]
         \/ /\ run = "probe" /\ run' = "select" /\ probing' = probing
            /\ \A u \in Candidate : probing[u] = "none"
         \/ run = "select" /\ run' = "ended" /\ probing' = probing
  BY DEF BeginProbe, EndProbe, StopRunning
<1>2. SelectionInv'
  BY <1>1, SelectionUntouched DEF ProbesInv
<1>3. ProberTyped'
  BY <1>1 DEF ProbesInv, ProberTyped
<1>4. SlotsRespected'
  <2>1. CASE probing' = probing
    <3>1. Busy' = Busy
      BY <2>1 DEF Busy
    <3> QED
      BY <3>1, SlotsUntouched DEF ProbesInv
  <2>2. CASE probing' # probing
    <3>1. Busy' = {}
      BY <1>1, <2>2 DEF Busy
    <3> QED
      BY <3>1, NobodyBusy
  <2> QED
    BY <2>1, <2>2
<1>5. ProbesLocated' /\ SnapshotsTaken'
  BY <1>1 DEF ProbesInv, ProbesLocated, SnapshotsTaken, selectionVars, Members
<1>6. \A u \in Candidate : probing[u] # "healthy" => probing'[u] # "healthy"
  BY <1>1
<1>7. knownDown \subseteq Candidate /\ \A q \in Request : avoid[q] \subseteq Candidate
  BY DEF ProbesInv, ProberTyped
<1>8. KnownDownNow' /\ KnownDownHeld'
  BY <1>1, <1>6, <1>7 DEF ProbesInv, KnownDownNow, KnownDownHeld, selectionVars
<1> QED
  BY <1>2, <1>3, <1>4, <1>5, <1>8 DEF ProbesInv

LEMMA ProbeKeeps ==
    ASSUME ProbesInv, NEW u \in Candidate, TakeSlot(u) \/ GiveUp(u) \/ Observe(u)
    PROVE  ProbesInv'
<1>1. /\ UNCHANGED <<selectionVars, deployment, up, changes, current, run, cancelled,
                     knownDown, avoid>>
      /\ probing \in [Candidate -> {"none", "waiting", "sent", "healthy", "unhealthy"}]
  BY DEF TakeSlot, GiveUp, Observe, ProbesInv, ProberTyped
<1>2. PICK state \in {"none", "sent", "healthy", "unhealthy"} :
         /\ probing' = [probing EXCEPT ![u] = state]
         /\ probing[u] # "none"
         /\ state = "healthy" => up[u]
  BY DEF TakeSlot, GiveUp, Observe, Becomes
<1>3. SelectionInv'
  BY <1>1, SelectionUntouched DEF ProbesInv
<1>4. ProberTyped'
  BY <1>1, <1>2 DEF ProbesInv, ProberTyped
<1>5. SlotsRespected'
  <2>1. CASE TakeSlot(u)
    <3>1. /\ probing[u] = "waiting" /\ Cardinality(Busy) < Slots
          /\ probing' = [probing EXCEPT ![u] = "sent"]
      BY <2>1 DEF TakeSlot, Becomes
    <3>2. Busy' = Busy \cup {u} /\ u \notin Busy
      BY <1>1, <3>1 DEF Busy
    <3>3. IsFiniteSet(Busy) /\ Cardinality(Busy) \in Nat
      BY FS_CardinalityType DEF ProbesInv, SlotsRespected
    <3>4. IsFiniteSet(Busy') /\ Cardinality(Busy') = Cardinality(Busy) + 1
      BY <3>2, <3>3, FS_AddElement
    <3> QED
      BY <3>1, <3>3, <3>4, ProbesAssumption DEF SlotsRespected
  <2>2. CASE GiveUp(u) \/ Observe(u)
    <3>1. Busy' = Busy
      BY <1>1, <2>2 DEF GiveUp, Observe, Becomes, Busy
    <3> QED
      BY <3>1, SlotsUntouched DEF ProbesInv
  <2> QED
    BY <2>1, <2>2
<1>6. ProbesLocated' /\ SnapshotsTaken'
  BY <1>1, <1>2 DEF ProbesInv, ProbesLocated, SnapshotsTaken, selectionVars, Members
<1>7. \A v \in Candidate : ~up[v] /\ probing[v] # "healthy" => probing'[v] # "healthy"
  BY <1>1, <1>2
<1>8. knownDown \subseteq Candidate /\ \A q \in Request : avoid[q] \subseteq Candidate
  BY DEF ProbesInv, ProberTyped
<1>9. KnownDownNow' /\ KnownDownHeld'
  BY <1>1, <1>7, <1>8 DEF ProbesInv, KnownDownNow, KnownDownHeld, selectionVars
<1> QED
  BY <1>3, <1>4, <1>5, <1>6, <1>9 DEF ProbesInv

LEMMA StoreKeeps ==
    ASSUME ProbesInv, NEW u \in Candidate, Store(u)
    PROVE  ProbesInv'
<1> DEFINE value == probing[u] = "healthy"
<1>1. /\ probing \in [Candidate -> {"none", "waiting", "sent", "healthy", "unhealthy"}]
      /\ probing[u] \in {"healthy", "unhealthy"}
      /\ probing' = [probing EXCEPT ![u] = "none"]
      /\ knownDown' = IF probing[u] = "unhealthy" /\ ~up[u]
                      THEN knownDown \cup {u} ELSE knownDown
      /\ UNCHANGED <<deployment, up, changes, current, run, cancelled, avoid>>
      /\ SetHealthy(current, u, value)
  BY DEF Store, Becomes, ProbesInv, ProberTyped
<1>2. u \in Range(Pool[current]) /\ current \in Snapshot /\ SelectionInv
  BY <1>1, CurrentFacts DEF ProbesInv, ProbesLocated, Members
<1>3. value \in BOOLEAN
  OBVIOUS
<1>4. SelectionInv'
  BY <1>1, <1>2, <1>3, SetHealthyKeeps
<1>5. /\ \A t \in Snapshot : \A v \in Range(Pool[t]) :
            healthy'[t][v] = IF t = current /\ v = u THEN value ELSE healthy[t][v]
      /\ \A q \in Request : /\ sel'[q].pc = sel[q].pc
                            /\ sel'[q].on = sel[q].on
                            /\ sel'[q].result = sel[q].result
  <2> HIDE DEF value
  <2> QED
    BY <1>1, <1>2, <1>3, SetHealthyEffect
<1>6. ProberTyped'
  BY <1>1 DEF ProbesInv, ProberTyped
<1>7. SlotsRespected'
  <2>1. Busy' = Busy \ {u}
    BY <1>1 DEF Busy
  <2>2. IsFiniteSet(Busy) /\ Cardinality(Busy) <= Slots /\ Cardinality(Busy) \in Nat
    BY FS_CardinalityType DEF ProbesInv, SlotsRespected
  <2>3. /\ IsFiniteSet(Busy') /\ Cardinality(Busy') \in Nat
        /\ Cardinality(Busy') <= Cardinality(Busy)
    BY <2>1, <2>2, FS_Subset, FS_CardinalityType
  <2> QED
    BY <2>2, <2>3, ProbesAssumption DEF SlotsRespected
<1>8. ProbesLocated' /\ SnapshotsTaken'
  BY <1>1, <1>5 DEF ProbesInv, ProbesLocated, SnapshotsTaken, Members
<1>9. knownDown \subseteq Candidate /\ \A q \in Request : avoid[q] \subseteq Candidate
  BY DEF ProbesInv, ProberTyped
<1>10. KnownDownNow'
  <2>1. ASSUME NEW v \in knownDown'
        PROVE  /\ v \in Members(current) /\ ~up[v] /\ probing'[v] # "healthy"
               /\ ~healthy'[current][v]
    <3>1. CASE v \in knownDown
      BY <1>1, <1>2, <1>5, <1>9, <3>1 DEF ProbesInv, KnownDownNow, Members
    <3>2. CASE v \notin knownDown
      BY <1>1, <1>2, <1>5, <2>1, <3>2 DEF Members
    <3> QED
      BY <3>1, <3>2
  <2> QED
    BY <1>1, <2>1 DEF KnownDownNow, Members
<1>11. KnownDownHeld'
  <2>1. ASSUME NEW q \in Request, NEW v \in avoid[q]
        PROVE  /\ ~up[v] /\ probing'[v] # "healthy" /\ sel[q].result # v
               /\ sel[q].on # 0 /\ v \in Members(sel[q].on) =>
                     ~healthy'[sel[q].on][v]
    <3>1. /\ ~up[v] /\ probing[v] # "healthy" /\ sel[q].result # v
          /\ sel[q].on # 0 /\ v \in Members(sel[q].on) => ~healthy[sel[q].on][v]
      BY DEF ProbesInv, KnownDownHeld
    <3>2. sel[q].on # 0 => sel[q].on \in Snapshot
      BY <1>2, SelectionTyped
    <3> QED
      BY <1>1, <1>5, <1>9, <3>1, <3>2 DEF Members
  <2> QED
    BY <1>1, <1>5, <2>1 DEF KnownDownHeld, Members
<1> QED
  BY <1>4, <1>6, <1>7, <1>8, <1>10, <1>11 DEF ProbesInv

LEMMA EnvironmentKeeps ==
    ASSUME ProbesInv, (\E u \in Candidate : ChangeHealth(u)) \/ Cancel
    PROVE  ProbesInv'
<1>1. /\ UNCHANGED <<selectionVars, deployment, current, run, probing>>
      /\ ProberTyped
  BY DEF ChangeHealth, Cancel, ProbesInv
<1>2. SelectionInv'
  BY <1>1, SelectionUntouched DEF ProbesInv
<1>3. SlotsRespected'
  <2>1. Busy' = Busy
    BY <1>1 DEF Busy
  <2> QED
    BY <2>1, SlotsUntouched DEF ProbesInv
<1>4. ProbesLocated' /\ SnapshotsTaken'
  BY <1>1 DEF ProbesInv, ProbesLocated, SnapshotsTaken, selectionVars, Members
<1>5. CASE Cancel
  <2>1. UNCHANGED <<up, changes, knownDown, avoid>> /\ cancelled' = TRUE
    BY <1>5 DEF Cancel
  <2>2. ProberTyped'
    BY <1>1, <2>1 DEF ProberTyped
  <2>3. KnownDownNow' /\ KnownDownHeld'
    BY <1>1, <2>1 DEF ProbesInv, KnownDownNow, KnownDownHeld, selectionVars, Members
  <2> QED
    BY <1>2, <1>3, <1>4, <2>2, <2>3 DEF ProbesInv
<1>6. ASSUME NEW u \in Candidate, ChangeHealth(u) PROVE ProbesInv'
  <2>1. /\ changes < deployment.maxChanges /\ changes' = changes + 1
        /\ up' = [up EXCEPT ![u] = ~up[u]]
        /\ knownDown' = knownDown \ {u} /\ cancelled' = cancelled
        /\ avoid' = [q \in Request |-> avoid[q] \ {u}]
    BY <1>1, <1>6 DEF ChangeHealth
  <2>2. ProberTyped'
    <3>1. changes' \in 0 .. deployment.maxChanges
      BY <1>1, <2>1, DeploymentFacts DEF ProberTyped
    <3>2. up' \in [Candidate -> BOOLEAN]
      BY <1>1, <2>1 DEF ProberTyped
    <3> QED
      BY <1>1, <2>1, <3>1, <3>2 DEF ProberTyped
  <2>3. \A v \in Candidate \ {u} : up'[v] = up[v]
    BY <1>1, <2>1 DEF ProberTyped
  <2>4. knownDown \subseteq Candidate /\ \A q \in Request : avoid[q] \subseteq Candidate
    BY <1>1 DEF ProberTyped
  <2>5. KnownDownNow'
    BY <1>1, <2>1, <2>3, <2>4 DEF ProbesInv, KnownDownNow, selectionVars, Members
  <2>6. KnownDownHeld'
    BY <1>1, <2>1, <2>3, <2>4 DEF ProbesInv, KnownDownHeld, selectionVars, Members
  <2> QED
    BY <1>2, <1>3, <1>4, <2>2, <2>5, <2>6 DEF ProbesInv
<1> QED
  BY <1>5, <1>6

LEMMA ArriveAtCurrentKeeps ==
    ASSUME ProbesInv, NEW q \in Request, ArriveAtCurrent(q)
    PROVE  ProbesInv'
<1>1. /\ TakeSnapshot(q, current) /\ avoid' = [avoid EXCEPT ![q] = knownDown]
      /\ UNCHANGED <<deployment, up, changes, current, run, probing, cancelled,
                     knownDown>>
      /\ ProberTyped /\ current \in Snapshot /\ current \in Nat
  BY CurrentFacts DEF ArriveAtCurrent, ProbesInv
<1>2. SelectionInv'
  BY <1>1, TakeSnapshotKeeps DEF ProbesInv
<1>3. /\ healthy' = healthy
      /\ sel' = [sel EXCEPT ![q].on = current]
      /\ sel[q] = [NotStarted EXCEPT !.on = sel[q].on]
  BY <1>1, SelectionTyped DEF TakeSnapshot, ProbesInv, WalkInv
<1>4. /\ sel'[q].on = current /\ sel'[q].result = None
      /\ \A p \in Request \ {q} : sel'[p] = sel[p]
  BY <1>3 DEF NotStarted, ProbesInv, SelectionInv, SelectionTypeOK
<1>5. ProberTyped'
  BY <1>1 DEF ProberTyped
<1>6. SlotsRespected'
  <2>1. Busy' = Busy
    BY <1>1 DEF Busy
  <2> QED
    BY <2>1, SlotsUntouched DEF ProbesInv
<1>7. ProbesLocated'
  BY <1>1 DEF ProbesInv, ProbesLocated, Members
<1>8. SnapshotsTaken'
  <2> SUFFICES ASSUME NEW p \in Request PROVE sel'[p].on <= current
    BY <1>1 DEF SnapshotsTaken
  <2>1. CASE p = q
    BY <1>1, <1>4, <2>1
  <2>2. CASE p # q
    BY <1>4, <2>2 DEF ProbesInv, SnapshotsTaken
  <2> QED
    BY <2>1, <2>2
<1>9. KnownDownNow'
  BY <1>1, <1>3 DEF ProbesInv, KnownDownNow, Members
<1>10. KnownDownHeld'
  <2> SUFFICES ASSUME NEW p \in Request, NEW u \in avoid'[p]
               PROVE  /\ ~up[u] /\ probing[u] # "healthy" /\ sel'[p].result # u
                      /\ sel'[p].on # 0 /\ u \in Members(sel'[p].on) =>
                            ~healthy[sel'[p].on][u]
    BY <1>1, <1>3 DEF KnownDownHeld, Members
  <2>1. CASE p = q
    <3>1. u \in knownDown /\ u \in Candidate /\ u # None
      BY <1>1, <2>1, SelectionAssumption DEF ProberTyped
    <3> QED
      BY <1>4, <2>1, <3>1 DEF ProbesInv, KnownDownNow
  <2>2. CASE p # q
    <3>1. u \in avoid[p] /\ sel'[p] = sel[p]
      BY <1>1, <1>4, <2>2 DEF ProberTyped
    <3> QED
      BY <3>1 DEF ProbesInv, KnownDownHeld
  <2> QED
    BY <2>1, <2>2
<1> QED
  BY <1>2, <1>5, <1>6, <1>7, <1>8, <1>9, <1>10 DEF ProbesInv

LEMMA SelectUpstreamKeeps ==
    ASSUME ProbesInv, NEW q \in Request, SelectUpstream(q)
    PROVE  ProbesInv'
<1>1. /\ \/ \E allowed \in SUBSET Candidate : BeginSelect(q, allowed)
         \/ SelectStep(q)
      /\ UNCHANGED <<deployment, up, changes, current, run, probing, cancelled,
                     knownDown, avoid>>
      /\ ProberTyped
  <2>1. deployment.allowed \subseteq SUBSET Candidate
    BY DeploymentFacts DEF ProbesInv, ProberTyped
  <2> QED
    BY <2>1 DEF SelectUpstream, ProbesInv, probeVars
<1>2. /\ SelectionInv' /\ healthy' = healthy
      /\ \A p \in Request : sel'[p].on = sel[p].on /\ (p # q => sel'[p] = sel[p])
      /\ sel'[q].result # sel[q].result =>
            /\ sel'[q].result \in Range(Pool[sel[q].on]) /\ sel[q].on \in Snapshot
            /\ healthy[sel[q].on][sel'[q].result]
  BY <1>1, SelectEffect DEF ProbesInv
<1>3. ProberTyped'
  BY <1>1 DEF ProberTyped
<1>4. SlotsRespected'
  <2>1. Busy' = Busy
    BY <1>1 DEF Busy
  <2> QED
    BY <2>1, SlotsUntouched DEF ProbesInv
<1>5. ProbesLocated' /\ SnapshotsTaken'
  BY <1>1, <1>2 DEF ProbesInv, ProbesLocated, SnapshotsTaken, Members
<1>6. KnownDownNow'
  BY <1>1, <1>2 DEF ProbesInv, KnownDownNow, Members
<1>7. KnownDownHeld'
  <2> SUFFICES ASSUME NEW p \in Request, NEW u \in avoid[p]
               PROVE  /\ ~up[u] /\ probing[u] # "healthy" /\ sel'[p].result # u
                      /\ sel'[p].on # 0 /\ u \in Members(sel'[p].on) =>
                            ~healthy[sel'[p].on][u]
    BY <1>1, <1>2 DEF KnownDownHeld, Members
  <2>1. /\ ~up[u] /\ probing[u] # "healthy" /\ sel[p].result # u
        /\ sel[p].on # 0 /\ u \in Members(sel[p].on) => ~healthy[sel[p].on][u]
    BY DEF ProbesInv, KnownDownHeld
  <2>2. sel'[p].result # u
    <3>1. CASE sel'[p].result = sel[p].result
      BY <2>1, <3>1
    <3>2. CASE sel'[p].result # sel[p].result
      <4>1. p = q
        BY <1>2, <3>2
      <4>2. sel[p].on # 0
        BY <1>2, <3>2, <4>1, PoolFacts
      <4> QED
        BY <1>2, <2>1, <3>2, <4>1, <4>2 DEF Members
    <3> QED
      BY <3>1, <3>2
  <2> QED
    BY <1>2, <2>1, <2>2
<1> QED
  BY <1>2, <1>3, <1>4, <1>5, <1>6, <1>7 DEF ProbesInv

LEMMA ProbesStep == ProbesInv /\ [ProbesNext]_gatewayVars => ProbesInv'
<1> SUFFICES ASSUME ProbesInv, [ProbesNext]_gatewayVars PROVE ProbesInv'
  OBVIOUS
<1>1. CASE UNCHANGED gatewayVars
  <2>1. SelectionInv'
    BY <1>1, SelectionUntouched DEF ProbesInv, gatewayVars
  <2>2. SlotsRespected'
    <3>1. Busy' = Busy
      BY <1>1 DEF Busy, gatewayVars, probeVars
    <3> QED
      BY <3>1, SlotsUntouched DEF ProbesInv
  <2>3. ProberTyped' /\ ProbesLocated' /\ SnapshotsTaken'
    BY <1>1 DEF gatewayVars, probeVars, selectionVars, ProbesInv, ProberTyped,
                ProbesLocated, SnapshotsTaken, Members
  <2>4. KnownDownNow' /\ KnownDownHeld'
    BY <1>1 DEF gatewayVars, probeVars, selectionVars, ProbesInv, KnownDownNow,
                KnownDownHeld, Members
  <2> QED
    BY <2>1, <2>2, <2>3, <2>4 DEF ProbesInv
<1>2. CASE ProbesNext
  BY <1>2, ReloadKeeps, RunKeeps, ProbeKeeps, StoreKeeps, EnvironmentKeeps,
     ArriveAtCurrentKeeps, SelectUpstreamKeeps DEF ProbesNext
<1> QED
  BY <1>1, <1>2

LEMMA ProbesInvariant == ProbesSpec => []ProbesInv
BY ProbesBegin, ProbesStep, PTL DEF ProbesSpec

(***************************************************************************)
(* Whatever is probed, reloaded, selected and stopped, every variable of   *)
(* the gateway has the values the code can give it, and no more than Slots *)
(* probes are under way.                                                   *)
(***************************************************************************)
THEOREM ProbesTypeCorrect == ProbesSpec => []ProbesTypeOK
<1>1. ProbesInv => ProbesTypeOK
  BY DEF ProbesInv, SelectionInv, ProberTyped, SlotsRespected, ProbesTypeOK
<1> QED
  BY <1>1, ProbesInvariant, PTL

(***************************************************************************)
(* SelectUpstreamWhere, under any prober and any number of requests: when  *)
(* no flag changes during its two walks it finds an upstream exactly when  *)
(* an allowed one is healthy.                                              *)
(***************************************************************************)
THEOREM SteadySelectionCorrect == ProbesSpec => []SteadySelectionExact
<1>1. ProbesInv => SteadySelectionExact
  BY SteadyExact DEF ProbesInv
<1> QED
  BY <1>1, ProbesInvariant, PTL

(***************************************************************************)
(* An upstream found down serves no request that arrives later, through    *)
(* any sequence of reloads (copyHealth).                                   *)
(***************************************************************************)
THEOREM KnownDownCorrect == ProbesSpec => []KnownDownAvoided
<1>1. ProbesInv => KnownDownAvoided
  BY DEF ProbesInv, KnownDownHeld, KnownDownAvoided
<1> QED
  BY <1>1, ProbesInvariant, PTL

-----------------------------------------------------------------------------
(* Sums of weights *)

\* A set of natural numbers that is not empty has a smallest member.
LEMMA SmallestExists ==
    ASSUME NEW S \in SUBSET Nat, S # {}
    PROVE  \E m \in S : \A n \in S : m <= n
<1> DEFINE Less == OpToRel(<, Nat)
<1>1. IsWellFoundedOn(Less, Nat)
  BY NatLessThanWellFounded
<1>2. \A m, n \in Nat : n < m => <<n, m>> \in Less
  BY DEF OpToRel
<1> HIDE DEF Less
<1>3. PICK m \in S : \A n \in S : <<n, m>> \notin Less
  BY <1>1, WFMin
<1>4. ASSUME NEW n \in S PROVE m <= n
  <2>1. m \in Nat /\ n \in Nat
    OBVIOUS
  <2>2. ~(n < m)
    BY <2>1, <1>2, <1>3
  <2> QED
    BY <2>1, <2>2
<1> QED
  BY <1>4

\* What the k-th upstream of a pool adds to the weight of us.
Portion(us, pool, k) == IF pool[k] \in us THEN Weight[pool[k]] ELSE 0

\* sums[k] is the weight of us among the first k upstreams of a pool.
SumsUpTo(n, sums, us, pool) ==
    /\ sums \in [0 .. n -> Nat]
    /\ sums[0] = 0
    /\ \A k \in 1 .. n : sums[k] = sums[k - 1] + Portion(us, pool, k)

PartialSums(sums, us, pool) == SumsUpTo(Len(pool), sums, us, pool)

LEMMA PortionFacts ==
    ASSUME NEW s \in Snapshot, NEW k \in 1 .. Len(Pool[s]), NEW us, NEW vs,
           us \subseteq vs
    PROVE  /\ Portion(us, Pool[s], k) \in Nat
           /\ Portion(us, Pool[s], k) <= Portion(vs, Pool[s], k)
BY PoolFacts, WeightFacts DEF Portion

\* The sum after the k-th upstream.
LEMMA NextSum ==
    ASSUME NEW s \in Snapshot, NEW us, NEW sums,
           PartialSums(sums, us, Pool[s]), NEW k \in 1 .. Len(Pool[s])
    PROVE  /\ k - 1 \in 0 .. Len(Pool[s]) /\ k \in 0 .. Len(Pool[s])
           /\ sums[k - 1] \in Nat /\ sums[k] \in Nat
           /\ Portion(us, Pool[s], k) \in Nat
           /\ sums[k] = sums[k - 1] + Portion(us, Pool[s], k)
<1>1. k - 1 \in 0 .. Len(Pool[s]) /\ k \in 0 .. Len(Pool[s])
  BY PoolFacts
<1> QED
  BY <1>1, PortionFacts DEF PartialSums, SumsUpTo

\* Fewer upstreams have no more weight.
LEMMA SumsBelow ==
    ASSUME NEW s \in Snapshot, NEW us, NEW vs, us \subseteq vs,
           NEW f, NEW g, PartialSums(f, us, Pool[s]), PartialSums(g, vs, Pool[s]),
           NEW k \in 0 .. Len(Pool[s])
    PROVE  f[k] <= g[k]
<1> DEFINE n == Len(Pool[s])
           Above == {j \in 0 .. n : g[j] < f[j]}
<1>1. f \in [0 .. n -> Nat] /\ g \in [0 .. n -> Nat] /\ f[0] = 0 /\ g[0] = 0
  BY DEF PartialSums, SumsUpTo
<1>2. SUFFICES ASSUME Above # {} PROVE FALSE
  BY <1>1
<1>3. Above \in SUBSET Nat
  OBVIOUS
<1>4. PICK m \in Above : \A j \in Above : m <= j
  BY <1>2, <1>3, SmallestExists
<1>5. m \in 1 .. n
  BY <1>1, <1>4, PoolFacts
<1>6. f[m - 1] <= g[m - 1]
  <2>1. m - 1 \in 0 .. n /\ m - 1 \notin Above
    BY <1>4, <1>5, PoolFacts
  <2> QED
    BY <1>1, <2>1
<1>7. f[m] <= g[m]
  <2>1. /\ f[m - 1] \in Nat /\ g[m - 1] \in Nat
        /\ Portion(us, Pool[s], m) \in Nat /\ Portion(vs, Pool[s], m) \in Nat
        /\ Portion(us, Pool[s], m) <= Portion(vs, Pool[s], m)
    BY <1>5, NextSum, PortionFacts
  <2>2. /\ f[m] = f[m - 1] + Portion(us, Pool[s], m)
        /\ g[m] = g[m - 1] + Portion(vs, Pool[s], m)
    BY <1>5, NextSum
  <2> QED
    BY <1>6, <2>1, <2>2
<1> QED
  BY <1>1, <1>4, <1>7

\* If they have no less in the end, they had no less all along.
LEMMA SumsReached ==
    ASSUME NEW s \in Snapshot, NEW us, NEW vs, us \subseteq vs,
           NEW f, NEW g, PartialSums(f, us, Pool[s]), PartialSums(g, vs, Pool[s]),
           f[Len(Pool[s])] = g[Len(Pool[s])], NEW k \in 0 .. Len(Pool[s])
    PROVE  g[k] <= f[k]
<1> DEFINE n == Len(Pool[s])
           Caught == {j \in k .. n : g[j] <= f[j]}
<1>1. f \in [0 .. n -> Nat] /\ g \in [0 .. n -> Nat] /\ n \in Nat
  BY PoolFacts DEF PartialSums, SumsUpTo
<1>2. f[k] <= g[k]
  BY SumsBelow
<1>3. SUFFICES ASSUME f[k] < g[k] PROVE FALSE
  BY <1>1, <1>2
<1>4. Caught \in SUBSET Nat /\ n \in Caught
  BY <1>1
<1>5. PICK m \in Caught : \A j \in Caught : m <= j
  BY <1>4, SmallestExists
<1>6. m \in 1 .. n /\ m - 1 \in k .. n /\ m - 1 \in 0 .. n
  BY <1>1, <1>3, <1>5
<1>7. f[m - 1] < g[m - 1]
  <2>1. m - 1 \notin Caught
    BY <1>5, <1>6
  <2> QED
    BY <1>1, <1>6, <2>1
<1>8. f[m] < g[m]
  <2>1. /\ f[m - 1] \in Nat /\ g[m - 1] \in Nat
        /\ Portion(us, Pool[s], m) \in Nat /\ Portion(vs, Pool[s], m) \in Nat
        /\ Portion(us, Pool[s], m) <= Portion(vs, Pool[s], m)
    BY <1>6, NextSum, PortionFacts
  <2>2. /\ f[m] = f[m - 1] + Portion(us, Pool[s], m)
        /\ g[m] = g[m - 1] + Portion(vs, Pool[s], m)
    BY <1>6, NextSum
  <2> QED
    BY <1>7, <2>1, <2>2
<1> QED
  BY <1>1, <1>5, <1>6, <1>8

LEMMA SumsGrow ==
    ASSUME NEW s \in Snapshot, NEW us, NEW f, PartialSums(f, us, Pool[s]),
           NEW j \in 0 .. Len(Pool[s]), NEW k \in j .. Len(Pool[s])
    PROVE  f[j] <= f[k]
<1> DEFINE n == Len(Pool[s])
           Below == {i \in j .. n : f[i] < f[j]}
<1>1. f \in [0 .. n -> Nat] /\ n \in Nat
  BY PoolFacts DEF PartialSums, SumsUpTo
<1>2. SUFFICES ASSUME Below # {} PROVE FALSE
  <2>1. k \in 0 .. n /\ k \notin Below => ~(f[k] < f[j])
    BY <1>1
  <2> QED
    BY <1>1, <2>1
<1>3. Below \in SUBSET Nat
  BY <1>1
<1>4. PICK m \in Below : \A i \in Below : m <= i
  BY <1>2, <1>3, SmallestExists
<1>5. m \in 1 .. n /\ m - 1 \in j .. n
  BY <1>1, <1>4
<1>6. f[j] <= f[m - 1]
  <2>1. m - 1 \notin Below
    BY <1>4, <1>5
  <2> QED
    BY <1>1, <1>5, <2>1
<1>7. f[m - 1] \in Nat /\ f[m - 1] <= f[m] /\ f[m] \in Nat
  <2>1. /\ f[m - 1] \in Nat /\ Portion(us, Pool[s], m) \in Nat
        /\ f[m] = f[m - 1] + Portion(us, Pool[s], m)
    BY <1>5, NextSum
  <2> QED
    BY <2>1
<1> QED
  BY <1>1, <1>4, <1>6, <1>7

LEMMA SumsExist ==
    ASSUME NEW s \in Snapshot, NEW us
    PROVE  \E sums : PartialSums(sums, us, Pool[s])
<1> DEFINE pool == Pool[s]
           n == Len(pool)
           Missing == {m \in 0 .. n : ~ \E sums : SumsUpTo(m, sums, us, pool)}
<1>1. n \in Nat /\ \A k \in 1 .. n : Portion(us, pool, k) \in Nat
  BY PoolFacts, PortionFacts
<1> HIDE DEF pool
<1>2. SUFFICES ASSUME Missing # {} PROVE FALSE
  BY <1>1 DEF PartialSums, pool
<1>3. Missing \in SUBSET Nat
  OBVIOUS
<1>4. PICK m \in Missing : \A j \in Missing : m <= j
  <2> HIDE DEF Missing
  <2> QED
    BY <1>2, <1>3, SmallestExists
<1>5. CASE m = 0
  <2>1. SumsUpTo(0, [k \in 0 .. 0 |-> 0], us, pool)
    BY DEF SumsUpTo
  <2> QED
    BY <1>4, <1>5, <2>1
<1>6. CASE m # 0
  <2>1. m \in 1 .. n /\ m - 1 \in 0 .. n /\ ~(m <= m - 1)
    BY <1>1, <1>4, <1>6
  <2>2. PICK sums : SumsUpTo(m - 1, sums, us, pool)
    BY <1>4, <2>1
  <2> DEFINE last == sums[m - 1] + Portion(us, pool, m)
             next == [k \in 0 .. m |-> IF k = m THEN last ELSE sums[k]]
  <2>3. last \in Nat
    <3>1. m - 1 \in 0 .. m - 1
      BY <2>1
    <3> QED
      BY <1>1, <2>1, <2>2, <3>1 DEF SumsUpTo
  <2>4. next \in [0 .. m -> Nat] /\ next[0] = 0
    <3> HIDE DEF last
    <3> QED
      BY <2>1, <2>2, <2>3 DEF SumsUpTo
  <2>5. ASSUME NEW k \in 1 .. m
        PROVE  next[k] = next[k - 1] + Portion(us, pool, k)
    <3>1. next[k - 1] = sums[k - 1]
      BY <2>1
    <3>2. CASE k = m
      BY <2>1, <3>1, <3>2
    <3>3. CASE k # m
      <4>1. k \in 1 .. m - 1 /\ next[k] = sums[k]
        BY <2>1, <3>3
      <4> QED
        BY <2>2, <3>1, <4>1 DEF SumsUpTo
    <3> QED
      BY <3>2, <3>3
  <2>6. SumsUpTo(m, next, us, pool)
    <3> HIDE DEF next
    <3> QED
      BY <2>4, <2>5 DEF SumsUpTo
  <2> QED
    BY <1>4, <2>6
<1> QED
  BY <1>5, <1>6

\* WeightOf is the last sum.
LEMMA WeightIsSum ==
    ASSUME NEW s \in Snapshot, NEW us
    PROVE  \E sums : /\ PartialSums(sums, us, Pool[s])
                     /\ WeightOf(us, Pool[s]) = sums[Len(Pool[s])]
<1> DEFINE pool == Pool[s]
           n == Len(pool)
           Entry(f, k) == IF k = 0 THEN 0 ELSE f[k - 1] + Portion(us, pool, k)
           sum == CHOOSE f : f = [k \in 0 .. n |-> Entry(f, k)]
<1>1. n \in Nat
  BY PoolFacts
<1>2. PICK sums : PartialSums(sums, us, pool)
  BY SumsExist
<1>3. sums \in [0 .. n -> Nat] /\ \A k \in 0 .. n : sums[k] = Entry(sums, k)
  BY <1>1, <1>2 DEF PartialSums, SumsUpTo
<1>4. sums = [k \in 0 .. n |-> Entry(sums, k)]
  BY <1>3
<1>5. sum = [k \in 0 .. n |-> Entry(sum, k)]
  BY <1>4
<1>6. WeightOf(us, pool) = sum[n]
  BY DEF WeightOf, Portion
<1> HIDE DEF sum
<1>7. ASSUME NEW k \in 0 .. n PROVE sum[k] = sums[k]
  <2> DEFINE Wrong == {j \in 0 .. n : sum[j] # sums[j]}
  <2>1. Wrong \in SUBSET Nat
    OBVIOUS
  <2>2. SUFFICES ASSUME Wrong # {} PROVE FALSE
    OBVIOUS
  <2>3. PICK m \in Wrong : \A j \in Wrong : m <= j
    <3> HIDE DEF Wrong
    <3> QED
      BY <2>1, <2>2, SmallestExists
  <2>4. sum[m] = Entry(sum, m) /\ sums[m] = Entry(sums, m)
    BY <1>3, <1>5
  <2>5. m # 0 /\ sum[m - 1] # sums[m - 1]
    BY <2>3, <2>4
  <2>6. m - 1 \in Wrong /\ ~(m <= m - 1)
    BY <1>1, <2>5
  <2> QED
    BY <2>3, <2>6
<1>8. WeightOf(us, pool) = sums[n]
  BY <1>1, <1>6, <1>7
<1> QED
  BY <1>2, <1>8
-----------------------------------------------------------------------------
(* Rounds of tickets *)

LEMMA TicketParts ==
    ASSUME NEW t \in Nat, NEW T \in Nat \ {0}
    PROVE  /\ t \div T \in Nat /\ t % T \in Nat /\ t % T < T
           /\ t = (t \div T) * T + (t % T)
OBVIOUS

\* The x-th ticket of round i.
LEMMA TicketOfRound ==
    ASSUME NEW T \in Nat \ {0}, NEW i \in Nat, NEW x \in Nat, x < T
    PROVE  /\ i * T + x \in Nat
           /\ (i * T + x) \div T = i /\ (i * T + x) % T = x
<1> DEFINE t == i * T + x
           d == t \div T
           r == t % T
<1>1. t \in Nat
  OBVIOUS
<1>2. d \in Nat /\ r \in Nat /\ r < T /\ i * T + x = d * T + r
  BY <1>1, TicketParts
<1> HIDE DEF t, d, r
<1>3. ~(d < i)
  <2> SUFFICES ASSUME d + 1 <= i PROVE FALSE
    BY <1>2
  <2>1. (d + 1) * T <= i * T
    BY <1>2
  <2> QED
    BY <1>2, <2>1
<1>4. ~(i < d)
  <2> SUFFICES ASSUME i + 1 <= d PROVE FALSE
    BY <1>2
  <2>1. (i + 1) * T <= d * T
    BY <1>2
  <2> QED
    BY <1>2, <2>1
<1>5. d = i /\ r = x
  BY <1>2, <1>3, <1>4
<1> QED
  BY <1>1, <1>5 DEF t, d, r

\* A ticket of the first m rounds.
LEMMA TicketInRounds ==
    ASSUME NEW m \in Nat, NEW T \in Nat \ {0}, NEW t \in Nat
    PROVE  t < m * T <=> t \div T < m
<1> DEFINE d == t \div T
           r == t % T
<1>1. d \in Nat /\ r \in Nat /\ r < T /\ t = d * T + r
  BY TicketParts
<1> HIDE DEF d, r
<1>2. ASSUME d < m PROVE t < m * T
  <2>1. (d + 1) * T <= m * T
    BY <1>1, <1>2
  <2> QED
    BY <1>1, <2>1
<1>3. ASSUME ~(d < m) PROVE ~(t < m * T)
  <2>1. m * T <= d * T
    BY <1>1, <1>3
  <2> QED
    BY <1>1, <2>1
<1> QED
  BY <1>2, <1>3 DEF d

\* What it means to number a set of requests.
LEMMA Numbering ==
    ASSUME NEW drawn, NEW last, NEW ticket \in Bijection(drawn, 0 .. last)
    PROVE  /\ ticket \in [drawn -> 0 .. last]
           /\ \A q, p \in drawn : ticket[q] = ticket[p] => q = p
           /\ \A t \in 0 .. last : \E q \in drawn : ticket[q] = t
<1> DEFINE tickets == 0 .. last
<1> HIDE DEF tickets
<1>1. ticket \in Bijection(drawn, tickets)
  BY DEF tickets
<1>2. /\ ticket \in [drawn -> tickets]
      /\ \A q, p \in drawn : ticket[q] = ticket[p] => q = p
      /\ \A t \in tickets : \E q \in drawn : ticket[q] = t
  BY <1>1, Fun_BijectionProperties
<1> QED
  BY <1>2 DEF tickets

\* In m full rounds of T tickets, those from a to b - 1 come up (b - a) * m times.
LEMMA RoundShares ==
    ASSUME NEW drawn, IsFiniteSet(drawn), NEW m \in Nat, NEW T \in Nat \ {0},
           NEW ticket \in Bijection(drawn, 0 .. m * T - 1),
           NEW a \in Nat, NEW b \in Nat, a <= b, b <= T
    PROVE  Cardinality({q \in drawn : a <= ticket[q] % T /\ ticket[q] % T < b})
              = (b - a) * m
<1> DEFINE served == {q \in drawn : a <= ticket[q] % T /\ ticket[q] % T < b}
           places == (a .. b - 1) \X (0 .. m - 1)
           place == [q \in served |-> <<ticket[q] % T, ticket[q] \div T>>]
<1>1. /\ ticket \in [drawn -> 0 .. m * T - 1]
      /\ \A q, p \in drawn : ticket[q] = ticket[p] => q = p
      /\ \A t \in 0 .. m * T - 1 : \E q \in drawn : ticket[q] = t
  BY Numbering
<1>2. m * T \in Nat
  OBVIOUS
<1>3. \A q \in drawn :
         /\ ticket[q] \in Nat /\ ticket[q] < m * T
         /\ ticket[q] % T \in Nat /\ ticket[q] \div T \in 0 .. m - 1
         /\ ticket[q] = (ticket[q] \div T) * T + (ticket[q] % T)
  <2> TAKE q \in drawn
  <2>1. ticket[q] \in Nat /\ ticket[q] < m * T
    BY <1>1, <1>2
  <2> DEFINE t == ticket[q]
  <2> HIDE DEF t
  <2>2. t \in Nat /\ t < m * T
    BY <2>1 DEF t
  <2>3. /\ t \div T \in Nat /\ t % T \in Nat
        /\ t = (t \div T) * T + (t % T)
    BY <2>2, TicketParts
  <2>4. t \div T < m
    BY <2>2, TicketInRounds
  <2>5. t \div T \in 0 .. m - 1
    <3> DEFINE d == t \div T
    <3> HIDE DEF d
    <3>1. d \in Nat /\ d < m
      BY <2>3, <2>4 DEF d
    <3>2. d \in 0 .. m - 1
      BY <3>1
    <3> QED
      BY <3>2 DEF d
  <2> QED
    BY <2>2, <2>3, <2>5 DEF t
<1>4. place \in [served -> places]
  BY <1>3
<1>5. ASSUME NEW q \in served, NEW p \in served, place[q] = place[p]
      PROVE  q = p
  <2>1. ticket[q] % T = ticket[p] % T /\ ticket[q] \div T = ticket[p] \div T
    BY <1>5
  <2>2. ticket[q] = ticket[p]
    BY <1>3, <2>1
  <2> QED
    BY <1>1, <2>2
<1>6. ASSUME NEW x \in a .. b - 1, NEW i \in 0 .. m - 1
      PROVE  \E q \in served : place[q] = <<x, i>>
  <2>1. x \in Nat /\ i \in Nat /\ x < T /\ i < m
    OBVIOUS
  <2>2. /\ i * T + x \in Nat
        /\ (i * T + x) \div T = i /\ (i * T + x) % T = x
    BY <2>1, TicketOfRound
  <2>3. i * T + x \in 0 .. m * T - 1
    <3>1. i * T + x < m * T
      BY <2>1, <2>2, TicketInRounds
    <3> QED
      BY <1>2, <2>2, <3>1
  <2>4. PICK q \in drawn : ticket[q] = i * T + x
    BY <1>1, <2>3
  <2>5. ticket[q] % T = x /\ ticket[q] \div T = i
    BY <2>2, <2>4
  <2>6. q \in served
    BY <2>5
  <2> QED
    BY <2>5, <2>6
<1>7. place \in Bijection(served, places)
  <2>1. \A p \in places : \E x \in a .. b - 1, i \in 0 .. m - 1 : p = <<x, i>>
    OBVIOUS
  <2> HIDE DEF place, served
  <2>2. \A p \in places : \E q \in served : place[q] = p
    <3> TAKE p \in places
    <3>1. PICK x \in a .. b - 1, i \in 0 .. m - 1 : p = <<x, i>>
      BY <2>1
    <3>2. \E q \in served : place[q] = <<x, i>>
      BY <1>6
    <3> QED
      BY <3>1, <3>2
  <2> HIDE DEF places
  <2> QED
    BY <1>4, <1>5, <2>2, Fun_IsBij
<1>8. IsFiniteSet(served)
  BY FS_Subset
<1>9. Cardinality(places) = Cardinality(served)
  <2> HIDE DEF place, places, served
  <2>1. ExistsBijection(served, places)
    BY <1>7 DEF ExistsBijection
  <2> QED
    BY <1>8, <2>1, FS_Bijection
<1>10. /\ IsFiniteSet(a .. b - 1) /\ Cardinality(a .. b - 1) = b - a
       /\ IsFiniteSet(0 .. m - 1) /\ Cardinality(0 .. m - 1) = m
  <2>1. /\ a \in Int /\ b - 1 \in Int /\ 0 \in Int /\ m - 1 \in Int
        /\ (IF a > b - 1 THEN 0 ELSE (b - 1) - a + 1) = b - a
        /\ (IF 0 > m - 1 THEN 0 ELSE (m - 1) - 0 + 1) = m
    OBVIOUS
  <2>2. /\ IsFiniteSet(a .. b - 1)
        /\ Cardinality(a .. b - 1) = IF a > b - 1 THEN 0 ELSE (b - 1) - a + 1
    BY <2>1, FS_Interval
  <2>3. /\ IsFiniteSet(0 .. m - 1)
        /\ Cardinality(0 .. m - 1) = IF 0 > m - 1 THEN 0 ELSE (m - 1) - 0 + 1
    BY <2>1, FS_Interval
  <2> QED
    BY <2>1, <2>2, <2>3
<1>11. Cardinality(places) = (b - a) * m
  <2>1. PICK xs : xs = a .. b - 1
    OBVIOUS
  <2>2. PICK is : is = 0 .. m - 1
    OBVIOUS
  <2>3. IsFiniteSet(xs) /\ IsFiniteSet(is) /\ places = xs \X is
    BY <1>10, <2>1, <2>2
  <2>4. Cardinality(xs \X is) = Cardinality(xs) * Cardinality(is)
    BY <2>3, FS_Product
  <2> QED
    BY <1>10, <2>1, <2>2, <2>3, <2>4
<1> QED
  BY <1>9, <1>11
-----------------------------------------------------------------------------
(***************************************************************************)
(* The tickets.  Requests draw from a snapshot's cursor one after another, *)
(* so they can be numbered by the tickets they drew; and a request whose   *)
(* walks saw no flag change holds on to a set of upstreams whose weight is *)
(* its total, and takes the one among them that its ticket falls on.       *)
(***************************************************************************)
Drew(s) ==
    {q \in Request : /\ sel[q].on = s
                     /\ sel[q].pc \in {"scan", "done"}
                     /\ sel[q].total > 0}

FallsOn(r, t, k, sums) ==
    /\ r.result = Pool[r.on][k]
    /\ sums[k - 1] <= t % r.total /\ t % r.total < sums[k]

TicketHeld(r, t) ==
    r.steady =>
        \E us \in SUBSET (r.allowed \cap Range(Pool[r.on])) : \E sums :
            /\ PartialSums(sums, us, Pool[r.on])
            /\ sums[Len(Pool[r.on])] = r.total
            /\ r.pc = "scan" => /\ us = Chosen(r)
                                /\ r.selected + sums[r.i - 1] = t % r.total
            /\ r.pc = "done" =>
                  \E k \in 1 .. Len(Pool[r.on]) : FallsOn(r, t, k, sums)

TicketsDrawn(s) ==
    \E n \in Nat : \E ticket \in Bijection(Drew(s), 0 .. n - 1) :
        /\ cursor[s] = n % CursorSize
        /\ \A q \in Drew(s) : TicketHeld(sel[q], ticket[q])

LEMMA TicketsBegin ==
    ASSUME SelectionInit, NEW s \in Snapshot
    PROVE  TicketsDrawn(s)
<1>1. Drew(s) = {}
  BY DEF SelectionInit, NotStarted, Drew
<1>2. cursor[s] = 0 % CursorSize
  BY SelectionAssumption DEF SelectionInit
<1> DEFINE ticket == [q \in {} |-> 0]
<1>3. ticket \in Bijection({}, 0 .. 0 - 1)
  <2>1. ticket \in [{} -> 0 .. 0 - 1] /\ 0 .. 0 - 1 = {}
    OBVIOUS
  <2> HIDE DEF ticket
  <2> QED
    BY <2>1, Fun_IsBij
<1> QED
  BY <1>1, <1>2, <1>3 DEF TicketsDrawn

\* A step in which nobody draws from the cursor of s.
LEMMA TicketsKept ==
    ASSUME NEW s \in Snapshot, TicketsDrawn(s), cursor'[s] = cursor[s],
           Drew(s)' = Drew(s),
           \A q \in Drew(s), t \in Nat :
              TicketHeld(sel[q], t) => TicketHeld(sel[q], t)'
    PROVE  TicketsDrawn(s)'
<1>0. PICK n \in Nat : \E ticket \in Bijection(Drew(s), 0 .. n - 1) :
         /\ cursor[s] = n % CursorSize
         /\ \A q \in Drew(s) : TicketHeld(sel[q], ticket[q])
  BY DEF TicketsDrawn
<1>1. PICK ticket \in Bijection(Drew(s), 0 .. n - 1) :
         /\ cursor[s] = n % CursorSize
         /\ \A q \in Drew(s) : TicketHeld(sel[q], ticket[q])
  BY <1>0
<1>2. \A q \in Drew(s) : ticket[q] \in Nat
  BY <1>1, Fun_BijectionProperties
<1>3. \A q \in Drew(s)' : TicketHeld(sel[q], ticket[q])'
  BY <1>1, <1>2
<1> QED
  BY <1>1, <1>3 DEF TicketsDrawn

\* Only a walk in progress depends on the flags.
LEMMA TicketIgnores ==
    ASSUME NEW q, NEW t, sel'[q] = sel[q],
           sel[q].pc = "scan" => healthy'[sel[q].on] = healthy[sel[q].on],
           TicketHeld(sel[q], t)
    PROVE  TicketHeld(sel[q], t)'
<1>1. sel[q].pc = "scan" => Chosen(sel[q])' = Chosen(sel[q])
  BY DEF Chosen, Eligible
<1>2. \A k, sums : FallsOn(sel[q], t, k, sums)' <=> FallsOn(sel[q], t, k, sums)
  BY DEF FallsOn
<1> QED
  BY <1>1, <1>2 DEF TicketHeld

\* A step of one request that gives its selection the new value r.
LEMMA TicketsKeptByOne ==
    ASSUME NEW s \in Snapshot, TicketsDrawn(s), SelectionInv,
           NEW q \in Request, NEW r,
           sel' = [sel EXCEPT ![q] = r], healthy' = healthy,
           cursor'[s] = cursor[s],
           q \in Drew(s) <=> r.on = s /\ r.pc \in {"scan", "done"} /\ r.total > 0,
           q \in Drew(s) =>
              \A t \in Nat : TicketHeld(sel[q], t) => TicketHeld(r, t)
    PROVE  TicketsDrawn(s)'
<1>1. /\ sel'[q] = r
      /\ \A p \in Request \ {q} : sel'[p] = sel[p]
  BY DEF SelectionInv, SelectionTypeOK
<1>2. Drew(s)' = Drew(s)
  BY <1>1 DEF Drew
<1>3. ASSUME NEW p \in Drew(s), NEW t \in Nat, TicketHeld(sel[p], t)
      PROVE  TicketHeld(sel[p], t)'
  <2>1. p \in Request
    BY DEF Drew
  <2>2. CASE p # q
    BY <1>1, <1>3, <2>1, <2>2, TicketIgnores
  <2>3. CASE p = q
    <3>1. TicketHeld(r, t)
      BY <1>3, <2>3
    <3>2. Chosen(sel[p])' = Chosen(r)
      BY <1>1, <2>3 DEF Chosen, Eligible
    <3>3. \A k, sums : FallsOn(sel[p], t, k, sums)' <=> FallsOn(r, t, k, sums)
      BY <1>1, <2>3 DEF FallsOn
    <3>4. sel'[p] = r
      BY <1>1, <2>3
    <3> QED
      BY <3>1, <3>2, <3>3, <3>4 DEF TicketHeld
  <2> QED
    BY <2>2, <2>3
<1> QED
  BY <1>2, <1>3, TicketsKept

LEMMA TakeSnapshotTickets ==
    ASSUME SelectionInv, NEW s \in Snapshot, TicketsDrawn(s),
           NEW q \in Request, NEW on \in Snapshot,
           TakeSnapshot(q, on)
    PROVE  TicketsDrawn(s)'
<1> DEFINE r == [sel[q] EXCEPT !.on = on]
<1>1. sel' = [sel EXCEPT ![q] = r] /\ UNCHANGED <<healthy, cursor>>
  BY DEF TakeSnapshot
<1>2. sel[q].pc = "idle" /\ r.pc = "idle"
  BY SelectionTyped DEF TakeSnapshot, Selection
<1>3. q \notin Drew(s)
  BY <1>2 DEF Drew
<1> HIDE DEF r
<1> QED
  BY <1>1, <1>2, <1>3, TicketsKeptByOne

LEMMA BeginSelectTickets ==
    ASSUME SelectionInv, NEW s \in Snapshot, TicketsDrawn(s),
           NEW q \in Request, NEW allowed, BeginSelect(q, allowed)
    PROVE  TicketsDrawn(s)'
<1> DEFINE out == Eligible(sel[q].on, allowed, healthy) = {}
           r == [sel[q] EXCEPT !.pc = "count", !.allowed = allowed, !.outage = out]
<1>1. sel' = [sel EXCEPT ![q] = r] /\ UNCHANGED <<healthy, cursor>>
  BY DEF BeginSelect
<1>2. sel[q].pc = "idle"
  BY DEF BeginSelect, Holding
<1>3. r.pc = "count"
  <2> HIDE DEF out
  <2> QED
    BY SelectionTyped DEF Selection
<1>4. q \notin Drew(s)
  BY <1>2 DEF Drew
<1> HIDE DEF r
<1> QED
  BY <1>1, <1>3, <1>4, TicketsKeptByOne

LEMMA CountNextTickets ==
    ASSUME SelectionInv, NEW s \in Snapshot, TicketsDrawn(s),
           NEW q \in Request, CountNext(q)
    PROVE  TicketsDrawn(s)'
<1> DEFINE more == IF Usable(q) THEN sel[q].total + Weight[PoolOf(q)[sel[q].i]]
                   ELSE sel[q].total
           r == [sel[q] EXCEPT !.total = more, !.i = sel[q].i + 1]
<1>1. sel' = [sel EXCEPT ![q] = r] /\ UNCHANGED <<healthy, cursor>>
  BY DEF CountNext
<1>2. sel[q].pc = "count"
  BY DEF CountNext
<1>3. r.pc = "count"
  <2> HIDE DEF more
  <2> QED
    BY <1>2, SelectionTyped DEF Selection
<1>4. q \notin Drew(s)
  BY <1>2 DEF Drew
<1> HIDE DEF r
<1> QED
  BY <1>1, <1>3, <1>4, TicketsKeptByOne

\* As many requests have drawn as there are tickets.
LEMMA TicketCount ==
    ASSUME NEW drawn, IsFiniteSet(drawn), NEW n \in Nat,
           NEW ticket \in Bijection(drawn, 0 .. n - 1)
    PROVE  Cardinality(drawn) = n
<1>1. Cardinality(0 .. n - 1) = Cardinality(drawn)
  <2>1. ExistsBijection(drawn, 0 .. n - 1)
    BY DEF ExistsBijection
  <2> QED
    BY <2>1, FS_Bijection
<1>2. 0 \in Int /\ n - 1 \in Int
  OBVIOUS
<1>3. Cardinality(0 .. n - 1) = IF 0 > n - 1 THEN 0 ELSE (n - 1) - 0 + 1
  BY <1>2, FS_Interval
<1> QED
  BY <1>1, <1>3

\* One more ticket.
LEMMA TicketAdded ==
    ASSUME NEW drawn, NEW n \in Nat, NEW ticket \in Bijection(drawn, 0 .. n - 1),
           NEW q, q \notin drawn
    PROVE  LET drawn1 == drawn \cup {q}
               ticket1 == [p \in drawn1 |-> IF p = q THEN n ELSE ticket[p]]
           IN  /\ ticket1 \in Bijection(drawn1, 0 .. (n + 1) - 1)
               /\ ticket1[q] = n
               /\ \A p \in drawn : ticket1[p] = ticket[p]
<1> DEFINE drawn1 == drawn \cup {q}
           ticket1 == [p \in drawn1 |-> IF p = q THEN n ELSE ticket[p]]
<1>1. /\ ticket \in [drawn -> 0 .. n - 1]
      /\ \A p, o \in drawn : ticket[p] = ticket[o] => p = o
      /\ \A t \in 0 .. n - 1 : \E p \in drawn : ticket[p] = t
  BY Numbering
<1>2. /\ \A p \in drawn : ticket1[p] = ticket[p] /\ ticket[p] \in 0 .. n - 1
      /\ ticket1[q] = n
  BY <1>1
<1>3. /\ n \in 0 .. (n + 1) - 1
      /\ \A t \in 0 .. n - 1 : t \in 0 .. (n + 1) - 1 /\ t # n
      /\ \A t \in 0 .. (n + 1) - 1 : t = n \/ t \in 0 .. n - 1
  OBVIOUS
<1>4. ticket1 \in [drawn1 -> 0 .. (n + 1) - 1]
  BY <1>2, <1>3
<1> HIDE DEF ticket1
<1>5. \A p, o \in drawn1 : ticket1[p] = ticket1[o] => p = o
  BY <1>1, <1>2, <1>3
<1>6. \A t \in 0 .. (n + 1) - 1 : \E p \in drawn1 : ticket1[p] = t
  BY <1>1, <1>2, <1>3
<1>7. ticket1 \in Bijection(drawn1, 0 .. (n + 1) - 1)
  BY <1>4, <1>5, <1>6, Fun_IsBij
<1> QED
  BY <1>2, <1>7 DEF ticket1

\* The next ticket goes to the request that draws.
LEMMA DrawTickets ==
    ASSUME IsFiniteSet(Request), Cardinality(Request) <= CursorSize,
           SelectionInv, NEW s \in Snapshot, TicketsDrawn(s),
           NEW q \in Request, Draw(q)
    PROVE  TicketsDrawn(s)'
<1> DEFINE c == sel[q]
<1>1. /\ c \in Selection /\ WalkInv(c) /\ c.pc = "count" /\ c.on \in Snapshot
      /\ c.i = Len(Pool[c.on]) + 1 /\ Len(Pool[c.on]) \in Nat /\ c.total \in Nat
  BY WalkTyped DEF Draw, PoolOf
<1>2. /\ cursor \in [Snapshot -> 0 .. CursorSize - 1] /\ CursorSize \in Nat \ {0}
      /\ sel \in [Request -> Selection] /\ healthy' = healthy
  BY SelectionAssumption DEF Draw, SelectionInv, SelectionTypeOK, Selection
<1>3. q \notin Drew(s)
  BY <1>1 DEF Drew
<1>4. CASE c.total = 0
  <2> DEFINE r == [c EXCEPT !.pc = "done"]
  <2>1. sel' = [sel EXCEPT ![q] = r] /\ UNCHANGED <<healthy, cursor>>
    BY <1>4 DEF Draw
  <2>2. ~(r.total > 0)
    BY <1>1, <1>4 DEF Selection
  <2> HIDE DEF r
  <2> QED
    BY <1>3, <2>1, <2>2, TicketsKeptByOne
<1>5. CASE c.total # 0
  <2> DEFINE ticket == cursor[c.on] % c.total
             r == [c EXCEPT !.pc = "scan", !.i = 1, !.selected = ticket]
  <2>1. /\ sel' = [sel EXCEPT ![q] = r]
        /\ cursor' = [cursor EXCEPT ![c.on] = (cursor[c.on] + 1) % CursorSize]
    BY <1>5 DEF Draw
  <2>2. /\ r.pc = "scan" /\ r.i = 1 /\ r.selected = ticket /\ r.total = c.total
        /\ r.on = c.on /\ r.allowed = c.allowed /\ r.steady = c.steady
    <3> HIDE DEF ticket
    <3>1. DOMAIN c = {"pc", "on", "allowed", "i", "total", "selected", "result",
                      "outage", "steady"}
      BY <1>1 DEF Selection
    <3> HIDE DEF c
    <3> QED
      BY <3>1
  <2> HIDE DEF r
  <2>3. CASE c.on # s
    <3>1. cursor'[s] = cursor[s]
      BY <1>2, <2>1, <2>3
    <3> QED
      BY <1>2, <1>3, <2>1, <2>2, <2>3, <3>1, TicketsKeptByOne
  <2>4. CASE c.on = s
    <3>1. PICK n \in Nat : \E drawn \in Bijection(Drew(s), 0 .. n - 1) :
             /\ cursor[s] = n % CursorSize
             /\ \A p \in Drew(s) : TicketHeld(sel[p], drawn[p])
      BY DEF TicketsDrawn
    <3>2. PICK drawn \in Bijection(Drew(s), 0 .. n - 1) :
             /\ cursor[s] = n % CursorSize
             /\ \A p \in Drew(s) : TicketHeld(sel[p], drawn[p])
      BY <3>1
    \* The cursor has not wrapped.
    <3>4. n < CursorSize
      <4>1. Drew(s) \subseteq Request /\ Drew(s) # Request
        BY <1>3 DEF Drew
      <4>2. IsFiniteSet(Drew(s)) /\ Cardinality(Drew(s)) < Cardinality(Request)
        <5>1. /\ IsFiniteSet(Drew(s))
              /\ Cardinality(Drew(s)) <= Cardinality(Request)
              /\ Cardinality(Drew(s)) # Cardinality(Request)
          BY <4>1, FS_Subset
        <5>2. Cardinality(Drew(s)) \in Nat /\ Cardinality(Request) \in Nat
          BY <5>1, FS_CardinalityType
        <5> QED
          BY <5>1, <5>2
      <4>3. Cardinality(Drew(s)) = n
        BY <3>2, <4>2, TicketCount
      <4>4. Cardinality(Request) \in Nat
        BY FS_CardinalityType
      <4> QED
        BY <1>2, <4>2, <4>3, <4>4
    <3>5. cursor[s] = n /\ cursor'[s] = (n + 1) % CursorSize
      <4>1. n % CursorSize = n
        BY <1>2, <3>4
      <4> QED
        BY <1>2, <2>1, <2>4, <3>2, <4>1
    <3>6. /\ sel'[q] = r
          /\ \A p \in Request \ {q} : sel'[p] = sel[p]
      BY <1>2, <2>1
    <3>7. Drew(s)' = Drew(s) \cup {q}
      <4>1. c.total > 0
        BY <1>1, <1>5
      <4>2. q \in Drew(s)'
        BY <2>2, <2>4, <3>6, <4>1 DEF Drew
      <4> QED
        BY <1>3, <3>6, <4>2 DEF Drew
    <3>8. PICK new \in Bijection(Drew(s) \cup {q}, 0 .. (n + 1) - 1) :
             /\ new[q] = n
             /\ \A p \in Drew(s) : new[p] = drawn[p]
      <4> DEFINE next == [p \in Drew(s) \cup {q} |-> IF p = q THEN n ELSE drawn[p]]
      <4>1. /\ next \in Bijection(Drew(s) \cup {q}, 0 .. (n + 1) - 1)
            /\ next[q] = n
            /\ \A p \in Drew(s) : next[p] = drawn[p]
        BY <1>3, <3>2, TicketAdded, SMTT(30)
      <4> HIDE DEF next
      <4> QED
        BY <4>1
    <3>9. ASSUME NEW p \in Drew(s) \cup {q} PROVE TicketHeld(sel[p], new[p])'
      <4>1. CASE p \in Drew(s)
        <5>1. p \in Request /\ p # q /\ new[p] = drawn[p]
          BY <1>3, <3>8, <4>1 DEF Drew
        <5>2. TicketHeld(sel[p], drawn[p])'
          BY <1>2, <3>2, <3>6, <4>1, <5>1, TicketIgnores
        <5> QED
          BY <5>1, <5>2
      <4>2. CASE p = q
        <5>1. SUFFICES ASSUME r.steady PROVE TicketHeld(sel[q], n)'
          BY <3>6, <3>8, <4>2 DEF TicketHeld
        <5>2. PICK sums : PrefixSums(sums, c.i - 1, c) /\ sums[c.i - 1] = c.total
          BY <1>1, <2>2, <5>1 DEF WalkInv, Counted
        <5>3. /\ PartialSums(sums, Chosen(c), Pool[c.on])
              /\ sums[Len(Pool[c.on])] = c.total /\ sums[0] = 0
          BY <1>1, <5>2
             DEF PrefixSums, Share, PartialSums, SumsUpTo, Portion
        <5>4. /\ Chosen(sel[q])' = Chosen(c)
              /\ Chosen(c) \subseteq c.allowed \cap Range(Pool[c.on])
          BY <1>2, <2>2, <3>6 DEF Chosen, Eligible
        <5>5. r.selected + sums[r.i - 1] = n % r.total
          <6>1. r.selected = n % c.total /\ r.i - 1 = 0
            BY <2>2, <2>4, <3>5
          <6>2. n % c.total \in Nat
            BY <1>1, <1>5
          <6> QED
            BY <2>2, <5>3, <6>1, <6>2
        <5>6. r.pc # "done"
          BY <2>2
        <5> HIDE DEF c
        <5> QED
          BY <2>2, <3>6, <5>3, <5>4, <5>5, <5>6 DEF TicketHeld
      <4> QED
        BY <4>1, <4>2
    <3>10. n + 1 \in Nat
      OBVIOUS
    <3> QED
      BY <3>5, <3>7, <3>8, <3>9, <3>10 DEF TicketsDrawn
  <2> QED
    BY <2>3, <2>4
<1> QED
  BY <1>4, <1>5

\* What a request passes over is taken off its ticket, and what it stops at
\* is what the ticket falls on.
LEMMA ScanNextTickets ==
    ASSUME SelectionInv, NEW s \in Snapshot, TicketsDrawn(s),
           NEW q \in Request, ScanNext(q)
    PROVE  TicketsDrawn(s)'
<1> DEFINE c == sel[q]
           u == Pool[c.on][c.i]
           n == Len(Pool[c.on])
           step == IF ~Usable(q) THEN [c EXCEPT !.i = c.i + 1]
                   ELSE IF c.selected < Weight[u]
                   THEN [c EXCEPT !.pc = "done", !.result = u]
                   ELSE [c EXCEPT !.selected = c.selected - Weight[u], !.i = c.i + 1]
<1>1. /\ c \in Selection /\ c.pc = "scan" /\ c.on \in Snapshot
      /\ c.i \in 1 .. n /\ n \in Nat /\ c.selected \in Nat /\ c.total \in Nat
  BY WalkTyped DEF ScanNext, PoolOf
<1>2. u \in Candidate /\ (Usable(q) <=> u \in Chosen(c)) /\ Weight[u] \in Nat
  BY <1>1, UsableChosen, WeightFacts DEF ScanNext
<1>3. sel' = [sel EXCEPT ![q] = step] /\ UNCHANGED <<healthy, cursor>>
  BY DEF ScanNext, PoolOf
<1>4. PICK r : r = step
  OBVIOUS
<1>5. /\ r.on = c.on /\ r.total = c.total /\ r.allowed = c.allowed
      /\ r.steady = c.steady /\ r.pc \in {"scan", "done"}
      /\ r.pc = "done" => Usable(q) /\ c.selected < Weight[u] /\ r.result = u
      /\ r.pc = "scan" =>
            /\ r.i = c.i + 1
            /\ r.selected = c.selected - Portion(Chosen(c), Pool[c.on], c.i)
  <2>1. DOMAIN c = {"pc", "on", "allowed", "i", "total", "selected", "result",
                    "outage", "steady"}
    BY <1>1 DEF Selection
  <2> HIDE DEF u, c
  <2>2. CASE ~Usable(q)
    <3>1. /\ r.on = c.on /\ r.total = c.total /\ r.allowed = c.allowed
          /\ r.steady = c.steady /\ r.pc = "scan"
          /\ r.i = c.i + 1 /\ r.selected = c.selected
      BY <1>1, <1>4, <2>1, <2>2
    <3>2. Portion(Chosen(c), Pool[c.on], c.i) = 0
      BY <1>2, <2>2 DEF Portion, u
    <3> QED
      BY <1>1, <3>1, <3>2
  <2>3. CASE Usable(q) /\ c.selected < Weight[u]
    BY <1>1, <1>4, <2>1, <2>3
  <2>4. CASE Usable(q) /\ ~(c.selected < Weight[u])
    <3>1. /\ r.on = c.on /\ r.total = c.total /\ r.allowed = c.allowed
          /\ r.steady = c.steady /\ r.pc = "scan"
          /\ r.i = c.i + 1 /\ r.selected = c.selected - Weight[u]
      BY <1>1, <1>4, <2>1, <2>4
    <3>2. Portion(Chosen(c), Pool[c.on], c.i) = Weight[u]
      BY <1>2, <2>4 DEF Portion, u
    <3> QED
      BY <3>1, <3>2
  <2> QED
    BY <2>2, <2>3, <2>4
<1>6. ASSUME NEW t \in Nat, TicketHeld(c, t), c.total > 0, r.steady
      PROVE  TicketHeld(r, t)
  <2>1. PICK us \in SUBSET (c.allowed \cap Range(Pool[c.on])) : \E sums :
           /\ PartialSums(sums, us, Pool[c.on])
           /\ sums[n] = c.total
           /\ us = Chosen(c)
           /\ c.selected + sums[c.i - 1] = t % c.total
    BY <1>1, <1>5, <1>6 DEF TicketHeld
  <2>2. PICK sums :
           /\ PartialSums(sums, us, Pool[c.on])
           /\ sums[n] = c.total
           /\ us = Chosen(c)
           /\ c.selected + sums[c.i - 1] = t % c.total
    BY <2>1
  <2>3. /\ sums[c.i - 1] \in Nat /\ sums[c.i] \in Nat
        /\ Portion(us, Pool[c.on], c.i) \in Nat
        /\ sums[c.i] = sums[c.i - 1] + Portion(us, Pool[c.on], c.i)
    BY <1>1, <2>2, NextSum
  <2>4. Chosen(r) = Chosen(c)
    BY <1>5 DEF Chosen
  <2>5. ASSUME r.pc = "scan" PROVE r.selected + sums[r.i - 1] = t % r.total
    <3>1. r.i = c.i + 1 /\ r.i - 1 = c.i
      BY <1>1, <1>5, <2>5
    <3>2. r.selected = c.selected - Portion(us, Pool[c.on], c.i)
      BY <1>5, <2>2, <2>5
    <3>3. r.selected + sums[c.i] = c.selected + sums[c.i - 1]
      <4> DEFINE portion == Portion(us, Pool[c.on], c.i)
      <4> HIDE DEF portion
      <4>1. /\ portion \in Nat /\ sums[c.i] = sums[c.i - 1] + portion
            /\ r.selected = c.selected - portion
        BY <2>3, <3>2 DEF portion
      <4>2. c.selected \in Nat /\ sums[c.i - 1] \in Nat
        BY <1>1, <2>3
      <4> HIDE DEF c
      <4> QED
        BY <4>1, <4>2
    <3> QED
      BY <1>5, <2>2, <3>1, <3>3
  <2>6. ASSUME r.pc = "done" PROVE FallsOn(r, t, c.i, sums)
    <3>1. u \in us /\ Portion(us, Pool[c.on], c.i) = Weight[u]
      BY <1>2, <1>5, <2>2, <2>6 DEF Portion
    <3>2. r.result = Pool[r.on][c.i]
      BY <1>5, <2>6
    <3>3. t % r.total = c.selected + sums[c.i - 1]
      BY <1>5, <2>2
    <3>4. c.selected < Weight[u]
      BY <1>5, <2>6
    <3>5. /\ sums[c.i - 1] <= c.selected + sums[c.i - 1]
          /\ c.selected + sums[c.i - 1] < sums[c.i]
      <4> HIDE DEF u
      <4>1. sums[c.i] = sums[c.i - 1] + Weight[u]
        BY <2>3, <3>1
      <4>2. c.selected \in Nat /\ sums[c.i - 1] \in Nat /\ Weight[u] \in Nat
        BY <1>1, <1>2, <2>3
      <4> HIDE DEF c
      <4> QED
        BY <3>4, <4>1, <4>2
    <3> QED
      BY <3>2, <3>3, <3>5 DEF FallsOn
  <2> QED
    BY <1>1, <1>5, <2>2, <2>4, <2>5, <2>6 DEF TicketHeld
<1>7. q \in Drew(s) <=> r.on = s /\ r.pc \in {"scan", "done"} /\ r.total > 0
  BY <1>1, <1>5 DEF Drew
<1>8. q \in Drew(s) => \A t \in Nat : TicketHeld(sel[q], t) => TicketHeld(r, t)
  <2> SUFFICES ASSUME q \in Drew(s), NEW t \in Nat, TicketHeld(c, t)
               PROVE  TicketHeld(r, t)
    OBVIOUS
  <2>1. c.total > 0
    BY DEF Drew
  <2>2. CASE r.steady
    BY <1>6, <2>1, <2>2
  <2>3. CASE ~r.steady
    BY <2>3 DEF TicketHeld
  <2> QED
    BY <2>2, <2>3
<1>9. sel' = [sel EXCEPT ![q] = r]
  BY <1>3, <1>4
<1> QED
  BY <1>3, <1>7, <1>8, <1>9, TicketsKeptByOne

\* A steady walk does not run past the end.
LEMMA ScanEndTickets ==
    ASSUME SelectionInv, NEW s \in Snapshot, TicketsDrawn(s),
           NEW q \in Request, ScanEnd(q)
    PROVE  TicketsDrawn(s)'
<1> DEFINE c == sel[q]
           n == Len(Pool[c.on])
           r == [c EXCEPT !.pc = "done"]
<1>1. /\ c \in Selection /\ WalkInv(c) /\ c.pc = "scan" /\ c.on \in Snapshot
      /\ c.i = n + 1 /\ n \in Nat /\ c.selected \in Nat
  BY WalkTyped DEF ScanEnd, PoolOf
<1>2. sel' = [sel EXCEPT ![q] = r] /\ UNCHANGED <<healthy, cursor>>
  BY DEF ScanEnd
<1>3. /\ r.pc = "done" /\ r.on = c.on /\ r.total = c.total
      /\ r.steady = c.steady
  BY <1>1 DEF Selection
<1>4. ~c.steady
  <2> SUFFICES ASSUME c.steady PROVE FALSE
    OBVIOUS
  <2>1. PICK sums : PrefixSums(sums, n, c) /\ c.selected + sums[c.i - 1] < sums[n]
    BY <1>1 DEF WalkInv, TicketFalls
  <2>2. c.i - 1 = n /\ sums[n] \in Nat
    BY <1>1, <2>1 DEF PrefixSums
  <2> QED
    BY <1>1, <2>1, <2>2
<1> HIDE DEF r
<1>5. q \in Drew(s) <=> r.on = s /\ r.pc \in {"scan", "done"} /\ r.total > 0
  BY <1>1, <1>3 DEF Drew
<1>6. \A t : TicketHeld(r, t)
  BY <1>3, <1>4 DEF TicketHeld
<1> QED
  BY <1>2, <1>5, <1>6, TicketsKeptByOne

LEMMA SetHealthyTickets ==
    ASSUME SelectionInv, NEW s \in Snapshot, TicketsDrawn(s),
           NEW on \in Snapshot, NEW u \in Range(Pool[on]), NEW value \in BOOLEAN,
           SetHealthy(on, u, value)
    PROVE  TicketsDrawn(s)'
<1>1. /\ DOMAIN healthy = Snapshot
      /\ healthy[on] \in [Range(Pool[on]) -> BOOLEAN]
      /\ sel \in [Request -> Selection]
  BY DEF SelectionInv, SelectionTypeOK, Selection
<1>2. /\ healthy' = [healthy EXCEPT ![on][u] = value] /\ cursor' = cursor
      /\ \A q \in Request : sel'[q] =
            IF Selecting(q) /\ sel[q].on = on /\ healthy[on][u] # value
            THEN [sel[q] EXCEPT !.steady = FALSE,
                     !.outage = @ \/ Eligible(on, sel[q].allowed, healthy') = {}]
            ELSE sel[q]
  BY DEF SetHealthy
<1>3. ASSUME NEW q \in Request
      PROVE  /\ sel'[q].on = sel[q].on /\ sel'[q].pc = sel[q].pc
             /\ sel'[q].total = sel[q].total
             /\ sel'[q] = sel[q] \/ ~sel'[q].steady
  <2>1. DOMAIN sel[q] = {"pc", "on", "allowed", "i", "total", "selected", "result",
                         "outage", "steady"}
    BY <1>1 DEF Selection
  <2> DEFINE out == sel[q].outage \/ Eligible(on, sel[q].allowed, healthy') = {}
  <2>2. \/ sel'[q] = sel[q]
        \/ sel'[q] = [sel[q] EXCEPT !.steady = FALSE, !.outage = out]
    BY <1>2
  <2> HIDE DEF out
  <2> QED
    BY <2>1, <2>2
<1>4. Drew(s)' = Drew(s)
  BY <1>3 DEF Drew
<1>5. ASSUME NEW q \in Drew(s), NEW t \in Nat, TicketHeld(sel[q], t)
      PROVE  TicketHeld(sel[q], t)'
  <2>1. q \in Request
    BY DEF Drew
  <2>2. CASE ~sel'[q].steady
    BY <2>2 DEF TicketHeld
  <2>3. CASE sel'[q] = sel[q] /\ sel'[q].steady
    <3>1. ASSUME sel[q].pc = "scan" PROVE healthy'[sel[q].on] = healthy[sel[q].on]
      <4>1. CASE sel[q].on # on
        <5>1. sel[q].on \in Snapshot
          BY <2>1, <3>1, WalkTyped
        <5> QED
          BY <1>1, <1>2, <4>1, <5>1
      <4>2. CASE sel[q].on = on
        <5>1. healthy[on][u] = value
          <6> SUFFICES ASSUME healthy[on][u] # value PROVE FALSE
            OBVIOUS
          <6>1. Selecting(q)
            BY <3>1 DEF Selecting
          <6> DEFINE out == sel[q].outage \/ Eligible(on, sel[q].allowed, healthy') = {}
          <6>2. sel'[q] = [sel[q] EXCEPT !.steady = FALSE, !.outage = out]
            BY <1>2, <2>1, <4>2, <6>1
          <6>3. DOMAIN sel[q] = {"pc", "on", "allowed", "i", "total", "selected",
                                 "result", "outage", "steady"}
            BY <1>1, <2>1 DEF Selection
          <6> HIDE DEF out
          <6>4. sel'[q].steady = FALSE
            BY <6>2, <6>3
          <6> QED
            BY <2>3, <6>4
        <5>2. [healthy[on] EXCEPT ![u] = value] = healthy[on]
          BY <1>1, <5>1
        <5>3. healthy'[on] = [healthy[on] EXCEPT ![u] = value]
          BY <1>1, <1>2
        <5> QED
          BY <4>2, <5>2, <5>3
      <4> QED
        BY <4>1, <4>2
    <3> QED
      BY <1>5, <2>3, <3>1, TicketIgnores
  <2> QED
    BY <1>3, <2>1, <2>2, <2>3
<1> QED
  BY <1>2, <1>4, <1>5, TicketsKept

\* A snapshot that nobody holds yet gets its flags.
LEMMA ReplacedTickets ==
    ASSUME SelectionInv, NEW s \in Snapshot, TicketsDrawn(s),
           NEW on \in Snapshot, NEW flags,
           healthy' = [healthy EXCEPT ![on] = flags], UNCHANGED <<cursor, sel>>,
           \A q \in Request : sel[q].on # on
    PROVE  TicketsDrawn(s)'
<1>1. DOMAIN healthy = Snapshot
  BY DEF SelectionInv, SelectionTypeOK
<1>2. Drew(s)' = Drew(s)
  BY DEF Drew
<1>3. ASSUME NEW q \in Drew(s), NEW t \in Nat, TicketHeld(sel[q], t)
      PROVE  TicketHeld(sel[q], t)'
  <2>1. q \in Request
    BY DEF Drew
  <2>2. sel[q].pc = "scan" => healthy'[sel[q].on] = healthy[sel[q].on]
    BY <1>1, <2>1, WalkTyped
  <2> QED
    BY <1>3, <2>2, TicketIgnores
<1> QED
  BY <1>2, <1>3, TicketsKept

LEMMA UntouchedTickets ==
    ASSUME NEW s \in Snapshot, TicketsDrawn(s), UNCHANGED selectionVars
    PROVE  TicketsDrawn(s)'
<1>1. UNCHANGED <<healthy, cursor, sel>>
  BY DEF selectionVars
<1>2. Drew(s)' = Drew(s)
  BY <1>1 DEF Drew
<1>3. ASSUME NEW q \in Drew(s), NEW t \in Nat, TicketHeld(sel[q], t)
      PROVE  TicketHeld(sel[q], t)'
  BY <1>1, <1>3, TicketIgnores
<1> QED
  BY <1>1, <1>2, <1>3, TicketsKept

\* What every step of the gateway keeps of the tickets.
TicketsInv == \A s \in Snapshot : TicketsDrawn(s)

\* A cursor has more values than requests come while its snapshot is in use.
FewRequests == IsFiniteSet(Request) /\ Cardinality(Request) <= CursorSize

LEMMA SelectUpstreamTickets ==
    ASSUME FewRequests, ProbesInv, NEW s \in Snapshot, TicketsDrawn(s),
           NEW q \in Request, SelectUpstream(q)
    PROVE  TicketsDrawn(s)'
<1>1. SelectionInv
  BY DEF ProbesInv
<1>2. CASE \E allowed \in deployment.allowed : BeginSelect(q, allowed)
  BY <1>1, <1>2, BeginSelectTickets
<1>3. CASE CountNext(q)
  BY <1>1, <1>3, CountNextTickets
<1>4. CASE Draw(q)
  BY <1>1, <1>4, DrawTickets DEF FewRequests
<1>5. CASE ScanNext(q)
  BY <1>1, <1>5, ScanNextTickets
<1>6. CASE ScanEnd(q)
  BY <1>1, <1>6, ScanEndTickets
<1> QED
  BY <1>2, <1>3, <1>4, <1>5, <1>6 DEF SelectUpstream, SelectStep

LEMMA ReloadTickets ==
    ASSUME ProbesInv, NEW s \in Snapshot, TicketsDrawn(s), Reload
    PROVE  TicketsDrawn(s)'
<1> DEFINE on == current + 1
           flags == [u \in Members(on) |-> Carried(on, u)]
<1>1. /\ healthy' = [healthy EXCEPT ![on] = flags] /\ UNCHANGED <<cursor, sel>>
      /\ on <= deployment.snapshots
  BY DEF Reload
<1>2. current \in Nat \ {0} /\ SelectionInv
  BY CurrentFacts DEF ProbesInv
<1>3. on \in Snapshot
  <2>1. /\ deployment.snapshots \in Nat
        /\ 1 .. deployment.snapshots \subseteq Snapshot
    BY DeploymentFacts DEF ProbesInv, ProberTyped
  <2>2. on \in 1 .. deployment.snapshots
    BY <1>1, <1>2, <2>1
  <2> QED
    BY <2>1, <2>2
<1>4. \A q \in Request : sel[q].on # on
  <2> TAKE q \in Request
  <2>1. sel[q].on <= current
    BY DEF ProbesInv, SnapshotsTaken
  <2> QED
    BY <1>2, <2>1
<1> HIDE DEF on, flags
<1> QED
  BY <1>1, <1>2, <1>3, <1>4, ReplacedTickets

LEMMA StoreTickets ==
    ASSUME ProbesInv, NEW s \in Snapshot, TicketsDrawn(s),
           NEW u \in Candidate, Store(u)
    PROVE  TicketsDrawn(s)'
<1> DEFINE value == probing[u] = "healthy"
<1>1. SetHealthy(current, u, value) /\ probing[u] # "none"
  BY DEF Store
<1>2. u \in Range(Pool[current]) /\ current \in Snapshot /\ SelectionInv
  BY <1>1, CurrentFacts DEF ProbesInv, ProbesLocated, Members
<1>3. value \in BOOLEAN
  OBVIOUS
<1> HIDE DEF value
<1> QED
  BY <1>1, <1>2, <1>3, SetHealthyTickets

LEMMA TicketsStep ==
    ASSUME FewRequests, ProbesInv, TicketsInv, [ProbesNext]_gatewayVars
    PROVE  TicketsInv'
<1> SUFFICES ASSUME NEW s \in Snapshot PROVE TicketsDrawn(s)'
  BY DEF TicketsInv
<1>1. TicketsDrawn(s)
  BY DEF TicketsInv
<1>2. CASE UNCHANGED selectionVars
  BY <1>1, <1>2, UntouchedTickets
<1>3. CASE Reload
  BY <1>1, <1>3, ReloadTickets
<1>4. CASE \E u \in Candidate : Store(u)
  BY <1>1, <1>4, StoreTickets
<1>5. CASE \E q \in Request : ArriveAtCurrent(q)
  <2>1. PICK q \in Request : TakeSnapshot(q, current)
    BY <1>5 DEF ArriveAtCurrent
  <2>2. current \in Snapshot /\ SelectionInv
    BY CurrentFacts DEF ProbesInv
  <2> QED
    BY <1>1, <2>1, <2>2, TakeSnapshotTickets
<1>6. CASE \E q \in Request : SelectUpstream(q)
  BY <1>1, <1>6, SelectUpstreamTickets
<1>7. \/ UNCHANGED selectionVars \/ Reload
      \/ \E u \in Candidate : Store(u)
      \/ \E q \in Request : ArriveAtCurrent(q)
      \/ \E q \in Request : SelectUpstream(q)
  <2>1. CASE UNCHANGED gatewayVars
    BY <2>1 DEF gatewayVars
  <2>2. CASE ProbesNext
    BY <2>2 DEF ProbesNext, BeginProbe, EndProbe, StopRunning, TakeSlot, GiveUp,
                Observe, ChangeHealth, Cancel
  <2> QED
    BY <2>1, <2>2
<1> QED
  BY <1>2, <1>3, <1>4, <1>5, <1>6, <1>7

\* The sums of a request that found its whole total among those allowed.
LEMMA SumsAllowed ==
    ASSUME NEW s \in Snapshot, NEW allowed, NEW us \in SUBSET allowed,
           NEW f, NEW g, PartialSums(f, us, Pool[s]), PartialSums(g, allowed, Pool[s]),
           f[Len(Pool[s])] = g[Len(Pool[s])], NEW k \in 1 .. Len(Pool[s])
    PROVE  /\ f[k - 1] <= g[k - 1] /\ g[k - 1] <= f[k - 1]
           /\ f[k] <= g[k] /\ g[k] <= f[k]
<1>1. k - 1 \in 0 .. Len(Pool[s]) /\ k \in 0 .. Len(Pool[s])
  BY PoolFacts
<1>2. us \subseteq allowed
  OBVIOUS
<1>3. ASSUME NEW i \in 0 .. Len(Pool[s]) PROVE f[i] <= g[i] /\ g[i] <= f[i]
  BY <1>2, SumsBelow, SumsReached
<1> QED
  BY <1>1, <1>3

\* A ticket falls on one upstream.
LEMMA OneFallsOn ==
    ASSUME NEW s \in Snapshot, NEW us, NEW f, PartialSums(f, us, Pool[s]),
           NEW j \in 1 .. Len(Pool[s]), NEW k \in 1 .. Len(Pool[s]), NEW x \in Nat,
           f[k - 1] <= x, x < f[k]
    PROVE  j = k <=> f[j - 1] <= x /\ x < f[j]
<1> DEFINE n == Len(Pool[s])
<1>1. /\ n \in Nat /\ f[j - 1] \in Nat /\ f[j] \in Nat
      /\ f[k - 1] \in Nat /\ f[k] \in Nat
  BY PoolFacts, NextSum
<1>2. ASSUME j < k PROVE f[j] <= f[k - 1]
  <2>1. j \in 0 .. n /\ k - 1 \in j .. n
    BY <1>1, <1>2
  <2> QED
    BY <2>1, SumsGrow
<1>3. ASSUME k < j PROVE f[k] <= f[j - 1]
  <2>1. k \in 0 .. n /\ j - 1 \in k .. n
    BY <1>1, <1>3
  <2> QED
    BY <2>1, SumsGrow
<1>4. j < k \/ j = k \/ k < j
  BY <1>1
<1> QED
  BY <1>1, <1>2, <1>3, <1>4

LEMMA TicketsShare ==
    ASSUME FewRequests, SelectionInv, TicketsInv
    PROVE  WeightedShare
<1>0. SUFFICES ASSUME NEW s \in Snapshot, NEW allowed \in SUBSET Candidate,
                    NEW drawn,
                    drawn = {q \in Request : sel[q].on = s /\ sel[q].pc # "idle"},
                    NEW T, T = WeightOf(allowed, Pool[s]), T > 0,
                    \A q \in drawn : /\ sel[q].pc = "done" /\ sel[q].steady
                                     /\ sel[q].allowed = allowed
                                     /\ sel[q].total = T,
                    Cardinality(drawn) % T = 0,
                    NEW u \in allowed \cap Range(Pool[s])
             PROVE  Cardinality({q \in drawn : sel[q].result = u}) =
                       Weight[u] * (Cardinality(drawn) \div T)
  BY DEF WeightedShare
<1> DEFINE len == Len(Pool[s])
<1>1. PICK g : PartialSums(g, allowed, Pool[s]) /\ g[len] = T
  BY <1>0, WeightIsSum
<1>2. /\ len \in Nat /\ g \in [0 .. len -> Nat] /\ T \in Nat \ {0}
  BY <1>0, <1>1, PoolFacts DEF PartialSums, SumsUpTo
<1>3. drawn = Drew(s)
  BY <1>0, <1>2 DEF Drew
<1>4. PICK n \in Nat : \E ticket \in Bijection(drawn, 0 .. n - 1) :
         \A q \in drawn : TicketHeld(sel[q], ticket[q])
  BY <1>3 DEF TicketsInv, TicketsDrawn
<1>5. PICK ticket \in Bijection(drawn, 0 .. n - 1) :
         \A q \in drawn : TicketHeld(sel[q], ticket[q])
  BY <1>4
<1>6. IsFiniteSet(drawn)
  BY <1>0, FS_Subset DEF FewRequests
<1>7. Cardinality(drawn) = n
  BY <1>5, <1>6, TicketCount
<1>8. PICK m \in Nat : n = m * T /\ m = n \div T
  <2>1. n % T = 0
    BY <1>0, <1>7
  <2>2. n \div T \in Nat /\ n = (n \div T) * T + (n % T)
    BY <1>2, TicketParts
  <2>3. n = (n \div T) * T
    BY <1>2, <2>1, <2>2
  <2> QED
    BY <2>2, <2>3
<1>9. PICK j \in 1 .. len : Pool[s][j] = u
  BY <1>0, PoolFacts
<1>10. \A q \in drawn : ticket[q] \in Nat /\ ticket[q] % T \in Nat
  <2> TAKE q \in drawn
  <2>1. ticket[q] \in Nat
    BY <1>5, Numbering
  <2> QED
    BY <1>2, <2>1, TicketParts
<1>11. ASSUME NEW q \in drawn
       PROVE  sel[q].result = u <=> g[j - 1] <= ticket[q] % T /\ ticket[q] % T < g[j]
  <2>1. /\ sel[q].pc = "done" /\ sel[q].steady /\ sel[q].allowed = allowed
        /\ sel[q].total = T /\ sel[q].on = s
    BY <1>0, <1>3 DEF Drew
  <2>2. PICK us \in SUBSET (allowed \cap Range(Pool[s])) : \E sums :
           /\ PartialSums(sums, us, Pool[s])
           /\ sums[len] = T
           /\ \E k \in 1 .. len : FallsOn(sel[q], ticket[q], k, sums)
    BY <1>5, <2>1 DEF TicketHeld
  <2>3. PICK sums :
           /\ PartialSums(sums, us, Pool[s])
           /\ sums[len] = T
           /\ \E k \in 1 .. len : FallsOn(sel[q], ticket[q], k, sums)
    BY <2>2
  <2>4. PICK k \in 1 .. len : FallsOn(sel[q], ticket[q], k, sums)
    BY <2>3
  <2>5. sums[k - 1] = g[k - 1] /\ sums[k] = g[k]
    <3>1. us \in SUBSET allowed /\ sums[len] = g[len]
      BY <1>1, <2>3
    <3>2. PartialSums(sums, us, Pool[s]) /\ PartialSums(g, allowed, Pool[s])
      BY <1>1, <2>3
    <3>3. /\ sums[k - 1] <= g[k - 1] /\ g[k - 1] <= sums[k - 1]
          /\ sums[k] <= g[k] /\ g[k] <= sums[k]
      BY <3>1, <3>2, SumsAllowed
    <3>4. /\ sums[k - 1] \in Nat /\ sums[k] \in Nat
          /\ g[k - 1] \in Nat /\ g[k] \in Nat
      BY <3>2, NextSum
    <3> QED
      BY <3>3, <3>4
  <2>6. /\ sel[q].result = Pool[s][k]
        /\ g[k - 1] <= ticket[q] % T /\ ticket[q] % T < g[k]
    BY <2>1, <2>4, <2>5 DEF FallsOn
  <2>7. sel[q].result = u <=> j = k
    BY <1>9, <2>6, PoolFacts
  <2>8. j = k <=> g[j - 1] <= ticket[q] % T /\ ticket[q] % T < g[j]
    <3> DEFINE x == ticket[q] % T
    <3>1. x \in Nat /\ g[k - 1] <= x /\ x < g[k]
      BY <1>10, <2>6
    <3> HIDE DEF x
    <3>2. PartialSums(g, allowed, Pool[s])
      BY <1>1
    <3>3. j = k <=> g[j - 1] <= x /\ x < g[j]
      BY <3>1, <3>2, OneFallsOn
    <3> QED
      BY <3>3 DEF x
  <2> QED
    BY <2>7, <2>8
<1>12. PICK served : served = {q \in drawn : sel[q].result = u}
  OBVIOUS
<1>13. served = {q \in drawn : g[j - 1] <= ticket[q] % T /\ ticket[q] % T < g[j]}
  BY <1>11, <1>12
<1>14. /\ g[j - 1] \in Nat /\ g[j] \in Nat /\ Weight[u] \in Nat
       /\ g[j] = g[j - 1] + Weight[u] /\ g[j] <= T
  <2>1. Portion(allowed, Pool[s], j) = Weight[u]
    BY <1>0, <1>9 DEF Portion
  <2>2. /\ g[j - 1] \in Nat /\ g[j] \in Nat
        /\ g[j] = g[j - 1] + Portion(allowed, Pool[s], j)
    <3>1. PartialSums(g, allowed, Pool[s])
      BY <1>1
    <3> QED
      BY <3>1, NextSum
  <2>3. j \in 0 .. len /\ len \in j .. len
    BY <1>2
  <2>4. g[j] <= g[len]
    BY <1>1, <2>3, SumsGrow
  <2>5. Weight[u] \in Nat
    BY <1>0, PoolFacts, WeightFacts
  <2> QED
    BY <1>1, <2>1, <2>2, <2>4, <2>5
<1>15. Cardinality(served) = (g[j] - g[j - 1]) * m
  <2>1. ticket \in Bijection(drawn, 0 .. m * T - 1)
    BY <1>8
  <2>2. g[j - 1] <= g[j]
    BY <1>14
  <2>3. PICK a \in Nat : a = g[j - 1]
    BY <1>14
  <2>4. PICK b \in Nat : b = g[j]
    BY <1>14
  <2>5. Cardinality({q \in drawn : a <= ticket[q] % T /\ ticket[q] % T < b})
           = (b - a) * m
    <3>1. T \in Nat \ {0} /\ a <= b /\ b <= T
      BY <1>2, <1>14, <2>2, <2>3, <2>4
    <3>2. /\ IsFiniteSet(drawn) /\ m \in Nat
          /\ ticket \in Bijection(drawn, 0 .. m * T - 1)
      BY <1>6, <2>1
    <3> QED
      BY <3>1, <3>2, RoundShares
  <2> QED
    BY <1>13, <2>3, <2>4, <2>5
<1>16. g[j] - g[j - 1] = Weight[u]
  BY <1>14
<1> QED
  BY <1>7, <1>8, <1>12, <1>15, <1>16

(***************************************************************************)
(* Weights are shares (SelectUpstreamWhere): however requests interleave   *)
(* and whatever the prober does, every full round of tickets gives each    *)
(* upstream as many requests as its weight.  The hypothesis: the cursor,   *)
(* of 64 bits in the code, does not wrap in the lifetime of a snapshot.    *)
(***************************************************************************)
THEOREM SharesFollowWeights ==
    ASSUME FewRequests PROVE ProbesSpec => []WeightedShare
<1>1. ProbesInit => TicketsInv
  BY TicketsBegin DEF ProbesInit, TicketsInv
<1>2. ProbesInv /\ TicketsInv /\ [ProbesNext]_gatewayVars => TicketsInv'
  BY TicketsStep
<1>3. ProbesInv /\ TicketsInv => WeightedShare
  BY TicketsShare DEF ProbesInv
<1> QED
  BY <1>1, <1>2, <1>3, ProbesInvariant, PTL DEF ProbesSpec

-----------------------------------------------------------------------------
(* The checks on a request *)

\* What ServeHTTP has answered when it stops a request before the policy.
Refusal == {"not_found", "unauthorized", "forbidden", "method_not_allowed",
            "unsupported_media_type", "too_large"}

\* The first of the six refusals that apply.
LEMMA FirstRefusal ==
    ASSUME NEW ok \in [Check -> BOOLEAN],
           NEW I, I = {k \in 1 .. 6 : Refusals(ok)[k].when}
    PROVE  Admission(ok) = IF I # {} THEN Refusals(ok)[Min(I)].code ELSE "pass"
<1>1. Len(Refusals(ok)) = 6
  BY DEF Refusals
<1>2. SelectInSeq(Refusals(ok), LAMBDA refusal : refusal.when) =
         IF I # {} THEN Min(I) ELSE 0
  BY <1>1 DEF SelectInSeq
<1>3. I # {} => Min(I) # 0
  BY DEF Min
<1> QED
  BY <1>2, <1>3 DEF Admission

\* A client the listener is not meant to serve is refused by one of the first
\* three checks: were it not, none of them applied.
LEMMA UnauthorisedRefused ==
    ASSUME NEW outcome \in Outcome
    PROVE  /\ outcome.code \in Refusal \cup {"pass"}
           /\ outcome.authorised \in BOOLEAN
           /\ ~outcome.authorised =>
                 outcome.code \in {"not_found", "unauthorized", "forbidden"}
<1>1. PICK ok \in [Check -> BOOLEAN] :
         outcome = [code |-> Admission(ok), authorised |-> Authorised(ok)]
  BY DEF Outcome
<1> DEFINE I == {k \in 1 .. 6 : Refusals(ok)[k].when}
<1>2. /\ ok["key"] \in BOOLEAN /\ ok["public"] \in BOOLEAN
      /\ ok["permitted"] \in BOOLEAN
  BY DEF Check
<1>3. outcome.authorised <=> Authorised(ok)
  BY <1>1
<1>4. outcome.authorised \in BOOLEAN
  BY <1>1, <1>2 DEF Authorised
<1>5. outcome.code = IF I # {} THEN Refusals(ok)[Min(I)].code ELSE "pass"
  <2> HIDE DEF I
  <2>1. Admission(ok) = IF I # {} THEN Refusals(ok)[Min(I)].code ELSE "pass"
    BY FirstRefusal DEF I
  <2> QED
    BY <1>1, <2>1
<1>6. I # {} => Min(I) \in I /\ \A k \in I : Min(I) <= k
  <2>1. I \subseteq 1 .. 6
    OBVIOUS
  <2> HIDE DEF I
  <2> SUFFICES ASSUME I # {} PROVE Min(I) \in I /\ \A k \in I : Min(I) <= k
    OBVIOUS
  <2>2. \E x \in I : \A k \in I : x <= k
    <3>1. CASE 1 \in I
      BY <2>1, <3>1
    <3>2. CASE 1 \notin I /\ 2 \in I
      BY <2>1, <3>2
    <3>3. CASE 1 \notin I /\ 2 \notin I /\ 3 \in I
      BY <2>1, <3>3
    <3>4. CASE 1 \notin I /\ 2 \notin I /\ 3 \notin I /\ 4 \in I
      BY <2>1, <3>4
    <3>5. CASE I \cap {1, 2, 3, 4} = {} /\ 5 \in I
      BY <2>1, <3>5
    <3>6. CASE I \cap {1, 2, 3, 4, 5} = {}
      <4>1. \A k \in I : k = 6
        BY <2>1, <3>6
      <4>2. 6 \in I /\ \A k \in I : 6 <= k
        BY <4>1
      <4> QED
        BY <4>2
    <3> QED
      BY <3>1, <3>2, <3>3, <3>4, <3>5, <3>6
  <2> QED
    BY <2>2 DEF Min
<1>7. /\ Refusals(ok)[1].code = "not_found"
      /\ Refusals(ok)[2].code = "unauthorized"
      /\ Refusals(ok)[3].code = "forbidden"
      /\ \A k \in 1 .. 6 : Refusals(ok)[k].code \in Refusal
  BY DEF Refusals, Refusal
<1>7a. /\ ~ok["key"] /\ ~ok["public"] => Refusals(ok)[2].when
       /\ ok["key"] /\ ~ok["public"] /\ ~ok["permitted"] => Refusals(ok)[3].when
  BY DEF Refusals
<1>8. /\ ~ok["key"] /\ ~ok["public"] => 2 \in I
      /\ ok["key"] /\ ~ok["public"] /\ ~ok["permitted"] => 3 \in I
  BY <1>7a
<1>9. I \subseteq 1 .. 6
  OBVIOUS
<1> HIDE DEF I
<1>10. outcome.code \in Refusal \cup {"pass"}
  BY <1>5, <1>6, <1>7, <1>9
<1>11. ASSUME ~Authorised(ok)
       PROVE  outcome.code \in {"not_found", "unauthorized", "forbidden"}
  <2>1. 2 \in I \/ 3 \in I
    BY <1>2, <1>8, <1>11 DEF Authorised
  <2>2. Min(I) \in {1, 2, 3}
    <3>1. Min(I) \in 1 .. 6 /\ (Min(I) <= 2 \/ Min(I) <= 3)
      BY <1>6, <1>9, <2>1
    <3> QED
      BY <3>1
  <2> QED
    BY <1>5, <1>7, <2>1, <2>2
<1> QED
  BY <1>3, <1>4, <1>10, <1>11

-----------------------------------------------------------------------------
(* The pipeline: what holds besides the types *)

Progress ==
    [pc : {"new", "policy", "circuits", "select", "proxy", "done"},
     ok : BOOLEAN, counted : BOOLEAN, i : Nat \ {0},
     blocked : SUBSET Candidate, closed : SUBSET Candidate, code : Code,
     outcome : Result \cup {"none"}, tries : 0 .. Tries, late : 0 .. Tries]

CircuitsTyped ==
    /\ now \in 0 .. MaxTime
    /\ failures \in [Candidate -> [count : Nat, expires : Nat]]
    /\ \A u \in Candidate : failures[u].count # 0 =>
          \E q \in Request : failures[u].count < Threshold[q]
    /\ open \in [Candidate -> Nat]
    /\ results \in [Candidate -> Seq([ok : BOOLEAN, at : Nat])]

\* How far ServeHTTP and the selection it calls have come, in step.
InStep(q) ==
    /\ request[q].pc = "new" => sel[q].pc = "idle"
    /\ request[q].pc # "new" => sel[q].on # 0
    /\ request[q].pc \in {"policy", "circuits"} => sel[q].pc = "idle"
    /\ request[q].pc = "proxy" => sel[q].result # None

\* A client that is not authorised got no further than the checks.
StoppedEarly(q) ==
    request[q].pc # "new" /\ ~request[q].ok =>
        /\ request[q].pc = "done" /\ ~request[q].counted /\ sel[q].pc = "idle"
        /\ request[q].code \in {"not_found", "unauthorized", "forbidden"}

\* closed has every upstream whose circuit is closed now.
ClosedSeen(q) ==
    request[q].pc # "new" =>
        \A u \in Candidate : open[u] <= now => u \in request[q].closed

\* What request q has read of the circuits so far, and what it chooses from
\* once it has read them all.
CircuitsRead(q) ==
    Threshold[q] > 0 =>
        /\ request[q].pc \in {"policy", "circuits"} =>
              \A k \in 1 .. Len(PoolOf(q)) : k < request[q].i =>
                  PoolOf(q)[k] \in request[q].blocked \cup request[q].closed
        /\ sel[q].pc # "idle" =>
              sel[q].allowed \cap Range(PoolOf(q)) \subseteq request[q].closed

\* A copy of RecordUpstream's command that may still run is that of a request
\* with a circuit breaker, which was sent to an upstream.
LateSent(q) ==
    /\ request[q].late <= request[q].tries
    /\ request[q].late > 0 =>
          /\ Threshold[q] > 0 /\ sel[q].result # None
          /\ request[q].pc \in {"proxy", "done"}

RequestInv(q) ==
    /\ InStep(q) /\ StoppedEarly(q) /\ ClosedSeen(q) /\ CircuitsRead(q)
    /\ LateSent(q)

\* A live counter counts the last failures, each young enough.
FailureRun(u) ==
    /\ \A k \in 1 .. Len(results[u]) : results[u][k].at <= now
    /\ Live(failures[u].expires) =>
          /\ failures[u].count \in 1 .. Len(results[u])
          /\ \A k \in Len(results[u]) - failures[u].count + 1 .. Len(results[u]) :
                /\ ~results[u][k].ok
                /\ \E r \in Request :
                      results[u][k].at + OpenFor[r] >= failures[u].expires

PipelineInv ==
    /\ SelectionInv
    /\ CircuitsTyped
    /\ request \in [Request -> Progress]
    /\ flips \in 0 .. MaxFlips
    /\ \A q \in Request : RequestInv(q)
    /\ \A u \in Candidate : FailureRun(u)

LEMMA PipelineBegins == Init => PipelineInv
<1> SUFFICES ASSUME Init PROVE PipelineInv
  OBVIOUS
<1>1. SelectionInv
  BY SelectionBegins DEF Init
<1>2. CircuitsTyped /\ flips \in 0 .. MaxFlips
  BY PipelineAssumption DEF Init, CircuitsTyped, NoFailures
<1>3. request \in [Request -> Progress]
  BY PipelineAssumption DEF Init, New, Progress, Code
<1>4. \A q \in Request : RequestInv(q)
  BY <1>1 DEF Init, New, SelectionInit, NotStarted, RequestInv, InStep,
              StoppedEarly, ClosedSeen, CircuitsRead, LateSent
<1>5. \A u \in Candidate : FailureRun(u)
  BY DEF Init, FailureRun, Live, NoFailures
<1> QED
  BY <1>1, <1>2, <1>3, <1>4, <1>5 DEF PipelineInv

-----------------------------------------------------------------------------
(* Steps of one request *)

\* A step of request q leaves the others as they are, as long as no circuit
\* closes by it.
LEMMA OneMoves ==
    ASSUME PipelineInv, NEW q \in Request, NEW r \in Progress, SelectionInv',
           request' = [request EXCEPT ![q] = r],
           \A p \in Request \ {q} : sel'[p] = sel[p],
           \A u \in Candidate : open'[u] <= now' => open[u] <= now,
           RequestInv(q)'
    PROVE  /\ request' \in [Request -> Progress]
           /\ \A p \in Request : RequestInv(p)'
<1>1. request \in [Request -> Progress]
  BY DEF PipelineInv
<1>2. request' \in [Request -> Progress] /\ request'[q] = r
      /\ \A p \in Request \ {q} : request'[p] = request[p]
  BY <1>1
<1>3. ASSUME NEW p \in Request \ {q} PROVE RequestInv(p)'
  <2>1. RequestInv(p) /\ request'[p] = request[p] /\ sel'[p] = sel[p]
    BY <1>2 DEF PipelineInv
  <2> QED
    BY <2>1 DEF RequestInv, InStep, StoppedEarly, ClosedSeen, CircuitsRead, LateSent,
                PoolOf
<1> QED
  BY <1>2, <1>3

\* Such a step when it records nothing.
LEMMA NothingRecorded ==
    ASSUME PipelineInv, NEW q \in Request, NEW r \in Progress, SelectionInv',
           request' = [request EXCEPT ![q] = r],
           \A p \in Request \ {q} : sel'[p] = sel[p],
           UNCHANGED <<circuitVars, results, flips>>, RequestInv(q)'
    PROVE  PipelineInv'
<1>1. CircuitsTyped' /\ flips' \in 0 .. MaxFlips
  BY DEF PipelineInv, CircuitsTyped, circuitVars
<1>2. \A u \in Candidate : FailureRun(u)'
  BY DEF PipelineInv, FailureRun, Live, circuitVars
<1>3. \A u \in Candidate : open'[u] <= now' => open[u] <= now
  BY DEF circuitVars
<1> QED
  BY <1>1, <1>2, <1>3, OneMoves DEF PipelineInv

LEMMA Admitted ==
    ASSUME NEW r \in Progress,
           NEW pc \in {"new", "policy", "circuits", "select", "proxy", "done"},
           NEW ok \in BOOLEAN, NEW closed \in SUBSET Candidate, NEW code \in Code
    PROVE  [r EXCEPT !.pc = pc, !.ok = ok, !.closed = closed, !.code = code]
              \in Progress
<1> DEFINE a == [r EXCEPT !.pc = pc]
           b == [a EXCEPT !.ok = ok]
           c == [b EXCEPT !.closed = closed]
<1>1. a \in Progress
  BY DEF Progress
<1> HIDE DEF a
<1>2. b \in Progress
  BY <1>1 DEF Progress
<1> HIDE DEF b
<1>3. c \in Progress
  BY <1>2 DEF Progress
<1> HIDE DEF c
<1>4. [c EXCEPT !.code = code] \in Progress
  BY <1>3 DEF Progress
<1> QED
  BY <1>4 DEF a, b, c

LEMMA ArriveKeeps ==
    ASSUME PipelineInv, NEW q \in Request, NEW s \in Snapshot,
           NEW outcome \in Outcome, Arrive(q, s, outcome), flips' = flips
    PROVE  PipelineInv'
<1> DEFINE pass == outcome.code = "pass"
           seen == {u \in Candidate : ~CircuitOpen(u)}
           pc == IF ~pass THEN "done" ELSE IF Limited THEN "policy" ELSE "circuits"
           code == IF pass THEN "none" ELSE outcome.code
           ok == outcome.authorised
           r == [New EXCEPT !.pc = pc, !.ok = ok,
                            !.closed = seen, !.code = code]
<1>1. /\ ok \in BOOLEAN
      /\ outcome.code \in Refusal \cup {"pass"}
      /\ ~ok => outcome.code \in {"not_found", "unauthorized", "forbidden"}
  BY UnauthorisedRefused
<1>2. /\ TakeSnapshot(q, s) /\ UNCHANGED <<circuitVars, results>>
      /\ request' = [request EXCEPT ![q] = r]
      /\ request \in [Request -> Progress]
  BY DEF Arrive, PipelineInv
<1>3. SelectionInv'
  BY <1>2, TakeSnapshotKeeps DEF PipelineInv
<1>4. /\ sel'[q].pc = "idle" /\ sel'[q].on = s /\ sel'[q].result = None
      /\ \A p \in Request \ {q} : sel'[p] = sel[p]
  <2>1. /\ sel' = [sel EXCEPT ![q].on = s] /\ sel[q].pc = "idle"
        /\ sel \in [Request -> Selection]
    BY <1>2 DEF TakeSnapshot, PipelineInv, SelectionInv, SelectionTypeOK, Selection
  <2>2. sel[q].result = None
    BY <2>1, SelectionTyped DEF PipelineInv, WalkInv
  <2> QED
    BY <2>1, <2>2 DEF Selection
<1>5. pc \in {"done", "policy", "circuits"} /\ seen \in SUBSET Candidate
  OBVIOUS
<1>6. code \in Code
  BY <1>1 DEF Refusal, Code
<1>7. ~ok =>
         pc = "done" /\ code \in {"not_found", "unauthorized", "forbidden"}
  BY <1>1
<1>8. \A u \in Candidate : open[u] <= now => u \in seen
  BY DEF CircuitOpen, Live, PipelineInv, CircuitsTyped
<1> HIDE DEF pc, code, seen, ok
<1>9. /\ r \in Progress /\ r.pc = pc /\ r.ok = ok /\ ~r.counted
      /\ r.i = 1 /\ r.closed = seen /\ r.code = code /\ r.late = 0 /\ r.tries = 0
  <2>1. /\ r.pc = pc /\ r.ok = ok /\ ~r.counted
        /\ r.i = 1 /\ r.closed = seen /\ r.code = code /\ r.late = 0 /\ r.tries = 0
    BY DEF New
  <2>2. r \in Progress
    <3>1. New \in Progress
      BY PipelineAssumption DEF New, Progress, Code
    <3>2. pc \in {"new", "policy", "circuits", "select", "proxy", "done"}
      BY <1>5
    <3> QED
      BY <1>1, <1>5, <1>6, <3>1, <3>2, Admitted
  <2> QED
    BY <2>1, <2>2
<1> HIDE DEF r
<1>10. request'[q] = r
  BY <1>2
<1>11. RequestInv(q)'
  <2>1. InStep(q)'
    BY <1>4, <1>5, <1>9, <1>10, PoolFacts DEF InStep
  <2>2. StoppedEarly(q)'
    BY <1>4, <1>7, <1>9, <1>10 DEF StoppedEarly
  <2>3. ClosedSeen(q)'
    BY <1>2, <1>8, <1>9, <1>10 DEF ClosedSeen, circuitVars
  <2>4. CircuitsRead(q)'
    BY <1>4, <1>9, <1>10 DEF CircuitsRead, PoolOf
  <2>5. LateSent(q)'
    BY <1>9, <1>10 DEF LateSent
  <2> QED
    BY <2>1, <2>2, <2>3, <2>4, <2>5 DEF RequestInv
<1> QED
  BY <1>2, <1>3, <1>4, <1>9, <1>11, NothingRecorded

\* The steps that leave the selection as it is and only move the request on.
LEMMA MovesOn ==
    ASSUME PipelineInv, NEW q \in Request, NEW r \in Progress,
           request' = [request EXCEPT ![q] = r],
           UNCHANGED <<selectionVars, circuitVars, results, flips>>,
           request[q].pc \in {"policy", "circuits", "select", "proxy"},
           r.pc \in {"circuits", "proxy", "done"},
           r.ok = request[q].ok, r.closed = request[q].closed,
           r.late = request[q].late, r.tries = request[q].tries,
           r.pc = "circuits" =>
              /\ request[q].pc \in {"policy", "circuits"}
              /\ Threshold[q] > 0 => \A k \in 1 .. Len(PoolOf(q)) : k < r.i =>
                     PoolOf(q)[k] \in r.blocked \cup r.closed,
           r.pc = "proxy" => sel[q].result # None
    PROVE  PipelineInv'
<1>1. SelectionInv' /\ sel' = sel
  BY SelectionUntouched DEF PipelineInv, selectionVars
<1>2. request'[q] = r /\ RequestInv(q) /\ request[q] \in Progress
  BY DEF PipelineInv
<1>3. InStep(q)' /\ CircuitsRead(q)'
  BY <1>1, <1>2 DEF RequestInv, InStep, CircuitsRead, PoolOf
<1>4. StoppedEarly(q)' /\ ClosedSeen(q)'
  BY <1>1, <1>2 DEF RequestInv, StoppedEarly, ClosedSeen, circuitVars
<1>5. LateSent(q)'
  BY <1>1, <1>2 DEF RequestInv, LateSent
<1> QED
  BY <1>1, <1>3, <1>4, <1>5, NothingRecorded DEF RequestInv

LEMMA AllowRequestKeeps ==
    ASSUME PipelineInv, NEW q \in Request,
           NEW d \in {"allow", "rate_limited", "quota_exceeded", "policy_unavailable"},
           AllowRequest(q, d), flips' = flips
    PROVE  PipelineInv'
<1> DEFINE pc == IF d = "allow" THEN "circuits" ELSE "done"
           code == IF d = "allow" THEN request[q].code ELSE d
           r == [request[q] EXCEPT !.counted = TRUE, !.pc = pc, !.code = code]
<1>1. /\ request[q].pc = "policy" /\ request \in [Request -> Progress]
      /\ UNCHANGED <<selectionVars, circuitVars, results>>
      /\ request' = [request EXCEPT ![q] = r]
  BY DEF AllowRequest, PipelineInv
<1>2. pc \in {"circuits", "done"} /\ code \in Code
  BY <1>1 DEF Progress, Code
<1> HIDE DEF pc, code
<1>3. /\ r \in Progress /\ r.pc = pc /\ r.ok = request[q].ok
      /\ r.closed = request[q].closed /\ r.i = request[q].i
      /\ r.blocked = request[q].blocked
      /\ r.late = request[q].late /\ r.tries = request[q].tries
  BY <1>1, <1>2 DEF Progress
<1> HIDE DEF r
<1>4. Threshold[q] > 0 => \A k \in 1 .. Len(PoolOf(q)) : k < request[q].i =>
         PoolOf(q)[k] \in request[q].blocked \cup request[q].closed
  BY <1>1 DEF PipelineInv, RequestInv, CircuitsRead
<1> QED
  BY <1>1, <1>2, <1>3, <1>4, MovesOn

\* A request that is answered.
LEMMA Answered ==
    ASSUME PipelineInv, NEW q \in Request, NEW code \in Code, Answer(q, code)
    PROVE  \E r \in Progress :
              /\ request' = [request EXCEPT ![q] = r]
              /\ r.pc = "done" /\ r.ok = request[q].ok
              /\ r.closed = request[q].closed
              /\ r.late = request[q].late /\ r.tries = request[q].tries
<1> DEFINE r == [request[q] EXCEPT !.pc = "done", !.code = code]
<1>1. request[q] \in Progress
  BY DEF PipelineInv
<1>2. /\ r \in Progress /\ r.pc = "done" /\ r.ok = request[q].ok
      /\ r.closed = request[q].closed
      /\ r.late = request[q].late /\ r.tries = request[q].tries
  BY <1>1 DEF Progress
<1>3. request' = [request EXCEPT ![q] = r]
  BY DEF Answer
<1> HIDE DEF r
<1> QED
  BY <1>2, <1>3

LEMMA ReadCircuitKeeps ==
    ASSUME PipelineInv, NEW q \in Request, ReadCircuit(q), flips' = flips
    PROVE  PipelineInv'
<1> DEFINE u == PoolOf(q)[request[q].i]
           found == {v \in {u} : CircuitOpen(v)}
           blocked == request[q].blocked \cup found
           r == [request[q] EXCEPT !.i = request[q].i + 1, !.blocked = blocked]
<1>1. /\ request[q].pc = "circuits" /\ Threshold[q] > 0
      /\ request[q].i <= Len(PoolOf(q)) /\ request[q] \in Progress
      /\ UNCHANGED <<selectionVars, circuitVars, results>>
  BY DEF ReadCircuit, PipelineInv
<1>2. CASE Answer(q, "policy_unavailable")
  <2>1. "policy_unavailable" \in Code
    BY DEF Code
  <2> QED
    BY <1>1, <1>2, <2>1, Answered, MovesOn
<1>3. CASE request' = [request EXCEPT ![q].i = @ + 1,
             ![q].blocked = @ \cup {v \in {PoolOf(q)[request[q].i]} : CircuitOpen(v)}]
  <2>1. request' = [request EXCEPT ![q] = r]
    BY <1>3
  <2>2. /\ sel[q].on \in Snapshot /\ request[q].i \in Nat \ {0}
        /\ RequestInv(q) /\ CircuitsTyped
    BY <1>1, SelectionTyped DEF PipelineInv, RequestInv, InStep, Progress
  <2>3. u \in Candidate
    BY <1>1, <2>2, PoolFacts DEF PoolOf
  <2>4. u \in blocked \cup request[q].closed
    <3>1. CASE CircuitOpen(u)
      BY <3>1
    <3>2. CASE ~CircuitOpen(u)
      BY <1>1, <2>2, <2>3, <3>2
         DEF CircuitOpen, Live, RequestInv, ClosedSeen, CircuitsTyped
    <3> QED
      BY <3>1, <3>2
  <2>5. blocked \in SUBSET Candidate /\ request[q].blocked \subseteq blocked
    BY <1>1, <2>3 DEF Progress
  <2>6. \A k \in 1 .. Len(PoolOf(q)) : k < request[q].i + 1 =>
           PoolOf(q)[k] \in blocked \cup request[q].closed
    <3> TAKE k \in 1 .. Len(PoolOf(q))
    <3> HAVE k < request[q].i + 1
    <3>1. CASE k = request[q].i
      BY <2>4, <3>1
    <3>2. CASE k < request[q].i
      BY <1>1, <2>2, <2>5, <3>2 DEF RequestInv, CircuitsRead
    <3> QED
      BY <2>2, <3>1, <3>2
  <2> HIDE DEF blocked
  <2>7. /\ r \in Progress /\ r.pc = "circuits" /\ r.ok = request[q].ok
        /\ r.closed = request[q].closed /\ r.i = request[q].i + 1
        /\ r.blocked = blocked
        /\ r.late = request[q].late /\ r.tries = request[q].tries
    <3> DEFINE i == request[q].i + 1
               a == [request[q] EXCEPT !.i = i]
    <3>1. i \in Nat \ {0} /\ request[q] \in Progress /\ blocked \in SUBSET Candidate
      BY <1>1, <2>2, <2>5
    <3> HIDE DEF i
    <3>2. /\ a \in Progress /\ a.pc = request[q].pc /\ a.ok = request[q].ok
          /\ a.closed = request[q].closed /\ a.i = i
          /\ a.late = request[q].late /\ a.tries = request[q].tries
      BY <3>1 DEF Progress
    <3>3. r = [a EXCEPT !.blocked = blocked]
      BY DEF i
    <3> HIDE DEF a
    <3>4. /\ r \in Progress /\ r.pc = a.pc /\ r.ok = a.ok
          /\ r.closed = a.closed /\ r.i = a.i /\ r.blocked = blocked
          /\ r.late = a.late /\ r.tries = a.tries
      <4> HIDE DEF r
      <4> QED
        BY <3>1, <3>2, <3>3 DEF Progress
    <3> QED
      BY <1>1, <3>2, <3>4 DEF i
  <2> HIDE DEF r
  <2> QED
    BY <1>1, <2>1, <2>6, <2>7, MovesOn
<1> QED
  BY <1>2, <1>3 DEF ReadCircuit

LEMMA SelectKeeps ==
    ASSUME PipelineInv, NEW q \in Request, Select(q), flips' = flips
    PROVE  PipelineInv'
<1> DEFINE allowed == Candidate \ request[q].blocked
           r == [request[q] EXCEPT !.pc = "select"]
<1>1. /\ request[q].pc = "circuits" /\ request[q] \in Progress /\ RequestInv(q)
      /\ Threshold[q] = 0 \/ request[q].i > Len(PoolOf(q))
      /\ BeginSelect(q, allowed) /\ Threshold[q] \in Nat
      /\ request' = [request EXCEPT ![q] = r]
      /\ UNCHANGED <<circuitVars, results>>
  BY PipelineAssumption DEF Select, PipelineInv
<1>2. /\ r \in Progress /\ r.pc = "select" /\ r.ok = request[q].ok
      /\ r.closed = request[q].closed
      /\ r.late = request[q].late /\ r.tries = request[q].tries
  BY <1>1 DEF Progress
<1>3. /\ SelectionInv' /\ sel'[q].on = sel[q].on
      /\ \A p \in Request \ {q} : sel'[p] = sel[p]
  BY <1>1, SelectEffect DEF PipelineInv
<1>4. sel'[q].allowed = allowed /\ sel[q].on \in Snapshot
  <2> DEFINE out == Eligible(sel[q].on, allowed, healthy) = {}
  <2>1. sel' = [sel EXCEPT ![q].pc = "count", ![q].allowed = allowed,
                          ![q].outage = out]
    BY <1>1 DEF BeginSelect
  <2> HIDE DEF out, allowed
  <2>2. sel \in [Request -> Selection]
    BY DEF PipelineInv, SelectionInv, SelectionTypeOK, Selection
  <2> QED
    BY <1>1, <2>1, <2>2, SelectionTyped
       DEF Selection, PipelineInv, RequestInv, InStep
<1>5. request'[q] = r
  BY <1>1 DEF PipelineInv
<1> HIDE DEF r
<1>6. CircuitsRead(q)'
  <2> SUFFICES ASSUME Threshold[q] > 0, NEW u \in allowed, u \in Range(PoolOf(q))
               PROVE  u \in request[q].closed
    BY <1>2, <1>3, <1>4, <1>5 DEF CircuitsRead, PoolOf
  <2>1. PICK k \in 1 .. Len(PoolOf(q)) : PoolOf(q)[k] = u
    BY <1>4, PoolFacts DEF PoolOf
  <2>2. k < request[q].i
    <3>1. Len(PoolOf(q)) \in Nat /\ request[q].i \in Nat /\ k \in Nat
      BY <1>1, <1>4, PoolFacts DEF PoolOf, Progress
    <3>2. request[q].i > Len(PoolOf(q)) /\ k <= Len(PoolOf(q))
      BY <1>1, <2>1, <3>1
    <3> QED
      BY <3>1, <3>2
  <2> QED
    BY <1>1, <2>1, <2>2 DEF RequestInv, CircuitsRead
<1>7. InStep(q)' /\ StoppedEarly(q)' /\ ClosedSeen(q)'
  BY <1>1, <1>2, <1>3, <1>5
     DEF RequestInv, InStep, StoppedEarly, ClosedSeen, circuitVars
<1>8. LateSent(q)'
  BY <1>1, <1>2, <1>5 DEF RequestInv, LateSent
<1> QED
  BY <1>1, <1>2, <1>3, <1>6, <1>7, <1>8, NothingRecorded DEF RequestInv

\* A request walks with the upstreams it was given.
LEMMA AllowedStays ==
    ASSUME SelectionInv, NEW q \in Request, SelectStep(q)
    PROVE  /\ sel[q].pc \in {"count", "scan"}
           /\ sel'[q].allowed = sel[q].allowed /\ sel'[q].pc # "idle"
<1>1. sel \in [Request -> Selection]
  BY DEF SelectionInv, SelectionTypeOK, Selection
<1>2. CASE CountNext(q)
  BY <1>1, <1>2 DEF CountNext, Selection
<1>3. CASE Draw(q)
  <2> DEFINE ticket == cursor[sel[q].on] % sel[q].total
  <2>1. /\ sel[q].pc = "count"
        /\ \/ sel' = [sel EXCEPT ![q].pc = "done"]
           \/ sel' = [sel EXCEPT ![q].pc = "scan", ![q].i = 1, ![q].selected = ticket]
    BY <1>3 DEF Draw
  <2> HIDE DEF ticket
  <2> QED
    BY <1>1, <2>1 DEF Selection
<1>4. CASE ScanNext(q)
  <2> DEFINE s == sel[q]
             u == Pool[s.on][s.i]
  <2>1. sel[q].pc = "scan" /\ sel' = [sel EXCEPT ![q] =
            IF ~Usable(q) THEN [s EXCEPT !.i = s.i + 1]
            ELSE IF s.selected < Weight[u]
            THEN [s EXCEPT !.pc = "done", !.result = u]
            ELSE [s EXCEPT !.selected = s.selected - Weight[u], !.i = s.i + 1]]
    BY <1>4 DEF ScanNext, PoolOf
  <2> HIDE DEF u
  <2> QED
    BY <1>1, <2>1 DEF Selection
<1>5. CASE ScanEnd(q)
  BY <1>1, <1>5 DEF ScanEnd, Selection
<1> QED
  BY <1>2, <1>3, <1>4, <1>5 DEF SelectStep

LEMMA SelectFurtherKeeps ==
    ASSUME PipelineInv, NEW q \in Request, SelectFurther(q), flips' = flips
    PROVE  PipelineInv'
<1>1. /\ SelectStep(q) /\ SelectionInv /\ RequestInv(q)
      /\ UNCHANGED <<circuitVars, request, results>>
      /\ request \in [Request -> Progress]
  BY DEF SelectFurther, PipelineInv, pipelineVars
<1>2. /\ SelectionInv' /\ sel'[q].on = sel[q].on
      /\ \A p \in Request \ {q} : sel'[p] = sel[p]
      /\ sel[q].pc \in {"count", "scan"} /\ sel[q].result = None
      /\ sel'[q].allowed = sel[q].allowed /\ sel'[q].pc # "idle"
  BY <1>1, SelectEffect, AllowedStays, WalkTyped
<1>3. request' = [request EXCEPT ![q] = request[q]] /\ request[q] \in Progress
  BY <1>1
<1>4. InStep(q)' /\ StoppedEarly(q)'
  BY <1>1, <1>2 DEF RequestInv, InStep, StoppedEarly
<1>5. ClosedSeen(q)' /\ CircuitsRead(q)'
  BY <1>1, <1>2 DEF RequestInv, InStep, ClosedSeen, CircuitsRead, PoolOf, circuitVars
<1>6. LateSent(q)'
  BY <1>1, <1>2 DEF RequestInv, LateSent
<1> QED
  BY <1>1, <1>2, <1>3, <1>4, <1>5, <1>6, NothingRecorded DEF RequestInv

LEMMA DecidedKeeps ==
    ASSUME PipelineInv, NEW q \in Request, Refuse(q) \/ Forward(q), flips' = flips
    PROVE  PipelineInv'
<1>1. CASE Refuse(q)
  <2> DEFINE code == IF request[q].blocked # {} THEN "circuit_open"
                     ELSE "no_healthy_upstream"
  <2>1. code \in Code
    BY DEF Code
  <2> HIDE DEF code
  <2>2. /\ Answer(q, code) /\ request[q].pc = "select"
        /\ UNCHANGED <<selectionVars, circuitVars, results>>
    BY <1>1 DEF Refuse, code
  <2> QED
    BY <2>1, <2>2, Answered, MovesOn
<1>2. CASE Forward(q)
  <2> DEFINE r == [request[q] EXCEPT !.pc = "proxy"]
  <2>1. /\ request[q].pc = "select" /\ request[q] \in Progress
        /\ request' = [request EXCEPT ![q] = r] /\ sel[q].result # None
        /\ UNCHANGED <<selectionVars, circuitVars, results>>
    BY <1>2 DEF Forward, PipelineInv
  <2>2. /\ r \in Progress /\ r.pc = "proxy" /\ r.ok = request[q].ok
        /\ r.closed = request[q].closed
        /\ r.late = request[q].late /\ r.tries = request[q].tries
    BY <2>1 DEF Progress
  <2> HIDE DEF r
  <2> QED
    BY <2>1, <2>2, MovesOn
<1> QED
  BY <1>1, <1>2

\* What was recorded for an upstream.
LEMMA ResultsTyped ==
    ASSUME CircuitsTyped, NEW u \in Candidate
    PROVE  /\ results[u] \in Seq([ok : BOOLEAN, at : Nat])
           /\ Len(results[u]) \in Nat
           /\ \A k \in 1 .. Len(results[u]) :
                 results[u][k] \in [ok : BOOLEAN, at : Nat] /\ results[u][k].at \in Nat
<1> DEFINE R == [ok : BOOLEAN, at : Nat]
<1>1. results[u] \in Seq(R)
  BY DEF CircuitsTyped
<1>2. \A r \in R : r.at \in Nat
  OBVIOUS
<1> HIDE DEF R
<1>3. Len(results[u]) \in Nat /\ \A k \in 1 .. Len(results[u]) : results[u][k] \in R
  BY <1>1
<1> QED
  BY <1>1, <1>2, <1>3 DEF R

LEMMA TickKeeps ==
    ASSUME PipelineInv, Tick, flips' = flips
    PROVE  PipelineInv'
<1>1. /\ now < MaxTime /\ now' = now + 1 /\ CircuitsTyped
      /\ UNCHANGED <<selectionVars, failures, open, results>>
      /\ now \in Nat /\ MaxTime \in Nat
  BY PipelineAssumption DEF Tick, PipelineInv, CircuitsTyped
<1>2. SelectionInv' /\ sel' = sel
  BY <1>1, SelectionUntouched DEF PipelineInv, selectionVars
<1>3. CircuitsTyped'
  BY <1>1 DEF CircuitsTyped
<1>4. ASSUME NEW q \in Request
      PROVE  request'[q] \in Progress /\ RequestInv(q)'
  <2> DEFINE more == request[q].closed \cup {u \in Candidate : open[u] <= now + 1}
             r == [request[q] EXCEPT !.closed = more]
  <2>1. request[q] \in Progress /\ RequestInv(q)
    BY DEF PipelineInv
  <2>2. CASE request[q].pc = "new"
    <3>1. request'[q] = request[q]
      BY <2>2 DEF Tick
    <3> QED
      BY <1>2, <2>1, <2>2, <3>1
         DEF RequestInv, InStep, StoppedEarly, ClosedSeen, CircuitsRead, LateSent,
             PoolOf
  <2>3. CASE request[q].pc # "new"
    <3>1. request'[q] = r
      BY <2>3 DEF Tick
    <3>2. /\ more \in SUBSET Candidate /\ request[q].closed \subseteq more
          /\ \A u \in Candidate : open'[u] <= now' => u \in more
      BY <1>1, <2>1 DEF Progress
    <3> HIDE DEF more
    <3>3. /\ r \in Progress /\ r.pc = request[q].pc /\ r.ok = request[q].ok
          /\ r.counted = request[q].counted /\ r.i = request[q].i
          /\ r.blocked = request[q].blocked /\ r.closed = more
          /\ r.code = request[q].code
          /\ r.late = request[q].late /\ r.tries = request[q].tries
      BY <2>1, <3>2 DEF Progress
    <3> HIDE DEF r
    <3>4. InStep(q)' /\ StoppedEarly(q)' /\ LateSent(q)'
      BY <1>2, <2>1, <3>1, <3>3 DEF RequestInv, InStep, StoppedEarly, LateSent
    <3>5. ClosedSeen(q)'
      BY <3>1, <3>2, <3>3 DEF ClosedSeen
    <3>6. CircuitsRead(q)'
      BY <1>2, <2>1, <3>1, <3>2, <3>3 DEF RequestInv, CircuitsRead, PoolOf
    <3> QED
      BY <3>1, <3>3, <3>4, <3>5, <3>6 DEF RequestInv
  <2> QED
    BY <2>2, <2>3
<1>5. request' \in [Request -> Progress]
  BY <1>4 DEF Tick
<1>6. ASSUME NEW u \in Candidate PROVE FailureRun(u)'
  <2>1. \A k \in 1 .. Len(results[u]) : results[u][k].at \in Nat
    BY <1>1, ResultsTyped
  <2>2. failures[u].expires \in Nat
    BY <1>1 DEF CircuitsTyped
  <2>3. Live(failures[u].expires)' => Live(failures[u].expires)
    BY <1>1, <2>2 DEF Live
  <2>4. \A k \in 1 .. Len(results[u]) : results[u][k].at <= now'
    BY <1>1, <2>1 DEF PipelineInv, FailureRun
  <2> QED
    BY <1>1, <2>3, <2>4 DEF PipelineInv, FailureRun
<1> QED
  BY <1>2, <1>3, <1>4, <1>5, <1>6 DEF PipelineInv

LEMMA FlagChangesKeeps ==
    ASSUME PipelineInv, FlagChanges
    PROVE  PipelineInv'
<1>1. PICK s \in Snapshot, u \in Candidate, value \in BOOLEAN :
         u \in Range(Pool[s]) /\ SetHealthy(s, u, value)
  BY PoolFacts DEF FlagChanges, Flip
<1>4. SelectionInv' /\ \A q \in Request : /\ sel'[q].pc = sel[q].pc
                                          /\ sel'[q].on = sel[q].on
                                          /\ sel'[q].result = sel[q].result
  BY <1>1, SetHealthyKeeps, SetHealthyEffect DEF PipelineInv
<1>5. \A q \in Request : sel'[q].allowed = sel[q].allowed
  BY <1>1, SelectionTyped DEF SetHealthy, Selection, PipelineInv
<1>6. /\ UNCHANGED <<now, failures, open, request, results>>
      /\ flips' \in 0 .. MaxFlips
  BY PipelineAssumption DEF FlagChanges, pipelineVars, circuitVars, PipelineInv
<1>7. CircuitsTyped' /\ \A v \in Candidate : FailureRun(v)'
  BY <1>6 DEF PipelineInv, CircuitsTyped, FailureRun, Live
<1>8. \A q \in Request : RequestInv(q)'
  BY <1>4, <1>5, <1>6
     DEF PipelineInv, RequestInv, InStep, StoppedEarly, ClosedSeen, CircuitsRead,
         LateSent, PoolOf
<1> QED
  BY <1>4, <1>6, <1>7, <1>8 DEF PipelineInv

-----------------------------------------------------------------------------
(* Recording outcomes *)

\* The outcomes of an upstream after one more.
LEMMA OneMore ==
    ASSUME CircuitsTyped, NEW u \in Candidate, NEW ok \in BOOLEAN, now \in Nat,
           results' = [results EXCEPT ![u] = Append(@, [ok |-> ok, at |-> now])]
    PROVE  /\ results' \in [Candidate -> Seq([ok : BOOLEAN, at : Nat])]
           /\ \A v \in Candidate \ {u} : results'[v] = results[v]
           /\ Len(results'[u]) = Len(results[u]) + 1
           /\ \A k \in 1 .. Len(results[u]) : results'[u][k] = results[u][k]
           /\ results'[u][Len(results[u]) + 1] = [ok |-> ok, at |-> now]
<1> DEFINE R == [ok : BOOLEAN, at : Nat]
           new == [ok |-> ok, at |-> now]
<1>1. new \in R /\ results \in [Candidate -> Seq(R)]
  BY DEF CircuitsTyped
<1>2. results' = [results EXCEPT ![u] = Append(results[u], new)]
  OBVIOUS
<1> HIDE DEF R, new
<1>3. /\ results'[u] = Append(results[u], new)
      /\ \A v \in Candidate \ {u} : results'[v] = results[v]
      /\ results' \in [Candidate -> Seq(R)]
  BY <1>1, <1>2
<1>4. results[u] \in Seq(R)
  BY <1>1
<1>5. /\ Len(results'[u]) = Len(results[u]) + 1
      /\ \A k \in 1 .. Len(results[u]) : results'[u][k] = results[u][k]
      /\ results'[u][Len(results[u]) + 1] = new
  BY <1>1, <1>3, <1>4
<1> QED
  BY <1>3, <1>5 DEF R, new

\* The outcomes of u, once request q has recorded a failure: the counter, if
\* it has not just tripped, goes on with the last of them.
LEMMA FailureCounted ==
    ASSUME PipelineInv, NEW q \in Request, NEW u \in Candidate, RecordFailure(q, u),
           NEW count, NEW expires, NEW m, m = Len(results'[u]),
           count = IF Live(failures[u].expires) THEN failures[u].count + 1 ELSE 1,
           expires = IF count = 1 THEN now + OpenFor[q] ELSE failures[u].expires
    PROVE  /\ count \in 1 .. m /\ m \in Nat /\ expires \in Nat /\ expires > now
           /\ \A k \in m - count + 1 .. m :
                 /\ ~results'[u][k].ok
                 /\ \E r \in Request : results'[u][k].at + OpenFor[r] >= expires
           /\ \A k \in 1 .. m :
                 results'[u][k].at <= now /\ results'[u][k].at \in Nat
<1> DEFINE n == Len(results[u])
           f == failures[u]
<1>1. /\ CircuitsTyped /\ now \in Nat /\ FailureRun(u)
      /\ f.count \in Nat /\ f.expires \in Nat
      /\ \A r \in Request : OpenFor[r] \in Nat \ {0}
  BY PipelineAssumption DEF PipelineInv, CircuitsTyped
<1>2. /\ n \in Nat
      /\ \A k \in 1 .. n : results[u][k].at \in Nat /\ results[u][k].at <= now
  BY <1>1, ResultsTyped DEF FailureRun
<1>3. /\ m = n + 1 /\ m \in Nat
      /\ \A k \in 1 .. n : results'[u][k] = results[u][k]
      /\ ~results'[u][n + 1].ok /\ results'[u][n + 1].at = now
  <2>1. results' = [results EXCEPT ![u] = Append(@, [ok |-> FALSE, at |-> now])]
    BY DEF RecordFailure
  <2>2. /\ Len(results'[u]) = n + 1
        /\ \A k \in 1 .. n : results'[u][k] = results[u][k]
        /\ results'[u][n + 1] = [ok |-> FALSE, at |-> now]
    BY <1>1, <2>1, OneMore
  <2> QED
    BY <1>2, <2>2
<1>4. \A k \in 1 .. m : results'[u][k].at <= now /\ results'[u][k].at \in Nat
  <2> TAKE k \in 1 .. m
  <2>1. CASE k = n + 1
    BY <1>1, <1>3, <2>1
  <2>2. CASE k # n + 1
    <3>1. k \in 1 .. n
      BY <1>2, <1>3, <2>2
    <3> QED
      BY <1>2, <1>3, <3>1
  <2> QED
    BY <2>1, <2>2
<1>5. CASE Live(f.expires)
  <2>1. /\ f.count \in 1 .. n /\ f.expires > now
        /\ \A k \in n - f.count + 1 .. n :
              /\ ~results[u][k].ok
              /\ \E r \in Request : results[u][k].at + OpenFor[r] >= f.expires
    BY <1>1, <1>5 DEF FailureRun, Live
  <2>2. /\ count = f.count + 1 /\ expires = f.expires /\ count \in 1 .. m
        /\ m - count + 1 = n - f.count + 1
    <3>1. count = f.count + 1
      BY <1>5
    <3>2. f.count \in Nat /\ f.count >= 1 /\ f.count <= n /\ n \in Nat /\ m = n + 1
      BY <1>1, <1>2, <1>3, <2>1
    <3>3. count # 1 /\ count \in 1 .. m /\ m - count + 1 = n - f.count + 1
      <4>1. \A a, b, c \in Nat : b >= 1 /\ b <= a /\ c = b + 1 =>
               c # 1 /\ c \in 1 .. a + 1 /\ (a + 1) - c + 1 = a - b + 1
        OBVIOUS
      <4>2. count \in Nat
        BY <3>1, <3>2
      <4> QED
        BY <3>1, <3>2, <4>1, <4>2
    <3>4. expires = f.expires
      BY <3>3
    <3> QED
      BY <3>1, <3>3, <3>4
  <2>3. ASSUME NEW k \in m - count + 1 .. m
        PROVE  /\ ~results'[u][k].ok
               /\ \E r \in Request : results'[u][k].at + OpenFor[r] >= expires
    <3>1. CASE k \in n - f.count + 1 .. n
      <4>1. k \in 1 .. n
        BY <1>2, <2>1, <3>1
      <4> QED
        BY <1>3, <2>1, <2>2, <3>1, <4>1
    <3>2. CASE k = n + 1
      <4>1. n \in n - f.count + 1 .. n /\ n \in 1 .. n
        <5>1. n \in Nat /\ f.count \in Nat /\ f.count >= 1 /\ f.count <= n
          BY <1>2, <2>1
        <5>2. \A a, b \in Nat : b >= 1 /\ b <= a =>
                 a \in a - b + 1 .. a /\ a \in 1 .. a
          OBVIOUS
        <5> QED
          BY <5>1, <5>2
      <4>2. PICK r \in Request : results[u][n].at + OpenFor[r] >= f.expires
        BY <2>1, <4>1
      <4>3. /\ results[u][n].at \in Nat /\ results[u][n].at <= now
            /\ OpenFor[r] \in Nat /\ f.expires \in Nat
        BY <1>1, <1>2, <4>1
      <4>4. \A a, t, o, e \in Nat : a <= t /\ a + o >= e => t + o >= e
        OBVIOUS
      <4>5. now + OpenFor[r] >= expires
        BY <1>1, <2>2, <4>2, <4>3, <4>4, ZenonT(30)
      <4> QED
        BY <1>3, <3>2, <4>5
    <3>3. f.count \in Nat /\ n \in Nat /\ m = n + 1
      BY <1>1, <1>2, <1>3
    <3>4. k \in n - f.count + 1 .. n + 1
      BY <2>2, <3>3
    <3>5. k \in n - f.count + 1 .. n \/ k = n + 1
      BY <3>3, <3>4
    <3> QED
      BY <3>1, <3>2, <3>5
  <2>4. expires \in Nat /\ expires > now
    BY <1>1, <2>1, <2>2
  <2> QED
    BY <1>3, <1>4, <2>2, <2>3, <2>4
<1>6. CASE ~Live(f.expires)
  <2>1. /\ count = 1 /\ expires = now + OpenFor[q] /\ expires \in Nat /\ expires > now
        /\ count \in 1 .. m /\ m - count + 1 = m
    BY <1>1, <1>2, <1>3, <1>6
  <2>2. \A k \in m .. m : k = n + 1
    BY <1>2, <1>3
  <2>3. results'[u][n + 1].at + OpenFor[q] >= expires
    BY <1>1, <1>3, <2>1
  <2> QED
    BY <1>3, <1>4, <2>1, <2>2, <2>3
<1> QED
  BY <1>5, <1>6

LEMMA RecordSuccessKeeps ==
    ASSUME PipelineInv, NEW u \in Candidate, RecordSuccess(u)
    PROVE  /\ CircuitsTyped' /\ \A v \in Candidate : FailureRun(v)'
           /\ now' = now /\ open' = open
<1>1. /\ now' = now /\ open' = open /\ CircuitsTyped /\ now \in Nat
      /\ failures' = [failures EXCEPT ![u] = NoFailures]
      /\ results' = [results EXCEPT ![u] = Append(@, [ok |-> TRUE, at |-> now])]
  BY DEF RecordSuccess, PipelineInv, CircuitsTyped
<1>2. /\ results' \in [Candidate -> Seq([ok : BOOLEAN, at : Nat])]
      /\ \A v \in Candidate \ {u} : results'[v] = results[v]
      /\ Len(results'[u]) = Len(results[u]) + 1
      /\ \A k \in 1 .. Len(results[u]) : results'[u][k] = results[u][k]
      /\ results'[u][Len(results[u]) + 1] = [ok |-> TRUE, at |-> now]
  BY <1>1, OneMore
<1>3. /\ failures' \in [Candidate -> [count : Nat, expires : Nat]]
      /\ failures'[u].count = 0 /\ failures'[u].expires = 0
      /\ \A v \in Candidate \ {u} : failures'[v] = failures[v]
  BY <1>1 DEF CircuitsTyped, NoFailures
<1>4. CircuitsTyped'
  BY <1>1, <1>2, <1>3 DEF CircuitsTyped
<1>5. ASSUME NEW v \in Candidate PROVE FailureRun(v)'
  <2>1. CASE v = u
    <3> DEFINE n == Len(results[u])
    <3>1. ~Live(failures[u].expires)'
      BY <1>1, <1>3 DEF Live
    <3>2. n \in Nat /\ \A k \in 1 .. n : results[u][k].at <= now
      BY <1>1, ResultsTyped DEF PipelineInv, FailureRun
    <3>3. ASSUME NEW k \in 1 .. n + 1 PROVE results'[u][k].at <= now
      <4>1. CASE k \in 1 .. n
        BY <1>2, <3>2, <4>1
      <4>2. CASE k = n + 1
        BY <1>1, <1>2, <4>2
      <4> QED
        BY <3>2, <4>1, <4>2
    <3> QED
      BY <1>1, <1>2, <2>1, <3>1, <3>3 DEF FailureRun
  <2>2. CASE v # u
    BY <1>1, <1>2, <1>3, <2>2 DEF PipelineInv, FailureRun, Live
  <2> QED
    BY <2>1, <2>2
<1> QED
  BY <1>1, <1>4, <1>5

\* Its step, with the counter that it writes or gives up.
LEMMA RecordFailureKeeps ==
    ASSUME PipelineInv, NEW q \in Request, Threshold[q] > 0,
           NEW u \in Candidate, RecordFailure(q, u)
    PROVE  /\ CircuitsTyped' /\ \A v \in Candidate : FailureRun(v)'
           /\ now' = now
           /\ \A v \in Candidate : open'[v] <= now' => open[v] <= now
           /\ \A v \in Candidate : open'[v] # open[v] =>
                 /\ v = u
                 /\ Threshold[q] <= Len(results'[u])
                 /\ \A k \in Len(results'[u]) - Threshold[q] + 1 .. Len(results'[u]) :
                       /\ ~results'[u][k].ok
                       /\ \E r \in Request : now - results'[u][k].at < OpenFor[r]
<1> DEFINE m == Len(results'[u])
           count == IF Live(failures[u].expires) THEN failures[u].count + 1 ELSE 1
           expires == IF count = 1 THEN now + OpenFor[q] ELSE failures[u].expires
           trip == count >= Threshold[q]
           f == IF trip THEN NoFailures ELSE [count |-> count, expires |-> expires]
           o == IF trip THEN now + OpenFor[q] ELSE open[u]
<1>1. /\ CircuitsTyped /\ now \in Nat /\ now' = now
      /\ Threshold[q] \in Nat \ {0} /\ open[u] \in Nat
      /\ \A r \in Request : OpenFor[r] \in Nat \ {0}
  BY PipelineAssumption DEF RecordFailure, PipelineInv, CircuitsTyped
<1>2. /\ failures' = [failures EXCEPT ![u] = f]
      /\ open' = [open EXCEPT ![u] = o]
      /\ results' = [results EXCEPT ![u] = Append(@, [ok |-> FALSE, at |-> now])]
  BY DEF RecordFailure
<1>3. /\ count \in 1 .. m /\ m \in Nat /\ expires \in Nat /\ expires > now
      /\ \A k \in m - count + 1 .. m :
            /\ ~results'[u][k].ok
            /\ \E r \in Request : results'[u][k].at + OpenFor[r] >= expires
      /\ \A k \in 1 .. m : results'[u][k].at <= now /\ results'[u][k].at \in Nat
  <2> HIDE DEF m, count, expires
  <2> QED
    BY FailureCounted, ZenonT(30) DEF m, count, expires
<1>4. /\ results' \in [Candidate -> Seq([ok : BOOLEAN, at : Nat])]
      /\ \A v \in Candidate \ {u} : results'[v] = results[v]
  BY <1>1, <1>2, OneMore
<1> HIDE DEF m, count, expires
<1>5. /\ f \in [count : Nat, expires : Nat]
      /\ trip => f.count = 0 /\ f.expires = 0
      /\ ~trip => f.count = count /\ f.expires = expires
  BY <1>3 DEF NoFailures
<1>6. o \in Nat /\ (trip => o > now) /\ (~trip => o = open[u])
  BY <1>1
<1>7. ~trip => count < Threshold[q]
  BY <1>1, <1>3
<1> HIDE DEF f, o, trip
<1>8. /\ failures' \in [Candidate -> [count : Nat, expires : Nat]]
      /\ failures'[u] = f
      /\ \A v \in Candidate \ {u} : failures'[v] = failures[v]
  BY <1>1, <1>2, <1>5 DEF CircuitsTyped
<1>9. /\ open' \in [Candidate -> Nat] /\ open'[u] = o
      /\ \A v \in Candidate \ {u} : open'[v] = open[v]
  BY <1>1, <1>2, <1>6 DEF CircuitsTyped
<1>10. CircuitsTyped'
  <2>1. \A v \in Candidate : failures'[v].count # 0 =>
           \E r \in Request : failures'[v].count < Threshold[r]
    <3> TAKE v \in Candidate
    <3>1. CASE v = u
      <4>1. failures'[u].count # 0 => failures'[u].count < Threshold[q]
        BY <1>5, <1>7, <1>8
      <4> QED
        BY <3>1, <4>1
    <3>2. CASE v # u
      BY <1>1, <1>8, <3>2 DEF CircuitsTyped
    <3> QED
      BY <3>1, <3>2
  <2> QED
    BY <1>1, <1>4, <1>8, <1>9, <2>1 DEF CircuitsTyped
<1>11. ASSUME NEW v \in Candidate PROVE FailureRun(v)'
  <2>1. CASE v = u
    <3>1. CASE trip
      <4>1. ~Live(failures[u].expires)'
        BY <1>1, <1>5, <1>8, <3>1 DEF Live
      <4> QED
        BY <1>1, <1>3, <2>1, <4>1 DEF FailureRun, m
    <3>2. CASE ~trip
      <4>1. failures'[u].count = count /\ failures'[u].expires = expires
        BY <1>5, <1>8, <3>2
      <4> QED
        BY <1>1, <1>3, <2>1, <4>1 DEF FailureRun, m
    <3> QED
      BY <3>1, <3>2
  <2>2. CASE v # u
    <3>1. /\ results'[v] = results[v] /\ failures'[v] = failures[v] /\ now' = now
          /\ FailureRun(v)
      BY <1>1, <1>4, <1>8, <2>2 DEF PipelineInv
    <3> QED
      BY <3>1 DEF FailureRun, Live
  <2> QED
    BY <2>1, <2>2
<1>12. ASSUME NEW v \in Candidate, open'[v] <= now' PROVE open[v] <= now
  BY <1>1, <1>6, <1>9, <1>12
<1>13. ASSUME NEW v \in Candidate, open'[v] # open[v]
       PROVE  /\ v = u /\ Threshold[q] <= m
              /\ \A k \in m - Threshold[q] + 1 .. m :
                    /\ ~results'[u][k].ok
                    /\ \E r \in Request : now - results'[u][k].at < OpenFor[r]
  <2>1. v = u /\ trip
    BY <1>6, <1>9, <1>13
  <2>2. count >= Threshold[q] /\ count <= m /\ count \in Nat
    BY <1>3, <2>1 DEF trip
  <2>3. ASSUME NEW k \in m - Threshold[q] + 1 .. m
        PROVE  /\ ~results'[u][k].ok
               /\ \E r \in Request : now - results'[u][k].at < OpenFor[r]
    <3>1. k \in m - count + 1 .. m /\ k \in 1 .. m
      BY <1>1, <1>3, <2>2
    <3>2. PICK r \in Request : results'[u][k].at + OpenFor[r] >= expires
      BY <1>3, <3>1
    <3>3. /\ results'[u][k].at \in Nat /\ OpenFor[r] \in Nat /\ expires \in Nat
          /\ expires > now
      BY <1>1, <1>3, <3>1
    <3>4. \A a, t, x, e \in Nat : a + x >= e /\ e > t => t - a < x
      OBVIOUS
    <3>5. now - results'[u][k].at < OpenFor[r]
      BY <1>1, <3>2, <3>3, <3>4
    <3> QED
      BY <1>3, <3>1, <3>5
  <2> QED
    BY <1>1, <1>3, <2>1, <2>2, <2>3
<1> QED
  BY <1>1, <1>10, <1>11, <1>12, <1>13 DEF m

\* A step of a request that was sent to an upstream, and that may record its
\* outcome there.
LEMMA MayRecord ==
    ASSUME PipelineInv, NEW q \in Request, NEW r \in Progress, flips' = flips,
           UNCHANGED selectionVars, request' = [request EXCEPT ![q] = r],
           request[q] # r, sel[q].result # None,
           request[q].pc \in {"proxy", "done"},
           r.pc \in {request[q].pc, "done"},
           r.ok = request[q].ok, r.closed = request[q].closed,
           LateSent(q)',
           \/ UNCHANGED <<circuitVars, results>>
           \/ Threshold[q] > 0 /\ RecordSuccess(sel[q].result)
           \/ Threshold[q] > 0 /\ RecordFailure(q, sel[q].result)
    PROVE  PipelineInv' /\ \A u \in Candidate : OpensRightly(u)
<1> DEFINE u == sel[q].result
<1>1. /\ RequestInv(q) /\ request[q] \in Progress /\ Threshold[q] \in Nat
      /\ WalkInv(sel[q]) /\ request'[q] = r
  BY PipelineAssumption, SelectionTyped DEF PipelineInv
<1>2. u \in Candidate /\ sel[q].pc # "idle"
  BY <1>1, SelectionTyped DEF WalkInv, Selection, PipelineInv
<1>3. SelectionInv' /\ sel' = sel
  BY SelectionUntouched DEF PipelineInv, selectionVars
<1>4. InStep(q)' /\ StoppedEarly(q)' /\ CircuitsRead(q)'
  BY <1>1, <1>2, <1>3 DEF RequestInv, InStep, StoppedEarly, CircuitsRead, PoolOf
<1>5. ASSUME CircuitsTyped', \A v \in Candidate : FailureRun(v)',
             \A v \in Candidate : open'[v] <= now' => open[v] <= now
      PROVE  PipelineInv'
  <2>1. ClosedSeen(q)'
    BY <1>1, <1>5 DEF RequestInv, ClosedSeen
  <2>2. request' \in [Request -> Progress] /\ \A p \in Request : RequestInv(p)'
    BY <1>3, <1>4, <1>5, <2>1, OneMoves DEF RequestInv
  <2> QED
    BY <1>3, <1>5, <2>2 DEF PipelineInv
<1>6. CASE UNCHANGED <<circuitVars, results>>
  <2>1. open' = open /\ now' = now /\ failures' = failures /\ results' = results
    BY <1>6 DEF circuitVars
  <2>2. CircuitsTyped' /\ \A v \in Candidate : FailureRun(v)'
    BY <2>1 DEF PipelineInv, CircuitsTyped, FailureRun, Live
  <2> QED
    BY <1>5, <2>1, <2>2 DEF OpensRightly
<1>7. CASE Threshold[q] > 0 /\ RecordSuccess(u)
  <2>1. /\ CircuitsTyped' /\ (\A v \in Candidate : FailureRun(v)')
        /\ now' = now /\ open' = open
    BY <1>2, <1>7, RecordSuccessKeeps
  <2>2. PipelineInv'
    BY <1>5, <2>1
  <2> QED
    BY <2>1, <2>2 DEF OpensRightly
<1>8. CASE Threshold[q] > 0 /\ RecordFailure(q, u)
  <2> HIDE DEF u
  <2>1. /\ CircuitsTyped' /\ (\A v \in Candidate : FailureRun(v)')
        /\ now' = now
        /\ \A v \in Candidate : open'[v] <= now' => open[v] <= now
        /\ \A v \in Candidate : open'[v] # open[v] =>
                 /\ v = u
                 /\ Threshold[q] <= Len(results'[u])
                 /\ \A k \in Len(results'[u]) - Threshold[q] + 1 .. Len(results'[u]) :
                       /\ ~results'[u][k].ok
                       /\ \E p \in Request : now - results'[u][k].at < OpenFor[p]
    BY <1>2, <1>8, RecordFailureKeeps
  <2>2. PipelineInv'
    BY <1>5, <2>1
  <2>3. request[q].pc \in {"proxy", "done"} /\ request'[q] # request[q]
    BY <1>1
  <2> QED
    BY <2>1, <2>2, <2>3 DEF OpensRightly, u
<1> QED
  BY <1>6, <1>7, <1>8

\* The outcome of a proxied call, recorded or not.
LEMMA ProxyEnds ==
    ASSUME PipelineInv, NEW q \in Request, flips' = flips,
           \/ \E outcome \in {"success", "failure"} : Respond(q, outcome)
           \/ \E code \in {"too_large", "timeout", "unavailable"} : Fail(q, code)
    PROVE  PipelineInv' /\ \A u \in Candidate : OpensRightly(u)
<1>1. /\ request[q].pc = "proxy" /\ UNCHANGED selectionVars
      /\ RequestInv(q) /\ request[q] \in Progress
  BY DEF Respond, Fail, EndsWith, PipelineInv
<1>2. PICK code \in Code : Answer(q, code)
  BY DEF Respond, Fail, Code
<1>3. PICK r \in Progress :
         /\ request' = [request EXCEPT ![q] = r]
         /\ r.pc = "done" /\ r.ok = request[q].ok
         /\ r.closed = request[q].closed
         /\ r.late = request[q].late /\ r.tries = request[q].tries
  BY <1>2, Answered
<1>4. \/ UNCHANGED <<circuitVars, results>>
      \/ Threshold[q] > 0 /\ RecordSuccess(sel[q].result)
      \/ Threshold[q] > 0 /\ RecordFailure(q, sel[q].result)
  BY DEF Respond, Fail, Record
<1>5. sel' = sel /\ request'[q] = r
  BY <1>1, <1>3 DEF PipelineInv, selectionVars
<1>6. LateSent(q)' /\ sel[q].result # None
  BY <1>1, <1>3, <1>5 DEF RequestInv, InStep, LateSent
<1> QED
  BY <1>1, <1>3, <1>4, <1>6, MayRecord

\* A command whose answer is not heard: it is sent, and may run.
LEMMA UnheardKeeps ==
    ASSUME PipelineInv, NEW q \in Request, flips' = flips,
           (\E outcome \in Result : SendUnheard(q, outcome)) \/ RunLate(q)
    PROVE  PipelineInv' /\ \A u \in Candidate : OpensRightly(u)
<1>1. /\ request[q] \in Progress /\ RequestInv(q) /\ UNCHANGED selectionVars
      /\ Tries \in Nat \ {0}
  BY PipelineAssumption DEF SendUnheard, RunLate, PipelineInv
<1>2. sel' = sel
  BY <1>1 DEF selectionVars
<1>3. CASE \E outcome \in Result : SendUnheard(q, outcome)
  <2>1. PICK outcome \in Result : SendUnheard(q, outcome)
    BY <1>3
  <2> DEFINE tries == request[q].tries + 1
             late == request[q].late + 1
             r == [request[q] EXCEPT !.outcome = outcome, !.tries = tries,
                                     !.late = late]
  <2>2. /\ request[q].pc = "proxy" /\ Threshold[q] > 0 /\ request[q].tries < Tries
        /\ UNCHANGED <<circuitVars, results>> /\ request' = [request EXCEPT ![q] = r]
    BY <2>1 DEF SendUnheard, EndsWith
  <2>3. /\ request[q].tries \in 0 .. Tries /\ request[q].late \in 0 .. Tries
        /\ request[q].late <= request[q].tries
    BY <1>1 DEF Progress, RequestInv, LateSent
  <2>4. /\ tries \in 0 .. Tries /\ late \in 0 .. Tries /\ late <= tries
        /\ tries # request[q].tries
    BY <1>1, <2>2, <2>3
  <2> HIDE DEF tries, late
  <2>5. /\ r \in Progress /\ r.pc = request[q].pc /\ r.ok = request[q].ok
        /\ r.closed = request[q].closed /\ r.tries = tries /\ r.late = late
    BY <1>1, <2>4 DEF Progress
  <2> HIDE DEF r
  <2>6. request'[q] = r /\ request[q] # r
    BY <2>2, <2>4, <2>5 DEF PipelineInv
  <2>7. LateSent(q)' /\ sel[q].result # None
    BY <1>1, <1>2, <2>2, <2>4, <2>5, <2>6 DEF RequestInv, InStep, LateSent
  <2> QED
    BY <1>1, <2>2, <2>5, <2>6, <2>7, MayRecord
<1>4. CASE RunLate(q)
  <2> DEFINE late == request[q].late - 1
             r == [request[q] EXCEPT !.late = late]
  <2>1. /\ request[q].late > 0 /\ Record(q, request[q].outcome)
        /\ request' = [request EXCEPT ![q] = r]
    BY <1>4 DEF RunLate
  <2>2. /\ request[q].tries \in 0 .. Tries /\ request[q].late \in 0 .. Tries
        /\ request[q].late <= request[q].tries
        /\ Threshold[q] > 0 /\ sel[q].result # None
        /\ request[q].pc \in {"proxy", "done"}
    BY <1>1, <2>1 DEF Progress, RequestInv, LateSent
  <2>3. /\ late \in 0 .. Tries /\ late <= request[q].tries
        /\ late # request[q].late
    BY <1>1, <2>1, <2>2
  <2> HIDE DEF late
  <2>4. /\ r \in Progress /\ r.pc = request[q].pc /\ r.ok = request[q].ok
        /\ r.closed = request[q].closed /\ r.tries = request[q].tries
        /\ r.late = late
    BY <1>1, <2>3 DEF Progress
  <2> HIDE DEF r
  <2>5. request'[q] = r /\ request[q] # r
    BY <2>1, <2>3, <2>4 DEF PipelineInv
  <2>6. LateSent(q)'
    BY <1>2, <2>2, <2>3, <2>4, <2>5 DEF LateSent
  <2>7. \/ Threshold[q] > 0 /\ RecordSuccess(sel[q].result)
        \/ Threshold[q] > 0 /\ RecordFailure(q, sel[q].result)
    BY <2>1, <2>2 DEF Record
  <2> QED
    BY <1>1, <2>1, <2>2, <2>4, <2>5, <2>6, <2>7, MayRecord
<1> QED
  BY <1>3, <1>4

LEMMA PipelineStep ==
    PipelineInv /\ [Next]_vars =>
        PipelineInv' /\ [\A u \in Candidate : OpensRightly(u)]_vars
<1> SUFFICES ASSUME PipelineInv, [Next]_vars
             PROVE  PipelineInv' /\ [\A u \in Candidate : OpensRightly(u)]_vars
  OBVIOUS
<1>1. CASE UNCHANGED vars
  <2>1. SelectionInv'
    BY <1>1, SelectionUntouched DEF PipelineInv, vars
  <2>2. UNCHANGED <<sel, now, failures, open, request, results, flips>>
    BY <1>1 DEF vars, selectionVars, pipelineVars, circuitVars
  <2>3. CircuitsTyped' /\ \A u \in Candidate : FailureRun(u)'
    BY <2>2 DEF PipelineInv, CircuitsTyped, FailureRun, Live
  <2>4. \A q \in Request : RequestInv(q)'
    BY <2>2 DEF PipelineInv, RequestInv, InStep, StoppedEarly, ClosedSeen,
                CircuitsRead, LateSent, PoolOf
  <2>5. PipelineInv'
    BY <2>1, <2>2, <2>3, <2>4 DEF PipelineInv
  <2> QED
    BY <1>1, <2>5
<1>2. ASSUME open' = open PROVE \A u \in Candidate : OpensRightly(u)
  BY <1>2 DEF OpensRightly
<1>3. CASE FlagChanges
  BY <1>2, <1>3, FlagChangesKeeps DEF FlagChanges, pipelineVars, circuitVars
<1>4. CASE Step /\ UNCHANGED flips
  <2>1. CASE \E q \in Request, s \in Snapshot, outcome \in Outcome :
                Arrive(q, s, outcome)
    <3>1. PipelineInv'
      BY <1>4, <2>1, ArriveKeeps
    <3> QED
      BY <1>2, <2>1, <3>1 DEF Arrive, circuitVars
  <2>2. CASE \E q \in Request,
                d \in {"allow", "rate_limited", "quota_exceeded", "policy_unavailable"} :
                AllowRequest(q, d)
    <3>1. PipelineInv'
      BY <1>4, <2>2, AllowRequestKeeps
    <3> QED
      BY <1>2, <2>2, <3>1 DEF AllowRequest, circuitVars
  <2>3. CASE \E q \in Request : ReadCircuit(q)
    <3>1. PipelineInv'
      BY <1>4, <2>3, ReadCircuitKeeps
    <3> QED
      BY <1>2, <2>3, <3>1 DEF ReadCircuit, circuitVars
  <2>4. CASE \E q \in Request : Select(q)
    <3>1. PipelineInv'
      BY <1>4, <2>4, SelectKeeps
    <3> QED
      BY <1>2, <2>4, <3>1 DEF Select, circuitVars
  <2>5. CASE \E q \in Request : SelectFurther(q)
    <3>1. PipelineInv'
      BY <1>4, <2>5, SelectFurtherKeeps
    <3> QED
      BY <1>2, <2>5, <3>1 DEF SelectFurther, pipelineVars, circuitVars
  <2>6. CASE \E q \in Request : Refuse(q) \/ Forward(q)
    <3>1. PipelineInv'
      BY <1>4, <2>6, DecidedKeeps
    <3> QED
      BY <1>2, <2>6, <3>1 DEF Refuse, Forward, circuitVars
  <2>7. CASE \E q \in Request :
                \/ \E outcome \in {"success", "failure"} : Respond(q, outcome)
                \/ \E code \in {"too_large", "timeout", "unavailable"} : Fail(q, code)
    BY <1>4, <2>7, ProxyEnds
  <2>8. CASE Tick
    <3>1. PipelineInv'
      BY <1>4, <2>8, TickKeeps
    <3> QED
      BY <1>2, <2>8, <3>1 DEF Tick
  <2>9. CASE \E q \in Request :
                (\E outcome \in Result : SendUnheard(q, outcome)) \/ RunLate(q)
    BY <1>4, <2>9, UnheardKeeps
  <2> QED
    BY <1>4, <2>1, <2>2, <2>3, <2>4, <2>5, <2>6, <2>7, <2>8, <2>9 DEF Step
<1> QED
  BY <1>1, <1>3, <1>4 DEF Next

LEMMA PipelineInvariant == Spec => []PipelineInv
<1>1. PipelineInv /\ [Next]_vars => PipelineInv'
  BY PipelineStep
<1> QED
  BY <1>1, PipelineBegins, PTL DEF Spec

-----------------------------------------------------------------------------
(***************************************************************************)
(* The local variables of ServeHTTP and the Redis keys of the circuits     *)
(* have the values the code can give them, for any pools and thresholds.   *)
(***************************************************************************)
THEOREM PipelineTypeCorrect == Spec => []TypeOK
<1>1. PipelineInv => TypeOK
  BY DEF PipelineInv, SelectionInv, CircuitsTyped, Progress, TypeOK
<1> QED
  BY <1>1, PipelineInvariant, PTL

(***************************************************************************)
(* ServeHTTP: a client that is not authorised is refused with 404, 401 or  *)
(* 403, before the rate limit, the quota and the upstreams.                *)
(***************************************************************************)
THEOREM UnauthorisedStoppedEarly == Spec => []UnauthorisedStopped
<1>1. PipelineInv => UnauthorisedStopped
  BY DEF PipelineInv, RequestInv, StoppedEarly, UnauthorisedStopped
<1> QED
  BY <1>1, PipelineInvariant, PTL

(***************************************************************************)
(* The loop over CircuitOpen and the predicate given to                    *)
(* SelectUpstreamWhere: an upstream whose circuit has been open since the  *)
(* request arrived is not chosen.                                          *)
(***************************************************************************)
THEOREM OpenCircuitsSafe == Spec => []OpenCircuitsAvoided
<1>1. PipelineInv => OpenCircuitsAvoided
  <2> SUFFICES ASSUME PipelineInv, NEW q \in Request, sel[q].result # None,
                      Threshold[q] > 0
               PROVE  sel[q].result \in request[q].closed
    BY DEF OpenCircuitsAvoided
  <2>1. WalkInv(sel[q]) /\ RequestInv(q)
    BY SelectionTyped DEF PipelineInv
  <2> QED
    BY <2>1 DEF WalkInv, RequestInv, CircuitsRead, PoolOf
<1> QED
  BY <1>1, PipelineInvariant, PTL

(***************************************************************************)
(* circuitFailureScript and RecordCircuitSuccess: whatever listeners share *)
(* an upstream, its circuit opens only at the end of a run of failures.    *)
(***************************************************************************)
THEOREM CircuitsOpenRightly == Spec => OpenedByFailureRun
<1>1. PipelineInv /\ [Next]_vars => [\A u \in Candidate : OpensRightly(u)]_vars
  BY PipelineStep
<1> QED
  BY <1>1, PipelineInvariant, PTL DEF Spec, OpenedByFailureRun
=============================================================================
