------------------------ MODULE RequestPolicyProofs ------------------------
(***************************************************************************)
(* Proofs about RequestPolicy for any number of requests and of tries for  *)
(* each, any limits, any delay, and seconds and minutes of any length.     *)
(***************************************************************************)
EXTENDS RequestPolicy, FiniteSetTheorems, TLAPS

Kind == {"rate", "quota"}

\* A quotient names the period that a point in time belongs to.
LEMMA DivisionBounds ==
    ASSUME NEW a \in Nat, NEW b \in Nat \ {0}
    PROVE  /\ a \div b \in Nat /\ a \div b <= a
           /\ (a \div b) * b <= a /\ a < (a \div b) * b + b
OBVIOUS

\* What fits into a span as often as n times fits its quotient.
LEMMA DivisionBelow ==
    ASSUME NEW a \in Nat, NEW b \in Nat \ {0}, NEW n \in Nat, n * b <= a
    PROVE  n <= a \div b
<1>1. a \div b \in Nat /\ a < (a \div b) * b + b
    BY DivisionBounds
<1>2. SUFFICES ASSUME a \div b + 1 <= n PROVE FALSE
    BY <1>1
<1>3. (a \div b + 1) * b <= n * b
    BY <1>1, <1>2
<1> QED
    BY <1>1, <1>3

\* The constants of the two kinds of limits.
LEMMA KindFacts ==
    ASSUME NEW kind \in Kind
    PROVE  /\ Length[kind] \in Nat \ {0}
           /\ Capacity[kind] \in Nat
           /\ Limited(kind) => Capacity[kind] \in Nat \ {0}
BY PolicyAssumption DEF Kind, Length, Capacity, Limited

-----------------------------------------------------------------------------
(***************************************************************************)
(* The inductive invariant.  WithinBudget alone is not inductive: what a   *)
(* script decides depends on the counter, and a counter that expired       *)
(* starts again at one.  So the invariant counts the lives a counter has   *)
(* spent: each lasted a full period, the first began no earlier than its   *)
(* period, the last no later than MaxDelay after it.                       *)
(***************************************************************************)

\* The units that the current life of a counter has handed out.
HandedOut(kind, p) ==
    IF counter[kind][p].count > Capacity[kind] THEN Capacity[kind]
    ELSE counter[kind][p].count

\* A counter was created by a call that read the clock in its period.
InTime(kind, p) ==
    /\ counter[kind][p].count = 0 => counter[kind][p].expires = 0
    /\ counter[kind][p].count > 0 =>
          counter[kind][p].expires <= (p + 2) * Length[kind] - 1 + MaxDelay

\* Before its current life the counter has spent the given number of lives.
SpentLives(kind, p, spent) ==
    /\ counter[kind][p].count = 0 => spent = 0
    /\ counter[kind][p].count > 0 =>
          (p + spent + 1) * Length[kind] <= counter[kind][p].expires
    /\ HandedOut(kind, p) <= Cardinality(Charged(kind, p))
    /\ Cardinality(Charged(kind, p)) <= spent * Capacity[kind] + HandedOut(kind, p)

Accounted(kind, p) ==
    InTime(kind, p) /\ \E spent \in Nat : SpentLives(kind, p, spent)

\* What is sent for a call: a copy per try, none that is pending older than
\* MaxDelay, and an answer that decided the call came from its last try.
Followed(q) ==
    /\ call[q].pc = "new" <=> call[q].tries = 0
    /\ \A t \in Try : t > call[q].tries => copy[q][t] = "none"
    /\ Pending(q) => call[q].at <= now /\ now <= call[q].at + MaxDelay
    /\ call[q].decision \in Verdict =>
          /\ call[q].pc = "done" /\ call[q].tries \in Try
          /\ copy[q][call[q].tries] = call[q].decision

Called == {q \in Request : call[q].pc # "new"}

\* A run refuses a request only in a period whose budget is used up.
Caused(q, t, kind) ==
    copy[q][t] = Refusal(kind) =>
        Cardinality(Charged(kind, PeriodOf(q, kind))) >= Capacity[kind]

PolicyInv ==
    /\ TypeOK
    /\ IsFiniteSet(Called)
    /\ \A q \in Request : Followed(q)
    /\ \A kind \in Kind, p \in Period : Limited(kind) => Accounted(kind, p)
    /\ \A q \in Request, t \in Try, kind \in Kind : Caused(q, t, kind)

Calls == [pc : {"new", "sent", "done"}, at : 0 .. MaxTime,
          tries : 0 .. Tries, decision : Verdict \cup {"none", "error"}]
Copies == Verdict \cup {"none", "sent"}
Counters == [count : Nat, expires : Nat]

LEMMA PeriodFacts ==
    ASSUME PolicyInv, NEW q \in Request, NEW kind \in Kind
    PROVE  /\ PeriodOf(q, kind) \in Period
           /\ PeriodOf(q, kind) * Length[kind] <= call[q].at
           /\ call[q].at < (PeriodOf(q, kind) + 1) * Length[kind]
<1>1. call[q].at \in 0 .. MaxTime
    BY DEF PolicyInv, TypeOK
<1>2. Length[kind] \in Nat \ {0}
    BY KindFacts
<1>3. /\ PeriodOf(q, kind) \in Nat /\ PeriodOf(q, kind) <= call[q].at
      /\ PeriodOf(q, kind) * Length[kind] <= call[q].at
      /\ call[q].at < PeriodOf(q, kind) * Length[kind] + Length[kind]
    <2> DEFINE at == call[q].at
               length == Length[kind]
    <2>1. at \in Nat /\ length \in Nat \ {0}
        BY <1>1, <1>2, PolicyAssumption
    <2>2. PeriodOf(q, kind) = at \div length
        BY DEF PeriodOf
    <2> HIDE DEF at, length
    <2>3. /\ at \div length \in Nat /\ at \div length <= at
          /\ (at \div length) * length <= at
          /\ at < (at \div length) * length + length
        BY <2>1, DivisionBounds
    <2> QED
        BY <2>2, <2>3 DEF at, length
<1>4. (PeriodOf(q, kind) + 1) * Length[kind] = PeriodOf(q, kind) * Length[kind] + Length[kind]
    BY <1>2, <1>3
<1> QED
    BY <1>1, <1>3, <1>4, PolicyAssumption DEF Period

LEMMA PolicyInit == Init => PolicyInv
<1> SUFFICES ASSUME Init PROVE PolicyInv
    OBVIOUS
<1>1. /\ now = 0
      /\ \A kind \in Kind, p \in Period : counter[kind][p] = NoCounter
      /\ \A q \in Request : call[q] = NotCalled
      /\ \A q \in Request, t \in Try : copy[q][t] = "none"
    BY DEF Init, Kind
<1>2. TypeOK
    <2>1. counter \in [{"rate", "quota"} -> [Period -> [count : Nat, expires : Nat]]]
        BY DEF Init, NoCounter
    <2>2. \A kind \in Kind, p \in Period :
              counter[kind][p].expires <= now + Length[kind]
        BY <1>1, KindFacts DEF NoCounter
    <2>3. call \in [Request -> Calls]
        BY PolicyAssumption DEF Init, Calls, NotCalled
    <2>4. copy \in [Request -> [Try -> Copies]]
        BY DEF Init, Copies
    <2> QED
        BY <1>1, <2>1, <2>2, <2>3, <2>4, PolicyAssumption DEF TypeOK, Calls, Copies, Kind
<1>3. Called = {}
    BY <1>1 DEF Called, NotCalled
<1>4. \A kind \in Kind, p \in Period : Charged(kind, p) = {}
    BY <1>1 DEF Charged, Passing
<1>5. ASSUME NEW kind \in Kind, NEW p \in Period PROVE Accounted(kind, p)
    <2>1. HandedOut(kind, p) = 0
        BY <1>1, KindFacts DEF HandedOut, NoCounter
    <2>2. Cardinality(Charged(kind, p)) = 0
        BY <1>4, FS_EmptySet
    <2>3. SpentLives(kind, p, 0)
        BY <1>1, <2>1, <2>2, KindFacts DEF SpentLives, NoCounter
    <2>4. InTime(kind, p)
        BY <1>1 DEF InTime, NoCounter
    <2> QED
        BY <2>3, <2>4 DEF Accounted
<1>6. \A q \in Request : Followed(q)
    BY <1>1 DEF Followed, Pending, NotCalled, Verdict
<1>7. \A q \in Request, t \in Try, kind \in Kind : Caused(q, t, kind)
    BY <1>1 DEF Caused, Refusal
<1> QED
    BY <1>2, <1>3, <1>5, <1>6, <1>7, FS_EmptySet DEF PolicyInv

-----------------------------------------------------------------------------
(* A counter's life *)

\* Only calls that were made are charged, so charges can be counted.
LEMMA ChargesFinite ==
    ASSUME PolicyInv, NEW kind \in Kind, NEW p
    PROVE  /\ IsFiniteSet(Charged(kind, p))
           /\ Cardinality(Charged(kind, p)) \in Nat
<1>1. Charged(kind, p) \subseteq Called \X Try
    <2> SUFFICES ASSUME NEW u \in Request \X Try, copy[u[1]][u[2]] \in Passing(kind)
                 PROVE  u[1] \in Called
        BY DEF Charged
    <2>1. u[1] \in Request /\ u[2] \in Try
        OBVIOUS
    <2>2. copy[u[1]][u[2]] # "none"
        BY DEF Passing
    <2>3. Followed(u[1]) /\ call[u[1]].tries \in Nat
        BY <2>1, PolicyAssumption DEF PolicyInv, TypeOK
    <2> QED
        BY <2>1, <2>2, <2>3, PolicyAssumption DEF Followed, Called, Try
<1>2. IsFiniteSet(Called) /\ IsFiniteSet(Try)
    BY FS_Interval, PolicyAssumption DEF PolicyInv, Try
<1>3. IsFiniteSet(Called \X Try)
    BY <1>2, FS_Product
<1>4. IsFiniteSet(Charged(kind, p))
    BY <1>1, <1>3, FS_Subset
<1> QED
    BY <1>4, FS_CardinalityType

\* A run that passes is one more charge.
LEMMA ChargeOne ==
    ASSUME PolicyInv, NEW q \in Request, NEW t \in Try, NEW kind \in Kind,
           copy[q][t] = "sent"
    PROVE  LET before == Charged(kind, PeriodOf(q, kind))
           IN  /\ Cardinality(before) \in Nat
               /\ Cardinality(before \cup {<<q, t>>}) = Cardinality(before) + 1
<1> DEFINE before == Charged(kind, PeriodOf(q, kind))
<1>1. IsFiniteSet(before) /\ Cardinality(before) \in Nat
    BY ChargesFinite
<1>2. <<q, t>> \notin before
    BY DEF Charged, Passing
<1> QED
    BY <1>1, <1>2, FS_AddElement

(***************************************************************************)
(* Whatever kind of counter it is, one INCR keeps the account: it either   *)
(* adds a unit to the current life, finds that life's units used up, or    *)
(* begins a new life a full period after the last one began.               *)
(***************************************************************************)
LEMMA IncrementAccounts ==
    ASSUME PolicyInv, NEW q \in Request, NEW t \in Try, NEW kind \in Kind,
           Limited(kind), copy[q][t] = "sent", NEW p \in Period,
           p = PeriodOf(q, kind),
           counter'[kind][p] = Increment(counter[kind][p], Length[kind]),
           Charged(kind, p)' = IF counter'[kind][p].count <= Capacity[kind]
                               THEN Charged(kind, p) \cup {<<q, t>>}
                               ELSE Charged(kind, p)
    PROVE  Accounted(kind, p)'
<1> DEFINE L == Length[kind]
           cap == Capacity[kind]
           c == counter[kind][p]
           used == Cardinality(Charged(kind, p))
<1>0. L \in Nat \ {0} /\ cap \in Nat \ {0}
    BY KindFacts
<1>1. /\ c \in Counters /\ now \in Nat
      /\ c.count \in Nat /\ c.expires \in Nat
    BY DEF PolicyInv, TypeOK, Counters, Kind
<1>2. /\ p \in Nat /\ MaxDelay \in Nat
      /\ p * L <= now
      /\ now <= (p + 1) * L - 1 + MaxDelay
    <2>1. /\ call[q].at \in Nat
          /\ call[q].at <= now /\ now <= call[q].at + MaxDelay
        BY DEF PolicyInv, TypeOK, Followed, Pending
    <2>2. p \in Nat
        BY DEF Period
    <2> QED
        BY <1>0, <1>1, <2>1, <2>2, PeriodFacts, PolicyAssumption
<1>4. used \in Nat /\ Cardinality(Charged(kind, p) \cup {<<q, t>>}) = used + 1
    BY ChargeOne
<1>5. InTime(kind, p)
    BY DEF PolicyInv, Accounted
<1>6. PICK spent \in Nat : SpentLives(kind, p, spent)
    BY DEF PolicyInv, Accounted
<1>7. CASE c.expires > now
    <2>1. c.count > 0
        BY <1>1, <1>5, <1>7 DEF InTime
    <2>2. counter'[kind][p].count = c.count + 1 /\ counter'[kind][p].expires = c.expires
        BY <1>1, <1>7 DEF Increment, Counters
    <2>3. InTime(kind, p)'
        BY <1>1, <1>5, <2>1, <2>2 DEF InTime
    <2>4. CASE c.count < cap
        <3>1. Charged(kind, p)' = Charged(kind, p) \cup {<<q, t>>}
            BY <1>0, <1>1, <2>2, <2>4
        <3>2. HandedOut(kind, p) = c.count /\ HandedOut(kind, p)' = c.count + 1
            BY <1>0, <1>1, <2>2, <2>4 DEF HandedOut
        <3>3. spent * cap \in Nat
            BY <1>0
        <3>4. Cardinality(Charged(kind, p))' = used + 1
            BY <1>4, <3>1
        <3>5. /\ used <= spent * cap + c.count /\ c.count <= used
              /\ (p + spent + 1) * L <= counter'[kind][p].expires
            BY <1>6, <2>1, <2>2, <3>2 DEF SpentLives
        <3>6. used + 1 <= spent * cap + (c.count + 1) /\ c.count + 1 <= used + 1
            BY <1>1, <1>4, <3>3, <3>5
        <3>7. counter'[kind][p].count # 0
            BY <1>1, <2>2
        <3>8. SpentLives(kind, p, spent)'
            BY <3>2, <3>4, <3>5, <3>6, <3>7 DEF SpentLives
        <3> QED
            BY <2>3, <3>8 DEF Accounted
    <2>5. CASE c.count >= cap
        <3>1. Charged(kind, p)' = Charged(kind, p)
            BY <1>0, <1>1, <2>2, <2>5
        <3>2. HandedOut(kind, p) = cap /\ HandedOut(kind, p)' = cap
            BY <1>0, <1>1, <2>2, <2>5 DEF HandedOut
        <3>3. Cardinality(Charged(kind, p))' = used
            BY <3>1
        <3>4. /\ used <= spent * cap + cap /\ cap <= used
              /\ (p + spent + 1) * L <= counter'[kind][p].expires
            BY <1>6, <2>1, <2>2, <3>2 DEF SpentLives
        <3>5. counter'[kind][p].count # 0
            BY <1>1, <2>2
        <3>6. SpentLives(kind, p, spent)'
            BY <3>2, <3>3, <3>4, <3>5 DEF SpentLives
        <3> QED
            BY <2>3, <3>6 DEF Accounted
    <2> QED
        BY <1>0, <1>1, <2>4, <2>5
<1>8. CASE c.expires <= now
    <2>1. counter'[kind][p].count = 1 /\ counter'[kind][p].expires = now + L
        BY <1>1, <1>8 DEF Increment
    <2>2. Charged(kind, p)' = Charged(kind, p) \cup {<<q, t>>}
        BY <1>0, <2>1
    <2>3. HandedOut(kind, p)' = 1
        BY <1>0, <2>1 DEF HandedOut
    <2>4. (p + 2) * L = (p + 1) * L + L /\ (p + 1) * L \in Nat
        BY <1>0, <1>2
    <2>5. InTime(kind, p)'
        BY <1>0, <1>1, <1>2, <2>1, <2>4 DEF InTime
    <2>6. CASE c.count = 0
        <3>1. HandedOut(kind, p) = 0 /\ spent = 0
            BY <1>0, <1>6, <2>6 DEF HandedOut, SpentLives
        <3>2. used = 0
            BY <1>0, <1>4, <1>6, <3>1 DEF SpentLives
        <3>3. (p + 0 + 1) * L <= now + L
            BY <1>0, <1>1, <1>2
        <3>4. 0 * cap = 0
            BY <1>0
        <3>5. Cardinality(Charged(kind, p))' = 1
            <4>1. Cardinality(Charged(kind, p) \cup {<<q, t>>}) = 1
                BY <1>4, <3>2
            <4> QED
                BY <2>2, <4>1
        <3>6. SpentLives(kind, p, 0)'
            BY <1>0, <1>1, <1>2, <2>1, <2>3, <3>3, <3>4, <3>5 DEF SpentLives
        <3> QED
            BY <2>5, <3>6 DEF Accounted
    <2>7. CASE c.count > 0
        <3>1. HandedOut(kind, p) <= cap /\ HandedOut(kind, p) \in Nat
            BY <1>0, <1>1 DEF HandedOut
        <3>2. (spent + 1) * cap = spent * cap + cap /\ spent * cap \in Nat
            BY <1>0
        <3>3. used <= (spent + 1) * cap
            BY <1>0, <1>4, <1>6, <3>1, <3>2 DEF SpentLives
        <3>4. (p + (spent + 1) + 1) * L = (p + spent + 1) * L + L
              /\ (p + spent + 1) * L \in Nat
            BY <1>0, <1>2
        <3>5. (p + (spent + 1) + 1) * L <= now + L
            BY <1>0, <1>1, <1>6, <1>8, <2>7, <3>4 DEF SpentLives
        <3>6. SpentLives(kind, p, spent + 1)'
            BY <1>0, <1>4, <2>1, <2>2, <2>3, <3>2, <3>3, <3>5 DEF SpentLives
        <3> QED
            BY <2>5, <3>6 DEF Accounted
    <2> QED
        BY <1>1, <2>6, <2>7
<1> QED
    BY <1>1, <1>7, <1>8
-----------------------------------------------------------------------------
(* The steps *)

\* What neither runs a script nor changes when a charged call read the clock
\* charges nobody.
LEMMA NothingCharged ==
    ASSUME PolicyInv, UNCHANGED counter,
           \A r \in Request, t \in Try, v \in Verdict :
               /\ copy'[r][t] = v <=> copy[r][t] = v
               /\ copy[r][t] = v => call'[r].at = call[r].at
    PROVE  /\ \A kind \in Kind, p \in Period : Limited(kind) => Accounted(kind, p)'
           /\ \A r \in Request, t \in Try, kind \in Kind : Caused(r, t, kind)'
<1>1. ASSUME NEW kind \in Kind, NEW p \in Nat PROVE Charged(kind, p)' = Charged(kind, p)
    <2>1. ASSUME NEW r \in Request, NEW t \in Try
          PROVE  /\ copy'[r][t] \in Passing(kind) <=> copy[r][t] \in Passing(kind)
                 /\ copy[r][t] \in Passing(kind) =>
                       PeriodOf(r, kind)' = PeriodOf(r, kind)
        BY DEF Passing, Verdict, PeriodOf
    <2>2. ASSUME NEW u \in Request \X Try
          PROVE  (copy'[u[1]][u[2]] \in Passing(kind) /\ PeriodOf(u[1], kind)' = p)
                     <=> (copy[u[1]][u[2]] \in Passing(kind) /\ PeriodOf(u[1], kind) = p)
        <3>1. u[1] \in Request /\ u[2] \in Try
            OBVIOUS
        <3> QED
            BY <2>1, <3>1
    <2> QED
        BY <2>2 DEF Charged
<1>2. ASSUME NEW kind \in Kind, NEW p \in Period, Limited(kind)
      PROVE  Accounted(kind, p)'
    <2>1. Accounted(kind, p)
        BY <1>2 DEF PolicyInv
    <2>2. Charged(kind, p)' = Charged(kind, p) /\ HandedOut(kind, p)' = HandedOut(kind, p)
        BY <1>1 DEF Period, HandedOut
    <2>3. InTime(kind, p)'
        BY <2>1 DEF Accounted, InTime
    <2>4. PICK spent \in Nat : SpentLives(kind, p, spent)
        BY <2>1 DEF Accounted
    <2>5. SpentLives(kind, p, spent)'
        BY <2>2, <2>4 DEF SpentLives
    <2> QED
        BY <2>3, <2>5 DEF Accounted
<1>3. ASSUME NEW r \in Request, NEW t \in Try, NEW kind \in Kind
      PROVE  Caused(r, t, kind)'
    <2>1. SUFFICES ASSUME copy'[r][t] = Refusal(kind)
                   PROVE  Cardinality(Charged(kind, PeriodOf(r, kind)))' >= Capacity[kind]
        BY DEF Caused
    <2>2. copy[r][t] = Refusal(kind) /\ PeriodOf(r, kind)' = PeriodOf(r, kind)
        BY <2>1 DEF Refusal, Verdict, PeriodOf
    <2>3. Cardinality(Charged(kind, PeriodOf(r, kind))) >= Capacity[kind]
        BY <2>2 DEF PolicyInv, Caused
    <2>4. PeriodOf(r, kind) \in Nat
        BY PeriodFacts DEF Period
    <2>5. Charged(kind, PeriodOf(r, kind))' = Charged(kind, PeriodOf(r, kind))
        BY <1>1, <2>2, <2>4
    <2> QED
        BY <2>3, <2>5
<1> QED
    BY <1>2, <1>3

\* One copy of the script sent or lost, and the rest as it was.
LEMMA CopyMoves ==
    ASSUME PolicyInv, NEW q \in Request, NEW t \in Try, NEW state \in {"none", "sent"},
           copy' = [copy EXCEPT ![q][t] = state], copy[q][t] \in {"none", "sent"}
    PROVE  /\ copy' \in [Request -> [Try -> Copies]]
           /\ copy'[q][t] = state
           /\ \A s \in Try \ {t} : copy'[q][s] = copy[q][s]
           /\ \A r \in Request \ {q} : copy'[r] = copy[r]
           /\ \A r \in Request, s \in Try, v \in Verdict :
                 copy'[r][s] = v <=> copy[r][s] = v
<1>1. copy \in [Request -> [Try -> Copies]]
    BY DEF PolicyInv, TypeOK, Copies
<1>2. copy[q] \in [Try -> Copies]
    BY <1>1
<1> DEFINE moved == [copy[q] EXCEPT ![t] = state]
<1>3. /\ moved \in [Try -> Copies] /\ moved[t] = state
      /\ \A s \in Try \ {t} : moved[s] = copy[q][s]
    BY <1>2 DEF Copies
<1>4. copy' = [copy EXCEPT ![q] = moved]
    OBVIOUS
<1> HIDE DEF moved
<1>5. /\ copy' \in [Request -> [Try -> Copies]] /\ copy'[q] = moved
      /\ \A r \in Request \ {q} : copy'[r] = copy[r]
    BY <1>1, <1>3, <1>4
<1>6. ASSUME NEW s \in Try, NEW v \in Verdict
      PROVE  copy'[q][s] = v <=> copy[q][s] = v
    BY <1>3, <1>5 DEF Verdict
<1> QED
    BY <1>3, <1>5, <1>6

LEMMA ReadClockStep ==
    ASSUME PolicyInv, NEW q \in Request, ReadClock(q)
    PROVE  PolicyInv'
<1>1. /\ call \in [Request -> Calls] /\ now \in 0 .. MaxTime
      /\ Tries \in Nat \ {0} /\ 1 \in Try
      /\ UNCHANGED <<now, counter>>
    BY PolicyAssumption DEF PolicyInv, TypeOK, Calls, ReadClock, Try
<1>2. /\ Followed(q) /\ call[q].pc = "new" /\ call[q].tries = 0
      /\ \A t \in Try : copy[q][t] = "none"
    <2>1. Followed(q) /\ call[q].pc = "new"
        BY DEF PolicyInv, ReadClock
    <2> QED
        BY <2>1 DEF Followed, Try
<1>3. /\ call' \in [Request -> Calls]
      /\ call'[q] = [pc |-> "sent", at |-> now, tries |-> 1, decision |-> "none"]
      /\ \A r \in Request \ {q} : call'[r] = call[r]
    BY <1>1 DEF ReadClock, Calls
<1>4. copy' = [copy EXCEPT ![q][1] = "sent"]
    BY DEF ReadClock
<1>5. /\ copy' \in [Request -> [Try -> Copies]]
      /\ copy'[q][1] = "sent"
      /\ \A t \in Try \ {1} : copy'[q][t] = "none"
      /\ \A r \in Request \ {q} : copy'[r] = copy[r]
      /\ \A r \in Request, t \in Try, v \in Verdict :
            copy'[r][t] = v <=> copy[r][t] = v
    <2>1. PICK first \in Try : first = 1
        BY <1>1
    <2>2. copy' = [copy EXCEPT ![q][first] = "sent"] /\ copy[q][first] \in {"none", "sent"}
        BY <1>2, <1>4, <2>1
    <2>3. /\ copy' \in [Request -> [Try -> Copies]]
          /\ copy'[q][first] = "sent"
          /\ \A t \in Try \ {first} : copy'[q][t] = copy[q][t]
          /\ \A r \in Request \ {q} : copy'[r] = copy[r]
          /\ \A r \in Request, t \in Try, v \in Verdict :
                copy'[r][t] = v <=> copy[r][t] = v
        BY <2>2, CopyMoves
    <2> QED
        BY <1>2, <2>1, <2>3
<1>6. TypeOK'
    BY <1>1, <1>3, <1>5 DEF PolicyInv, TypeOK, Calls, Copies
<1>7. IsFiniteSet(Called)'
    <2>1. Called' = Called \cup {q}
        BY <1>3 DEF Called
    <2> QED
        BY <2>1, FS_AddElement DEF PolicyInv
<1>8. ASSUME NEW r \in Request PROVE Followed(r)'
    <2>1. CASE r = q
        <3>1. \A t \in Try : t > 1 => copy'[q][t] = "none"
            BY <1>5 DEF Try
        <3>2. "none" \notin Verdict
            BY DEF Verdict
        <3> QED
            BY <1>1, <1>3, <2>1, <3>1, <3>2, PolicyAssumption DEF Followed
    <2>2. CASE r # q
        BY <1>1, <1>3, <1>5, <2>2 DEF PolicyInv, Followed, Pending
    <2> QED
        BY <2>1, <2>2
<1>9. \A r \in Request, t \in Try, v \in Verdict : copy[r][t] = v => call'[r].at = call[r].at
    <2>1. \A t \in Try : copy[q][t] \notin Verdict
        BY <1>2 DEF Verdict
    <2> QED
        BY <1>3, <2>1
<1>10. /\ \A kind \in Kind, p \in Period : Limited(kind) => Accounted(kind, p)'
       /\ \A r \in Request, t \in Try, kind \in Kind : Caused(r, t, kind)'
    <2>1. UNCHANGED counter
        BY <1>1
    <2> QED
        BY <1>5, <1>9, <2>1, NothingCharged
<1> QED
    BY <1>6, <1>7, <1>8, <1>10 DEF PolicyInv

LEMMA LoseStep ==
    ASSUME PolicyInv, NEW q \in Request, NEW t \in Try, Lose(q, t)
    PROVE  PolicyInv'
<1>1. /\ copy[q][t] = "sent" /\ copy' = [copy EXCEPT ![q][t] = "none"]
      /\ UNCHANGED now /\ UNCHANGED counter /\ UNCHANGED call
    BY DEF Lose
<1>2. /\ copy' \in [Request -> [Try -> Copies]]
      /\ copy'[q][t] = "none"
      /\ \A s \in Try \ {t} : copy'[q][s] = copy[q][s]
      /\ \A r \in Request \ {q} : copy'[r] = copy[r]
      /\ \A r \in Request, s \in Try, v \in Verdict :
            copy'[r][s] = v <=> copy[r][s] = v
    BY <1>1, CopyMoves
<1>3. TypeOK' /\ IsFiniteSet(Called)'
    BY <1>1, <1>2 DEF PolicyInv, TypeOK, Calls, Copies, Called
<1>4. ASSUME NEW r \in Request PROVE Followed(r)'
    <2>1. /\ \A s \in Try : copy[r][s] = "none" => copy'[r][s] = "none"
          /\ \A s \in Try : copy'[r][s] = "sent" => copy[r][s] = "sent"
        BY <1>1, <1>2
    <2>2. Followed(r)
        BY DEF PolicyInv
    <2>3. Pending(r)' => Pending(r)
        BY <1>1, <2>1 DEF Pending
    <2>4. call[r].decision \in Verdict => copy'[r][call[r].tries] = call[r].decision
        BY <1>2, <2>2 DEF Followed
    <2> QED
        BY <1>1, <2>1, <2>2, <2>3, <2>4 DEF Followed
<1>5. /\ \A kind \in Kind, p \in Period : Limited(kind) => Accounted(kind, p)'
      /\ \A r \in Request, s \in Try, kind \in Kind : Caused(r, s, kind)'
    BY <1>1, <1>2, NothingCharged
<1> QED
    BY <1>3, <1>4, <1>5 DEF PolicyInv

LEMMA ResendStep ==
    ASSUME PolicyInv, NEW q \in Request, Resend(q)
    PROVE  PolicyInv'
<1> DEFINE next == call[q].tries + 1
<1>1. /\ call \in [Request -> Calls] /\ Tries \in Nat /\ call[q].tries \in Nat
      /\ call[q].pc = "sent" /\ call[q].tries < Tries
      /\ UNCHANGED now /\ UNCHANGED counter
    BY PolicyAssumption DEF PolicyInv, TypeOK, Calls, Resend
<1>2. next \in Try /\ copy[q][next] = "none" /\ Followed(q)
    <2>1. Followed(q)
        BY DEF PolicyInv
    <2> QED
        BY <1>1, <2>1 DEF Followed, Try
<1>3. /\ call' \in [Request -> Calls]
      /\ call'[q].pc = "sent" /\ call'[q].tries = next
      /\ call'[q].at = call[q].at /\ call'[q].decision = call[q].decision
      /\ \A r \in Request \ {q} : call'[r] = call[r]
    BY <1>1 DEF Resend, Calls
<1>4. copy' = [copy EXCEPT ![q][next] = "sent"]
    BY DEF Resend
<1> HIDE DEF next
<1>5. /\ copy' \in [Request -> [Try -> Copies]]
      /\ copy'[q][next] = "sent"
      /\ \A t \in Try \ {next} : copy'[q][t] = copy[q][t]
      /\ \A r \in Request \ {q} : copy'[r] = copy[r]
      /\ \A r \in Request, t \in Try, v \in Verdict :
            copy'[r][t] = v <=> copy[r][t] = v
    BY <1>2, <1>4, CopyMoves
<1>6. TypeOK'
    BY <1>1, <1>3, <1>5 DEF PolicyInv, TypeOK, Calls, Copies
<1>7. IsFiniteSet(Called)'
    <2>1. Called' = Called
        BY <1>1, <1>3 DEF Called
    <2> QED
        BY <2>1 DEF PolicyInv
<1>8. ASSUME NEW r \in Request PROVE Followed(r)'
    <2>1. CASE r = q
        <3>1. Pending(q) /\ call[q].decision \notin Verdict
            BY <1>1, <1>2 DEF Pending, Followed
        <3>2. \A t \in Try : t > next => copy'[q][t] = "none"
            <4>1. \A t \in Try : t > next => t > call[q].tries /\ t \in Try \ {next}
                BY <1>1 DEF next, Try
            <4> QED
                BY <1>2, <1>5, <4>1 DEF Followed
        <3>3. next # 0
            BY <1>1 DEF next
        <3>4. call[q].at <= now /\ now <= call[q].at + MaxDelay
            BY <1>2, <3>1 DEF Followed
        <3> QED
            BY <1>1, <1>3, <2>1, <3>1, <3>2, <3>3, <3>4 DEF Followed
    <2>2. CASE r # q
        BY <1>1, <1>3, <1>5, <2>2 DEF PolicyInv, Followed, Pending
    <2> QED
        BY <2>1, <2>2
<1>9. \A r \in Request : call'[r].at = call[r].at
    BY <1>3
<1>10. /\ \A kind \in Kind, p \in Period : Limited(kind) => Accounted(kind, p)'
       /\ \A r \in Request, t \in Try, kind \in Kind : Caused(r, t, kind)'
    BY <1>1, <1>5, <1>9, NothingCharged
<1> QED
    BY <1>6, <1>7, <1>8, <1>10 DEF PolicyInv

LEMMA ErrorStep ==
    ASSUME PolicyInv, NEW q \in Request, Error(q)
    PROVE  PolicyInv'
<1>1. /\ call \in [Request -> Calls] /\ call[q].pc = "sent"
      /\ UNCHANGED now /\ UNCHANGED counter /\ UNCHANGED copy
    BY DEF PolicyInv, TypeOK, Calls, Error
<1>2. /\ call' \in [Request -> Calls]
      /\ call'[q].pc = "done" /\ call'[q].decision = "error"
      /\ call'[q].at = call[q].at /\ call'[q].tries = call[q].tries
      /\ \A r \in Request \ {q} : call'[r] = call[r]
    <2> DEFINE ended == [call EXCEPT ![q].pc = "done"]
    <2>1. /\ ended \in [Request -> Calls]
          /\ ended[q].pc = "done" /\ ended[q].at = call[q].at
          /\ ended[q].tries = call[q].tries
          /\ \A r \in Request \ {q} : ended[r] = call[r]
        BY <1>1 DEF Calls
    <2>2. call' = [ended EXCEPT ![q].decision = "error"]
        BY DEF Error
    <2> HIDE DEF ended
    <2> QED
        BY <2>1, <2>2 DEF Calls
<1>3. TypeOK'
    BY <1>1, <1>2 DEF PolicyInv, TypeOK, Calls
<1>4. IsFiniteSet(Called)'
    <2>1. Called' = Called
        BY <1>1, <1>2 DEF Called
    <2> QED
        BY <2>1 DEF PolicyInv
<1>5. ASSUME NEW r \in Request PROVE Followed(r)'
    <2>1. Followed(r)
        BY DEF PolicyInv
    <2>2. Pending(r)' => Pending(r)
        BY <1>1, <1>2 DEF Pending
    <2>3. "error" \notin Verdict
        BY DEF Verdict
    <2> QED
        BY <1>1, <1>2, <2>1, <2>2, <2>3 DEF Followed
<1>6. \A r \in Request : call'[r].at = call[r].at
    BY <1>2
<1>7. /\ \A kind \in Kind, p \in Period : Limited(kind) => Accounted(kind, p)'
      /\ \A r \in Request, t \in Try, kind \in Kind : Caused(r, t, kind)'
    BY <1>1, <1>6, NothingCharged
<1> QED
    BY <1>3, <1>4, <1>5, <1>7 DEF PolicyInv

LEMMA TickStep ==
    ASSUME PolicyInv, Tick
    PROVE  PolicyInv'
<1>1. /\ now \in 0 .. MaxTime /\ MaxTime \in Nat /\ MaxDelay \in Nat
      /\ now < MaxTime /\ now' = now + 1
      /\ UNCHANGED counter /\ UNCHANGED call /\ UNCHANGED copy
      /\ \A q \in Request : Pending(q) => now - call[q].at < MaxDelay
    BY PolicyAssumption DEF PolicyInv, TypeOK, Tick
<1>2. TypeOK'
    <2>1. ASSUME NEW kind \in Kind, NEW p \in Period
          PROVE  counter[kind][p].expires <= now' + Length[kind]
        <3>1. counter[kind][p].expires \in Nat
              /\ counter[kind][p].expires <= now + Length[kind]
            BY DEF PolicyInv, TypeOK, Kind
        <3> QED
            BY <1>1, <3>1, KindFacts
    <2> QED
        BY <1>1, <2>1 DEF PolicyInv, TypeOK, Kind
<1>3. IsFiniteSet(Called)'
    BY <1>1 DEF PolicyInv, Called
<1>4. ASSUME NEW q \in Request PROVE Followed(q)'
    <2>1. call[q].at \in Nat /\ Followed(q) /\ (Pending(q)' <=> Pending(q))
        BY <1>1 DEF PolicyInv, TypeOK, Pending
    <2> QED
        BY <1>1, <2>1 DEF Followed
<1> QED
    BY <1>1, <1>2, <1>3, <1>4, NothingCharged DEF PolicyInv
-----------------------------------------------------------------------------
(* The script *)

\* The kinds whose counter a run of the script increments.
Counted(q) ==
    IF Limited("rate") /\ Exceeds(q, "rate") THEN {"rate"}
    ELSE {kind \in Kind : Limited(kind)}

LEMMA ScriptCall ==
    ASSUME PolicyInv, NEW q \in Request, NEW t \in Try, NEW heard \in BOOLEAN,
           RunScript(q, t, heard)
    PROVE  /\ call' \in [Request -> Calls]
           /\ \A r \in Request : call'[r].at = call[r].at /\ call'[r].tries = call[r].tries
           /\ \A r \in Request \ {q} : call'[r] = call[r]
           /\ \/ call'[q] = call[q]
              \/ /\ call[q].pc = "sent" /\ t = call[q].tries
                 /\ call'[q].pc = "done" /\ call'[q].decision = Script(q).verdict
<1>1. call \in [Request -> Calls]
    BY DEF PolicyInv, TypeOK, Calls
<1>2. PICK verdict : verdict = Script(q).verdict
    OBVIOUS
<1>3. verdict \in Verdict
    BY <1>2 DEF Script, Verdict
<1>4. CASE ~heard
    BY <1>1, <1>4 DEF RunScript
<1>5. CASE heard
    <2> DEFINE ended == [call EXCEPT ![q].pc = "done"]
    <2>1. /\ ended \in [Request -> Calls]
          /\ ended[q].pc = "done" /\ ended[q].at = call[q].at
          /\ ended[q].tries = call[q].tries
          /\ \A r \in Request \ {q} : ended[r] = call[r]
        BY <1>1 DEF Calls
    <2>2. /\ call' = [ended EXCEPT ![q].decision = verdict]
          /\ call[q].pc = "sent" /\ t = call[q].tries
        BY <1>2, <1>5 DEF RunScript
    <2> HIDE DEF ended
    <2>3. /\ call' \in [Request -> Calls]
          /\ call'[q].pc = "done" /\ call'[q].at = call[q].at
          /\ call'[q].tries = call[q].tries /\ call'[q].decision = verdict
          /\ \A r \in Request \ {q} : call'[r] = call[r]
        BY <1>3, <2>1, <2>2 DEF Calls
    <2> QED
        BY <1>2, <2>2, <2>3
<1> QED
    BY <1>4, <1>5

LEMMA ScriptCopy ==
    ASSUME PolicyInv, NEW q \in Request, NEW t \in Try, NEW heard \in BOOLEAN,
           RunScript(q, t, heard)
    PROVE  /\ copy' \in [Request -> [Try -> Copies]]
           /\ copy[q][t] = "sent" /\ copy'[q][t] = Script(q).verdict
           /\ copy'[q][t] \in Verdict
           /\ \A s \in Try \ {t} : copy'[q][s] = copy[q][s]
           /\ \A r \in Request \ {q} : copy'[r] = copy[r]
<1>1. copy \in [Request -> [Try -> Copies]] /\ copy[q] \in [Try -> Copies]
    BY DEF PolicyInv, TypeOK, Copies
<1>2. PICK verdict : verdict = Script(q).verdict
    OBVIOUS
<1>3. verdict \in Verdict
    BY <1>2 DEF Script, Verdict
<1> DEFINE run == [copy[q] EXCEPT ![t] = verdict]
<1>4. /\ run \in [Try -> Copies] /\ run[t] = verdict
      /\ \A s \in Try \ {t} : run[s] = copy[q][s]
    BY <1>1, <1>3 DEF Copies
<1>5. copy' = [copy EXCEPT ![q] = run] /\ copy[q][t] = "sent"
    BY <1>2 DEF RunScript
<1> HIDE DEF run
<1> QED
    BY <1>1, <1>2, <1>3, <1>4, <1>5

LEMMA ScriptCounter ==
    ASSUME PolicyInv, NEW q \in Request, NEW t \in Try, NEW heard \in BOOLEAN,
           RunScript(q, t, heard)
    PROVE  /\ counter' \in [Kind -> [Period -> Counters]]
           /\ \A kind \in Kind, p \in Period :
                 counter'[kind][p] =
                     IF kind \in Counted(q) /\ p = PeriodOf(q, kind)
                     THEN Increment(counter[kind][p], Length[kind])
                     ELSE counter[kind][p]
<1>1. counter \in [Kind -> [Period -> Counters]] /\ now \in Nat
    BY DEF PolicyInv, TypeOK, Kind, Counters
<1>2. counter' = Bumped(q, Counted(q))
    BY DEF RunScript, Script, Counted, Kind
<1>3. DOMAIN counter = Kind
    BY <1>1
<1>4. \A kind \in Kind, p \in Period :
          Increment(counter[kind][p], Length[kind]) \in Counters
    BY <1>1, KindFacts DEF Increment, Counters
<1> QED
    BY <1>1, <1>2, <1>3, <1>4 DEF Bumped

\* A counted request passes if and only if its count is within the capacity,
\* and one that is not counted does not pass.
LEMMA VerdictFollowsCount ==
    ASSUME NEW q \in Request, NEW kind \in Kind, Limited(kind),
           NEW verdict, verdict = Script(q).verdict
    PROVE  /\ kind \in Counted(q) =>
                 (verdict \in {"allow"} \cup (IF kind = "rate" THEN {"quota_exceeded"} ELSE {})
                     <=> ~Exceeds(q, kind))
           /\ kind \notin Counted(q) =>
                 verdict \notin {"allow"} \cup (IF kind = "rate" THEN {"quota_exceeded"} ELSE {})
           /\ verdict = Refusal(kind) => kind \in Counted(q) /\ Exceeds(q, kind)
BY DEF Script, Counted, Refusal, Kind

LEMMA RefusedKindLimited ==
    ASSUME NEW q \in Request, NEW kind \in Kind, Script(q).verdict = Refusal(kind)
    PROVE  Limited(kind)
BY DEF Script, Refusal, Kind
(***************************************************************************)
(* A run of the script keeps the account of every limited kind and period, *)
(* and refuses only what it found used up.                                 *)
(***************************************************************************)
LEMMA ScriptStep ==
    ASSUME PolicyInv, NEW q \in Request, NEW t \in Try, NEW heard \in BOOLEAN,
           RunScript(q, t, heard)
    PROVE  PolicyInv'
<1>1. UNCHANGED now
    BY DEF RunScript
<1>2. /\ call' \in [Request -> Calls]
      /\ \A r \in Request : call'[r].at = call[r].at /\ call'[r].tries = call[r].tries
      /\ \A r \in Request \ {q} : call'[r] = call[r]
      /\ \/ call'[q] = call[q]
         \/ /\ call[q].pc = "sent" /\ t = call[q].tries
            /\ call'[q].pc = "done" /\ call'[q].decision = Script(q).verdict
    BY ScriptCall
<1>3. /\ counter' \in [Kind -> [Period -> Counters]]
      /\ \A kind \in Kind, p \in Period :
            counter'[kind][p] =
                IF kind \in Counted(q) /\ p = PeriodOf(q, kind)
                THEN Increment(counter[kind][p], Length[kind])
                ELSE counter[kind][p]
    BY ScriptCounter
<1>4. /\ copy' \in [Request -> [Try -> Copies]]
      /\ copy[q][t] = "sent" /\ copy'[q][t] = Script(q).verdict
      /\ copy'[q][t] \in Verdict
      /\ \A s \in Try \ {t} : copy'[q][s] = copy[q][s]
      /\ \A r \in Request \ {q} : copy'[r] = copy[r]
    BY ScriptCopy
<1>5. TypeOK'
    <2>1. ASSUME NEW kind \in Kind, NEW p \in Period
          PROVE  counter'[kind][p].expires <= now + Length[kind]
        <3>1. /\ counter[kind][p] \in Counters /\ now \in Nat
              /\ counter[kind][p].expires <= now + Length[kind]
            BY DEF PolicyInv, TypeOK, Kind, Counters
        <3>2. Increment(counter[kind][p], Length[kind]).expires <= now + Length[kind]
            BY <3>1, KindFacts DEF Increment, Counters
        <3> QED
            BY <1>3, <3>1, <3>2
    <2> QED
        BY <1>1, <1>2, <1>3, <1>4, <2>1 DEF PolicyInv, TypeOK, Kind, Counters, Calls, Copies
<1>6. IsFiniteSet(Called)'
    <2>1. Called' = Called
        BY <1>2 DEF Called
    <2> QED
        BY <2>1 DEF PolicyInv
<1>7. ASSUME NEW r \in Request PROVE Followed(r)'
    <2>1. Followed(r)
        BY DEF PolicyInv
    <2>2. CASE r # q
        BY <1>1, <1>2, <1>4, <2>1, <2>2 DEF Followed, Pending
    <2>3. CASE r = q
        <3>1. Pending(q)
            BY <1>4 DEF Pending
        <3>2. call[q].tries \in Nat /\ ~(t > call[q].tries)
            BY <1>4, <2>1, <2>3 DEF PolicyInv, TypeOK, Followed
        <3>3. \A s \in Try : s > call[q].tries => copy'[q][s] = "none"
            <4>1. \A s \in Try : s > call[q].tries => s \in Try \ {t}
                BY <3>2
            <4> QED
                BY <1>4, <2>1, <2>3, <4>1 DEF Followed
        <3>4. CASE call'[q] = call[q]
            <4>1. call[q].decision \in Verdict => copy'[q][call[q].tries] = call[q].decision
                <5>1. copy[q][t] \notin Verdict
                    BY <1>4 DEF Verdict
                <5> QED
                    BY <1>4, <2>1, <2>3, <5>1 DEF Followed
            <4> QED
                BY <1>1, <2>1, <2>3, <3>1, <3>3, <3>4, <4>1 DEF Followed
        <3>5. CASE /\ call[q].pc = "sent" /\ t = call[q].tries
                   /\ call'[q].pc = "done" /\ call'[q].decision = Script(q).verdict
            BY <1>1, <1>2, <1>4, <2>1, <2>3, <3>1, <3>3, <3>5 DEF Followed
        <3> QED
            BY <1>2, <3>4, <3>5
    <2> QED
        BY <2>2, <2>3
<1>8. \A r \in Request, kind \in Kind : PeriodOf(r, kind)' = PeriodOf(r, kind)
    BY <1>2 DEF PeriodOf
<1>9. ASSUME NEW kind \in Kind, NEW p \in Period
      PROVE  Charged(kind, p)' =
                 IF copy'[q][t] \in Passing(kind) /\ p = PeriodOf(q, kind)
                 THEN Charged(kind, p) \cup {<<q, t>>} ELSE Charged(kind, p)
    <2>1. copy[q][t] \notin Passing(kind)
        BY <1>4 DEF Passing
    <2>2. ASSUME NEW u \in Request \X Try, u # <<q, t>>
          PROVE  /\ copy'[u[1]][u[2]] = copy[u[1]][u[2]]
                 /\ PeriodOf(u[1], kind)' = PeriodOf(u[1], kind)
        <3>1. u[1] \in Request /\ u[2] \in Try /\ (u[1] # q \/ u[2] # t)
            BY <2>2
        <3> QED
            BY <1>4, <1>8, <3>1
    <2>3. /\ <<q, t>> \in Request \X Try
          /\ <<q, t>> \in Charged(kind, p)' <=>
                copy'[q][t] \in Passing(kind) /\ p = PeriodOf(q, kind)
          /\ <<q, t>> \notin Charged(kind, p)
        BY <1>8, <2>1 DEF Charged
    <2>4. ASSUME NEW u \in Request \X Try, u # <<q, t>>
          PROVE  u \in Charged(kind, p)' <=> u \in Charged(kind, p)
        BY <2>2, <2>4 DEF Charged
    <2>5. Charged(kind, p) \subseteq Request \X Try /\ Charged(kind, p)' \subseteq Request \X Try
        BY DEF Charged
    <2> QED
        BY <2>3, <2>4, <2>5
<1>10. ASSUME NEW kind \in Kind, Limited(kind)
       PROVE  /\ kind \in Counted(q) => (copy'[q][t] \in Passing(kind) <=> ~Exceeds(q, kind))
              /\ kind \notin Counted(q) => copy'[q][t] \notin Passing(kind)
              /\ copy'[q][t] = Refusal(kind) => kind \in Counted(q) /\ Exceeds(q, kind)
    <2>1. PICK verdict : verdict = Script(q).verdict
        OBVIOUS
    <2> QED
        BY <1>4, <1>10, <2>1, VerdictFollowsCount DEF Passing
<1>11. ASSUME NEW kind \in Kind, NEW p \in Period, Limited(kind)
       PROVE  Accounted(kind, p)'
    <2>1. CASE kind \in Counted(q) /\ p = PeriodOf(q, kind)
        <3>1. counter'[kind][p] = Increment(counter[kind][p], Length[kind])
            BY <1>3, <2>1
        <3>2. /\ counter'[kind][p].count \in Nat /\ Capacity[kind] \in Nat
              /\ Exceeds(q, kind) <=> counter'[kind][p].count > Capacity[kind]
            BY <1>3, <2>1, <3>1, KindFacts DEF Exceeds, Counters
        <3>3. Charged(kind, p)' = IF counter'[kind][p].count <= Capacity[kind]
                                  THEN Charged(kind, p) \cup {<<q, t>>}
                                  ELSE Charged(kind, p)
            BY <1>9, <1>10, <1>11, <2>1, <3>2
        <3> QED
            BY <1>4, <1>11, <2>1, <3>1, <3>3, IncrementAccounts
    <2>2. CASE ~(kind \in Counted(q) /\ p = PeriodOf(q, kind))
        <3>1. counter'[kind][p] = counter[kind][p]
            BY <1>3, <2>2
        <3>2. Charged(kind, p)' = Charged(kind, p)
            BY <1>9, <1>10, <1>11, <2>2
        <3>3. InTime(kind, p)' /\ HandedOut(kind, p)' = HandedOut(kind, p)
            BY <1>11, <3>1 DEF PolicyInv, Accounted, InTime, HandedOut
        <3>4. PICK spent \in Nat : SpentLives(kind, p, spent)
            BY <1>11 DEF PolicyInv, Accounted
        <3>5. SpentLives(kind, p, spent)'
            BY <3>1, <3>2, <3>3, <3>4 DEF SpentLives
        <3> QED
            BY <3>3, <3>5 DEF Accounted
    <2> QED
        BY <2>1, <2>2
<1>12. ASSUME NEW r \in Request, NEW s \in Try, NEW kind \in Kind PROVE Caused(r, s, kind)'
    <2> DEFINE p == PeriodOf(r, kind)
    <2>1. p \in Period /\ p' = p
        BY <1>8, PeriodFacts
    <2>2. Charged(kind, p) \subseteq Charged(kind, p)'
        BY <1>9, <2>1
    <2>3. IsFiniteSet(Charged(kind, p)')
        <3>1. IsFiniteSet(Charged(kind, p) \cup {<<q, t>>})
            BY ChargesFinite, FS_AddElement
        <3>2. Charged(kind, p)' \subseteq Charged(kind, p) \cup {<<q, t>>}
            BY <1>9, <2>1
        <3> QED
            BY <3>1, <3>2, FS_Subset
    <2>4. /\ Cardinality(Charged(kind, p)) <= Cardinality(Charged(kind, p)')
          /\ Cardinality(Charged(kind, p)) \in Nat /\ Cardinality(Charged(kind, p)') \in Nat
        BY <2>2, <2>3, FS_Subset, FS_CardinalityType
    <2>5. ASSUME copy'[r][s] = Refusal(kind)
          PROVE  Cardinality(Charged(kind, p)) >= Capacity[kind]
        <3>1. CASE r # q \/ s # t
            BY <1>4, <2>5, <3>1 DEF PolicyInv, Caused
        <3>2. CASE r = q /\ s = t
            <4>1. Limited(kind)
                BY <1>4, <2>5, <3>2, RefusedKindLimited
            <4>2. Exceeds(q, kind)
                BY <1>10, <2>5, <3>2, <4>1
            <4>3. /\ counter[kind][p] \in Counters
                  /\ Capacity[kind] \in Nat \ {0}
                BY <2>1, <4>1, KindFacts DEF PolicyInv, TypeOK, Kind, Counters
            <4>4. counter[kind][p].count >= Capacity[kind]
                BY <3>2, <4>2, <4>3 DEF Exceeds, Increment, Counters
            <4>5. HandedOut(kind, p) = Capacity[kind]
                BY <4>3, <4>4 DEF HandedOut, Counters
            <4>6. HandedOut(kind, p) <= Cardinality(Charged(kind, p))
                BY <2>1, <4>1 DEF PolicyInv, Accounted, SpentLives
            <4> QED
                BY <2>4, <4>3, <4>5, <4>6
        <3> QED
            BY <3>1, <3>2
    <2>6. Capacity[kind] \in Nat
        BY KindFacts
    <2>7. copy'[r][s] = Refusal(kind) => Cardinality(Charged(kind, p)') >= Capacity[kind]
        BY <2>4, <2>5, <2>6
    <2>8. Charged(kind, PeriodOf(r, kind))' = Charged(kind, p)'
        OBVIOUS
    <2> QED
        BY <2>7, <2>8 DEF Caused
<1> QED
    BY <1>5, <1>6, <1>7, <1>11, <1>12 DEF PolicyInv

LEMMA PolicyStep == PolicyInv /\ [Next]_vars => PolicyInv'
<1> SUFFICES ASSUME PolicyInv, [Next]_vars PROVE PolicyInv'
    OBVIOUS
<1>1. ASSUME NEW q \in Request, ReadClock(q) PROVE PolicyInv'
    BY <1>1, ReadClockStep
<1>2. ASSUME NEW q \in Request, NEW t \in Try, NEW heard \in BOOLEAN, RunScript(q, t, heard)
      PROVE  PolicyInv'
    BY <1>2, ScriptStep
<1>3. ASSUME NEW q \in Request, NEW t \in Try, Lose(q, t) PROVE PolicyInv'
    BY <1>3, LoseStep
<1>4. ASSUME NEW q \in Request, Resend(q) PROVE PolicyInv'
    BY <1>4, ResendStep
<1>5. ASSUME NEW q \in Request, Error(q) PROVE PolicyInv'
    BY <1>5, ErrorStep
<1>6. CASE Tick
    BY <1>6, TickStep
<1>7. CASE UNCHANGED vars
    <2>1. UNCHANGED now /\ UNCHANGED counter /\ UNCHANGED call /\ UNCHANGED copy
        BY <1>7 DEF vars
    <2>2. TypeOK' /\ IsFiniteSet(Called)' /\ \A q \in Request : Followed(q)'
        BY <2>1 DEF PolicyInv, TypeOK, Called, Followed, Pending
    <2>3. /\ \A kind \in Kind, p \in Period : Limited(kind) => Accounted(kind, p)'
          /\ \A r \in Request, t \in Try, kind \in Kind : Caused(r, t, kind)'
        BY <2>1, NothingCharged
    <2> QED
        BY <2>2, <2>3 DEF PolicyInv
<1> QED
    BY <1>1, <1>2, <1>3, <1>4, <1>5, <1>6, <1>7 DEF Next

LEMMA PolicyInvariant == Spec => []PolicyInv
BY PolicyInit, PolicyStep, PTL DEF Spec

-----------------------------------------------------------------------------
\* The counters and calls keep their types, and every counter has a time to
\* live of at most its period: PEXPIRE is never forgotten and never renewed.
THEOREM PolicyTypeCorrect == Spec => []TypeOK
<1>1. PolicyInv => TypeOK
    BY DEF PolicyInv
<1> QED
    BY <1>1, PolicyInvariant, PTL

(***************************************************************************)
(* AllowRequest, through any number of gateways and with any delay between *)
(* the clock and the script, lets through what the limits of a listener    *)
(* say, as many times over as its counter can have lives.                  *)
(***************************************************************************)
THEOREM BudgetsHold == Spec => []WithinBudget
<1>1. PolicyInv => WithinBudget
    <2> SUFFICES ASSUME PolicyInv, NEW kind \in Kind, NEW p \in Period, Limited(kind)
                 PROVE  Cardinality(Allowed(kind, p)) <= Lives(Length[kind]) * Capacity[kind]
        BY DEF WithinBudget, Kind
    <2> DEFINE L == Length[kind]
               cap == Capacity[kind]
               c == counter[kind][p]
               room == 2 * L + MaxDelay - 1
    <2>1. L \in Nat \ {0} /\ cap \in Nat \ {0} /\ p \in Nat /\ room \in Nat
        BY KindFacts, PolicyAssumption DEF Period
    <2>2. ASSUME NEW q \in Allowed(kind, p)
          PROVE  q \in Request /\ <<q, call[q].tries>> \in Charged(kind, p)
        <3>1. /\ q \in Request /\ call[q].decision = "allow" /\ PeriodOf(q, kind) = p
              /\ Followed(q)
            BY DEF Allowed, PolicyInv
        <3>2. call[q].tries \in Try /\ copy[q][call[q].tries] = "allow"
            BY <3>1 DEF Followed, Verdict
        <3> QED
            BY <3>1, <3>2 DEF Charged, Passing
    <2>3. IsFiniteSet(Charged(kind, p)) /\ Cardinality(Charged(kind, p)) \in Nat
        BY ChargesFinite
    <2>4. /\ Cardinality(Allowed(kind, p)) <= Cardinality(Charged(kind, p))
          /\ Cardinality(Allowed(kind, p)) \in Nat /\ Cardinality(Charged(kind, p)) \in Nat
        <3> DEFINE f == [q \in Allowed(kind, p) |-> <<q, call[q].tries>>]
        <3>1. f \in [Allowed(kind, p) -> Charged(kind, p)]
            BY <2>2
        <3>2. \A q, r \in Allowed(kind, p) : f[q] = f[r] => q = r
            OBVIOUS
        <3>3. f \in Injection(Allowed(kind, p), Charged(kind, p))
            BY <3>1, <3>2 DEF Injection, IsInjective
        <3> QED
            BY <2>3, <3>3, FS_Injection, FS_CardinalityType
    <2>5. PICK spent \in Nat : SpentLives(kind, p, spent)
        BY DEF PolicyInv, Accounted
    <2>6. InTime(kind, p) /\ c \in Counters
        BY DEF PolicyInv, Accounted, TypeOK, Kind, Counters
    <2>7. Lives(L) \in Nat /\ Lives(L) = room \div L
        BY <2>1, DivisionBounds DEF Lives
    <2>8. CASE c.count = 0
        <3>1. HandedOut(kind, p) = 0 /\ spent = 0
            BY <2>1, <2>5, <2>8 DEF HandedOut, SpentLives
        <3>2. Cardinality(Charged(kind, p)) <= 0 * cap + 0
            BY <2>5, <3>1 DEF SpentLives
        <3>3. 0 * cap = 0 /\ Lives(L) * cap \in Nat
            BY <2>1, <2>7
        <3> QED
            BY <2>4, <3>2, <3>3
    <2>9. CASE c.count # 0
        <3>1. /\ (p + spent + 1) * L <= c.expires
              /\ c.expires <= (p + 2) * L - 1 + MaxDelay
              /\ c.expires \in Nat
            BY <2>5, <2>6, <2>9 DEF SpentLives, InTime, Counters
        <3>2. /\ (p + spent + 1) * L = p * L + (spent + 1) * L
              /\ (p + 2) * L = p * L + 2 * L
              /\ p * L \in Nat /\ (spent + 1) * L \in Nat
            BY <2>1
        <3>3. (spent + 1) * L <= room
            BY <2>1, <3>1, <3>2, PolicyAssumption
        <3>4. spent + 1 <= Lives(L)
            BY <2>1, <2>7, <3>3, DivisionBelow
        <3>5. HandedOut(kind, p) <= cap /\ HandedOut(kind, p) \in Nat
            BY <2>1, <2>6 DEF HandedOut, Counters
        <3>6. Cardinality(Charged(kind, p)) <= spent * cap + HandedOut(kind, p)
            BY <2>5 DEF SpentLives
        <3>7. (spent + 1) * cap = spent * cap + cap /\ spent * cap \in Nat
            BY <2>1
        <3>8. Cardinality(Charged(kind, p)) <= (spent + 1) * cap
            BY <2>1, <2>4, <3>5, <3>6, <3>7
        <3>9. (spent + 1) * cap <= Lives(L) * cap /\ Lives(L) * cap \in Nat
            BY <2>1, <2>7, <3>4
        <3> QED
            BY <2>4, <3>7, <3>8, <3>9, <2>1
    <2> QED
        BY <2>8, <2>9
<1> QED
    BY <1>1, PolicyInvariant, PTL

(***************************************************************************)
(* A consumer is told 429 only when runs for others, in the same second or *)
(* minute, used up the budget, but for one unit per resend of the request  *)
(* itself: neither an expired counter nor a request that the rate limit    *)
(* refused can cost anybody a unit of the quota.                           *)
(***************************************************************************)
THEOREM RefusalsHaveCause == Spec => []RefusedForCause
<1>1. PolicyInv => RefusedForCause
    <2> SUFFICES ASSUME PolicyInv, NEW q \in Request, NEW kind \in Kind,
                        call[q].decision = Refusal(kind)
                 PROVE  Cardinality({u \in Charged(kind, PeriodOf(q, kind)) : u[1] # q})
                            + (call[q].tries - 1) >= Capacity[kind]
        BY DEF RefusedForCause, Kind
    <2> DEFINE charged == Charged(kind, PeriodOf(q, kind))
               others == {u \in charged : u[1] # q}
               own == charged \ others
               tries == call[q].tries
               earlier == (1 .. tries) \ {tries}
    <2>1. /\ tries \in Try /\ tries \in Nat \ {0}
          /\ copy[q][tries] = Refusal(kind)
          /\ \A t \in Try : t > tries => copy[q][t] = "none"
        BY PolicyAssumption DEF PolicyInv, Followed, Refusal, Verdict, Try
    <2>2. Cardinality(charged) >= Capacity[kind]
        BY <2>1 DEF PolicyInv, Caused
    <2>3. IsFiniteSet(charged) /\ Cardinality(charged) \in Nat /\ Capacity[kind] \in Nat
        BY ChargesFinite, KindFacts
    <2>4. Cardinality(charged) = Cardinality(others) + Cardinality(own)
          /\ Cardinality(others) \in Nat /\ Cardinality(own) \in Nat
        <3>1. /\ others \subseteq charged /\ own \subseteq charged
              /\ charged = others \cup own /\ others \cap own = {}
            OBVIOUS
        <3>2. IsFiniteSet(others) /\ IsFiniteSet(own)
            BY <2>3, <3>1, FS_Subset
        <3> HIDE DEF own, others, charged
        <3>3. Cardinality(others \cup own) = Cardinality(others) + Cardinality(own)
                                             - Cardinality(others \cap own)
            BY <3>2, FS_Union
        <3>4. Cardinality(others \cap own) = 0 /\ Cardinality(others \cup own) = Cardinality(charged)
            BY <3>1, FS_EmptySet
        <3>5. Cardinality(others) \in Nat /\ Cardinality(own) \in Nat
            BY <3>2, FS_CardinalityType
        <3> QED
            BY <3>3, <3>4, <3>5
    <2>5. Cardinality(own) <= tries - 1
        <3>1. IsFiniteSet(earlier) /\ Cardinality(earlier) = tries - 1
            <4>1. PICK n \in Nat \ {0} : n = tries
                BY <2>1
            <4> DEFINE upto == 1 .. n
            <4>2. IsFiniteSet(upto) /\ Cardinality(upto) = n /\ n \in upto
                BY FS_Interval
            <4> HIDE DEF upto
            <4>3. IsFiniteSet(upto \ {n}) /\ Cardinality(upto \ {n}) = n - 1
                BY <4>2, FS_RemoveElement
            <4> QED
                BY <4>1, <4>3 DEF upto
        <3>2. ASSUME NEW u \in own
              PROVE  u \in Request \X Try /\ u[1] = q /\ u[2] \in earlier
            <4>1. u \in Request \X Try /\ u[1] = q /\ copy[u[1]][u[2]] \in Passing(kind)
                BY DEF Charged
            <4>2. u[2] \in Try /\ copy[q][u[2]] \in Passing(kind)
                BY <4>1
            <4>3. u[2] # tries /\ ~(u[2] > tries)
                BY <2>1, <4>2 DEF Passing, Refusal, Kind
            <4> QED
                BY <2>1, <4>1, <4>2, <4>3, PolicyAssumption DEF Try
        <3> DEFINE f == [u \in own |-> u[2]]
        <3> HIDE DEF own, earlier
        <3>3. f \in [own -> earlier]
            BY <3>2
        <3>4. \A u, w \in own : f[u] = f[w] => u = w
            BY <3>2
        <3>5. f \in Injection(own, earlier)
            BY <3>3, <3>4 DEF Injection, IsInjective
        <3> QED
            BY <3>1, <3>5, FS_Injection
    <2> QED
        BY <2>1, <2>2, <2>3, <2>4, <2>5
<1> QED
    BY <1>1, PolicyInvariant, PTL
=============================================================================
