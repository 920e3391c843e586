------------------------- MODULE RuntimeSyncProofs -------------------------
(***************************************************************************)
(* Proofs about RuntimeSync for any keys, consumers, replicas, connections *)
(* and deployments.                                                        *)
(***************************************************************************)
EXTENDS RuntimeSync, FiniteSetTheorems, WellFoundedInduction, TLAPS

-----------------------------------------------------------------------------
(* The credential generation *)

\* A set of natural numbers that is not empty has a smallest member.
LEMMA SmallestExists ==
    ASSUME NEW S \in SUBSET Nat, S # {}
    PROVE  \E m \in S : \A n \in S : m <= n
<1> DEFINE Less == OpToRel(<, Nat)
<1>1. IsWellFoundedOn(Less, Nat)
  BY NatLessThanWellFounded
<1>2. \A m, n \in Nat : n < m => <<n, m>> \in Less
  BY DEF OpToRel
<1> HIDE DEF Less
<1>3. PICK m \in S : \A n \in S : <<n, m>> \notin Less
  BY <1>1, WFMin
<1>4. ASSUME NEW n \in S PROVE m <= n
  <2>1. m \in Nat /\ n \in Nat
    OBVIOUS
  <2>2. ~(n < m)
    BY <2>1, <1>2, <1>3
  <2> QED
    BY <2>1, <2>2
<1> QED
  BY <1>4

\* Max, which FiniteSetsExt defines by a choice, is what it should be.
LEMMA MaxIsGreatest ==
    ASSUME NEW bound \in Nat, NEW S \in SUBSET (0 .. bound), S # {}
    PROVE  Max(S) \in S /\ \A n \in S : n <= Max(S)
<1> DEFINE Gaps == {gap \in Nat : bound - gap \in S}
<1>1. \A n \in S : n \in Int /\ bound - n \in Nat /\ bound - (bound - n) = n
  OBVIOUS
<1>2. Gaps \in SUBSET Nat /\ Gaps # {}
  BY <1>1
<1>3. PICK least \in Gaps : \A gap \in Gaps : least <= gap
  BY <1>2, SmallestExists
<1>4. \A n \in S : n <= bound - least
  <2> TAKE n \in S
  <2>1. n \in Int /\ bound - n \in Gaps /\ least \in Nat
    BY <1>1
  <2>2. least <= bound - n
    BY <2>1, <1>3
  <2> QED
    BY <2>1, <2>2
<1> QED
  BY <1>3, <1>4, <1>1 DEF Max

-----------------------------------------------------------------------------
(* The inductive invariant *)

\* No timestamp in the database is later than n.
StampsUpTo(n) ==
    /\ \A c \in Consumer : consumer[c].updated <= n
    /\ \A k \in Key : key[k].created <= n /\ key[k].revoked <= n

\* Every recorded time has passed.
TimesPast ==
    /\ \A t \in Tx : tx[t].start <= clock
    /\ StampsUpTo(clock)
    /\ \A g \in Gateway : loaded[g].generation <= clock

\* When transactions do not overlap, the open one has a later timestamp than
\* all that is stored or loaded: so what it changes shows in the generation.
OpenIsLatest ==
    \A t \in Tx : tx[t].phase = "open" =>
        /\ t \in deployment.connections
        /\ Serial => /\ tx[t].start = clock
                     /\ StampsUpTo(clock - 1)
                     /\ \A g \in Gateway : loaded[g].generation <= clock - 1

\* Only issued keys are known to a request or loaded by a replica, and their
\* owners exist: no operation removes an issued key or its owner.
KeysIssued ==
    /\ \A t \in Tx : \A k \in Key \cap tx[t].known : Issued(k)
    /\ \A k \in Key : Issued(k) => Registered(OwnerOf[k])
    /\ \A g \in Gateway : \A k \in loaded[g].keys : Issued(k)

\* Nothing about key k has changed since generation n.
UnchangedSince(k, n) ==
    /\ key[k].created <= n /\ key[k].revoked <= n
    /\ consumer[OwnerOf[k]].updated <= n

\* A replica is right about the keys that have not changed since it loaded.
LoadedAgrees ==
    Serial =>
        \A g \in Gateway, k \in Key :
            UnchangedSince(k, loaded[g].generation) =>
                (k \in loaded[g].keys <=> k \in ActiveKeys)

RuntimeInv == TypeOK /\ TimesPast /\ OpenIsLatest /\ KeysIssued /\ LoadedAgrees

LEMMA BoundsAreNaturals ==
    ASSUME TypeOK
    PROVE  /\ deployment.maxClock \in Nat /\ deployment.maxFaults \in Nat
           /\ deployment.maxConfig \in Nat \ {0}
           /\ deployment.connections \subseteq Tx
BY RuntimeAssumption DEF TypeOK

\* The generation is a time that no timestamp exceeds.
LEMMA GenerationIsLatest ==
    ASSUME TypeOK
    PROVE  /\ CredentialGeneration \in 0 .. deployment.maxClock
           /\ StampsUpTo(CredentialGeneration)
           /\ \A n \in Nat : StampsUpTo(n) => CredentialGeneration <= n
<1> DEFINE Stamps == Timestamps \cup {0}
<1>1. deployment.maxClock \in Nat
  BY BoundsAreNaturals
<1>2. Stamps \in SUBSET (0 .. deployment.maxClock) /\ Stamps # {}
  BY <1>1 DEF TypeOK, Timestamps
<1>3. /\ CredentialGeneration \in Stamps
      /\ \A n \in Stamps : n <= CredentialGeneration
  <2> HIDE DEF Stamps
  <2>1. Max(Stamps) \in Stamps /\ \A n \in Stamps : n <= Max(Stamps)
    BY <1>1, <1>2, MaxIsGreatest
  <2> QED
    BY <2>1 DEF CredentialGeneration, Stamps
<1>4. StampsUpTo(CredentialGeneration)
  BY <1>3 DEF StampsUpTo, Timestamps
<1>5. ASSUME NEW n \in Nat, StampsUpTo(n) PROVE CredentialGeneration <= n
  BY <1>3, <1>5 DEF StampsUpTo, Timestamps
<1> QED
  BY <1>2, <1>3, <1>4, <1>5

\* With one connection, the requests that are open are one request.
LEMMA OneConnection ==
    ASSUME TypeOK, Serial,
           NEW t \in deployment.connections, NEW u \in deployment.connections
    PROVE  t = u
<1>1. IsFiniteSet(deployment.connections)
  BY RuntimeAssumption, BoundsAreNaturals, FS_Subset
<1>2. \E x : deployment.connections = {x}
  BY <1>1, FS_Singleton DEF Serial
<1> QED
  BY <1>2

-----------------------------------------------------------------------------
(* Administrators *)

LEMMA BeginStep ==
    ASSUME RuntimeInv, NEW t \in Tx, Begin(t)
    PROVE  RuntimeInv'
<1> USE DEF RuntimeInv
<1>1. deployment.maxClock \in Nat
  BY BoundsAreNaturals
<1>2. clock \in Nat /\ clock' = clock + 1
  BY <1>1 DEF Begin, TypeOK
<1>3. TypeOK'
  BY <1>1 DEF Begin, TypeOK, database, replicas
<1>4. TimesPast'
  BY <1>1 DEF Begin, TypeOK, TimesPast, StampsUpTo, database, replicas
<1>5. OpenIsLatest'
  <2> SUFFICES ASSUME NEW u \in Tx, tx'[u].phase = "open"
               PROVE  /\ u \in deployment.connections
                      /\ Serial => /\ tx'[u].start = clock'
                                   /\ StampsUpTo(clock)
                                   /\ \A g \in Gateway :
                                         loaded[g].generation <= clock
    BY <1>2 DEF OpenIsLatest, Begin, Serial, StampsUpTo, database, replicas
  <2>1. CASE u = t
    BY <2>1, <1>2 DEF Begin, TypeOK, TimesPast
  <2>2. CASE u # t
    <3>1. tx[u].phase = "open"
      BY <2>2 DEF Begin, TypeOK
    <3>2. u \in deployment.connections /\ t \in deployment.connections
      BY <3>1 DEF OpenIsLatest, Begin
    <3>3. ~Serial
      BY <3>2, <2>2, OneConnection
    <3> QED
      BY <3>2, <3>3
  <2> QED
    BY <2>1, <2>2
<1>6. KeysIssued'
  <2>1. \A u \in Tx \ {t} : tx'[u].known = tx[u].known
    BY DEF Begin, TypeOK
  <2>2. \A k \in Key \cap tx'[t].known : Issued(k)
    BY RuntimeAssumption DEF Begin, TypeOK
  <2>3. UNCHANGED <<consumer, key, loaded>>
    BY DEF Begin, database, replicas
  <2> QED
    BY <2>1, <2>2, <2>3 DEF KeysIssued, Issued, Registered
<1>7. LoadedAgrees'
  BY DEF Begin, LoadedAgrees, Serial, UnchangedSince, ActiveKeys, Issued,
         database, replicas
<1> QED
  BY <1>3, <1>4, <1>5, <1>6, <1>7

\* An operation ends the transaction of t: nobody else's was open if they do
\* not overlap, and nothing but the database has changed besides.
LEMMA OperationEnds ==
    ASSUME RuntimeInv, NEW t \in Tx, CommitSilently(t) \/ CommitAndNotify(t),
           StampsUpTo(clock)'
    PROVE  /\ TimesPast' /\ OpenIsLatest'
           /\ tx' \in [Tx -> [phase : {"idle", "open", "notify"},
                              start : 0 .. deployment.maxClock,
                              known : SUBSET (Consumer \cup Key)]]
           /\ \A u \in Tx : tx'[u].known \subseteq tx[u].known
           /\ t \in deployment.connections
           /\ tx[t].start \in 0 .. clock
<1> USE DEF RuntimeInv
<1>1. deployment.maxClock \in Nat /\ clock \in Nat
  BY BoundsAreNaturals DEF TypeOK
<1>2. \A u \in Tx : u # t => tx'[u] = tx[u]
  BY DEF CommitSilently, CommitAndNotify, TypeOK
<1>3. tx'[t].phase # "open" /\ tx'[t].start = 0 /\ tx'[t].known = {}
  BY DEF CommitSilently, CommitAndNotify, TypeOK, Idle
<1>4. /\ UNCHANGED <<deployment, clock, replicas>>
      /\ tx[t].phase = "open"
  BY DEF CommitSilently, CommitAndNotify
<1>5. /\ tx' \in [Tx -> [phase : {"idle", "open", "notify"},
                         start : 0 .. deployment.maxClock,
                         known : SUBSET (Consumer \cup Key)]]
      /\ \A u \in Tx : tx'[u].known \subseteq tx[u].known
  <2> DEFINE Record == [phase : {"idle", "open", "notify"},
                        start : 0 .. deployment.maxClock,
                        known : SUBSET (Consumer \cup Key)]
  <2>1. Idle \in Record /\ [Idle EXCEPT !.phase = "notify"] \in Record
    BY <1>1 DEF Idle
  <2>2. tx \in [Tx -> Record]
    BY DEF TypeOK
  <2> HIDE DEF Record
  <2>3. tx' \in [Tx -> Record]
    BY <2>1, <2>2 DEF CommitSilently, CommitAndNotify
  <2>4. \A u \in Tx : tx'[u].known \subseteq tx[u].known
    BY <1>2, <1>3
  <2> QED
    BY <2>3, <2>4 DEF Record
<1>6. TimesPast'
  BY <1>1, <1>2, <1>3, <1>4 DEF TimesPast, replicas
<1>7. OpenIsLatest'
  <2> SUFFICES ASSUME NEW u \in Tx, tx'[u].phase = "open"
               PROVE  u \in deployment.connections /\ ~Serial
    BY <1>4 DEF OpenIsLatest, Serial
  <2>1. u # t /\ tx[u].phase = "open"
    BY <1>2, <1>3
  <2>2. u \in deployment.connections /\ t \in deployment.connections
    BY <2>1, <1>4 DEF OpenIsLatest
  <2> QED
    BY <2>1, <2>2, OneConnection
<1>8. t \in deployment.connections /\ tx[t].start \in 0 .. clock
  BY <1>1, <1>4 DEF OpenIsLatest, TimesPast, TypeOK
<1> QED
  BY <1>5, <1>6, <1>7, <1>8

\* Replicas stay right about all keys when an operation leaves its timestamp
\* on every key that it changes: what they loaded is older.
LEMMA ChangesShow ==
    ASSUME RuntimeInv, NEW t \in Tx, CommitSilently(t) \/ CommitAndNotify(t),
           \A k \in Key :
              \/ key'[k] = key[k] /\ consumer'[OwnerOf[k]] = consumer[OwnerOf[k]]
              \/ Now(t) \in {key'[k].created, key'[k].revoked,
                             consumer'[OwnerOf[k]].updated}
              \/ ~Issued(k) /\ ~Issued(k)'
    PROVE  LoadedAgrees'
<1> USE DEF RuntimeInv
<1>1. UNCHANGED <<deployment, loaded>> /\ tx[t].phase = "open"
  BY DEF CommitSilently, CommitAndNotify, replicas
<1> SUFFICES ASSUME Serial, NEW g \in Gateway, NEW k \in Key,
                    UnchangedSince(k, loaded[g].generation)'
             PROVE  k \in loaded[g].keys <=> k \in ActiveKeys'
  BY <1>1 DEF LoadedAgrees, Serial, UnchangedSince
<1>2. loaded[g].generation < Now(t)
  BY <1>1, BoundsAreNaturals DEF OpenIsLatest, Now, TypeOK
<1>3. CASE key'[k] = key[k] /\ consumer'[OwnerOf[k]] = consumer[OwnerOf[k]]
  <2>1. UnchangedSince(k, loaded[g].generation)
    BY <1>1, <1>3 DEF UnchangedSince
  <2>2. k \in ActiveKeys' <=> k \in ActiveKeys
    BY <1>3 DEF ActiveKeys, Issued
  <2> QED
    BY <2>1, <2>2 DEF LoadedAgrees
<1>4. CASE Now(t) \in {key'[k].created, key'[k].revoked,
                       consumer'[OwnerOf[k]].updated}
  <2>1. Now(t) <= loaded[g].generation
    BY <1>1, <1>4 DEF UnchangedSince
  <2>2. Now(t) \in Int /\ loaded[g].generation \in Int
    BY BoundsAreNaturals DEF TypeOK, Now
  <2> QED
    BY <1>2, <2>1, <2>2
<1>5. CASE ~Issued(k) /\ ~Issued(k)'
  BY <1>5 DEF KeysIssued, ActiveKeys
<1> QED
  BY <1>3, <1>4, <1>5

LEMMA RollbackStep ==
    ASSUME RuntimeInv, NEW t \in Tx, Rollback(t)
    PROVE  RuntimeInv'
<1> USE DEF RuntimeInv
<1>1. CommitSilently(t) /\ UNCHANGED database
  BY DEF Rollback
<1>2. UNCHANGED <<deployment, clock, replicas, faults, consumer, key, config>>
  BY <1>1 DEF CommitSilently, database
<1>3. StampsUpTo(clock)'
  BY <1>2 DEF TimesPast, StampsUpTo
<1>4. TypeOK' /\ TimesPast' /\ OpenIsLatest'
  BY <1>1, <1>2, <1>3, OperationEnds DEF TypeOK, replicas
<1>5. KeysIssued'
  BY <1>1, <1>2, <1>3, OperationEnds DEF KeysIssued, Issued, Registered, replicas
<1>6. LoadedAgrees'
  BY <1>1, <1>2, ChangesShow
<1> QED
  BY <1>4, <1>5, <1>6

LEMMA CreateConsumerStep ==
    ASSUME RuntimeInv, NEW t \in Tx, NEW c \in Consumer, CreateConsumer(t, c)
    PROVE  RuntimeInv'
<1> USE DEF RuntimeInv
<1>1. CommitSilently(t)
  BY DEF CreateConsumer
<1>2. /\ UNCHANGED <<deployment, clock, replicas, faults, key, config>>
      /\ consumer' = [consumer EXCEPT ![c] = [status |-> "enabled", updated |-> Now(t)]]
      /\ tx[t].start <= clock
      /\ \A k \in Key : OwnerOf[k] \in Consumer
      /\ consumer[c] = NoConsumer
  BY <1>1, RuntimeAssumption DEF CreateConsumer, CommitSilently, TimesPast
<1>3. StampsUpTo(clock)'
  BY <1>2 DEF TimesPast, StampsUpTo, TypeOK, Now
<1>4. TypeOK' /\ TimesPast' /\ OpenIsLatest'
  <2>1. Now(t) \in 0 .. deployment.maxClock
    BY DEF TypeOK, Now
  <2> QED
    BY <1>1, <1>2, <1>3, <2>1, OperationEnds DEF TypeOK, replicas
<1>5. KeysIssued'
  BY <1>1, <1>2, <1>3, OperationEnds
     DEF KeysIssued, Issued, Registered, replicas, TypeOK
<1>6. LoadedAgrees'
  BY <1>1, <1>2, ChangesShow DEF TypeOK
<1> QED
  BY <1>4, <1>5, <1>6

LEMMA UpdateConsumerStep ==
    ASSUME RuntimeInv, NEW t \in Tx, NEW c \in Consumer,
           NEW status \in {"enabled", "disabled"}, UpdateConsumer(t, c, status)
    PROVE  RuntimeInv'
<1> USE DEF RuntimeInv
<1>1. CommitAndNotify(t)
  BY DEF UpdateConsumer
<1>2. /\ UNCHANGED <<deployment, clock, replicas, faults, key, config>>
      /\ consumer' = [consumer EXCEPT ![c] = [status |-> status, updated |-> Now(t)]]
      /\ tx[t].start <= clock
      /\ \A k \in Key : OwnerOf[k] \in Consumer
  BY <1>1, RuntimeAssumption DEF UpdateConsumer, CommitAndNotify, TimesPast
<1>3. StampsUpTo(clock)'
  BY <1>2 DEF TimesPast, StampsUpTo, TypeOK, Now
<1>4. TypeOK' /\ TimesPast' /\ OpenIsLatest'
  <2>1. Now(t) \in 0 .. deployment.maxClock
    BY DEF TypeOK, Now
  <2> QED
    BY <1>1, <1>2, <1>3, <2>1, OperationEnds DEF TypeOK, replicas
<1>5. KeysIssued'
  BY <1>1, <1>2, <1>3, OperationEnds
     DEF KeysIssued, Issued, Registered, replicas, TypeOK
<1>6. LoadedAgrees'
  BY <1>1, <1>2, ChangesShow DEF TypeOK
<1> QED
  BY <1>4, <1>5, <1>6

LEMMA DeleteConsumerStep ==
    ASSUME RuntimeInv, NEW t \in Tx, NEW c \in Consumer, DeleteConsumer(t, c)
    PROVE  RuntimeInv'
<1> USE DEF RuntimeInv
<1>1. CommitAndNotify(t)
  BY DEF DeleteConsumer
<1>2. /\ UNCHANGED <<deployment, clock, replicas, faults, key, config>>
      /\ consumer' = [consumer EXCEPT ![c] = DeletedConsumer]
      /\ \A k \in Key : OwnerOf[k] \in Consumer
      /\ \A k \in Key : OwnerOf[k] = c => ~Issued(k)
  BY <1>1, RuntimeAssumption DEF DeleteConsumer, CommitAndNotify
<1>3. StampsUpTo(clock)'
  BY <1>2, BoundsAreNaturals DEF TimesPast, StampsUpTo, TypeOK, DeletedConsumer
<1>4. TypeOK' /\ TimesPast' /\ OpenIsLatest'
  <2>1. DeletedConsumer \in
           [status : {"absent", "enabled", "disabled", "deleted"},
            updated : 0 .. deployment.maxClock]
    BY BoundsAreNaturals DEF DeletedConsumer
  <2> QED
    BY <1>1, <1>2, <1>3, <2>1, OperationEnds DEF TypeOK, replicas
<1>5. KeysIssued'
  BY <1>1, <1>2, <1>3, OperationEnds
     DEF KeysIssued, Issued, Registered, replicas, TypeOK
<1>6. LoadedAgrees'
  BY <1>1, <1>2, ChangesShow DEF TypeOK, Issued
<1> QED
  BY <1>4, <1>5, <1>6

LEMMA IssueKeyStep ==
    ASSUME RuntimeInv, NEW t \in Tx, NEW k \in Key, IssueKey(t, k)
    PROVE  RuntimeInv'
<1> USE DEF RuntimeInv
<1>1. CommitSilently(t)
  BY DEF IssueKey
<1>2. /\ UNCHANGED <<deployment, clock, replicas, faults, consumer, config>>
      /\ key' = [key EXCEPT ![k].created = Now(t)]
      /\ tx[t].start <= clock
      /\ Registered(OwnerOf[k])
      /\ ~Issued(k)
  BY <1>1 DEF IssueKey, CommitSilently, TimesPast, Registered
<1>3. StampsUpTo(clock)'
  BY <1>2 DEF TimesPast, StampsUpTo, TypeOK, Now
<1>4. TypeOK' /\ TimesPast' /\ OpenIsLatest'
  <2>1. Now(t) \in 0 .. deployment.maxClock
    BY DEF TypeOK, Now
  <2> QED
    BY <1>1, <1>2, <1>3, <2>1, OperationEnds, ZenonT(30) DEF TypeOK, replicas
<1>5. KeysIssued'
  BY <1>1, <1>2, <1>3, OperationEnds
     DEF KeysIssued, Issued, Registered, replicas, TypeOK
<1>6. LoadedAgrees'
  BY <1>1, <1>2, ChangesShow DEF TypeOK
<1> QED
  BY <1>4, <1>5, <1>6

LEMMA RevokeKeyStep ==
    ASSUME RuntimeInv, NEW t \in Tx, NEW k \in Key, RevokeKey(t, k)
    PROVE  RuntimeInv'
<1> USE DEF RuntimeInv
<1>1. CommitAndNotify(t)
  BY DEF RevokeKey
<1>2. /\ UNCHANGED <<deployment, clock, replicas, faults, consumer, config>>
      /\ key' = [key EXCEPT ![k].revoked = Now(t)]
      /\ tx[t].start <= clock
  BY <1>1 DEF RevokeKey, CommitAndNotify, TimesPast
<1>3. StampsUpTo(clock)'
  BY <1>2 DEF TimesPast, StampsUpTo, TypeOK, Now
<1>4. TypeOK' /\ TimesPast' /\ OpenIsLatest'
  <2>1. Now(t) \in 0 .. deployment.maxClock
    BY DEF TypeOK, Now
  <2> QED
    BY <1>1, <1>2, <1>3, <2>1, OperationEnds DEF TypeOK, replicas
<1>5. KeysIssued'
  BY <1>1, <1>2, <1>3, OperationEnds
     DEF KeysIssued, Issued, Registered, replicas, TypeOK
<1>6. LoadedAgrees'
  BY <1>1, <1>2, ChangesShow DEF TypeOK
<1> QED
  BY <1>4, <1>5, <1>6

LEMMA RotateKeyStep ==
    ASSUME RuntimeInv, NEW t \in Tx, NEW k \in Key, NEW new \in Key,
           RotateKey(t, k, new)
    PROVE  RuntimeInv'
<1> USE DEF RuntimeInv
<1>1. CommitAndNotify(t)
  BY DEF RotateKey
<1>2. /\ UNCHANGED <<deployment, clock, replicas, faults, consumer, config>>
      /\ key' = [key EXCEPT ![k].revoked = Now(t), ![new].created = Now(t)]
      /\ tx[t].start <= clock
      /\ ~Issued(new) /\ Registered(OwnerOf[new])
      /\ k # new
  BY <1>1 DEF RotateKey, CommitAndNotify, TimesPast, KeysIssued, Known
<1>2a. /\ key' \in [Key -> [created : 0 .. deployment.maxClock,
                           revoked : 0 .. deployment.maxClock]]
      /\ key'[k].created = key[k].created /\ key'[k].revoked = Now(t)
      /\ key'[new].created = Now(t) /\ key'[new].revoked = key[new].revoked
      /\ \A j \in Key \ {k, new} : key'[j] = key[j]
  <2>1. Now(t) \in 0 .. deployment.maxClock
    BY DEF TypeOK, Now
  <2> DEFINE between == [key EXCEPT ![k].revoked = Now(t)]
  <2>2. /\ between \in [Key -> [created : 0 .. deployment.maxClock,
                                revoked : 0 .. deployment.maxClock]]
        /\ between[k].created = key[k].created /\ between[k].revoked = Now(t)
        /\ \A j \in Key \ {k} : between[j] = key[j]
    BY <2>1 DEF TypeOK
  <2>3. key' = [between EXCEPT ![new].created = Now(t)]
    BY <1>2
  <2> HIDE DEF between
  <2> QED
    BY <1>2, <2>1, <2>2, <2>3
<1>3. StampsUpTo(clock)'
  <2> SUFFICES ASSUME NEW j \in Key
               PROVE  key'[j].created <= clock /\ key'[j].revoked <= clock
    BY <1>2 DEF TimesPast, StampsUpTo
  <2> QED
    BY <1>2, <1>2a DEF TimesPast, StampsUpTo, Now
<1>4. TypeOK' /\ TimesPast' /\ OpenIsLatest'
  BY <1>1, <1>2, <1>3, <1>2a, OperationEnds DEF TypeOK, replicas
<1>5. KeysIssued'
  <2>1. \A j \in Key : Issued(j)' => Issued(j) \/ j = new
    BY <1>2a DEF Issued
  <2>2. \A j \in Key : Issued(j) => Issued(j)'
    BY <1>2, <1>2a DEF Issued
  <2>3. UNCHANGED <<consumer, loaded>> /\ \A g \in Gateway : loaded[g].keys \subseteq Key
    BY <1>2 DEF replicas, TypeOK
  <2> QED
    BY <1>1, <1>2, <1>3, <2>1, <2>2, <2>3, OperationEnds
       DEF KeysIssued, Registered
<1>6. LoadedAgrees'
  BY <1>1, <1>2, <1>2a, ChangesShow
<1> QED
  BY <1>4, <1>5, <1>6

LEMMA PublishStep ==
    ASSUME RuntimeInv, NEW t \in Tx, PublishConfiguration(t)
    PROVE  RuntimeInv'
<1> USE DEF RuntimeInv
<1>1. CommitAndNotify(t)
  BY DEF PublishConfiguration
<1>2. /\ UNCHANGED <<deployment, clock, replicas, faults, consumer, key>>
      /\ config' \in 1 .. deployment.maxConfig
  BY <1>1, BoundsAreNaturals DEF PublishConfiguration, CommitAndNotify, TypeOK
<1>3. StampsUpTo(clock)'
  BY <1>2 DEF TimesPast, StampsUpTo
<1>4. TypeOK' /\ TimesPast' /\ OpenIsLatest'
  BY <1>1, <1>2, <1>3, OperationEnds DEF TypeOK, replicas
<1>5. KeysIssued'
  BY <1>1, <1>2, <1>3, OperationEnds DEF KeysIssued, Issued, Registered, replicas
<1>6. LoadedAgrees'
  BY <1>1, <1>2, ChangesShow
<1> QED
  BY <1>4, <1>5, <1>6

LEMMA OperationStep ==
    ASSUME RuntimeInv, NEW t \in Tx, Operation(t)
    PROVE  RuntimeInv'
BY RollbackStep, CreateConsumerStep, UpdateConsumerStep, DeleteConsumerStep,
   IssueKeyStep, RevokeKeyStep, RotateKeyStep, PublishStep DEF Operation

-----------------------------------------------------------------------------
(* Notifications and replicas *)

\* What the steps below have in common: they leave the database alone.
LEMMA DatabaseUntouched ==
    ASSUME RuntimeInv, UNCHANGED <<deployment, clock, tx, database, loaded>>
    PROVE  TimesPast' /\ OpenIsLatest' /\ KeysIssued' /\ LoadedAgrees'
<1>1. UNCHANGED <<deployment, clock, tx, consumer, key, config, loaded>>
  BY DEF database
<1>2. TimesPast' /\ OpenIsLatest'
  BY <1>1 DEF RuntimeInv, TimesPast, OpenIsLatest, StampsUpTo, Serial
<1>3. KeysIssued'
  BY <1>1 DEF RuntimeInv, KeysIssued, Issued, Registered
<1>4. LoadedAgrees'
  BY <1>1 DEF RuntimeInv, LoadedAgrees, Serial, UnchangedSince, ActiveKeys, Issued
<1> QED
  BY <1>2, <1>3, <1>4

LEMMA NotifyStep ==
    ASSUME RuntimeInv, NEW t \in Tx, NEW lost \in SUBSET Gateway, Notify(t, lost)
    PROVE  RuntimeInv'
<1> USE DEF RuntimeInv
<1>1. UNCHANGED <<deployment, clock, consumer, key, config, gateway, loaded>>
  BY DEF Notify, database
<1>2. faults' \in 0 .. deployment.maxFaults
  <2>1. Cardinality(lost) \in Nat
    BY RuntimeAssumption, FS_Subset, FS_CardinalityType
  <2> QED
    BY <2>1, BoundsAreNaturals DEF Notify, Fault, TypeOK
<1>3. events' \in [Gateway -> 0 .. EventBuffer]
  <2>1. ASSUME NEW g \in Gateway PROVE events'[g] \in 0 .. EventBuffer
    <3>1. events[g] \in 0 .. EventBuffer /\ EventBuffer \in Nat
      BY RuntimeAssumption DEF TypeOK
    <3>2. \/ events'[g] = events[g]
          \/ events[g] # EventBuffer /\ events'[g] = events[g] + 1
      BY DEF Notify
    <3> QED
      BY <3>1, <3>2
  <2>2. events' = [g \in Gateway |-> events'[g]]
    BY DEF Notify
  <2> QED
    BY <2>1, <2>2
<1>4. \A u \in Tx : tx'[u] = tx[u] \/ tx'[u] = Idle
  BY DEF Notify, TypeOK
<1>5. tx' \in [Tx -> [phase : {"idle", "open", "notify"},
                      start : 0 .. deployment.maxClock,
                      known : SUBSET (Consumer \cup Key)]]
  BY BoundsAreNaturals DEF Notify, TypeOK, Idle
<1>6. TypeOK'
  BY <1>1, <1>2, <1>3, <1>5 DEF TypeOK
<1>7. TimesPast' /\ OpenIsLatest'
  <2>1. clock \in Nat
    BY BoundsAreNaturals DEF TypeOK
  <2>2. \A u \in Tx : tx'[u].start <= clock
    BY <1>4, <2>1 DEF TimesPast, Idle
  <2>3. \A u \in Tx : tx'[u].phase = "open" => tx'[u] = tx[u]
    BY <1>4 DEF Idle
  <2> QED
    BY <1>1, <2>2, <2>3 DEF TimesPast, OpenIsLatest, StampsUpTo, Serial
<1>8. KeysIssued'
  <2>1. \A u \in Tx : tx'[u].known \subseteq tx[u].known
    BY <1>4 DEF Idle
  <2> QED
    BY <1>1, <2>1 DEF KeysIssued, Issued, Registered
<1>9. LoadedAgrees'
  BY <1>1 DEF LoadedAgrees, Serial, UnchangedSince, ActiveKeys, Issued
<1> QED
  BY <1>6, <1>7, <1>8, <1>9

\* A load brings a replica to the present, in which it is right about all keys.
LEMMA LoadKeepsInv ==
    ASSUME RuntimeInv, NEW g \in Gateway, LoadSucceeds(g),
           UNCHANGED <<deployment, clock, tx, database, events, faults>>,
           gateway' = [gateway EXCEPT ![g] = At("select")]
    PROVE  RuntimeInv'
<1> USE DEF RuntimeInv
<1>1. /\ UNCHANGED <<deployment, clock, tx, consumer, key, config, events, faults>>
      /\ loaded' = [loaded EXCEPT ![g] = Current]
  BY DEF LoadSucceeds, database
<1>2. /\ CredentialGeneration \in 0 .. deployment.maxClock
      /\ \A n \in Nat : StampsUpTo(n) => CredentialGeneration <= n
  BY GenerationIsLatest
<1>3. clock \in Nat /\ deployment.maxClock \in Nat
  BY BoundsAreNaturals DEF TypeOK
<1>4. /\ Current \in [config : 0 .. deployment.maxConfig,
                      generation : 0 .. deployment.maxClock, keys : SUBSET Key]
      /\ Current.generation = CredentialGeneration /\ Current.keys = ActiveKeys
  BY <1>2, BoundsAreNaturals DEF Current, ActiveKeys, TypeOK
<1>5. /\ loaded'[g] = Current
      /\ \A h \in Gateway \ {g} : loaded'[h] = loaded[h]
  BY <1>1 DEF TypeOK
<1>6. TypeOK'
  BY <1>1, <1>4 DEF TypeOK, At
<1>7. TimesPast'
  <2>1. CredentialGeneration <= clock
    BY <1>2, <1>3 DEF TimesPast
  <2> QED
    BY <1>1, <1>4, <1>5, <2>1 DEF TimesPast, StampsUpTo
<1>8. OpenIsLatest'
  <2> SUFFICES ASSUME NEW t \in Tx, tx[t].phase = "open", Serial
               PROVE  \A h \in Gateway : loaded'[h].generation <= clock - 1
    BY <1>1 DEF OpenIsLatest, Serial, StampsUpTo
  <2>1. StampsUpTo(clock - 1) /\ tx[t].start = clock
    BY DEF OpenIsLatest
  <2>2. loaded[g].generation \in Nat /\ loaded[g].generation <= clock - 1
    BY <1>3 DEF OpenIsLatest, TypeOK
  <2>3. CredentialGeneration <= clock - 1
    BY <1>2, <1>3, <2>1, <2>2
  <2> QED
    BY <1>4, <1>5, <2>3 DEF OpenIsLatest
<1>9. KeysIssued'
  <2>1. \A k \in ActiveKeys : Issued(k)
    BY DEF ActiveKeys
  <2> QED
    BY <1>1, <1>4, <1>5, <2>1 DEF KeysIssued, Issued, Registered
<1>10. LoadedAgrees'
  <2>1. ActiveKeys' = ActiveKeys
    BY <1>1 DEF ActiveKeys, Issued
  <2> QED
    BY <1>1, <1>4, <1>5, <2>1 DEF LoadedAgrees, Serial, UnchangedSince
<1> QED
  BY <1>6, <1>7, <1>8, <1>9, <1>10

LEMMA CrashStep ==
    ASSUME RuntimeInv, NEW g \in Gateway, Crash(g)
    PROVE  RuntimeInv'
<1> USE DEF RuntimeInv
<1>1. /\ UNCHANGED <<deployment, clock, tx, consumer, key, config>>
      /\ loaded' = [loaded EXCEPT ![g] = Nothing]
  BY DEF Crash, database
<1>2. clock \in Nat
  BY BoundsAreNaturals DEF TypeOK
<1>3. /\ loaded'[g] = Nothing
      /\ \A h \in Gateway \ {g} : loaded'[h] = loaded[h]
  BY <1>1 DEF TypeOK
<1>4. TypeOK'
  BY <1>1, RuntimeAssumption, BoundsAreNaturals DEF TypeOK, Crash, Fault, Down, Nothing
<1>5. TimesPast'
  BY <1>1, <1>2, <1>3 DEF TimesPast, StampsUpTo, Nothing
<1>6. OpenIsLatest'
  <2> SUFFICES ASSUME NEW t \in Tx, tx[t].phase = "open", Serial
               PROVE  \A h \in Gateway : loaded'[h].generation <= clock - 1
    BY <1>1 DEF OpenIsLatest, Serial, StampsUpTo
  <2>1. loaded[g].generation \in Nat /\ loaded[g].generation <= clock - 1
    BY DEF OpenIsLatest, TypeOK
  <2> QED
    BY <1>2, <1>3, <2>1 DEF OpenIsLatest, Nothing
<1>7. KeysIssued'
  BY <1>1, <1>3 DEF KeysIssued, Issued, Registered, Nothing
<1>8. LoadedAgrees'
  <2>1. ActiveKeys' = ActiveKeys
    BY <1>1 DEF ActiveKeys, Issued
  <2>2. \A k \in Key : key[k].created <= 0 => k \notin ActiveKeys
    BY DEF ActiveKeys, Issued, TypeOK
  <2> QED
    BY <1>1, <1>3, <2>1, <2>2 DEF LoadedAgrees, Serial, UnchangedSince, Nothing
<1> QED
  BY <1>4, <1>5, <1>6, <1>7, <1>8

\* The steps of Run that neither load nor crash.
LEMMA RunStep ==
    ASSUME RuntimeInv, NEW g \in Gateway,
           \/ PollConfiguration(g) \/ PollCredentials(g) \/ TakeEvent(g)
           \/ LoadFails(g) \/ (Load(g) /\ LoadRefused(g))
    PROVE  RuntimeInv'
<1> USE DEF RuntimeInv
<1>1. UNCHANGED <<deployment, clock, tx, database, loaded>>
  BY DEF PollConfiguration, PollCredentials, TakeEvent, LoadFails, Load, LoadRefused
<1>2. UNCHANGED <<consumer, key, config>>
  BY <1>1 DEF database
<1>3. gateway' \in [Gateway -> [pc : {"down", "select", "poll", "load"},
                                sameConfig : BOOLEAN]]
  <2> DEFINE Position == [pc : {"down", "select", "poll", "load"},
                          sameConfig : BOOLEAN]
  <2>1. At("select") \in Position /\ At("load") \in Position
    BY DEF At
  <2>2. [pc |-> "poll", sameConfig |-> config = loaded[g].config] \in Position
    <3>1. CASE config = loaded[g].config
      BY <3>1
    <3>2. CASE config # loaded[g].config
      BY <3>2
    <3> QED
      BY <3>1, <3>2
  <2>3. gateway \in [Gateway -> Position]
    BY DEF TypeOK
  <2> HIDE DEF Position
  <2>4. gateway' \in [Gateway -> Position]
    BY <2>1, <2>2, <2>3
       DEF PollConfiguration, PollCredentials, TakeEvent, LoadFails, Load
  <2> QED
    BY <2>4 DEF Position
<1>4. events' \in [Gateway -> 0 .. EventBuffer]
  BY RuntimeAssumption
     DEF PollConfiguration, PollCredentials, TakeEvent, LoadFails, Load, TypeOK
<1>5. faults' \in 0 .. deployment.maxFaults
  BY BoundsAreNaturals
     DEF PollConfiguration, PollCredentials, TakeEvent, LoadFails, Load, Fault, TypeOK
<1>6. TypeOK'
  BY <1>1, <1>2, <1>3, <1>4, <1>5 DEF TypeOK
<1> QED
  BY <1>1, <1>6, DatabaseUntouched

-----------------------------------------------------------------------------

LEMMA RuntimeInit == Init => RuntimeInv
<1> SUFFICES ASSUME Init PROVE RuntimeInv
  OBVIOUS
<1>1. TypeOK
  BY RuntimeAssumption DEF Init, TypeOK, Idle, NoConsumer, NoKey, Down, Nothing
<1>2. TimesPast
  BY DEF Init, TimesPast, StampsUpTo, Idle, NoConsumer, NoKey, Nothing
<1>3. OpenIsLatest /\ KeysIssued
  BY DEF Init, OpenIsLatest, KeysIssued, Issued, Idle, NoKey, Nothing
<1>4. LoadedAgrees
  BY DEF Init, LoadedAgrees, ActiveKeys, Issued, NoKey, Nothing
<1> QED
  BY <1>1, <1>2, <1>3, <1>4 DEF RuntimeInv

LEMMA RuntimeStep == RuntimeInv /\ [Next]_vars => RuntimeInv'
<1> SUFFICES ASSUME RuntimeInv, [Next]_vars PROVE RuntimeInv'
  OBVIOUS
<1>1. ASSUME NEW t \in Tx, Begin(t) \/ Operation(t) PROVE RuntimeInv'
  BY <1>1, BeginStep, OperationStep
<1>2. ASSUME NEW t \in Tx, NEW lost \in SUBSET Gateway, Notify(t, lost)
      PROVE  RuntimeInv'
  BY <1>2, NotifyStep
<1>3. ASSUME NEW g \in Gateway, Start(g) PROVE RuntimeInv'
  BY <1>3, LoadKeepsInv DEF Start
<1>4. ASSUME NEW g \in Gateway, Load(g) PROVE RuntimeInv'
  <2>1. CASE LoadSucceeds(g)
    BY <1>4, <2>1, LoadKeepsInv DEF Load
  <2>2. CASE LoadRefused(g)
    BY <1>4, <2>2, RunStep
  <2> QED
    BY <1>4, <2>1, <2>2 DEF Load
<1>5. ASSUME NEW g \in Gateway,
             \/ PollConfiguration(g) \/ PollCredentials(g) \/ TakeEvent(g)
             \/ LoadFails(g)
      PROVE  RuntimeInv'
  BY <1>5, RunStep
<1>6. ASSUME NEW g \in Gateway, Crash(g) PROVE RuntimeInv'
  BY <1>6, CrashStep
<1>7. CASE UNCHANGED vars
  <2>1. UNCHANGED <<deployment, clock, tx, database, loaded, consumer, key, config,
                    gateway, events, faults>>
    BY <1>7 DEF vars, database, replicas
  <2>2. TypeOK'
    BY <2>1 DEF RuntimeInv, TypeOK
  <2> QED
    BY <2>1, <2>2, DatabaseUntouched DEF RuntimeInv
<1> QED
  BY <1>1, <1>2, <1>3, <1>4, <1>5, <1>6, <1>7 DEF Next

LEMMA RuntimeInvariant == Spec => []RuntimeInv
BY RuntimeInit, RuntimeStep, PTL DEF Spec

(***************************************************************************)
(* The tables, the Run loops, their channels and the fault counter have    *)
(* the values they can hold: TypeOK, whatever overlaps, is lost or fails.  *)
(***************************************************************************)
THEOREM RuntimeTypeCorrect == Spec => []TypeOK
<1>1. RuntimeInv => TypeOK
  BY DEF RuntimeInv
<1> QED
  BY <1>1, RuntimeInvariant, PTL

(***************************************************************************)
(* refreshIfChanged may skip the reload: as long as administrators'        *)
(* transactions do not overlap, a replica whose generation is the current  *)
(* one has the current credentials, with any number of keys, consumers and *)
(* replicas, and whatever notifications, loads and processes failed.       *)
(***************************************************************************)
THEOREM SkippingSafe == Spec => []SkippingIsSafe
<1>1. RuntimeInv => SkippingIsSafe
  <2> SUFFICES ASSUME RuntimeInv, NEW g \in Gateway, Serial,
                      CredentialGeneration = loaded[g].generation
               PROVE  loaded[g].keys = ActiveKeys
    BY DEF SkippingIsSafe
  <2>1. StampsUpTo(loaded[g].generation)
    BY GenerationIsLatest DEF RuntimeInv
  <2>2. \A k \in Key : UnchangedSince(k, loaded[g].generation)
    BY <2>1, RuntimeAssumption DEF StampsUpTo, UnchangedSince
  <2>3. loaded[g].keys \subseteq Key /\ ActiveKeys \subseteq Key
    BY DEF RuntimeInv, TypeOK, ActiveKeys
  <2> QED
    BY <2>2, <2>3 DEF RuntimeInv, LoadedAgrees
<1> QED
  BY <1>1, RuntimeInvariant, PTL
=============================================================================
