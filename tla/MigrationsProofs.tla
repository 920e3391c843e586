-------------------------- MODULE MigrationsProofs --------------------------
(***************************************************************************)
(* Proofs about Migrations and ProcessLifecycle, for any number of         *)
(* processes, releases, migrations, signals and faults.                    *)
(***************************************************************************)
EXTENDS ProcessLifecycle, TLAPS

\* The positions between the grant of the lock and its release.
InsideLock(a) == migrator[a].pc \in Locked \cup {"conflict"}

(***************************************************************************)
(* The inductive invariant.  SchemaInOrder alone is not inductive: a       *)
(* commit extends the schema correctly because the file it carries is the  *)
(* next one, which was checked against a ledger that only the owner of the *)
(* lock can change; and the owner may be a session whose process is gone.  *)
(***************************************************************************)
InsideOwns == \A a \in Admin : InsideLock(a) => lock = a

CheckingNext ==
    \A a \in Admin :
        migrator[a].pc = "check" => migrator[a].file \in 1 .. Len(schema) + 1

CarryingNext ==
    \A a \in Admin :
        migrator[a].pc \in {"apply", "record", "commit"} =>
            migrator[a].file = Len(schema) + 1 /\ migrator[a].file <= Files[a]

AbandonedNext ==
    abandoned.phase = "committing" =>
        lock = Abandoned /\ abandoned.file = Len(schema) + 1

QueueAtFirst ==
    \A a \in Admin : migrator[a].pc = "lock" => migrator[a].file = 1

MigrationsInv ==
    /\ MigrationsTypeOK
    /\ SchemaInOrder
    /\ NeverConflicts
    /\ InsideOwns
    /\ QueueAtFirst
    /\ CheckingNext
    /\ CarryingNext
    /\ AbandonedNext

\* Before the first process starts, nothing is applied and nobody migrates.
LEMMA MigrationsInitInv == MigrationsInit => MigrationsInv
<1> SUFFICES ASSUME MigrationsInit PROVE MigrationsInv
    OBVIOUS
<1> QED
    BY MigrationsAssumption, OwnersDiffer
       DEF MigrationsInit, MigrationsInv, MigrationsTypeOK, SchemaInOrder, NeverConflicts,
           InsideOwns, InsideLock, QueueAtFirst, CheckingNext, CarryingNext,
           AbandonedNext, Away, Settled, Locked

(***************************************************************************)
(* The commit of the next version keeps the schema a gapless sequence that *)
(* the ledger mirrors.  This is Apply of the code's transaction: the       *)
(* statements and the INSERT of their version.                             *)
(***************************************************************************)
LEMMA ApplyKeepsOrder ==
    ASSUME schema \in Seq(Nat), SchemaInOrder, Apply(Len(schema) + 1)
    PROVE  /\ schema' \in Seq(Nat)
           /\ Len(schema') = Len(schema) + 1
           /\ SchemaInOrder'
<1>1. /\ schema' \in Seq(Nat)
      /\ Len(schema') = Len(schema) + 1
      /\ \A i \in 1 .. Len(schema) : schema'[i] = schema[i]
      /\ schema'[Len(schema) + 1] = Len(schema) + 1
    BY DEF Apply
<1>2. Len(schema) \in Nat
    OBVIOUS
<1>3. \A i \in 1 .. Len(schema') : schema'[i] = i
    BY <1>1, <1>2, SMTT(30) DEF SchemaInOrder
<1>4. ledger' = 1 .. Len(schema')
    <2>1. ledger' = (1 .. Len(schema)) \cup {Len(schema) + 1}
        BY DEF Apply, SchemaInOrder
    <2> QED
        BY <2>1, <1>1, <1>2
<1> QED
    BY <1>1, <1>3, <1>4 DEF SchemaInOrder

Positions == Locked \cup {"away", "lock", "conflict", "failed", "migrated"}
Migrators == [Admin -> [pc : Positions, file : Nat]]

\* A step of one process moves that process and no other.
LEMMA GotoEffect ==
    ASSUME migrator \in Migrators, NEW a \in Admin, NEW p \in Positions, Goto(a, p)
    PROVE  /\ migrator' \in Migrators
           /\ migrator'[a].pc = p
           /\ migrator'[a].file = migrator[a].file
           /\ \A b \in Admin \ {a} : migrator'[b] = migrator[b]
BY DEF Migrators, Goto

LEMMA NextFileEffect ==
    ASSUME migrator \in Migrators, NEW a \in Admin, NextFile(a)
    PROVE  /\ migrator' \in Migrators
           /\ migrator'[a].pc = "check"
           /\ migrator'[a].file = migrator[a].file + 1
           /\ \A b \in Admin \ {a} : migrator'[b] = migrator[b]
BY DEF Migrators, NextFile, Positions, Locked

\* Every step of Migrate, its failures and PostgreSQL's clean-up keep the
\* invariant.
LEMMA MigrationsStep ==
    ASSUME MigrationsInv, [MigrationsNext]_migrationVars
    PROVE  MigrationsInv'
<1> USE MigrationsAssumption, OwnersDiffer
<1>0. /\ Len(schema) \in Nat
      /\ migrator \in Migrators
      /\ \A a \in Admin : /\ migrator[a].file \in Nat /\ migrator[a].pc \in Positions
                           /\ Files[a] \in Nat
                           /\ migrator[a].file <= Files[a] + 1
    BY DEF MigrationsInv, MigrationsTypeOK, Migrators, Positions
<1>a. MigrationsTypeOK' <=>
        /\ schema' \in Seq(Nat)
        /\ ledger' \in SUBSET Nat
        /\ lock' \in Admin \cup {Nobody, Abandoned}
        /\ migrator' \in Migrators
        /\ \A a \in Admin : migrator'[a].file <= Files[a] + 1
        /\ abandoned' \in [phase : {"settled", "open", "committing"}, file : Nat]
    BY DEF MigrationsTypeOK, Migrators, Positions
<1>b. /\ MigrationsTypeOK
      /\ SchemaInOrder
      /\ NeverConflicts
      /\ InsideOwns
      /\ QueueAtFirst
      /\ CheckingNext
      /\ CarryingNext
      /\ AbandonedNext
    BY DEF MigrationsInv
<1> USE <1>0, <1>b
<1>1. ASSUME NEW a \in Admin, BeginMigrate(a) PROVE MigrationsInv'
    <2>1. UNCHANGED <<schema, ledger, lock, abandoned>>
        BY <1>1 DEF BeginMigrate
    <2>2. /\ migrator' \in Migrators
         /\ migrator'[a].pc = "lock"
         /\ migrator'[a].file = 1
         /\ \A b \in Admin \ {a} : migrator'[b] = migrator[b]
        BY <1>1 DEF BeginMigrate, Migrators, Positions, Locked
    <2>f. \A b \in Admin : migrator'[b].file <= Files[b] + 1
        <3> TAKE b \in Admin
        <3>1. CASE b = a
            BY <3>1, <2>1, <2>2
        <3>2. CASE b # a
            BY <3>2, <2>1, <2>2
        <3> QED
            BY <3>1, <3>2
    <2>3. MigrationsTypeOK'
        BY <1>a, <2>f, <2>1, <2>2 DEF MigrationsTypeOK
    <2>4. SchemaInOrder'
        BY <2>1, <2>2 DEF SchemaInOrder
    <2>5. NeverConflicts'
        BY <2>1, <2>2 DEF NeverConflicts
    <2>6. InsideOwns'
        BY <2>1, <2>2 DEF InsideOwns, InsideLock, Locked
    <2>7. QueueAtFirst'
        BY <2>1, <2>2 DEF QueueAtFirst
    <2>8. CheckingNext'
        BY <2>1, <2>2 DEF CheckingNext
    <2>9. CarryingNext'
        BY <2>1, <2>2 DEF CarryingNext
    <2>10. AbandonedNext'
        BY <2>1, <2>2 DEF AbandonedNext
    <2> QED
        BY <2>3, <2>4, <2>5, <2>6, <2>7, <2>8, <2>9, <2>10 DEF MigrationsInv
<1>2. ASSUME NEW a \in Admin, LockMigrations(a) PROVE MigrationsInv'
    <2>a. /\ lock = Nobody /\ lock' = a
          /\ UNCHANGED <<schema, ledger, abandoned>>
          /\ migrator[a].pc = "lock"
        BY <1>2 DEF LockMigrations
    <2>b. \A b \in Admin : ~InsideLock(b)
        BY <2>a DEF InsideOwns
    <2>c. abandoned.phase # "committing"
        BY <2>a DEF AbandonedNext, Nobody, Abandoned
    <2>1. /\ lock = Nobody /\ lock' = a
          /\ migrator[a].file = 1
          /\ abandoned.phase # "committing"
          /\ \A b \in Admin : ~InsideLock(b)
          /\ UNCHANGED <<schema, ledger, abandoned>>
        BY <2>a, <2>b, <2>c DEF QueueAtFirst
    <2>2. Goto(a, "check")
        BY <1>2 DEF LockMigrations
    <2>3. /\ migrator' \in Migrators
         /\ migrator'[a].pc = "check"
         /\ migrator'[a].file = migrator[a].file
         /\ \A b \in Admin \ {a} : migrator'[b] = migrator[b]
        BY <2>2, GotoEffect DEF Positions, Locked
    <2>4. MigrationsTypeOK'
        BY <1>a, <2>1, <2>3 DEF MigrationsTypeOK
    <2>5. SchemaInOrder'
        BY <2>1, <2>3 DEF SchemaInOrder
    <2>6. NeverConflicts'
        BY <2>1, <2>3 DEF NeverConflicts
    <2>7. InsideOwns'
        BY <2>1, <2>3 DEF InsideOwns, InsideLock, Locked
    <2>8. QueueAtFirst'
        BY <2>1, <2>3 DEF QueueAtFirst
    <2>9. CheckingNext'
        BY <2>1, <2>3 DEF CheckingNext
    <2>10. CarryingNext'
        BY <2>1, <2>3 DEF CarryingNext
    <2>11. AbandonedNext'
        BY <2>1, <2>3 DEF AbandonedNext
    <2> QED
        BY <2>4, <2>5, <2>6, <2>7, <2>8, <2>9, <2>10, <2>11 DEF MigrationsInv
<1>3. ASSUME NEW a \in Admin, CheckApplied(a) PROVE MigrationsInv'
    <2>0. /\ migrator[a].pc = "check"
          /\ lock = a
          /\ migrator[a].file \in 1 .. Len(schema) + 1
          /\ UNCHANGED <<schema, ledger, lock, abandoned>>
        BY <1>3 DEF CheckApplied, InsideOwns, InsideLock, Locked, CheckingNext
    <2>1. CASE migrator[a].file > Files[a]
        <3>1. Goto(a, "unlock")
            BY <1>3, <2>1 DEF CheckApplied
        <3>2. /\ migrator' \in Migrators
             /\ migrator'[a].pc = "unlock"
             /\ migrator'[a].file = migrator[a].file
             /\ \A b \in Admin \ {a} : migrator'[b] = migrator[b]
            BY <3>1, GotoEffect DEF Positions, Locked
        <3>3. MigrationsTypeOK'
            BY <1>a, <2>0, <3>2 DEF MigrationsTypeOK
        <3>4. SchemaInOrder'
            BY <2>0, <3>2 DEF SchemaInOrder
        <3>5. NeverConflicts'
            BY <2>0, <3>2 DEF NeverConflicts
        <3>6. InsideOwns'
            BY <2>0, <3>2 DEF InsideOwns, InsideLock, Locked
        <3>7. QueueAtFirst'
            BY <2>0, <3>2 DEF QueueAtFirst
        <3>8. CheckingNext'
            BY <2>0, <3>2 DEF CheckingNext
        <3>9. CarryingNext'
            BY <2>0, <3>2 DEF CarryingNext
        <3>10. AbandonedNext'
            BY <2>0, <3>2 DEF AbandonedNext
        <3> QED
            BY <3>3, <3>4, <3>5, <3>6, <3>7, <3>8, <3>9, <3>10 DEF MigrationsInv
    <2>2. CASE migrator[a].file <= Files[a] /\ migrator[a].file \in ledger
        <3>1. NextFile(a)
            BY <1>3, <2>2 DEF CheckApplied
        <3>2. /\ migrator' \in Migrators
             /\ migrator'[a].pc = "check"
             /\ migrator'[a].file = migrator[a].file + 1
             /\ \A b \in Admin \ {a} : migrator'[b] = migrator[b]
            BY <3>1, NextFileEffect
        <3>3. migrator[a].file + 1 \in 1 .. Len(schema) + 1
            BY <2>2 DEF SchemaInOrder
        <3>f. \A b \in Admin : migrator'[b].file <= Files[b] + 1
            <4> TAKE b \in Admin
            <4>1. CASE b = a
                BY <4>1, <2>0, <2>2, <3>2, <3>3
            <4>2. CASE b # a
                BY <4>2, <2>0, <2>2, <3>2, <3>3
            <4> QED
                BY <4>1, <4>2
        <3>4. MigrationsTypeOK'
            BY <1>a, <3>f, <2>0, <2>2, <3>2, <3>3 DEF MigrationsTypeOK
        <3>5. SchemaInOrder'
            BY <2>0, <2>2, <3>2, <3>3 DEF SchemaInOrder
        <3>6. NeverConflicts'
            BY <2>0, <2>2, <3>2, <3>3 DEF NeverConflicts
        <3>7. InsideOwns'
            BY <2>0, <2>2, <3>2, <3>3 DEF InsideOwns, InsideLock, Locked
        <3>8. QueueAtFirst'
            BY <2>0, <2>2, <3>2, <3>3 DEF QueueAtFirst
        <3>9. CheckingNext'
            BY <2>0, <2>2, <3>2, <3>3 DEF CheckingNext
        <3>10. CarryingNext'
            BY <2>0, <2>2, <3>2, <3>3 DEF CarryingNext
        <3>11. AbandonedNext'
            BY <2>0, <2>2, <3>2, <3>3 DEF AbandonedNext
        <3> QED
            BY <3>4, <3>5, <3>6, <3>7, <3>8, <3>9, <3>10, <3>11 DEF MigrationsInv
    <2>3. CASE migrator[a].file <= Files[a] /\ migrator[a].file \notin ledger
        <3>1. Goto(a, "apply")
            BY <1>3, <2>3 DEF CheckApplied
        <3>2. /\ migrator' \in Migrators
             /\ migrator'[a].pc = "apply"
             /\ migrator'[a].file = migrator[a].file
             /\ \A b \in Admin \ {a} : migrator'[b] = migrator[b]
            BY <3>1, GotoEffect DEF Positions, Locked
        <3>3. migrator[a].file = Len(schema) + 1
            BY <2>0, <2>3 DEF SchemaInOrder
        <3>4. MigrationsTypeOK'
            BY <1>a, <2>0, <2>3, <3>2, <3>3 DEF MigrationsTypeOK
        <3>5. SchemaInOrder'
            BY <2>0, <2>3, <3>2, <3>3 DEF SchemaInOrder
        <3>6. NeverConflicts'
            BY <2>0, <2>3, <3>2, <3>3 DEF NeverConflicts
        <3>7. InsideOwns'
            BY <2>0, <2>3, <3>2, <3>3 DEF InsideOwns, InsideLock, Locked
        <3>8. QueueAtFirst'
            BY <2>0, <2>3, <3>2, <3>3 DEF QueueAtFirst
        <3>9. CheckingNext'
            BY <2>0, <2>3, <3>2, <3>3 DEF CheckingNext
        <3>10. CarryingNext'
            BY <2>0, <2>3, <3>2, <3>3 DEF CarryingNext
        <3>11. AbandonedNext'
            BY <2>0, <2>3, <3>2, <3>3 DEF AbandonedNext
        <3> QED
            BY <3>4, <3>5, <3>6, <3>7, <3>8, <3>9, <3>10, <3>11 DEF MigrationsInv
    <2> QED
        BY <2>1, <2>2, <2>3
<1>4. ASSUME NEW a \in Admin, ApplyMigration(a) PROVE MigrationsInv'
    <2>1. /\ lock = a
          /\ migrator[a].file = Len(schema) + 1
          /\ migrator[a].file <= Files[a]
          /\ UNCHANGED <<schema, ledger, lock, abandoned>>
        BY <1>4 DEF ApplyMigration, InsideOwns, InsideLock, Locked, CarryingNext
    <2>2. Goto(a, "record")
        BY <1>4 DEF ApplyMigration
    <2>3. /\ migrator' \in Migrators
         /\ migrator'[a].pc = "record"
         /\ migrator'[a].file = migrator[a].file
         /\ \A b \in Admin \ {a} : migrator'[b] = migrator[b]
        BY <2>2, GotoEffect DEF Positions, Locked
    <2>4. MigrationsTypeOK'
        BY <1>a, <2>1, <2>3 DEF MigrationsTypeOK
    <2>5. SchemaInOrder'
        BY <2>1, <2>3 DEF SchemaInOrder
    <2>6. NeverConflicts'
        BY <2>1, <2>3 DEF NeverConflicts
    <2>7. InsideOwns'
        BY <2>1, <2>3 DEF InsideOwns, InsideLock, Locked
    <2>8. QueueAtFirst'
        BY <2>1, <2>3 DEF QueueAtFirst
    <2>9. CheckingNext'
        BY <2>1, <2>3 DEF CheckingNext
    <2>10. CarryingNext'
        BY <2>1, <2>3 DEF CarryingNext
    <2>11. AbandonedNext'
        BY <2>1, <2>3 DEF AbandonedNext
    <2> QED
        BY <2>4, <2>5, <2>6, <2>7, <2>8, <2>9, <2>10, <2>11 DEF MigrationsInv
<1>5. ASSUME NEW a \in Admin, RecordMigration(a) PROVE MigrationsInv'
    <2>1. /\ lock = a
          /\ migrator[a].file = Len(schema) + 1
          /\ migrator[a].file <= Files[a]
          /\ UNCHANGED <<schema, ledger, lock, abandoned>>
        BY <1>5 DEF RecordMigration, InsideOwns, InsideLock, Locked, CarryingNext
    <2>2. migrator[a].file \notin ledger
        BY <2>1 DEF SchemaInOrder
    <2>3. Goto(a, "commit")
        BY <1>5, <2>2 DEF RecordMigration
    <2>4. /\ migrator' \in Migrators
         /\ migrator'[a].pc = "commit"
         /\ migrator'[a].file = migrator[a].file
         /\ \A b \in Admin \ {a} : migrator'[b] = migrator[b]
        BY <2>3, GotoEffect DEF Positions, Locked
    <2>5. MigrationsTypeOK'
        BY <1>a, <2>1, <2>4 DEF MigrationsTypeOK
    <2>6. SchemaInOrder'
        BY <2>1, <2>4 DEF SchemaInOrder
    <2>7. NeverConflicts'
        BY <2>1, <2>4 DEF NeverConflicts
    <2>8. InsideOwns'
        BY <2>1, <2>4 DEF InsideOwns, InsideLock, Locked
    <2>9. QueueAtFirst'
        BY <2>1, <2>4 DEF QueueAtFirst
    <2>10. CheckingNext'
        BY <2>1, <2>4 DEF CheckingNext
    <2>11. CarryingNext'
        BY <2>1, <2>4 DEF CarryingNext
    <2>12. AbandonedNext'
        BY <2>1, <2>4 DEF AbandonedNext
    <2> QED
        BY <2>5, <2>6, <2>7, <2>8, <2>9, <2>10, <2>11, <2>12 DEF MigrationsInv
<1>6. ASSUME NEW a \in Admin, CommitMigration(a) PROVE MigrationsInv'
    <2>1. /\ lock = a
          /\ migrator[a].file = Len(schema) + 1
          /\ migrator[a].file <= Files[a]
          /\ \A b \in Admin \ {a} : ~InsideLock(b)
          /\ UNCHANGED <<lock, abandoned>>
        BY <1>6 DEF CommitMigration, InsideOwns, InsideLock, Locked, CarryingNext
    <2>2. Apply(Len(schema) + 1)
        BY <1>6, <2>1 DEF CommitMigration
    <2>3. /\ schema' \in Seq(Nat)
          /\ Len(schema') = Len(schema) + 1
          /\ SchemaInOrder'
        BY <2>2, ApplyKeepsOrder DEF MigrationsTypeOK
    <2>4. ledger' \in SUBSET Nat
        BY <2>3 DEF SchemaInOrder
    <2>5. /\ migrator' \in Migrators
         /\ migrator'[a].pc = "check"
         /\ migrator'[a].file = migrator[a].file + 1
         /\ \A b \in Admin \ {a} : migrator'[b] = migrator[b]
        BY <1>6, NextFileEffect DEF CommitMigration
    <2>f. \A b \in Admin : migrator'[b].file <= Files[b] + 1
        <3> TAKE b \in Admin
        <3>1. CASE b = a
            BY <3>1, <2>1, <2>3, <2>4, <2>5
        <3>2. CASE b # a
            BY <3>2, <2>1, <2>3, <2>4, <2>5
        <3> QED
            BY <3>1, <3>2
    <2>6. MigrationsTypeOK'
        BY <1>a, <2>f, <2>1, <2>3, <2>4, <2>5 DEF MigrationsTypeOK
    <2>7. NeverConflicts'
        BY <2>1, <2>3, <2>4, <2>5 DEF NeverConflicts
    <2>8. InsideOwns'
        BY <2>1, <2>3, <2>4, <2>5 DEF InsideOwns, InsideLock, Locked
    <2>9. QueueAtFirst'
        BY <2>1, <2>3, <2>4, <2>5 DEF QueueAtFirst
    <2>10. CheckingNext'
        BY <2>1, <2>3, <2>4, <2>5 DEF CheckingNext, InsideLock, Locked
    <2>11. CarryingNext'
        BY <2>1, <2>3, <2>4, <2>5 DEF CarryingNext, InsideLock, Locked
    <2>12. AbandonedNext'
        BY <2>1, <2>3, <2>4, <2>5 DEF AbandonedNext
    <2> QED
        BY <2>6, <2>3, <2>7, <2>8, <2>9, <2>10, <2>11, <2>12 DEF MigrationsInv
<1>7. ASSUME NEW a \in Admin, UnlockMigrations(a) PROVE MigrationsInv'
    <2>1. /\ lock = a /\ lock' = Nobody
          /\ \A b \in Admin \ {a} : ~InsideLock(b)
          /\ UNCHANGED <<schema, ledger, abandoned>>
        BY <1>7 DEF UnlockMigrations, InsideOwns, InsideLock, Locked
    <2>2. Goto(a, "migrated")
        BY <1>7 DEF UnlockMigrations
    <2>3. /\ migrator' \in Migrators
         /\ migrator'[a].pc = "migrated"
         /\ migrator'[a].file = migrator[a].file
         /\ \A b \in Admin \ {a} : migrator'[b] = migrator[b]
        BY <2>2, GotoEffect DEF Positions, Locked
    <2>4. MigrationsTypeOK'
        BY <1>a, <2>1, <2>3 DEF MigrationsTypeOK
    <2>5. SchemaInOrder'
        BY <2>1, <2>3 DEF SchemaInOrder
    <2>6. NeverConflicts'
        BY <2>1, <2>3 DEF NeverConflicts
    <2>7. InsideOwns'
        BY <2>1, <2>3 DEF InsideOwns, InsideLock, Locked
    <2>8. QueueAtFirst'
        BY <2>1, <2>3 DEF QueueAtFirst
    <2>9. CheckingNext'
        BY <2>1, <2>3 DEF CheckingNext
    <2>10. CarryingNext'
        BY <2>1, <2>3 DEF CarryingNext
    <2>11. AbandonedNext'
        BY <2>1, <2>3 DEF AbandonedNext
    <2> QED
        BY <2>4, <2>5, <2>6, <2>7, <2>8, <2>9, <2>10, <2>11 DEF MigrationsInv
<1>8. ASSUME NEW a \in Admin, FailMigrate(a) PROVE MigrationsInv'
    <2>1. /\ lock' = IF lock = a THEN Nobody ELSE lock
          /\ lock = a
          /\ UNCHANGED <<schema, ledger, abandoned>>
        BY <1>8 DEF FailMigrate, InsideOwns, InsideLock, Locked
    <2>2. Goto(a, "failed")
        BY <1>8 DEF FailMigrate
    <2>3. /\ migrator' \in Migrators
         /\ migrator'[a].pc = "failed"
         /\ migrator'[a].file = migrator[a].file
         /\ \A b \in Admin \ {a} : migrator'[b] = migrator[b]
        BY <2>2, GotoEffect DEF Positions, Locked
    <2>4. MigrationsTypeOK'
        BY <1>a, <2>1, <2>3 DEF MigrationsTypeOK
    <2>5. SchemaInOrder'
        BY <2>1, <2>3 DEF SchemaInOrder
    <2>6. NeverConflicts'
        BY <2>1, <2>3 DEF NeverConflicts
    <2>7. InsideOwns'
        BY <2>1, <2>3 DEF InsideOwns, InsideLock, Locked
    <2>8. QueueAtFirst'
        BY <2>1, <2>3 DEF QueueAtFirst
    <2>9. CheckingNext'
        BY <2>1, <2>3 DEF CheckingNext
    <2>10. CarryingNext'
        BY <2>1, <2>3 DEF CarryingNext
    <2>11. AbandonedNext'
        BY <2>1, <2>3 DEF AbandonedNext
    <2> QED
        BY <2>4, <2>5, <2>6, <2>7, <2>8, <2>9, <2>10, <2>11 DEF MigrationsInv
<1>9. ASSUME NEW a \in Admin, AbandonMigrate(a) PROVE MigrationsInv'
    <2>1. /\ \A b \in Admin \ {a} : InsideLock(b) => lock = b
          /\ UNCHANGED <<schema, ledger>>
        BY <1>9 DEF AbandonMigrate, InsideOwns
    <2>2. \/ /\ lock = a /\ lock' = Abandoned
             /\ abandoned' \in [phase : {"settled", "open", "committing"}, file : Nat]
             /\ abandoned'.phase = "committing" => abandoned'.file = Len(schema) + 1
          \/ lock # a /\ UNCHANGED <<lock, abandoned>>
        BY <1>9 DEF AbandonMigrate, AbandonSession, CarryingNext
    <2>3. /\ migrator' \in Migrators
         /\ migrator'[a].pc = "failed"
         /\ migrator'[a].file = migrator[a].file
         /\ \A b \in Admin \ {a} : migrator'[b] = migrator[b]
        BY <1>9, GotoEffect DEF AbandonMigrate, Positions, Locked
    <2>4. MigrationsTypeOK'
        BY <1>a, <2>1, <2>2, <2>3 DEF MigrationsTypeOK
    <2>5. SchemaInOrder'
        BY <2>1, <2>2, <2>3 DEF SchemaInOrder
    <2>6. NeverConflicts'
        BY <2>1, <2>2, <2>3 DEF NeverConflicts
    <2>7. InsideOwns'
        BY <2>1, <2>2, <2>3 DEF InsideOwns, InsideLock, Locked
    <2>8. QueueAtFirst'
        BY <2>1, <2>2, <2>3 DEF QueueAtFirst
    <2>9. CheckingNext'
        BY <2>1, <2>2, <2>3 DEF CheckingNext
    <2>10. CarryingNext'
        BY <2>1, <2>2, <2>3 DEF CarryingNext
    <2>11. AbandonedNext'
        BY <2>1, <2>2, <2>3 DEF AbandonedNext
    <2> QED
        BY <2>4, <2>5, <2>6, <2>7, <2>8, <2>9, <2>10, <2>11 DEF MigrationsInv
<1>10. ASSUME NEW a \in Admin, LeaveMigrate(a) PROVE MigrationsInv'
    <2>1. /\ \A b \in Admin \ {a} : InsideLock(b) => lock = b
          /\ UNCHANGED <<schema, ledger>>
        BY <1>10 DEF LeaveMigrate, InsideOwns
    <2>2. \/ /\ lock = a /\ lock' = Abandoned
             /\ abandoned' \in [phase : {"settled", "open", "committing"}, file : Nat]
             /\ abandoned'.phase = "committing" => abandoned'.file = Len(schema) + 1
          \/ lock # a /\ UNCHANGED <<lock, abandoned>>
        BY <1>10 DEF LeaveMigrate, AbandonSession, CarryingNext
    <2>3. /\ migrator' \in Migrators
         /\ migrator'[a].pc = "away"
         /\ migrator'[a].file = 0
         /\ \A b \in Admin \ {a} : migrator'[b] = migrator[b]
        BY <1>10 DEF LeaveMigrate, Away, Migrators, Positions, Locked
    <2>f. \A b \in Admin : migrator'[b].file <= Files[b] + 1
        <3> TAKE b \in Admin
        <3>1. CASE b = a
            BY <3>1, <2>1, <2>2, <2>3
        <3>2. CASE b # a
            BY <3>2, <2>1, <2>2, <2>3
        <3> QED
            BY <3>1, <3>2
    <2>4. MigrationsTypeOK'
        BY <1>a, <2>f, <2>1, <2>2, <2>3 DEF MigrationsTypeOK
    <2>5. SchemaInOrder'
        BY <2>1, <2>2, <2>3 DEF SchemaInOrder
    <2>6. NeverConflicts'
        BY <2>1, <2>2, <2>3 DEF NeverConflicts
    <2>7. InsideOwns'
        BY <2>1, <2>2, <2>3 DEF InsideOwns, InsideLock, Locked
    <2>8. QueueAtFirst'
        BY <2>1, <2>2, <2>3 DEF QueueAtFirst
    <2>9. CheckingNext'
        BY <2>1, <2>2, <2>3 DEF CheckingNext
    <2>10. CarryingNext'
        BY <2>1, <2>2, <2>3 DEF CarryingNext
    <2>11. AbandonedNext'
        BY <2>1, <2>2, <2>3 DEF AbandonedNext
    <2> QED
        BY <2>4, <2>5, <2>6, <2>7, <2>8, <2>9, <2>10, <2>11 DEF MigrationsInv
<1>11. CASE AbandonedCommits
    <2>1. /\ lock = Abandoned
          /\ abandoned.file = Len(schema) + 1
          /\ \A a \in Admin : ~InsideLock(a)
          /\ UNCHANGED <<lock, migrator>>
          /\ abandoned' \in [phase : {"settled", "open", "committing"}, file : Nat]
          /\ abandoned'.phase = "settled"
        BY <1>11 DEF AbandonedCommits, InsideOwns, AbandonedNext, MigrationsTypeOK
    <2>2. Apply(Len(schema) + 1)
        BY <1>11, <2>1 DEF AbandonedCommits
    <2>3. /\ schema' \in Seq(Nat)
          /\ Len(schema') = Len(schema) + 1
          /\ SchemaInOrder'
        BY <2>2, ApplyKeepsOrder DEF MigrationsTypeOK
    <2>4. ledger' \in SUBSET Nat
        BY <2>3 DEF SchemaInOrder
    <2>5. MigrationsTypeOK'
        BY <1>a, <2>1, <2>3, <2>4 DEF MigrationsTypeOK
    <2>6. NeverConflicts'
        BY <2>1, <2>3, <2>4 DEF NeverConflicts
    <2>7. InsideOwns'
        BY <2>1, <2>3, <2>4 DEF InsideOwns, InsideLock, Locked
    <2>8. QueueAtFirst'
        BY <2>1, <2>3, <2>4 DEF QueueAtFirst
    <2>9. CheckingNext'
        BY <2>1, <2>3, <2>4 DEF CheckingNext, InsideLock, Locked
    <2>10. CarryingNext'
        BY <2>1, <2>3, <2>4 DEF CarryingNext, InsideLock, Locked
    <2>11. AbandonedNext'
        BY <2>1, <2>3, <2>4 DEF AbandonedNext
    <2> QED
        BY <2>5, <2>3, <2>6, <2>7, <2>8, <2>9, <2>10, <2>11 DEF MigrationsInv
<1>12. CASE AbandonedEnds
    <2>1. /\ lock = Abandoned /\ lock' = Nobody
          /\ UNCHANGED <<schema, ledger, migrator>>
          /\ abandoned' \in [phase : {"settled", "open", "committing"}, file : Nat]
          /\ abandoned'.phase = "settled"
        BY <1>12 DEF AbandonedEnds, Settled
    <2>2. MigrationsTypeOK'
        BY <1>a, <2>1 DEF MigrationsTypeOK
    <2>3. SchemaInOrder'
        BY <2>1 DEF SchemaInOrder
    <2>4. NeverConflicts'
        BY <2>1 DEF NeverConflicts
    <2>5. InsideOwns'
        BY <2>1 DEF InsideOwns, InsideLock, Locked
    <2>6. QueueAtFirst'
        BY <2>1 DEF QueueAtFirst
    <2>7. CheckingNext'
        BY <2>1 DEF CheckingNext
    <2>8. CarryingNext'
        BY <2>1 DEF CarryingNext
    <2>9. AbandonedNext'
        BY <2>1 DEF AbandonedNext
    <2> QED
        BY <2>2, <2>3, <2>4, <2>5, <2>6, <2>7, <2>8, <2>9 DEF MigrationsInv
<1>13. CASE UNCHANGED migrationVars
    <2>1. UNCHANGED <<schema, ledger, lock, migrator, abandoned>>
        BY <1>13 DEF migrationVars
    <2>2. MigrationsTypeOK'
        BY <1>a, <2>1 DEF MigrationsTypeOK
    <2>3. SchemaInOrder'
        BY <2>1 DEF SchemaInOrder
    <2>4. NeverConflicts'
        BY <2>1 DEF NeverConflicts
    <2>5. InsideOwns'
        BY <2>1 DEF InsideOwns, InsideLock, Locked
    <2>6. QueueAtFirst'
        BY <2>1 DEF QueueAtFirst
    <2>7. CheckingNext'
        BY <2>1 DEF CheckingNext
    <2>8. CarryingNext'
        BY <2>1 DEF CarryingNext
    <2>9. AbandonedNext'
        BY <2>1 DEF AbandonedNext
    <2> QED
        BY <2>2, <2>3, <2>4, <2>5, <2>6, <2>7, <2>8, <2>9 DEF MigrationsInv
<1> QED
    BY <1>1, <1>2, <1>3, <1>4, <1>5, <1>6, <1>7, <1>8, <1>9, <1>10, <1>11,
       <1>12, <1>13 DEF MigrationsNext, MigrateStep

\* database.Migrate, run by any number of processes of any releases, keeps
\* the invariant.
THEOREM MigrationsInvariant == MigrationsSpec => []MigrationsInv
    BY MigrationsInitInv, MigrationsStep, PTL DEF MigrationsSpec

-----------------------------------------------------------------------------
(* The processes of ProcessLifecycle *)

\* What a process does to the database while it starts, runs, is killed and
\* is restarted is a step of Migrations or none.
LEMMA LifecycleStep == [Next]_vars => [MigrationsNext]_migrationVars
<1> SUFFICES ASSUME [Next]_vars PROVE [MigrationsNext]_migrationVars
    OBVIOUS
<1>1. ASSUME NEW p \in Process, Start(p) PROVE [MigrationsNext]_migrationVars
    BY <1>1 DEF Start, MigrationsNext
<1>2. ASSUME NEW a \in Admin, Migrating(a) PROVE [MigrationsNext]_migrationVars
    BY <1>2 DEF Migrating, MigrationsNext
<1>3. ASSUME NEW a \in Admin, MigrationFails(a) PROVE [MigrationsNext]_migrationVars
    BY <1>3 DEF MigrationFails, MigrationsNext
<1>4. ASSUME NEW a \in Admin, MigrationTimesOut(a) PROVE [MigrationsNext]_migrationVars
    BY <1>4 DEF MigrationTimesOut, MigrationsNext
<1>5. ASSUME NEW p \in Process, Gone(p) PROVE [MigrationsNext]_migrationVars
    BY <1>5 DEF Gone, MigrationsNext
<1>6. ASSUME NEW p \in Process, Main(p) PROVE [MigrationsNext]_migrationVars
    BY <1>5, <1>6 DEF Main, Listen, ListenFails, SetReady, SelectResult, SelectDone,
       BeginShutdown, Drained, DrainTimesOut, TakeResult, Stopped, ClosePool, Exit
<1>7. ASSUME NEW p \in Process, Crash(p) PROVE [MigrationsNext]_migrationVars
    BY <1>5, <1>7 DEF Crash
<1>8. CASE Database
    BY <1>8 DEF Database, MigrationsNext
<1>9. CASE UNCHANGED vars
    BY <1>9 DEF vars
<1> QED
    BY <1>1, <1>2, <1>3, <1>4, <1>6, <1>7, <1>8, <1>9
       DEF Next, MigrateReturns, LoadInitial, InitialLoadFails, ServeFails,
           AcceptRequest, FinishRequest, Signal, BeginReport, ReportLands,
           ReportFails, LateReportEnds, LastReport

\* The processes implement Migrations: bootstrap.Run calls Migrate at most
\* once in a process, on a live context, and never returns to it.
THEOREM LifecycleImplementsMigrations == Spec => MigrationsSpec
<1>1. Init => MigrationsInit
    BY DEF Init
<1> QED
    BY <1>1, LifecycleStep, PTL DEF Spec, MigrationsSpec

\* No matter how processes of different releases start, time out, are
\* stopped or are killed, every migration takes effect once and in order, and
\* the ledger of schema_migrations says so.
THEOREM SchemaStaysInOrder == Spec => []SchemaInOrder
<1>1. MigrationsInv => SchemaInOrder
    BY DEF MigrationsInv
<1> QED
    BY <1>1, LifecycleImplementsMigrations, MigrationsInvariant, PTL

\* The advisory lock spares every process a conflict with another one.
THEOREM MigrationsNeverConflict == Spec => []NeverConflicts
<1>1. MigrationsInv => NeverConflicts
    BY DEF MigrationsInv
<1> QED
    BY <1>1, LifecycleImplementsMigrations, MigrationsInvariant, PTL

-----------------------------------------------------------------------------
(* Readiness *)

\* The positions of main.
MainPositions ==
    {"absent", "down", "migrate", "load", "listen", "announce", "select",
     "shutdown", "draining", "result", "stopped", "return", "exit"}

SchemaOf(p) == IF p \in Admin THEN Files[p] ELSE Required

(***************************************************************************)
(* What makes ReadyOnSchema inductive: Migrate leaves its loop only when   *)
(* the schema has all its files, the schema never shrinks, and main        *)
(* reaches net.Listen only from a complete Migrate or a successful Load.   *)
(***************************************************************************)
LoopDone ==
    \A a \in Admin :
        migrator[a].pc \in {"unlock", "migrated"} => Files[a] <= Len(schema)

Prepared ==
    \A p \in Process :
        pc[p] \in {"listen", "announce"} => SchemaOf(p) <= Len(schema)

ReadyInv ==
    /\ pc \in [Process -> MainPositions]
    /\ ready \in [Process -> BOOLEAN]
    /\ LoopDone
    /\ Prepared
    /\ \A p \in Process : ready[p] = TRUE => SchemaOf(p) <= Len(schema)

\* Migrations are never undone.
LEMMA SchemaGrows ==
    ASSUME MigrationsInv, [MigrationsNext]_migrationVars
    PROVE  Len(schema) \in Nat /\ Len(schema') \in Nat /\ Len(schema) <= Len(schema')
<1>1. schema \in Seq(Nat)
    BY DEF MigrationsInv, MigrationsTypeOK
<1>2. CASE \E version : schema' = Append(schema, version)
    BY <1>1, <1>2
<1>3. CASE schema' = schema
    BY <1>1, <1>3
<1>4. schema' = schema \/ \E version : schema' = Append(schema, version)
    BY DEF MigrationsNext, MigrateStep, migrationVars, BeginMigrate, LockMigrations,
           CheckApplied, ApplyMigration, RecordMigration, CommitMigration,
           UnlockMigrations, FailMigrate, AbandonMigrate, LeaveMigrate,
           AbandonedCommits, AbandonedEnds, Apply
<1> QED
    BY <1>2, <1>3, <1>4

\* Only the head of the loop, past the last file, leads to the unlock.
LEMMA LoopDoneStep ==
    ASSUME MigrationsInv, LoopDone, [MigrationsNext]_migrationVars
    PROVE  LoopDone'
<1> USE MigrationsAssumption
<1>0. /\ Len(schema) \in Nat /\ Len(schema') \in Nat
      /\ Len(schema) <= Len(schema')
      /\ migrator \in Migrators
      /\ \A a \in Admin : Files[a] \in Nat /\ migrator[a].file \in Nat
    BY SchemaGrows DEF MigrationsInv, MigrationsTypeOK, Migrators, Positions
<1>1. SUFFICES ASSUME NEW b \in Admin, migrator'[b].pc \in {"unlock", "migrated"},
                      migrator[b].pc \notin {"unlock", "migrated"}
               PROVE  Files[b] <= Len(schema')
    BY <1>0 DEF LoopDone
<1>2. migrator[b].pc = "check" /\ migrator[b].file > Files[b]
    BY <1>0, <1>1, SMTT(30)
       DEF MigrationsNext, MigrateStep, migrationVars, BeginMigrate, LockMigrations,
           CheckApplied, ApplyMigration, RecordMigration, CommitMigration,
           UnlockMigrations, FailMigrate, AbandonMigrate, LeaveMigrate,
           AbandonedCommits, AbandonedEnds, Goto, NextFile, Away, Migrators
<1>3. migrator[b].file \in 1 .. Len(schema) + 1
    BY <1>2 DEF MigrationsInv, CheckingNext
<1> QED
    BY <1>0, <1>2, <1>3

\* A step of main moves one process; readiness is set in one place.
LEMMA ReadyStep ==
    ASSUME MigrationsInv, ReadyInv, [Next]_vars
    PROVE  ReadyInv'
<1> USE LifecycleAssumption, MigrationsAssumption
<1>0. /\ Len(schema) \in Nat /\ Len(schema') \in Nat
      /\ Len(schema) <= Len(schema')
      /\ \A p \in Process : SchemaOf(p) \in Nat
    BY LifecycleStep, SchemaGrows DEF SchemaOf
<1>1. LoopDone'
    BY LifecycleStep, LoopDoneStep DEF ReadyInv
<1>2. /\ pc' \in [Process -> MainPositions]
      /\ \A p \in Process :
            pc'[p] \in {"listen", "announce"} =>
                \/ pc[p] \in {"listen", "announce"}
                \/ p \in Admin /\ migrator[p].pc = "migrated"
                \/ p \in Gateway /\ Required <= Len(schema)
    <2> DEFINE Allowed ==
            /\ pc' \in [Process -> MainPositions]
            /\ \A p \in Process :
                  pc'[p] \in {"listen", "announce"} =>
                      \/ pc[p] \in {"listen", "announce"}
                      \/ p \in Admin /\ migrator[p].pc = "migrated"
                      \/ p \in Gateway /\ Required <= Len(schema)
    <2> SUFFICES Allowed
        OBVIOUS
    <2> USE DEF ReadyInv, MainPositions
    <2>1. CASE UNCHANGED pc
        BY <2>1
    <2>2. ASSUME NEW p \in Process, Start(p) PROVE Allowed
        BY <2>2 DEF Start, At
    <2>3. ASSUME NEW p \in Process, Main(p) PROVE Allowed
        <3>1. ASSUME NEW x \in MainPositions \ {"listen", "announce"}, At(p, x)
              PROVE  Allowed
            BY <3>1 DEF At
        <3>2. CASE Listen(p)
            BY <3>2 DEF Listen, At
        <3>3. CASE ListenFails(p) \/ SetReady(p) \/ SelectResult(p) \/ SelectDone(p)
            BY <3>1, <3>3 DEF ListenFails, SetReady, SelectResult, SelectDone
        <3>4. CASE BeginShutdown(p) \/ Drained(p) \/ DrainTimesOut(p) \/ TakeResult(p)
            BY <3>1, <3>4 DEF BeginShutdown, Drained, DrainTimesOut, TakeResult
        <3>5. CASE Stopped(p) \/ ClosePool(p) \/ Exit(p)
            BY <3>1, <3>5 DEF Stopped, ClosePool, Exit, Gone
        <3> QED
            BY <2>3, <3>2, <3>3, <3>4, <3>5 DEF Main
    <2>4. ASSUME NEW a \in Admin, MigrateReturns(a) PROVE Allowed
        BY <2>4 DEF MigrateReturns, At, Process
    <2>5. ASSUME NEW g \in Gateway, LoadInitial(g) PROVE Allowed
        BY <1>0, <2>5 DEF LoadInitial, At, Process
    <2>6. ASSUME NEW g \in Gateway, InitialLoadFails(g) PROVE Allowed
        BY <2>6 DEF InitialLoadFails, At, Process
    <2>7. ASSUME NEW p \in Process, Crash(p) PROVE Allowed
        BY <2>7 DEF Crash, Gone, At
    <2> HIDE DEF Allowed
    <2>8. \/ UNCHANGED pc
          \/ \E p \in Process : Start(p) \/ Main(p) \/ Crash(p)
          \/ \E a \in Admin : MigrateReturns(a)
          \/ \E g \in Gateway : LoadInitial(g) \/ InitialLoadFails(g)
        BY DEF Next, vars, mainVars, Migrating, MigrationFails, MigrationTimesOut,
               ServeFails, AcceptRequest, FinishRequest, Signal, BeginReport,
               ReportLands, ReportFails, LateReportEnds, LastReport, Database
    <2> QED
        BY <2>1, <2>2, <2>3, <2>4, <2>5, <2>6, <2>7, <2>8
<1>3. /\ ready' \in [Process -> BOOLEAN]
      /\ \A p \in Process :
            ready'[p] = TRUE => ready[p] = TRUE \/ pc[p] = "announce"
    BY ZenonT(30) DEF ReadyInv, Next, Main, vars, mainVars, Start, Migrating, MigrationFails,
           MigrationTimesOut, MigrateReturns, LoadInitial, InitialLoadFails, Listen,
           ListenFails, SetReady, ServeFails, SelectResult, SelectDone,
           BeginShutdown, Drained, DrainTimesOut, TakeResult, AcceptRequest,
           FinishRequest, Stopped, ClosePool, Gone, Exit, Crash, Signal,
           BeginReport, ReportLands, ReportFails, LateReportEnds, LastReport, Database, Process
<1>4. Prepared'
    <2>1. SUFFICES ASSUME NEW p \in Process, pc'[p] \in {"listen", "announce"}
                   PROVE  SchemaOf(p) <= Len(schema')
        BY DEF Prepared, SchemaOf
    <2>2. CASE pc[p] \in {"listen", "announce"}
        BY <1>0, <2>2 DEF ReadyInv, Prepared
    <2>3. CASE p \in Admin /\ migrator[p].pc = "migrated"
        BY <1>0, <2>3 DEF ReadyInv, LoopDone, SchemaOf
    <2>4. CASE p \in Gateway /\ Required <= Len(schema)
        BY <1>0, <2>4 DEF SchemaOf
    <2> QED
        BY <1>2, <2>1, <2>2, <2>3, <2>4
<1>5. \A p \in Process : ready'[p] = TRUE => SchemaOf(p) <= Len(schema')
    BY <1>0, <1>3 DEF ReadyInv, Prepared
<1> QED
    BY <1>1, <1>2, <1>3, <1>4, <1>5 DEF ReadyInv, SchemaOf

\* /health/ready answers 200 only on a schema that has every migration of the
\* admin's binary, or those that the gateway's Load relies on.
THEOREM ReadyMeansMigrated == Spec => []ReadyOnSchema
<1>1. Init => ReadyInv
    <2> SUFFICES ASSUME Init PROVE ReadyInv
        OBVIOUS
    <2>1. pc \in [Process -> {"down", "absent"}]
        BY DEF Init
    <2>2. ready \in [Process -> {FALSE}]
        BY DEF Init
    <2>3. LoopDone
        BY DEF Init, MigrationsInit, LoopDone, Away
    <2> QED
        BY <2>1, <2>2, <2>3 DEF ReadyInv, Prepared, MainPositions
<1>2. MigrationsInv /\ ReadyInv /\ [Next]_vars => ReadyInv'
    BY ReadyStep
<1>3. MigrationsInv /\ ReadyInv => ReadyOnSchema
    <2> SUFFICES ASSUME MigrationsInv, ReadyInv, NEW p \in Process, ready[p]
                 PROVE  Len(schema) >= SchemaOf(p)
        BY DEF ReadyOnSchema, SchemaOf
    <2>1. ready[p] = TRUE
        BY DEF ReadyInv
    <2>2. Len(schema) \in Nat /\ SchemaOf(p) \in Nat
        BY MigrationsAssumption, LifecycleAssumption
           DEF MigrationsInv, MigrationsTypeOK, SchemaOf, Process
    <2> QED
        BY <2>1, <2>2 DEF ReadyInv
<1> QED
    BY <1>1, <1>2, <1>3, LifecycleImplementsMigrations, MigrationsInvariant, PTL
       DEF Spec

-----------------------------------------------------------------------------
(* The end of a process *)

\* The positions of main once the server's fate is known.
Finished == {"result", "stopped", "return", "exit", "down"}

(***************************************************************************)
(* What makes CleanExitCutsNothing inductive: the exit code is 0 only once *)
(* Shutdown has drained the server, and by then nothing accepts requests.  *)
(***************************************************************************)
DrainedForGood ==
    \A p \in Process :
        /\ pc[p] = "draining" => server[p] # "up"
        /\ pc[p] \notin Finished => outcome[p].cut = FALSE
        /\ outcome[p].code = "ok" =>
              /\ pc[p] \in Finished
              /\ server[p] # "up"
              /\ inflight[p] = FALSE
              /\ outcome[p].cut = FALSE

(***************************************************************************)
(* What makes StoppedIsNotReady inductive.  Without a fault a server stops *)
(* only because of the signal; if that crossed no report, none can land    *)
(* any more when main's MarkNotReady comes.  A process that never got past *)
(* Load has no row to take back, because its predecessor left none.        *)
(***************************************************************************)
NothingUnderWay(g) ==
    /\ late[g] = 0
    /\ cancelled[g] = TRUE => reporter[g] # "reporting"
    /\ pc[g] \in {"absent", "down", "load"} =>
          row[g] = FALSE /\ reporter[g] = "off"
    /\ pc[g] = "return" => row[g] = FALSE
    /\ pc[g] = "exit" =>
          row[g] = FALSE /\ (cancelled[g] = TRUE \/ reporter[g] = "off")

RowTakenBack ==
    faults = 0 => \A g \in Gateway :
        /\ result[g] # "none" => pc[g] \in {"draining", "result"}
        /\ pc[g] \in {"shutdown", "draining", "result", "stopped", "return"} =>
              cancelled[g] = TRUE
        /\ g \notin crossed => NothingUnderWay(g)

Outcomes == [code : {"none", "ok", "failed"}, cut : BOOLEAN]

LifecycleTypeOK ==
    /\ pc \in [Process -> MainPositions]
    /\ server \in [Process -> {"off", "up", "ended"}]
    /\ result \in [Process -> {"none", "failed", "closed"}]
    /\ cancelled \in [Process -> BOOLEAN]
    /\ ready \in [Process -> BOOLEAN]
    /\ inflight \in [Process -> BOOLEAN]
    /\ outcome \in [Process -> Outcomes]
    /\ reporter \in [Gateway -> {"off", "on", "reporting", "ended"}]
    /\ row \in [Gateway -> BOOLEAN]
    /\ late \in [Gateway -> Nat] /\ crossed \subseteq Gateway
    /\ signals \in 0 .. MaxSignals /\ faults \in 0 .. MaxFaults

LifecycleInv == LifecycleTypeOK /\ DrainedForGood /\ RowTakenBack

LEMMA LifecycleInitInv == Init => LifecycleInv
<1> SUFFICES ASSUME Init PROVE LifecycleInv
    OBVIOUS
<1>1. LifecycleTypeOK
    BY LifecycleAssumption DEF Init, LifecycleTypeOK, MainPositions, Outcomes, Unfinished
<1>2. DrainedForGood
    BY DEF Init, DrainedForGood, Unfinished
<1>3. RowTakenBack
    BY LifecycleAssumption DEF Init, RowTakenBack, NothingUnderWay, Process
<1> QED
    BY <1>1, <1>2, <1>3 DEF LifecycleInv

\* Each step of main, from net.Listen to os.Exit, keeps the invariant.
LEMMA MainKeepsInv ==
    ASSUME LifecycleInv, NEW p \in Process, Main(p)
    PROVE  LifecycleInv'
<1> USE LifecycleAssumption DEF Process, Outcomes, MainPositions
<1>0. LifecycleTypeOK /\ DrainedForGood /\ RowTakenBack
    BY DEF LifecycleInv
<1>1. CASE Listen(p)
    <2>1. LifecycleTypeOK'
        BY <1>0, <1>1 DEF LifecycleTypeOK, Listen, At, reportVars, bounds
    <2>2. DrainedForGood'
        BY <1>0, <1>1 DEF LifecycleTypeOK, DrainedForGood, Finished, Listen, At
    <2>3. RowTakenBack'
        BY <1>0, <1>1 DEF LifecycleTypeOK, RowTakenBack, NothingUnderWay, Listen, At, reportVars, bounds
    <2> QED
        BY <2>1, <2>2, <2>3 DEF LifecycleInv
<1>2. CASE ListenFails(p)
    <2>1. LifecycleTypeOK'
        BY <1>0, <1>2 DEF LifecycleTypeOK, ListenFails, Fault, At, Code, reportVars, bounds
    <2>2. DrainedForGood'
        BY <1>0, <1>2 DEF LifecycleTypeOK, DrainedForGood, Finished, ListenFails, Fault, At, Code
    <2>3. RowTakenBack'
        BY <1>0, <1>2 DEF LifecycleTypeOK, RowTakenBack, NothingUnderWay, ListenFails, Fault, At, Code, reportVars, bounds
    <2> QED
        BY <2>1, <2>2, <2>3 DEF LifecycleInv
<1>3. CASE SetReady(p)
    <2>1. LifecycleTypeOK'
        BY <1>0, <1>3 DEF LifecycleTypeOK, SetReady, At, reportVars, bounds
    <2>2. DrainedForGood'
        BY <1>0, <1>3 DEF LifecycleTypeOK, DrainedForGood, Finished, SetReady, At
    <2>3. RowTakenBack'
        BY <1>0, <1>3 DEF LifecycleTypeOK, RowTakenBack, NothingUnderWay, SetReady, At, reportVars, bounds
    <2> QED
        BY <2>1, <2>2, <2>3 DEF LifecycleInv
<1>4. CASE SelectResult(p)
    <2>1. LifecycleTypeOK'
        BY <1>0, <1>4 DEF LifecycleTypeOK, SelectResult, At, Code, reportVars, bounds
    <2>2. DrainedForGood'
        BY <1>0, <1>4 DEF LifecycleTypeOK, DrainedForGood, Finished, SelectResult, At, Code
    <2>3. RowTakenBack'
        BY <1>0, <1>4 DEF LifecycleTypeOK, RowTakenBack, NothingUnderWay, SelectResult, At, Code, reportVars, bounds
    <2> QED
        BY <2>1, <2>2, <2>3 DEF LifecycleInv
<1>5. CASE SelectDone(p)
    <2>1. LifecycleTypeOK'
        BY <1>0, <1>5 DEF LifecycleTypeOK, SelectDone, At, reportVars, bounds
    <2>2. DrainedForGood'
        BY <1>0, <1>5 DEF LifecycleTypeOK, DrainedForGood, Finished, SelectDone, At
    <2>3. RowTakenBack'
        BY <1>0, <1>5 DEF LifecycleTypeOK, RowTakenBack, NothingUnderWay, SelectDone, At, reportVars, bounds
    <2> QED
        BY <2>1, <2>2, <2>3 DEF LifecycleInv
<1>6. CASE BeginShutdown(p)
    <2>1. LifecycleTypeOK'
        BY <1>0, <1>6 DEF LifecycleTypeOK, BeginShutdown, At, reportVars, bounds
    <2>2. DrainedForGood'
        BY <1>0, <1>6 DEF LifecycleTypeOK, DrainedForGood, Finished, BeginShutdown, At
    <2>3. RowTakenBack'
        BY <1>0, <1>6 DEF LifecycleTypeOK, RowTakenBack, NothingUnderWay, BeginShutdown, At, reportVars, bounds
    <2> QED
        BY <2>1, <2>2, <2>3 DEF LifecycleInv
<1>7. CASE Drained(p)
    <2>1. LifecycleTypeOK'
        BY <1>0, <1>7 DEF LifecycleTypeOK, Drained, At, Code, reportVars, bounds
    <2>2. DrainedForGood'
        BY <1>0, <1>7 DEF LifecycleTypeOK, DrainedForGood, Finished, Drained, At, Code
    <2>3. RowTakenBack'
        BY <1>0, <1>7 DEF LifecycleTypeOK, RowTakenBack, NothingUnderWay, Drained, At, Code, reportVars, bounds
    <2> QED
        BY <2>1, <2>2, <2>3 DEF LifecycleInv
<1>8. CASE DrainTimesOut(p)
    <2>a. outcome' \in [Process -> Outcomes]
        <3>1. outcome \in [Process -> Outcomes]
            BY <1>0 DEF LifecycleTypeOK
        <3> DEFINE halfway == [outcome EXCEPT ![p].code = "failed"]
        <3>2. halfway \in [Process -> Outcomes]
            BY <3>1
        <3>3. outcome' = [halfway EXCEPT ![p].cut = TRUE]
            BY <1>8 DEF DrainTimesOut
        <3> HIDE DEF halfway
        <3> QED
            BY <3>2, <3>3
    <2>1. LifecycleTypeOK'
        BY <1>0, <1>8, <2>a DEF LifecycleTypeOK, DrainTimesOut, At, reportVars, bounds
    <2>2. DrainedForGood'
        BY <1>0, <1>8 DEF LifecycleTypeOK, DrainedForGood, Finished, DrainTimesOut, At
    <2>3. RowTakenBack'
        BY <1>0, <1>8 DEF LifecycleTypeOK, RowTakenBack, NothingUnderWay, DrainTimesOut, At, reportVars, bounds
    <2> QED
        BY <2>1, <2>2, <2>3 DEF LifecycleInv
<1>9. CASE TakeResult(p)
    <2>1. LifecycleTypeOK'
        BY <1>0, <1>9 DEF LifecycleTypeOK, TakeResult, At, Code, reportVars, bounds
    <2>2. DrainedForGood'
        BY <1>0, <1>9 DEF LifecycleTypeOK, DrainedForGood, Finished, TakeResult, At, Code
    <2>3. RowTakenBack'
        BY <1>0, <1>9 DEF LifecycleTypeOK, RowTakenBack, NothingUnderWay, TakeResult, At, Code, reportVars, bounds
    <2> QED
        BY <2>1, <2>2, <2>3 DEF LifecycleInv
<1>10. CASE Stopped(p)
    <2>a. row' \in [Gateway -> BOOLEAN]
        BY <1>0, <1>10 DEF LifecycleTypeOK, Stopped
    <2>b. faults' \in 0 .. MaxFaults
        BY <1>0, <1>10 DEF LifecycleTypeOK, Stopped, Fault
    <2>1. LifecycleTypeOK'
        BY <1>0, <1>10, <2>a, <2>b DEF LifecycleTypeOK, Stopped, At
    <2>2. DrainedForGood'
        BY <1>0, <1>10 DEF LifecycleTypeOK, DrainedForGood, Finished, Stopped, Fault, At
    <2>3. RowTakenBack'
        BY <1>0, <1>10 DEF LifecycleTypeOK, RowTakenBack, NothingUnderWay, Stopped, Fault, At, reportVars, bounds
    <2> QED
        BY <2>1, <2>2, <2>3 DEF LifecycleInv
<1>11. CASE ClosePool(p)
    <2>1. LifecycleTypeOK'
        BY <1>0, <1>11 DEF LifecycleTypeOK, ClosePool, At, reportVars, bounds
    <2>2. DrainedForGood'
        BY <1>0, <1>11 DEF LifecycleTypeOK, DrainedForGood, Finished, ClosePool, At
    <2>3. RowTakenBack'
        BY <1>0, <1>11 DEF LifecycleTypeOK, RowTakenBack, NothingUnderWay, ClosePool, At, reportVars, bounds
    <2> QED
        BY <2>1, <2>2, <2>3 DEF LifecycleInv
<1>12. CASE Exit(p)
    <2>a. outcome' \in [Process -> Outcomes]
        BY <1>0, <1>12 DEF LifecycleTypeOK, Exit
    <2>b. reporter' \in [Gateway -> {"off", "on", "reporting", "ended"}]
        BY <1>0, <1>12 DEF LifecycleTypeOK, Exit, Gone
    <2>c. /\ cancelled' \in [Process -> BOOLEAN]
          /\ inflight' \in [Process -> BOOLEAN]
          /\ ready' \in [Process -> BOOLEAN]
        BY <1>0, <1>12 DEF LifecycleTypeOK, Exit, Gone
    <2>1. LifecycleTypeOK'
        BY <1>0, <1>12, <2>a, <2>b, <2>c DEF LifecycleTypeOK, Exit, Gone, At, bounds
    <2>2. DrainedForGood'
        BY <1>0, <1>12 DEF LifecycleTypeOK, DrainedForGood, Finished, Exit, Gone, At
    <2>3. RowTakenBack'
        BY <1>0, <1>12 DEF LifecycleTypeOK, RowTakenBack, NothingUnderWay, Exit, Gone, At, reportVars, bounds
    <2> QED
        BY <2>1, <2>2, <2>3 DEF LifecycleInv
<1> QED
    BY <1>1, <1>2, <1>3, <1>4, <1>5, <1>6, <1>7, <1>8, <1>9, <1>10, <1>11, <1>12
       DEF Main
\* Every other step keeps the invariant as well: starts, migrations and first
\* loads, requests, crashes, signals, and the reports of Runtime.Run.
LEMMA LifecycleKeepsInv ==
    ASSUME LifecycleInv, [Next]_vars
    PROVE  LifecycleInv'
<1> USE LifecycleAssumption DEF Process, Outcomes, MainPositions
<1>0. LifecycleTypeOK /\ DrainedForGood /\ RowTakenBack
    BY DEF LifecycleInv
<1>1. ASSUME NEW p \in Process, Start(p) PROVE LifecycleInv'
    <2>1. LifecycleTypeOK'
        BY <1>0, <1>1 DEF LifecycleTypeOK, Start, At, Unfinished, reportVars, bounds
    <2>2. DrainedForGood'
        BY <1>0, <1>1 DEF LifecycleTypeOK, DrainedForGood, Finished, Start, At, Unfinished
    <2>3. RowTakenBack'
        BY <1>0, <1>1 DEF LifecycleTypeOK, RowTakenBack, NothingUnderWay, Start, At, reportVars, bounds
    <2> QED
        BY <2>1, <2>2, <2>3 DEF LifecycleInv
<1>2. ASSUME NEW a \in Admin, Migrating(a) PROVE LifecycleInv'
    <2>1. LifecycleTypeOK'
        BY <1>0, <1>2 DEF LifecycleTypeOK, Migrating, mainVars, reportVars, bounds
    <2>2. DrainedForGood'
        BY <1>0, <1>2 DEF LifecycleTypeOK, DrainedForGood, Finished, Migrating, mainVars, reportVars, bounds
    <2>3. RowTakenBack'
        BY <1>0, <1>2 DEF LifecycleTypeOK, RowTakenBack, NothingUnderWay, Migrating, mainVars, reportVars, bounds
    <2> QED
        BY <2>1, <2>2, <2>3 DEF LifecycleInv
<1>3. ASSUME NEW a \in Admin, MigrationFails(a) PROVE LifecycleInv'
    <2>1. LifecycleTypeOK'
        BY <1>0, <1>3 DEF LifecycleTypeOK, MigrationFails, Fault, mainVars, reportVars, bounds
    <2>2. DrainedForGood'
        BY <1>0, <1>3 DEF LifecycleTypeOK, DrainedForGood, Finished, MigrationFails, Fault, mainVars, reportVars
    <2>3. RowTakenBack'
        BY <1>0, <1>3 DEF LifecycleTypeOK, RowTakenBack, NothingUnderWay, MigrationFails, Fault, mainVars, reportVars, bounds
    <2> QED
        BY <2>1, <2>2, <2>3 DEF LifecycleInv
<1>4. ASSUME NEW a \in Admin, MigrationTimesOut(a) PROVE LifecycleInv'
    <2>1. LifecycleTypeOK'
        BY <1>0, <1>4 DEF LifecycleTypeOK, MigrationTimesOut, Fault, mainVars, reportVars, bounds
    <2>2. DrainedForGood'
        BY <1>0, <1>4 DEF LifecycleTypeOK, DrainedForGood, Finished, MigrationTimesOut, Fault, mainVars, reportVars
    <2>3. RowTakenBack'
        BY <1>0, <1>4 DEF LifecycleTypeOK, RowTakenBack, NothingUnderWay, MigrationTimesOut, Fault, mainVars, reportVars, bounds
    <2> QED
        BY <2>1, <2>2, <2>3 DEF LifecycleInv
<1>5. ASSUME NEW a \in Admin, MigrateReturns(a) PROVE LifecycleInv'
    <2>a. outcome' \in [Process -> Outcomes]
        BY <1>0, <1>5, SMTT(30) DEF LifecycleTypeOK, MigrateReturns, Code
    <2>b. pc' \in [Process -> MainPositions]
        BY <1>0, <1>5 DEF LifecycleTypeOK, MigrateReturns, At
    <2>1. LifecycleTypeOK'
        BY <1>0, <1>5, <2>a, <2>b DEF LifecycleTypeOK, MigrateReturns, At, Code, reportVars, bounds
    <2>2. DrainedForGood'
        <3>1. /\ UNCHANGED <<server, inflight>> /\ pc[a] = "migrate"
              /\ \A q \in Process \ {a} : pc'[q] = pc[q] /\ outcome'[q] = outcome[q]
              /\ pc'[a] \in {"listen", "exit"}
              /\ outcome'[a].cut = outcome[a].cut
              /\ outcome'[a].code \in {outcome[a].code, "failed"}
            BY <1>0, <1>5, SMTT(30) DEF LifecycleTypeOK, MigrateReturns, At, Code
        <3>2. ASSUME NEW q \in Process
              PROVE  /\ pc'[q] = "draining" => server'[q] # "up"
                     /\ pc'[q] \notin Finished => outcome'[q].cut = FALSE
                     /\ outcome'[q].code = "ok" =>
                           /\ pc'[q] \in Finished /\ server'[q] # "up"
                           /\ inflight'[q] = FALSE /\ outcome'[q].cut = FALSE
            <4>1. CASE q = a
                BY <1>0, <3>1, <4>1 DEF DrainedForGood, Finished
            <4>2. CASE q # a
                BY <1>0, <3>1, <4>2 DEF DrainedForGood, Finished
            <4> QED
                BY <4>1, <4>2
        <3> QED
            BY <3>2 DEF DrainedForGood, Finished
    <2>3. RowTakenBack'
        BY <1>0, <1>5 DEF LifecycleTypeOK, RowTakenBack, NothingUnderWay, MigrateReturns, At, Code, reportVars, bounds
    <2> QED
        BY <2>1, <2>2, <2>3 DEF LifecycleInv
<1>6. ASSUME NEW g \in Gateway, LoadInitial(g) PROVE LifecycleInv'
    <2>1. LifecycleTypeOK'
        BY <1>0, <1>6 DEF LifecycleTypeOK, LoadInitial, At, reportVars, bounds
    <2>2. DrainedForGood'
        BY <1>0, <1>6 DEF LifecycleTypeOK, DrainedForGood, Finished, LoadInitial, At
    <2>3. RowTakenBack'
        BY <1>0, <1>6 DEF LifecycleTypeOK, RowTakenBack, NothingUnderWay, LoadInitial, At, reportVars, bounds
    <2> QED
        BY <2>1, <2>2, <2>3 DEF LifecycleInv
<1>7. ASSUME NEW g \in Gateway, InitialLoadFails(g) PROVE LifecycleInv'
    <2>a. outcome' \in [Process -> Outcomes]
        <3>1. outcome \in [Process -> Outcomes] /\ g \in Process
              /\ outcome' = [outcome EXCEPT ![g].code = "failed"]
            BY <1>0, <1>7 DEF LifecycleTypeOK, InitialLoadFails, Code
        <3> QED
            BY <3>1
    <2>b. faults' \in 0 .. MaxFaults
        BY <1>0, <1>7 DEF LifecycleTypeOK, InitialLoadFails, Fault
    <2>1. LifecycleTypeOK'
        BY <1>0, <1>7, <2>a, <2>b DEF LifecycleTypeOK, InitialLoadFails, At, reportVars
    <2>2. DrainedForGood'
        BY <1>0, <1>7 DEF LifecycleTypeOK, DrainedForGood, Finished, InitialLoadFails, Fault, At, Code
    <2>3. RowTakenBack'
        BY <1>0, <1>7 DEF LifecycleTypeOK, RowTakenBack, NothingUnderWay, InitialLoadFails, Fault, At, Code, reportVars, bounds
    <2> QED
        BY <2>1, <2>2, <2>3 DEF LifecycleInv
<1>8. ASSUME NEW p \in Process, Main(p) PROVE LifecycleInv'
    BY <1>8, MainKeepsInv
<1>9. ASSUME NEW p \in Process, ServeFails(p) PROVE LifecycleInv'
    <2>1. LifecycleTypeOK'
        BY <1>0, <1>9 DEF LifecycleTypeOK, ServeFails, Fault, reportVars, bounds
    <2>2. DrainedForGood'
        BY <1>0, <1>9 DEF LifecycleTypeOK, DrainedForGood, Finished, ServeFails, Fault
    <2>3. RowTakenBack'
        BY <1>0, <1>9 DEF LifecycleTypeOK, RowTakenBack, NothingUnderWay, ServeFails, Fault, reportVars, bounds
    <2> QED
        BY <2>1, <2>2, <2>3 DEF LifecycleInv
<1>10. ASSUME NEW p \in Process, AcceptRequest(p) PROVE LifecycleInv'
    <2>1. LifecycleTypeOK'
        BY <1>0, <1>10 DEF LifecycleTypeOK, AcceptRequest, reportVars, bounds
    <2>2. DrainedForGood'
        BY <1>0, <1>10 DEF LifecycleTypeOK, DrainedForGood, Finished, AcceptRequest
    <2>3. RowTakenBack'
        BY <1>0, <1>10 DEF LifecycleTypeOK, RowTakenBack, NothingUnderWay, AcceptRequest, reportVars, bounds
    <2> QED
        BY <2>1, <2>2, <2>3 DEF LifecycleInv
<1>11. ASSUME NEW p \in Process, FinishRequest(p) PROVE LifecycleInv'
    <2>1. LifecycleTypeOK'
        BY <1>0, <1>11 DEF LifecycleTypeOK, FinishRequest, reportVars, bounds
    <2>2. DrainedForGood'
        BY <1>0, <1>11 DEF LifecycleTypeOK, DrainedForGood, Finished, FinishRequest
    <2>3. RowTakenBack'
        BY <1>0, <1>11 DEF LifecycleTypeOK, RowTakenBack, NothingUnderWay, FinishRequest, reportVars, bounds
    <2> QED
        BY <2>1, <2>2, <2>3 DEF LifecycleInv
<1>12. ASSUME NEW p \in Process, Crash(p) PROVE LifecycleInv'
    <2>a. late' \in [Gateway -> Nat]
        BY <1>0, <1>12 DEF LifecycleTypeOK, Crash, AbandonReport
    <2>b. outcome' \in [Process -> Outcomes]
        BY <1>0, <1>12 DEF LifecycleTypeOK, Crash, Unfinished
    <2>c. faults' \in 0 .. MaxFaults
        BY <1>0, <1>12 DEF LifecycleTypeOK, Crash, Fault
    <2>d. /\ cancelled' \in [Process -> BOOLEAN]
          /\ inflight' \in [Process -> BOOLEAN]
          /\ ready' \in [Process -> BOOLEAN]
          /\ reporter' \in [Gateway -> {"off", "on", "reporting", "ended"}]
        BY <1>0, <1>12 DEF LifecycleTypeOK, Crash, Gone
    <2>1. LifecycleTypeOK'
        BY <1>0, <1>12, <2>a, <2>b, <2>c, <2>d DEF LifecycleTypeOK, Crash, Gone, At
    <2>2. DrainedForGood'
        BY <1>0, <1>12 DEF LifecycleTypeOK, DrainedForGood, Finished, Crash, Fault, Gone, At, Unfinished
    <2>3. RowTakenBack'
        BY <1>0, <1>12 DEF LifecycleTypeOK, RowTakenBack, NothingUnderWay, Crash, Fault, Gone, At, Unfinished, reportVars, bounds
    <2> QED
        BY <2>1, <2>2, <2>3 DEF LifecycleInv
<1>13. ASSUME NEW p \in Process, Signal(p) PROVE LifecycleInv'
    <2>1. LifecycleTypeOK'
        BY <1>0, <1>13 DEF LifecycleTypeOK, Signal, Alive, reportVars, bounds
    <2>2. DrainedForGood'
        BY <1>0, <1>13 DEF LifecycleTypeOK, DrainedForGood, Finished, Signal, Alive
    <2>3. RowTakenBack'
        <3>1. /\ UNCHANGED <<pc, result, reporter, row, late, faults>>
              /\ cancelled' = [cancelled EXCEPT ![p] = TRUE]
              /\ \A g \in Gateway : g \in crossed => g \in crossed'
              /\ p \in Gateway /\ ReportUnderWay(p) => p \in crossed'
            BY <1>13 DEF Signal
        <3>2. \A q \in Process : cancelled[q] = TRUE => cancelled'[q] = TRUE
            BY <1>0, <3>1 DEF LifecycleTypeOK
        <3>3. ASSUME NEW g \in Gateway, NothingUnderWay(g), g \notin crossed'
              PROVE  NothingUnderWay(g)'
            <4>1. CASE g = p
                BY <1>0, <3>1, <3>2, <3>3, <4>1
                   DEF LifecycleTypeOK, NothingUnderWay, ReportUnderWay
            <4>2. CASE g # p
                BY <1>0, <3>1, <3>3, <4>2 DEF LifecycleTypeOK, NothingUnderWay
            <4> QED
                BY <4>1, <4>2
        <3> QED
            BY <1>0, <3>1, <3>2, <3>3 DEF RowTakenBack
    <2> QED
        BY <2>1, <2>2, <2>3 DEF LifecycleInv
<1>14. ASSUME NEW g \in Gateway, BeginReport(g) PROVE LifecycleInv'
    <2>1. LifecycleTypeOK'
        BY <1>0, <1>14 DEF LifecycleTypeOK, BeginReport, mainVars, reportVars, bounds
    <2>2. DrainedForGood'
        BY <1>0, <1>14 DEF LifecycleTypeOK, DrainedForGood, Finished, BeginReport, mainVars
    <2>3. RowTakenBack'
        BY <1>0, <1>14 DEF LifecycleTypeOK, RowTakenBack, NothingUnderWay, BeginReport, mainVars, reportVars, bounds
    <2> QED
        BY <2>1, <2>2, <2>3 DEF LifecycleInv
<1>15. ASSUME NEW g \in Gateway, ReportLands(g) PROVE LifecycleInv'
    <2>1. LifecycleTypeOK'
        BY <1>0, <1>15 DEF LifecycleTypeOK, ReportLands, Fault, mainVars, reportVars, bounds
    <2>2. DrainedForGood'
        BY <1>0, <1>15 DEF LifecycleTypeOK, DrainedForGood, Finished, ReportLands, Fault, mainVars
    <2>3. RowTakenBack'
        BY <1>0, <1>15 DEF LifecycleTypeOK, RowTakenBack, NothingUnderWay, ReportLands, Fault, mainVars, reportVars, bounds
    <2> QED
        BY <2>1, <2>2, <2>3 DEF LifecycleInv
<1>16. ASSUME NEW g \in Gateway, ReportFails(g) PROVE LifecycleInv'
    <2>a. late' \in [Gateway -> Nat]
        BY <1>0, <1>16 DEF LifecycleTypeOK, ReportFails, AbandonReport
    <2>b. faults' \in 0 .. MaxFaults
        BY <1>0, <1>16 DEF LifecycleTypeOK, ReportFails, Fault
    <2>1. LifecycleTypeOK'
        BY <1>0, <1>16, <2>a, <2>b DEF LifecycleTypeOK, ReportFails, mainVars
    <2>2. DrainedForGood'
        BY <1>0, <1>16 DEF LifecycleTypeOK, DrainedForGood, Finished, ReportFails, Fault, mainVars
    <2>3. RowTakenBack'
        <3>1. CASE cancelled[g]
            <4>1. faults' = faults /\ (faults = 0 => g \in crossed)
                BY <1>0, <1>16, <3>1 DEF LifecycleTypeOK, RowTakenBack, NothingUnderWay, ReportFails
            <4>2. \A h \in Gateway \ {g} : late'[h] = late[h]
                BY <1>0, <1>16 DEF LifecycleTypeOK, ReportFails, AbandonReport
            <4> QED
                BY <1>0, <1>16, <4>1, <4>2
                   DEF LifecycleTypeOK, RowTakenBack, NothingUnderWay, ReportFails, mainVars
        <3>2. CASE ~cancelled[g]
            BY <1>0, <1>16, <3>2 DEF LifecycleTypeOK, RowTakenBack, ReportFails, Fault
        <3> QED
            BY <3>1, <3>2
    <2> QED
        BY <2>1, <2>2, <2>3 DEF LifecycleInv
<1>20. ASSUME NEW g \in Gateway, LateReportEnds(g) PROVE LifecycleInv'
    <2>a. late' \in [Gateway -> Nat]
        BY <1>0, <1>20 DEF LifecycleTypeOK, LateReportEnds
    <2>b. row' \in [Gateway -> BOOLEAN]
        <3>1. row \in [Gateway -> BOOLEAN] /\ row' \in {row, [row EXCEPT ![g] = TRUE]}
            BY <1>0, <1>20 DEF LifecycleTypeOK, LateReportEnds
        <3> QED
            BY <3>1
    <2>1. LifecycleTypeOK'
        BY <1>0, <1>20, <2>a, <2>b DEF LifecycleTypeOK, LateReportEnds, mainVars, bounds
    <2>2. DrainedForGood'
        BY <1>0, <1>20 DEF LifecycleTypeOK, DrainedForGood, Finished, LateReportEnds, mainVars
    <2>3. RowTakenBack'
        <3>1. faults = 0 => g \in crossed
            BY <1>0, <1>20 DEF LifecycleTypeOK, RowTakenBack, NothingUnderWay, LateReportEnds
        <3>2. \A h \in Gateway \ {g} : late'[h] = late[h] /\ row'[h] = row[h]
            BY <1>0, <1>20 DEF LifecycleTypeOK, LateReportEnds
        <3> QED
            BY <1>0, <1>20, <3>1, <3>2
               DEF LifecycleTypeOK, RowTakenBack, NothingUnderWay, LateReportEnds, mainVars, bounds
    <2> QED
        BY <2>1, <2>2, <2>3 DEF LifecycleInv
<1>17. ASSUME NEW g \in Gateway, LastReport(g) PROVE LifecycleInv'
    <2>1. LifecycleTypeOK'
        BY <1>0, <1>17 DEF LifecycleTypeOK, LastReport, mainVars, reportVars, bounds
    <2>2. DrainedForGood'
        BY <1>0, <1>17 DEF LifecycleTypeOK, DrainedForGood, Finished, LastReport, mainVars
    <2>3. RowTakenBack'
        BY <1>0, <1>17 DEF LifecycleTypeOK, RowTakenBack, NothingUnderWay, LastReport, mainVars, reportVars, bounds
    <2> QED
        BY <2>1, <2>2, <2>3 DEF LifecycleInv
<1>18. CASE Database
    <2>1. UNCHANGED <<mainVars, reportVars, bounds>>
        BY <1>18 DEF Database, vars
    <2>2. LifecycleTypeOK'
        BY <1>0, <2>1 DEF LifecycleTypeOK, mainVars, reportVars, bounds
    <2>3. DrainedForGood'
        BY <1>0, <2>1 DEF DrainedForGood, Finished, mainVars
    <2>4. RowTakenBack'
        BY <1>0, <2>1 DEF RowTakenBack, NothingUnderWay, mainVars, reportVars, bounds
    <2> QED
        BY <2>2, <2>3, <2>4 DEF LifecycleInv
<1>19. CASE UNCHANGED vars
    <2>1. UNCHANGED <<mainVars, reportVars, bounds>>
        BY <1>19 DEF Database, vars
    <2>2. LifecycleTypeOK'
        BY <1>0, <2>1 DEF LifecycleTypeOK, mainVars, reportVars, bounds
    <2>3. DrainedForGood'
        BY <1>0, <2>1 DEF DrainedForGood, Finished, mainVars
    <2>4. RowTakenBack'
        BY <1>0, <2>1 DEF RowTakenBack, NothingUnderWay, mainVars, reportVars, bounds
    <2> QED
        BY <2>2, <2>3, <2>4 DEF LifecycleInv
<1> QED
    BY <1>1, <1>2, <1>3, <1>4, <1>5, <1>6, <1>7, <1>8, <1>9, <1>10,
       <1>11, <1>12, <1>13, <1>14, <1>15, <1>16, <1>17, <1>18, <1>19, <1>20
       DEF Next

LEMMA LifecycleInvariant == Spec => []LifecycleInv
BY LifecycleInitInv, LifecycleKeepsInv, PTL DEF Spec

\* Whatever is started, signalled, drained, reported or killed, in any order,
\* the processes, their exit codes and their rows keep their types.
THEOREM LifecycleTypeCorrect == Spec => []TypeOK
<1>1. MigrationsInv /\ LifecycleInv => TypeOK
    BY DEF MigrationsInv, LifecycleInv, LifecycleTypeOK, TypeOK, MainPositions, Outcomes
<1> QED
    BY <1>1, LifecycleInvariant, LifecycleImplementsMigrations, MigrationsInvariant, PTL

\* server.Serve returns nil, and the process ends with code 0, only if every
\* request that was accepted had been answered.
THEOREM CleanExitsCutNothing == Spec => []CleanExitCutsNothing
<1>1. LifecycleInv => CleanExitCutsNothing
    BY DEF LifecycleInv, DrainedForGood, CleanExitCutsNothing
<1> QED
    BY <1>1, LifecycleInvariant, PTL

\* Only a fault, or a report that the signal met on its way, has a later word
\* than the MarkNotReady that follows the stop of the server.
THEOREM StoppedGatewaysNotReady == Spec => []StoppedIsNotReady
<1>1. LifecycleInv => StoppedIsNotReady
    BY DEF LifecycleInv, RowTakenBack, NothingUnderWay, StoppedIsNotReady
<1> QED
    BY <1>1, LifecycleInvariant, PTL
=============================================================================
