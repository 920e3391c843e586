----------------------------- MODULE Migrations -----------------------------
(***************************************************************************)
(* database.Migrate: every admin process brings the schema up to the       *)
(* migrations embedded in its binary before it serves.  Admin processes    *)
(* may start together, may be built from different releases (the binaries  *)
(* of a rolling upgrade embed different numbers of files), and may fail or *)
(* be killed anywhere.                                                     *)
(*                                                                         *)
(* A session advisory lock keeps them apart.  Each migration runs in one   *)
(* transaction with the row that records it in schema_migrations.  When a  *)
(* process gives up in the middle (its 30 s deadline, a signal, or its     *)
(* death), PostgreSQL keeps the session until it notices, and with it the  *)
(* lock and the open transaction; a COMMIT already sent may still be       *)
(* carried out.                                                            *)
(***************************************************************************)
EXTENDS Integers, Sequences

CONSTANTS
    Admin,          \* admin processes
    Files           \* per process, the number of migrations it embeds

ASSUME MigrationsAssumption == Files \in [Admin -> Nat]

VARIABLES
    schema,         \* versions whose statements are committed, in that order
    ledger,         \* versions recorded in schema_migrations
    lock,           \* owner of advisory lock (261, 1)
    migrator,       \* per process: position in Migrate and in the sorted files
    abandoned       \* what an abandoned session that holds the lock was doing

migrationVars == <<schema, ledger, lock, migrator, abandoned>>

Nobody == "nobody"
Abandoned == "abandoned"
ASSUME OwnersDiffer == Nobody \notin Admin /\ Abandoned \notin Admin

Away == [pc |-> "away", file |-> 0]
Settled == [phase |-> "settled", file |-> 0]

\* The positions at which the session holds the lock.
Locked == {"check", "apply", "record", "commit", "unlock"}

MigrationsInit ==
    /\ schema = <<>>
    /\ ledger = {}
    /\ lock = Nobody
    /\ migrator = [a \in Admin |-> Away]
    /\ abandoned = Settled

-----------------------------------------------------------------------------
(* The steps of Migrate *)

Goto(a, pc) == migrator' = [migrator EXCEPT ![a].pc = pc]

\* The position after one file is dealt with.
NextFile(a) ==
    migrator' = [migrator EXCEPT ![a] = [pc |-> "check", file |-> @.file + 1]]

\* Acquire a connection and queue for the lock.
BeginMigrate(a) ==
    /\ migrator[a].pc = "away"
    /\ migrator' = [migrator EXCEPT ![a] = [pc |-> "lock", file |-> 1]]
    /\ UNCHANGED <<schema, ledger, lock, abandoned>>

\* Mutant of LockMigrations: the advisory lock is not taken.
SkipLock(a) ==
    /\ migrator[a].pc = "lock"
    /\ Goto(a, "check")
    /\ UNCHANGED <<schema, ledger, lock, abandoned>>

\* pg_advisory_lock returns, and the ledger table exists from here on.
LockMigrations(a) ==
    /\ migrator[a].pc = "lock"
    /\ lock = Nobody
    /\ lock' = a
    /\ Goto(a, "check")
    /\ UNCHANGED <<schema, ledger, abandoned>>

\* Mutant of CheckApplied: returns at the first migration already applied.
StopAtApplied(a) ==
    /\ migrator[a].pc = "check"
    /\ Goto(a, IF migrator[a].file > Files[a] \/ migrator[a].file \in ledger
               THEN "unlock" ELSE "apply")
    /\ UNCHANGED <<schema, ledger, lock, abandoned>>

\* Mutant of CheckApplied: the loop runs one file past the last.
CheckPastTheEnd(a) ==
    /\ migrator[a].pc = "check"
    /\ CASE migrator[a].file > Files[a] + 1 -> Goto(a, "unlock")
         [] /\ migrator[a].file <= Files[a] + 1
            /\ migrator[a].file \in ledger   -> NextFile(a)
         [] OTHER                            -> Goto(a, "apply")
    /\ UNCHANGED <<schema, ledger, lock, abandoned>>

\* The head of the loop: the next file, skipped when the ledger has it.
CheckApplied(a) ==
    /\ migrator[a].pc = "check"
    /\ CASE migrator[a].file > Files[a]    -> Goto(a, "unlock")
         [] /\ migrator[a].file <= Files[a]
            /\ migrator[a].file \in ledger -> NextFile(a)
         [] OTHER                          -> Goto(a, "apply")
    /\ UNCHANGED <<schema, ledger, lock, abandoned>>

\* BeginTx and the file's statements, not visible until the commit.
ApplyMigration(a) ==
    /\ migrator[a].pc = "apply"
    /\ Goto(a, "record")
    /\ UNCHANGED <<schema, ledger, lock, abandoned>>

\* Mutant of RecordMigration: the row is written outside the transaction.
RecordAtOnce(a) ==
    /\ migrator[a].pc = "record"
    /\ ledger' = ledger \cup {migrator[a].file}
    /\ Goto(a, "commit")
    /\ UNCHANGED <<schema, lock, abandoned>>

\* INSERT INTO schema_migrations: the version is its primary key.
RecordMigration(a) ==
    /\ migrator[a].pc = "record"
    /\ Goto(a, IF migrator[a].file \in ledger THEN "conflict" ELSE "commit")
    /\ UNCHANGED <<schema, ledger, lock, abandoned>>

\* The statements and their ledger row become visible together.
Apply(version) ==
    /\ schema' = Append(schema, version)
    /\ ledger' = ledger \cup {version}

CommitMigration(a) ==
    /\ migrator[a].pc = "commit"
    /\ Apply(migrator[a].file)
    /\ NextFile(a)
    /\ UNCHANGED <<lock, abandoned>>

\* Mutant of UnlockMigrations: the connection goes back to the pool locked.
KeepLock(a) ==
    /\ migrator[a].pc = "unlock"
    /\ Goto(a, "migrated")
    /\ UNCHANGED <<schema, ledger, lock, abandoned>>

\* The deferred pg_advisory_unlock after the last file.
UnlockMigrations(a) ==
    /\ migrator[a].pc = "unlock"
    /\ lock' = Nobody
    /\ Goto(a, "migrated")
    /\ UNCHANGED <<schema, ledger, abandoned>>

\* A statement fails with the session intact: rollback and deferred unlock.
FailMigrate(a) ==
    /\ migrator[a].pc \in (Locked \ {"unlock"}) \cup {"conflict"}
    /\ lock' = IF lock = a THEN Nobody ELSE lock
    /\ Goto(a, "failed")
    /\ UNCHANGED <<schema, ledger, abandoned>>

(***************************************************************************)
(* The process gives up its session: pgx closes a connection whose context *)
(* ends during a statement, and a dead process closes all of its own.  A   *)
(* session still queuing for the lock leaves nothing behind.               *)
(***************************************************************************)
AbandonSession(a) ==
    IF lock = a
    THEN /\ lock' = Abandoned
         /\ abandoned' = [phase |-> IF migrator[a].pc = "commit" THEN "committing" ELSE "open",
                          file |-> migrator[a].file]
    ELSE UNCHANGED <<lock, abandoned>>

AbandonMigrate(a) ==
    /\ migrator[a].pc \in Locked \cup {"lock"}
    /\ AbandonSession(a)
    /\ Goto(a, "failed")
    /\ UNCHANGED <<schema, ledger>>

\* The process is killed, or ends after Migrate has returned.
LeaveMigrate(a) ==
    /\ AbandonSession(a)
    /\ migrator' = [migrator EXCEPT ![a] = Away]
    /\ UNCHANGED <<schema, ledger>>

\* The COMMIT that the abandoned session had received is carried out.
AbandonedCommits ==
    /\ lock = Abandoned
    /\ abandoned.phase = "committing"
    /\ Apply(abandoned.file)
    /\ abandoned' = [abandoned EXCEPT !.phase = "settled"]
    /\ UNCHANGED <<lock, migrator>>

\* PostgreSQL ends the abandoned session: rollback, and the lock is free.
AbandonedEnds ==
    /\ lock = Abandoned
    /\ lock' = Nobody
    /\ abandoned' = Settled
    /\ UNCHANGED <<schema, ledger, migrator>>

MigrateStep(a) ==
    \/ LockMigrations(a)
    \/ CheckApplied(a)
    \/ ApplyMigration(a)
    \/ RecordMigration(a)
    \/ CommitMigration(a)
    \/ UnlockMigrations(a)

MigrationsNext ==
    \/ \E a \in Admin : BeginMigrate(a)
    \/ \E a \in Admin : MigrateStep(a)
    \/ \E a \in Admin : FailMigrate(a)
    \/ \E a \in Admin : AbandonMigrate(a)
    \/ \E a \in Admin : LeaveMigrate(a)
    \/ AbandonedCommits
    \/ AbandonedEnds

MigrationsSpec == MigrationsInit /\ [][MigrationsNext]_migrationVars

-----------------------------------------------------------------------------
(* Properties *)

\* Every variable has the values PostgreSQL and Migrate can give it.
MigrationsTypeOK ==
    /\ schema \in Seq(Nat)
    /\ ledger \in SUBSET Nat
    /\ lock \in Admin \cup {Nobody, Abandoned}
    /\ migrator \in [Admin ->
          [pc : Locked \cup {"away", "lock", "conflict", "failed", "migrated"},
           file : Nat]]
    /\ \A a \in Admin : migrator[a].file <= Files[a] + 1
    /\ abandoned \in [phase : {"settled", "open", "committing"}, file : Nat]

(***************************************************************************)
(* Every migration takes effect at most once, in order and without gaps,   *)
(* and the ledger says exactly which ones did, wherever processes stop and *)
(* whichever releases run side by side.                                    *)
(***************************************************************************)
SchemaInOrder ==
    /\ \A i \in 1 .. Len(schema) : schema[i] = i
    /\ ledger = 1 .. Len(schema)

(***************************************************************************)
(* The lock keeps concurrent processes from running the same migration, so *)
(* that none of them fails on a schema another one has just changed.       *)
(***************************************************************************)
NeverConflicts == \A a \in Admin : migrator[a].pc # "conflict"
=============================================================================
