-------------------------------- MODULE Startup --------------------------------
(***************************************************************************)
(* How replicas of the server, and the migration job, start: the files of  *)
(* db/migrations are applied under an advisory lock, then the first        *)
(* administrator is created if there is none, then the replica serves.     *)
(*                                                                         *)
(* A replica has two connections while it migrates.  The advisory lock     *)
(* belongs to one, the transactions to the other: the first may break      *)
(* without the second noticing.  What keeps the files apart then is the    *)
(* database: a table locked by a DDL statement, and the primary key of     *)
(* schema_migrations.                                                      *)
(***************************************************************************)
EXTENDS Naturals, Sequences

CONSTANTS
    Replicas,
    Skips,         \* replicas started with VFT_SKIP_MIGRATE=true
    NoReplica,
    Files,         \* number of files, in the order of their names
    Rerunnable,    \* files whose statements succeed on a schema that has them
    AdminFile,     \* the file that creates table admins
    MaxFaults      \* bound on crashes and lost connections

ASSUME StartupAssumption ==
    /\ NoReplica \notin Replicas
    /\ Skips \subseteq Replicas
    /\ Files \in Nat \ {0} /\ MaxFaults \in Nat
    /\ Rerunnable \subseteq 1..Files
    /\ AdminFile \in 1..Files

VARIABLES
    journal,       \* rows of schema_migrations in the order they were committed
    tracked,       \* table schema_migrations exists
    advisory,      \* the replica whose lock connection has the advisory lock
    boot,          \* where each replica is
    initialAdmin,  \* the configured administrator has a row in admins
    faults

startVars == <<journal, tracked, advisory, boot, initialAdmin, faults>>

\* file: the one it is at; dead: the process is gone, its sessions are not.
BootPhases == {"down", "ensure", "create table", "lock", "check", "apply", "insert",
               "commit", "unlock", "count", "create", "serving"}
Boot == [pc : BootPhases, file : 1..(Files + 1), dead : BOOLEAN]
Down == [pc |-> "down", file |-> 1, dead |-> FALSE]

Applied(f) == \E i \in 1..Len(journal) : journal[i] = f
InTransaction(r, f) == boot[r].pc \in {"insert", "commit"} /\ boot[r].file = f

StartInit ==
    /\ journal = <<>>
    /\ tracked = FALSE
    /\ advisory = NoReplica
    /\ boot = [r \in Replicas |-> Down]
    /\ initialAdmin = FALSE
    /\ faults = 0

GoOn(r, pc) == boot' = [boot EXCEPT ![r].pc = pc]
At(r, pc) == boot[r].pc = pc /\ ~boot[r].dead

\* os.Exit(1): the sessions close with the process; transactions roll back.
ExitReplica(r) ==
    /\ boot' = [boot EXCEPT ![r] = Down]
    /\ advisory' = IF advisory = r THEN NoReplica ELSE advisory

-----------------------------------------------------------------------------
\* The process is started, and again whenever it has ended.
Start(r) ==
    /\ At(r, "down")
    /\ GoOn(r, IF r \in Skips THEN "count" ELSE "ensure")
    /\ UNCHANGED <<journal, tracked, advisory, initialAdmin, faults>>

\* CREATE TABLE IF NOT EXISTS, before the lock: it looks, and then creates.  Of
\* two that looked at once the second fails on the catalogue's unique index.
EnsureSchemaMigrations(r) ==
    /\ At(r, "ensure")
    /\ GoOn(r, IF tracked THEN "lock" ELSE "create table")
    /\ UNCHANGED <<journal, tracked, advisory, initialAdmin, faults>>
CreateSchemaMigrations(r) ==
    /\ At(r, "create table")
    /\ IF tracked THEN ExitReplica(r) ELSE GoOn(r, "lock") /\ UNCHANGED advisory
    /\ tracked' = TRUE
    /\ UNCHANGED <<journal, initialAdmin, faults>>

Lock(r) ==
    /\ At(r, "lock")
    /\ advisory = NoReplica
    /\ advisory' = r
    /\ GoOn(r, "check")
    /\ UNCHANGED <<journal, tracked, initialAdmin, faults>>

\* SELECT EXISTS ... WHERE name = file; the files done are passed over.
NoMoreFilesLate(f) == f > Files + 1
NoMoreFiles(f) == f > Files
CheckFile(r) ==
    LET f == boot[r].file
    IN  /\ At(r, "check")
        /\ IF NoMoreFiles(f) THEN GoOn(r, "unlock")
           ELSE IF Applied(f) THEN boot' = [boot EXCEPT ![r].file = f + 1]
           ELSE GoOn(r, "apply")
        /\ UNCHANGED <<journal, tracked, advisory, initialAdmin, faults>>

\* The statements of the file, in a transaction.  One that changes tables waits
\* for another that has them locked, and fails on a schema that has it already;
\* then Migrate returns the error and the process exits.
ApplyFile(r) ==
    LET f == boot[r].file
    IN  /\ At(r, "apply")
        /\ f \notin Rerunnable => \A s \in Replicas \ {r} : ~InTransaction(s, f)
        /\ \/ /\ ~Applied(f) \/ f \in Rerunnable
              /\ GoOn(r, "insert") /\ UNCHANGED advisory
           \/ Applied(f) /\ ExitReplica(r)
        /\ UNCHANGED <<journal, tracked, initialAdmin, faults>>

\* INSERT INTO schema_migrations: the primary key waits for an uncommitted row
\* of that name and refuses a committed one.
InsertFileBlind(r) ==
    /\ At(r, "insert")
    /\ GoOn(r, "commit")
    /\ UNCHANGED <<journal, tracked, advisory, initialAdmin, faults>>
InsertFile(r) ==
    LET f == boot[r].file
    IN  /\ At(r, "insert")
        /\ \A s \in Replicas \ {r} : ~(boot[s].pc = "commit" /\ boot[s].file = f)
        /\ \/ ~Applied(f) /\ GoOn(r, "commit") /\ UNCHANGED advisory
           \/ Applied(f) /\ ExitReplica(r)
        /\ UNCHANGED <<journal, tracked, initialAdmin, faults>>

CommitFile(r) ==
    /\ At(r, "commit")
    /\ journal' = Append(journal, boot[r].file)
    /\ boot' = [boot EXCEPT ![r].pc = "check", ![r].file = @ + 1]
    /\ UNCHANGED <<tracked, advisory, initialAdmin, faults>>

\* pg_advisory_unlock does nothing when the lock is not this session's.
UnlockForgotten(r) ==
    /\ At(r, "unlock")
    /\ GoOn(r, "count")
    /\ UNCHANGED <<journal, tracked, advisory, initialAdmin, faults>>
Unlock(r) ==
    /\ At(r, "unlock")
    /\ advisory' = IF advisory = r THEN NoReplica ELSE advisory
    /\ GoOn(r, "count")
    /\ UNCHANGED <<journal, tracked, initialAdmin, faults>>

\* ensureInitialAdmin: without the table the replica exits.
CountAdmins(r) ==
    /\ At(r, "count")
    /\ IF Applied(AdminFile)
       THEN /\ GoOn(r, IF initialAdmin THEN "serving" ELSE "create")
            /\ UNCHANGED advisory
       ELSE ExitReplica(r)
    /\ UNCHANGED <<journal, tracked, initialAdmin, faults>>

\* BootstrapAdmin: the user name is unique, so that of two replicas one exits.
CreateInitialAdmin(r) ==
    /\ At(r, "create")
    /\ IF initialAdmin THEN ExitReplica(r)
                       ELSE GoOn(r, "serving") /\ UNCHANGED advisory
    /\ initialAdmin' = TRUE
    /\ UNCHANGED <<journal, tracked, faults>>

-----------------------------------------------------------------------------
\* The machine is lost: its sessions linger until the database notices.
CrashReplica(r) ==
    /\ faults < MaxFaults
    /\ boot[r].pc # "down" /\ ~boot[r].dead
    /\ boot' = [boot EXCEPT ![r].dead = TRUE]
    /\ faults' = faults + 1
    /\ UNCHANGED <<journal, tracked, advisory, initialAdmin>>

\* Then the lock is released and the transaction rolled back, unless its COMMIT
\* had been sent.
SessionsEnd(r) ==
    /\ boot[r].dead
    /\ journal' = journal \/ (boot[r].pc = "commit" /\ journal' = Append(journal, boot[r].file))
    /\ ExitReplica(r)
    /\ UNCHANGED <<tracked, initialAdmin, faults>>

\* The idle connection with the lock breaks; nothing is said on it before the end.
LockConnectionLost(r) ==
    /\ faults < MaxFaults
    /\ advisory = r
    /\ advisory' = NoReplica
    /\ faults' = faults + 1
    /\ UNCHANGED <<journal, tracked, boot, initialAdmin>>

Boots(r) ==
    \/ Start(r) \/ EnsureSchemaMigrations(r) \/ CreateSchemaMigrations(r) \/ Lock(r)
    \/ CheckFile(r) \/ ApplyFile(r) \/ InsertFile(r) \/ CommitFile(r) \/ Unlock(r)
    \/ CountAdmins(r) \/ CreateInitialAdmin(r) \/ SessionsEnd(r)

StartNext ==
    \E r \in Replicas : Boots(r) \/ CrashReplica(r) \/ LockConnectionLost(r)

\* A process that runs goes on, one that ended is started again, and the
\* database ends the sessions of one that is lost.
StartFairness == \A r \in Replicas : WF_startVars(Boots(r))

StartSpec == StartInit /\ [][StartNext]_startVars /\ StartFairness

-----------------------------------------------------------------------------
StartTypeOK ==
    /\ journal \in Seq(1..Files)
    /\ tracked \in BOOLEAN /\ initialAdmin \in BOOLEAN
    /\ advisory \in Replicas \cup {NoReplica}
    /\ boot \in [Replicas -> Boot]
    /\ faults \in Nat

\* Each file is applied once and in the order of the names (Migrate), also when
\* the advisory lock is lost in the middle and two replicas apply one file; and
\* no replica that migrates goes on before the whole schema is there.  (One that
\* skips it may: it looks only whether there is an administrator.)
SchemaInOrder ==
    /\ \A i \in 1..Len(journal) : journal[i] = i
    /\ \A r \in Replicas \ Skips :
        boot[r].pc \in {"unlock", "count", "create", "serving"} => Len(journal) = Files

\* Every replica that was started serves in the end: a lost race or a crash costs
\* a restart, no lock stays behind, and who skips the migration waits for who
\* does not.
ReplicasServe ==
    \A r \in Replicas :
        boot[r].pc # "down" ~> (boot[r].pc = "serving" /\ ~boot[r].dead)
=============================================================================
