--------------------------- MODULE SqliteStorage ---------------------------
(***************************************************************************)
(* The database file, its process lock, its migrations and its snapshots      *)
(* (SqliteDatabase, SqliteMigrationAdmin, ProcessFileLock,                    *)
(* SqliteSnapshotStore).  A process applies the migrations of its package     *)
(* under the lock, lets go of the lock, takes it again and opens its          *)
(* connection; before a migration, and on request, it makes a snapshot and    *)
(* its manifest.  Any step may fail, any process may die, the power may go.   *)
(* A transaction of SQLite is atomic; what it leaves behind when its process  *)
(* dies during the commit is a hot journal, which only a connection that may  *)
(* write rolls back.                                                          *)
(***************************************************************************)
EXTENDS Integers, FiniteSets, Sequences

CONSTANTS
  Processes,
  Package,          \* the migrations a process brings along, in their order
  Nobody,
  MaxSnapshots,     \* bound on the snapshots begun
  MaxErrors,        \* bound on the steps that fail or are cancelled
  MaxDeaths         \* bound on the deaths of processes and power cuts

ASSUME StorageAssumption ==
  /\ Nobody \notin Processes
  /\ \A p \in Processes : Package[p] # <<>>
  /\ MaxSnapshots \in Nat /\ MaxErrors \in Nat /\ MaxDeaths \in Nat

VARIABLES
  lock,        \* the process that holds the file lock
  exists,      \* the database file is there
  applied,     \* schema_migrations, and with it user_version
  hot,         \* a hot journal lies beside it
  process,     \* a process: its step, what its snapshot is for, and its artifact
  made,        \* the snapshots begun: their schema, and the target of a migration
  directory,   \* names in the backup directory, a kind and an artifact each
  synced,      \* names that a power cut leaves
  returned,    \* artifacts that create returned
  batches,     \* the migrations committed: from, to and artifact
  errors, deaths, cuts

storageVars == <<lock, exists, applied, hot, process, made, directory, synced, returned, batches,
                 errors, deaths, cuts>>
fileVars == <<exists, applied, hot>>
backupVars == <<made, directory, synced, returned>>
faultVars == <<errors, deaths, cuts>>

Down == [at |-> "down", for |-> "none", artifact |-> 0]
Committing == {"commit", "writing"}
Copying == {"copy", "link_snapshot", "link_manifest", "sync", "verify"}
Pair(n) == {<<"snapshot", n>>, <<"manifest", n>>}

StorageInit ==
  /\ lock = Nobody
  /\ exists = FALSE /\ applied = <<>> /\ hot = FALSE
  /\ process = [p \in Processes |-> Down]
  /\ made = <<>> /\ directory = {} /\ synced = {} /\ returned = {}
  /\ batches = <<>>
  /\ errors = 0 /\ deaths = 0 /\ cuts = 0

Steps(p, step) == process' = [process EXCEPT ![p].at = step]
Ends(p) == process' = [process EXCEPT ![p] = Down]
Locks(p) == lock = Nobody /\ lock' = p
Unlocks == lock' = Nobody
IsPrefixOf(short, long) == Len(short) <= Len(long) /\ short = SubSeq(long, 1, Len(short))

-----------------------------------------------------------------------------
(* SqliteMigrationAdmin.apply *)

(* A lock that somebody holds is a StorageBusyError at once.                  *)
Launch(p) ==
  /\ process[p] = Down
  /\ Locks(p)
  /\ Steps(p, "plan")
  /\ UNCHANGED <<fileVars, backupVars, batches, faultVars>>

(* plan reads the history over a read-only connection, which a hot journal    *)
(* stops; _validate_applied wants a prefix of the package.                    *)
PlanMigration(p) ==
  /\ process[p].at = "plan"
  /\ \/ ~exists /\ Steps(p, "migrate") /\ UNCHANGED lock
     \/ exists /\ hot /\ Steps(p, "refused_journal") /\ Unlocks
     \/ exists /\ ~hot /\ ~IsPrefixOf(applied, Package[p]) /\ Steps(p, "refused_history") /\ Unlocks
     \/ exists /\ ~hot /\ applied = Package[p] /\ Steps(p, "applied") /\ Unlocks
     \/ /\ exists /\ ~hot /\ IsPrefixOf(applied, Package[p]) /\ applied # Package[p]
        /\ process' = [process EXCEPT ![p].at = "copy", ![p].for = "migration"]
        /\ UNCHANGED lock
  /\ UNCHANGED <<fileVars, backupVars, batches, faultVars>>

(* The connection that may write makes the file, whatever comes of the batch. *)
Migrate(p) ==
  /\ process[p].at = "migrate"
  /\ exists' = TRUE
  /\ Steps(p, "commit")
  /\ UNCHANGED <<lock, applied, hot, backupVars, batches, faultVars>>

(* All pending migrations, their rows, user_version and the audit entry.      *)
CommitMigration(p) ==
  /\ process[p].at = "commit"
  /\ applied' = Package[p]
  /\ batches' = Append(batches, [from |-> applied, to |-> Package[p], artifact |-> process[p].artifact])
  /\ Unlocks
  /\ process' = [process EXCEPT ![p] = [Down EXCEPT !.at = "applied"]]
  /\ UNCHANGED <<exists, hot, backupVars, faultVars>>

(* The rollback of a batch that fails.                                        *)
MigrationFails(p) ==
  /\ process[p].at = "commit"
  /\ errors < MaxErrors
  /\ errors' = errors + 1
  /\ Unlocks
  /\ Ends(p)
  /\ UNCHANGED <<fileVars, backupVars, batches, deaths, cuts>>

-----------------------------------------------------------------------------
(* SqliteDatabase: start after apply, runtime, close *)

(* Anything may have happened since apply let go of the lock; the connection  *)
(* rolls a hot journal back when it first reads.                              *)
OpenRuntime(p) ==
  /\ process[p].at = "applied"
  /\ Locks(p)
  /\ hot' = FALSE
  /\ Steps(p, "running")
  /\ UNCHANGED <<exists, applied, backupVars, batches, faultVars>>

(* StorageBusyError; or the command was only to apply the migrations.         *)
ApplyEnds(p) ==
  /\ process[p].at \in {"applied", "refused_journal", "refused_history"}
  /\ Ends(p)
  /\ UNCHANGED <<lock, fileVars, backupVars, batches, faultVars>>

(* A unit of work of the runtime, and its end.                                *)
Write(p) ==
  /\ process[p].at \in {"running", "writing"}
  /\ Steps(p, IF process[p].at = "running" THEN "writing" ELSE "running")
  /\ UNCHANGED <<lock, fileVars, backupVars, batches, faultVars>>

(* create_snapshot waits for the writer, and keeps the next one out.          *)
AskSnapshot(p) ==
  /\ process[p].at = "running"
  /\ process' = [process EXCEPT ![p].at = "copy", ![p].for = "runtime"]
  /\ UNCHANGED <<lock, fileVars, backupVars, batches, faultVars>>

Close(p) ==
  /\ process[p].at = "running"
  /\ Unlocks
  /\ Ends(p)
  /\ UNCHANGED <<fileVars, backupVars, batches, faultVars>>

(* process_lock_available holds the lock it asks about for a moment.          *)
Probe(p) ==
  /\ \/ process[p] = Down /\ exists /\ Locks(p) /\ Steps(p, "probe")
     \/ process[p].at = "probe" /\ Unlocks /\ Ends(p)
  /\ UNCHANGED <<fileVars, backupVars, batches, faultVars>>

-----------------------------------------------------------------------------
(* SqliteSnapshotStore.create *)

(* A name nobody has, the copy and its check, the manifest: hidden files.     *)
Copy(p) ==
  /\ process[p].at = "copy"
  /\ Len(made) < MaxSnapshots
  /\ made' = Append(made, [of |-> applied,
                           target |-> IF process[p].for = "migration" THEN Package[p] ELSE <<>>])
  /\ process' = [process EXCEPT ![p].at = "link_snapshot", ![p].artifact = Len(made) + 1]
  /\ UNCHANGED <<lock, fileVars, directory, synced, returned, batches, faultVars>>

Link(p, step, kind, next) ==
  /\ process[p].at = step
  /\ directory' = directory \union {<<kind, process[p].artifact>>}
  /\ Steps(p, next)
  /\ UNCHANGED <<lock, fileVars, made, synced, returned, batches, faultVars>>

LinkSnapshot(p) == Link(p, "link_snapshot", "snapshot", "link_manifest")
LinkManifest(p) == Link(p, "link_manifest", "manifest", "sync")

(* Mutant: the directory is not synced.                                       *)
SkipSync(p) ==
  /\ process[p].at = "sync"
  /\ Steps(p, "verify")
  /\ UNCHANGED <<lock, fileVars, backupVars, batches, faultVars>>

SyncBackups(p) ==
  /\ process[p].at = "sync"
  /\ synced' = directory
  /\ Steps(p, "verify")
  /\ UNCHANGED <<lock, fileVars, made, directory, returned, batches, faultVars>>

(* verify reads the pair again, and create returns: to the migration or to    *)
(* the runtime.                                                               *)
VerifyPair(p) ==
  /\ process[p].at = "verify"
  /\ Pair(process[p].artifact) \subseteq directory
  /\ returned' = returned \union {process[p].artifact}
  /\ process' = [process EXCEPT ![p] =
       IF process[p].for = "migration" THEN [@ EXCEPT !.at = "migrate"] ELSE [Down EXCEPT !.at = "running"]]
  /\ UNCHANGED <<lock, fileVars, made, directory, synced, batches, faultVars>>

(* An error or a cancellation; the finally clause takes the manifest away     *)
(* first.                                                                     *)
SnapshotFails(p) ==
  /\ process[p].at \in Copying
  /\ errors < MaxErrors
  /\ errors' = errors + 1
  /\ Steps(p, "remove_manifest")
  /\ UNCHANGED <<lock, fileVars, backupVars, batches, deaths, cuts>>

RemoveManifest(p) ==
  /\ process[p].at = "remove_manifest"
  /\ directory' = directory \ {<<"manifest", process[p].artifact>>}
  /\ Steps(p, "remove_snapshot")
  /\ UNCHANGED <<lock, fileVars, made, synced, returned, batches, faultVars>>

RemoveSnapshot(p) ==
  /\ process[p].at = "remove_snapshot"
  /\ directory' = directory \ {<<"snapshot", process[p].artifact>>}
  /\ \/ process[p].for = "migration" /\ Unlocks /\ Ends(p)
     \/ /\ process[p].for = "runtime" /\ UNCHANGED lock
        /\ process' = [process EXCEPT ![p] = [Down EXCEPT !.at = "running"]]
  /\ UNCHANGED <<fileVars, made, synced, returned, batches, faultVars>>

-----------------------------------------------------------------------------
(* Deaths and power cuts *)

(* What a commit under way comes to: nothing, a hot journal, or a migration   *)
(* that is committed although its process never said so.                      *)
CommitCutShort(victims) ==
  \/ UNCHANGED <<applied, hot, batches>>
  \/ /\ \E p \in victims : process[p].at \in Committing
     /\ hot' = TRUE /\ UNCHANGED <<applied, batches>>
  \/ \E p \in victims :
       /\ process[p].at = "commit"
       /\ applied' = Package[p]
       /\ batches' = Append(batches, [from |-> applied, to |-> Package[p], artifact |-> process[p].artifact])
       /\ UNCHANGED hot

Die(p) ==
  /\ process[p] # Down
  /\ deaths < MaxDeaths
  /\ deaths' = deaths + 1
  /\ CommitCutShort({p})
  /\ lock' = IF lock = p THEN Nobody ELSE lock
  /\ Ends(p)
  /\ UNCHANGED <<exists, backupVars, errors, cuts>>

(* Of the names since the last sync, made or taken away, some are left.       *)
LosePower ==
  /\ deaths < MaxDeaths
  /\ deaths' = deaths + 1 /\ cuts' = cuts + 1
  /\ CommitCutShort(Processes)
  /\ directory' \in {kept \union (synced \intersect directory) :
                       kept \in SUBSET ((directory \ synced) \union (synced \ directory))}
  /\ synced' = directory'
  /\ lock' = Nobody
  /\ process' = [p \in Processes |-> Down]
  /\ UNCHANGED <<exists, made, returned, errors>>

StorageNext ==
  \/ \E p \in Processes :
       \/ Launch(p) \/ PlanMigration(p) \/ Migrate(p) \/ CommitMigration(p) \/ MigrationFails(p)
       \/ OpenRuntime(p) \/ ApplyEnds(p) \/ Write(p) \/ AskSnapshot(p) \/ Close(p) \/ Probe(p)
       \/ Copy(p) \/ LinkSnapshot(p) \/ LinkManifest(p) \/ SyncBackups(p) \/ VerifyPair(p)
       \/ SnapshotFails(p) \/ RemoveManifest(p) \/ RemoveSnapshot(p) \/ Die(p)
  \/ LosePower

StorageSpec == StorageInit /\ [][StorageNext]_storageVars

-----------------------------------------------------------------------------
(* Properties *)

Owning == {"plan", "migrate", "commit", "running", "writing", "probe", "remove_manifest",
           "remove_snapshot"} \union Copying

StorageTypeOK ==
  /\ lock \in Processes \union {Nobody}
  /\ {exists, hot} \subseteq BOOLEAN
  /\ process \in [Processes -> [at : Owning \union {"down", "applied", "refused_journal", "refused_history"},
                                for : {"none", "migration", "runtime"}, artifact : Nat]]
  /\ \A p \in Processes : process[p].at \in Owning <=> lock = p
  /\ errors \in 0..MaxErrors /\ deaths \in 0..MaxDeaths /\ cuts \in 0..MaxDeaths

(* A migration can always be undone (apply, create): whatever failed, died or *)
(* lost its power, and in whatever order, a database that was there before a  *)
(* migration has the snapshot of exactly the schema it had, with its          *)
(* manifest; so has every snapshot that was returned; and short of a power    *)
(* cut there is no manifest without its snapshot.                             *)
SnapshotsKept ==
  /\ \A i \in DOMAIN batches : batches[i].artifact # 0 =>
       /\ Pair(batches[i].artifact) \subseteq directory
       /\ made[batches[i].artifact] = [of |-> batches[i].from, target |-> batches[i].to]
  /\ \A i \in DOMAIN batches : batches[i].artifact = 0 => batches[i].from = <<>> /\ i = 1
  /\ \A n \in returned : Pair(n) \subseteq directory
  /\ cuts = 0 => \A n \in DOMAIN made : <<"manifest", n>> \in directory => <<"snapshot", n>> \in directory

(* The storage can be started again (start; docs/chunks/05: the Queue is      *)
(* recovered after a restart): a process is only refused over a history that  *)
(* its package does not continue.                                             *)
RestartPossible == \A p \in Processes : process[p].at # "refused_journal"
=============================================================================
