----------------------------- MODULE FileVault -----------------------------
(***************************************************************************)
(* The encrypted file vault (FileVaultSecretStore): one envelope per          *)
(* reference, published by a link or a rename and made durable by a sync of   *)
(* the directory.  Threads run the four operations one at a time under the    *)
(* store's lock; any call to the file system may fail, the process may die    *)
(* between two of them, and a power cut may undo what was not yet synced.     *)
(* Encryption binds an envelope to its reference and is taken to be perfect;  *)
(* a file the code did not write, and permissions, are left out.              *)
(***************************************************************************)
EXTENDS Integers, FiniteSets

CONSTANTS
  References,      \* what identifier_factory may return
  Materials,       \* secrets
  Threads,         \* callers of the store, by asyncio.to_thread
  Absent,          \* no file, and no thread
  CreateAttempts,  \* _CREATE_ATTEMPTS
  MaxFaults,       \* bound on failed calls to the file system
  MaxOutages       \* bound on crashes and power cuts

ASSUME VaultAssumption ==
  /\ Absent \notin References \union Materials \union Threads
  /\ CreateAttempts \in Nat \ {0} /\ MaxFaults \in Nat /\ MaxOutages \in Nat

VARIABLES
  file,       \* the envelope under a reference's name: Absent, or the material in it
  twin,       \* references whose file still has its temporary name as well (st_nlink 2)
  durable,    \* what a power cut may leave under a name
  holder,     \* the thread that holds the lock
  operation,  \* its await, reference, material and attempts
  given,      \* references that were returned to a caller
  expected,   \* what a caller may find under a reference, after all that was answered
  faults, outages

vaultVars == <<file, twin, durable, holder, operation, given, expected, faults, outages>>
diskVars == <<file, twin, durable>>
promiseVars == <<given, expected>>

NoOperation == [at |-> "none", ref |-> Absent, material |-> Absent, attempts |-> 0]

VaultInit ==
  /\ file = [r \in References |-> Absent]
  /\ twin = {}
  /\ durable = [r \in References |-> {Absent}]
  /\ holder = Absent
  /\ operation = NoOperation
  /\ given = {}
  /\ expected = [r \in References |-> {Absent}]
  /\ faults = 0 /\ outages = 0

(* _target_metadata: a file with two names is an integrity error, for every   *)
(* operation.                                                                 *)
Intact(r) == r \notin twin
Exists(r) == file[r] # Absent /\ Intact(r)

(* get, which reads under the lock: nothing, the material, or an error.       *)
Found(r) == IF Intact(r) THEN file[r] ELSE "integrity_error"

Goes(step) == operation' = [operation EXCEPT !.at = step]
Leaves == holder' = Absent /\ operation' = NoOperation
Promise(r, materials) == expected' = [expected EXCEPT ![r] = materials]

(* _sync_directory: all the names of the vault.                               *)
Synced == durable' = [r \in References |-> {file[r]}]

(* The caller is told of an error; what it asked for may have happened.       *)
Fails(step) ==
  /\ operation.at = step
  /\ faults < MaxFaults
  /\ faults' = faults + 1
  /\ Leaves

-----------------------------------------------------------------------------
(* create *)

Create(t, m) ==
  /\ holder = Absent
  /\ holder' = t
  /\ operation' = [at |-> "name", ref |-> Absent, material |-> m, attempts |-> 0]
  /\ UNCHANGED <<diskVars, promiseVars, faults, outages>>

(* A name that is taken, whatever is under it, costs an attempt; names are    *)
(* random, and one that was given and deleted does not come back.             *)
Name(r) ==
  /\ operation.at = "name"
  /\ operation.attempts < CreateAttempts
  /\ r \in given => file[r] # Absent
  /\ operation' = [operation EXCEPT !.attempts = @ + 1, !.ref = r,
                                    !.at = IF file[r] = Absent THEN "link" ELSE "name"]
  /\ UNCHANGED <<diskVars, holder, promiseVars, faults, outages>>

OutOfNames ==
  /\ operation.at = "name" /\ operation.attempts = CreateAttempts
  /\ Leaves
  /\ UNCHANGED <<diskVars, promiseVars, faults, outages>>

(* _write_temp and os.link, which takes no name that exists: from here on the *)
(* file is there under two names, and a power cut may leave it or not.        *)
LinkNew ==
  LET r == operation.ref IN
  /\ operation.at = "link"
  /\ \/ /\ file' = [file EXCEPT ![r] = operation.material]
        /\ twin' = twin \union {r}
        /\ durable' = [durable EXCEPT ![r] = @ \union {operation.material}]
        /\ Promise(r, expected[r] \union {operation.material})
        /\ Goes("unlink")
        /\ UNCHANGED <<holder, given, faults, outages>>
     \/ Fails("link") /\ UNCHANGED <<diskVars, promiseVars, outages>>

(* The temporary name goes; when even the second attempt of the finally       *)
(* clause fails, it stays.                                                    *)
UnlinkTemporary ==
  /\ operation.at = "unlink"
  /\ \/ /\ twin' = twin \ {operation.ref}
        /\ Goes("sync_new")
        /\ UNCHANGED <<file, durable, holder, promiseVars, faults, outages>>
     \/ /\ Fails("unlink")
        /\ twin' \in {twin, twin \ {operation.ref}}
        /\ UNCHANGED <<file, durable, promiseVars, outages>>

SyncNew ==
  LET r == operation.ref IN
  /\ operation.at = "sync_new"
  /\ \/ /\ Synced
        /\ given' = given \union {r}
        /\ Promise(r, {file[r]})
        /\ Leaves
        /\ UNCHANGED <<file, twin, faults, outages>>
     \/ Fails("sync_new") /\ UNCHANGED <<diskVars, promiseVars, outages>>

-----------------------------------------------------------------------------
(* replace and delete, of a reference that was returned                       *)

Change(t, r, step, m) ==
  /\ holder = Absent
  /\ r \in given
  /\ Exists(r)
  /\ holder' = t
  /\ operation' = [at |-> step, ref |-> r, material |-> m, attempts |-> 0]
  /\ UNCHANGED <<diskVars, promiseVars, faults, outages>>

(* _write_temp and os.replace: a rename has no moment between.                *)
Rename ==
  LET r == operation.ref IN
  /\ operation.at = "rename"
  /\ \/ /\ file' = [file EXCEPT ![r] = operation.material]
        /\ durable' = [durable EXCEPT ![r] = @ \union {operation.material}]
        /\ Promise(r, expected[r] \union {operation.material})
        /\ Goes("sync")
        /\ UNCHANGED <<twin, holder, given, faults, outages>>
     \/ Fails("rename") /\ UNCHANGED <<diskVars, promiseVars, outages>>

(* _delete; the next delete of a name that is gone answers False.             *)
Unlink ==
  LET r == operation.ref IN
  /\ operation.at = "delete"
  /\ \/ /\ file' = [file EXCEPT ![r] = Absent]
        /\ durable' = [durable EXCEPT ![r] = @ \union {Absent}]
        /\ Promise(r, expected[r] \union {Absent})
        /\ Goes("sync")
        /\ UNCHANGED <<twin, holder, given, faults, outages>>
     \/ Fails("delete") /\ UNCHANGED <<diskVars, promiseVars, outages>>

(* Mutant: the operation returns without the sync of the directory.           *)
SyncSkipped ==
  /\ operation.at = "sync"
  /\ Promise(operation.ref, {file[operation.ref]})
  /\ Leaves
  /\ UNCHANGED <<diskVars, given, faults, outages>>

(* The directory is synced and the operation returns.                         *)
Sync ==
  LET r == operation.ref IN
  /\ operation.at = "sync"
  /\ \/ /\ Synced
        /\ Promise(r, {file[r]})
        /\ Leaves
        /\ UNCHANGED <<file, twin, given, faults, outages>>
     \/ Fails("sync") /\ UNCHANGED <<diskVars, promiseVars, outages>>

-----------------------------------------------------------------------------
(* Outages *)

(* The process dies: its lock and its threads with it.                        *)
VaultCrash ==
  /\ outages < MaxOutages
  /\ outages' = outages + 1
  /\ holder # Absent
  /\ Leaves
  /\ UNCHANGED <<diskVars, promiseVars, faults>>

(* The power goes: each name is left as some state it had since its last      *)
(* sync, and a temporary name whose removal was not synced may be back.       *)
PowerCut ==
  /\ outages < MaxOutages
  /\ outages' = outages + 1
  /\ file' \in {f \in [References -> Materials \union {Absent}] : \A r \in References : f[r] \in durable[r]}
  /\ twin' \in SUBSET {r \in References : file'[r] # Absent /\ (r \in twin \/ r \notin given)}
  /\ durable' = [r \in References |-> {file'[r]}]
  /\ Leaves
  /\ UNCHANGED <<promiseVars, faults>>

VaultNext ==
  \/ \E t \in Threads, m \in Materials : Create(t, m)
  \/ \E r \in References : Name(r)
  \/ OutOfNames \/ LinkNew \/ UnlinkTemporary \/ SyncNew
  \/ \E t \in Threads, r \in References :
       \/ \E m \in Materials : Change(t, r, "rename", m)
       \/ Change(t, r, "delete", Absent)
  \/ Rename \/ Unlink \/ Sync
  \/ VaultCrash \/ PowerCut

VaultSpec == VaultInit /\ [][VaultNext]_vaultVars

-----------------------------------------------------------------------------
(* Properties *)

VaultTypeOK ==
  /\ file \in [References -> Materials \union {Absent}]
  /\ twin \subseteq {r \in References : file[r] # Absent}
  /\ durable \in [References -> SUBSET (Materials \union {Absent})]
  /\ holder \in Threads \union {Absent}
  /\ operation.at \in {"none", "name", "link", "unlink", "sync_new", "rename", "delete", "sync"}
  /\ given \subseteq References
  /\ expected \in [References -> SUBSET (Materials \union {Absent})]
  /\ faults \in 0..MaxFaults /\ outages \in 0..MaxOutages

(* A secret is what it was last said to be (create, replace, delete): a       *)
(* reference that was returned can always be read, as the material of its     *)
(* last answered change or of one whose outcome its caller was never told,    *)
(* and a deleted one is gone, whatever failed, crashed or lost its power in   *)
(* between; the same holds of what a power cut would leave.                   *)
SecretsKept ==
  \A r \in given :
    /\ Found(r) \in expected[r]
    /\ durable[r] \subseteq expected[r]
=============================================================================
