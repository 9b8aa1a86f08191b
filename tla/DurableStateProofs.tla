------------------------- MODULE DurableStateProofs -------------------------
(***************************************************************************)
(* What the host keeps, and what it lists of it.  No caller of the            *)
(* connection registry loses what it was told is saved; a secret that was     *)
(* returned is there after a power cut, and so is the snapshot that a batch   *)
(* of migrations relies on; whoever pages through a list to its end is given  *)
(* all that stayed there: for any number of callers, references, processes    *)
(* and rows.                                                                  *)
(***************************************************************************)
EXTENDS ConnectionRegistry, FileVault, SqliteStorage, Listings, FiniteSetTheorems,
        SequenceTheorems, WellFoundedInduction, TLAPS

-----------------------------------------------------------------------------
(* Connections                                                                *)

(* What a caller holds, by what it is at.                                      *)
Copies ==
  /\ doing \in [Editors -> {"idle", "editing", "discovering", "edited", "discovered", "refused"}]
  /\ DOMAIN copy = Editors
  /\ \A e \in Editors :
       /\ doing[e] \in {"editing", "discovering", "edited"} => copy[e] \in ConnectionRows
       /\ doing[e] = "discovered" => copy[e] \in ToolRows

(* Nobody holds a row before there is one.                                     *)
RowFirst ==
  /\ connection # NoRow => connection \in ConnectionRows
  /\ tool # NoRow => tool \in ToolRows
  /\ connection = NoRow => \A e \in Editors : doing[e] \in {"idle", "refused"}
  /\ tool = NoRow => \A e \in Editors : doing[e] # "discovered"

(* A copy is never ahead of the row, and one of the row's revision holds every *)
(* change the row does.                                                        *)
CopiesLag ==
  \A e \in Editors : doing[e] \in {"editing", "edited"} =>
    /\ copy[e].revision <= connection.revision
    /\ copy[e].revision = connection.revision => copy[e].changes = connection.changes

RegInv == Copies /\ RowFirst /\ CopiesLag /\ RegistryKeeps

-----------------------------------------------------------------------------
(* An edit is a row of the next revision with the changes of the copy.         *)
LEMMA EditsAreRows ==
  ASSUME NEW c \in ConnectionRows, NEW edited \in Edits(c)
  PROVE  edited \in ConnectionRows /\ edited.revision = c.revision + 1 /\ edited.changes = c.changes
<1> DEFINE Good(r) == r \in ConnectionRows /\ r.revision = c.revision + 1 /\ r.changes = c.changes
<1>1. ASSUME NEW target \in ConnectionTransitions(c.state), NEW at \in c.updated..MaxStamp
      PROVE  Good(Transitioned(c, target, at))
  <2> DEFINE connected == IF target = "connected" /\ c.connectedAt = Never THEN at ELSE c.connectedAt
             checked == IF target \in {"connected", "degraded", "error"} THEN at ELSE c.checkedAt
             failed == target \in {"degraded", "error"}
             new == [c EXCEPT !.state = target, !.updated = at, !.connectedAt = connected,
                              !.checkedAt = checked, !.failed = failed, !.revision = @ + 1]
  <2>1. target \in ConnectionStates
    BY DEF ConnectionTransitions, ConnectionStates, ConnectionRows
  <2>2. at \in Int
    BY RegistryAssumption DEF ConnectionRows
  <2>3. connected \in Int /\ checked \in Int
    BY <2>2 DEF ConnectionRows
  <2>4. failed \in BOOLEAN
    OBVIOUS
  <2>5. Transitioned(c, target, at) = new
    BY DEF Transitioned
  <2> HIDE DEF connected, checked, failed
  <2>6. new.revision = c.revision + 1 /\ new.changes = c.changes /\ c.revision + 1 \in Nat
    BY DEF ConnectionRows
  <2>7. new \in ConnectionRows
    BY <2>1, <2>2, <2>3, <2>4, <2>6 DEF ConnectionRows
  <2> QED BY <2>5, <2>6, <2>7
<1>2. ASSUME NEW scope \in {"instance", "user"}
      PROVE  Good(Rescoped(c, scope))
  <2>1. /\ Rescoped(c, scope).revision = c.revision + 1 /\ Rescoped(c, scope).changes = c.changes
        /\ c.revision + 1 \in Nat
    BY DEF ConnectionRows, Rescoped
  <2>2. Rescoped(c, scope) \in ConnectionRows
    BY <2>1 DEF ConnectionRows, Rescoped
  <2> QED BY <2>1, <2>2
<1>3. \/ \E target \in ConnectionTransitions(c.state), at \in c.updated..MaxStamp :
             edited = Transitioned(c, target, at)
      \/ \E scope \in {"instance", "user"} : edited = Rescoped(c, scope)
  BY DEF Edits
<1> QED BY <1>1, <1>2, <1>3

(* There is no row and nobody holds one.                                      *)
LEMMA RegInvInit == RegistryInit => RegInv
  BY DEF RegistryInit, RegInv, Copies, RowFirst, CopiesLag, RegistryKeeps

(* A caller that is refused changes nothing for the others.                    *)
LEMMA RefusesKeeps ==
  ASSUME RegInv, NEW e \in Editors, Refuses(e)
  PROVE  RegInv'
  BY DEF RegInv, Copies, RowFirst, CopiesLag, RegistryKeeps, Refuses, EditEnds

(* The first row is at its first revision; nobody holds a copy.               *)
LEMMA AddConnectionKeeps ==
  ASSUME RegInv, NEW e \in Editors, AddConnection(e)
  PROVE  RegInv'
<1>1. CASE connection # NoRow
  BY <1>1, RefusesKeeps DEF AddConnection
<1>2. CASE connection = NoRow
  <2>1. connection' \in ConnectionRows /\ connection'.revision = 0 /\ connection'.changes = {e}
    <3> DEFINE new == [state |-> "disconnected", scope |-> "instance", updated |-> 1,
                       connectedAt |-> Never, checkedAt |-> Never, failed |-> FALSE,
                       revision |-> 0, changes |-> {e}]
    <3>1. connection' = new
      BY <1>2 DEF AddConnection
    <3>2. new \in ConnectionRows
      BY DEF ConnectionRows, ConnectionStates, Never
    <3> QED BY <3>1, <3>2
  <2>2. /\ copy' = [copy EXCEPT ![e] = connection'] /\ doing' = [doing EXCEPT ![e] = "edited"]
        /\ UNCHANGED tool /\ connection' # NoRow
    BY <1>2, <2>1, RegistryAssumption DEF AddConnection, EditEnds
  <2>3. \A f \in Editors : doing[f] \in {"idle", "refused"}
    BY <1>2 DEF RegInv, RowFirst
  <2> QED BY <2>1, <2>2, <2>3 DEF RegInv, Copies, RowFirst, CopiesLag, RegistryKeeps
<1> QED BY <1>1, <1>2

(* A copy is the row as it is.                                                *)
LEMMA GetConnectionKeeps ==
  ASSUME RegInv, NEW e \in Editors, GetConnection(e)
  PROVE  RegInv'
<1> PICK next \in {"editing", "discovering"} : doing' = [doing EXCEPT ![e] = next]
  BY DEF GetConnection, EditEnds
<1>1. /\ connection \in ConnectionRows /\ copy' = [copy EXCEPT ![e] = connection] /\ UNCHANGED <<connection, tool>>
      /\ doing[e] = "idle"
  BY DEF GetConnection, RegInv, RowFirst
<1>2. connection.revision <= connection.revision
  BY <1>1 DEF ConnectionRows
<1>3. \A f \in Editors : /\ copy'[f] = IF f = e THEN connection ELSE copy[f]
                         /\ doing'[f] = IF f = e THEN next ELSE doing[f]
  BY <1>1 DEF RegInv, Copies
<1>4. Copies' /\ RowFirst'
  BY <1>1, <1>3 DEF RegInv, Copies, RowFirst, GetConnection
<1>5. CopiesLag'
  BY <1>1, <1>2, <1>3 DEF RegInv, CopiesLag
<1>6. RegistryKeeps'
  BY <1>1, <1>3 DEF RegInv, RegistryKeeps
<1> QED BY <1>4, <1>5, <1>6 DEF RegInv

(* The row that is written holds every change of the row it replaces, because  *)
(* the copy it was made from was of that revision.                             *)
LEMMA UpdateConnectionKeeps ==
  ASSUME RegInv, NEW e \in Editors, UpdateConnection(e)
  PROVE  RegInv'
<1>0. doing[e] = "editing" /\ copy[e] \in ConnectionRows /\ connection \in ConnectionRows
  BY DEF UpdateConnection, RegInv, Copies, RowFirst
<1>1. PICK edited \in Edits(copy[e]) :
        IF connection.revision # copy[e].revision THEN Refuses(e)
        ELSE /\ connection' = [edited EXCEPT !.changes = @ \union {e}]
             /\ copy' = [copy EXCEPT ![e] = connection']
             /\ EditEnds(e, "edited") /\ UNCHANGED tool
  BY DEF UpdateConnection
<1>2. CASE connection.revision # copy[e].revision
  BY <1>1, <1>2, RefusesKeeps
<1>3. CASE connection.revision = copy[e].revision
  <2>1. edited \in ConnectionRows /\ edited.revision = connection.revision + 1 /\ edited.changes = connection.changes
    BY <1>0, <1>1, <1>3, EditsAreRows DEF RegInv, CopiesLag
  <2>2. /\ copy' = [copy EXCEPT ![e] = connection'] /\ doing' = [doing EXCEPT ![e] = "edited"]
        /\ UNCHANGED tool /\ connection' = [edited EXCEPT !.changes = @ \union {e}]
    BY <1>1, <1>3 DEF EditEnds
  <2>3. /\ connection' \in ConnectionRows /\ connection'.revision = connection.revision + 1
        /\ connection'.changes = connection.changes \union {e}
    BY <2>1, <2>2 DEF ConnectionRows
  <2>4. connection.revision \in Nat /\ connection' # NoRow
    BY <1>0, <2>3, RegistryAssumption DEF ConnectionRows
  <2>5. \A f \in Editors : copy'[f] = IF f = e THEN connection' ELSE copy[f]
    BY <2>2 DEF RegInv, Copies
  <2>6. \A f \in Editors : doing'[f] = IF f = e THEN "edited" ELSE doing[f]
    BY <2>2 DEF RegInv, Copies
  <2>7. Copies' /\ RowFirst'
    BY <1>0, <2>2, <2>3, <2>4, <2>5, <2>6 DEF RegInv, Copies, RowFirst
  <2>8. \A f \in Editors : doing[f] \in {"editing", "edited"} =>
          copy[f].revision \in Nat /\ copy[f].revision <= connection.revision
    BY DEF RegInv, Copies, CopiesLag, ConnectionRows
  <2>9. CopiesLag'
    BY <2>3, <2>4, <2>5, <2>6, <2>8 DEF CopiesLag
  <2>10. RegistryKeeps'
    <3> SUFFICES ASSUME NEW f \in Editors
                 PROVE  /\ doing'[f] = "edited" => f \in connection'.changes
                        /\ doing'[f] = "discovered" => copy'[f].at < tool'.at \/ copy'[f] = tool'
                        /\ \A g \in Editors : doing'[f] = "edited" /\ doing'[g] = "edited" /\ f # g =>
                             copy'[f].revision # copy'[g].revision
      BY DEF RegistryKeeps
    <3>1. doing'[f] = "edited" => f \in connection'.changes
      BY <2>3, <2>6 DEF RegInv, RegistryKeeps
    <3>2. doing'[f] = "discovered" => copy'[f].at < tool'.at \/ copy'[f] = tool'
      BY <2>2, <2>5, <2>6 DEF RegInv, RegistryKeeps
    <3>3. ASSUME NEW g \in Editors, doing'[f] = "edited", doing'[g] = "edited", f # g
          PROVE  copy'[f].revision # copy'[g].revision
      <4>1. CASE f # e /\ g # e
        BY <3>3, <4>1, <2>5, <2>6 DEF RegInv, RegistryKeeps
      <4>2. CASE f = e \/ g = e
        BY <3>3, <4>2, <2>3, <2>4, <2>5, <2>6, <2>8
      <4> QED BY <4>1, <4>2
    <3> QED BY <3>1, <3>2, <3>3
  <2> QED BY <2>7, <2>9, <2>10 DEF RegInv
<1> QED BY <1>2, <1>3

(* A discovery that is saved is later than the Tool's, or is the Tool's.       *)
LEMMA SaveToolSnapshotKeeps ==
  ASSUME RegInv, NEW e \in Editors, SaveToolSnapshot(e)
  PROVE  RegInv'
<1>1. PICK state \in ToolStates, at \in 1..MaxStamp :
        LET found == Discovered(copy[e], state, at)
        IN IF \/ found.scope # connection.scope
              \/ tool # NoRow /\ at <= tool.at /\ (at = tool.at => found.tool # tool)
           THEN Refuses(e)
           ELSE /\ tool' = found.tool
                /\ copy' = [copy EXCEPT ![e] = found.tool]
                /\ EditEnds(e, "discovered") /\ UNCHANGED connection
  BY DEF SaveToolSnapshot
<1> DEFINE new == [state |-> state, at |-> at]
<1>2. CASE Refuses(e)
  BY <1>2, RefusesKeeps
<1>3. CASE ~Refuses(e)
  <2>1. /\ tool' = new /\ copy' = [copy EXCEPT ![e] = new] /\ doing' = [doing EXCEPT ![e] = "discovered"]
        /\ UNCHANGED connection
        /\ tool # NoRow => at > tool.at \/ new = tool
    <3>1. ~(tool # NoRow /\ at <= tool.at /\ (at = tool.at => new # tool))
      BY <1>1, <1>3 DEF Discovered
    <3>2. tool # NoRow => tool.at \in Int
      BY DEF RegInv, RowFirst, ToolRows
    <3> QED BY <1>1, <1>3, <3>1, <3>2 DEF Discovered, EditEnds
  <2>2. new \in ToolRows /\ new # NoRow
    BY RegistryAssumption DEF ToolRows
  <2>3. doing[e] = "discovering"
    BY DEF SaveToolSnapshot
  <2> HIDE DEF new
  <2>4. new.at = at /\ at \in Int
    BY DEF new
  <2>5. tool # NoRow => tool.at \in Int
    BY DEF RegInv, RowFirst, ToolRows
  <2>6. \A f \in Editors : doing[f] = "discovered" => copy[f].at \in Int /\ tool # NoRow
    BY DEF RegInv, Copies, RowFirst, ToolRows
  <2>7. Copies' /\ RowFirst' /\ CopiesLag'
    BY <2>1, <2>2, <2>3 DEF RegInv, Copies, RowFirst, CopiesLag
  <2>8. RegistryKeeps'
    BY <2>1, <2>2, <2>3, <2>4, <2>5, <2>6 DEF RegInv, Copies, RegistryKeeps
  <2> QED BY <2>7, <2>8 DEF RegInv
<1> QED BY <1>2, <1>3

(* No step of a caller breaks the invariant.                                  *)
LEMMA RegInvStep ==
  ASSUME RegInv, [RegistryNext]_registryVars
  PROVE  RegInv'
<1>1. CASE UNCHANGED registryVars
  BY <1>1 DEF registryVars, RegInv, Copies, RowFirst, CopiesLag, RegistryKeeps
<1>2. CASE RegistryNext
  BY <1>2, AddConnectionKeeps, GetConnectionKeeps,
     UpdateConnectionKeeps, SaveToolSnapshotKeeps DEF RegistryNext
<1> QED BY <1>1, <1>2

(* What a caller of the registry was told is saved is never overwritten by     *)
(* another that read before it, and is never older than what replaced it.      *)
THEOREM SavedStays == RegistrySpec => []RegistryKeeps
<1>1. RegistrySpec => []RegInv
  BY RegInvInit, RegInvStep, PTL DEF RegistrySpec
<1>2. RegInv => RegistryKeeps
  BY DEF RegInv
<1> QED BY <1>1, <1>2, PTL

-----------------------------------------------------------------------------
(* The file vault                                                             *)

VaultSteps == {"none", "name", "link", "unlink", "sync_new", "rename", "delete", "sync"}
Contents == Materials \union {Absent}

VaultTypes ==
  /\ file \in [References -> Contents]
  /\ durable \in [References -> SUBSET Contents]
  /\ expected \in [References -> SUBSET Contents]
  /\ given \subseteq References /\ twin \subseteq References
  /\ operation \in [at : VaultSteps, ref : References \union {Absent}, material : Contents,
                    attempts : Nat]

(* What is under a name now is among what a power cut may leave there.        *)
NowDurable == \A r \in References : file[r] \in durable[r]

(* A reference that was returned has one name, and what is or may be left     *)
(* under it is what its callers may expect.                                   *)
GivenKept ==
  \A r \in given : r \notin twin /\ durable[r] \subseteq expected[r]

(* A creation works on a name that was not returned yet, whose second name is *)
(* gone before the sync; the other operations on one that was.                *)
OperationFits ==
  /\ operation.at \in {"link", "unlink", "sync_new"} => operation.ref \in References \ given
  /\ operation.at = "sync_new" => operation.ref \notin twin
  /\ operation.at \in {"rename", "delete", "sync"} => operation.ref \in given

VaultInv == VaultTypes /\ NowDurable /\ GivenKept /\ OperationFits

-----------------------------------------------------------------------------
(* An empty vault.                                                            *)
LEMMA VaultInvInit == VaultInit => VaultInv
  BY DEF VaultInit, VaultInv, VaultTypes, NowDurable, GivenKept, OperationFits, NoOperation,
     VaultSteps, Contents

(* An operation that moves on, or ends, while the disk and the promises stay. *)
LEMMA OperationMoves ==
  ASSUME VaultInv, UNCHANGED <<file, durable, expected, given>>,
         twin' \subseteq twin,
         operation' \in [at : VaultSteps, ref : References \union {Absent}, material : Contents,
                         attempts : Nat],
         OperationFits'
  PROVE  VaultInv'
  BY DEF VaultInv, VaultTypes, NowDurable, GivenKept

(* An operation that ends: whether it was answered, failed or crashed.        *)
LEMMA LeavesFits ==
  ASSUME operation' = NoOperation
  PROVE  OperationFits' /\ operation' \in [at : VaultSteps, ref : References \union {Absent},
                                           material : Contents, attempts : Nat]
  BY DEF OperationFits, NoOperation, VaultSteps, Contents

(* An operation that fails leaves the files alone.                            *)
LEMMA FailsKeeps ==
  ASSUME VaultInv, NEW step, Fails(step), UNCHANGED <<file, durable, expected, given>>,
         twin' \subseteq twin
  PROVE  VaultInv'
  BY LeavesFits, OperationMoves DEF Fails, Leaves

(* What an operation puts under its name is added to what the caller may find *)
(* there, and to what a power cut may leave.                                  *)
LEMMA PutKeeps ==
  ASSUME VaultInv, NEW r \in References, NEW m \in Contents,
         file' = [file EXCEPT ![r] = m],
         durable' = [durable EXCEPT ![r] = @ \union {m}],
         Promise(r, expected[r] \union {m}),
         given' = given, twin' \subseteq twin \union {r}, r \in given => twin' = twin,
         OperationFits',
         operation' \in [at : VaultSteps, ref : References \union {Absent}, material : Contents,
                         attempts : Nat]
  PROVE  VaultInv'
  <1>1. VaultTypes'
    BY DEF VaultInv, VaultTypes, Promise
  <1>2. NowDurable'
    BY DEF VaultInv, VaultTypes, NowDurable
  <1>3. GivenKept'
    BY DEF VaultInv, VaultTypes, GivenKept, Promise
  <1> QED
    BY <1>1, <1>2, <1>3 DEF VaultInv

(* An operation that ends with a sync: what is there is promised, and is all  *)
(* that a power cut can leave.                                                *)
LEMMA SyncedKeeps ==
  ASSUME VaultInv, NEW r \in References, Synced, Promise(r, {file[r]}), Leaves,
         UNCHANGED <<file, twin>>, given' \in {given, given \union {r}}, r \notin twin
  PROVE  VaultInv'
  <1>1. VaultTypes'
    BY LeavesFits DEF VaultInv, VaultTypes, Promise, Synced, Leaves
  <1>2. NowDurable'
    BY DEF VaultInv, VaultTypes, NowDurable, Synced
  <1>3. \A q \in given \ {r} : durable'[q] \subseteq expected[q] /\ q \notin twin
    BY DEF VaultInv, VaultTypes, NowDurable, GivenKept, Synced
  <1>4. GivenKept'
    <2> SUFFICES ASSUME NEW q \in given' PROVE q \notin twin' /\ durable'[q] \subseteq expected'[q]
      BY DEF GivenKept
    <2>1. CASE q = r
      BY <2>1 DEF VaultInv, VaultTypes, Promise, Synced
    <2>2. CASE q # r
      BY <1>3, <2>2 DEF VaultInv, VaultTypes, Promise
    <2> QED
      BY <2>1, <2>2
  <1> QED
    BY <1>1, <1>2, <1>4, LeavesFits DEF VaultInv, Leaves

(* A creation starts on a name that was not returned.                         *)
LEMMA CreateKeeps ==
  ASSUME VaultInv, NEW t \in Threads, NEW m \in Materials, Create(t, m)
  PROVE  VaultInv'
  <1>1. OperationFits' /\ operation' \in [at : VaultSteps, ref : References \union {Absent},
                                          material : Contents, attempts : Nat]
    BY DEF Create, OperationFits, VaultSteps, Contents
  <1> QED
    BY <1>1, OperationMoves DEF Create, diskVars, promiseVars

(* A name that is tried: a reference that was returned has a file or is       *)
(* never drawn again.                                                         *)
LEMMA NameKeeps ==
  ASSUME VaultInv, NEW r \in References, Name(r)
  PROVE  VaultInv'
  <1> DEFINE new == [operation EXCEPT !.attempts = @ + 1, !.ref = r,
                                      !.at = IF file[r] = Absent THEN "link" ELSE "name"]
  <1>1. /\ new \in [at : VaultSteps, ref : References \union {Absent}, material : Contents,
                    attempts : Nat]
        /\ operation' = new
        /\ new.ref = r /\ new.at \in {"link", "name"}
        /\ new.at = "link" => r \notin given
    <2> DEFINE step == IF file[r] = Absent THEN "link" ELSE "name"
               tried == operation.attempts + 1
    <2>1. tried \in Nat
      BY DEF VaultInv, VaultTypes
    <2>2. step \in {"link", "name"} /\ (step = "link" => r \notin given) /\ step \in VaultSteps
      BY DEF Name, VaultSteps
    <2>3. operation' = [operation EXCEPT !.attempts = tried, !.ref = r, !.at = step]
      BY DEF Name
    <2> HIDE DEF step, tried
    <2>4. [operation EXCEPT !.attempts = tried, !.ref = r, !.at = step] \in
            [at : VaultSteps, ref : References \union {Absent}, material : Contents, attempts : Nat]
      BY <2>1, <2>2 DEF VaultInv, VaultTypes
    <2> QED
      BY <2>2, <2>3, <2>4 DEF VaultInv, VaultTypes, Name
  <1>2. OperationFits'
    BY <1>1 DEF OperationFits, Name, promiseVars
  <1> QED
    BY <1>1, <1>2, OperationMoves DEF Name, diskVars, promiseVars

(* An operation that goes to its next step.                                   *)
LEMMA GoesTo ==
  ASSUME VaultInv, NEW step \in VaultSteps, Goes(step)
  PROVE  /\ operation' \in [at : VaultSteps, ref : References \union {Absent}, material : Contents,
                            attempts : Nat]
         /\ operation'.at = step /\ operation'.ref = operation.ref
  BY DEF Goes, VaultInv, VaultTypes

(* The file gets its name, if nobody has it.                                  *)
LEMMA LinkNewKeeps == ASSUME VaultInv, LinkNew PROVE VaultInv'
  <1> DEFINE r == operation.ref
  <1>1. r \in References \ given /\ operation.material \in Contents
    BY DEF LinkNew, VaultInv, VaultTypes, OperationFits
  <1>2. CASE Fails("link") /\ UNCHANGED <<diskVars, promiseVars, outages>>
    BY <1>2, FailsKeeps DEF diskVars, promiseVars
  <1>3. CASE /\ file' = [file EXCEPT ![r] = operation.material] /\ twin' = twin \union {r}
             /\ durable' = [durable EXCEPT ![r] = @ \union {operation.material}]
             /\ Promise(r, expected[r] \union {operation.material})
             /\ Goes("unlink") /\ given' = given
    <2>1. OperationFits' /\ operation' \in [at : VaultSteps, ref : References \union {Absent},
                                            material : Contents, attempts : Nat]
      BY <1>1, <1>3, GoesTo DEF OperationFits, VaultSteps
    <2> QED
      BY <1>1, <1>3, <2>1, PutKeeps
  <1> QED
    BY <1>2, <1>3 DEF LinkNew

(* The temporary name goes before the sync.                                   *)
LEMMA UnlinkTemporaryKeeps == ASSUME VaultInv, UnlinkTemporary PROVE VaultInv'
  <1>1. CASE Fails("unlink") /\ twin' \in {twin, twin \ {operation.ref}} /\ UNCHANGED <<file, durable, promiseVars>>
    BY <1>1, FailsKeeps DEF promiseVars
  <1>2. CASE /\ twin' = twin \ {operation.ref} /\ Goes("sync_new")
             /\ UNCHANGED <<file, durable, promiseVars>>
    <2>1. OperationFits' /\ operation' \in [at : VaultSteps, ref : References \union {Absent},
                                            material : Contents, attempts : Nat]
      BY <1>2, GoesTo DEF UnlinkTemporary, OperationFits, VaultInv, VaultSteps, promiseVars
    <2> QED
      BY <1>2, <2>1, OperationMoves DEF promiseVars
  <1> QED
    BY <1>1, <1>2 DEF UnlinkTemporary

(* Once synced the name is durable, and only then is it returned.             *)
LEMMA SyncNewKeeps == ASSUME VaultInv, SyncNew PROVE VaultInv'
  <1>1. operation.ref \in References \ given /\ operation.ref \notin twin
    BY DEF SyncNew, VaultInv, OperationFits
  <1>2. CASE Fails("sync_new") /\ UNCHANGED <<diskVars, promiseVars>>
    BY <1>2, FailsKeeps DEF diskVars, promiseVars
  <1>3. CASE /\ Synced /\ given' = given \union {operation.ref}
             /\ Promise(operation.ref, {file[operation.ref]}) /\ Leaves /\ UNCHANGED <<file, twin>>
    BY <1>1, <1>3, SyncedKeeps
  <1> QED
    BY <1>2, <1>3 DEF SyncNew

(* A replacement or a deletion is of a name that was returned.                *)
LEMMA ChangeKeeps ==
  ASSUME VaultInv, NEW t \in Threads, NEW r \in References, NEW step \in {"rename", "delete"},
         NEW m \in Contents, Change(t, r, step, m)
  PROVE  VaultInv'
  <1>1. OperationFits' /\ operation' \in [at : VaultSteps, ref : References \union {Absent},
                                          material : Contents, attempts : Nat]
    BY DEF Change, OperationFits, VaultSteps, promiseVars
  <1> QED
    BY <1>1, OperationMoves DEF Change, diskVars, promiseVars

(* After the rename a power cut may leave either material.                    *)
LEMMA RenameKeeps == ASSUME VaultInv, Rename PROVE VaultInv'
  <1> DEFINE r == operation.ref
  <1>1. r \in given /\ r \in References /\ operation.material \in Contents
    BY DEF Rename, VaultInv, VaultTypes, OperationFits
  <1>2. CASE Fails("rename") /\ UNCHANGED <<diskVars, promiseVars>>
    BY <1>2, FailsKeeps DEF diskVars, promiseVars
  <1>3. CASE /\ file' = [file EXCEPT ![r] = operation.material]
             /\ durable' = [durable EXCEPT ![r] = @ \union {operation.material}]
             /\ Promise(r, expected[r] \union {operation.material})
             /\ Goes("sync") /\ UNCHANGED <<twin, given>>
    <2>1. OperationFits' /\ operation' \in [at : VaultSteps, ref : References \union {Absent},
                                            material : Contents, attempts : Nat]
      BY <1>1, <1>3, GoesTo DEF OperationFits, VaultSteps
    <2> QED
      BY <1>1, <1>3, <2>1, PutKeeps
  <1> QED
    BY <1>2, <1>3 DEF Rename

(* So may a deletion.                                                         *)
LEMMA UnlinkKeeps == ASSUME VaultInv, Unlink PROVE VaultInv'
  <1> DEFINE r == operation.ref
  <1>1. r \in given /\ r \in References /\ Absent \in Contents
    BY DEF Unlink, VaultInv, VaultTypes, OperationFits, Contents
  <1>2. CASE Fails("delete") /\ UNCHANGED <<diskVars, promiseVars>>
    BY <1>2, FailsKeeps DEF diskVars, promiseVars
  <1>3. CASE /\ file' = [file EXCEPT ![r] = Absent]
             /\ durable' = [durable EXCEPT ![r] = @ \union {Absent}]
             /\ Promise(r, expected[r] \union {Absent})
             /\ Goes("sync") /\ UNCHANGED <<twin, given>>
    <2>1. OperationFits' /\ operation' \in [at : VaultSteps, ref : References \union {Absent},
                                            material : Contents, attempts : Nat]
      BY <1>1, <1>3, GoesTo DEF OperationFits, VaultSteps
    <2> QED
      BY <1>1, <1>3, <2>1, PutKeeps
  <1> QED
    BY <1>2, <1>3 DEF Unlink

(* After the sync only the last content can be left.                          *)
LEMMA SyncKeeps == ASSUME VaultInv, Sync PROVE VaultInv'
  <1>1. operation.ref \in References /\ operation.ref \notin twin
    BY DEF Sync, VaultInv, VaultTypes, GivenKept, OperationFits
  <1>2. CASE Fails("sync") /\ UNCHANGED <<diskVars, promiseVars>>
    BY <1>2, FailsKeeps DEF diskVars, promiseVars
  <1>3. CASE /\ Synced /\ Promise(operation.ref, {file[operation.ref]}) /\ Leaves
             /\ UNCHANGED <<file, twin, given>>
    BY <1>1, <1>3, SyncedKeeps
  <1> QED
    BY <1>2, <1>3 DEF Sync

(* A power cut leaves one of the contents that were durable under each name.  *)
LEMMA PowerCutKeeps == ASSUME VaultInv, PowerCut PROVE VaultInv'
  <1>1. /\ file' \in [References -> Contents] /\ \A r \in References : file'[r] \in durable[r]
        /\ durable' = [r \in References |-> {file'[r]}]
        /\ twin' \subseteq References /\ \A r \in twin' : r \in twin \/ r \notin given
        /\ UNCHANGED <<given, expected>> /\ operation' = NoOperation
    BY DEF PowerCut, Leaves, promiseVars, Contents
  <1>2. VaultTypes' /\ OperationFits'
    BY <1>1, LeavesFits DEF VaultInv, VaultTypes
  <1>3. NowDurable'
    BY <1>1 DEF NowDurable
  <1>4. GivenKept'
    BY <1>1 DEF VaultInv, VaultTypes, GivenKept
  <1> QED
    BY <1>2, <1>3, <1>4 DEF VaultInv

(* No step of the vault breaks the invariant.                                 *)
LEMMA VaultInvNext == VaultInv /\ [VaultNext]_vaultVars => VaultInv'
  <1> SUFFICES ASSUME VaultInv, [VaultNext]_vaultVars PROVE VaultInv'
    OBVIOUS
  <1>1. ASSUME NEW t \in Threads, NEW m \in Materials, Create(t, m) PROVE VaultInv'
    BY <1>1, CreateKeeps
  <1>2. ASSUME NEW r \in References, Name(r) PROVE VaultInv'
    BY <1>2, NameKeeps
  <1>3. CASE OutOfNames \/ VaultCrash
    <2>1. UNCHANGED <<file, durable, expected, given, twin>> /\ operation' = NoOperation
      BY <1>3 DEF OutOfNames, VaultCrash, Leaves, diskVars, promiseVars
    <2> QED
      BY <2>1, LeavesFits, OperationMoves
  <1>4. CASE LinkNew \/ UnlinkTemporary \/ SyncNew
    BY <1>4, LinkNewKeeps, UnlinkTemporaryKeeps, SyncNewKeeps
  <1>5. ASSUME NEW t \in Threads, NEW r \in References,
               (\E m \in Materials : Change(t, r, "rename", m)) \/ Change(t, r, "delete", Absent)
        PROVE  VaultInv'
    BY <1>5, ChangeKeeps DEF Contents
  <1>6. CASE Rename \/ Unlink \/ Sync
    BY <1>6, RenameKeeps, UnlinkKeeps, SyncKeeps
  <1>7. CASE PowerCut
    BY <1>7, PowerCutKeeps
  <1>8. CASE UNCHANGED vaultVars
    BY <1>8, OperationMoves DEF vaultVars, VaultInv, VaultTypes, OperationFits
  <1> QED
    BY <1>1, <1>2, <1>3, <1>4, <1>5, <1>6, <1>7, <1>8, Zenon DEF VaultNext

(* Whatever fails, crashes or loses its power, a secret whose reference was   *)
(* returned is what its last answered change, or one whose outcome was never  *)
(* told, made of it, for any number of references, materials and faults.      *)
THEOREM VaultKeeps == VaultSpec => []SecretsKept
  <1>1. VaultInv => SecretsKept
    BY DEF VaultInv, VaultTypes, NowDurable, GivenKept, SecretsKept, Found, Intact
  <1>2. VaultSpec => []VaultInv
    BY VaultInvInit, VaultInvNext, PTL DEF VaultSpec
  <1> QED
    BY <1>1, <1>2, PTL

-----------------------------------------------------------------------------
(* Snapshots and migrations                                                   *)

Histories == {<<>>} \union {Package[p] : p \in Processes}
Steps_ == Owning \union {"down", "applied", "refused_journal", "refused_history"}
ProcessRecords == [at : Steps_, for : {"none", "migration", "runtime"}, artifact : Nat]
MadeRecords == [of : Histories, target : Histories]
BatchRecords == [from : Histories, to : Histories, artifact : Nat]

StorageTypes ==
  /\ lock \in Processes \union {Nobody}
  /\ applied \in Histories
  /\ process \in [Processes -> ProcessRecords]
  /\ made \in Seq(MadeRecords) /\ batches \in Seq(BatchRecords)
  /\ directory \subseteq {"snapshot", "manifest"} \X (1..Len(made))
  /\ synced \subseteq {"snapshot", "manifest"} \X (1..Len(made))
  /\ returned \subseteq 1..Len(made)
  /\ cuts \in Nat

(* What was returned is there, and a power cut leaves it there.               *)
ReturnedKept == \A n \in returned : Pair(n) \subseteq directory \intersect synced

ManifestLast ==
  cuts = 0 => \A n \in DOMAIN made : <<"manifest", n>> \in directory => <<"snapshot", n>> \in directory

(* A batch has the artifact that was returned to its process, of the schema   *)
(* that it found, or it was the first one.                                    *)
BatchHas(i) ==
  LET b == batches[i] IN
  /\ b.artifact # 0 => b.artifact \in returned /\ made[b.artifact] = [of |-> b.from, target |-> b.to]
  /\ b.artifact = 0 => b.from = <<>> /\ i = 1
BatchesUndone == \A i \in DOMAIN batches : BatchHas(i)

NothingYet == ~exists => applied = <<>> /\ batches = <<>>

Linking == {"link_snapshot", "link_manifest", "sync", "verify"}
Removing == {"remove_manifest", "remove_snapshot"}
Batching == {"migrate", "commit"}

(* What a process at a step r knows: that the lock is its own; of its         *)
(* artifact, how far it is, that nobody was told of it yet, and, before and   *)
(* in a migration, that it has the schema as it is.                           *)
Artifact(p, r) == r.for = "migration" => made[r.artifact] = [of |-> applied, target |-> Package[p]]
Fits(p, r) ==
  /\ r.at \in Owning => lock = p
  /\ r.at \notin Linking \union Removing \union Batching => r.artifact = 0
  /\ r.at \in Linking => r.artifact \in DOMAIN made /\ r.artifact \notin returned /\ Artifact(p, r)
  /\ r.at = "link_manifest" => <<"snapshot", r.artifact>> \in directory
  /\ r.at \in {"sync", "verify"} => Pair(r.artifact) \subseteq directory
  /\ r.at = "verify" => Pair(r.artifact) \subseteq synced
  /\ r.at \in Removing => r.artifact \notin returned
  /\ r.at = "remove_snapshot" => <<"manifest", r.artifact>> \notin directory
  /\ r.at \in Batching =>
       IF r.artifact = 0 THEN applied = <<>> /\ batches = <<>>
       ELSE r.artifact \in returned /\ made[r.artifact] = [of |-> applied, target |-> Package[p]]
  /\ r.at = "commit" => exists

ProcessesFit == \A p \in Processes : Fits(p, process[p])

StorageInv ==
  StorageTypes /\ ReturnedKept /\ ManifestLast /\ BatchesUndone /\ NothingYet /\ ProcessesFit

-----------------------------------------------------------------------------
(* A process that is down holds nothing.                                      *)
LEMMA DownFits == ASSUME NEW p \in Processes PROVE Down \in ProcessRecords /\ Fits(p, Down) /\ Fits(p, Down)'
  BY DEF Down, ProcessRecords, Fits, Steps_, Owning, Copying, Linking, Removing, Batching

(* Nothing was started yet.                                                   *)
LEMMA StorageInvInit == StorageInit => StorageInv
  <1> SUFFICES ASSUME StorageInit PROVE StorageInv
    OBVIOUS
  <1>1. StorageTypes
    BY DownFits DEF StorageInit, StorageTypes, Histories
  <1>2. ReturnedKept /\ ManifestLast /\ BatchesUndone /\ NothingYet
    BY DEF StorageInit, ReturnedKept, ManifestLast, BatchesUndone, NothingYet
  <1>3. ProcessesFit
    BY DownFits DEF StorageInit, ProcessesFit
  <1> QED
    BY <1>1, <1>2, <1>3 DEF StorageInv

(* A process that does not hold the lock knows nothing that could change.     *)
LEMMA OthersFit ==
  ASSUME NEW q \in Processes, Fits(q, process[q]), process[q].at \notin Owning,
         process'[q] = process[q]
  PROVE  Fits(q, process[q])'
  BY DEF Fits, Owning, Copying, Linking, Removing, Batching

(* One process at a time holds the lock.                                      *)
LEMMA OneOwner ==
  ASSUME StorageInv, NEW p \in Processes, lock \in {Nobody, p} \/ process[p].at \in Owning,
         NEW q \in Processes \ {p}
  PROVE  process[q].at \notin Owning
  BY StorageAssumption DEF StorageInv, ProcessesFit, Fits

(* A process that takes its next step while the files stay.                   *)
LEMMA ProcessMoves ==
  ASSUME StorageInv, NEW p \in Processes, NEW new \in ProcessRecords,
         process' = [process EXCEPT ![p] = new],
         UNCHANGED <<exists, applied, made, directory, synced, returned, batches, cuts>>,
         lock' \in Processes \union {Nobody},
         lock' = lock \/ lock \in {Nobody, p} \/ process[p].at \in Owning,
         Fits(p, new)'
  PROVE  StorageInv'
  <1>1. StorageTypes'
    BY DEF StorageInv, StorageTypes
  <1>2. ReturnedKept' /\ ManifestLast' /\ BatchesUndone' /\ NothingYet'
    BY DEF StorageInv, ReturnedKept, ManifestLast, BatchesUndone, BatchHas, NothingYet
  <1>3. ProcessesFit'
    <2> SUFFICES ASSUME NEW q \in Processes PROVE Fits(q, process[q])'
      BY DEF ProcessesFit
    <2>1. CASE q = p
      BY <2>1 DEF StorageInv, StorageTypes
    <2>2. CASE q # p
      <3>1. process'[q] = process[q] /\ Fits(q, process[q])
        BY <2>2 DEF StorageInv, StorageTypes, ProcessesFit
      <3>2. CASE process[q].at \notin Owning
        BY <3>1, <3>2, OthersFit
      <3>3. CASE lock' = lock
        BY <3>1, <3>3 DEF Fits, Artifact
      <3> QED
        BY <2>2, <3>2, <3>3, OneOwner
    <2> QED
      BY <2>1, <2>2
  <1> QED
    BY <1>1, <1>2, <1>3 DEF StorageInv

(* The owner of the lock takes a step that changes the files: what the others *)
(* know does not depend on them.                                              *)
LEMMA OwnerMoves ==
  ASSUME StorageInv, NEW p \in Processes, NEW new \in ProcessRecords,
         process' = [process EXCEPT ![p] = new], process[p].at \in Owning, Fits(p, new)'
  PROVE  ProcessesFit' /\ process' \in [Processes -> ProcessRecords]
  <1>1. process' \in [Processes -> ProcessRecords]
    BY DEF StorageInv, StorageTypes
  <1> SUFFICES ASSUME NEW q \in Processes PROVE Fits(q, process[q])'
    BY <1>1 DEF ProcessesFit
  <1>2. CASE q = p
    BY <1>2 DEF StorageInv, StorageTypes
  <1>3. CASE q # p
    <2>1. process'[q] = process[q] /\ Fits(q, process[q])
      BY <1>3 DEF StorageInv, StorageTypes, ProcessesFit
    <2> QED
      BY <1>3, <2>1, OneOwner, OthersFit
  <1> QED
    BY <1>2, <1>3

(* What a process becomes by its next step.                                   *)
LEMMA StepsTo ==
  ASSUME StorageInv, NEW p \in Processes, NEW step \in Steps_, Steps(p, step)
  PROVE  \E new \in ProcessRecords :
           /\ process' = [process EXCEPT ![p] = new]
           /\ new.at = step /\ new.for = process[p].for /\ new.artifact = process[p].artifact
  <1> DEFINE new == [process[p] EXCEPT !.at = step]
  <1>1. process[p] \in ProcessRecords
    BY DEF StorageInv, StorageTypes
  <1>2. /\ new \in ProcessRecords /\ new.at = step /\ new.for = process[p].for
        /\ new.artifact = process[p].artifact
    BY <1>1 DEF ProcessRecords
  <1>3. process' = [process EXCEPT ![p] = new]
    BY DEF Steps
  <1> QED
    BY <1>2, <1>3

(* What a process knows where it is.                                          *)
LEMMA ItFits ==
  ASSUME StorageInv, NEW p \in Processes
  PROVE  /\ Fits(p, process[p]) /\ process[p] \in ProcessRecords
         /\ process[p].artifact \in Nat /\ process[p].at \in Steps_
         /\ lock \in Processes \union {Nobody}
  BY DEF StorageInv, StorageTypes, ProcessesFit, ProcessRecords

(* Steps that leave a process without an artifact.                            *)
LEMMA BareFits ==
  ASSUME NEW p \in Processes, NEW new, new.artifact = 0,
         new.at \in Steps_ \ (Linking \union Removing \union Batching),
         new.at \in Owning => lock' = p
  PROVE  Fits(p, new)'
  BY DEF Fits, Linking, Removing, Batching

(* A process that gets the lock has no artifact.                              *)
LEMMA LaunchKeeps == ASSUME StorageInv, NEW p \in Processes, Launch(p) PROVE StorageInv'
  <1>1. /\ process[p] = Down /\ lock = Nobody /\ lock' = p /\ Steps(p, "plan")
        /\ UNCHANGED <<exists, applied, made, directory, synced, returned, batches, cuts>>
    BY DEF Launch, Locks, fileVars, backupVars, faultVars
  <1>2. PICK new \in ProcessRecords : /\ process' = [process EXCEPT ![p] = new]
                                      /\ new.at = "plan" /\ new.artifact = 0
    BY <1>1, StepsTo DEF Steps_, Owning, Down
  <1>3. Fits(p, new)'
    BY <1>1, <1>2, BareFits DEF Steps_, Owning, Linking, Removing, Batching
  <1> QED
    BY <1>1, <1>2, <1>3, ProcessMoves

(* A process that lets go of the lock, or never held it, and goes on to a     *)
(* step where it needs none.                                                  *)
LEMMA StandsBy ==
  ASSUME StorageInv, NEW p \in Processes, NEW new \in ProcessRecords,
         process' = [process EXCEPT ![p] = new],
         UNCHANGED <<exists, applied, made, directory, synced, returned, batches, cuts>>,
         \/ lock' = lock
         \/ lock' = Nobody /\ process[p].at \in Owning,
         new.at \in {"down", "applied", "refused_journal", "refused_history"}, new.artifact = 0
  PROVE  StorageInv'
  <1>1. Fits(p, new)'
    BY BareFits DEF Steps_, Owning, Copying, Linking, Removing, Batching
  <1> QED
    BY <1>1, ItFits, ProcessMoves

(* Whoever runs or probes has no artifact.                                    *)
LEMMA RunsKeep ==
  ASSUME StorageInv, NEW p \in Processes, NEW new \in ProcessRecords,
         process' = [process EXCEPT ![p] = new],
         UNCHANGED <<exists, applied, made, directory, synced, returned, batches, cuts>>,
         new.at \in {"running", "writing", "probe", "copy"}, new.artifact = 0, lock' = p,
         lock = Nobody \/ process[p].at \in Owning
  PROVE  StorageInv'
  <1>1. Fits(p, new)'
    BY BareFits DEF Steps_, Owning, Copying, Linking, Removing, Batching
  <1> QED
    BY <1>1, ProcessMoves

(* A process that plans has no artifact yet; a snapshot comes before a batch. *)
LEMMA PlanKeeps == ASSUME StorageInv, NEW p \in Processes, PlanMigration(p) PROVE StorageInv'
  <1>1. /\ process[p].at = "plan" /\ process[p].artifact = 0 /\ lock = p
        /\ UNCHANGED <<exists, applied, made, directory, synced, returned, batches, cuts>>
    BY ItFits DEF PlanMigration, fileVars, backupVars, faultVars, Fits, Owning, Linking, Removing, Batching
  <1>2. ASSUME NEW step \in {"refused_journal", "refused_history", "applied"}, Steps(p, step), Unlocks
        PROVE  StorageInv'
    <2>1. PICK new \in ProcessRecords : /\ process' = [process EXCEPT ![p] = new]
                                        /\ new.at = step /\ new.artifact = 0
      BY <1>1, <1>2, StepsTo DEF Steps_
    <2>2. process[p].at \in Owning
      BY <1>1 DEF Owning
    <2> QED
      BY <1>1, <1>2, <2>1, <2>2, StandsBy DEF Unlocks
  <1>3. CASE ~exists /\ Steps(p, "migrate") /\ UNCHANGED lock
    <2>1. PICK new \in ProcessRecords : /\ process' = [process EXCEPT ![p] = new]
                                        /\ new.at = "migrate" /\ new.artifact = 0
      BY <1>1, <1>3, StepsTo DEF Steps_, Owning
    <2>2. applied = <<>> /\ batches = <<>>
      BY <1>3 DEF StorageInv, NothingYet
    <2>3. Fits(p, new)'
      BY <1>1, <1>3, <2>1, <2>2 DEF Fits, Linking, Removing, Batching
    <2> QED
      BY <1>1, <1>3, <2>1, <2>3, ItFits, ProcessMoves
  <1>4. CASE process' = [process EXCEPT ![p].at = "copy", ![p].for = "migration"] /\ UNCHANGED lock
    <2> DEFINE new == [process[p] EXCEPT !.at = "copy", !.for = "migration"]
    <2>1. new \in ProcessRecords /\ new.at = "copy" /\ new.artifact = 0
      BY <1>1, ItFits DEF ProcessRecords, Steps_, Owning, Copying
    <2>2. process' = [process EXCEPT ![p] = new]
      BY <1>4
    <2> HIDE DEF new
    <2> QED
      BY <1>1, <1>4, <2>1, <2>2, RunsKeep DEF Owning
  <1> QED
    BY <1>2, <1>3, <1>4 DEF PlanMigration

(* A process that ends after apply holds nothing.                             *)
LEMMA ApplyEndsKeeps == ASSUME StorageInv, NEW p \in Processes, ApplyEnds(p) PROVE StorageInv'
  BY DownFits, StandsBy DEF ApplyEnds, Ends, Down, fileVars, backupVars, faultVars

(* A process that opens has the lock and no artifact.                         *)
LEMMA OpenRuntimeKeeps == ASSUME StorageInv, NEW p \in Processes, OpenRuntime(p) PROVE StorageInv'
  <1>1. /\ process[p].at = "applied" /\ lock = Nobody /\ lock' = p /\ Steps(p, "running")
        /\ UNCHANGED <<exists, applied, made, directory, synced, returned, batches, cuts>>
    BY DEF OpenRuntime, Locks, backupVars, faultVars
  <1>2. PICK new \in ProcessRecords : /\ process' = [process EXCEPT ![p] = new]
                                      /\ new.at = "running" /\ new.artifact = 0
    <2>1. process[p].artifact = 0
      BY <1>1, ItFits DEF Fits, Linking, Removing, Batching
    <2> QED
      BY <1>1, <2>1, StepsTo DEF Steps_, Owning
  <1> QED
    BY <1>1, <1>2, RunsKeep

(* A write is of the rows, not of the schema.                                 *)
LEMMA WriteKeeps == ASSUME StorageInv, NEW p \in Processes, Write(p) PROVE StorageInv'
  <1>1. /\ process[p].at \in {"running", "writing"} /\ lock' = lock /\ process[p].artifact = 0 /\ lock = p
        /\ \E step \in {"running", "writing"} : Steps(p, step)
        /\ UNCHANGED <<exists, applied, made, directory, synced, returned, batches, cuts>>
    BY ItFits DEF Write, fileVars, backupVars, faultVars, Fits, Owning, Linking, Removing, Batching
  <1>2. PICK new \in ProcessRecords : /\ process' = [process EXCEPT ![p] = new]
                                      /\ new.at \in {"running", "writing"} /\ new.artifact = 0
    BY <1>1, StepsTo DEF Steps_, Owning
  <1> QED
    BY <1>1, <1>2, RunsKeep DEF Owning

(* A snapshot is asked for by a process that has none under way.              *)
LEMMA AskSnapshotKeeps == ASSUME StorageInv, NEW p \in Processes, AskSnapshot(p) PROVE StorageInv'
  <1> DEFINE new == [process[p] EXCEPT !.at = "copy", !.for = "runtime"]
  <1>1. /\ process[p].at = "running" /\ lock' = lock /\ process[p].artifact = 0 /\ lock = p
        /\ process' = [process EXCEPT ![p] = new]
        /\ UNCHANGED <<exists, applied, made, directory, synced, returned, batches, cuts>>
    BY ItFits DEF AskSnapshot, fileVars, backupVars, faultVars, Fits, Owning, Linking, Removing, Batching
  <1>2. new \in ProcessRecords /\ new.at = "copy" /\ new.artifact = 0
    BY <1>1, ItFits DEF ProcessRecords, Steps_, Owning, Copying
  <1> HIDE DEF new
  <1> QED
    BY <1>1, <1>2, RunsKeep DEF Owning

(* A process that closes gives the lock back.                                 *)
LEMMA CloseKeeps == ASSUME StorageInv, NEW p \in Processes, Close(p) PROVE StorageInv'
  BY DownFits, StandsBy DEF Close, Ends, Unlocks, Down, Owning, fileVars, backupVars, faultVars

(* A probe has the lock for a moment and nothing else.                        *)
LEMMA ProbeKeeps == ASSUME StorageInv, NEW p \in Processes, Probe(p) PROVE StorageInv'
  <1>1. UNCHANGED <<exists, applied, made, directory, synced, returned, batches, cuts>>
    BY DEF Probe, fileVars, backupVars, faultVars
  <1>2. CASE process[p] = Down /\ Locks(p) /\ Steps(p, "probe")
    <2>1. PICK new \in ProcessRecords : /\ process' = [process EXCEPT ![p] = new]
                                        /\ new.at = "probe" /\ new.artifact = 0
      BY <1>2, StepsTo DEF Steps_, Owning, Down
    <2> QED
      BY <1>1, <1>2, <2>1, RunsKeep DEF Locks
  <1>3. CASE process[p].at = "probe" /\ Unlocks /\ Ends(p)
    BY <1>1, <1>3, DownFits, StandsBy DEF Ends, Unlocks, Down, Owning
  <1> QED
    BY <1>2, <1>3 DEF Probe

(* A batch that fails is rolled back as a whole.                              *)
LEMMA MigrationFailsKeeps == ASSUME StorageInv, NEW p \in Processes, MigrationFails(p) PROVE StorageInv'
  BY DownFits, StandsBy DEF MigrationFails, Ends, Unlocks, Down, Owning, fileVars, backupVars

(* The artifact of a snapshot that fails was told to nobody.                  *)
LEMMA SnapshotFailsKeeps == ASSUME StorageInv, NEW p \in Processes, SnapshotFails(p) PROVE StorageInv'
  <1>1. /\ process[p].at \in Copying /\ Steps(p, "remove_manifest") /\ lock' = lock /\ lock = p
        /\ UNCHANGED <<exists, applied, made, directory, synced, returned, batches, cuts>>
    BY ItFits DEF SnapshotFails, fileVars, backupVars, Fits, Owning
  <1>2. process[p].artifact \notin returned
    <2>1. process[p].at = "copy" => process[p].artifact = 0
      BY ItFits DEF Fits, Linking, Removing, Batching
    <2>2. 0 \notin returned
      BY DEF StorageInv, StorageTypes
    <2> QED
      BY <1>1, <2>1, <2>2, ItFits DEF Fits, Copying, Linking
  <1>3. PICK new \in ProcessRecords : /\ process' = [process EXCEPT ![p] = new]
                                      /\ new.at = "remove_manifest" /\ new.artifact = process[p].artifact
    BY <1>1, StepsTo DEF Steps_, Owning
  <1>4. Fits(p, new)'
    BY <1>1, <1>2, <1>3 DEF Fits, Linking, Removing, Batching
  <1> QED
    BY <1>1, <1>3, <1>4, ItFits, ProcessMoves

-----------------------------------------------------------------------------
(* Steps that change the files *)

(* The connection makes the file; the batch is still to be committed.         *)
LEMMA MigrateKeeps == ASSUME StorageInv, NEW p \in Processes, Migrate(p) PROVE StorageInv'
  <1>1. /\ process[p].at = "migrate" /\ exists' = TRUE /\ Steps(p, "commit")
        /\ UNCHANGED <<lock, applied, made, directory, synced, returned, batches, cuts>>
    BY DEF Migrate, backupVars, faultVars
  <1>2. PICK new \in ProcessRecords : /\ process' = [process EXCEPT ![p] = new]
                                      /\ new.at = "commit" /\ new.artifact = process[p].artifact
    BY <1>1, StepsTo DEF Steps_, Owning
  <1>3. Fits(p, new)'
    BY <1>1, <1>2, ItFits DEF Fits, Owning, Linking, Removing, Batching
  <1>4. ProcessesFit' /\ process' \in [Processes -> ProcessRecords]
    BY <1>1, <1>2, <1>3, OwnerMoves DEF Owning
  <1>5. StorageTypes'
    BY <1>1, <1>4 DEF StorageInv, StorageTypes
  <1>6. ReturnedKept' /\ ManifestLast' /\ BatchesUndone' /\ NothingYet'
    BY <1>1 DEF StorageInv, ReturnedKept, ManifestLast, BatchesUndone, BatchHas, NothingYet
  <1> QED
    BY <1>4, <1>5, <1>6 DEF StorageInv

(* A batch that is committed, whether its process lives to say so or not.     *)
LEMMA BatchKeeps ==
  ASSUME StorageInv, NEW p \in Processes, process[p].at = "commit",
         applied' = Package[p],
         batches' = Append(batches, [from |-> applied, to |-> Package[p],
                                     artifact |-> process[p].artifact]),
         UNCHANGED <<exists, made, returned>>
  PROVE  /\ BatchesUndone' /\ NothingYet'
         /\ applied' \in Histories /\ batches' \in Seq(BatchRecords)
  <1> DEFINE b == [from |-> applied, to |-> Package[p], artifact |-> process[p].artifact]
  <1>1. b \in BatchRecords /\ Package[p] \in Histories
    BY ItFits DEF BatchRecords, Histories, StorageInv, StorageTypes
  <1>2. /\ exists
        /\ IF b.artifact = 0 THEN b.from = <<>> /\ batches = <<>>
           ELSE b.artifact \in returned /\ made[b.artifact] = [of |-> b.from, target |-> b.to]
    BY ItFits DEF Fits, Batching
  <1> HIDE DEF b
  <1>3. batches \in Seq(BatchRecords) /\ batches' = Append(batches, b)
    BY DEF StorageInv, StorageTypes, b
  <1>4. /\ batches' \in Seq(BatchRecords) /\ Len(batches) \in Nat
        /\ DOMAIN batches = 1..Len(batches) /\ DOMAIN batches' = 1..(Len(batches) + 1)
        /\ \A i \in DOMAIN batches : batches'[i] = batches[i]
        /\ batches'[Len(batches) + 1] = b
        /\ batches = <<>> => Len(batches) = 0
    BY <1>1, <1>3
  <1>5. BatchesUndone'
    <2> SUFFICES ASSUME NEW i \in DOMAIN batches' PROVE BatchHas(i)'
      BY DEF BatchesUndone
    <2>1. CASE i \in DOMAIN batches
      <3>1. batches'[i] = batches[i] /\ BatchHas(i)
        BY <1>4, <2>1 DEF StorageInv, BatchesUndone
      <3> QED
        BY <3>1 DEF BatchHas
    <2>2. CASE i = Len(batches) + 1
      <3>1. batches'[i] = b /\ (batches = <<>> => i = 1)
        BY <1>4, <2>2
      <3> QED
        BY <3>1, <1>2 DEF BatchHas
    <2>3. i \in 1..(Len(batches) + 1)
      BY <1>4
    <2> QED
      BY <1>4, <2>1, <2>2, <2>3
  <1>6. NothingYet'
    BY <1>2 DEF NothingYet
  <1> QED
    BY <1>1, <1>4, <1>5, <1>6

(* The batch is of the schema that its snapshot was taken of.                 *)
LEMMA CommitMigrationKeeps ==
  ASSUME StorageInv, NEW p \in Processes, CommitMigration(p)
  PROVE  StorageInv'
  <1> DEFINE new == [Down EXCEPT !.at = "applied"]
  <1>1. /\ process[p].at = "commit" /\ lock' = Nobody
        /\ process' = [process EXCEPT ![p] = new]
        /\ applied' = Package[p]
        /\ batches' = Append(batches, [from |-> applied, to |-> Package[p],
                                       artifact |-> process[p].artifact])
        /\ UNCHANGED <<exists, made, directory, synced, returned, cuts>>
    BY DEF CommitMigration, Unlocks, backupVars, faultVars
  <1>2. new \in ProcessRecords /\ new.at = "applied" /\ new.artifact = 0
    BY DEF Down, ProcessRecords, Steps_
  <1> HIDE DEF new
  <1>3. Fits(p, new)'
    BY <1>2, BareFits DEF Steps_, Owning, Copying, Linking, Removing, Batching
  <1>4. ProcessesFit' /\ process' \in [Processes -> ProcessRecords]
    BY <1>1, <1>2, <1>3, OwnerMoves DEF Owning
  <1>5. BatchesUndone' /\ NothingYet' /\ applied' \in Histories /\ batches' \in Seq(BatchRecords)
    BY <1>1, BatchKeeps
  <1>6. StorageTypes'
    BY <1>1, <1>4, <1>5 DEF StorageInv, StorageTypes
  <1>7. ReturnedKept' /\ ManifestLast'
    BY <1>1 DEF StorageInv, ReturnedKept, ManifestLast
  <1> QED
    BY <1>4, <1>5, <1>6, <1>7 DEF StorageInv

(* The next name is one that nobody has.                                      *)
LEMMA CopyKeeps == ASSUME StorageInv, NEW p \in Processes, Copy(p) PROVE StorageInv'
  <1> DEFINE m == [of |-> applied,
                   target |-> IF process[p].for = "migration" THEN Package[p] ELSE <<>>]
  <1>n. PICK n \in Nat : n = Len(made) + 1
    BY DEF StorageInv, StorageTypes
  <1>1. /\ process[p].at = "copy" /\ lock' = lock
        /\ made' = Append(made, m)
        /\ UNCHANGED <<exists, applied, directory, synced, returned, batches, cuts>>
    BY DEF Copy, fileVars, faultVars
  <1>2. m \in MadeRecords /\ m.of = applied /\ (process[p].for = "migration" => m.target = Package[p])
    BY DEF MadeRecords, Histories, StorageInv, StorageTypes
  <1>3. m = [of |-> m.of, target |-> m.target]
    OBVIOUS
  <1> HIDE DEF m
  <1>4. /\ made' \in Seq(MadeRecords) /\ Len(made) \in Nat /\ Len(made') = n
        /\ DOMAIN made = 1..Len(made) /\ DOMAIN made' = 1..n
        /\ \A i \in DOMAIN made : made'[i] = made[i]
        /\ made'[n] = m
    BY <1>n, <1>1, <1>2 DEF StorageInv, StorageTypes
  <1>5. PICK new \in ProcessRecords : /\ process' = [process EXCEPT ![p] = new]
                                      /\ new.at = "link_snapshot" /\ new.artifact = n
                                      /\ new.for = process[p].for
    <2> DEFINE r == [process[p] EXCEPT !.at = "link_snapshot", !.artifact = n]
    <2>1. r \in ProcessRecords /\ r.at = "link_snapshot" /\ r.artifact = n /\ r.for = process[p].for
      BY ItFits DEF ProcessRecords, Steps_, Owning, Copying
    <2>2. process' = [process EXCEPT ![p] = r]
      BY <1>n DEF Copy
    <2> QED
      BY <2>1, <2>2
  <1>6. n \in DOMAIN made' /\ n \notin 1..Len(made) /\ 1..Len(made) \subseteq 1..n
    BY <1>n, <1>4
  <1>7. Fits(p, new)'
    <2>1. lock' = p
      BY <1>1, ItFits DEF Fits, Owning, Copying
    <2>2. n \notin returned'
      BY <1>1, <1>6 DEF StorageInv, StorageTypes
    <2>3. Artifact(p, new)'
      <3> SUFFICES ASSUME new.for = "migration"
                   PROVE  made'[new.artifact] = [of |-> applied', target |-> Package[p]]
        BY DEF Artifact
      <3> QED
        BY <1>1, <1>2, <1>3, <1>4, <1>5
    <2> QED
      BY <2>1, <2>2, <2>3, <1>5, <1>6 DEF Fits, Linking, Removing, Batching
  <1>8. ProcessesFit' /\ process' \in [Processes -> ProcessRecords]
    BY <1>1, <1>5, <1>7, OwnerMoves DEF Owning, Copying
  <1>9. StorageTypes'
    <2>1. \A d : d \subseteq {"snapshot", "manifest"} \X (1..Len(made))
               => d \subseteq {"snapshot", "manifest"} \X (1..n)
      BY <1>6
    <2> QED
      BY <1>1, <1>4, <1>6, <1>8, <2>1 DEF StorageInv, StorageTypes
  <1>10. ReturnedKept' /\ NothingYet'
    BY <1>1 DEF StorageInv, ReturnedKept, NothingYet
  <1>11. ManifestLast'
    <2> SUFFICES ASSUME cuts = 0, NEW k \in DOMAIN made', <<"manifest", k>> \in directory
                 PROVE  <<"snapshot", k>> \in directory
      BY <1>1 DEF ManifestLast
    <2>1. k \in DOMAIN made
      BY <1>4 DEF StorageInv, StorageTypes
    <2> QED
      BY <2>1 DEF StorageInv, ManifestLast
  <1>12. BatchesUndone'
    <2> SUFFICES ASSUME NEW i \in DOMAIN batches PROVE BatchHas(i)'
      BY <1>1 DEF BatchesUndone
    <2>1. BatchHas(i)
      BY DEF StorageInv, BatchesUndone
    <2>2. \A k \in returned : made'[k] = made[k]
      BY <1>4 DEF StorageInv, StorageTypes
    <2> QED
      BY <2>1, <2>2, <1>1 DEF BatchHas
  <1> QED
    BY <1>8, <1>9, <1>10, <1>11, <1>12 DEF StorageInv

(* The owner of the lock changes names in the backup directory, and what it   *)
(* returned; the database stays as it is.                                     *)
LEMMA NamesMove ==
  ASSUME StorageInv, NEW p \in Processes, process[p].at \in Owning,
         NEW new \in ProcessRecords, process' = [process EXCEPT ![p] = new], Fits(p, new)',
         lock' \in Processes \union {Nobody},
         UNCHANGED <<exists, applied, made, batches, cuts>>,
         directory' \subseteq {"snapshot", "manifest"} \X (1..Len(made)),
         synced' \subseteq {"snapshot", "manifest"} \X (1..Len(made)),
         returned \subseteq returned', returned' \subseteq 1..Len(made),
         ReturnedKept', ManifestLast'
  PROVE  StorageInv'
  <1>1. ProcessesFit' /\ process' \in [Processes -> ProcessRecords]
    BY OwnerMoves
  <1>2. StorageTypes'
    BY <1>1 DEF StorageInv, StorageTypes
  <1>3. BatchesUndone' /\ NothingYet'
    BY DEF StorageInv, BatchesUndone, BatchHas, NothingYet
  <1> QED
    BY <1>1, <1>2, <1>3 DEF StorageInv

(* What a process that makes a pair knows of its artifact.                    *)
LEMMA LinkingKnows ==
  ASSUME StorageInv, NEW p \in Processes, process[p].at \in Linking
  PROVE  /\ lock = p /\ process[p].at \in Owning
         /\ process[p].artifact \in 1..Len(made)
         /\ process[p].artifact \notin returned /\ Artifact(p, process[p])
  <1>1. /\ lock = p /\ process[p].at \in Owning
        /\ process[p].artifact \in DOMAIN made
        /\ process[p].artifact \notin returned /\ Artifact(p, process[p])
    BY ItFits DEF Fits, Linking, Owning, Copying
  <1>2. DOMAIN made = 1..Len(made)
    BY DEF StorageInv, StorageTypes
  <1> QED
    BY <1>1, <1>2

(* The snapshot is linked before its manifest.                                *)
LEMMA LinkSnapshotKeeps == ASSUME StorageInv, NEW p \in Processes, LinkSnapshot(p) PROVE StorageInv'
  <1>1. /\ process[p].at = "link_snapshot" /\ Steps(p, "link_manifest")
        /\ directory' = directory \union {<<"snapshot", process[p].artifact>>}
        /\ UNCHANGED <<lock, exists, applied, made, batches, cuts, synced, returned>>
    BY DEF LinkSnapshot, Link, fileVars, faultVars
  <1>2. /\ lock = p /\ process[p].at \in Owning
        /\ process[p].artifact \in 1..Len(made)
        /\ process[p].artifact \notin returned /\ Artifact(p, process[p])
    BY <1>1, LinkingKnows DEF Linking
  <1>3. PICK new \in ProcessRecords :
          /\ process' = [process EXCEPT ![p] = new]
          /\ new.at = "link_manifest" /\ new.for = process[p].for /\ new.artifact = process[p].artifact
    BY <1>1, StepsTo DEF Steps_, Owning, Copying
  <1>4. Fits(p, new)'
    BY <1>1, <1>2, <1>3 DEF Fits, Artifact, Linking, Removing, Batching, StorageInv, StorageTypes
  <1>5. directory' \subseteq {"snapshot", "manifest"} \X (1..Len(made))
    BY <1>1, <1>2 DEF StorageInv, StorageTypes
  <1>6. ReturnedKept' /\ ManifestLast'
    BY <1>1 DEF StorageInv, ReturnedKept, ManifestLast
  <1> QED
    BY <1>1, <1>2, <1>3, <1>4, <1>5, <1>6, ItFits, NamesMove DEF StorageInv, StorageTypes

(* The manifest is linked after its snapshot.                                 *)
LEMMA LinkManifestKeeps == ASSUME StorageInv, NEW p \in Processes, LinkManifest(p) PROVE StorageInv'
  <1>1. /\ process[p].at = "link_manifest" /\ Steps(p, "sync")
        /\ directory' = directory \union {<<"manifest", process[p].artifact>>}
        /\ UNCHANGED <<lock, exists, applied, made, batches, cuts, synced, returned>>
    BY DEF LinkManifest, Link, fileVars, faultVars
  <1>2. /\ lock = p /\ process[p].at \in Owning
        /\ process[p].artifact \in 1..Len(made)
        /\ process[p].artifact \notin returned /\ Artifact(p, process[p])
        /\ <<"snapshot", process[p].artifact>> \in directory
    BY <1>1, LinkingKnows, ItFits DEF Linking, Fits
  <1>3. PICK new \in ProcessRecords :
          /\ process' = [process EXCEPT ![p] = new]
          /\ new.at = "sync" /\ new.for = process[p].for /\ new.artifact = process[p].artifact
    BY <1>1, StepsTo DEF Steps_, Owning, Copying
  <1>4. Fits(p, new)'
    BY <1>1, <1>2, <1>3 DEF Fits, Artifact, Pair, Linking, Removing, Batching, StorageInv, StorageTypes
  <1>5. directory' \subseteq {"snapshot", "manifest"} \X (1..Len(made))
    BY <1>1, <1>2 DEF StorageInv, StorageTypes
  <1>6. ReturnedKept' /\ ManifestLast'
    BY <1>1, <1>2 DEF StorageInv, ReturnedKept, ManifestLast
  <1> QED
    BY <1>1, <1>2, <1>3, <1>4, <1>5, <1>6, ItFits, NamesMove DEF StorageInv, StorageTypes

(* After the sync both names are durable.                                     *)
LEMMA SyncBackupsKeeps == ASSUME StorageInv, NEW p \in Processes, SyncBackups(p) PROVE StorageInv'
  <1>1. /\ process[p].at = "sync" /\ Steps(p, "verify") /\ synced' = directory
        /\ UNCHANGED <<lock, exists, applied, made, batches, cuts, directory, returned>>
    BY DEF SyncBackups, fileVars, faultVars
  <1>2. /\ lock = p /\ process[p].at \in Owning
        /\ process[p].artifact \in 1..Len(made)
        /\ process[p].artifact \notin returned /\ Artifact(p, process[p])
        /\ Pair(process[p].artifact) \subseteq directory
    BY <1>1, LinkingKnows, ItFits DEF Linking, Fits
  <1>3. PICK new \in ProcessRecords :
          /\ process' = [process EXCEPT ![p] = new]
          /\ new.at = "verify" /\ new.for = process[p].for /\ new.artifact = process[p].artifact
    BY <1>1, StepsTo DEF Steps_, Owning, Copying
  <1>4. Fits(p, new)'
    BY <1>1, <1>2, <1>3 DEF Fits, Artifact, Linking, Removing, Batching, StorageInv, StorageTypes
  <1>5. ReturnedKept' /\ ManifestLast'
    BY <1>1 DEF StorageInv, ReturnedKept, ManifestLast
  <1> QED
    BY <1>1, <1>2, <1>3, <1>4, <1>5, ItFits, NamesMove DEF StorageInv, StorageTypes

(* The pair that is returned is there and was synced.                         *)
LEMMA VerifyPairKeeps == ASSUME StorageInv, NEW p \in Processes, VerifyPair(p) PROVE StorageInv'
  <1>1. /\ process[p].at = "verify"
        /\ returned' = returned \union {process[p].artifact}
        /\ process' = [process EXCEPT ![p] =
             IF process[p].for = "migration" THEN [process[p] EXCEPT !.at = "migrate"]
             ELSE [Down EXCEPT !.at = "running"]]
        /\ UNCHANGED <<lock, exists, applied, made, batches, cuts, directory, synced>>
    BY DEF VerifyPair, fileVars, faultVars
  <1>2. /\ lock = p /\ process[p].at \in Owning
        /\ process[p].artifact \in 1..Len(made) /\ Artifact(p, process[p])
        /\ Pair(process[p].artifact) \subseteq directory \intersect synced
    BY <1>1, LinkingKnows, ItFits DEF Linking, Fits
  <1>3. \E new \in ProcessRecords :
          /\ process' = [process EXCEPT ![p] = new]
          /\ \/ new.at = "migrate" /\ process[p].for = "migration" /\ new.artifact = process[p].artifact
             \/ new.at = "running" /\ new.artifact = 0
    <2>1. CASE process[p].for = "migration"
      <3> DEFINE new == [process[p] EXCEPT !.at = "migrate"]
      <3>1. new \in ProcessRecords /\ new.at = "migrate" /\ new.artifact = process[p].artifact
        BY ItFits DEF ProcessRecords, Steps_, Owning
      <3> QED
        BY <1>1, <2>1, <3>1
    <2>2. CASE process[p].for # "migration"
      <3> DEFINE new == [Down EXCEPT !.at = "running"]
      <3>1. new \in ProcessRecords /\ new.at = "running" /\ new.artifact = 0
        BY DEF Down, ProcessRecords, Steps_, Owning
      <3> QED
        BY <1>1, <2>2, <3>1
    <2> QED
      BY <2>1, <2>2
  <1>4. PICK new \in ProcessRecords :
          /\ process' = [process EXCEPT ![p] = new]
          /\ \/ new.at = "migrate" /\ process[p].for = "migration" /\ new.artifact = process[p].artifact
             \/ new.at = "running" /\ new.artifact = 0
    BY <1>3
  <1>5. Fits(p, new)'
    BY <1>1, <1>2, <1>4 DEF Fits, Artifact, Linking, Removing, Batching
  <1>6. ReturnedKept' /\ ManifestLast'
    BY <1>1, <1>2 DEF StorageInv, ReturnedKept, ManifestLast
  <1>7. returned \subseteq returned' /\ returned' \subseteq 1..Len(made)
    BY <1>1, <1>2 DEF StorageInv, StorageTypes
  <1> QED
    BY <1>1, <1>2, <1>4, <1>5, <1>6, <1>7, ItFits, NamesMove DEF StorageInv, StorageTypes

(* What is taken away was returned to nobody, the manifest before the         *)
(* snapshot.                                                                  *)
LEMMA RemoveManifestKeeps ==
  ASSUME StorageInv, NEW p \in Processes, RemoveManifest(p)
  PROVE  StorageInv'
  <1>1. /\ process[p].at = "remove_manifest" /\ Steps(p, "remove_snapshot")
        /\ directory' = directory \ {<<"manifest", process[p].artifact>>}
        /\ UNCHANGED <<lock, exists, applied, made, batches, cuts, synced, returned>>
    BY DEF RemoveManifest, fileVars, faultVars
  <1>2. lock = p /\ process[p].at \in Owning /\ process[p].artifact \notin returned
    BY <1>1, ItFits DEF Fits, Owning, Removing
  <1>3. PICK new \in ProcessRecords :
          /\ process' = [process EXCEPT ![p] = new]
          /\ new.at = "remove_snapshot" /\ new.artifact = process[p].artifact
    BY <1>1, StepsTo DEF Steps_, Owning
  <1>4. Fits(p, new)'
    BY <1>1, <1>2, <1>3 DEF Fits, Linking, Removing, Batching
  <1>5. ReturnedKept'
    BY <1>1, <1>2 DEF StorageInv, ReturnedKept, Pair
  <1>6. ManifestLast'
    BY <1>1 DEF StorageInv, ManifestLast
  <1> QED
    BY <1>1, <1>2, <1>3, <1>4, <1>5, <1>6, ItFits, NamesMove DEF StorageInv, StorageTypes

(* A failed export removes its own pair, which nobody was told of.            *)
LEMMA RemoveSnapshotKeeps ==
  ASSUME StorageInv, NEW p \in Processes, RemoveSnapshot(p)
  PROVE  StorageInv'
  <1>1. /\ process[p].at = "remove_snapshot"
        /\ directory' = directory \ {<<"snapshot", process[p].artifact>>}
        /\ UNCHANGED <<exists, applied, made, batches, cuts, synced, returned>>
    BY DEF RemoveSnapshot, fileVars, faultVars
  <1>2. /\ lock = p /\ process[p].at \in Owning /\ process[p].artifact \notin returned
        /\ <<"manifest", process[p].artifact>> \notin directory
    BY <1>1, ItFits DEF Fits, Owning, Removing
  <1>3. \E new \in ProcessRecords :
          /\ process' = [process EXCEPT ![p] = new] /\ new.artifact = 0
          /\ \/ new.at = "down" /\ lock' = Nobody
             \/ new.at = "running" /\ lock' = lock
    <2>1. CASE Unlocks /\ Ends(p)
      BY <2>1, DownFits DEF Unlocks, Ends, Down
    <2>2. CASE lock' = lock /\ process' = [process EXCEPT ![p] = [Down EXCEPT !.at = "running"]]
      <3> DEFINE new == [Down EXCEPT !.at = "running"]
      <3>1. new \in ProcessRecords /\ new.at = "running" /\ new.artifact = 0
        BY DEF Down, ProcessRecords, Steps_, Owning
      <3> QED
        BY <2>2, <3>1
    <2> QED
      BY <2>1, <2>2 DEF RemoveSnapshot
  <1>4. PICK new \in ProcessRecords :
          /\ process' = [process EXCEPT ![p] = new] /\ new.artifact = 0
          /\ \/ new.at = "down" /\ lock' = Nobody
             \/ new.at = "running" /\ lock' = lock
    BY <1>3
  <1>5. Fits(p, new)'
    BY <1>2, <1>4, BareFits DEF Steps_, Owning, Copying, Linking, Removing, Batching
  <1>6. ReturnedKept'
    BY <1>1, <1>2 DEF StorageInv, ReturnedKept, Pair
  <1>7. ManifestLast'
    BY <1>1, <1>2 DEF StorageInv, ManifestLast
  <1> QED
    BY <1>1, <1>2, <1>4, <1>5, <1>6, <1>7, ItFits, NamesMove DEF StorageInv, StorageTypes

(* A process that dies: alone, or with the migration that it was committing.  *)
LEMMA DieKeeps == ASSUME StorageInv, NEW p \in Processes, Die(p) PROVE StorageInv'
  <1>1. /\ process' = [process EXCEPT ![p] = Down]
        /\ lock' = IF lock = p THEN Nobody ELSE lock
        /\ UNCHANGED <<exists, made, directory, synced, returned, cuts>>
    BY DEF Die, Ends, backupVars
  <1>2. lock' \in Processes \union {Nobody} /\ (lock' = lock \/ lock = p)
    BY <1>1, ItFits
  <1>3. Down \in ProcessRecords /\ Fits(p, Down)' /\ Down' = Down
    BY DownFits DEF Down
  <1>4. CASE UNCHANGED <<applied, batches>>
    BY <1>1, <1>2, <1>3, <1>4, ProcessMoves
  <1>5. CASE /\ process[p].at = "commit"
             /\ applied' = Package[p]
             /\ batches' = Append(batches, [from |-> applied, to |-> Package[p],
                                            artifact |-> process[p].artifact])
    <2>1. BatchesUndone' /\ NothingYet' /\ applied' \in Histories /\ batches' \in Seq(BatchRecords)
      BY <1>1, <1>5, BatchKeeps
    <2>2. ProcessesFit' /\ process' \in [Processes -> ProcessRecords]
      BY <1>1, <1>3, <1>5, OwnerMoves DEF Owning
    <2>3. StorageTypes'
      BY <1>1, <1>2, <2>1, <2>2 DEF StorageInv, StorageTypes
    <2>4. ReturnedKept' /\ ManifestLast'
      BY <1>1 DEF StorageInv, ReturnedKept, ManifestLast
    <2> QED
      BY <2>1, <2>2, <2>3, <2>4 DEF StorageInv
  <1> QED
    BY <1>4, <1>5 DEF Die, CommitCutShort

(* A power cut leaves the names that were synced and not taken away since.    *)
LEMMA LosePowerKeeps == ASSUME StorageInv, LosePower PROVE StorageInv'
  <1>1. /\ cuts' = cuts + 1 /\ synced' = directory' /\ lock' = Nobody
        /\ process' = [p \in Processes |-> Down]
        /\ UNCHANGED <<exists, made, returned>>
        /\ synced \intersect directory \subseteq directory'
        /\ directory' \subseteq directory \union synced
    BY DEF LosePower
  <1>2. /\ BatchesUndone' /\ NothingYet'
        /\ applied' \in Histories /\ batches' \in Seq(BatchRecords)
    <2>1. CASE UNCHANGED <<applied, batches>>
      BY <1>1, <2>1 DEF StorageInv, StorageTypes, BatchesUndone, BatchHas, NothingYet
    <2>2. CASE \E p \in Processes :
                 /\ process[p].at = "commit"
                 /\ applied' = Package[p]
                 /\ batches' = Append(batches, [from |-> applied, to |-> Package[p],
                                                artifact |-> process[p].artifact])
      BY <1>1, <2>2, BatchKeeps
    <2> QED
      BY <2>1, <2>2 DEF LosePower, CommitCutShort
  <1>3. \A p \in Processes : Down \in ProcessRecords /\ Fits(p, Down)'
    BY DownFits
  <1>4. ProcessesFit'
    <2> SUFFICES ASSUME NEW p \in Processes PROVE Fits(p, process[p])'
      BY DEF ProcessesFit
    <2>1. process'[p] = Down /\ Down' = Down
      BY <1>1 DEF Down
    <2> QED
      BY <1>3, <2>1
  <1>5. StorageTypes'
    BY <1>1, <1>2, <1>3 DEF StorageInv, StorageTypes
  <1>6. ReturnedKept'
    BY <1>1 DEF StorageInv, ReturnedKept
  <1>7. ManifestLast'
    BY <1>1 DEF StorageInv, StorageTypes, ManifestLast
  <1> QED
    BY <1>2, <1>4, <1>5, <1>6, <1>7 DEF StorageInv

(* No step of a process breaks the invariant.                                 *)
LEMMA StorageInvNext == StorageInv /\ [StorageNext]_storageVars => StorageInv'
  <1> SUFFICES ASSUME StorageInv, [StorageNext]_storageVars PROVE StorageInv'
    OBVIOUS
  <1>1. ASSUME NEW p \in Processes,
               \/ Launch(p) \/ PlanMigration(p) \/ Migrate(p) \/ CommitMigration(p) \/ MigrationFails(p)
               \/ OpenRuntime(p) \/ ApplyEnds(p) \/ Write(p) \/ AskSnapshot(p) \/ Close(p) \/ Probe(p)
        PROVE  StorageInv'
    BY <1>1, LaunchKeeps, PlanKeeps, MigrateKeeps, CommitMigrationKeeps, MigrationFailsKeeps,
       OpenRuntimeKeeps, ApplyEndsKeeps, WriteKeeps, AskSnapshotKeeps, CloseKeeps, ProbeKeeps
  <1>2. ASSUME NEW p \in Processes,
               \/ Copy(p) \/ LinkSnapshot(p) \/ LinkManifest(p) \/ SyncBackups(p) \/ VerifyPair(p)
               \/ SnapshotFails(p) \/ RemoveManifest(p) \/ RemoveSnapshot(p) \/ Die(p)
        PROVE  StorageInv'
    BY <1>2, CopyKeeps, LinkSnapshotKeeps, LinkManifestKeeps, SyncBackupsKeeps, VerifyPairKeeps,
       SnapshotFailsKeeps, RemoveManifestKeeps, RemoveSnapshotKeeps, DieKeeps
  <1>3. CASE LosePower
    BY <1>3, LosePowerKeeps
  <1>4. CASE UNCHANGED storageVars
    <2>1. UNCHANGED <<lock, exists, applied, process, made, directory, synced, returned, batches, cuts>>
      BY <1>4 DEF storageVars
    <2>2. StorageTypes' /\ ReturnedKept' /\ ManifestLast' /\ BatchesUndone' /\ NothingYet'
      BY <2>1 DEF StorageInv, StorageTypes, ReturnedKept, ManifestLast, BatchesUndone, BatchHas, NothingYet
    <2>3. ProcessesFit'
      BY <2>1 DEF StorageInv, ProcessesFit, Fits, Artifact
    <2> QED
      BY <2>2, <2>3 DEF StorageInv
  <1> QED
    BY <1>1, <1>2, <1>3, <1>4, Zenon DEF StorageNext

(* A migration can always be undone, for any number of processes, snapshots,  *)
(* failures, deaths and power cuts, and any packages of migrations.           *)
THEOREM StorageKeeps == StorageSpec => []SnapshotsKept
  <1>1. StorageInv => SnapshotsKept
    BY DEF StorageInv, ReturnedKept, ManifestLast, BatchesUndone, BatchHas, SnapshotsKept
  <1>2. StorageSpec => []StorageInv
    BY StorageInvInit, StorageInvNext, PTL DEF StorageSpec
  <1> QED
    BY <1>1, <1>2, PTL

-----------------------------------------------------------------------------
(* Rows in their order                                                        *)

(* A set of naturals has a least element.                                     *)
LEMMA NatLeast ==
  ASSUME NEW T, T \subseteq Nat, T # {}
  PROVE  \E x \in T : \A y \in T : x <= y
<1>1. PICK x \in T : \A y \in T : ~ (<<y, x>> \in OpToRel(<, Nat))
  BY NatLessThanWellFounded, WFMin
<1>2. \A y \in T : <<y, x>> \in Nat \X Nat
  OBVIOUS
<1>3. \A y \in T : y < x => <<y, x>> \in OpToRel(<, Nat)
  BY <1>2 DEF OpToRel
<1>4. \A y \in T : ~ (y < x)
  BY <1>1, <1>3, Zenon
<1>5. QED
  BY <1>4

(* Induction, for a set of naturals.                                          *)
LEMMA NatAll ==
  ASSUME NEW S, 0 \in S, \A n \in Nat : n \in S => n + 1 \in S
  PROVE  Nat \subseteq S
<1> DEFINE T == Nat \ S
<1> SUFFICES ASSUME T # {} PROVE FALSE
  OBVIOUS
<1>1. PICK x \in T : \A y \in T : x <= y
  BY NatLeast
<1>2. x # 0 /\ x - 1 \in Nat
  OBVIOUS
<1>3. x - 1 \notin T
  BY <1>1, <1>2
<1>4. QED
  BY <1>2, <1>3

(* R orders the elements of S.                                                *)
Orders(R, S) ==
  /\ \A x, y \in S : x # y => <<x, y>> \in R \/ <<y, x>> \in R
  /\ \A x, y, z \in S : <<x, y>> \in R /\ <<y, z>> \in R => <<x, z>> \in R
  /\ \A x \in S : <<x, x>> \notin R

(* A finite set that is ordered has a last element.                           *)
LEMMA LastExists ==
  ASSUME NEW R, NEW S0, IsFiniteSet(S0), S0 # {}, Orders(R, S0)
  PROVE  \E x \in S0 : \A y \in S0 \ {x} : <<y, x>> \in R
<1> DEFINE N == {n \in Nat : \A S \in SUBSET S0 : IsFiniteSet(S) /\ Cardinality(S) = n /\ S # {} =>
                              \E x \in S : \A y \in S \ {x} : <<y, x>> \in R}
<1>1. 0 \in N
  BY FS_EmptySet
<1>2. ASSUME NEW n \in Nat, n \in N
      PROVE  n + 1 \in N
  <2> SUFFICES ASSUME NEW S \in SUBSET S0, IsFiniteSet(S), Cardinality(S) = n + 1, S # {}
               PROVE  \E x \in S : \A y \in S \ {x} : <<y, x>> \in R
    OBVIOUS
  <2>1. PICK e \in S : TRUE
    OBVIOUS
  <2>2. IsFiniteSet(S \ {e}) /\ Cardinality(S \ {e}) = n
    <3>1. IsFiniteSet(S \ {e}) /\ Cardinality(S \ {e}) = IF e \in S THEN Cardinality(S) - 1 ELSE Cardinality(S)
      BY FS_RemoveElement
    <3>2. QED
      BY <2>1, <3>1
  <2>3. CASE S \ {e} = {}
    BY <2>1, <2>3
  <2>4. CASE S \ {e} # {}
    <3>1. PICK x \in S \ {e} : \A y \in (S \ {e}) \ {x} : <<y, x>> \in R
      BY <1>2, <2>2, <2>4
    <3>2. CASE <<e, x>> \in R
      BY <3>1, <3>2
    <3>3. CASE <<x, e>> \in R
      <4>1. \A y \in S \ {e} : <<y, e>> \in R
        BY <3>1, <3>3 DEF Orders
      <4>2. QED
        BY <2>1, <4>1
    <3>4. QED
      BY <2>1, <3>1, <3>2, <3>3 DEF Orders
  <2>5. QED
    BY <2>3, <2>4
<1>3. Nat \subseteq N
  <2> HIDE DEF N
  <2> QED
    BY <1>1, <1>2, NatAll
<1>4. Cardinality(S0) \in Nat
  BY FS_CardinalityType
<1>5. Cardinality(S0) \in N
  BY <1>3, <1>4
<1>6. QED
  BY <1>5

(* s holds the elements of S in the order R.                                  *)
Ascends(s, R, S) ==
  s \in [1..Cardinality(S) -> S] /\ \A i, j \in DOMAIN s : i < j => <<s[i], s[j]>> \in R

(* A finite set that is ordered can be put in order.                          *)
LEMMA OrderExists ==
  ASSUME NEW R, NEW S0, IsFiniteSet(S0), Orders(R, S0)
  PROVE  \E s : Ascends(s, R, S0)
<1> DEFINE N == {n \in Nat : \A S \in SUBSET S0 : IsFiniteSet(S) /\ Cardinality(S) = n =>
                              \E s : Ascends(s, R, S)}
<1>1. 0 \in N
  <2> SUFFICES ASSUME NEW S \in SUBSET S0, IsFiniteSet(S), Cardinality(S) = 0
               PROVE  \E s : Ascends(s, R, S)
    OBVIOUS
  <2>1. S = {} /\ 1..Cardinality(S) = {}
    BY FS_EmptySet
  <2>2. Ascends([i \in {} |-> 0], R, S)
    BY <2>1 DEF Ascends
  <2>3. QED
    BY <2>2
<1>2. ASSUME NEW n \in Nat, n \in N
      PROVE  n + 1 \in N
  <2> SUFFICES ASSUME NEW S \in SUBSET S0, IsFiniteSet(S), Cardinality(S) = n + 1
               PROVE  \E s : Ascends(s, R, S)
    OBVIOUS
  <2>1. S # {} /\ Orders(R, S)
    BY FS_EmptySet DEF Orders
  <2>2. PICK x \in S : \A y \in S \ {x} : <<y, x>> \in R
    BY <2>1, LastExists
  <2>3. IsFiniteSet(S \ {x}) /\ Cardinality(S \ {x}) = n
    <3>1. IsFiniteSet(S \ {x}) /\ Cardinality(S \ {x}) = IF x \in S THEN Cardinality(S) - 1 ELSE Cardinality(S)
      BY FS_RemoveElement
    <3>2. QED
      BY <2>2, <3>1
  <2>4. PICK s : Ascends(s, R, S \ {x})
    BY <1>2, <2>3
  <2>5. s \in [1..n -> S \ {x}] /\ \A i, j \in 1..n : i < j => <<s[i], s[j]>> \in R
    BY <2>3, <2>4 DEF Ascends
  <2> DEFINE t == [i \in 1..(n + 1) |-> IF i = n + 1 THEN x ELSE s[i]]
  <2>6. \A i \in 1..(n + 1) : i \in 1..n \/ i = n + 1
    OBVIOUS
  <2>7. t \in [1..(n + 1) -> S] /\ t[n + 1] = x /\ \A i \in 1..n : t[i] = s[i]
    BY <2>5, <2>6
  <2> HIDE DEF t
  <2>8. ASSUME NEW i \in 1..(n + 1), NEW j \in 1..(n + 1), i < j
        PROVE  <<t[i], t[j]>> \in R
    <3>1. i \in 1..n
      BY <2>8
    <3>2. CASE j \in 1..n
      BY <2>5, <2>7, <2>8, <3>1, <3>2
    <3>3. CASE j = n + 1
      BY <2>2, <2>5, <2>7, <3>1, <3>3
    <3>4. QED
      BY <2>6, <3>2, <3>3
  <2>9. Ascends(t, R, S)
    BY <2>7, <2>8 DEF Ascends
  <2>10. QED
    BY <2>9
<1>3. Nat \subseteq N
  <2> HIDE DEF N
  <2> QED
    BY <1>1, <1>2, NatAll
<1>4. Cardinality(S0) \in Nat
  BY FS_CardinalityType
<1>5. Cardinality(S0) \in N
  BY <1>3, <1>4
<1>6. QED
  BY <1>5

(* In order nothing is twice and nothing is left out.                         *)
LEMMA AscendsAll ==
  ASSUME NEW R, NEW S, IsFiniteSet(S), Orders(R, S), NEW s, Ascends(s, R, S)
  PROVE  /\ \A i, j \in 1..Cardinality(S) : i # j => s[i] # s[j]
         /\ \A x \in S : \E i \in 1..Cardinality(S) : s[i] = x
<1>1. Cardinality(S) \in Nat
  BY FS_CardinalityType
<1>2. ASSUME NEW i \in 1..Cardinality(S), NEW j \in 1..Cardinality(S), i # j
      PROVE  s[i] # s[j]
  <2>1. i < j \/ j < i
    BY <1>1, <1>2
  <2>2. s[i] \in S /\ s[j] \in S /\ DOMAIN s = 1..Cardinality(S)
    BY DEF Ascends
  <2>3. <<s[i], s[j]>> \in R \/ <<s[j], s[i]>> \in R
    BY <2>1, <2>2 DEF Ascends
  <2>4. QED
    BY <2>2, <2>3 DEF Orders
<1>3. s \in Injection(1..Cardinality(S), S)
  BY <1>2 DEF Ascends, Injection, IsInjective
<1>4. IsFiniteSet(1..Cardinality(S)) /\ Cardinality(1..Cardinality(S)) = Cardinality(S)
  <2>1. /\ IsFiniteSet(1..Cardinality(S))
        /\ Cardinality(1..Cardinality(S)) = IF 1 > Cardinality(S) THEN 0 ELSE Cardinality(S) - 1 + 1
    <3>1. 1 \in Int /\ Cardinality(S) \in Int
      BY <1>1
    <3>2. QED
      BY <3>1, FS_Interval
  <2>2. QED
    BY <1>1, <2>1
<1>5. s \in Surjection(1..Cardinality(S), S)
  BY <1>3, <1>4, FS_Injection
<1>6. QED
  BY <1>2, <1>5 DEF Surjection

-----------------------------------------------------------------------------
(* A page                                                                     *)

ListRows == [id : RowIds, created : 1..MaxCreated, picked : BOOLEAN, open : BOOLEAN]

(* No two rows have one id.                                                   *)
Distinct(rows) == \A r, s \in rows : r.id = s.id => r = s

(* What rows and cursors are compared by.                                     *)
Numbered(r) == r.created \in Nat /\ r.id \in Nat

(* What rows are compared by are numbers.                                     *)
LEMMA RowNumbers == ASSUME NEW r \in ListRows PROVE Numbered(r) /\ r.created # 0 /\ r.id \in RowIds
<1>1. MaxCreated \in Nat /\ RowIds \subseteq Nat
  BY ListAssumption
<1>2. r.id \in RowIds /\ r.created \in 1..MaxCreated
  BY DEF ListRows
<1>3. r.created \in Nat /\ r.created # 0
  BY <1>1, <1>2
<1>4. QED
  BY <1>1, <1>2, <1>3 DEF Numbered

(* There are three lists, and pages of one row or two.                        *)
LEMMA QueryLists == ASSUME query \in Queries PROVE query.list \in {"runs", "audit", "policies"} /\ query.limit \in {1, 2}
BY DEF Queries

(* Each of the lists is ordered, whatever breaks its ties.                    *)
LEMMA BeforeRanks ==
  ASSUME query \in Queries, NEW x, NEW y, NEW z, Numbered(x), Numbered(y), Numbered(z)
  PROVE  /\ ~ Before(x, x)
         /\ Before(x, y) => ~ Before(y, x)
         /\ Before(x, y) /\ Before(y, z) => Before(x, z)
         /\ x.id # y.id => Before(x, y) \/ Before(y, x)
<1>1. /\ x.created \in Nat /\ x.id \in Nat /\ y.created \in Nat /\ y.id \in Nat
      /\ z.created \in Nat /\ z.id \in Nat
  BY DEF Numbered
<1>2. CASE query.list = "runs"
  <2>1. \A r, s : Before(r, s) <=> r.created > s.created \/ (r.created = s.created /\ r.id > s.id)
    BY <1>2 DEF Before, RunBefore
  <2>2. QED
    BY <1>1, <2>1
<1>3. CASE query.list = "audit"
  <2>1. \A r, s : Before(r, s) <=> r.created > s.created \/ (r.created = s.created /\ r.id > s.id)
    BY <1>3 DEF Before, AuditBefore
  <2>2. QED
    BY <1>1, <2>1
<1>4. CASE query.list = "policies"
  <2>1. \A r, s : Before(r, s) <=> r.created > s.created \/ (r.created = s.created /\ r.id < s.id)
    BY <1>4 DEF Before, PolicyBefore
  <2>2. QED
    BY <1>1, <2>1
<1>5. QED
  BY <1>2, <1>3, <1>4, QueryLists

BeforeOf(rows) == {p \in rows \X rows : Before(p[1], p[2])}

(* So ORDER BY has one result.                                                *)
LEMMA BeforeOrders ==
  ASSUME query \in Queries, NEW rows \in SUBSET ListRows, Distinct(rows)
  PROVE  Orders(BeforeOf(rows), rows)
<1>1. \A r \in rows : Numbered(r)
  BY RowNumbers
<1>2. \A x, y \in rows : x # y => Before(x, y) \/ Before(y, x)
  BY <1>1, BeforeRanks DEF Distinct
<1>3. \A x, y, z \in rows : Before(x, y) /\ Before(y, z) => Before(x, z)
  BY <1>1, BeforeRanks
<1>4. \A x \in rows : ~ Before(x, x)
  BY <1>1, BeforeRanks
<1>5. \A x, y \in rows : <<x, y>> \in BeforeOf(rows) <=> Before(x, y)
  BY DEF BeforeOf
<1>6. QED
  BY <1>2, <1>3, <1>4, <1>5 DEF Orders

(* ORDER BY puts all the rows in order.                                       *)
LEMMA InOrderAscends ==
  ASSUME query \in Queries, NEW rows \in SUBSET ListRows, IsFiniteSet(rows), Distinct(rows)
  PROVE  LET s == InOrder(rows, Before) IN
         /\ Cardinality(rows) \in Nat /\ s \in [1..Cardinality(rows) -> rows]
         /\ \A i, j \in 1..Cardinality(rows) : i < j => Before(s[i], s[j])
         /\ \A i, j \in 1..Cardinality(rows) : i # j => s[i] # s[j]
         /\ \A x \in rows : \E i \in 1..Cardinality(rows) : s[i] = x
<1> DEFINE N == Cardinality(rows)
           s == InOrder(rows, Before)
           Good(t) == \A i, j \in DOMAIN t : i < j => Before(t[i], t[j])
<1>1. Orders(BeforeOf(rows), rows) /\ N \in Nat
  BY BeforeOrders, FS_CardinalityType
<1>2. \A x, y \in rows : <<x, y>> \in BeforeOf(rows) <=> Before(x, y)
  BY DEF BeforeOf
<1> HIDE DEF N
<1>3. \A t \in [1..N -> rows] : Good(t) <=> \A i, j \in DOMAIN t : i < j => <<t[i], t[j]>> \in BeforeOf(rows)
  BY <1>2
<1>4. PICK t : Ascends(t, BeforeOf(rows), rows)
  BY <1>1, OrderExists
<1>5. t \in [1..N -> rows] /\ Good(t)
  BY <1>3, <1>4 DEF Ascends, N
<1>6. s = CHOOSE u \in [1..N -> rows] : Good(u)
  BY DEF InOrder, N
<1>7. s \in [1..N -> rows] /\ Good(s)
  <2> HIDE DEF s, Good
  <2> QED
    BY <1>5, <1>6
<1> HIDE DEF s
<1>8. Ascends(s, BeforeOf(rows), rows)
  BY <1>3, <1>7 DEF Ascends, N
<1>9. /\ \A i, j \in 1..N : i # j => s[i] # s[j]
      /\ \A x \in rows : \E i \in 1..N : s[i] = x
  BY <1>1, <1>8, AscendsAll DEF N
<1>10. QED
  BY <1>1, <1>7, <1>9 DEF N, s

(* The rows that a page is made of.                                           *)
Asked == {r \in listed : Matches(r) /\ AfterCursor(r)}
Items == SubSeq(Fetched, 1, IF Len(Fetched) < query.limit THEN Len(Fetched) ELSE query.limit)
More == Len(Fetched) > query.limit

(* A page is rows that were asked for, none twice; those that it leaves out   *)
(* are after its last, and there are none if there is no more.                *)
LEMMA PageFacts ==
  ASSUME query \in Queries, listed \in SUBSET ListRows, IsFiniteSet(listed), Distinct(listed)
  PROVE  /\ Items \in Seq(Asked) /\ Len(Items) \in Nat
         /\ \A i, j \in 1..Len(Items) : i # j => Items[i] # Items[j]
         /\ \A i \in 1..Len(Items) : ~ Before(Items[Len(Items)], Items[i])
         /\ More => Len(Items) # 0
         /\ \A x \in Asked : (\E i \in 1..Len(Items) : Items[i] = x) \/ (More /\ Before(Items[Len(Items)], x))
<1> DEFINE sorted == InOrder(Asked, Before)
           N == Cardinality(Asked)
<1>1. Asked \in SUBSET ListRows /\ IsFiniteSet(Asked) /\ Distinct(Asked)
  <2>1. Asked \in SUBSET listed
    BY DEF Asked
  <2>2. QED
    BY <2>1, FS_Subset DEF Distinct
<1>2. /\ N \in Nat /\ sorted \in [1..N -> Asked]
      /\ \A i, j \in 1..N : i < j => Before(sorted[i], sorted[j])
      /\ \A i, j \in 1..N : i # j => sorted[i] # sorted[j]
      /\ \A x \in Asked : \E i \in 1..N : sorted[i] = x
  BY <1>1, InOrderAscends
<1>3. query.limit \in {1, 2}
  BY QueryLists
<1>4. Fetched = SubSeq(sorted, 1, IF Len(sorted) <= query.limit THEN Len(sorted) ELSE query.limit + 1)
  BY DEF Fetched, Asked
<1> HIDE DEF sorted, N
<1>5. sorted \in Seq(Asked) /\ Len(sorted) = N
  BY <1>2
<1>6. CASE N <= query.limit
  <2>1. Fetched = SubSeq(sorted, 1, N)
    BY <1>4, <1>5, <1>6
  <2>2. SubSeq(sorted, 1, N) = sorted
    BY <1>2, <1>5
  <2>3. Fetched = sorted /\ Len(Fetched) = N
    BY <1>5, <2>1, <2>2
  <2>4. ~ More
    BY <1>2, <1>3, <1>6, <2>3 DEF More
  <2>5. Items = sorted
    <3>1. Items = SubSeq(sorted, 1, IF N < query.limit THEN N ELSE query.limit)
      BY <2>3 DEF Items
    <3>2. (IF N < query.limit THEN N ELSE query.limit) = N
      BY <1>2, <1>3, <1>6
    <3>3. QED
      BY <2>2, <3>1, <3>2
  <2>6. \A i \in 1..N : ~ Before(sorted[N], sorted[i])
    <3>1. ASSUME NEW i \in 1..N
          PROVE  ~ Before(sorted[N], sorted[i])
      <4>1. N \in 1..N /\ (i = N \/ i < N)
        BY <1>2
      <4>2. sorted[N] \in ListRows /\ sorted[i] \in ListRows
        BY <1>1, <1>2, <4>1
      <4>3. Numbered(sorted[N]) /\ Numbered(sorted[i])
        BY <4>2, RowNumbers
      <4>4. i = N \/ Before(sorted[i], sorted[N])
        BY <1>2, <4>1
      <4>5. QED
        BY <4>3, <4>4, BeforeRanks
    <3>2. QED
      BY <3>1
  <2>7. QED
    BY <1>2, <1>5, <2>4, <2>5, <2>6
<1>7. CASE ~ N <= query.limit
  <2>1. PICK m \in {1, 2} : m = query.limit
    BY <1>3
  <2>2. m + 1 \in 1..N /\ m \in 1..N /\ m \in Nat /\ m # 0
    BY <1>2, <1>7, <2>1
  <2>3. Fetched = SubSeq(sorted, 1, m + 1)
    BY <1>4, <1>5, <1>7, <2>1
  <2>4. Len(Fetched) = m + 1
    BY <1>5, <2>2, <2>3
  <2>5. More
    BY <2>1, <2>2, <2>4 DEF More
  <2>6. Items = SubSeq(Fetched, 1, m)
    <3>1. (IF Len(Fetched) < m THEN Len(Fetched) ELSE m) = m
      BY <2>2, <2>4
    <3>2. QED
      BY <2>1, <3>1 DEF Items
  <2>7. Len(Items) = m /\ (\A i \in 1..m : i \in 1..N /\ Items[i] = sorted[i])
    BY <1>2, <1>5, <2>2, <2>3, <2>4, <2>6
  <2>8. Items \in Seq(Asked)
    <3>1. Fetched \in Seq(Asked)
      BY <1>5, <2>2, <2>3
    <3>2. QED
      BY <2>2, <2>4, <2>6, <3>1
  <2>9. ASSUME NEW i \in 1..m
        PROVE  ~ Before(Items[m], Items[i])
    <3>1. m \in 1..m /\ i \in 1..N /\ (i = m \/ i < m)
      BY <2>2, <2>7
    <3>2. sorted[m] \in ListRows /\ sorted[i] \in ListRows
      BY <1>1, <1>2, <2>2, <3>1
    <3>3. Numbered(sorted[m]) /\ Numbered(sorted[i])
      BY <3>2, RowNumbers
    <3>4. i = m \/ Before(sorted[i], sorted[m])
      BY <1>2, <2>2, <3>1
    <3>5. QED
      BY <2>7, <3>1, <3>3, <3>4, BeforeRanks
  <2>10. ASSUME NEW x \in Asked, ~ \E i \in 1..m : Items[i] = x
         PROVE  Before(Items[m], x)
    <3>1. PICK k \in 1..N : sorted[k] = x
      BY <1>2
    <3>2. ~ k \in 1..m /\ m \in 1..m
      BY <2>2, <2>7, <2>10, <3>1
    <3>3. m < k
      BY <1>2, <2>2, <3>2
    <3>4. Before(sorted[m], sorted[k])
      BY <1>2, <2>2, <3>3
    <3>5. QED
      BY <2>7, <3>1, <3>2, <3>4
  <2>11. \A i, j \in 1..m : i # j => Items[i] # Items[j]
    BY <1>2, <2>7
  <2>12. QED
    BY <2>2, <2>5, <2>7, <2>8, <2>9, <2>10, <2>11
<1>8. QED
  BY <1>6, <1>7

-----------------------------------------------------------------------------
(* From page to page                                                          *)

ListTypes ==
  /\ query \in Queries \union {NoQuery}
  /\ listed \in SUBSET ListRows /\ IsFiniteSet(listed)
  /\ seen \in Seq(RowIds)
  /\ used \subseteq RowIds /\ stayed \subseteq used
  /\ query = NoQuery => reading = "no"
  /\ reading = "no" => cursor = NoCursor /\ seen = <<>> /\ stayed = {}
  /\ reading = "on" => Numbered(cursor) /\ cursor.created # 0

(* The reader was given the row of that id.                                    *)
Given(id) == \E i \in 1..Len(seen) : seen[i] = id

(* A row that comes is not taken for one that was there.                       *)
IdsOnce ==
  /\ Distinct(listed)
  /\ \A r \in listed : r.id \in used
  /\ \A i \in 1..Len(seen) : seen[i] \in used
  /\ \A i, j \in 1..Len(seen) : seen[i] = seen[j] => i = j

(* What is to come is beyond the cursor: a row is given once.                  *)
GivenBehind ==
  reading = "on" => \A x \in listed : Given(x.id) => ~ Before(cursor, x)

(* The query of a cursor, whatever the limit.                                  *)
Fingerprint(q) ==
  CASE q.list = "runs" -> <<q.reader, q.pick, q.open>>
    [] q.list = "audit" -> <<q.reader, q.pick>>
    [] q.list = "policies" -> <<q.reader>>

Fetches(q, r) == (q.pick = "some" => r.picked) /\ (q.open => r.open)

(* What the cursor has passed was given, if it is of the cursor's query.      *)
PassedGiven ==
  reading = "on" =>
    \A q \in Queries : q.list = query.list /\ Fingerprint(q) = cursor.query =>
      \A x \in listed : x.id \in stayed /\ Fetches(q, x) /\ ~ Before(cursor, x) => Given(x.id)

EndGiven ==
  reading = "ended" => \A x \in listed : x.id \in stayed /\ Matches(x) => Given(x.id)

ListInv == ListTypes /\ IdsOnce /\ GivenBehind /\ PassedGiven /\ EndGiven

(* Nothing is listed and nothing read.                                        *)
LEMMA ListInvInit == ListInit => ListInv
BY FS_EmptySet DEF ListInit, ListInv, ListTypes, IdsOnce, GivenBehind, PassedGiven, EndGiven, Distinct

(* At the end every row that stayed was given.                                *)
LEMMA ListEnds == ListInv => PagesComplete
<1> SUFFICES ASSUME ListInv PROVE PagesComplete
  OBVIOUS
<1>1. IsInjective(seen)
  BY DEF ListInv, IdsOnce, ListTypes, IsInjective
<1>2. ASSUME reading = "ended", NEW x \in listed, x.id \in stayed, Matches(x)
      PROVE  x.id \in ToSet(seen)
  BY <1>2 DEF ListInv, EndGiven, Given, ListTypes, ToSet
<1>3. QED
  BY <1>1, <1>2 DEF PagesComplete

(* A list that was asked for is one.                                          *)
LEMMA NoQueryApart == NoQuery \notin Queries
<1>1. \A q \in Queries : q.list # "none"
  BY DEF Queries
<1>2. NoQuery.list = "none"
  BY DEF NoQuery
<1>3. QED
  BY <1>1, <1>2

(* Nothing was read before the list is known.                                 *)
LEMMA AskListKeeps == ASSUME ListInv, AskList PROVE ListInv'
<1>1. reading = "no" /\ reading' = "no" /\ query' \in Queries
  BY DEF ListInv, ListTypes, AskList
<1>2. ListTypes'
  <2>1. query' # NoQuery
    BY <1>1, NoQueryApart
  <2>2. QED
    BY <1>1, <2>1 DEF ListInv, ListTypes, AskList
<1>3. IdsOnce'
  BY DEF ListInv, IdsOnce, AskList, Distinct
<1>4. QED
  BY <1>1, <1>2, <1>3 DEF ListInv, GivenBehind, PassedGiven, EndGiven

(* Who is refused never gets to the end.                                      *)
LEMMA RefuseKeeps == ASSUME ListInv, NEW f, Refuse(f) PROVE ListInv'
<1>1. reading = "on" /\ reading' = "refused"
  BY DEF Refuse
<1>2. ListTypes'
  BY <1>1 DEF ListInv, ListTypes, Refuse
<1>3. IdsOnce'
  BY DEF ListInv, IdsOnce, Refuse, Distinct
<1>4. QED
  BY <1>1, <1>2, <1>3 DEF ListInv, GivenBehind, PassedGiven, EndGiven

(* The order is that of the list, whatever else is asked for.                  *)
LEMMA TurnToKeeps == ASSUME ListInv, TurnTo PROVE ListInv'
<1>1. reading = "on" /\ reading' = "on" /\ query' \in Queries /\ query'.list = query.list
  BY DEF TurnTo
<1>2. query' # NoQuery
  BY <1>1, NoQueryApart
<1>3. ListTypes'
  BY <1>1, <1>2 DEF ListInv, ListTypes, TurnTo, Numbered
<1>4. IdsOnce'
  BY DEF ListInv, IdsOnce, TurnTo, Distinct
<1>5. listed' = listed /\ cursor' = cursor /\ seen' = seen /\ stayed' = stayed
  BY DEF TurnTo
<1>6. \A x : Before(cursor, x)' <=> Before(cursor, x)
  BY <1>1, <1>5 DEF Before
<1>7. GivenBehind'
  BY <1>1, <1>5, <1>6 DEF ListInv, GivenBehind, Given
<1>8. PassedGiven'
  BY <1>1, <1>5, <1>6 DEF ListInv, PassedGiven, Given
<1>9. QED
  BY <1>1, <1>3, <1>4, <1>7, <1>8 DEF ListInv, EndGiven

(* Fewer rows, and fewer that stayed, keep what is left.                       *)
LEMMA PurgeKeeps == ASSUME ListInv, PurgeExpired PROVE ListInv'
<1>1. PICK purged : listed' = listed \ purged /\ stayed' = stayed \ {r.id : r \in purged}
  BY DEF PurgeExpired
<1>2. /\ listed' \subseteq listed /\ stayed' \subseteq stayed /\ reading' = reading
      /\ query' = query /\ cursor' = cursor /\ seen' = seen /\ used' = used
  BY <1>1 DEF PurgeExpired
<1>3. IsFiniteSet(listed')
  BY <1>2, FS_Subset DEF ListInv, ListTypes
<1>4. ListTypes'
  BY <1>2, <1>3 DEF ListInv, ListTypes, Numbered
<1>5. IdsOnce'
  BY <1>2 DEF ListInv, IdsOnce, Distinct
<1>6. GivenBehind'
  BY <1>2 DEF ListInv, GivenBehind, Given, Before
<1>7. PassedGiven'
  BY <1>2 DEF ListInv, PassedGiven, Given, Before
<1>8. EndGiven'
  BY <1>2 DEF ListInv, EndGiven, Given, Matches
<1>9. QED
  BY <1>4, <1>5, <1>6, <1>7, <1>8 DEF ListInv

(* A row that comes is none of those that were there or were given.           *)
LEMMA ArriveKeeps == ASSUME ListInv, Arrive PROVE ListInv'
<1>1. PICK id \in RowIds \ used, created \in 1..MaxCreated,
           picked \in IF query.list = "policies" THEN {TRUE} ELSE BOOLEAN :
        /\ listed' = listed \union {[id |-> id, created |-> created, picked |-> picked, open |-> TRUE]}
        /\ used' = used \union {id}
  BY DEF Arrive
<1> DEFINE new == [id |-> id, created |-> created, picked |-> picked, open |-> TRUE]
<1>2. new \in ListRows /\ new.id = id
  <2>1. picked \in BOOLEAN
    BY <1>1
  <2>2. QED
    BY <2>1 DEF ListRows
<1>3. listed' = listed \union {new}
  BY <1>1
<1> HIDE DEF new
<1>4. /\ reading' = reading /\ query' = query /\ cursor' = cursor /\ seen' = seen /\ stayed' = stayed
      /\ query # NoQuery
  BY DEF Arrive
<1>5. ListTypes'
  <2>1. IsFiniteSet(listed')
    BY <1>3, FS_AddElement DEF ListInv, ListTypes
  <2>2. QED
    BY <1>1, <1>2, <1>3, <1>4, <2>1 DEF ListInv, ListTypes, Numbered
<1>6. ~ Given(id) /\ id \notin stayed
  BY DEF ListInv, ListTypes, IdsOnce, Given
<1>7. IdsOnce'
  BY <1>1, <1>2, <1>3, <1>4 DEF ListInv, IdsOnce, Distinct
<1>8. GivenBehind'
  BY <1>2, <1>3, <1>4, <1>6 DEF ListInv, GivenBehind, Given, Before
<1>9. PassedGiven'
  BY <1>2, <1>3, <1>4, <1>6 DEF ListInv, PassedGiven, Given, Before
<1>10. EndGiven'
  BY <1>2, <1>3, <1>4, <1>6 DEF ListInv, EndGiven, Given, Matches
<1>11. QED
  BY <1>5, <1>7, <1>8, <1>9, <1>10 DEF ListInv

(* A Run that leaves its state did not stay, and keeps its place.             *)
LEMMA LeaveStateKeeps == ASSUME ListInv, LeaveState PROVE ListInv'
<1>1. PICK r \in listed : /\ listed' = (listed \ {r}) \union {[r EXCEPT !.open = FALSE]}
                          /\ stayed' = stayed \ {r.id}
  BY DEF LeaveState
<1> DEFINE left == [r EXCEPT !.open = FALSE]
<1>2. left \in ListRows /\ left.id = r.id /\ left.created = r.created
  BY DEF ListInv, ListTypes, ListRows
<1>3. listed' = (listed \ {r}) \union {left}
  BY <1>1
<1> HIDE DEF left
<1>4. reading' = reading /\ query' = query /\ cursor' = cursor /\ seen' = seen /\ used' = used
  BY DEF LeaveState
<1>5. ListTypes'
  <2>1. IsFiniteSet(listed')
    BY <1>3, FS_AddElement, FS_RemoveElement DEF ListInv, ListTypes
  <2>2. QED
    BY <1>1, <1>2, <1>3, <1>4, <2>1 DEF ListInv, ListTypes, Numbered
<1>6. IdsOnce'
  <2>1. Distinct(listed)'
    BY <1>2, <1>3 DEF ListInv, IdsOnce, Distinct
  <2>2. QED
    BY <1>2, <1>3, <1>4, <2>1 DEF ListInv, IdsOnce
<1>7. left.id \notin stayed'
  BY <1>1, <1>2
<1>8. Before(cursor, left) <=> Before(cursor, r)
  BY <1>2 DEF Before, RunBefore, AuditBefore, PolicyBefore
<1>9. GivenBehind'
  <2>1. \A x : Before(cursor, x)' <=> Before(cursor, x)
    BY <1>4 DEF Before
  <2>2. QED
    BY <1>2, <1>3, <1>4, <1>8, <2>1 DEF ListInv, GivenBehind, Given
<1>10. PassedGiven'
  BY <1>1, <1>3, <1>4, <1>7 DEF ListInv, PassedGiven, Given, Before
<1>11. EndGiven'
  BY <1>1, <1>3, <1>4, <1>7 DEF ListInv, EndGiven, Given, Matches
<1>12. QED
  BY <1>5, <1>6, <1>9, <1>10, <1>11 DEF ListInv

(* A cursor is worth the row that it names.                                    *)
LEMMA PointAtBefore == ASSUME NEW r, NEW f, NEW x PROVE Before(PointAt(r, f), x) <=> Before(r, x)
BY DEF PointAt, Before, RunBefore, AuditBefore, PolicyBefore

(* What a cursor remembers tells which rows it was for.                        *)
LEMMA MadeFetches ==
  ASSUME query \in Queries, NEW q \in Queries, q.list = query.list, Fingerprint(q) = Fingerprint(query), NEW x
  PROVE  Fetches(q, x) <=> Matches(x)
<1>1. CASE query.list = "runs"
  <2>1. PICK a, b : a = Fingerprint(q) /\ b = Fingerprint(query) /\ a = b
    OBVIOUS
  <2>2. a = <<q.reader, q.pick, q.open>>
    BY <1>1, <2>1 DEF Fingerprint
  <2>3. b = <<query.reader, query.pick, query.open>>
    BY <1>1, <2>1 DEF Fingerprint
  <2>4. a[2] = q.pick /\ a[3] = q.open
    BY <2>2
  <2>5. b[2] = query.pick /\ b[3] = query.open
    BY <2>3
  <2>6. q.pick = query.pick /\ q.open = query.open
    BY <2>1, <2>4, <2>5
  <2>7. QED
    BY <2>6 DEF Fetches, Matches
<1>2. CASE query.list = "audit"
  <2>1. PICK a, b : a = Fingerprint(q) /\ b = Fingerprint(query) /\ a = b
    OBVIOUS
  <2>2. a = <<q.reader, q.pick>>
    BY <1>2, <2>1 DEF Fingerprint
  <2>3. b = <<query.reader, query.pick>>
    BY <1>2, <2>1 DEF Fingerprint
  <2>4. a[2] = q.pick /\ b[2] = query.pick
    BY <2>2, <2>3
  <2>5. q.open = FALSE /\ query.open = FALSE
    BY <1>2 DEF Queries
  <2>6. q.pick = query.pick
    BY <2>1, <2>4
  <2>7. QED
    BY <2>5, <2>6 DEF Fetches, Matches
<1>3. CASE query.list = "policies"
  <2>1. q.open = FALSE /\ query.open = FALSE /\ q.pick = "all" /\ query.pick = "all"
    BY <1>3 DEF Queries
  <2>2. QED
    BY <2>1 DEF Fetches, Matches
<1>4. QED
  BY <1>1, <1>2, <1>3, QueryLists

(* A page goes on where the cursor stands, over the rows of its query.        *)
LEMMA PageKeeps == ASSUME ListInv, query \in Queries, Page(Fingerprint(query)) PROVE ListInv'
<1>1. PICK f : f = Fingerprint(query)
  OBVIOUS
<1>2. /\ reading \in {"no", "on"} /\ Resumes(f)
      /\ seen' = seen \o [i \in DOMAIN Items |-> Items[i].id]
      /\ cursor' = IF More THEN PointAt(Items[Len(Items)], f) ELSE NoCursor
      /\ reading' = IF More THEN "on" ELSE "ended"
      /\ stayed' = IF reading = "no" THEN {r.id : r \in listed} ELSE stayed
      /\ query' = query /\ listed' = listed /\ used' = used
  BY <1>1 DEF Page, Items, More
<1>3. listed \in SUBSET ListRows /\ IsFiniteSet(listed) /\ Distinct(listed) /\ seen \in Seq(RowIds)
  BY DEF ListInv, ListTypes, IdsOnce
<1>4. PICK items : items = Items
  OBVIOUS
<1>5. PICK n : n = Len(items)
  OBVIOUS
<1>6. PICK L : L = Len(seen)
  OBVIOUS
<1>7. /\ items \in Seq(Asked) /\ n \in Nat /\ L \in Nat
      /\ \A i, j \in 1..n : i # j => items[i] # items[j]
      /\ \A i \in 1..n : ~ Before(items[n], items[i])
      /\ More => n # 0
      /\ \A x \in Asked : (\E i \in 1..n : items[i] = x) \/ (More /\ Before(items[n], x))
  BY <1>3, <1>4, <1>5, <1>6, PageFacts
<1>8. DOMAIN items = 1..n /\ \A i \in 1..n : items[i] \in Asked
  BY <1>5, <1>7
<1>9. \A i \in 1..n : items[i] \in listed /\ Matches(items[i]) /\ AfterCursor(items[i])
  BY <1>8 DEF Asked
<1>10. \A x \in listed : Numbered(x) /\ x.created # 0 /\ x.id \in RowIds
  BY <1>3, RowNumbers
<1>11. PICK ids : ids = [i \in 1..n |-> items[i].id]
  OBVIOUS
<1>12. ids \in Seq(RowIds) /\ Len(ids) = n /\ \A i \in 1..n : ids[i] = items[i].id
  <2>1. \A i \in 1..n : items[i].id \in RowIds
    BY <1>9, <1>10
  <2>2. ids \in [1..n -> RowIds] /\ \A i \in 1..n : ids[i] = items[i].id
    BY <1>11, <2>1
  <2>3. n \in Nat
    BY <1>7
  <2>4. ids \in Seq(RowIds) /\ Len(ids) = n
    BY <2>2, <2>3
  <2>5. QED
    BY <2>2, <2>4
<1>13. seen' = seen \o ids
  BY <1>2, <1>4, <1>8, <1>11
<1>14. /\ seen' \in Seq(RowIds) /\ Len(seen') = L + n
       /\ \A i \in 1..L : seen'[i] = seen[i]
       /\ \A i \in (L + 1)..(L + n) : i - L \in 1..n /\ seen'[i] = items[i - L].id
  <2> PICK s, t : s = seen /\ t = seen'
    OBVIOUS
  <2>1. s \in Seq(RowIds) /\ Len(s) = L /\ ids \in Seq(RowIds) /\ Len(ids) = n /\ t = s \o ids
    BY <1>3, <1>6, <1>12, <1>13
  <2>2. t \in Seq(RowIds) /\ Len(t) = L + n /\ \A i \in 1..(L + n) : t[i] = IF i <= L THEN s[i] ELSE ids[i - L]
    BY <2>1, ConcatProperties
  <2>3. \A i \in 1..L : i \in 1..(L + n) /\ i <= L
    BY <1>7
  <2>4. \A i \in (L + 1)..(L + n) : i \in 1..(L + n) /\ ~ i <= L /\ i - L \in 1..n
    BY <1>7
  <2>5. \A i \in 1..L : t[i] = s[i]
    BY <2>2, <2>3
  <2>6. \A i \in (L + 1)..(L + n) : t[i] = ids[i - L]
    BY <2>2, <2>4
  <2>7. QED
    BY <1>12, <2>2, <2>4, <2>5, <2>6
<1>15. \A id : Given(id)' <=> Given(id) \/ \E i \in 1..n : items[i].id = id
  <2>1. \A i \in 1..(L + n) : i \in 1..L \/ i \in (L + 1)..(L + n)
    BY <1>7
  <2>2. \A i \in 1..L : i \in 1..(L + n)
    BY <1>7
  <2>3. \A i \in 1..n : L + i \in 1..(L + n) /\ L + i \in (L + 1)..(L + n) /\ (L + i) - L = i
    BY <1>7
  <2>4. ASSUME NEW id, Given(id)'
        PROVE  Given(id) \/ \E i \in 1..n : items[i].id = id
    <3>1. PICK i \in 1..(L + n) : seen'[i] = id
      BY <1>14, <2>4 DEF Given
    <3>2. QED
      BY <1>6, <1>14, <2>1, <3>1 DEF Given
  <2>5. ASSUME NEW id, Given(id)
        PROVE  Given(id)'
    <3>1. PICK i \in 1..L : seen[i] = id
      BY <1>6, <2>5 DEF Given
    <3>2. QED
      BY <1>14, <2>2, <3>1 DEF Given
  <2>6. ASSUME NEW id, NEW i \in 1..n, items[i].id = id
        PROVE  Given(id)'
    <3>1. seen'[L + i] = id
      BY <1>14, <2>3, <2>6
    <3>2. QED
      BY <1>14, <2>3, <3>1 DEF Given
  <2>7. QED
    BY <2>4, <2>5, <2>6
<1>16. reading = "on" => Numbered(cursor) /\ cursor # NoCursor
  BY DEF ListInv, ListTypes, NoCursor
<1>17. reading = "no" => cursor = NoCursor /\ \A id : ~ Given(id)
  BY DEF ListInv, ListTypes, Given
<1>18. \A x : AfterCursor(x) <=> reading = "no" \/ Before(cursor, x)
  BY <1>2, <1>16, <1>17 DEF AfterCursor
<1>19. \A x \in listed : Given(x.id) => reading = "on" /\ ~ Before(cursor, x)
  BY <1>2, <1>17 DEF ListInv, GivenBehind
<1>20. \A i \in 1..n : ~ Given(items[i].id)
  <2>1. ASSUME NEW i \in 1..n, Given(items[i].id)
        PROVE  FALSE
    <3>1. items[i] \in listed /\ AfterCursor(items[i])
      BY <1>9
    <3>2. reading = "on" /\ ~ Before(cursor, items[i])
      BY <1>19, <2>1, <3>1
    <3>3. QED
      BY <1>18, <3>1, <3>2
  <2>2. QED
    BY <2>1
<1>21. \A x, y : Before(x, y)' <=> Before(x, y)
  BY <1>2 DEF Before
<1>22. More => n \in 1..n /\ items[n] \in listed /\ cursor' = PointAt(items[n], f)
  BY <1>2, <1>4, <1>5, <1>7, <1>9
<1>23. ListTypes'
  <2>1. More => Numbered(cursor') /\ cursor'.created # 0
    BY <1>10, <1>22 DEF PointAt, Numbered
  <2>2. stayed' \subseteq used
    BY <1>2 DEF ListInv, ListTypes, IdsOnce
  <2>3. reading' = "on" => More
    BY <1>2
  <2>4. reading' # "no" /\ query # NoQuery
    BY <1>2, NoQueryApart
  <2>5. used \subseteq RowIds
    BY DEF ListInv, ListTypes
  <2>6. Numbered(cursor)' <=> Numbered(cursor')
    BY DEF Numbered
  <2>7. QED
    BY <1>2, <1>3, <1>14, <2>1, <2>2, <2>3, <2>4, <2>5, <2>6 DEF ListTypes
<1>24. IdsOnce'
  <2>1. Distinct(listed)' /\ \A r \in listed' : r.id \in used'
    BY <1>2, <1>3 DEF ListInv, IdsOnce, Distinct
  <2>2. \A i \in 1..(L + n) : i \in 1..L \/ i \in (L + 1)..(L + n)
    BY <1>7
  <2>3. \A i \in 1..(L + n) : seen'[i] \in used'
    BY <1>2, <1>6, <1>9, <1>14, <2>2 DEF ListInv, IdsOnce
  <2>4. \A i, j \in 1..n : items[i].id = items[j].id => i = j
    BY <1>3, <1>7, <1>9 DEF Distinct
  <2>5. ASSUME NEW i \in 1..(L + n), NEW j \in 1..(L + n), seen'[i] = seen'[j]
        PROVE  i = j
    <3>1. CASE i \in 1..L /\ j \in 1..L
      BY <1>6, <1>14, <2>5, <3>1 DEF ListInv, IdsOnce
    <3>2. CASE i \in 1..L /\ j \in (L + 1)..(L + n)
      <4>1. j - L \in 1..n /\ seen[i] = items[j - L].id
        BY <1>14, <2>5, <3>2
      <4>2. Given(items[j - L].id)
        BY <1>6, <3>2, <4>1 DEF Given
      <4>3. QED
        BY <1>20, <4>1, <4>2
    <3>3. CASE j \in 1..L /\ i \in (L + 1)..(L + n)
      <4>1. i - L \in 1..n /\ seen[j] = items[i - L].id
        BY <1>14, <2>5, <3>3
      <4>2. Given(items[i - L].id)
        BY <1>6, <3>3, <4>1 DEF Given
      <4>3. QED
        BY <1>20, <4>1, <4>2
    <3>4. CASE i \in (L + 1)..(L + n) /\ j \in (L + 1)..(L + n)
      <4>1. i - L \in 1..n /\ j - L \in 1..n /\ items[i - L].id = items[j - L].id
        BY <1>14, <2>5, <3>4
      <4>2. i - L = j - L
        BY <2>4, <4>1
      <4>3. QED
        BY <1>7, <3>4, <4>2
    <3>5. QED
      BY <2>2, <3>1, <3>2, <3>3, <3>4
  <2>6. QED
    BY <1>14, <2>1, <2>3, <2>5 DEF IdsOnce
<1>25. ASSUME More, NEW x \in listed, Given(x.id)'
       PROVE  ~ Before(items[n], x)
  <2>1. items[n] \in listed /\ n \in 1..n
    BY <1>22, <1>25
  <2>2. Numbered(items[n]) /\ Numbered(x)
    BY <1>10, <2>1
  <2>3. CASE Given(x.id)
    <3>1. reading = "on" /\ ~ Before(cursor, x) /\ Numbered(cursor)
      BY <1>16, <1>19, <2>3
    <3>2. Before(cursor, items[n])
      BY <1>9, <1>18, <2>1, <3>1
    <3>3. QED
      BY <2>2, <3>1, <3>2, BeforeRanks
  <2>4. CASE \E i \in 1..n : items[i].id = x.id
    <3>1. PICK i \in 1..n : items[i].id = x.id
      BY <2>4
    <3>2. items[i] = x
      BY <1>3, <1>9, <3>1 DEF Distinct
    <3>3. QED
      BY <1>7, <3>1, <3>2
  <2>5. QED
    BY <1>15, <1>25, <2>3, <2>4
<1>26. GivenBehind'
  <2>1. ASSUME reading' = "on", NEW x \in listed, Given(x.id)'
        PROVE  ~ Before(cursor', x)
    <3>1. More
      BY <1>2, <2>1
    <3>2. ~ Before(items[n], x)
      BY <1>25, <2>1, <3>1
    <3>3. QED
      BY <1>22, <3>1, <3>2, PointAtBefore
  <2>2. \A x : Before(cursor, x)' <=> Before(cursor', x)
    BY <1>2 DEF Before
  <2>3. QED
    BY <1>2, <2>1, <2>2 DEF GivenBehind
<1>27. ASSUME NEW x \in listed, x.id \in stayed', Matches(x)
       PROVE  Given(x.id)' \/ (More /\ Before(items[n], x))
  <2>1. CASE AfterCursor(x)
    <3>1. x \in Asked
      BY <1>27, <2>1 DEF Asked
    <3>2. QED
      BY <1>7, <1>15, <3>1
  <2>2. CASE ~ AfterCursor(x)
    <3>1. reading = "on" /\ ~ Before(cursor, x) /\ x.id \in stayed
      BY <1>2, <1>18, <1>27, <2>2
    <3>2. cursor.query = f
      BY <1>2, <1>16, <3>1 DEF Resumes
    <3>3. Fetches(query, x)
      BY <1>27 DEF Fetches, Matches
    <3>4. Given(x.id)
      BY <1>1, <3>1, <3>2, <3>3 DEF ListInv, PassedGiven
    <3>5. QED
      BY <1>15, <3>4
  <2>3. QED
    BY <2>1, <2>2
<1>28. PassedGiven'
  <2>1. ASSUME reading' = "on", NEW q \in Queries, q.list = query.list, Fingerprint(q) = cursor'.query,
               NEW x \in listed, x.id \in stayed', Fetches(q, x), ~ Before(cursor', x)
        PROVE  Given(x.id)'
    <3>1. More
      BY <1>2, <2>1
    <3>2. cursor'.query = f /\ ~ Before(items[n], x)
      BY <1>22, <2>1, <3>1, PointAtBefore DEF PointAt
    <3>3. Matches(x)
      BY <1>1, <2>1, <3>2, MadeFetches
    <3>4. QED
      BY <1>27, <2>1, <3>2, <3>3
  <2>2. \A x : Before(cursor, x)' <=> Before(cursor', x)
    BY <1>2 DEF Before
  <2>3. QED
    BY <1>2, <2>1, <2>2 DEF PassedGiven
<1>29. EndGiven'
  <2>1. reading' = "ended" => ~ More
    BY <1>2
  <2>2. \A x : Matches(x)' <=> Matches(x)
    BY <1>2 DEF Matches
  <2>3. QED
    BY <1>2, <1>27, <2>1, <2>2 DEF EndGiven
<1>30. QED
  BY <1>23, <1>24, <1>26, <1>28, <1>29 DEF ListInv

(* One page of any of the lists, or its refusal.                               *)
LEMMA ListsKeep == ASSUME ListInv, ListRuns \/ ListEvents \/ ListPolicies PROVE ListInv'
<1>1. query.list \in {"runs", "audit", "policies"}
  BY DEF ListRuns, ListEvents, ListPolicies
<1>2. query \in Queries
  BY <1>1 DEF ListInv, ListTypes, NoQuery
<1>3. CASE ListRuns
  <2>1. Fingerprint(query) = RunsFingerprint
    BY <1>3 DEF ListRuns, Fingerprint, RunsFingerprint
  <2>2. QED
    BY <1>2, <1>3, <2>1, PageKeeps, RefuseKeeps DEF ListRuns
<1>4. CASE ListEvents
  <2>1. Fingerprint(query) = AuditFingerprint
    BY <1>4 DEF ListEvents, Fingerprint, AuditFingerprint
  <2>2. QED
    BY <1>2, <1>4, <2>1, PageKeeps, RefuseKeeps DEF ListEvents
<1>5. CASE ListPolicies
  <2>1. Fingerprint(query) = PoliciesFingerprint
    BY <1>5 DEF ListPolicies, Fingerprint, PoliciesFingerprint
  <2>2. QED
    BY <1>2, <1>5, <2>1, PageKeeps, RefuseKeeps DEF ListPolicies
<1>6. QED
  BY <1>3, <1>4, <1>5

(* Whatever happens between two pages.                                        *)
LEMMA ListInvNext == ListInv /\ [ListNext]_listVars => ListInv'
<1> SUFFICES ASSUME ListInv, [ListNext]_listVars PROVE ListInv'
  OBVIOUS
<1>1. CASE UNCHANGED listVars
  <2>1. /\ query' = query /\ listed' = listed /\ cursor' = cursor /\ reading' = reading
        /\ seen' = seen /\ stayed' = stayed /\ used' = used
    BY <1>1 DEF listVars
  <2>2. \A x : (Before(cursor, x)' <=> Before(cursor, x)) /\ (Matches(x)' <=> Matches(x))
    BY <2>1 DEF Before, Matches
  <2>3. \A id : Given(id)' <=> Given(id)
    BY <2>1 DEF Given
  <2>4. ListTypes' /\ IdsOnce'
    BY <2>1 DEF ListInv, ListTypes, Numbered, IdsOnce, Distinct
  <2>5. GivenBehind'
    BY <2>1, <2>2, <2>3 DEF ListInv, GivenBehind
  <2>6. PassedGiven'
    BY <2>1, <2>2, <2>3 DEF ListInv, PassedGiven
  <2>7. EndGiven'
    BY <2>1, <2>2, <2>3 DEF ListInv, EndGiven
  <2>8. QED
    BY <2>4, <2>5, <2>6, <2>7 DEF ListInv
<1>2. QED
  BY <1>1, AskListKeeps, ArriveKeeps, LeaveStateKeeps, PurgeKeeps, TurnToKeeps, ListsKeep DEF ListNext

(* Whoever pages through a list to its end has been given every row that was   *)
(* there all along, and none twice.                                            *)
THEOREM PagesAreComplete == ListSpec => []PagesComplete
<1>1. ListInit => ListInv
  BY ListInvInit
<1>2. ListInv /\ [ListNext]_listVars => ListInv'
  BY ListInvNext
<1>3. ListInv => PagesComplete
  BY ListEnds
<1>4. QED
  BY <1>1, <1>2, <1>3, PTL DEF ListSpec
=============================================================================
