------------------------- MODULE ConnectionRegistry -------------------------
(***************************************************************************)
(* A Connection, the Tool discovered through it, and callers that read the   *)
(* row, work on their copy and write it back: SqliteConnectionRegistry under *)
(* the contracts of domain/connections.py.  Whatever is not part of its life *)
(* or its scope is the set of changes that callers made to it.               *)
(***************************************************************************)
EXTENDS Integers, FiniteSets

CONSTANTS
  Editors,     \* callers; each makes one change or saves one discovery
  NoRow,
  MaxStamp     \* bound on the clocks the callers read

Never == 0     \* no timestamp; the Connection is created at 1

ConnectionStates == {"disconnected", "connecting", "connected", "degraded", "error"}

(* Of a Tool's states two are enough: a discovery differs from another or not. *)
ToolStates == {"active", "changed"}

ConnectionRows ==
  [state : ConnectionStates, scope : {"instance", "user"}, updated : Int, connectedAt : Int,
   checkedAt : Int, failed : BOOLEAN, revision : Nat, changes : SUBSET Editors]

ToolRows == [state : ToolStates, at : Int]

ASSUME RegistryAssumption ==
  MaxStamp \in Nat \ {0} /\ NoRow \notin ConnectionRows /\ NoRow \notin ToolRows

ConnectionTransitions(state) ==
  CASE state = "disconnected" -> {"connecting"}
    [] state = "connecting" -> {"connected", "error", "disconnected"}
    [] state = "connected" -> {"degraded", "disconnected"}
    [] state = "degraded" -> {"connected", "error", "disconnected"}
    [] state = "error" -> {"connecting", "disconnected"}

VARIABLES
  connection,  \* the row of the Connection, NoRow before it is added
  tool,        \* the row of the Tool, NoRow before it is discovered
  doing,       \* what a caller is at
  copy         \* its copy of the row; once it is done, what it wrote

registryVars == <<connection, tool, doing, copy>>

(* Connection.__post_init__ *)
IsConnection(c) ==
  /\ c \in ConnectionRows /\ c.updated >= 1
  /\ \A at \in {c.connectedAt, c.checkedAt} \ {Never} : at \in 1..c.updated
  /\ c.connectedAt # Never /\ c.checkedAt # Never => c.checkedAt >= c.connectedAt
  /\ c.state \in {"connected", "degraded"} => c.connectedAt # Never
  /\ c.failed <=> c.state \in {"degraded", "error"}

(* ToolRegistrySnapshot.__post_init__ *)
IsTool(t) == t \in ToolRows /\ t.at \in 1..MaxStamp

(* transition_connection *)
Transitioned(c, target, at) ==
  [c EXCEPT
     !.state = target,
     !.updated = at,
     !.connectedAt = IF target = "connected" /\ @ = Never THEN at ELSE @,
     !.checkedAt = IF target \in {"connected", "degraded", "error"} THEN at ELSE @,
     !.failed = target \in {"degraded", "error"},
     !.revision = @ + 1]

Rescoped(c, scope) == [c EXCEPT !.scope = scope, !.revision = @ + 1]

(* What a caller may make of its copy: a transition not before the last, or    *)
(* another scope.                                                              *)
Edits(c) ==
  {Transitioned(c, target, at) : target \in ConnectionTransitions(c.state), at \in c.updated..MaxStamp}
  \union {Rescoped(c, scope) : scope \in {"instance", "user"} \ {c.scope}}

-----------------------------------------------------------------------------
RegistryInit ==
  /\ connection = NoRow /\ tool = NoRow
  /\ doing = [e \in Editors |-> "idle"]
  /\ copy = [e \in Editors |-> NoRow]

EditEnds(e, how) == doing' = [doing EXCEPT ![e] = how]
Refuses(e) == EditEnds(e, "refused") /\ UNCHANGED <<connection, tool, copy>>

(* add_connection; a second row with the id violates the primary key.          *)
AddConnection(e) ==
  /\ doing[e] = "idle"
  /\ IF connection # NoRow THEN Refuses(e)
     ELSE /\ connection' = [state |-> "disconnected", scope |-> "instance", updated |-> 1,
                            connectedAt |-> Never, checkedAt |-> Never, failed |-> FALSE,
                            revision |-> 0, changes |-> {e}]
          /\ copy' = [copy EXCEPT ![e] = connection']
          /\ EditEnds(e, "edited") /\ UNCHANGED tool

GetConnection(e) ==
  /\ doing[e] = "idle" /\ connection # NoRow
  /\ copy' = [copy EXCEPT ![e] = connection]
  /\ \E next \in {"editing", "discovering"} : EditEnds(e, next)
  /\ UNCHANGED <<connection, tool>>

(* A bug to catch: the row is written whatever its revision has become.        *)
UpdateBlindly(e) ==
  /\ doing[e] = "editing"
  /\ \E edited \in Edits(copy[e]) :
       /\ connection' = [edited EXCEPT !.changes = @ \union {e}]
       /\ copy' = [copy EXCEPT ![e] = connection']
       /\ EditEnds(e, "edited") /\ UNCHANGED tool

(* update_connection with the revision the copy was read at.                   *)
UpdateConnection(e) ==
  /\ doing[e] = "editing"
  /\ \E edited \in Edits(copy[e]) :
       IF connection.revision # copy[e].revision THEN Refuses(e)
       ELSE /\ connection' = [edited EXCEPT !.changes = @ \union {e}]
            /\ copy' = [copy EXCEPT ![e] = connection']
            /\ EditEnds(e, "edited") /\ UNCHANGED tool

(* ToolRegistrySnapshotFactory.build takes the scope of the copy, ...          *)
Discovered(c, state, at) == [scope |-> c.scope, tool |-> [state |-> state, at |-> at]]

(* ... and save_tool_snapshot wants it to be the Connection's still: of a      *)
(* stored Tool the scope is read from there.                                   *)
SaveToolSnapshot(e) ==
  /\ doing[e] = "discovering"
  /\ \E state \in ToolStates, at \in 1..MaxStamp :
       LET found == Discovered(copy[e], state, at)
       IN IF \/ found.scope # connection.scope
             \/ tool # NoRow /\ at <= tool.at /\ (at = tool.at => found.tool # tool)
          THEN Refuses(e)
          ELSE /\ tool' = found.tool
               /\ copy' = [copy EXCEPT ![e] = found.tool]
               /\ EditEnds(e, "discovered") /\ UNCHANGED connection

RegistryNext ==
  \E e \in Editors :
    \/ AddConnection(e) \/ GetConnection(e) \/ UpdateConnection(e) \/ SaveToolSnapshot(e)

RegistrySpec == RegistryInit /\ [][RegistryNext]_registryVars

-----------------------------------------------------------------------------
(* Properties *)

RegistryTypeOK ==
  /\ connection # NoRow => IsConnection(connection)
  /\ tool # NoRow => IsTool(tool)
  /\ doing \in [Editors -> {"idle", "editing", "discovering", "edited", "discovered", "refused"}]

(* What a caller was told is saved stays: every later row contains its change  *)
(* or a discovery not older than its own, and of one time there is one         *)
(* discovery (connections.py:259 revision, :341 discovered_at).                *)
RegistryKeeps ==
  \A e \in Editors :
    /\ doing[e] = "edited" => e \in connection.changes
    /\ doing[e] = "discovered" => copy[e].at < tool.at \/ copy[e] = tool
    /\ \A f \in Editors :
         doing[e] = "edited" /\ doing[f] = "edited" /\ e # f => copy[e].revision # copy[f].revision
=============================================================================
