--------------------------- MODULE RunPersistence ---------------------------
(***************************************************************************)
(* The two levels of the database: the rows of Runs, of which one transaction *)
(* is one step (RunStore), and the unit of work that makes a transaction one  *)
(* step (UnitOfWork).  Seen from the rows a unit has happened or it has not,   *)
(* and a unit does not look at what it writes: a behaviour of this module is   *)
(* that of one level.                                                         *)
(***************************************************************************)
EXTENDS RunStore, UnitOfWork

VARIABLE level

persistenceVars == <<level, storeVars, vars>>

PersistenceInit == StoreInit /\ Init /\ level \in {"rows", "units"}

PersistenceNext ==
  /\ UNCHANGED level
  /\ \/ level = "rows" /\ StoreNext /\ UNCHANGED vars
     \/ level = "units" /\ Next /\ UNCHANGED storeVars

(* Units are as fair as in UnitOfWork; nobody has to call the store.          *)
PersistenceFairness ==
  LET Running(A) == level = "units" /\ A /\ UNCHANGED <<level, storeVars>>
  IN /\ WF_persistenceVars(Running(ThreadServes))
     /\ \A t \in Tasks : WF_persistenceVars(Running(Step(t)))
     /\ WF_persistenceVars(Running(CloseAcquires))
     /\ WF_persistenceVars(Running(CloseEnds))

PersistenceSpec ==
  PersistenceInit /\ [][PersistenceNext]_persistenceVars /\ PersistenceFairness
=============================================================================
