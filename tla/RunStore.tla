------------------------------ MODULE RunStore ------------------------------
(***************************************************************************)
(* The durable side of Run execution: the rows of runs, run_steps,          *)
(* run_execution_plans and run_outputs, with one action per transaction of  *)
(* SqliteRunQueueStore, SqliteOrchestrationExecutionStore and               *)
(* SqliteOrchestrationLifecycleStore.  Transactions are serialised by the   *)
(* unit of work, so each is one step; a call whose checks fail raises and   *)
(* rolls back, that is, it is not a step.                                   *)
(*                                                                          *)
(* StoreSpec lets any caller make any legal call at any time: what it       *)
(* satisfies does not depend on the queue runtime or the engine behaving.   *)
(*                                                                          *)
(* Time is relative: lease[r] is how many ticks the lease still lasts, and  *)
(* 0 stands for "expired or NULL".  The queue order (queued_at, created_at, *)
(* id) is relative too: ahead[r] is the set of queued Runs sorted before r. *)
(***************************************************************************)
EXTENDS RunDomain, Sequences, FiniteSets

CONSTANTS
  RunIds,       \* the Runs
  Workers,      \* worker ids: one per RunQueueRuntime object
  NoWorker,     \* worker_id IS NULL
  Nodes,        \* node ids of the plans' steps
  Plan,         \* Plan[r]: the nodes of r's plan, {} for a direct answer
  Deps,         \* Deps[n]: task.depends_on
  Required,     \* nodes whose requirement is "required"
  Idempotent,   \* nodes that may be run again after an interruption
  LeaseLen,     \* lease_duration, in ticks
  MaxRevision   \* bound: claims stop at this revision

ASSUME PlanAssumption ==
  /\ Plan \in [RunIds -> SUBSET Nodes]
  /\ Deps \in [Nodes -> SUBSET Nodes]
  /\ \A r \in RunIds : \A n \in Plan[r] : Deps[n] \subseteq Plan[r]
  /\ Required \subseteq Nodes
  /\ Idempotent \subseteq Nodes
ASSUME WorkerAssumption == NoWorker \notin Workers
ASSUME LeaseAssumption == LeaseLen \in Nat \ {0} /\ MaxRevision \in Nat

VARIABLES
  state,      \* runs.state
  revision,   \* runs.revision
  owner,      \* runs.worker_id
  lease,      \* runs.lease_expires_at, as ticks left
  ahead,      \* runs.queued_at, as the queued Runs that sort before
  planned,    \* the Runs with a run_execution_plans row
  steps,      \* steps[r][n]: the states of the attempts of node n, in order
  output      \* whether the run_outputs row exists

storeVars == <<state, revision, owner, lease, ahead, planned, steps, output>>

NoSteps == [n \in Nodes |-> <<>>]

StoreInit ==
  /\ state = [r \in RunIds |-> "received"]
  /\ revision = [r \in RunIds |-> 0]
  /\ owner = [r \in RunIds |-> NoWorker]
  /\ lease = [r \in RunIds |-> 0]
  /\ ahead = [r \in RunIds |-> {}]
  /\ planned = {}
  /\ steps = [r \in RunIds |-> NoSteps]
  /\ output = [r \in RunIds |-> FALSE]

-----------------------------------------------------------------------------
(* Queries *)

Queued == {r \in RunIds : state[r] = "queued"}

Expired == {r \in RunIds : state[r] \in Leased /\ lease[r] = 0}

(* The WHERE clause of _require_owner and of _require_composing_owner. *)
Owns(r, w, st) == state[r] = st /\ owner[r] = w /\ lease[r] > 0

Latest(r, n) == steps[r][n][Len(steps[r][n])]

(* UPDATE run_steps SET state = new WHERE run_id = r AND state IN old *)
Rewritten(r, old, new) ==
  [n \in Nodes |-> [k \in 1..Len(steps[r][n]) |->
     IF steps[r][n][k] \in old THEN new ELSE steps[r][n][k]]]

SetStep(r, n, k, s) == steps' = [steps EXCEPT ![r][n][k] = s]

(* _persist_transition: the row moves one edge and one revision. *)
Transition(r, target) ==
  /\ state' = [state EXCEPT ![r] = target]
  /\ revision' = [revision EXCEPT ![r] = @ + 1]

Release(r) ==
  /\ owner' = [owner EXCEPT ![r] = NoWorker]
  /\ lease' = [lease EXCEPT ![r] = 0]

JoinQueue(r) == ahead' = [ahead EXCEPT ![r] = Queued]

LeaveQueue(r) == ahead' = [q \in RunIds |-> IF q = r THEN {} ELSE ahead[q] \ {r}]

-----------------------------------------------------------------------------
(* SqliteOrchestrationLifecycleStore, before the queue *)

StartPlanning(r) ==
  /\ state[r] = "received"
  /\ Transition(r, "planning")
  /\ UNCHANGED <<owner, lease, ahead, planned, steps, output>>

FailPlanning(r) ==
  /\ state[r] = "planning"
  /\ Transition(r, "failed")
  /\ Release(r)
  /\ UNCHANGED <<ahead, planned, steps, output>>

(* A Run that already has this plan keeps it and nothing changes (no step). *)
MaterializeAndEnqueue(r) ==
  /\ r \notin planned
  /\ state[r] \in {"received", "planning"}
  /\ planned' = planned \union {r}
  /\ steps' = [steps EXCEPT ![r] = [n \in Nodes |-> IF n \in Plan[r] THEN <<"queued">> ELSE <<>>]]
  /\ Transition(r, "queued")
  /\ Release(r)
  /\ JoinQueue(r)
  /\ UNCHANGED output

-----------------------------------------------------------------------------
(* SqliteRunQueueStore *)

(* RunQueueRuntime.enqueue: queues a Run whether or not it has a plan. *)
Enqueue(r) ==
  /\ state[r] \in {"received", "planning", "interrupted"}
  /\ Transition(r, "queued")
  /\ Release(r)
  /\ JoinQueue(r)
  /\ UNCHANGED <<planned, steps, output>>

ClaimNext(r, w) ==
  /\ state[r] = "queued"
  /\ ahead[r] = {}
  /\ revision[r] < MaxRevision
  /\ Transition(r, "running")
  /\ owner' = [owner EXCEPT ![r] = w]
  /\ lease' = [lease EXCEPT ![r] = LeaseLen]
  /\ LeaveQueue(r)
  /\ UNCHANGED <<planned, steps, output>>

CanRenew(r, w) == state[r] \in Leased /\ owner[r] = w /\ lease[r] > 0

Heartbeat(r, w) ==
  /\ CanRenew(r, w)
  /\ lease' = [lease EXCEPT ![r] = LeaseLen]
  /\ UNCHANGED <<state, revision, owner, ahead, planned, steps, output>>

(* Mutants: the claim is kept; interrupted attempts are cancelled too.        *)
CancelKeepsClaim(r) ==
  /\ state[r] \in {"queued", "running"}
  /\ Transition(r, "cancelled")
  /\ LeaveQueue(r)
  /\ steps' = [steps EXCEPT ![r] = Rewritten(r, {"queued", "running"}, "cancelled")]
  /\ UNCHANGED <<owner, lease, planned, output>>

CancelsInterrupted(r) ==
  /\ state[r] \in {"queued", "running"}
  /\ Transition(r, "cancelled")
  /\ Release(r)
  /\ LeaveQueue(r)
  /\ steps' = [steps EXCEPT ![r] = Rewritten(r, StepStates \ Terminal, "cancelled")]
  /\ UNCHANGED <<planned, output>>

Cancel(r) ==
  /\ state[r] \in {"queued", "running"}
  /\ Transition(r, "cancelled")
  /\ Release(r)
  /\ LeaveQueue(r)
  /\ steps' = [steps EXCEPT ![r] = Rewritten(r, {"queued", "running"}, "cancelled")]
  /\ UNCHANGED <<planned, output>>

(* Mutant: only the attempts of earlier interruptions are looked at. *)
UnrepeatableInterrupted(r) ==
  \E n \in Nodes \ Idempotent :
    \E k \in 1..Len(steps[r][n]) : steps[r][n][k] = "interrupted"

(* Recovery of one Run: a composing Run fails as it stands; a running one is *)
(* interrupted and, in the same transaction, failed when an interrupted step *)
(* of any attempt may not be repeated, and requeued otherwise.               *)
Unrepeatable(r) ==
  \E n \in Nodes \ Idempotent :
    \E k \in 1..Len(steps[r][n]) : steps[r][n][k] \in {"running", "interrupted"}

Recovered(r) == IF state[r] = "composing" \/ Unrepeatable(r) THEN "failed" ELSE "queued"

RecoveredSteps(r) ==
  IF state[r] = "composing" THEN steps[r]
  ELSE IF Unrepeatable(r) THEN Rewritten(r, {"running", "interrupted"}, "failed")
  ELSE Rewritten(r, {"running"}, "interrupted")

(* Recover the Runs of S in one transaction.  The requeued ones get equal    *)
(* queued_at stamps, later than every other; created_at and id break the tie *)
(* in an order that rank stands for.                                         *)
RecoverRuns(S) ==
  /\ state' = [r \in RunIds |-> IF r \in S THEN Recovered(r) ELSE state[r]]
  /\ revision' = [r \in RunIds |->
       IF r \in S THEN revision[r] + (IF state[r] = "composing" THEN 1 ELSE 2)
       ELSE revision[r]]
  /\ owner' = [r \in RunIds |-> IF r \in S THEN NoWorker ELSE owner[r]]
  /\ lease' = [r \in RunIds |-> IF r \in S THEN 0 ELSE lease[r]]
  /\ steps' = [r \in RunIds |-> IF r \in S THEN RecoveredSteps(r) ELSE steps[r]]
  /\ LET requeued == {r \in S : Recovered(r) = "queued"} IN
       \E rank \in [requeued -> 1..Cardinality(requeued)] :
         /\ \A p, q \in requeued : rank[p] = rank[q] => p = q
         /\ ahead' = [r \in RunIds |->
              IF r \in requeued
              THEN Queued \union {q \in requeued : rank[q] < rank[r]}
              ELSE ahead[r]]
  /\ UNCHANGED <<planned, output>>

RecoverExpired == RecoverRuns(Expired)

(* Gives up a claim: no lease check, and nothing to do unless w still owns r. *)
AbandonClaim(r, w) ==
  IF state[r] \in Leased /\ owner[r] = w
  THEN RecoverRuns({r})
  ELSE UNCHANGED storeVars

-----------------------------------------------------------------------------
(* SqliteOrchestrationExecutionStore: writes of the claim's holder *)

(* load_for_claim succeeds: it reads, and fails without ownership or plan. *)
CanLoad(r, w) == Owns(r, w, "running") /\ r \in planned

RetryInterruptedStep(r, w, n, k) ==
  /\ Owns(r, w, "running")
  /\ n \in Idempotent
  /\ k = Len(steps[r][n])
  /\ k > 0
  /\ Latest(r, n) = "interrupted"
  /\ steps' = [steps EXCEPT ![r][n] = Append(@, "queued")]
  /\ UNCHANGED <<state, revision, owner, lease, ahead, planned, output>>

StartStep(r, w, n, k) ==
  /\ Owns(r, w, "running")
  /\ k \in 1..Len(steps[r][n])
  /\ steps[r][n][k] = "queued"
  /\ SetStep(r, n, k, "running")
  /\ UNCHANGED <<state, revision, owner, lease, ahead, planned, output>>

FinishStep(r, w, n, k, outcome) ==
  /\ Owns(r, w, "running")
  /\ outcome \in {"completed", "failed"}
  /\ k \in 1..Len(steps[r][n])
  /\ steps[r][n][k] = "running"
  /\ SetStep(r, n, k, outcome)
  /\ UNCHANGED <<state, revision, owner, lease, ahead, planned, output>>

CancelStep(r, w, n, k) ==
  /\ Owns(r, w, "running")
  /\ k \in 1..Len(steps[r][n])
  /\ steps[r][n][k] = "queued"
  /\ SetStep(r, n, k, "cancelled")
  /\ UNCHANGED <<state, revision, owner, lease, ahead, planned, output>>

(* Mutant: the claim is checked as the heartbeat does, composing or not. *)
FinishRunAgain(r, w, target) ==
  /\ CanRenew(r, w)
  /\ target \in {"composing", "failed"}
  /\ Transition(r, target)
  /\ IF target = "composing" THEN UNCHANGED <<owner, lease>> ELSE Release(r)
  /\ UNCHANGED <<ahead, planned, steps, output>>

(* A composing Run keeps its worker and its lease; a failed one gives them up. *)
FinishRun(r, w, target) ==
  /\ Owns(r, w, "running")
  /\ target \in {"composing", "failed"}
  /\ Transition(r, target)
  /\ IF target = "composing" THEN UNCHANGED <<owner, lease>> ELSE Release(r)
  /\ UNCHANGED <<ahead, planned, steps, output>>

-----------------------------------------------------------------------------
(* SqliteOrchestrationLifecycleStore, after the engine *)

(* The output row has the Run as its primary key: a second one is an error. *)
CompleteOutput(r, w) ==
  /\ Owns(r, w, "composing")
  /\ ~output[r]
  /\ output' = [output EXCEPT ![r] = TRUE]
  /\ Transition(r, "completed")
  /\ Release(r)
  /\ UNCHANGED <<ahead, planned, steps>>

FailComposition(r, w) ==
  /\ Owns(r, w, "composing")
  /\ Transition(r, "failed")
  /\ Release(r)
  /\ UNCHANGED <<ahead, planned, steps, output>>

-----------------------------------------------------------------------------
Tick ==
  /\ lease' = [r \in RunIds |-> IF lease[r] > 0 THEN lease[r] - 1 ELSE 0]
  /\ UNCHANGED <<state, revision, owner, ahead, planned, steps, output>>

StoreNext ==
  \/ \E r \in RunIds :
       \/ StartPlanning(r)
       \/ FailPlanning(r)
       \/ MaterializeAndEnqueue(r)
       \/ Enqueue(r)
       \/ Cancel(r)
  \/ \E r \in RunIds, w \in Workers :
       \/ ClaimNext(r, w)
       \/ Heartbeat(r, w)
       \/ AbandonClaim(r, w)
       \/ CompleteOutput(r, w)
       \/ FailComposition(r, w)
       \/ \E target \in {"composing", "failed"} : FinishRun(r, w, target)
  \/ \E r \in RunIds, w \in Workers, n \in Nodes :
       \E k \in 1..Len(steps[r][n]) :
         \/ RetryInterruptedStep(r, w, n, k)
         \/ StartStep(r, w, n, k)
         \/ CancelStep(r, w, n, k)
         \/ \E outcome \in {"completed", "failed"} : FinishStep(r, w, n, k, outcome)
  \/ RecoverExpired
  \/ Tick

StoreSpec == StoreInit /\ [][StoreNext]_storeVars

-----------------------------------------------------------------------------
(* Properties *)

(* Every row holds values of its column's type. *)
StoreTypeOK ==
  /\ state \in [RunIds -> RunStates]
  /\ revision \in [RunIds -> Nat]
  /\ owner \in [RunIds -> Workers \union {NoWorker}]
  /\ lease \in [RunIds -> 0..LeaseLen]
  /\ ahead \in [RunIds -> SUBSET RunIds]
  /\ planned \subseteq RunIds
  /\ steps \in [RunIds -> [Nodes -> Seq(StepStates)]]
  /\ output \in [RunIds -> BOOLEAN]

(* A Run carries a worker exactly while it runs or composes, and a lease only *)
(* while it carries a worker, whichever of the eleven statements that move a  *)
(* Run wrote the row last: a requeued or finished Run never looks claimed,    *)
(* and no claimed Run is invisible to recover_expired.                        *)
OwnershipMatchesState ==
  \A r \in RunIds :
    /\ owner[r] # NoWorker <=> state[r] \in Leased
    /\ lease[r] > 0 => owner[r] # NoWorker

(* Attempts of a node: only the last can still matter, those before it were   *)
(* interrupted (or failed when a later recovery gave the Run up), and a node  *)
(* that may not be repeated has a single attempt whatever was interrupted.    *)
(* In particular a completed step is never run again after a recovery.        *)
AttemptsWellFormed ==
  \A r \in RunIds, n \in Nodes :
    /\ \A k \in 1..Len(steps[r][n]) :
         k < Len(steps[r][n]) => steps[r][n][k] \in {"interrupted", "failed"}
    /\ n \notin Idempotent => Len(steps[r][n]) <= 1

(* Attempts are never lost and move along the domain's edges only, although   *)
(* the stores write them with raw UPDATEs that never call transition_step.    *)
StepsFollowDomain ==
  [][ \A r \in RunIds, n \in Nodes :
        /\ Len(steps'[r][n]) >= Len(steps[r][n])
        /\ \A k \in 1..Len(steps[r][n]) :
             \/ steps'[r][n][k] = steps[r][n][k]
             \/ <<steps[r][n][k], steps'[r][n][k]>> \in StepEdges ]_storeVars

(* Once a Run is terminal no late write of an old worker, no recovery and no  *)
(* retry touches its steps, its ownership or its output.                      *)
TerminalFrozen ==
  [][ \A r \in RunIds : state[r] \in Terminal =>
        /\ state'[r] = state[r]
        /\ steps'[r] = steps[r]
        /\ owner'[r] = owner[r]
        /\ output'[r] = output[r] ]_storeVars

(* The store implements the contract its readers rely on. *)
Lifecycle == INSTANCE RunLifecycle
LifecycleSpec == Lifecycle!Spec
=============================================================================
