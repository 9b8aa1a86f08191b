------------------------------ MODULE RunQueue ------------------------------
(***************************************************************************)
(* The process that executes Runs: RunQueueRuntime (dispatcher, execution   *)
(* tasks, heartbeats, close), the OrchestrationRunHandler it calls, the     *)
(* DependencyExecutionEngine inside that handler, and the death and restart *)
(* of the process, over the rows of RunStore.                               *)
(*                                                                          *)
(* Grain.  The program is one asyncio loop and one SQLite connection.  A    *)
(* step is one store transaction together with the code that runs, without  *)
(* awaiting another transaction, until the next one: other tasks move only  *)
(* between such steps.  A task whose pc names a call is awaiting that call. *)
(*                                                                          *)
(* Cancellation.  task.cancel() is recorded in cancelled[t] and takes       *)
(* effect at the await: the call is rolled back (CancelHandler), or its     *)
(* commit was already on the connection's thread and stands (the call's own *)
(* action), and either way the task goes on as cancelled.                   *)
(***************************************************************************)
EXTENDS RunStore

CONSTANTS
  Tasks,             \* identities of execution tasks
  NoTask,            \* no entry in _active
  NoRun,             \* an idle task
  MaxConcurrentRuns, \* policy.max_concurrent_runs, the semaphore's size
  FaultKinds,        \* faults that may happen: see below
  MaxFaults,         \* bound: how many of them
  RestartAfterExpiry \* whether restarts wait for every lease to run out

ASSUME TaskAssumption ==
  /\ NoTask \notin Tasks
  /\ NoRun \notin RunIds
  /\ MaxConcurrentRuns \in 1..Cardinality(Tasks)
(* The validator refuses a plan with a cycle. *)
ASSUME AcyclicAssumption ==
  \A r \in RunIds : \A S \in (SUBSET Plan[r]) \ {{}} : \E n \in S : Deps[n] \intersect S = {}
ASSUME FaultAssumption ==
  /\ FaultKinds \subseteq {"crash", "close", "raise", "lapse", "claim_error"}
  /\ MaxFaults \in Nat
  /\ RestartAfterExpiry \in BOOLEAN

VARIABLES
  phase,       \* "down", "up" (started), "closing" (close() is running)
  worker,      \* _worker_id of the current runtime, NoWorker when down
  retired,     \* worker ids of earlier runtimes
  dispatcher,  \* what the dispatcher awaits, "dead" or "none"
  wake,        \* the _wake event
  waking,      \* Runs queued by a submission that has not called wake() yet
  permits,     \* the semaphore's counter
  active,      \* _active: Run -> task
  pc,          \* what each task awaits
  running,     \* the claim each task holds
  todo,        \* <<node, attempt>> pairs the task took from its snapshot
  cancelled,   \* task.cancel() was called and has not been delivered
  beating,     \* the task's heartbeat is alive
  faults       \* faults so far

runtimeVars == <<phase, worker, retired, dispatcher, wake, waking, permits, active>>
taskVars == <<pc, running, todo, cancelled, beating>>
queueVars == <<storeVars, runtimeVars, taskVars, faults>>

(* The calls of the handler, in the order of the code, and the three ways out *)
(* of _execute_claim: only the one for a cancelled task is shielded.          *)
HandlerPcs ==
  {"open", "load", "retry", "reload", "block", "start", "execute", "cancel_rest",
   "settle", "finish_failed", "finish_composing", "compose"}
AbandonPcs == {"abandon_cancelled", "abandon_failed", "abandon_returned"}
Pcs == {"idle"} \union HandlerPcs \union AbandonPcs

Init ==
  /\ StoreInit
  /\ phase = "down"
  /\ worker = NoWorker
  /\ retired = {}
  /\ dispatcher = "none"
  /\ wake = FALSE
  /\ waking = {}
  /\ permits = MaxConcurrentRuns
  /\ active = [r \in RunIds |-> NoTask]
  /\ pc = [t \in Tasks |-> "idle"]
  /\ running = [t \in Tasks |-> NoRun]
  /\ todo = [t \in Tasks |-> {}]
  /\ cancelled = [t \in Tasks |-> FALSE]
  /\ beating = [t \in Tasks |-> FALSE]
  /\ faults = 0

Ready == phase = "up" /\ dispatcher \notin {"dead", "none"}

Busy(t) == pc[t] # "idle"

Fault(kind) == kind \in FaultKinds /\ faults < MaxFaults /\ faults' = faults + 1

-----------------------------------------------------------------------------
(* Submission: plan, queue, then wake the dispatcher *)

Submit(r) ==
  /\ Ready
  /\ StartPlanning(r)
  /\ UNCHANGED <<runtimeVars, taskVars, faults>>

RejectPlan(r) ==
  /\ phase # "down"
  /\ FailPlanning(r)
  /\ UNCHANGED <<runtimeVars, taskVars, faults>>

AcceptPlan(r) ==
  /\ phase # "down"
  /\ state[r] = "planning"
  /\ MaterializeAndEnqueue(r)
  /\ waking' = waking \union {r}
  /\ UNCHANGED <<phase, worker, retired, dispatcher, wake, permits, active, taskVars, faults>>

(* wake(): an error to the submitter when the dispatcher is unavailable. *)
Wake(r) ==
  /\ r \in waking
  /\ waking' = waking \ {r}
  /\ wake' = (wake \/ Ready)
  /\ UNCHANGED <<storeVars, phase, worker, retired, dispatcher, permits, active, taskVars, faults>>

-----------------------------------------------------------------------------
(* The dispatcher *)

DispatcherWakes ==
  /\ dispatcher = "waiting"
  /\ wake
  /\ wake' = FALSE
  /\ dispatcher' = "acquiring"
  /\ UNCHANGED <<storeVars, phase, worker, retired, waking, permits, active, taskVars, faults>>

DispatcherAcquires ==
  /\ dispatcher = "acquiring"
  /\ permits > 0
  /\ permits' = permits - 1
  /\ dispatcher' = "claiming"
  /\ UNCHANGED <<storeVars, phase, worker, retired, wake, waking, active, taskVars, faults>>

DispatcherClaims(r, t) ==
  /\ dispatcher = "claiming"
  /\ pc[t] = "idle"
  /\ ClaimNext(r, worker)
  /\ active' = [active EXCEPT ![r] = t]
  /\ pc' = [pc EXCEPT ![t] = "open"]
  /\ running' = [running EXCEPT ![t] = r]
  /\ beating' = [beating EXCEPT ![t] = TRUE]
  /\ dispatcher' = "acquiring"
  /\ UNCHANGED <<phase, worker, retired, wake, waking, permits, todo, cancelled, faults>>

DispatcherFindsNothing ==
  /\ dispatcher = "claiming"
  /\ Queued = {}
  /\ permits' = permits + 1
  /\ dispatcher' = "waiting"
  /\ UNCHANGED <<storeVars, phase, worker, retired, wake, waking, active, taskVars, faults>>

(* Mutant: the permit is not given back. *)
DispatcherFailsWithPermit ==
  /\ dispatcher = "claiming"
  /\ Fault("claim_error")
  /\ dispatcher' = "dead"
  /\ UNCHANGED <<storeVars, phase, worker, retired, wake, waking, permits, active, taskVars>>

(* claim_next raises: the permit goes back and the dispatcher task ends. *)
DispatcherFails ==
  /\ dispatcher = "claiming"
  /\ Fault("claim_error")
  /\ permits' = permits + 1
  /\ dispatcher' = "dead"
  /\ UNCHANGED <<storeVars, phase, worker, retired, wake, waking, active, taskVars>>

-----------------------------------------------------------------------------
(* The handler and the engine *)

(* Mutant: a required step that was cancelled does not count. *)
RequiredFailureOnly(r) == \E n \in Plan[r] \intersect Required : Latest(r, n) = "failed"

(* What the engine computes from a snapshot: the latest attempt of each node. *)
RequiredFailure(r) == \E n \in Plan[r] \intersect Required : Latest(r, n) \in Unsuccessful

BlockedSteps(r) ==
  {n \in Plan[r] : /\ Latest(r, n) = "queued"
                   /\ \E d \in Deps[n] : Latest(r, d) \in Unsuccessful}

(* Mutant: dependencies are not looked at. *)
ReadyStepsAny(r) == {n \in Plan[r] : Latest(r, n) = "queued"}

ReadySteps(r) ==
  {n \in Plan[r] : /\ Latest(r, n) = "queued"
                   /\ \A d \in Deps[n] : Latest(r, d) = "completed"}

InState(r, s) == {n \in Plan[r] : Latest(r, n) = s}

(* Mutant: the first attempt of a node instead of its latest. *)
AttemptsFirst(r, nodes) == {<<n, 1>> : n \in nodes}

Attempts(r, nodes) == {<<n, Len(steps[r][n])>> : n \in nodes}

(* The task's call succeeded: it goes on to its next one, unless it was       *)
(* cancelled while the commit was under way.                                  *)
Goto(t, next, work) ==
  /\ pc' = [pc EXCEPT ![t] = IF cancelled[t] THEN "abandon_cancelled" ELSE next]
  /\ todo' = [todo EXCEPT ![t] = IF cancelled[t] THEN {} ELSE work]
  /\ cancelled' = [cancelled EXCEPT ![t] = FALSE]
  /\ UNCHANGED <<running, beating, runtimeVars, faults>>

(* The next of the loop's attempts, then the call that follows the loop. *)
GotoNext(t, item, same, after) ==
  LET rest == todo[t] \ {item} IN Goto(t, IF rest = {} THEN after ELSE same, rest)

(* OrchestrationRunHandler.execute loads before the engine does. *)
Open(t) ==
  /\ pc[t] = "open"
  /\ CanLoad(running[t], worker)
  /\ UNCHANGED storeVars
  /\ Goto(t, "load", {})

Load(t) ==
  LET r == running[t]
      interrupted == InState(r, "interrupted") IN
  /\ pc[t] = "load"
  /\ CanLoad(r, worker)
  /\ UNCHANGED storeVars
  /\ IF Plan[r] = {} THEN Goto(t, "finish_composing", {})
     ELSE IF interrupted = {} THEN Goto(t, "reload", {})
     ELSE Goto(t, "retry", Attempts(r, interrupted))

Retry(t) ==
  /\ pc[t] = "retry"
  /\ \E item \in todo[t] :
       /\ RetryInterruptedStep(running[t], worker, item[1], item[2])
       /\ GotoNext(t, item, "retry", "reload")

(* One turn of the engine's loop: what the fresh snapshot calls for. *)
Reload(t) ==
  LET r == running[t]
      queued == Attempts(r, InState(r, "queued")) IN
  /\ pc[t] = "reload"
  /\ CanLoad(r, worker)
  /\ UNCHANGED storeVars
  /\ IF RequiredFailure(r)
     THEN Goto(t, IF queued = {} THEN "settle" ELSE "cancel_rest", queued)
     ELSE IF BlockedSteps(r) # {}
     THEN Goto(t, "block", Attempts(r, BlockedSteps(r)))
     ELSE IF ReadySteps(r) # {}
     THEN \E n \in ReadySteps(r) : Goto(t, "start", Attempts(r, {n}))
     ELSE /\ \A n \in Plan[r] : Latest(r, n) \in Terminal
          /\ Goto(t, "finish_composing", {})

Block(t) ==
  /\ pc[t] = "block"
  /\ \E item \in todo[t] :
       /\ CancelStep(running[t], worker, item[1], item[2])
       /\ GotoNext(t, item, "block", "reload")

CancelRest(t) ==
  /\ pc[t] = "cancel_rest"
  /\ \E item \in todo[t] :
       /\ CancelStep(running[t], worker, item[1], item[2])
       /\ GotoNext(t, item, "cancel_rest", "settle")

Settle(t) ==
  /\ pc[t] = "settle"
  /\ CanLoad(running[t], worker)
  /\ UNCHANGED storeVars
  /\ Goto(t, "finish_failed", {})

Begin(t) ==
  /\ pc[t] = "start"
  /\ \E item \in todo[t] :
       /\ StartStep(running[t], worker, item[1], item[2])
       /\ Goto(t, "execute", {item})

(* The executor answered, failed or timed out, and the result is stored. *)
Execute(t) ==
  /\ pc[t] = "execute"
  /\ \E item \in todo[t], outcome \in {"completed", "failed"} :
       /\ FinishStep(running[t], worker, item[1], item[2], outcome)
       /\ Goto(t, "reload", {})

FinishFailed(t) ==
  /\ pc[t] = "finish_failed"
  /\ FinishRun(running[t], worker, "failed")
  /\ Goto(t, "abandon_returned", {})

FinishComposing(t) ==
  /\ pc[t] = "finish_composing"
  /\ FinishRun(running[t], worker, "composing")
  /\ Goto(t, "compose", {})

(* The composer returned a safe output, or refused. *)
Compose(t) ==
  /\ pc[t] = "compose"
  /\ \/ CompleteOutput(running[t], worker)
     \/ FailComposition(running[t], worker)
  /\ Goto(t, "abandon_returned", {})

(* The attempt is where the call expects it. *)
AttemptIn(r, item, expected) ==
  /\ item[2] \in 1..Len(steps[r][item[1]])
  /\ steps[r][item[1]][item[2]] = expected

Retriable(r, item) ==
  /\ AttemptIn(r, item, "interrupted")
  /\ item[2] = Len(steps[r][item[1]]) /\ item[1] \in Idempotent

Stuck(r) ==
  /\ ~RequiredFailure(r) /\ BlockedSteps(r) = {} /\ ReadySteps(r) = {}
  /\ \E n \in Plan[r] : Latest(r, n) \notin Terminal

OwnsRun(t) == Owns(running[t], worker, IF pc[t] = "compose" THEN "composing" ELSE "running")

(* The call that the task awaits raises: the claim is lost, there is no plan, *)
(* an attempt is not where the snapshot had it, there is an output already,   *)
(* or the engine does not know how to go on.                                  *)
Refused(t) ==
  LET r == running[t] IN
  /\ pc[t] \in HandlerPcs
  /\ \/ ~OwnsRun(t)
     \/ pc[t] \in {"open", "load", "reload", "settle"} /\ r \notin planned
     \/ pc[t] = "reload" /\ Stuck(r)
     \/ pc[t] = "retry" /\ \E item \in todo[t] : ~Retriable(r, item)
     \/ /\ pc[t] \in {"block", "start", "cancel_rest"}
        /\ \E item \in todo[t] : ~AttemptIn(r, item, "queued")
     \/ pc[t] = "execute" /\ \E item \in todo[t] : ~AttemptIn(r, item, "running")
     \/ pc[t] = "compose" /\ output[r]

(* The handler raises. *)
CallRefused(t) ==
  /\ Refused(t)
  /\ ~cancelled[t]
  /\ UNCHANGED storeVars
  /\ Goto(t, "abandon_failed", {})

(* The store failed, or another part of the handler. *)
HandlerRaises(t) ==
  /\ pc[t] \in HandlerPcs
  /\ ~cancelled[t]
  /\ Fault("raise")
  /\ pc' = [pc EXCEPT ![t] = "abandon_failed"]
  /\ todo' = [todo EXCEPT ![t] = {}]
  /\ UNCHANGED <<storeVars, runtimeVars, running, cancelled, beating>>

CancelHandler(t) ==
  /\ pc[t] \in HandlerPcs
  /\ cancelled[t]
  /\ UNCHANGED storeVars
  /\ Goto(t, "abandon_cancelled", {})

-----------------------------------------------------------------------------
(* The end of a task: abandon_claim, then registry, permit and wake-up. *)

(* Mutants: the dispatcher is not woken; the registry keeps its entry. *)
EndTaskQuietly(t) ==
  /\ active' = [active EXCEPT ![running[t]] = NoTask]
  /\ permits' = permits + 1
  /\ pc' = [pc EXCEPT ![t] = "idle"]
  /\ running' = [running EXCEPT ![t] = NoRun]
  /\ todo' = [todo EXCEPT ![t] = {}]
  /\ cancelled' = [cancelled EXCEPT ![t] = FALSE]
  /\ beating' = [beating EXCEPT ![t] = FALSE]
  /\ UNCHANGED <<phase, worker, retired, dispatcher, wake, waking, faults>>

EndTaskKeepsEntry(t) ==
  /\ permits' = permits + 1
  /\ wake' = (wake \/ phase = "up")
  /\ pc' = [pc EXCEPT ![t] = "idle"]
  /\ running' = [running EXCEPT ![t] = NoRun]
  /\ todo' = [todo EXCEPT ![t] = {}]
  /\ cancelled' = [cancelled EXCEPT ![t] = FALSE]
  /\ beating' = [beating EXCEPT ![t] = FALSE]
  /\ UNCHANGED <<phase, worker, retired, dispatcher, waking, active, faults>>

EndTask(t) ==
  /\ active' = [active EXCEPT ![running[t]] = NoTask]
  /\ permits' = permits + 1
  /\ wake' = (wake \/ phase = "up")
  /\ pc' = [pc EXCEPT ![t] = "idle"]
  /\ running' = [running EXCEPT ![t] = NoRun]
  /\ todo' = [todo EXCEPT ![t] = {}]
  /\ cancelled' = [cancelled EXCEPT ![t] = FALSE]
  /\ beating' = [beating EXCEPT ![t] = FALSE]
  /\ UNCHANGED <<phase, worker, retired, dispatcher, waking, faults>>

(* Mutant: only a cancelled task gives its claim up. *)
AbandonWhenCancelled(t) ==
  /\ pc[t] \in AbandonPcs
  /\ IF pc[t] = "abandon_cancelled" THEN AbandonClaim(running[t], worker) ELSE UNCHANGED storeVars
  /\ EndTask(t)

(* Mutant: a claim that is gone is asked for again. *)
AbandonRepeated(t) ==
  /\ pc[t] \in AbandonPcs
  /\ IF state[running[t]] \in Leased /\ owner[running[t]] = worker
     THEN AbandonClaim(running[t], worker) /\ EndTask(t)
     ELSE UNCHANGED queueVars

Abandon(t) ==
  /\ pc[t] \in AbandonPcs
  /\ AbandonClaim(running[t], worker)
  /\ EndTask(t)

(* A cancellation during abandon_claim: the call is rolled back, or, when it  *)
(* is the shielded one, left to a task that nobody awaits any more.           *)
AbandonCancelled(t) ==
  /\ pc[t] \in AbandonPcs
  /\ cancelled[t]
  /\ UNCHANGED storeVars
  /\ EndTask(t)

-----------------------------------------------------------------------------
(* Heartbeats and cancellation *)

HeartbeatRenews(t) ==
  /\ beating[t]
  /\ Heartbeat(running[t], worker)
  /\ UNCHANGED <<runtimeVars, taskVars, faults>>

HeartbeatRefused(t) ==
  /\ beating[t]
  /\ ~CanRenew(running[t], worker)
  /\ beating' = [beating EXCEPT ![t] = FALSE]
  /\ cancelled' = [cancelled EXCEPT ![t] = TRUE]
  /\ UNCHANGED <<storeVars, runtimeVars, pc, running, todo, faults>>

(* Mutant: the store is told, the task is not. *)
CancelRunQuietly(r) ==
  /\ phase # "down"
  /\ Cancel(r)
  /\ UNCHANGED <<runtimeVars, taskVars, faults>>

(* RunCancellationService.cancel_run: commit, then cancel_active. *)
CancelRun(r) ==
  /\ phase # "down"
  /\ Cancel(r)
  /\ cancelled' = [t \in Tasks |-> cancelled[t] \/ active[r] = t]
  /\ UNCHANGED <<runtimeVars, pc, running, todo, beating, faults>>

-----------------------------------------------------------------------------
(* close(), the death of the process, and start() *)

(* The dispatcher is cancelled and awaited.  If it was claiming, the claim is *)
(* rolled back, or its commit stands and no task will execute the Run.        *)
CloseBegins ==
  /\ phase = "up"
  /\ Fault("close")
  /\ phase' = "closing"
  /\ dispatcher' = "none"
  /\ permits' = permits + (IF dispatcher = "claiming" THEN 1 ELSE 0)
  /\ \/ UNCHANGED storeVars
     \/ dispatcher = "claiming" /\ \E r \in RunIds : ClaimNext(r, worker)
  /\ UNCHANGED <<worker, retired, wake, waking, active, taskVars>>

CloseCancelsTasks ==
  /\ phase = "closing"
  /\ phase' = "draining"
  /\ cancelled' = [t \in Tasks |-> cancelled[t] \/ \E r \in RunIds : active[r] = t]
  /\ UNCHANGED <<storeVars, worker, retired, dispatcher, wake, waking, permits, active,
                 pc, running, todo, beating, faults>>

(* The process is gone, and with it all that is not in the database. *)
Gone ==
  /\ phase' = "down"
  /\ worker' = NoWorker
  /\ retired' = retired \union {worker}
  /\ dispatcher' = "none"
  /\ wake' = FALSE
  /\ waking' = {}
  /\ permits' = MaxConcurrentRuns
  /\ active' = [r \in RunIds |-> NoTask]
  /\ pc' = [t \in Tasks |-> "idle"]
  /\ running' = [t \in Tasks |-> NoRun]
  /\ todo' = [t \in Tasks |-> {}]
  /\ cancelled' = [t \in Tasks |-> FALSE]
  /\ beating' = [t \in Tasks |-> FALSE]
  /\ UNCHANGED storeVars

(* Every task that close() gathered has ended, and the process exits.  No     *)
(* task was started since: the dispatcher is gone.                            *)
CloseEnds ==
  /\ phase = "draining"
  /\ \A t \in Tasks : ~Busy(t)
  /\ Gone
  /\ UNCHANGED faults

Crash ==
  /\ phase # "down"
  /\ Fault("crash")
  /\ Gone

(* Mutant: a start without recovery. *)
StartOnly ==
  /\ phase = "down"
  /\ UNCHANGED storeVars
  /\ \E w \in Workers \ retired : worker' = w
  /\ phase' = "up"
  /\ dispatcher' = "waiting"
  /\ wake' = TRUE
  /\ UNCHANGED <<retired, waking, permits, active, taskVars, faults>>

(* A new process: a new worker id, recovery of what has expired by now, once, *)
(* and a dispatcher that starts awake.                                        *)
Start ==
  /\ phase = "down"
  /\ RestartAfterExpiry => \A r \in RunIds : lease[r] = 0
  /\ RecoverExpired
  /\ \E w \in Workers \ retired : worker' = w
  /\ phase' = "up"
  /\ dispatcher' = "waiting"
  /\ wake' = TRUE
  /\ UNCHANGED <<retired, waking, permits, active, taskVars, faults>>

(* Time passes.  Heartbeats keep the leases of a live process: that one runs  *)
(* out all the same (a stalled loop, a suspended machine) is a fault.         *)
TimePasses ==
  /\ Tick
  /\ IF \E r \in RunIds : lease[r] = 1 /\ owner[r] = worker
     THEN Fault("lapse") ELSE UNCHANGED faults
  /\ UNCHANGED <<runtimeVars, taskVars>>

-----------------------------------------------------------------------------
Submission(r) == Submit(r) \/ RejectPlan(r) \/ AcceptPlan(r) \/ Wake(r) \/ CancelRun(r)

DispatcherStep ==
  \/ DispatcherWakes
  \/ DispatcherAcquires
  \/ \E r \in RunIds, t \in Tasks : DispatcherClaims(r, t)
  \/ DispatcherFindsNothing

HandlerStep(t) ==
  \/ Open(t) \/ Load(t) \/ Retry(t) \/ Reload(t) \/ Block(t) \/ CancelRest(t)
  \/ Settle(t) \/ Begin(t) \/ Execute(t) \/ FinishFailed(t) \/ FinishComposing(t)
  \/ Compose(t) \/ CallRefused(t) \/ CancelHandler(t)

TaskStep(t) == HandlerStep(t) \/ Abandon(t) \/ AbandonCancelled(t)

Next ==
  \/ \E r \in RunIds : Submission(r)
  \/ DispatcherStep
  \/ DispatcherFails
  \/ \E t \in Tasks : \/ TaskStep(t)
                      \/ HandlerRaises(t)
                      \/ HeartbeatRenews(t)
                      \/ HeartbeatRefused(t)
  \/ CloseBegins \/ CloseCancelsTasks \/ CloseEnds
  \/ Crash
  \/ Start
  \/ TimePasses

Spec == Init /\ [][Next]_queueVars

(* asyncio runs every ready task, SQLite answers every call, time passes and  *)
(* somebody restarts the process.  Users and planners owe nothing.            *)
Fairness ==
  /\ WF_queueVars(DispatcherStep)
  /\ \A t \in Tasks : WF_queueVars(TaskStep(t))
  /\ \A r \in RunIds : WF_queueVars(Wake(r))
  /\ WF_queueVars(CloseCancelsTasks) /\ WF_queueVars(CloseEnds)
  /\ WF_queueVars(Start)
  /\ WF_queueVars(phase = "down" /\ TimePasses)

FairSpec == Spec /\ Fairness

-----------------------------------------------------------------------------
(* Properties *)

TypeOK ==
  /\ StoreTypeOK
  /\ phase \in {"down", "up", "closing", "draining"}
  /\ worker \in Workers \union {NoWorker}
  /\ retired \subseteq Workers
  /\ dispatcher \in {"none", "waiting", "acquiring", "claiming", "dead"}
  /\ wake \in BOOLEAN
  /\ waking \subseteq RunIds
  /\ permits \in 0..MaxConcurrentRuns
  /\ active \in [RunIds -> Tasks \union {NoTask}]
  /\ pc \in [Tasks -> Pcs]
  /\ running \in [Tasks -> RunIds \union {NoRun}]
  /\ todo \in [Tasks -> SUBSET (Nodes \X Nat)]
  /\ cancelled \in [Tasks -> BOOLEAN]
  /\ beating \in [Tasks -> BOOLEAN]
  /\ faults \in 0..MaxFaults

(* _active names, for every executing task, exactly the Run it executes: no   *)
(* Run is executed by two tasks, and cancel and close reach every task.       *)
TasksRegistered ==
  \A t \in Tasks, r \in RunIds : active[r] = t <=> (Busy(t) /\ running[t] = r)

(* The semaphore's permits are all accounted for, through errors, cancelled   *)
(* claims and cancelled tasks: no leak that stops the queue for good, and no  *)
(* double release that lets more than MaxConcurrentRuns execute.              *)
PermitsConserved ==
  permits + Cardinality({t \in Tasks : Busy(t)})
          + (IF dispatcher = "claiming" THEN 1 ELSE 0) = MaxConcurrentRuns

(* While the dispatcher sleeps, a queued Run means that the event is set or   *)
(* that the submission that queued it is about to set it.                     *)
NoLostWakeup ==
  (phase = "up" /\ dispatcher = "waiting" /\ Queued # {}) => (wake \/ Queued \intersect waking # {})

(* A cancelled Run is not executed on: the task that still works on it has    *)
(* been told to stop.                                                         *)
CancelReachesTask ==
  \A t \in Tasks : (pc[t] \in HandlerPcs /\ state[running[t]] = "cancelled") => cancelled[t]

(* A step runs, and is completed, only after the latest attempts of all it    *)
(* depends on completed, whatever was interrupted, retried or requeued.       *)
DependencyOrder ==
  \A r \in RunIds, n \in Nodes : \A k \in 1..Len(steps[r][n]) :
    steps[r][n][k] \in {"running", "completed"} =>
      \A d \in Deps[n] : Latest(r, d) = "completed"

(* An answer is composed only when every node came to an end and every        *)
(* required one completed.                                                    *)
ComposedMeansDone ==
  \A r \in RunIds : state[r] \in {"composing", "completed"} =>
    \A n \in Plan[r] :
      /\ Latest(r, n) \in Terminal
      /\ n \in Required => Latest(r, n) = "completed"

(* Recovery never hands the engine an interrupted step that may not be        *)
(* repeated, which the engine would answer by raising for ever.               *)
RetriesRepeatable ==
  \A t \in Tasks : pc[t] = "retry" => \A item \in todo[t] : item[1] \in Idempotent

(* A handler that still owns its Run is never refused: what it took from an    *)
(* older snapshot of the steps still holds at each call it makes of it, over   *)
(* retries, cancellations and recoveries, and its loop is never stuck         *)
(* (execution_engine.py:81 execute, orchestration_execution.py:213).          *)
OwnerNeverRefused == \A t \in Tasks : Refused(t) => ~OwnsRun(t)

(* In a process that is up, every Run its worker owns has its task.           *)
OwnedRunHasTask ==
  phase = "up" =>
    \A r \in RunIds : (state[r] \in Leased /\ owner[r] = worker) => active[r] # NoTask

(* A queued Run is executed to an end, across crashes, errors and restarts.   *)
EveryRunFinishes ==
  \A r \in RunIds : state[r] = "queued" ~> state[r] \in Terminal

(* close() returns: it does not wait for a task that waits for it.            *)
CloseReturns == phase = "closing" ~> phase = "down"

(* A Run that a dead process left claimed is recovered after the restart.     *)
InterruptedRunsRecover ==
  \A r \in RunIds :
    (state[r] \in Leased /\ owner[r] # worker) ~> ~(state[r] \in Leased /\ owner[r] # worker)
=============================================================================
