--------------------------- MODULE RunQueueProofs ---------------------------
(***************************************************************************)
(* Proofs about RunQueue, for every set of Runs, workers, nodes and tasks   *)
(* and every combination of faults: no Run is executed by two tasks, no     *)
(* permit and no wake-up is lost, a cancellation reaches its task, what the *)
(* engine read in a snapshot still holds when it acts on it, and a handler  *)
(* that owns its Run is never refused by the store.                         *)
(***************************************************************************)
EXTENDS RunQueue, RunStoreProofs, FiniteSetTheorems

QueueType ==
  /\ phase \in {"down", "up", "closing", "draining"}
  /\ worker \in Workers \union {NoWorker}
  /\ active \in [RunIds -> Tasks \union {NoTask}]
  /\ pc \in [Tasks -> Pcs]
  /\ running \in [Tasks -> RunIds \union {NoRun}]
  /\ todo \in [Tasks -> SUBSET (Nodes \X Nat)]
  /\ cancelled \in [Tasks -> BOOLEAN]
  /\ beating \in [Tasks -> BOOLEAN]

(* A Run that a task holds was claimed and has not been given back. *)
Held(r) == state[r] \in Leased \union Terminal

(* The dispatcher is in its loop. *)
Looping == {"waiting", "acquiring", "claiming"}

(* What keeps a second task away from a Run: only queued Runs are claimed,    *)
(* and a Run in the hands of a task is not queued until that task ends.       *)
QInv ==
  /\ QueueType
  /\ phase # "down" => worker \in Workers
  /\ dispatcher \in Looping => phase = "up"
  /\ \A t \in Tasks : Busy(t) => phase # "down" /\ running[t] \in RunIds /\ Held(running[t])
  /\ \A t \in Tasks : beating[t] => Busy(t)
  /\ TasksRegistered

-----------------------------------------------------------------------------
(* Every step of the process is a store transaction or leaves the store alone. *)

(* A task that is not idle works for the live worker on a Run. *)
LEMMA HandlerWorker ==
  ASSUME QInv, NEW t \in Tasks, pc[t] # "idle"
  PROVE  worker \in Workers /\ running[t] \in RunIds
BY DEF QInv, Busy

(* The entries of a work list name a node and an attempt. *)
LEMMA TodoItem ==
  ASSUME QInv, NEW t \in Tasks, NEW item \in todo[t]
  PROVE  item[1] \in Nodes /\ item[2] \in Nat
BY DEF QInv, QueueType

(* Every step of a handler is a legal call of its worker. *)
LEMMA HandlerStoreStep ==
  ASSUME QInv, NEW t \in Tasks, HandlerStep(t)
  PROVE  [StoreNext]_storeVars
<1>1. CASE \/ Open(t) \/ Load(t) \/ Reload(t) \/ Settle(t) \/ CallRefused(t) \/ CancelHandler(t)
  BY <1>1 DEF Open, Load, Reload, Settle, CallRefused, CancelHandler
<1>2. CASE Retry(t)
  <2>1. PICK item \in todo[t] : RetryInterruptedStep(running[t], worker, item[1], item[2])
    BY <1>2 DEF Retry
  <2>2. worker \in Workers /\ running[t] \in RunIds
    BY <1>2, HandlerWorker DEF Retry
  <2>3. item[1] \in Nodes /\ item[2] \in 1..Len(steps[running[t]][item[1]])
    BY <2>1, TodoItem DEF RetryInterruptedStep
  <2>4. QED
    BY <2>1, <2>2, <2>3 DEF StoreNext
<1>3. CASE Block(t) \/ CancelRest(t)
  <2>1. PICK item \in todo[t] : CancelStep(running[t], worker, item[1], item[2])
    BY <1>3 DEF Block, CancelRest
  <2>2. worker \in Workers /\ running[t] \in RunIds
    BY <1>3, HandlerWorker DEF Block, CancelRest
  <2>3. item[1] \in Nodes /\ item[2] \in 1..Len(steps[running[t]][item[1]])
    BY <2>1, TodoItem DEF CancelStep
  <2>4. QED
    BY <2>1, <2>2, <2>3 DEF StoreNext
<1>4. CASE Begin(t)
  <2>1. PICK item \in todo[t] : StartStep(running[t], worker, item[1], item[2])
    BY <1>4 DEF Begin
  <2>2. worker \in Workers /\ running[t] \in RunIds
    BY <1>4, HandlerWorker DEF Begin
  <2>3. item[1] \in Nodes /\ item[2] \in 1..Len(steps[running[t]][item[1]])
    BY <2>1, TodoItem DEF StartStep
  <2>4. QED
    BY <2>1, <2>2, <2>3 DEF StoreNext
<1>5. CASE Execute(t)
  <2>1. PICK item \in todo[t], outcome \in {"completed", "failed"} :
          FinishStep(running[t], worker, item[1], item[2], outcome)
    BY <1>5 DEF Execute
  <2>2. worker \in Workers /\ running[t] \in RunIds
    BY <1>5, HandlerWorker DEF Execute
  <2>3. item[1] \in Nodes /\ item[2] \in 1..Len(steps[running[t]][item[1]])
    BY <2>1, TodoItem DEF FinishStep
  <2>4. QED
    BY <2>1, <2>2, <2>3 DEF StoreNext
<1>6. CASE FinishFailed(t) \/ FinishComposing(t)
  <2>1. worker \in Workers /\ running[t] \in RunIds
    BY <1>6, HandlerWorker DEF FinishFailed, FinishComposing
  <2>2. \E target \in {"composing", "failed"} : FinishRun(running[t], worker, target)
    BY <1>6 DEF FinishFailed, FinishComposing
  <2>3. QED
    BY <2>1, <2>2 DEF StoreNext
<1>7. CASE Compose(t)
  <2>1. worker \in Workers /\ running[t] \in RunIds
    BY <1>7, HandlerWorker DEF Compose
  <2>2. CompleteOutput(running[t], worker) \/ FailComposition(running[t], worker)
    BY <1>7 DEF Compose
  <2>3. QED
    BY <2>1, <2>2 DEF StoreNext
<1>8. QED
  BY <1>1, <1>2, <1>3, <1>4, <1>5, <1>6, <1>7 DEF HandlerStep

(* So is every step of the process, or it leaves the store alone. *)
LEMMA QueueStoreStep ==
  ASSUME QInv, [Next]_queueVars
  PROVE  [StoreNext]_storeVars
<1>1. ASSUME NEW r \in RunIds, Submission(r)
      PROVE  [StoreNext]_storeVars
  BY <1>1 DEF Submission, Submit, RejectPlan, AcceptPlan, Wake, CancelRun, StoreNext
<1>2. CASE DispatcherStep
  <2>1. ASSUME NEW r \in RunIds, NEW t \in Tasks, DispatcherClaims(r, t)
        PROVE  StoreNext
    <3>1. ClaimNext(r, worker) /\ worker \in Workers
      BY <2>1 DEF DispatcherClaims, QInv, Looping
    <3>2. QED
      BY <3>1 DEF StoreNext
  <2>2. QED
    BY <1>2, <2>1 DEF DispatcherStep, DispatcherWakes, DispatcherAcquires, DispatcherFindsNothing
<1>3. CASE DispatcherFails
  BY <1>3 DEF DispatcherFails
<1>4. ASSUME NEW t \in Tasks, TaskStep(t)
      PROVE  [StoreNext]_storeVars
  <2>1. CASE HandlerStep(t)
    BY <2>1, HandlerStoreStep
  <2>2. CASE Abandon(t)
    <3>1. AbandonClaim(running[t], worker) /\ pc[t] # "idle"
      BY <2>2 DEF Abandon, AbandonPcs
    <3>2. worker \in Workers /\ running[t] \in RunIds
      BY <3>1, HandlerWorker
    <3>3. QED
      BY <3>1, <3>2 DEF StoreNext
  <2>3. CASE AbandonCancelled(t)
    BY <2>3 DEF AbandonCancelled
  <2>4. QED
    BY <1>4, <2>1, <2>2, <2>3 DEF TaskStep
<1>5. ASSUME NEW t \in Tasks, HandlerRaises(t) \/ HeartbeatRefused(t)
      PROVE  [StoreNext]_storeVars
  BY <1>5 DEF HandlerRaises, HeartbeatRefused
<1>6. ASSUME NEW t \in Tasks, HeartbeatRenews(t)
      PROVE  [StoreNext]_storeVars
  <2>1. Heartbeat(running[t], worker) /\ pc[t] # "idle"
    BY <1>6 DEF HeartbeatRenews, QInv, Busy
  <2>2. worker \in Workers /\ running[t] \in RunIds
    BY <2>1, HandlerWorker
  <2>3. QED
    BY <2>1, <2>2 DEF StoreNext
<1>7. CASE CloseBegins
  <2>1. UNCHANGED storeVars \/ \E r \in RunIds : ClaimNext(r, worker)
    BY <1>7 DEF CloseBegins
  <2>2. worker \in Workers
    BY <1>7 DEF CloseBegins, QInv
  <2>3. QED
    BY <2>1, <2>2 DEF StoreNext
<1>8. CASE CloseCancelsTasks \/ CloseEnds \/ Crash
  BY <1>8 DEF CloseCancelsTasks, CloseEnds, Crash, Gone
<1>9. CASE Start
  BY <1>9 DEF Start, StoreNext
<1>10. CASE TimePasses
  BY <1>10 DEF TimePasses, StoreNext
<1>11. CASE UNCHANGED queueVars
  BY <1>11 DEF queueVars, storeVars
<1>12. QED
  BY <1>1, <1>2, <1>3, <1>4, <1>5, <1>6, <1>7, <1>8, <1>9, <1>10, <1>11 DEF Next

-----------------------------------------------------------------------------
(* The invariant, action by action *)

(* Only the end of a claim requeues, and only queued Runs leave the queue. *)
StillHeld == \A r \in RunIds : Held(r) => Held(r)'

(* A step that leaves the store alone takes no Run from a task. *)
LEMMA HeldWhenUntouched == UNCHANGED storeVars => StillHeld
BY DEF storeVars, StillHeld, Held

(* A task that goes on to its next call keeps its Run and its registration. *)
LEMMA GotoPreserves ==
  ASSUME QInv, NEW t \in Tasks, pc[t] \in HandlerPcs, StillHeld,
         NEW next \in Pcs \ {"idle"}, NEW work \in SUBSET (Nodes \X Nat), Goto(t, next, work)
  PROVE  QInv'
<1>1. /\ pc' = [pc EXCEPT ![t] = IF cancelled[t] THEN "abandon_cancelled" ELSE next]
      /\ todo' = [todo EXCEPT ![t] = IF cancelled[t] THEN {} ELSE work]
      /\ cancelled' = [cancelled EXCEPT ![t] = FALSE]
      /\ UNCHANGED <<running, beating, phase, worker, dispatcher, active>>
  BY DEF Goto, runtimeVars
<1>2. pc[t] # "idle" /\ pc'[t] # "idle"
  BY <1>1 DEF QInv, QueueType, HandlerPcs
<1>3. \A u \in Tasks : Busy(u) <=> Busy(u)'
  BY <1>1, <1>2 DEF QInv, QueueType, Busy
<1>4. QueueType'
  BY <1>1 DEF QInv, QueueType, Pcs, AbandonPcs
<1>5. TasksRegistered'
  BY <1>1, <1>3 DEF QInv, TasksRegistered
<1>6. QED
  BY <1>1, <1>3, <1>4, <1>5 DEF QInv, StillHeld

(* The work list that a task takes from a snapshot is well typed. *)
LEMMA AttemptsType ==
  ASSUME StepsType, NEW r \in RunIds, NEW nodes \in SUBSET Nodes
  PROVE  Attempts(r, nodes) \in SUBSET (Nodes \X Nat)
<1>1. \A n \in nodes : Len(steps[r][n]) \in Nat
  BY LenProperties DEF StepsType, Attempt
<1>2. QED
  BY <1>1 DEF Attempts

(* The steps of a handler keep the invariant. *)
LEMMA HandlerPreserves ==
  ASSUME QInv, IInv, NEW t \in Tasks, HandlerStep(t)
  PROVE  QInv'
<1> DEFINE r == running[t]
<1>1. pc[t] \in HandlerPcs
  BY DEF HandlerStep, Open, Load, Retry, Reload, Block, CancelRest, Settle, Begin, Execute,
         FinishFailed, FinishComposing, Compose, CallRefused, Refused, CancelHandler, HandlerPcs
<1>2. r \in RunIds /\ worker \in Workers
  BY <1>1, HandlerWorker DEF HandlerPcs
<1>3. StepsType /\ todo \in [Tasks -> SUBSET (Nodes \X Nat)] /\ RunType
  BY DEF IInv, RunRows, QInv, QueueType
<1>4. Plan[r] \subseteq Nodes
  BY <1>2, PlanAssumption
<1>5. StillHeld
  BY <1>2, <1>3
     DEF HandlerStep, Open, Load, Retry, Reload, Block, CancelRest, Settle, Begin, Execute,
         FinishFailed, FinishComposing, Compose, CallRefused, CancelHandler, StillHeld, Held,
         storeVars, RetryInterruptedStep, CancelStep, StartStep, FinishStep, FinishRun,
         CompleteOutput, FailComposition, Owns, Transition, RunType, Leased, Terminal
<1>6. \E next \in Pcs \ {"idle"}, work \in SUBSET (Nodes \X Nat) : Goto(t, next, work)
  <2> USE DEF Pcs, HandlerPcs, AbandonPcs
  <2>1. CASE Open(t) \/ Settle(t) \/ FinishFailed(t) \/ FinishComposing(t) \/ Compose(t)
             \/ CallRefused(t) \/ CancelHandler(t) \/ Execute(t)
    BY <2>1 DEF Open, Settle, FinishFailed, FinishComposing, Compose, CallRefused,
                CancelHandler, Execute
  <2>2. CASE Load(t)
    <3>1. Attempts(r, InState(r, "interrupted")) \in SUBSET (Nodes \X Nat)
      BY <1>2, <1>3, <1>4, AttemptsType DEF InState
    <3>2. QED
      BY <2>2, <3>1 DEF Load
  <2>3. CASE Retry(t) \/ Block(t) \/ CancelRest(t)
    BY <1>3, <2>3 DEF Retry, Block, CancelRest, GotoNext
  <2>4. CASE Reload(t)
    <3>1. /\ Attempts(r, InState(r, "queued")) \in SUBSET (Nodes \X Nat)
          /\ Attempts(r, BlockedSteps(r)) \in SUBSET (Nodes \X Nat)
          /\ \A n \in ReadySteps(r) : Attempts(r, {n}) \in SUBSET (Nodes \X Nat)
      BY <1>2, <1>3, <1>4, AttemptsType DEF InState, BlockedSteps, ReadySteps
    <3>2. QED
      BY <2>4, <3>1 DEF Reload
  <2>5. CASE Begin(t)
    BY <1>3, <2>5 DEF Begin
  <2>6. QED
    BY <2>1, <2>2, <2>3, <2>4, <2>5 DEF HandlerStep
<1>7. QED
  BY <1>1, <1>5, <1>6, GotoPreserves

(* The end of a task frees its own Run and no other. *)
LEMMA EndTaskPreserves ==
  ASSUME QInv, NEW t \in Tasks, Busy(t), EndTask(t),
         \A r \in RunIds : r # running[t] /\ Held(r) => Held(r)'
  PROVE  QInv'
<1>1. /\ active' = [active EXCEPT ![running[t]] = NoTask]
      /\ pc' = [pc EXCEPT ![t] = "idle"]
      /\ running' = [running EXCEPT ![t] = NoRun]
      /\ todo' = [todo EXCEPT ![t] = {}]
      /\ cancelled' = [cancelled EXCEPT ![t] = FALSE]
      /\ beating' = [beating EXCEPT ![t] = FALSE]
      /\ UNCHANGED <<phase, worker, dispatcher>>
  BY DEF EndTask
<1>2. QueueType'
  BY <1>1 DEF QInv, QueueType, Pcs
<1>3. running[t] \in RunIds /\ active[running[t]] = t
  BY DEF QInv, TasksRegistered
<1>4. \A u \in Tasks : Busy(u)' <=> (u # t /\ Busy(u))
  BY <1>1 DEF QInv, QueueType, Busy
<1>5. \A u \in Tasks : u # t /\ Busy(u) => running[u] # running[t]
  BY <1>3 DEF QInv, TasksRegistered
<1>6. TasksRegistered'
  BY <1>1, <1>3, <1>4, <1>5, TaskAssumption DEF QInv, QueueType, TasksRegistered
<1>7. \A u \in Tasks : Busy(u)' => phase' # "down" /\ running'[u] \in RunIds /\ Held(running[u])'
  BY <1>1, <1>4, <1>5 DEF QInv, QueueType
<1>8. \A u \in Tasks : running'[u] = running[u] \/ u = t
  BY <1>1 DEF QInv, QueueType
<1>9. \A u \in Tasks : Busy(u)' => Held(running[u])' /\ running'[u] = running[u]
  BY <1>4, <1>7, <1>8
<1>10. QED
  BY <1>1, <1>2, <1>4, <1>6, <1>7, <1>9 DEF QInv, QueueType, Held

(* A step that leaves the tasks as they are. *)
LEMMA TasksKeptPreserves ==
  ASSUME QInv, UNCHANGED <<pc, running, todo, active, worker>>, StillHeld,
         phase' = phase \/ (phase # "down" /\ phase' \in {"closing", "draining"}),
         dispatcher' \in Looping => phase' = "up",
         cancelled' \in [Tasks -> BOOLEAN],
         beating' \in [Tasks -> BOOLEAN], \A t \in Tasks : beating'[t] => beating[t]
  PROVE  QInv'
<1>1. QueueType'
  BY DEF QInv, QueueType
<1>2. TasksRegistered' /\ \A t \in Tasks : Busy(t)' <=> Busy(t)
  BY DEF QInv, TasksRegistered, Busy
<1>3. QED
  BY <1>1, <1>2 DEF QInv, StillHeld

(* A claim takes a Run that no task held and leaves the held ones alone. *)
LEMMA ClaimHolds ==
  ASSUME IInv, NEW r \in RunIds, NEW w, ClaimNext(r, w)
  PROVE  StillHeld /\ Held(r)' /\ ~Held(r)
BY DEF IInv, RunRows, RunType, ClaimNext, Transition, StillHeld, Held, Leased, Terminal

(* The death of the process empties the registry together with the tasks. *)
LEMMA GonePreserves ==
  ASSUME QInv, Gone
  PROVE  QInv'
BY TaskAssumption
   DEF Gone, QInv, QueueType, Pcs, TasksRegistered, Busy, Looping

(* Every step of the process keeps the invariant. *)
LEMMA QueueInvariantPreserved ==
  ASSUME QInv, IInv, [Next]_queueVars
  PROVE  QInv'
<1> USE DEF runtimeVars, taskVars
<1>1. ASSUME NEW r \in RunIds, Submission(r)
      PROVE  QInv'
  <2>1. StillHeld
    BY <1>1 DEF Submission, Submit, RejectPlan, AcceptPlan, Wake, CancelRun, StartPlanning,
                FailPlanning, MaterializeAndEnqueue, Cancel, Transition, storeVars, StillHeld,
                Held, IInv, RunRows, RunType, Leased, Terminal
  <2>2. /\ UNCHANGED <<pc, running, todo, active, worker, phase, dispatcher, beating>>
        /\ cancelled' \in [Tasks -> BOOLEAN]
    BY <1>1 DEF Submission, Submit, RejectPlan, AcceptPlan, Wake, CancelRun, QInv, QueueType
  <2>3. QED
    BY <2>1, <2>2, TasksKeptPreserves DEF QInv, QueueType
<1>2. CASE DispatcherWakes \/ DispatcherFindsNothing \/ DispatcherFails
  <2>1. /\ StillHeld
        /\ UNCHANGED <<pc, running, todo, active, worker, phase, cancelled, beating>>
        /\ dispatcher \in Looping
    BY <1>2, HeldWhenUntouched
       DEF DispatcherWakes, DispatcherFindsNothing, DispatcherFails, Looping
  <2>2. QED
    BY <2>1, TasksKeptPreserves DEF QInv, QueueType
<1>3. CASE DispatcherAcquires
  <2>1. /\ StillHeld
        /\ UNCHANGED <<pc, running, todo, active, worker, phase, cancelled, beating>>
        /\ dispatcher \in Looping
    BY <1>3, HeldWhenUntouched DEF DispatcherAcquires, Looping
  <2>2. phase = "up"
    BY <2>1 DEF QInv
  <2>3. QED
    BY <2>1, <2>2, TasksKeptPreserves DEF QInv, QueueType
<1>4. ASSUME NEW r \in RunIds, NEW t \in Tasks, DispatcherClaims(r, t)
      PROVE  QInv'
  <2>1. /\ active' = [active EXCEPT ![r] = t]
        /\ pc' = [pc EXCEPT ![t] = "open"]
        /\ running' = [running EXCEPT ![t] = r]
        /\ beating' = [beating EXCEPT ![t] = TRUE]
        /\ dispatcher' = "acquiring"
        /\ UNCHANGED <<phase, worker, todo, cancelled>>
        /\ pc[t] = "idle" /\ phase = "up"
    BY <1>4 DEF DispatcherClaims, QInv, Looping
  <2>2. StillHeld /\ Held(r)' /\ ~Held(r)
    BY <1>4, ClaimHolds DEF DispatcherClaims
  <2>3. QueueType'
    BY <2>1 DEF QInv, QueueType, Pcs, HandlerPcs
  <2>4. \A u \in Tasks : Busy(u)' <=> (u = t \/ Busy(u))
    BY <2>1 DEF QInv, QueueType, Busy
  <2>5. \A u \in Tasks : Busy(u) => running[u] # r /\ u # t
    BY <2>1, <2>2 DEF QInv, Busy
  <2>6. TasksRegistered'
    BY <2>1, <2>4, <2>5 DEF QInv, QueueType, TasksRegistered
  <2>7. \A u \in Tasks : Busy(u)' => running'[u] \in RunIds /\ Held(running[u])'
    BY <2>1, <2>2, <2>4, <2>5 DEF QInv, QueueType, StillHeld
  <2>8. QED
    BY <2>1, <2>3, <2>4, <2>6, <2>7 DEF QInv, QueueType, Looping
<1>5. ASSUME NEW t \in Tasks, TaskStep(t)
      PROVE  QInv'
  <2>1. CASE HandlerStep(t)
    BY <2>1, HandlerPreserves
  <2>2. CASE Abandon(t)
    <3>1. EndTask(t) /\ Busy(t) /\ AbandonClaim(running[t], worker)
      BY <2>2 DEF Abandon, AbandonPcs, Busy
    <3>2. \A r \in RunIds : r # running[t] /\ Held(r) => Held(r)'
      BY <3>1 DEF AbandonClaim, RecoverRuns, storeVars, Held
    <3>3. QED
      BY <3>1, <3>2, EndTaskPreserves
  <2>3. CASE AbandonCancelled(t)
    <3>1. EndTask(t) /\ Busy(t) /\ UNCHANGED storeVars
      BY <2>3 DEF AbandonCancelled, AbandonPcs, Busy
    <3>2. QED
      BY <3>1, HeldWhenUntouched, EndTaskPreserves DEF StillHeld
  <2>4. QED
    BY <1>5, <2>1, <2>2, <2>3 DEF TaskStep
<1>6. ASSUME NEW t \in Tasks, HandlerRaises(t)
      PROVE  QInv'
  <2>1. /\ pc' = [pc EXCEPT ![t] = "abandon_failed"]
        /\ todo' = [todo EXCEPT ![t] = {}]
        /\ UNCHANGED <<storeVars, running, active, worker, phase, dispatcher, cancelled, beating>>
        /\ pc[t] # "idle"
    BY <1>6 DEF HandlerRaises, HandlerPcs
  <2>2. QueueType'
    BY <2>1 DEF QInv, QueueType, Pcs, AbandonPcs
  <2>3. \A u \in Tasks : Busy(u)' <=> Busy(u)
    BY <2>1 DEF QInv, QueueType, Busy
  <2>4. TasksRegistered'
    BY <2>1, <2>3 DEF QInv, TasksRegistered
  <2>5. QED
    BY <2>1, <2>2, <2>3, <2>4 DEF QInv, Held, storeVars
<1>7. ASSUME NEW t \in Tasks, HeartbeatRenews(t) \/ HeartbeatRefused(t)
      PROVE  QInv'
  <2>1. /\ UNCHANGED <<state, pc, running, todo, active, worker, phase, dispatcher>>
        /\ cancelled' \in [Tasks -> BOOLEAN]
        /\ beating' \in [Tasks -> BOOLEAN]
        /\ \A u \in Tasks : beating'[u] => beating[u]
    BY <1>7 DEF HeartbeatRenews, HeartbeatRefused, Heartbeat, storeVars, QInv, QueueType
  <2>2. QED
    BY <2>1, TasksKeptPreserves DEF QInv, StillHeld, Held
<1>8. CASE CloseBegins
  <2>1. /\ UNCHANGED <<pc, running, todo, active, worker, cancelled, beating>>
        /\ phase = "up" /\ phase' = "closing" /\ dispatcher' = "none"
    BY <1>8 DEF CloseBegins
  <2>2. StillHeld
    BY <1>8, HeldWhenUntouched, ClaimHolds DEF CloseBegins
  <2>3. QED
    BY <2>1, <2>2, TasksKeptPreserves DEF QInv, QueueType, Looping
<1>9. CASE CloseCancelsTasks
  <2>1. /\ UNCHANGED <<storeVars, pc, running, todo, active, worker, dispatcher, beating>>
        /\ phase = "closing" /\ phase' = "draining"
        /\ cancelled' \in [Tasks -> BOOLEAN]
    BY <1>9 DEF CloseCancelsTasks, QInv, QueueType
  <2>2. QED
    BY <2>1, HeldWhenUntouched, TasksKeptPreserves DEF QInv, QueueType
<1>10. CASE CloseEnds \/ Crash
  BY <1>10, GonePreserves DEF CloseEnds, Crash
<1>11. CASE Start
  <2>1. /\ UNCHANGED <<pc, running, todo, active, cancelled, beating>>
        /\ phase = "down" /\ phase' = "up" /\ worker' \in Workers /\ dispatcher' = "waiting"
    BY <1>11 DEF Start
  <2>2. \A t \in Tasks : ~Busy(t) /\ ~Busy(t)'
    BY <2>1 DEF QInv, Busy
  <2>3. QED
    BY <2>1, <2>2 DEF QInv, QueueType, TasksRegistered
<1>12. CASE TimePasses
  <2>1. UNCHANGED <<state, pc, running, todo, active, worker, phase, dispatcher, cancelled, beating>>
    BY <1>12 DEF TimePasses, Tick
  <2>2. QED
    BY <2>1, TasksKeptPreserves DEF QInv, QueueType, StillHeld, Held
<1>13. CASE UNCHANGED queueVars
  <2>1. UNCHANGED <<state, pc, running, todo, active, worker, phase, dispatcher, cancelled, beating>>
    BY <1>13 DEF queueVars, storeVars
  <2>2. QED
    BY <2>1, TasksKeptPreserves DEF QInv, QueueType, StillHeld, Held
<1>14. QED
  BY <1>1, <1>2, <1>3, <1>4, <1>5, <1>6, <1>7, <1>8, <1>9, <1>10, <1>11, <1>12, <1>13
     DEF Next, DispatcherStep

(* Before the first start there are no tasks. *)
LEMMA QueueInvariantInitially == Init => QInv
BY TaskAssumption DEF Init, QInv, QueueType, Pcs, TasksRegistered, Busy, Looping

(* The inductive invariant of the process, beside that of the store. *)
THEOREM QueueInvariant == Spec => [](QInv /\ IInv)
<1>1. Init => QInv /\ IInv
  BY QueueInvariantInitially, InvariantInitially DEF Init
<1>2. (QInv /\ IInv) /\ [Next]_queueVars => (QInv /\ IInv)'
  BY QueueInvariantPreserved, QueueStoreStep, InvariantPreserved
<1>3. QED
  BY <1>1, <1>2, PTL DEF Spec

(* The rows change through the store's actions only, by the way the actions   *)
(* of the process are put together; a call that the store would refuse is     *)
(* CallRefused.  It is used to carry facts about RunStore over.               *)
LEMMA QueueImplementsStore == Spec => StoreSpec
<1>1. Init => StoreInit
  BY DEF Init
<1>2. (QInv /\ IInv) /\ [Next]_queueVars => [StoreNext]_storeVars
  BY QueueStoreStep
<1>3. QED
  BY <1>1, <1>2, QueueInvariant, PTL DEF Spec, StoreSpec

(* Every executing task is registered under its Run and no other task is:     *)
(* no Run is executed by two tasks, and cancel and close reach them all,      *)
(* through lapsed leases, recoveries, crashes and restarts.                   *)
THEOREM RegistryCorrect == Spec => []TasksRegistered
<1>1. QInv => TasksRegistered
  BY DEF QInv
<1>2. QED
  BY <1>1, QueueInvariant, PTL

(* The running system never moves a terminal Run.                             *)
THEOREM QueueFreezesTerminal == Spec => TerminalFrozen
BY QueueImplementsStore, TerminalRunsFrozen

-----------------------------------------------------------------------------
(* Permits, wake-ups and cancellations *)

(* A step that leaves the store alone queues and cancels no Run.               *)
NoneQueued == \A r \in RunIds : state'[r] = "queued" => state[r] = "queued"
NoneCancelled == \A r \in RunIds : state'[r] = "cancelled" => state[r] = "cancelled"

(* The store calls of a handler queue no Run and cancel none.                  *)
LEMMA HandlerQueuesNone ==
  ASSUME IInv, QInv, NEW t \in Tasks, HandlerStep(t)
  PROVE  NoneQueued /\ NoneCancelled
<1>1. state \in [RunIds -> RunStates] /\ (pc[t] # "idle" => running[t] \in RunIds)
  BY HandlerWorker DEF IInv, RunRows, RunType
<1>2. QED
  BY <1>1
     DEF HandlerStep, Open, Load, Retry, Reload, Block, CancelRest, Settle, Begin, Execute,
         FinishFailed, FinishComposing, Compose, CallRefused, CancelHandler, NoneQueued,
         NoneCancelled, storeVars, RetryInterruptedStep, CancelStep, StartStep, FinishStep,
         FinishRun, CompleteOutput, FailComposition, Transition

(* A step of a handler moves its own task, to its next call or, when it was    *)
(* cancelled, to the way out.                                                  *)
LEMMA HandlerMoves ==
  ASSUME NEW t \in Tasks, HandlerStep(t)
  PROVE  /\ pc[t] \in HandlerPcs
         /\ \E next \in Pcs \ {"idle"} :
              pc' = [pc EXCEPT ![t] = IF cancelled[t] THEN "abandon_cancelled" ELSE next]
         /\ cancelled' = [cancelled EXCEPT ![t] = FALSE]
         /\ UNCHANGED <<running, runtimeVars>>
<1>1. pc[t] \in HandlerPcs
  BY DEF HandlerStep, Open, Load, Retry, Reload, Block, CancelRest, Settle, Begin, Execute,
         FinishFailed, FinishComposing, Compose, CallRefused, Refused, CancelHandler, HandlerPcs
<1>2. \E next \in Pcs \ {"idle"} : \E work : Goto(t, next, work)
  BY DEF HandlerStep, Open, Load, Retry, Reload, Block, CancelRest, Settle, Begin, Execute,
         FinishFailed, FinishComposing, Compose, CallRefused, CancelHandler, GotoNext,
         Pcs, HandlerPcs, AbandonPcs
<1>3. QED
  BY <1>1, <1>2 DEF Goto, runtimeVars

(* The semaphore: a task that holds a permit is busy, the dispatcher that      *)
(* holds one is claiming.                                                      *)
BusyTasks == {t \in Tasks : Busy(t)}

Permits == permits \in Int /\ IsFiniteSet(BusyTasks) /\ PermitsConserved

(* While the dispatcher sleeps, every queued Run will wake it.                 *)
Wakeful ==
  /\ wake \in BOOLEAN
  /\ dispatcher = "waiting" => \A r \in RunIds : state[r] = "queued" => wake \/ r \in waking

(* A step that moves no task and takes no permit. *)
LEMMA PermitsKept ==
  ASSUME Permits, UNCHANGED <<pc, permits>>, dispatcher' = "claiming" <=> dispatcher = "claiming"
  PROVE  Permits'
<1>1. BusyTasks' = BusyTasks
  BY DEF BusyTasks, Busy
<1>2. QED
  BY <1>1 DEF Permits, PermitsConserved, BusyTasks

(* A step that moves one task and ends none. *)
LEMMA PermitsMoved ==
  ASSUME Permits, QInv, NEW t \in Tasks, NEW next \in Pcs \ {"idle"}, pc[t] # "idle",
         pc' = [pc EXCEPT ![t] = next], UNCHANGED <<permits, dispatcher>>
  PROVE  Permits'
<1>1. BusyTasks' = BusyTasks
  BY DEF BusyTasks, Busy, QInv, QueueType
<1>2. QED
  BY <1>1 DEF Permits, PermitsConserved, BusyTasks

(* A task that ends gives its permit back. *)
LEMMA PermitsReturned ==
  ASSUME Permits, QInv, NEW t \in Tasks, Busy(t), EndTask(t)
  PROVE  Permits'
<1>1. BusyTasks' = BusyTasks \ {t} /\ t \in BusyTasks
  BY DEF BusyTasks, Busy, EndTask, QInv, QueueType
<1>2. IsFiniteSet(BusyTasks') /\ Cardinality(BusyTasks') = Cardinality(BusyTasks) - 1
  BY <1>1, FS_RemoveElement DEF Permits
<1>3. permits' = permits + 1 /\ UNCHANGED dispatcher
  BY DEF EndTask
<1>4. Cardinality(BusyTasks) \in Nat
  BY FS_CardinalityType DEF Permits
<1>5. permits + Cardinality(BusyTasks) + (IF dispatcher = "claiming" THEN 1 ELSE 0)
        = MaxConcurrentRuns
  BY DEF Permits, PermitsConserved, BusyTasks
<1>6. permits' + Cardinality(BusyTasks') + (IF dispatcher' = "claiming" THEN 1 ELSE 0)
        = MaxConcurrentRuns
  BY <1>2, <1>3, <1>4, <1>5 DEF Permits
<1>7. QED
  BY <1>2, <1>3, <1>6 DEF Permits, PermitsConserved, BusyTasks

(* A claim hands the dispatcher's permit to the task. *)
LEMMA PermitsHanded ==
  ASSUME Permits, QInv, NEW r \in RunIds, NEW t \in Tasks, DispatcherClaims(r, t)
  PROVE  Permits'
<1>1. BusyTasks' = BusyTasks \union {t} /\ t \notin BusyTasks
  BY DEF BusyTasks, Busy, DispatcherClaims, QInv, QueueType
<1>2. IsFiniteSet(BusyTasks') /\ Cardinality(BusyTasks') = Cardinality(BusyTasks) + 1
  BY <1>1, FS_AddElement DEF Permits
<1>3. UNCHANGED permits /\ dispatcher = "claiming" /\ dispatcher' = "acquiring"
  BY DEF DispatcherClaims
<1>4. Cardinality(BusyTasks) \in Nat
  BY FS_CardinalityType DEF Permits
<1>5. permits + Cardinality(BusyTasks) + 1 = MaxConcurrentRuns
  BY <1>3 DEF Permits, PermitsConserved, BusyTasks
<1>6. permits' + Cardinality(BusyTasks') + (IF dispatcher' = "claiming" THEN 1 ELSE 0)
        = MaxConcurrentRuns
  BY <1>2, <1>3, <1>4, <1>5 DEF Permits
<1>7. QED
  BY <1>2, <1>3, <1>6 DEF Permits, PermitsConserved, BusyTasks

(* The dispatcher's own permit, taken or given back. *)
LEMMA PermitsOfDispatcher ==
  ASSUME Permits, UNCHANGED pc,
         \/ dispatcher # "claiming" /\ dispatcher' = "claiming" /\ permits' = permits - 1
         \/ dispatcher = "claiming" /\ dispatcher' # "claiming" /\ permits' = permits + 1
  PROVE  Permits'
<1>1. BusyTasks' = BusyTasks
  BY DEF BusyTasks, Busy
<1>2. Cardinality(BusyTasks) \in Nat
  BY FS_CardinalityType DEF Permits
<1>3. permits + Cardinality(BusyTasks) + (IF dispatcher = "claiming" THEN 1 ELSE 0)
        = MaxConcurrentRuns
  BY DEF Permits, PermitsConserved, BusyTasks
<1>4. permits' + Cardinality(BusyTasks) + (IF dispatcher' = "claiming" THEN 1 ELSE 0)
        = MaxConcurrentRuns
  BY <1>2, <1>3 DEF Permits
<1>5. permits' \in Int /\ IsFiniteSet(BusyTasks')
  BY <1>1 DEF Permits
<1>6. QED
  BY <1>1, <1>4, <1>5 DEF Permits, PermitsConserved, BusyTasks

(* A process without tasks has all its permits. *)
LEMMA PermitsWhole ==
  ASSUME permits = MaxConcurrentRuns, \A t \in Tasks : ~Busy(t), dispatcher # "claiming"
  PROVE  Permits
<1>1. BusyTasks = {}
  BY DEF BusyTasks
<1>2. IsFiniteSet(BusyTasks) /\ Cardinality(BusyTasks) = 0
  BY <1>1, FS_EmptySet
<1>3. permits \in Int
  BY TaskAssumption
<1>4. QED
  BY <1>2, <1>3 DEF Permits, PermitsConserved, BusyTasks

(* Every step of the process keeps the account of the permits.                 *)
LEMMA PermitsPreserved ==
  ASSUME QInv, Permits, [Next]_queueVars
  PROVE  Permits'
<1> USE DEF runtimeVars, taskVars
<1>1. ASSUME NEW r \in RunIds, Submission(r)
      PROVE  Permits'
  BY <1>1, PermitsKept DEF Submission, Submit, RejectPlan, AcceptPlan, Wake, CancelRun
<1>2. CASE DispatcherWakes
  BY <1>2, PermitsKept DEF DispatcherWakes
<1>3. CASE DispatcherAcquires \/ DispatcherFindsNothing \/ DispatcherFails
  BY <1>3, PermitsOfDispatcher DEF DispatcherAcquires, DispatcherFindsNothing, DispatcherFails
<1>4. ASSUME NEW r \in RunIds, NEW t \in Tasks, DispatcherClaims(r, t)
      PROVE  Permits'
  BY <1>4, PermitsHanded
<1>5. ASSUME NEW t \in Tasks, TaskStep(t)
      PROVE  Permits'
  <2>1. CASE HandlerStep(t)
    <3>1. PICK next \in Pcs \ {"idle"} :
            pc' = [pc EXCEPT ![t] = IF cancelled[t] THEN "abandon_cancelled" ELSE next]
      BY <2>1, HandlerMoves
    <3>2. pc[t] # "idle" /\ UNCHANGED <<permits, dispatcher>>
      BY <2>1, HandlerMoves DEF HandlerPcs
    <3>3. (IF cancelled[t] THEN "abandon_cancelled" ELSE next) \in Pcs \ {"idle"}
      BY DEF Pcs, AbandonPcs
    <3>4. QED
      BY <3>1, <3>2, <3>3, PermitsMoved
  <2>2. CASE Abandon(t) \/ AbandonCancelled(t)
    <3>1. EndTask(t) /\ Busy(t)
      BY <2>2 DEF Abandon, AbandonCancelled, AbandonPcs, Busy
    <3>2. QED
      BY <3>1, PermitsReturned
  <2>3. QED
    BY <1>5, <2>1, <2>2 DEF TaskStep
<1>6. ASSUME NEW t \in Tasks, HandlerRaises(t)
      PROVE  Permits'
  <2>1. /\ pc' = [pc EXCEPT ![t] = "abandon_failed"]
        /\ UNCHANGED <<permits, dispatcher>>
        /\ pc[t] # "idle" /\ "abandon_failed" \in Pcs \ {"idle"}
    BY <1>6 DEF HandlerRaises, HandlerPcs, Pcs, AbandonPcs
  <2>2. QED
    BY <2>1, PermitsMoved
<1>7. ASSUME NEW t \in Tasks, HeartbeatRenews(t) \/ HeartbeatRefused(t)
      PROVE  Permits'
  BY <1>7, PermitsKept DEF HeartbeatRenews, HeartbeatRefused
<1>8. CASE CloseBegins
  <2>1. CASE dispatcher = "claiming"
    BY <1>8, <2>1, PermitsOfDispatcher DEF CloseBegins
  <2>2. CASE dispatcher # "claiming"
    BY <1>8, <2>2, PermitsKept DEF CloseBegins, Permits
  <2>3. QED
    BY <2>1, <2>2
<1>9. CASE CloseCancelsTasks \/ TimePasses \/ UNCHANGED queueVars
  BY <1>9, PermitsKept DEF CloseCancelsTasks, TimePasses, queueVars
<1>10. CASE CloseEnds \/ Crash
  <2>1. /\ permits' = MaxConcurrentRuns
        /\ pc' = [t \in Tasks |-> "idle"]
        /\ dispatcher' = "none"
    BY <1>10 DEF CloseEnds, Crash, Gone
  <2>2. \A t \in Tasks : ~Busy(t)'
    BY <2>1 DEF Busy
  <2>3. BusyTasks' = {}
    BY <2>2 DEF BusyTasks
  <2>4. IsFiniteSet(BusyTasks') /\ Cardinality(BusyTasks') = 0
    BY <2>3, FS_EmptySet
  <2>5. QED
    BY <2>1, <2>4, TaskAssumption DEF Permits, PermitsConserved, BusyTasks
<1>11. CASE Start
  BY <1>11, PermitsKept DEF Start, QInv, Looping
<1>12. QED
  BY <1>1, <1>2, <1>3, <1>4, <1>5, <1>6, <1>7, <1>8, <1>9, <1>10, <1>11 DEF Next, DispatcherStep

(* Every step of the process keeps the dispatcher awake to queued Runs.        *)
LEMMA WakefulPreserved ==
  ASSUME QInv, IInv, Wakeful, [Next]_queueVars
  PROVE  Wakeful'
<1> USE DEF runtimeVars, taskVars
<1>1. state \in [RunIds -> RunStates]
  BY DEF IInv, RunRows, RunType
<1>2. ASSUME NoneQueued, UNCHANGED <<wake, waking>>,
             dispatcher' = "waiting" => dispatcher = "waiting"
      PROVE  Wakeful'
  BY <1>2 DEF Wakeful, NoneQueued
<1>3. ASSUME NEW r \in RunIds, Submission(r)
      PROVE  Wakeful'
  <2>1. CASE Submit(r) \/ RejectPlan(r) \/ CancelRun(r)
    BY <1>1, <1>2, <2>1 DEF Submit, RejectPlan, CancelRun, StartPlanning, FailPlanning, Cancel,
                            Transition, NoneQueued
  <2>2. CASE AcceptPlan(r)
    BY <1>1, <2>2 DEF AcceptPlan, MaterializeAndEnqueue, Transition, Wakeful
  <2>3. CASE Wake(r)
    <3>1. dispatcher = "waiting" => wake'
      BY <2>3 DEF Wake, Ready, QInv, Looping
    <3>2. wake' \in BOOLEAN /\ UNCHANGED dispatcher
      BY <2>3 DEF Wake, Ready
    <3>3. QED
      BY <3>1, <3>2 DEF Wakeful
  <2>4. QED
    BY <1>3, <2>1, <2>2, <2>3 DEF Submission
<1>4. CASE DispatcherWakes \/ DispatcherAcquires \/ DispatcherFails
  BY <1>4 DEF DispatcherWakes, DispatcherAcquires, DispatcherFails, Wakeful
<1>5. CASE DispatcherFindsNothing
  <2>1. \A r \in RunIds : state'[r] # "queued"
    BY <1>5 DEF DispatcherFindsNothing, Queued, storeVars
  <2>2. QED
    BY <1>5, <2>1 DEF DispatcherFindsNothing, Wakeful
<1>6. ASSUME NEW r \in RunIds, NEW t \in Tasks, DispatcherClaims(r, t)
      PROVE  Wakeful'
  BY <1>6 DEF DispatcherClaims, Wakeful
<1>7. ASSUME NEW t \in Tasks, TaskStep(t)
      PROVE  Wakeful'
  <2>1. CASE HandlerStep(t)
    BY <1>2, <2>1, HandlerQueuesNone, HandlerMoves
  <2>2. CASE Abandon(t) \/ AbandonCancelled(t)
    <3>1. wake' = (wake \/ phase = "up") /\ UNCHANGED dispatcher
      BY <2>2 DEF Abandon, AbandonCancelled, EndTask
    <3>2. dispatcher = "waiting" => wake'
      BY <3>1 DEF QInv, Looping
    <3>3. wake' \in BOOLEAN
      BY <3>1
    <3>4. QED
      BY <3>1, <3>2, <3>3 DEF Wakeful
  <2>3. QED
    BY <1>7, <2>1, <2>2 DEF TaskStep
<1>8. ASSUME NEW t \in Tasks, HandlerRaises(t) \/ HeartbeatRenews(t) \/ HeartbeatRefused(t)
      PROVE  Wakeful'
  BY <1>2, <1>8 DEF HandlerRaises, HeartbeatRenews, HeartbeatRefused, Heartbeat, storeVars,
                    NoneQueued
<1>9. CASE CloseBegins
  BY <1>9 DEF CloseBegins, Wakeful
<1>10. CASE CloseCancelsTasks \/ TimePasses
  BY <1>2, <1>10 DEF CloseCancelsTasks, TimePasses, Tick, storeVars, NoneQueued
<1>11. CASE CloseEnds \/ Crash
  BY <1>11 DEF CloseEnds, Crash, Gone, Wakeful
<1>12. CASE Start
  BY <1>12 DEF Start, Wakeful
<1>13. CASE UNCHANGED queueVars
  BY <1>2, <1>13 DEF queueVars, storeVars, NoneQueued
<1>14. QED
  BY <1>3, <1>4, <1>5, <1>6, <1>7, <1>8, <1>9, <1>10, <1>11, <1>12, <1>13
     DEF Next, DispatcherStep

(* Every step of the process tells the task of a Run that it cancels.          *)
LEMMA CancelPreserved ==
  ASSUME QInv, IInv, CancelReachesTask, [Next]_queueVars
  PROVE  CancelReachesTask'
<1> USE DEF runtimeVars, taskVars
<1>1. state \in [RunIds -> RunStates] /\ pc \in [Tasks -> Pcs]
  BY DEF IInv, RunRows, RunType, QInv, QueueType
<1>2. \A t \in Tasks : pc[t] \in HandlerPcs => running[t] \in RunIds
  BY HandlerWorker DEF HandlerPcs
<1>3. ASSUME NoneCancelled, UNCHANGED running,
             \A t \in Tasks : pc'[t] \in HandlerPcs =>
               pc[t] \in HandlerPcs /\ (cancelled[t] => cancelled'[t])
      PROVE  CancelReachesTask'
  BY <1>2, <1>3 DEF CancelReachesTask, NoneCancelled
<1>4. ASSUME NEW r \in RunIds, Submission(r)
      PROVE  CancelReachesTask'
  <2>1. CASE Submit(r) \/ RejectPlan(r) \/ AcceptPlan(r) \/ Wake(r)
    BY <1>1, <1>3, <2>1
       DEF Submit, RejectPlan, AcceptPlan, Wake, StartPlanning, FailPlanning,
           MaterializeAndEnqueue, Transition, storeVars, NoneCancelled
  <2>2. CASE CancelRun(r)
    <3>1. /\ state' = [state EXCEPT ![r] = "cancelled"]
          /\ cancelled' = [t \in Tasks |-> cancelled[t] \/ active[r] = t]
          /\ UNCHANGED <<pc, running>>
      BY <2>2 DEF CancelRun, Cancel, Transition
    <3>2. SUFFICES ASSUME NEW t \in Tasks, pc[t] \in HandlerPcs,
                          state'[running[t]] = "cancelled"
                   PROVE  cancelled'[t]
      BY <3>1 DEF CancelReachesTask
    <3>3. CASE running[t] = r
      <4>1. active[r] = t
        BY <3>2, <3>3 DEF QInv, TasksRegistered, Busy, HandlerPcs
      <4>2. QED
        BY <3>1, <4>1
    <3>4. CASE running[t] # r
      <4>1. state[running[t]] = "cancelled"
        BY <1>1, <1>2, <3>1, <3>2, <3>4
      <4>2. QED
        BY <3>1, <3>2, <4>1 DEF CancelReachesTask
    <3>5. QED
      BY <3>3, <3>4
  <2>3. QED
    BY <1>4, <2>1, <2>2 DEF Submission
<1>5. CASE DispatcherWakes \/ DispatcherAcquires \/ DispatcherFindsNothing \/ DispatcherFails
  BY <1>3, <1>5 DEF DispatcherWakes, DispatcherAcquires, DispatcherFindsNothing,
                    DispatcherFails, storeVars, NoneCancelled
<1>6. ASSUME NEW r \in RunIds, NEW t \in Tasks, DispatcherClaims(r, t)
      PROVE  CancelReachesTask'
  <2>1. /\ state' = [state EXCEPT ![r] = "running"]
        /\ pc' = [pc EXCEPT ![t] = "open"]
        /\ running' = [running EXCEPT ![t] = r]
        /\ UNCHANGED cancelled
    BY <1>6 DEF DispatcherClaims, ClaimNext, Transition
  <2>2. SUFFICES ASSUME NEW u \in Tasks, pc'[u] \in HandlerPcs,
                        state'[running'[u]] = "cancelled"
                 PROVE  cancelled[u]
    BY <2>1 DEF CancelReachesTask
  <2>3. running \in [Tasks -> RunIds \union {NoRun}]
    BY DEF QInv, QueueType
  <2>4. u # t
    BY <1>1, <2>1, <2>2, <2>3
  <2>5. pc[u] \in HandlerPcs /\ running'[u] = running[u] /\ running[u] \in RunIds
    BY <1>1, <1>2, <2>1, <2>2, <2>3, <2>4
  <2>6. state[running[u]] = "cancelled"
    BY <1>1, <2>1, <2>2, <2>5
  <2>7. QED
    BY <2>5, <2>6 DEF CancelReachesTask
<1>7. ASSUME NEW t \in Tasks, HandlerStep(t)
      PROVE  CancelReachesTask'
  <2>1. PICK next \in Pcs \ {"idle"} :
          pc' = [pc EXCEPT ![t] = IF cancelled[t] THEN "abandon_cancelled" ELSE next]
    BY <1>7, HandlerMoves
  <2>2. /\ pc[t] \in HandlerPcs /\ NoneCancelled
        /\ cancelled' = [cancelled EXCEPT ![t] = FALSE]
        /\ UNCHANGED running
    BY <1>7, HandlerMoves, HandlerQueuesNone
  <2>3. cancelled \in [Tasks -> BOOLEAN]
    BY DEF QInv, QueueType
  <2>4. "abandon_cancelled" \notin HandlerPcs
    BY DEF HandlerPcs
  <2>5. ASSUME NEW u \in Tasks, pc'[u] \in HandlerPcs
        PROVE  pc[u] \in HandlerPcs /\ (cancelled[u] => cancelled'[u])
    BY <1>1, <2>1, <2>2, <2>3, <2>4, <2>5
  <2>6. QED
    BY <1>3, <2>2, <2>5
<1>8. ASSUME NEW t \in Tasks, Abandon(t) \/ AbandonCancelled(t)
      PROVE  CancelReachesTask'
  <2>1. /\ pc' = [pc EXCEPT ![t] = "idle"]
        /\ running' = [running EXCEPT ![t] = NoRun]
        /\ cancelled' = [cancelled EXCEPT ![t] = FALSE]
    BY <1>8 DEF Abandon, AbandonCancelled, EndTask
  <2>2. NoneCancelled
    BY <1>8 DEF Abandon, AbandonCancelled, AbandonClaim, RecoverRuns, Recovered, storeVars,
                NoneCancelled
  <2>3. SUFFICES ASSUME NEW u \in Tasks, pc'[u] \in HandlerPcs,
                        state'[running'[u]] = "cancelled"
                 PROVE  cancelled'[u]
    BY DEF CancelReachesTask
  <2>4. u # t
    BY <1>1, <2>1, <2>3 DEF HandlerPcs
  <2>5. pc[u] \in HandlerPcs /\ running'[u] = running[u] /\ cancelled'[u] = cancelled[u]
    BY <1>1, <2>1, <2>3, <2>4 DEF QInv, QueueType
  <2>6. QED
    BY <1>2, <2>2, <2>3, <2>5 DEF CancelReachesTask, NoneCancelled
<1>9. ASSUME NEW t \in Tasks, HandlerRaises(t) \/ HeartbeatRenews(t) \/ HeartbeatRefused(t)
      PROVE  CancelReachesTask'
  <2>1. NoneCancelled /\ UNCHANGED running
    BY <1>9 DEF HandlerRaises, HeartbeatRenews, HeartbeatRefused, Heartbeat, storeVars,
                NoneCancelled
  <2>2. CASE HandlerRaises(t)
    BY <1>1, <1>3, <2>1, <2>2 DEF HandlerRaises
  <2>3. CASE HeartbeatRenews(t) \/ HeartbeatRefused(t)
    BY <1>3, <2>1, <2>3 DEF HeartbeatRenews, HeartbeatRefused, QInv, QueueType
  <2>4. QED
    BY <1>9, <2>2, <2>3
<1>10. CASE CloseBegins
  <2>1. NoneCancelled
    BY <1>1, <1>10 DEF CloseBegins, ClaimNext, Transition, storeVars, NoneCancelled
  <2>2. QED
    BY <1>3, <1>10, <2>1 DEF CloseBegins
<1>11. CASE CloseCancelsTasks
  BY <1>3, <1>11 DEF CloseCancelsTasks, storeVars, NoneCancelled
<1>12. CASE CloseEnds \/ Crash
  BY <1>12 DEF CloseEnds, Crash, Gone, CancelReachesTask, HandlerPcs
<1>13. CASE Start
  <2>1. NoneCancelled
    BY <1>13 DEF Start, RecoverExpired, RecoverRuns, Recovered, NoneCancelled
  <2>2. QED
    BY <1>3, <1>13, <2>1 DEF Start
<1>14. CASE TimePasses \/ UNCHANGED queueVars
  BY <1>3, <1>14 DEF TimePasses, Tick, queueVars, storeVars, NoneCancelled
<1>15. QED
  BY <1>4, <1>5, <1>6, <1>7, <1>8, <1>9, <1>10, <1>11, <1>12, <1>13, <1>14
     DEF Next, DispatcherStep, TaskStep

(* The semaphore's permits are all accounted for, whatever is cancelled or     *)
(* raises, closes or dies: the busy tasks, the dispatcher that is claiming,    *)
(* and the counter make MaxConcurrentRuns.                                     *)
THEOREM PermitsAccountedFor == Spec => []PermitsConserved
<1>1. Init => Permits
  BY PermitsWhole DEF Init, Busy
<1>2. QInv /\ Permits /\ [Next]_queueVars => Permits'
  BY PermitsPreserved
<1>3. Permits => PermitsConserved
  BY DEF Permits
<1>4. QED
  BY <1>1, <1>2, <1>3, QueueInvariant, PTL DEF Spec

(* The dispatcher never sleeps on a queued Run: the event is set, or the       *)
(* submission that queued the Run is about to set it.                          *)
THEOREM WakeupsNotLost == Spec => []NoLostWakeup
<1>1. Init => Wakeful
  BY DEF Init, Wakeful
<1>2. QInv /\ IInv /\ Wakeful /\ [Next]_queueVars => Wakeful'
  BY WakefulPreserved
<1>3. Wakeful => NoLostWakeup
  BY DEF Wakeful, NoLostWakeup, Queued
<1>4. QED
  BY <1>1, <1>2, <1>3, QueueInvariant, PTL DEF Spec

(* A task that still works on a cancelled Run has been told to stop.           *)
THEOREM CancellationReaches == Spec => []CancelReachesTask
<1>1. Init => CancelReachesTask
  BY DEF Init, CancelReachesTask, HandlerPcs
<1>2. QInv /\ IInv /\ CancelReachesTask /\ [Next]_queueVars => CancelReachesTask'
  BY CancelPreserved
<1>3. QED
  BY <1>1, <1>2, QueueInvariant, PTL DEF Spec

-----------------------------------------------------------------------------
(* The steps of a Run, seen by the engine *)

(* Attempts that are there change to a state of X, or not at all.              *)
Enters(X) ==
  \A r \in RunIds, n \in Nodes : \A k \in 1..Len(steps[r][n]) :
    steps'[r][n][k] = steps[r][n][k] \/ steps'[r][n][k] \in X

Ended == Terminal \union {"interrupted"}

(* An UPDATE of one attempt enters the state it sets.                          *)
LEMMA EntersSet ==
  ASSUME StepsType, NEW r \in RunIds, NEW n \in Nodes, NEW k \in 1..Len(steps[r][n]), NEW new,
         SetStep(r, n, k, new)
  PROVE  Enters({new})
<1>1. steps' = [steps EXCEPT ![r] = [steps[r] EXCEPT ![n] = [steps[r][n] EXCEPT ![k] = new]]]
  BY DEF SetStep
<1>2. SUFFICES ASSUME NEW q \in RunIds, NEW m \in Nodes, NEW j \in 1..Len(steps[q][m])
               PROVE  steps'[q][m][j] \in {steps[q][m][j], new}
  BY DEF Enters
<1>3. CASE q = r /\ m = n
  <2>1. steps'[q][m] = [steps[r][n] EXCEPT ![k] = new]
    BY <1>1, <1>3 DEF StepsType
  <2>2. j \in DOMAIN steps[r][n]
    BY <1>3, LenProperties DEF StepsType, Attempt
  <2>3. QED
    BY <1>3, <2>1, <2>2
<1>4. CASE q # r \/ m # n
  <2>1. steps'[q][m] = steps[q][m]
    BY <1>1, <1>4 DEF StepsType
  <2>2. QED
    BY <2>1
<1>5. QED
  BY <1>3, <1>4

(* A new attempt changes none of those before it.                              *)
LEMMA EntersRetry ==
  ASSUME StepsType, NEW r \in RunIds, NEW w, NEW n \in Nodes, NEW k,
         RetryInterruptedStep(r, w, n, k)
  PROVE  Enters({})
<1>1. steps' = [steps EXCEPT ![r] = [steps[r] EXCEPT ![n] = Append(steps[r][n], "queued")]]
  BY DEF RetryInterruptedStep
<1>2. SUFFICES ASSUME NEW q \in RunIds, NEW m \in Nodes, NEW j \in 1..Len(steps[q][m])
               PROVE  steps'[q][m][j] = steps[q][m][j]
  BY DEF Enters
<1>3. CASE q = r /\ m = n
  <2>1. steps'[q][m] = Append(steps[r][n], "queued")
    BY <1>1, <1>3 DEF StepsType
  <2>2. steps[r][n] \in Seq(StepStates) /\ "queued" \in StepStates
    BY DEF StepsType, Attempt, StepStates
  <2>3. QED
    BY <1>3, <2>1, <2>2, AppendProperties
<1>4. CASE q # r \/ m # n
  <2>1. steps'[q][m] = steps[q][m]
    BY <1>1, <1>4 DEF StepsType
  <2>2. QED
    BY <2>1
<1>5. QED
  BY <1>3, <1>4

(* A cancellation enters "cancelled" only.                                     *)
LEMMA EntersCancel ==
  ASSUME StepsType, NEW r \in RunIds, Cancel(r)
  PROVE  Enters({"cancelled"})
<1> DEFINE rows == Rewritten(r, {"queued", "running"}, "cancelled")
<1>1. steps' = [steps EXCEPT ![r] = rows]
  BY DEF Cancel
<1>2. "cancelled" \in StepStates /\ steps[r] \in [Nodes -> Attempt]
  BY DEF StepStates, StepsType
<1>3. \A n \in Nodes : rows[n] = Update(steps[r][n], {"queued", "running"}, "cancelled")
  BY <1>2, RewrittenProperties
<1> HIDE DEF rows
<1>4. ASSUME NEW n \in Nodes, NEW k \in 1..Len(steps[r][n])
      PROVE  rows[n][k] \in {steps[r][n][k], "cancelled"}
  BY <1>2, <1>3, UpdateProperties
<1>5. \A q \in RunIds : steps'[q] = IF q = r THEN rows ELSE steps[q]
  BY <1>1 DEF StepsType
<1>6. QED
  BY <1>4, <1>5 DEF Enters

(* Recovery interrupts or fails, and interrupts no step that may not be        *)
(* repeated.                                                                   *)
LEMMA EntersRecovery ==
  ASSUME StepsType, NEW S \in SUBSET RunIds, RecoverRuns(S)
  PROVE  /\ Enters({"failed", "interrupted"})
         /\ \A r \in RunIds, n \in Nodes \ Idempotent : \A k \in 1..Len(steps[r][n]) :
              steps'[r][n][k] = "interrupted" => steps[r][n][k] = "interrupted"
<1>1. ASSUME NEW r \in RunIds, NEW n \in Nodes, NEW k \in 1..Len(steps[r][n])
      PROVE  /\ RecoveredSteps(r)[n][k] \in {steps[r][n][k], "failed", "interrupted"}
             /\ n \notin Idempotent =>
                  (RecoveredSteps(r)[n][k] = "interrupted" => steps[r][n][k] = "interrupted")
  <2>1. {"failed", "interrupted"} \subseteq StepStates /\ steps[r] \in [Nodes -> Attempt]
    BY DEF StepStates, StepsType
  <2>2. CASE state[r] = "composing"
    BY <2>2 DEF RecoveredSteps
  <2>3. CASE state[r] # "composing" /\ Unrepeatable(r)
    <3>1. RecoveredSteps(r)[n] = Update(steps[r][n], {"running", "interrupted"}, "failed")
      BY <2>1, <2>3, RewrittenProperties DEF RecoveredSteps
    <3>2. QED
      BY <2>1, <3>1, UpdateProperties
  <2>4. CASE state[r] # "composing" /\ ~Unrepeatable(r)
    <3>1. RecoveredSteps(r)[n] = Update(steps[r][n], {"running"}, "interrupted")
      BY <2>1, <2>4, RewrittenProperties DEF RecoveredSteps
    <3>2. RecoveredSteps(r)[n][k]
            = IF steps[r][n][k] \in {"running"} THEN "interrupted" ELSE steps[r][n][k]
      BY <2>1, <3>1, UpdateProperties
    <3>3. n \notin Idempotent => steps[r][n][k] # "running"
      BY <2>4 DEF Unrepeatable
    <3>4. QED
      BY <3>2, <3>3
  <2>5. QED
    BY <2>2, <2>3, <2>4
<1>2. \A r \in RunIds : steps'[r] = IF r \in S THEN RecoveredSteps(r) ELSE steps[r]
  BY DEF RecoverRuns
<1>3. QED
  BY <1>1, <1>2 DEF Enters

(* Materialisation finds no attempt that it could change.                      *)
LEMMA EntersMaterialize ==
  ASSUME StepsType, UnplannedHaveNoSteps, NEW r \in RunIds, MaterializeAndEnqueue(r)
  PROVE  Enters({})
<1>1. \A q \in RunIds : q # r => steps'[q] = steps[q]
  BY DEF MaterializeAndEnqueue, StepsType
<1>2. \A n \in Nodes : Len(steps[r][n]) = 0
  BY DEF MaterializeAndEnqueue, UnplannedHaveNoSteps, NoSteps
<1>3. \A n \in Nodes : \A k \in 1..Len(steps[r][n]) : FALSE
  BY <1>2
<1>4. QED
  BY <1>1, <1>3 DEF Enters

(* Fewer states entered is a special case of more.                             *)
LEMMA EntersMore ==
  ASSUME NEW X, NEW Y, X \subseteq Y, Enters(X)
  PROVE  Enters(Y)
BY DEF Enters

(* Only start_step starts a step, and the engine alone calls it.               *)
LEMMA StartedByEngine ==
  ASSUME QInv, IInv, [Next]_queueVars, \A t \in Tasks : ~Begin(t)
  PROVE  Enters(Ended)
<1> USE DEF runtimeVars, taskVars
<1>1. StepsType /\ UnplannedHaveNoSteps
  BY DEF IInv
<1>2. /\ {"cancelled"} \subseteq Ended /\ {"completed"} \subseteq Ended
      /\ {"failed"} \subseteq Ended /\ {} \subseteq Ended
      /\ {"failed", "interrupted"} \subseteq Ended
  BY DEF Ended, Terminal
<1>3. ASSUME UNCHANGED steps PROVE Enters(Ended)
  BY <1>3 DEF Enters
<1>4. ASSUME NEW r \in RunIds, Submission(r)
      PROVE  Enters(Ended)
  <2>1. CASE Submit(r) \/ RejectPlan(r) \/ Wake(r)
    BY <1>3, <2>1 DEF Submit, RejectPlan, Wake, StartPlanning, FailPlanning, storeVars
  <2>2. CASE AcceptPlan(r)
    BY <1>1, <1>2, <2>2, EntersMaterialize, EntersMore DEF AcceptPlan
  <2>3. CASE CancelRun(r)
    BY <1>1, <1>2, <2>3, EntersCancel, EntersMore DEF CancelRun
  <2>4. QED
    BY <1>4, <2>1, <2>2, <2>3 DEF Submission
<1>5. CASE DispatcherStep \/ DispatcherFails
  BY <1>3, <1>5 DEF DispatcherStep, DispatcherWakes, DispatcherAcquires, DispatcherClaims,
                    DispatcherFindsNothing, DispatcherFails, ClaimNext, storeVars
<1>6. ASSUME NEW t \in Tasks, TaskStep(t)
      PROVE  Enters(Ended)
  <2>1. pc[t] # "idle"
    BY <1>6 DEF TaskStep, HandlerStep, Open, Load, Retry, Reload, Block, CancelRest, Settle,
                Begin, Execute, FinishFailed, FinishComposing, Compose, CallRefused, Refused,
                CancelHandler, Abandon, AbandonCancelled, HandlerPcs, AbandonPcs
  <2>2. running[t] \in RunIds /\ \A item \in todo[t] : item[1] \in Nodes /\ item[2] \in Nat
    BY <2>1, HandlerWorker, TodoItem
  <2>3. CASE \/ Open(t) \/ Load(t) \/ Reload(t) \/ Settle(t) \/ CallRefused(t)
             \/ CancelHandler(t) \/ FinishFailed(t) \/ FinishComposing(t) \/ Compose(t)
             \/ AbandonCancelled(t)
    BY <1>3, <2>3 DEF Open, Load, Reload, Settle, CallRefused, CancelHandler, FinishFailed,
                      FinishComposing, Compose, AbandonCancelled, FinishRun, CompleteOutput,
                      FailComposition, storeVars
  <2>4. CASE Retry(t)
    <3>1. PICK item \in todo[t] : RetryInterruptedStep(running[t], worker, item[1], item[2])
      BY <2>4 DEF Retry
    <3>2. QED
      BY <1>1, <1>2, <2>2, <3>1, EntersRetry, EntersMore
  <2>5. CASE Block(t) \/ CancelRest(t)
    <3>1. PICK item \in todo[t] : CancelStep(running[t], worker, item[1], item[2])
      BY <2>5 DEF Block, CancelRest
    <3>2. /\ item[2] \in 1..Len(steps[running[t]][item[1]])
          /\ SetStep(running[t], item[1], item[2], "cancelled")
      BY <3>1 DEF CancelStep
    <3>3. Enters({"cancelled"})
      BY <1>1, <2>2, <3>2, EntersSet
    <3>4. QED
      BY <1>2, <3>3, EntersMore
  <2>6. CASE Execute(t)
    <3>1. PICK item \in todo[t], outcome \in {"completed", "failed"} :
            FinishStep(running[t], worker, item[1], item[2], outcome)
      BY <2>6 DEF Execute
    <3>2. /\ item[2] \in 1..Len(steps[running[t]][item[1]])
          /\ SetStep(running[t], item[1], item[2], outcome)
      BY <3>1 DEF FinishStep
    <3>3. {outcome} \subseteq Ended
      BY <1>2
    <3>4. Enters({outcome})
      BY <1>1, <2>2, <3>2, EntersSet
    <3>5. QED
      BY <3>3, <3>4, EntersMore
  <2>7. CASE Abandon(t)
    <3>1. UNCHANGED storeVars \/ RecoverRuns({running[t]})
      BY <2>7 DEF Abandon, AbandonClaim
    <3>2. CASE UNCHANGED storeVars
      BY <1>3, <3>2 DEF storeVars
    <3>3. CASE RecoverRuns({running[t]})
      BY <1>1, <1>2, <2>2, <3>3, EntersRecovery, EntersMore
    <3>4. QED
      BY <3>1, <3>2, <3>3
  <2>8. QED
    BY <1>6, <2>3, <2>4, <2>5, <2>6, <2>7 DEF TaskStep, HandlerStep
<1>7. ASSUME NEW t \in Tasks, HandlerRaises(t) \/ HeartbeatRenews(t) \/ HeartbeatRefused(t)
      PROVE  Enters(Ended)
  BY <1>3, <1>7 DEF HandlerRaises, HeartbeatRenews, HeartbeatRefused, Heartbeat, storeVars
<1>8. CASE CloseBegins \/ CloseCancelsTasks \/ CloseEnds \/ Crash \/ TimePasses
  BY <1>3, <1>8 DEF CloseBegins, ClaimNext, CloseCancelsTasks, CloseEnds, Crash, Gone,
                    TimePasses, Tick, storeVars
<1>9. CASE Start
  <2>1. RecoverRuns(Expired) /\ Expired \in SUBSET RunIds
    BY <1>9 DEF Start, RecoverExpired, Expired
  <2>2. QED
    BY <1>1, <1>2, <2>1, EntersRecovery, EntersMore
<1>10. CASE UNCHANGED queueVars
  BY <1>3, <1>10 DEF queueVars, storeVars
<1>11. QED
  BY <1>4, <1>5, <1>6, <1>7, <1>8, <1>9, <1>10 DEF Next

(* No step that may not be repeated is left interrupted, whoever calls.        *)
NoneStranded ==
  \A r \in RunIds, n \in Nodes \ Idempotent : \A k \in 1..Len(steps[r][n]) :
    steps[r][n][k] # "interrupted"

(* Every store call keeps unrepeatable steps uninterrupted.                    *)
LEMMA NoneStrandedPreserved ==
  ASSUME IInv, NoneStranded, [StoreNext]_storeVars
  PROVE  NoneStranded'
<1>1. StepsType /\ UnplannedHaveNoSteps /\ RowsStep
  BY StoreRows DEF IInv
<1>2. ASSUME \A r \in RunIds, n \in Nodes \ Idempotent : \A k \in 1..Len(steps[r][n]) :
               steps'[r][n][k] = "interrupted" => steps[r][n][k] = "interrupted"
      PROVE  NoneStranded'
  <2>1. SUFFICES ASSUME NEW r \in RunIds, NEW n \in Nodes \ Idempotent,
                        NEW k \in 1..Len(steps'[r][n])
                 PROVE  steps'[r][n][k] # "interrupted"
    BY DEF NoneStranded
  <2>2. RowStep(n, steps[r][n], steps'[r][n]) /\ Len(steps[r][n]) \in Nat
    BY <1>1, LenProperties DEF RowsStep, StepsType, Attempt
  <2>3. CASE k > Len(steps[r][n])
    BY <2>2, <2>3 DEF RowStep, NewAttempts
  <2>4. CASE ~(k > Len(steps[r][n]))
    <3>1. Len(steps'[r][n]) \in Nat
      BY <2>2, LenProperties DEF RowStep, Attempt
    <3>2. k \in 1..Len(steps[r][n])
      BY <2>2, <2>4, <3>1
    <3>3. QED
      BY <1>2, <3>2 DEF NoneStranded
  <2>5. QED
    BY <2>3, <2>4
<1>3. ASSUME NEW X, "interrupted" \notin X, Enters(X)
      PROVE  NoneStranded'
  BY <1>2, <1>3 DEF Enters
<1>4. ASSUME NEW S \in SUBSET RunIds, RecoverRuns(S)
      PROVE  NoneStranded'
  BY <1>1, <1>2, <1>4, EntersRecovery
<1>5. ASSUME UNCHANGED steps PROVE NoneStranded'
  BY <1>5 DEF NoneStranded
<1>6. ASSUME NEW r \in RunIds,
             \/ StartPlanning(r) \/ FailPlanning(r) \/ MaterializeAndEnqueue(r)
             \/ Enqueue(r) \/ Cancel(r)
      PROVE  NoneStranded'
  BY <1>1, <1>3, <1>5, <1>6, EntersMaterialize, EntersCancel
     DEF StartPlanning, FailPlanning, Enqueue
<1>7. ASSUME NEW r \in RunIds, NEW w \in Workers,
             \/ ClaimNext(r, w) \/ Heartbeat(r, w)
             \/ CompleteOutput(r, w) \/ FailComposition(r, w)
             \/ \E target \in {"composing", "failed"} : FinishRun(r, w, target)
      PROVE  NoneStranded'
  BY <1>5, <1>7 DEF ClaimNext, Heartbeat, CompleteOutput, FailComposition, FinishRun
<1>8. ASSUME NEW r \in RunIds, NEW w \in Workers, AbandonClaim(r, w)
      PROVE  NoneStranded'
  BY <1>4, <1>5, <1>8 DEF AbandonClaim, storeVars
<1>9. ASSUME NEW r \in RunIds, NEW w \in Workers, NEW n \in Nodes,
             NEW k \in 1..Len(steps[r][n]),
             \/ RetryInterruptedStep(r, w, n, k)
             \/ StartStep(r, w, n, k)
             \/ CancelStep(r, w, n, k)
             \/ \E outcome \in {"completed", "failed"} : FinishStep(r, w, n, k, outcome)
      PROVE  NoneStranded'
  <2>1. CASE RetryInterruptedStep(r, w, n, k)
    BY <1>1, <1>3, <2>1, EntersRetry
  <2>2. CASE ~RetryInterruptedStep(r, w, n, k)
    <3>1. \E new : SetStep(r, n, k, new) /\ new # "interrupted"
      BY <1>9, <2>2 DEF StartStep, CancelStep, FinishStep
    <3>2. PICK new : SetStep(r, n, k, new) /\ new # "interrupted"
      BY <3>1
    <3>3. Enters({new}) /\ "interrupted" \notin {new}
      BY <1>1, <3>2, EntersSet
    <3>4. QED
      BY <1>3, <3>3
  <2>3. QED
    BY <2>1, <2>2
<1>10. CASE RecoverExpired
  BY <1>4, <1>10 DEF RecoverExpired, Expired
<1>11. CASE Tick \/ UNCHANGED storeVars
  BY <1>5, <1>11 DEF Tick, storeVars
<1>12. QED
  BY <1>6, <1>7, <1>8, <1>9, <1>10, <1>11 DEF StoreNext

(* What the engine decides on, and what must not change under it.              *)
Done(r, n) == Len(steps[r][n]) > 0 /\ Latest(r, n) = "completed"
Closed(r, n) == Len(steps[r][n]) > 0 /\ Latest(r, n) \in Terminal

AllDone(r) == \A n \in Plan[r] : Closed(r, n) /\ (n \in Required => Done(r, n))

(* An attempt that ended stays the last one of its node.                       *)
LEMMA ClosedStays ==
  ASSUME StepsType, RowsStep, NEW r \in RunIds, NEW n \in Nodes, Closed(r, n)
  PROVE  Closed(r, n)' /\ Latest(r, n)' = Latest(r, n)
<1> DEFINE s == steps[r][n]
           t == steps'[r][n]
<1>1. RowStep(n, s, t) /\ Len(s) \in Nat /\ Len(t) \in Nat
  BY LenProperties DEF RowsStep, StepsType, Attempt
<1>2. Len(s) > 0 /\ s[Len(s)] \in Terminal
  BY DEF Closed, Latest
<1> HIDE DEF s, t
<1>3. Len(t) = Len(s)
  <2>1. SUFFICES ASSUME Len(t) > Len(s) PROVE FALSE
    BY <1>1 DEF RowStep, AlongEdges
  <2>2. Len(t) \in 1..Len(t)
    BY <1>1, <2>1
  <2>3. s[Len(s)] = "interrupted"
    BY <1>1, <1>2, <2>1, <2>2 DEF RowStep, NewAttempts
  <2>4. QED
    BY <1>2, <2>3 DEF Terminal
<1>4. t[Len(s)] = s[Len(s)]
  <2>1. Len(s) \in 1..Len(s)
    BY <1>1, <1>2
  <2>2. t[Len(s)] = s[Len(s)] \/ <<s[Len(s)], t[Len(s)]>> \in StepEdges
    BY <1>1, <2>1 DEF RowStep, AlongEdges
  <2>3. QED
    BY <1>2, <2>2 DEF StepEdges, Terminal
<1>5. QED
  BY <1>2, <1>3, <1>4 DEF Closed, Latest, s, t

(* A completed node, and a plan that came to its end, stay so.                 *)
LEMMA DoneStays ==
  ASSUME StepsType, RowsStep, NEW r \in RunIds
  PROVE  /\ \A n \in Nodes : Done(r, n) => Done(r, n)'
         /\ AllDone(r) => AllDone(r)'
<1>1. \A n \in Nodes : Done(r, n) => Closed(r, n)
  BY DEF Done, Closed, Terminal
<1>2. ASSUME NEW n \in Nodes, Done(r, n) PROVE Done(r, n)'
  <2>1. Closed(r, n)' /\ Latest(r, n)' = Latest(r, n)
    BY <1>1, <1>2, ClosedStays
  <2>2. QED
    BY <1>2, <2>1 DEF Done, Closed
<1>3. ASSUME AllDone(r) PROVE AllDone(r)'
  <2>1. SUFFICES ASSUME NEW n \in Plan[r]
                 PROVE  Closed(r, n)' /\ (n \in Required => Done(r, n)')
    BY DEF AllDone
  <2>2. n \in Nodes
    BY PlanAssumption
  <2>3. QED
    BY <1>2, <1>3, <2>2, ClosedStays DEF AllDone
<1>4. QED
  BY <1>2, <1>3

(* Every node of a stored plan has an attempt.                                 *)
PlannedSteps == \A r \in planned : \A n \in Plan[r] : Len(steps[r][n]) > 0

(* Only materialisation stores a plan.                                         *)
LEMMA PlannedOnce ==
  ASSUME [StoreNext]_storeVars
  PROVE  planned' = planned \/ \E r \in RunIds : MaterializeAndEnqueue(r)
BY DEF StoreNext, storeVars, StartPlanning, FailPlanning, Enqueue, Cancel, ClaimNext, Heartbeat,
       AbandonClaim, CompleteOutput, FinishRun, FailComposition, RetryInterruptedStep, StartStep,
       CancelStep, FinishStep, RecoverExpired, RecoverRuns, Tick

(* Every store call keeps an attempt at each node of a stored plan.            *)
LEMMA PlannedStepsPreserved ==
  ASSUME IInv, PlannedSteps, [StoreNext]_storeVars
  PROVE  PlannedSteps'
<1>1. StepsType /\ RowsStep /\ planned \in SUBSET RunIds
  BY StoreRows DEF IInv, RunRows, RunType
<1>2. ASSUME NEW r \in planned, NEW n \in Plan[r]
      PROVE  Len(steps'[r][n]) > 0
  <2>1. r \in RunIds /\ n \in Nodes
    BY <1>1, PlanAssumption
  <2>2. RowStep(n, steps[r][n], steps'[r][n]) /\ Len(steps[r][n]) \in Nat
    BY <1>1, <2>1, LenProperties DEF RowsStep, StepsType, Attempt
  <2>3. Len(steps'[r][n]) \in Nat
    BY <2>2, LenProperties DEF RowStep, Attempt
  <2>4. QED
    BY <2>2, <2>3 DEF RowStep, AlongEdges, PlannedSteps
<1>3. CASE planned' = planned
  BY <1>2, <1>3 DEF PlannedSteps
<1>4. ASSUME NEW r \in RunIds, MaterializeAndEnqueue(r)
      PROVE  PlannedSteps'
  <2>1. /\ planned' = planned \union {r}
        /\ steps'[r] = [n \in Nodes |-> IF n \in Plan[r] THEN <<"queued">> ELSE <<>>]
    BY <1>1, <1>4 DEF MaterializeAndEnqueue, StepsType
  <2>2. \A n \in Plan[r] : steps'[r][n] = <<"queued">>
    BY <2>1, PlanAssumption
  <2>3. \A n \in Plan[r] : Len(steps'[r][n]) > 0
    BY <2>2
  <2>4. QED
    BY <1>2, <2>1, <2>3 DEF PlannedSteps
<1>5. QED
  BY <1>3, <1>4, PlannedOnce

(* What a task took from its snapshot still holds when it acts on it.          *)
TaskSound(t) ==
  /\ pc[t] = "start" => \A item \in todo[t] : \A d \in Deps[item[1]] : Done(running[t], d)
  /\ pc[t] = "retry" => \A item \in todo[t] : item[1] \in Idempotent
  /\ pc[t] = "finish_composing" => AllDone(running[t])

OrderKept ==
  \A r \in RunIds, n \in Nodes : \A k \in 1..Len(steps[r][n]) :
    steps[r][n][k] \in {"running", "completed"} => \A d \in Deps[n] : Done(r, d)

ComposedDone == \A r \in RunIds : state[r] \in {"composing", "completed"} => AllDone(r)

EInv ==
  /\ PlannedSteps
  /\ NoneStranded
  /\ OrderKept
  /\ ComposedDone
  /\ \A t \in Tasks : TaskSound(t)

Deciding == {"start", "retry", "finish_composing"}

(* A task that does not come to a decision keeps what it has.                  *)
LEMMA TaskKept ==
  ASSUME QInv, IInv, EInv, [StoreNext]_storeVars, NEW t \in Tasks,
         \/ pc'[t] \notin Deciding
         \/ pc'[t] = pc[t] /\ running'[t] = running[t] /\ todo'[t] \subseteq todo[t]
  PROVE  TaskSound(t)'
<1>1. CASE pc'[t] \notin Deciding
  BY <1>1 DEF TaskSound, Deciding
<1>2. CASE /\ pc'[t] \in Deciding
           /\ pc'[t] = pc[t] /\ running'[t] = running[t] /\ todo'[t] \subseteq todo[t]
  <2>1. running[t] \in RunIds /\ \A item \in todo[t] : item[1] \in Nodes
    BY <1>2, HandlerWorker, TodoItem DEF Deciding
  <2>2. PICK r \in RunIds : r = running[t]
    BY <2>1
  <2>3. running'[t] = r
    BY <1>2, <2>2
  <2>4. /\ \A n \in Nodes : Done(r, n) => Done(r, n)'
        /\ AllDone(r) => AllDone(r)'
    BY DoneStays, StoreRows DEF IInv
  <2>5. \A item \in todo[t] : Deps[item[1]] \subseteq Nodes
    BY <2>1, PlanAssumption
  <2>6. TaskSound(t)
    BY DEF EInv
  <2>7. CASE pc[t] = "start"
    <3>1. \A item \in todo'[t] : \A d \in Deps[item[1]] : Done(r, d)'
      BY <1>2, <2>2, <2>4, <2>5, <2>6, <2>7 DEF TaskSound
    <3>2. \A item \in todo'[t] : \A d \in Deps[item[1]] : Done(running[t], d)'
      BY <2>3, <3>1 DEF Done, Latest
    <3>3. QED
      BY <1>2, <2>7, <3>2 DEF TaskSound
  <2>8. CASE pc[t] = "retry"
    BY <1>2, <2>6, <2>8 DEF TaskSound
  <2>9. CASE pc[t] = "finish_composing"
    <3>1. AllDone(r)'
      BY <2>2, <2>4, <2>6, <2>9 DEF TaskSound
    <3>2. AllDone(running[t])'
      BY <2>3, <3>1 DEF AllDone, Closed, Done, Latest
    <3>3. QED
      BY <1>2, <2>9, <3>2 DEF TaskSound
  <2>10. QED
    BY <1>2, <2>7, <2>8, <2>9 DEF Deciding
<1>3. QED
  BY <1>1, <1>2

(* The three calls that the engine decides on.                                 *)
LEMMA LoadSound ==
  ASSUME QInv, IInv, EInv, NEW t \in Tasks, Load(t)
  PROVE  TaskSound(t)'
<1> DEFINE r == running[t]
<1>1. r \in RunIds /\ r \in planned /\ UNCHANGED storeVars
  BY HandlerWorker DEF Load, CanLoad
<1>2. Plan[r] \subseteq Nodes /\ pc \in [Tasks -> Pcs] /\ todo \in [Tasks -> SUBSET (Nodes \X Nat)]
  BY <1>1, PlanAssumption DEF QInv, QueueType
<1>3. running' = running
  BY DEF Load, Goto
<1>4. CASE cancelled[t]
  <2>1. pc'[t] = "abandon_cancelled"
    BY <1>2, <1>4 DEF Load, Goto
  <2>2. QED
    BY <2>1 DEF TaskSound
<1>5. CASE ~cancelled[t] /\ Plan[r] = {}
  <2>1. pc'[t] = "finish_composing"
    BY <1>2, <1>5 DEF Load, Goto
  <2>2. AllDone(running[t])'
    BY <1>3, <1>5 DEF AllDone
  <2>3. QED
    BY <2>1, <2>2 DEF TaskSound
<1>6. CASE ~cancelled[t] /\ Plan[r] # {} /\ InState(r, "interrupted") = {}
  <2>1. pc'[t] = "reload"
    BY <1>2, <1>6 DEF Load, Goto
  <2>2. QED
    BY <2>1 DEF TaskSound
<1>7. CASE ~cancelled[t] /\ Plan[r] # {} /\ InState(r, "interrupted") # {}
  <2>1. pc'[t] = "retry" /\ todo'[t] = Attempts(r, InState(r, "interrupted"))
    BY <1>2, <1>7 DEF Load, Goto
  <2>2. ASSUME NEW n \in InState(r, "interrupted") PROVE n \in Idempotent
    <3>1. n \in Plan[r] /\ n \in Nodes /\ Latest(r, n) = "interrupted"
      BY <1>2 DEF InState
    <3>2. Len(steps[r][n]) > 0 /\ Len(steps[r][n]) \in Nat
      BY <1>1, <3>1, LenProperties DEF EInv, PlannedSteps, IInv, StepsType, Attempt
    <3>3. Len(steps[r][n]) \in 1..Len(steps[r][n])
      BY <3>2
    <3>4. QED
      BY <1>1, <3>1, <3>3 DEF EInv, NoneStranded, Latest
  <2>3. \A item \in todo'[t] : item[1] \in Idempotent
    BY <2>1, <2>2 DEF Attempts
  <2>4. QED
    BY <2>1, <2>3 DEF TaskSound
<1>8. QED
  BY <1>4, <1>5, <1>6, <1>7

(* What the engine decides when it reads again is true.                        *)
LEMMA ReloadSound ==
  ASSUME QInv, IInv, EInv, NEW t \in Tasks, Reload(t)
  PROVE  TaskSound(t)'
<1> DEFINE r == running[t]
<1>1. r \in RunIds /\ r \in planned /\ UNCHANGED storeVars
  BY HandlerWorker DEF Reload, CanLoad
<1>2. Plan[r] \subseteq Nodes /\ pc \in [Tasks -> Pcs] /\ todo \in [Tasks -> SUBSET (Nodes \X Nat)]
  BY <1>1, PlanAssumption DEF QInv, QueueType
<1>3. running' = running /\ steps' = steps
  BY <1>1 DEF Reload, Goto, storeVars
<1>4. \A n \in Plan[r] : Len(steps[r][n]) > 0
  BY <1>1 DEF EInv, PlannedSteps
<1>5. CASE cancelled[t]
  <2>1. pc'[t] = "abandon_cancelled"
    BY <1>2, <1>5 DEF Reload, Goto
  <2>2. QED
    BY <2>1 DEF TaskSound
<1>6. CASE ~cancelled[t] /\ (RequiredFailure(r) \/ BlockedSteps(r) # {})
  <2>1. pc'[t] \in {"settle", "cancel_rest", "block"}
    BY <1>2, <1>6 DEF Reload, Goto
  <2>2. QED
    BY <2>1 DEF TaskSound
<1>7. CASE ~cancelled[t] /\ ~RequiredFailure(r) /\ BlockedSteps(r) = {} /\ ReadySteps(r) # {}
  <2>1. PICK n \in ReadySteps(r) : Goto(t, "start", Attempts(r, {n}))
    BY <1>7 DEF Reload
  <2>2. pc'[t] = "start" /\ \A item \in todo'[t] : item[1] = n
    BY <1>2, <1>7, <2>1 DEF Goto, Attempts
  <2>3. n \in Plan[r] /\ \A d \in Deps[n] : Latest(r, d) = "completed"
    BY <2>1 DEF ReadySteps
  <2>4. \A d \in Deps[n] : Done(r, d)
    BY <1>1, <1>4, <2>3, PlanAssumption DEF Done
  <2>5. \A d \in Deps[n] : Done(running[t], d)'
    BY <1>3, <2>4 DEF Done, Latest
  <2>6. QED
    BY <2>2, <2>5 DEF TaskSound
<1>8. CASE ~cancelled[t] /\ ~RequiredFailure(r) /\ BlockedSteps(r) = {} /\ ReadySteps(r) = {}
  <2>1. pc'[t] = "finish_composing" /\ \A n \in Plan[r] : Latest(r, n) \in Terminal
    BY <1>2, <1>8 DEF Reload, Goto
  <2>2. \A n \in Plan[r] : n \in Required => Latest(r, n) = "completed"
    BY <1>8, <2>1 DEF RequiredFailure, Terminal, Unsuccessful
  <2>3. AllDone(r)
    BY <1>4, <2>1, <2>2 DEF AllDone, Done, Closed
  <2>4. AllDone(running[t])'
    BY <1>3, <2>3 DEF AllDone, Done, Closed, Latest
  <2>5. QED
    BY <2>1, <2>4 DEF TaskSound
<1>9. QED
  BY <1>5, <1>6, <1>7, <1>8

(* Every step of the process leaves every task sound.                          *)
LEMMA TasksStaySound ==
  ASSUME QInv, IInv, EInv, [Next]_queueVars, NEW t \in Tasks
  PROVE  TaskSound(t)'
<1> USE DEF runtimeVars, taskVars
<1>1. [StoreNext]_storeVars
  BY QueueStoreStep
<1>2. /\ pc \in [Tasks -> Pcs] /\ running \in [Tasks -> RunIds \union {NoRun}]
      /\ todo \in [Tasks -> SUBSET (Nodes \X Nat)]
  BY DEF QInv, QueueType
<1>3. ASSUME UNCHANGED <<pc, running, todo>> PROVE TaskSound(t)'
  BY <1>1, <1>3, TaskKept
<1>4. ASSUME NEW r \in RunIds, Submission(r) PROVE TaskSound(t)'
  BY <1>3, <1>4 DEF Submission, Submit, RejectPlan, AcceptPlan, Wake, CancelRun
<1>5. CASE DispatcherWakes \/ DispatcherAcquires \/ DispatcherFindsNothing \/ DispatcherFails
  BY <1>3, <1>5 DEF DispatcherWakes, DispatcherAcquires, DispatcherFindsNothing, DispatcherFails
<1>6. ASSUME NEW r \in RunIds, NEW u \in Tasks, DispatcherClaims(r, u) PROVE TaskSound(t)'
  <2>1. /\ pc' = [pc EXCEPT ![u] = "open"] /\ running' = [running EXCEPT ![u] = r]
        /\ todo' = todo
    BY <1>6 DEF DispatcherClaims
  <2>2. CASE t = u
    <3>1. pc'[t] \notin Deciding
      BY <1>2, <2>1, <2>2 DEF Deciding
    <3>2. QED
      BY <1>1, <3>1, TaskKept
  <2>3. CASE t # u
    <3>1. pc'[t] = pc[t] /\ running'[t] = running[t] /\ todo'[t] \subseteq todo[t]
      BY <1>2, <2>1, <2>3
    <3>2. QED
      BY <1>1, <3>1, TaskKept
  <2>4. QED
    BY <2>2, <2>3
<1>7. ASSUME NEW u \in Tasks, HandlerStep(u) PROVE TaskSound(t)'
  <2>1. PICK next, work : Goto(u, next, work)
    BY <1>7 DEF HandlerStep, Open, Load, Retry, Reload, Block, CancelRest, Settle, Begin, Execute,
                FinishFailed, FinishComposing, Compose, CallRefused, CancelHandler, GotoNext
  <2>2. CASE t # u
    <3>1. pc'[t] = pc[t] /\ running'[t] = running[t] /\ todo'[t] \subseteq todo[t]
      BY <1>2, <2>1, <2>2 DEF Goto
    <3>2. QED
      BY <1>1, <3>1, TaskKept
  <2>3. CASE t = u /\ Load(u)
    BY <2>3, LoadSound
  <2>4. CASE t = u /\ Reload(u)
    BY <2>4, ReloadSound
  <2>5. CASE t = u /\ Retry(u)
    <3>1. PICK item \in todo[t] : GotoNext(t, item, "retry", "reload")
      BY <2>5 DEF Retry
    <3>2. /\ pc[t] = "retry" /\ running' = running
          /\ \/ pc'[t] = "retry" /\ todo'[t] \subseteq todo[t]
             \/ pc'[t] \in {"reload", "abandon_cancelled"}
      BY <1>2, <2>5, <3>1 DEF Retry, GotoNext, Goto
    <3>3. QED
      BY <1>1, <3>2, TaskKept DEF Deciding
  <2>6. CASE t = u /\ ~Load(u) /\ ~Reload(u) /\ ~Retry(u)
    <3>1. \E to \in Pcs \ Deciding : \E list : Goto(t, to, list)
      BY <1>7, <2>6
         DEF HandlerStep, Open, Block, CancelRest, Settle, Begin, Execute, FinishFailed,
             FinishComposing, Compose, CallRefused, CancelHandler, GotoNext, Pcs, HandlerPcs,
             AbandonPcs, Deciding
    <3>2. pc'[t] \notin Deciding
      BY <1>2, <3>1 DEF Goto, Deciding
    <3>3. QED
      BY <1>1, <3>2, TaskKept
  <2>7. QED
    BY <2>2, <2>3, <2>4, <2>5, <2>6
<1>8. ASSUME NEW u \in Tasks, Abandon(u) \/ AbandonCancelled(u) \/ HandlerRaises(u)
      PROVE  TaskSound(t)'
  <2>1. \E to \in {"idle", "abandon_failed"} : pc' = [pc EXCEPT ![u] = to]
    BY <1>8 DEF Abandon, AbandonCancelled, EndTask, HandlerRaises
  <2>2. \A v \in Tasks : v # u => running'[v] = running[v] /\ todo'[v] = todo[v]
    BY <1>2, <1>8 DEF Abandon, AbandonCancelled, EndTask, HandlerRaises
  <2>3. CASE t = u
    <3>1. pc'[t] \notin Deciding
      BY <1>2, <2>1, <2>3 DEF Deciding
    <3>2. QED
      BY <1>1, <3>1, TaskKept
  <2>4. CASE t # u
    <3>1. pc'[t] = pc[t] /\ running'[t] = running[t] /\ todo'[t] \subseteq todo[t]
      BY <1>2, <2>1, <2>2, <2>4
    <3>2. QED
      BY <1>1, <3>1, TaskKept
  <2>5. QED
    BY <2>3, <2>4
<1>9. ASSUME NEW u \in Tasks, HeartbeatRenews(u) \/ HeartbeatRefused(u) PROVE TaskSound(t)'
  BY <1>3, <1>9 DEF HeartbeatRenews, HeartbeatRefused
<1>10. CASE CloseBegins \/ CloseCancelsTasks \/ Start \/ TimePasses \/ UNCHANGED queueVars
  BY <1>3, <1>10 DEF CloseBegins, CloseCancelsTasks, Start, TimePasses, queueVars
<1>11. CASE CloseEnds \/ Crash
  <2>1. pc'[t] \notin Deciding
    BY <1>11 DEF CloseEnds, Crash, Gone, Deciding
  <2>2. QED
    BY <1>1, <2>1, TaskKept
<1>12. QED
  BY <1>4, <1>5, <1>6, <1>7, <1>8, <1>9, <1>10, <1>11 DEF Next, DispatcherStep, TaskStep

(* Every step of the process keeps the order of dependencies.                  *)
LEMMA OrderPreserved ==
  ASSUME QInv, IInv, EInv, [Next]_queueVars
  PROVE  OrderKept'
<1>1. StepsType /\ RowsStep
  BY QueueStoreStep, StoreRows DEF IInv
<1>2. \A r \in RunIds, n \in Nodes : Done(r, n) => Done(r, n)'
  BY <1>1, DoneStays
<1>3. ASSUME \A r \in RunIds, n \in Nodes : \A k \in 1..Len(steps[r][n]) :
               steps'[r][n][k] \in {"running", "completed"} =>
                 \/ steps[r][n][k] \in {"running", "completed"}
                 \/ \A d \in Deps[n] : Done(r, d)
      PROVE  OrderKept'
  <2>1. SUFFICES ASSUME NEW r \in RunIds, NEW n \in Nodes, NEW k \in 1..Len(steps'[r][n]),
                        steps'[r][n][k] \in {"running", "completed"}
                 PROVE  \A d \in Deps[n] : Done(r, d)'
    BY DEF OrderKept
  <2>2. RowStep(n, steps[r][n], steps'[r][n]) /\ Len(steps[r][n]) \in Nat
    BY <1>1, LenProperties DEF RowsStep, StepsType, Attempt
  <2>3. Len(steps'[r][n]) \in Nat
    BY <2>2, LenProperties DEF RowStep, Attempt
  <2>4. ~(k > Len(steps[r][n]))
    BY <2>1, <2>2 DEF RowStep, NewAttempts
  <2>5. k \in 1..Len(steps[r][n])
    BY <2>2, <2>3, <2>4
  <2>6. \A d \in Deps[n] : Done(r, d)
    BY <1>3, <2>1, <2>5 DEF EInv, OrderKept
  <2>7. Deps[n] \subseteq Nodes
    BY PlanAssumption
  <2>8. QED
    BY <1>2, <2>6, <2>7
<1>4. CASE \A t \in Tasks : ~Begin(t)
  <2>1. Enters(Ended)
    BY <1>4, StartedByEngine
  <2>2. ASSUME NEW r \in RunIds, NEW n \in Nodes, NEW k \in 1..Len(steps[r][n]),
               steps'[r][n][k] \in {"running", "completed"}
        PROVE  steps[r][n][k] \in {"running", "completed"}
    <3>1. steps'[r][n][k] = steps[r][n][k] \/ steps'[r][n][k] = "completed"
      BY <2>1, <2>2 DEF Enters, Ended, Terminal
    <3>2. steps'[r][n][k] = steps[r][n][k] \/ <<steps[r][n][k], steps'[r][n][k]>> \in StepEdges
      BY <1>1 DEF RowsStep, RowStep, AlongEdges
    <3>3. QED
      BY <2>2, <3>1, <3>2 DEF StepEdges
  <2>3. QED
    BY <1>3, <2>2
<1>5. ASSUME NEW t \in Tasks, Begin(t)
      PROVE  OrderKept'
  <2>1. PICK item \in todo[t] : StartStep(running[t], worker, item[1], item[2])
    BY <1>5 DEF Begin
  <2>2. running[t] \in RunIds /\ item[1] \in Nodes
    BY <1>5, HandlerWorker, TodoItem DEF Begin
  <2>3. \A d \in Deps[item[1]] : Done(running[t], d)
    BY <1>5 DEF Begin, EInv, TaskSound
  <2>4. ASSUME NEW r \in RunIds, NEW n \in Nodes, r # running[t] \/ n # item[1]
        PROVE  steps'[r][n] = steps[r][n]
    BY <1>1, <2>1, <2>2, <2>4 DEF StartStep, SetStep, StepsType
  <2>5. QED
    BY <1>3, <2>3, <2>4
<1>6. QED
  BY <1>4, <1>5

(* Only finish_delegate sends a Run to composition.                            *)
LEMMA ComposedByTask ==
  ASSUME QInv, IInv, [Next]_queueVars, \A t \in Tasks : ~FinishComposing(t)
  PROVE  \A r \in RunIds : state'[r] \in {"composing", "completed"} =>
                             state[r] \in {"composing", "completed"}
<1> USE DEF runtimeVars, taskVars
<1> DEFINE None == \A r \in RunIds : state'[r] \in {"composing", "completed"} =>
                                       state[r] \in {"composing", "completed"}
<1>1. state \in [RunIds -> RunStates]
  BY DEF IInv, RunRows, RunType
<1>2. ASSUME UNCHANGED state PROVE None
  BY <1>2
<1>3. ASSUME NEW r \in RunIds, Submission(r) PROVE None
  BY <1>1, <1>3 DEF Submission, Submit, RejectPlan, AcceptPlan, Wake, CancelRun, StartPlanning,
                    FailPlanning, MaterializeAndEnqueue, Cancel, Transition, storeVars
<1>4. CASE DispatcherStep \/ DispatcherFails
  BY <1>1, <1>4 DEF DispatcherStep, DispatcherWakes, DispatcherAcquires, DispatcherClaims,
                    DispatcherFindsNothing, DispatcherFails, ClaimNext, Transition, storeVars
<1>5. ASSUME NEW t \in Tasks, HandlerStep(t) PROVE None
  BY <1>1, <1>5
     DEF HandlerStep, Open, Load, Retry, Reload, Block, CancelRest, Settle, Begin, Execute,
         FinishFailed, Compose, CallRefused, CancelHandler, storeVars, RetryInterruptedStep,
         CancelStep, StartStep, FinishStep, FinishRun, CompleteOutput, FailComposition, Owns,
         Transition
<1>6. ASSUME NEW S, RecoverRuns(S) PROVE None
  BY <1>6 DEF RecoverRuns, Recovered
<1>7. ASSUME NEW t \in Tasks, Abandon(t) \/ AbandonCancelled(t) PROVE None
  BY <1>2, <1>6, <1>7 DEF Abandon, AbandonCancelled, AbandonClaim, storeVars
<1>8. ASSUME NEW t \in Tasks, HandlerRaises(t) \/ HeartbeatRenews(t) \/ HeartbeatRefused(t)
      PROVE  None
  BY <1>2, <1>8 DEF HandlerRaises, HeartbeatRenews, HeartbeatRefused, Heartbeat, storeVars
<1>9. CASE CloseBegins
  BY <1>1, <1>9 DEF CloseBegins, ClaimNext, Transition, storeVars
<1>10. CASE CloseCancelsTasks \/ CloseEnds \/ Crash \/ TimePasses \/ UNCHANGED queueVars
  BY <1>2, <1>10 DEF CloseCancelsTasks, CloseEnds, Crash, Gone, TimePasses, Tick, queueVars,
                     storeVars
<1>11. CASE Start
  BY <1>6, <1>11 DEF Start, RecoverExpired
<1>12. QED
  BY <1>3, <1>4, <1>5, <1>7, <1>8, <1>9, <1>10, <1>11 DEF Next, TaskStep

(* Every step of the process keeps the ends of composed plans.                 *)
LEMMA ComposedPreserved ==
  ASSUME QInv, IInv, EInv, [Next]_queueVars
  PROVE  ComposedDone'
<1>1. StepsType /\ RowsStep /\ state \in [RunIds -> RunStates]
  BY QueueStoreStep, StoreRows DEF IInv, RunRows, RunType
<1>2. \A r \in RunIds : AllDone(r) => AllDone(r)'
  BY <1>1, DoneStays
<1>3. CASE \A t \in Tasks : ~FinishComposing(t)
  BY <1>2, <1>3, ComposedByTask DEF EInv, ComposedDone
<1>4. ASSUME NEW t \in Tasks, FinishComposing(t)
      PROVE  ComposedDone'
  <2>1. /\ running[t] \in RunIds /\ AllDone(running[t])
        /\ state' = [state EXCEPT ![running[t]] = "composing"]
    BY <1>4, HandlerWorker DEF FinishComposing, FinishRun, Transition, EInv, TaskSound
  <2>2. ASSUME NEW r \in RunIds, state'[r] \in {"composing", "completed"}
        PROVE  AllDone(r)
    BY <1>1, <2>1, <2>2 DEF EInv, ComposedDone
  <2>3. QED
    BY <1>2, <2>2 DEF ComposedDone
<1>5. QED
  BY <1>3, <1>4

(* Before the first start there are no steps and no decisions.                 *)
LEMMA EngineInvariantInitially == Init => EInv
<1> SUFFICES ASSUME Init PROVE EInv
  OBVIOUS
<1>1. \A r \in RunIds, n \in Nodes : Len(steps[r][n]) = 0
  BY DEF Init, StoreInit, NoSteps
<1>2. \A r \in RunIds, n \in Nodes : \A k \in 1..Len(steps[r][n]) : FALSE
  BY <1>1
<1>3. OrderKept /\ NoneStranded
  BY <1>2 DEF OrderKept, NoneStranded
<1>4. PlannedSteps /\ ComposedDone /\ \A t \in Tasks : TaskSound(t)
  BY DEF Init, StoreInit, PlannedSteps, ComposedDone, TaskSound
<1>5. QED
  BY <1>3, <1>4 DEF EInv

(* What the engine decided on stays true until it acts, and what it did stays  *)
(* justified, whoever interrupts, cancels or recovers the Run in between.      *)
THEOREM EngineInvariant == Spec => [](QInv /\ IInv /\ EInv)
<1>1. Init => EInv
  BY EngineInvariantInitially
<1>2. QInv /\ IInv /\ EInv /\ [Next]_queueVars => EInv'
  <2> SUFFICES ASSUME QInv, IInv, EInv, [Next]_queueVars PROVE EInv'
    OBVIOUS
  <2>1. PlannedSteps' /\ NoneStranded'
    BY QueueStoreStep, PlannedStepsPreserved, NoneStrandedPreserved DEF EInv
  <2>2. OrderKept' /\ ComposedDone'
    BY OrderPreserved, ComposedPreserved
  <2>3. \A t \in Tasks : TaskSound(t)'
    BY TasksStaySound
  <2>4. QED
    BY <2>1, <2>2, <2>3 DEF EInv
<1>3. QED
  BY <1>1, <1>2, QueueInvariant, PTL DEF Spec

(* A step runs, and is completed, only after all it depends on completed.      *)
THEOREM DependenciesFirst == Spec => []DependencyOrder
<1>1. EInv => DependencyOrder
  BY DEF EInv, OrderKept, DependencyOrder, Done
<1>2. QED
  BY <1>1, EngineInvariant, PTL

(* An answer is composed only of a plan whose every node came to an end and    *)
(* whose required ones completed.                                              *)
THEOREM AnswersOfWholePlans == Spec => []ComposedMeansDone
<1>1. EInv => ComposedMeansDone
  BY DEF EInv, ComposedDone, ComposedMeansDone, AllDone, Closed, Done
<1>2. QED
  BY <1>1, EngineInvariant, PTL

(* The engine never sets out to repeat a step that may not be repeated.        *)
THEOREM RepeatsAllowed == Spec => []RetriesRepeatable
<1>1. EInv => RetriesRepeatable
  BY DEF EInv, TaskSound, RetriesRepeatable
<1>2. QED
  BY <1>1, EngineInvariant, PTL

-----------------------------------------------------------------------------
(* A live process executes what it owns, as long as no lease runs out under it *)

Mine(r) == state[r] \in Leased /\ owner[r] = worker

(* What a store call of anybody but the dispatcher may do to a claim.          *)
Unclaimed ==
  \A r \in RunIds : Mine(r)' => Mine(r) /\ (lease'[r] = lease[r] \/ lease'[r] = LeaseLen)

(* An owner is this process or one that is gone; no claim of this process has  *)
(* run out; a task is told to stop only when its claim is gone; and every      *)
(* claim has its task.                                                         *)
LInv ==
  /\ \A r \in RunIds : owner[r] # NoWorker => owner[r] = worker \/ owner[r] \in retired
  /\ phase = "down" => worker = NoWorker
  /\ phase = "up" => \A r \in RunIds : Mine(r) => lease[r] > 0
  /\ phase = "up" => \A t \in Tasks : Busy(t) /\ cancelled[t] => ~Mine(running[t])
  /\ \A t \in Tasks : cancelled[t] => Busy(t)
  /\ OwnedRunHasTask

(* Steps that claim nothing, tell no working task to stop, and end no task.    *)
LEMMA ClaimsKept ==
  ASSUME QInv, IInv, LInv, Unclaimed, UNCHANGED <<worker, retired, running, active>>,
         \A r \in RunIds : owner'[r] \in {owner[r], NoWorker},
         phase' = phase \/ phase' \in {"closing", "draining"},
         phase # "down" \/ phase' = "down",
         \A t \in Tasks : Busy(t)' <=> Busy(t),
         \A t \in Tasks : cancelled'[t] =>
           cancelled[t] \/ (Busy(t) /\ (phase' = "up" => ~Mine(running[t])'))
  PROVE  LInv'
<1>1. \A r \in RunIds : owner'[r] # NoWorker => owner'[r] = worker' \/ owner'[r] \in retired'
  BY DEF LInv
<1>2. phase' = "down" => worker' = NoWorker
  BY DEF LInv
<1>3. phase' = "up" => \A r \in RunIds : Mine(r)' => lease'[r] > 0
  BY LeaseAssumption DEF LInv, Unclaimed
<1>4. ASSUME NEW t \in Tasks PROVE cancelled'[t] => Busy(t)'
  BY DEF LInv
<1>5. ASSUME phase' = "up", NEW t \in Tasks, Busy(t)', cancelled'[t] PROVE ~Mine(running[t])'
  <2>1. CASE cancelled[t]
    <3>1. phase = "up" /\ Busy(t)
      BY <1>5
    <3>2. running[t] \in RunIds /\ running'[t] = running[t] /\ ~Mine(running[t])
      BY <2>1, <3>1 DEF LInv, QInv
    <3>3. PICK r \in RunIds : r = running[t]
      BY <3>2
    <3>4. ~Mine(r)'
      BY <3>2, <3>3 DEF Unclaimed
    <3>5. QED
      BY <3>2, <3>3, <3>4 DEF Mine
  <2>2. CASE ~cancelled[t]
    BY <1>5, <2>2
  <2>3. QED
    BY <2>1, <2>2
<1>6. OwnedRunHasTask'
  BY DEF LInv, OwnedRunHasTask, Unclaimed, Mine
<1>7. QED
  BY <1>1, <1>2, <1>3, <1>4, <1>5, <1>6 DEF LInv

(* The calls of a handler claim nothing.                                       *)
LEMMA HandlerClaimsNone ==
  ASSUME IInv, QInv, NEW t \in Tasks, HandlerStep(t)
  PROVE  Unclaimed /\ \A r \in RunIds : owner'[r] \in {owner[r], NoWorker}
<1>1. /\ state \in [RunIds -> RunStates] /\ owner \in [RunIds -> Workers \union {NoWorker}]
      /\ lease \in [RunIds -> 0..LeaseLen]
      /\ (pc[t] # "idle" => running[t] \in RunIds)
  BY HandlerWorker DEF IInv, RunRows, RunType
<1>2. worker' = worker
  BY HandlerMoves DEF runtimeVars
<1>3. CASE UNCHANGED <<state, owner, lease>>
  BY <1>2, <1>3 DEF Unclaimed, Mine
<1>4. CASE ~UNCHANGED <<state, owner, lease>>
  <2>1. FinishFailed(t) \/ FinishComposing(t) \/ Compose(t)
    BY <1>4 DEF HandlerStep, Open, Load, Retry, Reload, Block, CancelRest, Settle, Begin, Execute,
                CallRefused, CancelHandler, RetryInterruptedStep, CancelStep, StartStep,
                FinishStep, storeVars
  <2>2. PICK r \in RunIds, to \in {"failed", "composing", "completed"} :
          /\ state[r] \in Leased /\ state' = [state EXCEPT ![r] = to]
          /\ \/ UNCHANGED <<owner, lease>>
             \/ /\ owner' = [owner EXCEPT ![r] = NoWorker]
                /\ lease' = [lease EXCEPT ![r] = 0]
                /\ to # "composing"
    BY <1>1, <2>1 DEF FinishFailed, FinishComposing, Compose, FinishRun, CompleteOutput,
                      FailComposition, Transition, Release, Owns, Leased
  <2>3. QED
    BY <1>1, <1>2, <2>2 DEF Unclaimed, Mine, Leased
<1>5. QED
  BY <1>3, <1>4

(* The end of a task whose Run is given up.                                    *)
LEMMA EndKeepsClaims ==
  ASSUME QInv, IInv, LInv, NEW t \in Tasks, Busy(t), EndTask(t), Unclaimed,
         \A r \in RunIds : owner'[r] \in {owner[r], NoWorker},
         phase = "up" => \A r \in RunIds : r = running[t] => ~Mine(r)'
  PROVE  LInv'
<1>1. /\ active' = [active EXCEPT ![running[t]] = NoTask]
      /\ pc' = [pc EXCEPT ![t] = "idle"]
      /\ running' = [running EXCEPT ![t] = NoRun]
      /\ cancelled' = [cancelled EXCEPT ![t] = FALSE]
      /\ UNCHANGED <<phase, worker, retired>>
  BY DEF EndTask
<1>2. /\ running[t] \in RunIds /\ running \in [Tasks -> RunIds \union {NoRun}]
      /\ pc \in [Tasks -> Pcs] /\ cancelled \in [Tasks -> BOOLEAN]
      /\ active \in [RunIds -> Tasks \union {NoTask}]
  BY DEF QInv, QueueType
<1>3. \A u \in Tasks : (Busy(u)' <=> u # t /\ Busy(u)) /\ (cancelled'[u] <=> u # t /\ cancelled[u])
  BY <1>1, <1>2 DEF Busy
<1>4. \A r \in RunIds : owner'[r] # NoWorker => owner'[r] = worker' \/ owner'[r] \in retired'
  BY <1>1 DEF LInv
<1>5. /\ phase' = "down" => worker' = NoWorker
      /\ phase' = "up" => \A r \in RunIds : Mine(r)' => lease'[r] > 0
      /\ \A u \in Tasks : cancelled'[u] => Busy(u)'
  BY <1>1, <1>3, LeaseAssumption DEF LInv, Unclaimed
<1>6. ASSUME phase' = "up", NEW u \in Tasks, Busy(u)', cancelled'[u] PROVE ~Mine(running[u])'
  <2>1. u # t /\ Busy(u) /\ cancelled[u] /\ phase = "up" /\ running'[u] = running[u]
    BY <1>1, <1>2, <1>3, <1>6
  <2>2. running[u] \in RunIds /\ ~Mine(running[u])
    BY <2>1 DEF LInv, QInv
  <2>3. PICK r \in RunIds : r = running[u]
    BY <2>2
  <2>4. ~Mine(r)'
    BY <2>2, <2>3 DEF Unclaimed
  <2>5. QED
    BY <2>1, <2>3, <2>4 DEF Mine
<1>7. ASSUME phase' = "up", NEW r \in RunIds, Mine(r)' PROVE active'[r] # NoTask
  <2>1. r # running[t] /\ Mine(r)
    BY <1>1, <1>7 DEF Unclaimed
  <2>2. active[r] # NoTask
    BY <1>1, <1>7, <2>1 DEF LInv, OwnedRunHasTask, Mine
  <2>3. QED
    BY <1>1, <1>2, <2>1, <2>2
<1>8. OwnedRunHasTask'
  BY <1>7 DEF OwnedRunHasTask, Mine
<1>9. QED
  BY <1>4, <1>5, <1>6, <1>8 DEF LInv

(* Every step of the process, lapses aside, leaves a task to each claimed Run. *)
LEMMA ClaimsPreserved ==
  ASSUME "lapse" \notin FaultKinds, QInv, IInv, LInv, [Next]_queueVars
  PROVE  LInv'
<1> USE DEF runtimeVars, taskVars
<1>1. /\ state \in [RunIds -> RunStates] /\ owner \in [RunIds -> Workers \union {NoWorker}]
      /\ lease \in [RunIds -> 0..LeaseLen]
  BY DEF IInv, RunRows, RunType
<1>2. /\ pc \in [Tasks -> Pcs] /\ running \in [Tasks -> RunIds \union {NoRun}]
      /\ cancelled \in [Tasks -> BOOLEAN] /\ active \in [RunIds -> Tasks \union {NoTask}]
  BY DEF QInv, QueueType
<1>3. ASSUME UNCHANGED <<state, owner, lease, worker, retired, running, active, pc, cancelled>>,
             phase' = phase \/ phase' \in {"closing", "draining"},
             phase # "down" \/ phase' = "down"
      PROVE  LInv'
  <2>1. Unclaimed /\ \A t \in Tasks : Busy(t)' <=> Busy(t)
    BY <1>3 DEF Unclaimed, Mine, Busy
  <2>2. QED
    BY <1>3, <2>1, ClaimsKept
<1>4. ASSUME NEW r \in RunIds, Submission(r) PROVE LInv'
  <2>1. /\ UNCHANGED <<phase, worker, retired, running, active, pc>>
        /\ \A t \in Tasks : Busy(t)' <=> Busy(t)
    BY <1>4 DEF Submission, Submit, RejectPlan, AcceptPlan, Wake, CancelRun, Busy
  <2>2. Unclaimed /\ \A q \in RunIds : owner'[q] \in {owner[q], NoWorker}
    <3>1. CASE Wake(r)
      BY <2>1, <3>1 DEF Wake, storeVars, Unclaimed, Mine
    <3>2. CASE Submit(r)
      BY <1>1, <2>1, <3>2 DEF Submit, StartPlanning, Transition, Unclaimed, Mine, Leased
    <3>3. CASE RejectPlan(r) \/ AcceptPlan(r) \/ CancelRun(r)
      <4>1. PICK to \in {"failed", "queued", "cancelled"} :
              /\ state' = [state EXCEPT ![r] = to]
              /\ owner' = [owner EXCEPT ![r] = NoWorker]
              /\ lease' = [lease EXCEPT ![r] = 0]
        BY <3>3 DEF RejectPlan, AcceptPlan, CancelRun, FailPlanning, MaterializeAndEnqueue, Cancel,
                    Transition, Release
      <4>2. QED
        BY <1>1, <2>1, <4>1 DEF Unclaimed, Mine, Leased
    <3>4. QED
      BY <1>4, <3>1, <3>2, <3>3 DEF Submission
  <2>3. ASSUME NEW t \in Tasks, cancelled'[t], ~cancelled[t]
        PROVE  Busy(t) /\ ~Mine(running[t])'
    <3>1. CancelRun(r) /\ active[r] = t
      BY <1>4, <2>3 DEF Submission, Submit, RejectPlan, AcceptPlan, Wake, CancelRun
    <3>2. Busy(t) /\ running[t] = r
      BY <3>1 DEF QInv, TasksRegistered
    <3>3. state'[r] = "cancelled" /\ running'[t] = r
      BY <1>1, <2>1, <3>1, <3>2 DEF CancelRun, Cancel, Transition
    <3>4. QED
      BY <3>2, <3>3 DEF Mine, Leased
  <2>4. QED
    BY <2>1, <2>2, <2>3, ClaimsKept
<1>5. CASE DispatcherWakes \/ DispatcherAcquires \/ DispatcherFindsNothing \/ DispatcherFails
  BY <1>3, <1>5 DEF DispatcherWakes, DispatcherAcquires, DispatcherFindsNothing,
                    DispatcherFails, storeVars
<1>6. ASSUME NEW r \in RunIds, NEW t \in Tasks, DispatcherClaims(r, t) PROVE LInv'
  <2>1. /\ active' = [active EXCEPT ![r] = t] /\ pc' = [pc EXCEPT ![t] = "open"]
        /\ running' = [running EXCEPT ![t] = r]
        /\ state' = [state EXCEPT ![r] = "running"] /\ owner' = [owner EXCEPT ![r] = worker]
        /\ lease' = [lease EXCEPT ![r] = LeaseLen]
        /\ UNCHANGED <<phase, worker, retired, cancelled>>
        /\ pc[t] = "idle" /\ state[r] = "queued"
    BY <1>6 DEF DispatcherClaims, ClaimNext, Transition
  <2>2. ~Busy(t) /\ ~cancelled[t] /\ \A u \in Tasks : Busy(u)' <=> u = t \/ Busy(u)
    BY <1>2, <2>1 DEF Busy, LInv
  <2>3. \A u \in Tasks : Busy(u) => running[u] \in RunIds \ {r}
    BY <2>1 DEF QInv, Held, Leased, Terminal
  <2>4. \A q \in RunIds : q # r => /\ state'[q] = state[q] /\ owner'[q] = owner[q]
                                   /\ lease'[q] = lease[q] /\ active'[q] = active[q]
    BY <1>1, <1>2, <2>1
  <2>5. owner'[r] = worker /\ lease'[r] = LeaseLen /\ LeaseLen > 0 /\ active'[r] = t /\ t # NoTask
    BY <1>1, <1>2, <2>1, LeaseAssumption, TaskAssumption
  <2>6. /\ \A q \in RunIds : owner'[q] # NoWorker => owner'[q] = worker' \/ owner'[q] \in retired'
        /\ phase' = "down" => worker' = NoWorker
        /\ phase' = "up" => \A q \in RunIds : Mine(q)' => lease'[q] > 0
    BY <2>1, <2>4, <2>5 DEF LInv, Mine
  <2>7. ASSUME phase' = "up", NEW u \in Tasks, Busy(u)', cancelled'[u] PROVE ~Mine(running[u])'
    <3>1. u # t /\ Busy(u) /\ cancelled[u] /\ running'[u] = running[u]
      BY <1>2, <2>1, <2>2, <2>7
    <3>2. ~Mine(running[u]) /\ running[u] \in RunIds \ {r}
      BY <2>1, <2>3, <2>7, <3>1 DEF LInv
    <3>3. QED
      BY <2>1, <2>4, <3>1, <3>2 DEF Mine
  <2>8. OwnedRunHasTask'
    BY <2>1, <2>4, <2>5 DEF LInv, OwnedRunHasTask
  <2>9. \A u \in Tasks : cancelled'[u] => Busy(u)'
    BY <2>1, <2>2 DEF LInv
  <2>10. QED
    BY <2>6, <2>7, <2>8, <2>9 DEF LInv
<1>7. ASSUME NEW t \in Tasks, HandlerStep(t) PROVE LInv'
  <2>1. PICK next \in Pcs \ {"idle"} :
          pc' = [pc EXCEPT ![t] = IF cancelled[t] THEN "abandon_cancelled" ELSE next]
    BY <1>7, HandlerMoves
  <2>2. /\ pc[t] \in HandlerPcs /\ cancelled' = [cancelled EXCEPT ![t] = FALSE]
        /\ UNCHANGED <<running, phase, worker, retired, active>>
    BY <1>7, HandlerMoves
  <2>3. \A u \in Tasks : (Busy(u)' <=> Busy(u)) /\ (cancelled'[u] => cancelled[u])
    BY <1>2, <2>1, <2>2 DEF Busy, HandlerPcs
  <2>4. QED
    BY <1>7, <2>2, <2>3, HandlerClaimsNone, ClaimsKept
<1>8. ASSUME NEW S, RecoverRuns(S), UNCHANGED worker
      PROVE  /\ Unclaimed /\ \A r \in RunIds : owner'[r] \in {owner[r], NoWorker}
             /\ \A r \in RunIds : r \in S => ~Mine(r)'
  BY <1>8 DEF RecoverRuns, Recovered, Unclaimed, Mine, Leased
<1>9. ASSUME NEW t \in Tasks, Abandon(t) PROVE LInv'
  <2>1. Busy(t) /\ EndTask(t) /\ worker' = worker /\ AbandonClaim(running[t], worker)
    BY <1>9 DEF Abandon, AbandonPcs, Busy, EndTask
  <2>2. CASE Mine(running[t])
    <3>1. RecoverRuns({running[t]})
      BY <2>1, <2>2 DEF AbandonClaim, Mine
    <3>2. QED
      BY <1>8, <2>1, <3>1, EndKeepsClaims
  <2>3. CASE ~Mine(running[t])
    <3>1. UNCHANGED <<state, owner, lease>>
      BY <2>1, <2>3 DEF AbandonClaim, Mine, storeVars
    <3>2. /\ Unclaimed /\ \A r \in RunIds : owner'[r] \in {owner[r], NoWorker}
          /\ \A r \in RunIds : r = running[t] => ~Mine(r)'
      BY <2>1, <2>3, <3>1 DEF Unclaimed, Mine
    <3>3. QED
      BY <2>1, <3>2, EndKeepsClaims
  <2>4. QED
    BY <2>2, <2>3
<1>10. ASSUME NEW t \in Tasks, AbandonCancelled(t) PROVE LInv'
  <2>1. /\ Busy(t) /\ cancelled[t] /\ EndTask(t) /\ worker' = worker
        /\ UNCHANGED <<state, owner, lease>>
    BY <1>10 DEF AbandonCancelled, AbandonPcs, Busy, EndTask, storeVars
  <2>2. phase = "up" => ~Mine(running[t])
    BY <2>1 DEF LInv
  <2>3. /\ Unclaimed /\ \A r \in RunIds : owner'[r] \in {owner[r], NoWorker}
        /\ phase = "up" => \A r \in RunIds : r = running[t] => ~Mine(r)'
    BY <2>1, <2>2 DEF Unclaimed, Mine
  <2>4. QED
    BY <2>1, <2>3, EndKeepsClaims
<1>11. ASSUME NEW t \in Tasks, HandlerRaises(t) PROVE LInv'
  <2>1. /\ pc[t] # "idle" /\ pc' = [pc EXCEPT ![t] = "abandon_failed"]
        /\ UNCHANGED <<state, owner, lease, worker, retired, running, active, cancelled, phase>>
    BY <1>11 DEF HandlerRaises, HandlerPcs, storeVars
  <2>2. Unclaimed /\ \A u \in Tasks : Busy(u)' <=> Busy(u)
    BY <1>2, <2>1 DEF Unclaimed, Mine, Busy
  <2>3. QED
    BY <2>1, <2>2, ClaimsKept
<1>12. ASSUME NEW t \in Tasks, HeartbeatRenews(t) PROVE LInv'
  <2>1. UNCHANGED <<state, owner, worker, retired, running, active, pc, cancelled, phase>>
    BY <1>12 DEF HeartbeatRenews, Heartbeat
  <2>2. lease' = [lease EXCEPT ![running[t]] = LeaseLen]
    BY <1>12 DEF HeartbeatRenews, Heartbeat
  <2>3. Unclaimed /\ \A u \in Tasks : Busy(u)' <=> Busy(u)
    BY <1>1, <2>1, <2>2 DEF Unclaimed, Mine, Busy
  <2>4. QED
    BY <2>1, <2>3, ClaimsKept
<1>13. ASSUME NEW t \in Tasks, HeartbeatRefused(t) PROVE LInv'
  <2>1. /\ UNCHANGED <<state, owner, lease, worker, retired, running, active, pc, phase>>
        /\ cancelled' = [cancelled EXCEPT ![t] = TRUE]
        /\ beating[t] /\ ~CanRenew(running[t], worker)
    BY <1>13 DEF HeartbeatRefused, storeVars
  <2>2. Unclaimed /\ \A u \in Tasks : Busy(u)' <=> Busy(u)
    BY <2>1 DEF Unclaimed, Mine, Busy
  <2>3. Busy(t) /\ running[t] \in RunIds
    BY <2>1 DEF QInv
  <2>4. phase = "up" => ~Mine(running[t])
    BY <1>1, <2>1, <2>3 DEF LInv, Mine, CanRenew
  <2>5. phase' = "up" => ~Mine(running[t])'
    BY <2>1, <2>4 DEF Mine
  <2>6. \A u \in Tasks : cancelled'[u] => cancelled[u] \/ u = t
    BY <1>2, <2>1
  <2>7. QED
    BY <2>1, <2>2, <2>3, <2>5, <2>6, ClaimsKept
<1>14. CASE CloseBegins
  <2>1. /\ UNCHANGED <<worker, retired, running, active, pc, cancelled>> /\ phase' = "closing"
        /\ \A r \in RunIds : owner'[r] \in {owner[r], worker}
    BY <1>1, <1>14 DEF CloseBegins, ClaimNext, storeVars
  <2>2. QED
    BY <2>1 DEF LInv, OwnedRunHasTask, Busy
<1>15. CASE CloseCancelsTasks
  <2>1. /\ UNCHANGED <<state, owner, lease, worker, retired, running, active, pc>>
        /\ phase = "closing" /\ phase' = "draining"
        /\ \A t \in Tasks : cancelled'[t] => cancelled[t] \/ \E r \in RunIds : active[r] = t
    BY <1>15 DEF CloseCancelsTasks, storeVars
  <2>2. \A t \in Tasks, r \in RunIds : active[r] = t => Busy(t)
    BY DEF QInv, TasksRegistered
  <2>3. QED
    BY <2>1, <2>2 DEF LInv, OwnedRunHasTask, Busy
<1>16. CASE CloseEnds \/ Crash
  <2>1. /\ phase' = "down" /\ worker' = NoWorker /\ retired' = retired \union {worker}
        /\ UNCHANGED owner /\ \A t \in Tasks : ~cancelled'[t]
    BY <1>16 DEF CloseEnds, Crash, Gone, storeVars
  <2>2. QED
    BY <2>1 DEF LInv, OwnedRunHasTask
<1>17. CASE Start
  <2>1. /\ phase = "down" /\ worker' \in Workers \ retired
        /\ UNCHANGED <<retired, running, active, pc, cancelled>>
        /\ phase' = "up" /\ RecoverRuns(Expired)
    BY <1>17 DEF Start, RecoverExpired
  <2>2. \A r \in RunIds : owner'[r] \in {owner[r], NoWorker}
    BY <2>1 DEF RecoverRuns
  <2>3. \A r \in RunIds : owner'[r] = NoWorker \/ owner'[r] \in retired
    BY <2>1, <2>2 DEF LInv
  <2>4. \A r \in RunIds : ~Mine(r)'
    BY <2>1, <2>3, WorkerAssumption DEF Mine
  <2>5. \A t \in Tasks : ~Busy(t)
    BY <2>1 DEF QInv
  <2>6. \A t \in Tasks : ~Busy(t)' /\ ~cancelled'[t]
    BY <2>1, <2>5 DEF Busy, LInv
  <2>7. OwnedRunHasTask'
    BY <2>4 DEF OwnedRunHasTask, Mine
  <2>8. QED
    BY <2>1, <2>3, <2>4, <2>6, <2>7 DEF LInv
<1>18. CASE TimePasses
  <2>1. /\ UNCHANGED <<state, owner, worker, retired, running, active, pc, cancelled, phase>>
        /\ lease' = [r \in RunIds |-> IF lease[r] > 0 THEN lease[r] - 1 ELSE 0]
        /\ ~\E r \in RunIds : lease[r] = 1 /\ owner[r] = worker
    BY <1>18 DEF TimePasses, Tick, Fault
  <2>2. \A r \in RunIds : Mine(r)' <=> Mine(r)
    BY <2>1 DEF Mine
  <2>3. phase = "up" => \A r \in RunIds : Mine(r) => lease'[r] > 0
    BY <1>1, <2>1 DEF LInv, Mine
  <2>4. \A t \in Tasks : Busy(t)' <=> Busy(t)
    BY <2>1 DEF Busy
  <2>5. \A t \in Tasks : Mine(running[t])' <=> Mine(running[t])
    BY <2>1 DEF Mine
  <2>6. OwnedRunHasTask'
    BY <2>1 DEF LInv, OwnedRunHasTask
  <2>7. QED
    BY <2>1, <2>2, <2>3, <2>4, <2>5, <2>6 DEF LInv
<1>19. CASE UNCHANGED queueVars
  BY <1>3, <1>19 DEF queueVars, storeVars
<1>20. QED
  BY <1>4, <1>5, <1>6, <1>7, <1>9, <1>10, <1>11, <1>12, <1>13, <1>14, <1>15, <1>16, <1>17, <1>18,
     <1>19 DEF Next, DispatcherStep, TaskStep

(* As long as no lease runs out under a live process, every Run that it owns   *)
(* has its task: errors, cancellations, crashes and restarts leave none        *)
(* claimed and idle.  A lapsed lease may.                                      *)
THEOREM OwnedRunsExecuted ==
  ASSUME "lapse" \notin FaultKinds
  PROVE  Spec => []OwnedRunHasTask
<1>1. Init => LInv
  BY DEF Init, StoreInit, LInv, OwnedRunHasTask
<1>2. QInv /\ IInv /\ LInv /\ [Next]_queueVars => LInv'
  BY ClaimsPreserved
<1>3. LInv => OwnedRunHasTask
  BY DEF LInv
<1>4. QED
  BY <1>1, <1>2, <1>3, QueueInvariant, PTL DEF Spec

-----------------------------------------------------------------------------
(* What the engine took from a snapshot, against the rows at each later call   *)

(* What the rows of a Run say of the queue: only a Run with a plan is queued   *)
(* or claimed, none of its steps runs while it waits, and an output is the end. *)
QueuedRows ==
  \A r \in RunIds :
    /\ state[r] \in {"queued"} \union Leased => r \in planned
    /\ state[r] = "queued" => \A n \in Plan[r] : Latest(r, n) # "running"
    /\ output[r] => state[r] = "completed"

(* An item of a work list is the latest attempt of its node, in state s.       *)
Current(r, item, s) ==
  /\ item[1] \in Plan[r]
  /\ item[2] = Len(steps[r][item[1]])
  /\ Latest(r, item[1]) = s

(* The state in which a call expects its attempts. *)
Expects(at) ==
  CASE at = "retry" -> "interrupted"
    [] at \in {"block", "start", "cancel_rest"} -> "queued"
    [] at = "execute" -> "running"

Listing == {"retry", "block", "start", "cancel_rest", "execute"}

(* The work list matches the rows, and nothing else is under way: a step runs  *)
(* only while it is executed, and is interrupted only until it is retried.     *)
WorkMatches(r, at, work) ==
  /\ at \in Listing => \A item \in work : Current(r, item, Expects(at))
  /\ at = "execute" => \A a, b \in work : a = b
  /\ \A n \in Plan[r] :
       /\ Latest(r, n) = "running" => at = "execute" /\ \E item \in work : item[1] = n
       /\ Latest(r, n) = "interrupted" =>
            at \in {"open", "load"} \/ (at = "retry" /\ \E item \in work : item[1] = n)

Working(t) == pc[t] \in HandlerPcs /\ state[running[t]] = "running"

WorkSound(t) == Working(t) => WorkMatches(running[t], pc[t], todo[t])

WInv == QueuedRows /\ \A t \in Tasks : WorkSound(t)

(* Nothing happens to a Run that a task executes. *)
Undisturbed(r) == state'[r] = "running" => state[r] = "running" /\ steps'[r] = steps[r]

(* A task whose Run is left alone keeps its work. *)
LEMMA WorkKept ==
  ASSUME NEW t \in Tasks, WorkSound(t), Undisturbed(running[t]),
         pc'[t] = pc[t], running'[t] = running[t], todo'[t] = todo[t]
  PROVE  WorkSound(t)'
<1>1. SUFFICES ASSUME Working(t)' PROVE WorkMatches(running[t], pc[t], todo[t])'
  BY DEF WorkSound
<1>2. PICK r : r = running[t]
  OBVIOUS
<1>3. state[r] = "running" /\ steps'[r] = steps[r] /\ pc[t] \in HandlerPcs /\ running'[t] = r
  BY <1>1, <1>2 DEF Working, Undisturbed
<1>4. PICK at, work : at = pc[t] /\ work = todo[t]
  OBVIOUS
<1>5. WorkMatches(r, at, work)
  BY <1>2, <1>3, <1>4 DEF WorkSound, Working
<1>6. WorkMatches(r, at, work)'
  BY <1>3, <1>5 DEF WorkMatches, Current, Latest
<1>7. at = pc'[t] /\ work = todo'[t]
  BY <1>4
<1>8. QED
  BY <1>3, <1>6, <1>7 DEF WorkMatches, Current, Latest

(* A task that is on its way out, or idle, has no work. *)
LEMMA NoWork ==
  ASSUME NEW t \in Tasks, pc'[t] \notin HandlerPcs \/ state'[running'[t]] # "running"
  PROVE  WorkSound(t)'
BY DEF WorkSound, Working

(* Every step of a handler concerns the Run of its own task. *)
LEMMA HandlerRow ==
  ASSUME QInv, IInv, NEW t \in Tasks, HandlerStep(t)
  PROVE  /\ \A q \in RunIds : q # running[t] =>
              state'[q] = state[q] /\ steps'[q] = steps[q] /\ output'[q] = output[q]
         /\ planned' = planned
         /\ state'[running[t]] # "queued"
         /\ state'[running[t]] = "running" => state[running[t]] = "running"
         /\ state'[running[t]] \in Leased => state[running[t]] \in Leased
         /\ \/ state'[running[t]] = state[running[t]] /\ output'[running[t]] = output[running[t]]
            \/ output'[running[t]] = output[running[t]] /\ state[running[t]] # "completed"
            \/ state'[running[t]] = "completed"
<1>1. pc[t] \in HandlerPcs
  BY HandlerMoves
<1>2. PICK r \in RunIds : r = running[t]
  BY <1>1, HandlerWorker DEF HandlerPcs
<1>3. Held(r)
  BY <1>1, <1>2 DEF QInv, Busy, HandlerPcs
<1>4. RunType /\ StepsType /\ output \in [RunIds -> BOOLEAN]
  BY DEF IInv, RunRows, RunType
<1>5. CASE \/ Open(t) \/ Load(t) \/ Reload(t) \/ Settle(t) \/ CallRefused(t) \/ CancelHandler(t)
  BY <1>2, <1>3, <1>5
     DEF Open, Load, Reload, Settle, CallRefused, CancelHandler, storeVars, Held, Leased, Terminal
<1>6. CASE Retry(t) \/ Block(t) \/ CancelRest(t) \/ Begin(t) \/ Execute(t)
  BY <1>2, <1>3, <1>4, <1>6
     DEF Retry, Block, CancelRest, Begin, Execute, RetryInterruptedStep, CancelStep, StartStep,
         FinishStep, SetStep, Owns, StepsType, Held, Leased, Terminal
<1>7. CASE FinishFailed(t) \/ FinishComposing(t)
  BY <1>2, <1>3, <1>4, <1>7
     DEF FinishFailed, FinishComposing, FinishRun, Owns, Transition, RunType, Leased
<1>8. CASE Compose(t)
  BY <1>2, <1>3, <1>4, <1>8
     DEF Compose, CompleteOutput, FailComposition, Owns, Transition, RunType, Leased
<1>9. QED
  BY <1>5, <1>6, <1>7, <1>8 DEF HandlerStep

(* Recovery leaves no step of a requeued Run running. *)
LEMMA RecoveredNotRunning ==
  ASSUME StepsType, NEW r \in RunIds, NEW n \in Nodes, Len(steps[r][n]) > 0,
         Recovered(r) = "queued"
  PROVE  RecoveredSteps(r)[n][Len(RecoveredSteps(r)[n])] # "running"
<1>1. "interrupted" \in StepStates /\ steps[r] \in [Nodes -> Attempt] /\ steps[r][n] \in Attempt
  BY DEF StepStates, StepsType
<1>2. RecoveredSteps(r)[n] = Update(steps[r][n], {"running"}, "interrupted")
  BY <1>1, RewrittenProperties DEF RecoveredSteps, Recovered
<1>3. Len(steps[r][n]) \in 1..Len(steps[r][n])
  BY <1>1, LenProperties DEF Attempt
<1>4. QED
  BY <1>1, <1>2, <1>3, UpdateProperties
(* A step that leaves the rows of a Run alone, or sends it out of the queue.  *)
RowKept(r) ==
  /\ r \in planned => r \in planned'
  /\ output'[r] => output[r] \/ state'[r] = "completed"
  /\ state[r] = "completed" => state'[r] = "completed"
  /\ state'[r] \in Leased => state[r] \in {"queued"} \union Leased
  /\ state'[r] = "queued" => state[r] = "queued" /\ steps'[r] = steps[r]

(* A step that puts a Run in the queue, with nothing under way. *)
RowQueued(r) ==
  /\ r \in planned' /\ state[r] # "completed" /\ output'[r] = output[r]
  /\ state'[r] = "queued"
  /\ \A n \in Plan[r] : Latest(r, n)' # "running"

LEMMA QueuedRowsKept ==
  ASSUME QueuedRows, \A r \in RunIds : RowKept(r) \/ RowQueued(r)
  PROVE  QueuedRows'
<1>1. SUFFICES ASSUME NEW r \in RunIds
               PROVE  /\ state'[r] \in {"queued"} \union Leased => r \in planned'
                      /\ state'[r] = "queued" => \A n \in Plan[r] : Latest(r, n)' # "running"
                      /\ output'[r] => state'[r] = "completed"
  BY DEF QueuedRows
<1>2. CASE RowKept(r)
  BY <1>2 DEF RowKept, QueuedRows, Latest
<1>3. CASE RowQueued(r)
  BY <1>3 DEF RowQueued, QueuedRows
<1>4. QED
  BY <1>2, <1>3

(* Recovery: what it requeues has nothing under way, the rest ends. *)
LEMMA RecoveryRows ==
  ASSUME IInv, PlannedSteps, QueuedRows, NEW S \in SUBSET RunIds,
         \A r \in S : state[r] \in Leased, RecoverRuns(S)
  PROVE  \A r \in RunIds : RowKept(r) \/ RowQueued(r)
<1>1. SUFFICES ASSUME NEW r \in RunIds PROVE RowKept(r) \/ RowQueued(r)
  OBVIOUS
<1>2. /\ state'[r] = IF r \in S THEN Recovered(r) ELSE state[r]
      /\ steps'[r] = IF r \in S THEN RecoveredSteps(r) ELSE steps[r]
      /\ planned' = planned /\ output' = output
  BY DEF RecoverRuns
<1>3. CASE r \notin S
  BY <1>2, <1>3 DEF RowKept
<1>4. CASE r \in S /\ Recovered(r) # "queued"
  BY <1>2, <1>4 DEF RowKept, Recovered, Leased
<1>5. CASE r \in S /\ Recovered(r) = "queued"
  <2>1. r \in planned /\ state[r] # "completed"
    BY <1>5 DEF QueuedRows, Leased
  <2>2. ASSUME NEW n \in Plan[r] PROVE Latest(r, n)' # "running"
    <3>1. n \in Nodes /\ Len(steps[r][n]) > 0
      BY <2>1, PlanAssumption DEF PlannedSteps
    <3>2. RecoveredSteps(r)[n][Len(RecoveredSteps(r)[n])] # "running"
      BY <1>5, <3>1, RecoveredNotRunning DEF IInv
    <3>3. QED
      BY <1>2, <1>5, <3>2 DEF Latest
  <2>3. QED
    BY <1>2, <1>5, <2>1, <2>2 DEF RowQueued
<1>6. QED
  BY <1>3, <1>4, <1>5

(* Every step of the process keeps the queue in order. *)
LEMMA QueuedRowsPreserved ==
  ASSUME QInv, IInv, EInv, QueuedRows, [Next]_queueVars
  PROVE  QueuedRows'
<1> USE DEF runtimeVars, taskVars
<1>1. RunType /\ StepsType /\ PlannedSteps
  BY DEF IInv, RunRows, EInv
<1>2. ASSUME UNCHANGED <<state, planned, steps, output>> PROVE QueuedRows'
  BY <1>2, QueuedRowsKept DEF RowKept
<1>3. ASSUME NEW r \in RunIds, NEW w, ClaimNext(r, w) PROVE QueuedRows'
  <2>1. \A q \in RunIds : RowKept(q)
    BY <1>1, <1>3 DEF ClaimNext, Transition, RunType, RowKept
  <2>2. QED
    BY <2>1, QueuedRowsKept
<1>4. ASSUME NEW S \in SUBSET RunIds, \A r \in S : state[r] \in Leased, RecoverRuns(S)
      PROVE  QueuedRows'
  BY <1>1, <1>4, RecoveryRows, QueuedRowsKept
<1>5. ASSUME NEW r \in RunIds, Submission(r) PROVE QueuedRows'
  <2>1. CASE Wake(r)
    BY <1>2, <2>1 DEF Wake, storeVars
  <2>2. CASE Submit(r) \/ RejectPlan(r) \/ CancelRun(r)
    <3>1. \A q \in RunIds : RowKept(q)
      BY <1>1, <2>2
         DEF Submit, RejectPlan, CancelRun, StartPlanning, FailPlanning, Cancel, Transition,
             RunType, StepsType, RowKept, Leased
    <3>2. QED
      BY <3>1, QueuedRowsKept
  <2>3. CASE AcceptPlan(r)
    <3>1. \A q \in RunIds : q # r => RowKept(q)
      BY <1>1, <2>3 DEF AcceptPlan, MaterializeAndEnqueue, Transition, RunType, StepsType, RowKept
    <3>2. /\ r \in planned' /\ state[r] = "planning" /\ state'[r] = "queued" /\ output' = output
          /\ steps'[r] = [n \in Nodes |-> IF n \in Plan[r] THEN <<"queued">> ELSE <<>>]
      BY <1>1, <2>3 DEF AcceptPlan, MaterializeAndEnqueue, Transition, RunType, StepsType
    <3>3. \A n \in Plan[r] : steps'[r][n] = <<"queued">>
      BY <3>2, PlanAssumption
    <3>4. \A n \in Plan[r] : Latest(r, n)' = "queued"
      BY <3>3 DEF Latest
    <3>5. RowQueued(r)
      BY <3>2, <3>4 DEF RowQueued
    <3>6. QED
      BY <3>1, <3>5, QueuedRowsKept
  <2>4. QED
    BY <1>5, <2>1, <2>2, <2>3 DEF Submission
<1>6. CASE DispatcherStep \/ DispatcherFails
  BY <1>2, <1>3, <1>6
     DEF DispatcherStep, DispatcherWakes, DispatcherAcquires, DispatcherClaims,
         DispatcherFindsNothing, DispatcherFails, storeVars
<1>7. ASSUME NEW t \in Tasks, TaskStep(t) PROVE QueuedRows'
  <2>1. CASE HandlerStep(t)
    <3>1. PICK r : r = running[t]
      OBVIOUS
    <3>2. \A q \in RunIds : q = r \/ q # r
      OBVIOUS
    <3>3. \A q \in RunIds : q # r => RowKept(q)
      BY <2>1, <3>1, HandlerRow DEF RowKept
    <3>4. RowKept(r)
      BY <2>1, <3>1, HandlerRow DEF RowKept
    <3>5. QED
      BY <3>2, <3>3, <3>4, QueuedRowsKept
  <2>2. CASE Abandon(t)
    <3>1. running[t] \in RunIds
      BY <2>2, HandlerWorker DEF Abandon, AbandonPcs
    <3>2. UNCHANGED storeVars \/ (state[running[t]] \in Leased /\ RecoverRuns({running[t]}))
      BY <2>2 DEF Abandon, AbandonClaim
    <3>3. QED
      BY <1>2, <1>4, <3>1, <3>2 DEF storeVars
  <2>3. CASE AbandonCancelled(t)
    BY <1>2, <2>3 DEF AbandonCancelled, storeVars
  <2>4. QED
    BY <1>7, <2>1, <2>2, <2>3 DEF TaskStep
<1>8. ASSUME NEW t \in Tasks, HandlerRaises(t) \/ HeartbeatRenews(t) \/ HeartbeatRefused(t)
      PROVE  QueuedRows'
  BY <1>2, <1>8 DEF HandlerRaises, HeartbeatRenews, HeartbeatRefused, Heartbeat, storeVars
<1>9. CASE CloseBegins
  BY <1>2, <1>3, <1>9 DEF CloseBegins, storeVars
<1>10. CASE CloseCancelsTasks \/ CloseEnds \/ Crash \/ TimePasses \/ UNCHANGED queueVars
  BY <1>2, <1>10 DEF CloseCancelsTasks, CloseEnds, Crash, Gone, TimePasses, Tick, queueVars,
                     storeVars
<1>11. CASE Start
  BY <1>4, <1>11 DEF Start, RecoverExpired, Expired
<1>12. QED
  BY <1>5, <1>6, <1>7, <1>8, <1>9, <1>10, <1>11 DEF Next

(* The latest attempts after an UPDATE of the latest attempt of a node. *)
LEMMA LatestSet ==
  ASSUME StepsType, NEW r \in RunIds, NEW n \in Nodes, NEW k, NEW new,
         k = Len(steps[r][n]), k \in 1..Len(steps[r][n]), SetStep(r, n, k, new)
  PROVE  \A m \in Nodes : /\ Len(steps'[r][m]) = Len(steps[r][m])
                          /\ Latest(r, m)' = IF m = n THEN new ELSE Latest(r, m)
<1>1. /\ steps'[r] = [steps[r] EXCEPT ![n] = [steps[r][n] EXCEPT ![k] = new]]
      /\ steps[r] \in [Nodes -> Attempt]
  BY DEF SetStep, StepsType
<1>2. steps[r][n] \in Seq(StepStates)
  BY <1>1 DEF Attempt
<1>3. ASSUME NEW m \in Nodes, m # n PROVE steps'[r][m] = steps[r][m]
  BY <1>1, <1>3
<1>4. steps'[r][n] = [steps[r][n] EXCEPT ![k] = new]
  BY <1>1
<1>5. DOMAIN steps[r][n] = 1..Len(steps[r][n]) /\ Len(steps[r][n]) \in Nat
  BY <1>2, LenProperties
<1>6. steps[r][n] \in [1..Len(steps[r][n]) -> StepStates]
  BY <1>2, LenProperties
<1>7. steps'[r][n] \in [1..Len(steps[r][n]) -> StepStates \union {new}]
  BY <1>4, <1>5, <1>6
<1>8. Len(steps'[r][n]) = Len(steps[r][n])
  <2>1. steps'[r][n] \in Seq(StepStates \union {new})
    BY <1>5, <1>7, SeqDef
  <2>2. QED
    BY <1>5, <1>7, <2>1, LenProperties
<1>9. steps'[r][n][k] = new
  BY <1>4, <1>5
<1>10. QED
  BY <1>3, <1>8, <1>9 DEF Latest

(* And after another attempt at a node. *)
LEMMA LatestRetried ==
  ASSUME StepsType, NEW r \in RunIds, NEW w, NEW n \in Nodes, NEW k,
         RetryInterruptedStep(r, w, n, k)
  PROVE  /\ \A m \in Nodes : m # n => steps'[r][m] = steps[r][m]
         /\ Latest(r, n)' = "queued"
<1>1. steps'[r] = [steps[r] EXCEPT ![n] = Append(steps[r][n], "queued")]
  BY DEF RetryInterruptedStep, StepsType
<1>2. \A m \in Nodes : m # n => steps'[r][m] = steps[r][m]
  BY <1>1
<1>3. steps'[r][n] = Append(steps[r][n], "queued")
  BY <1>1 DEF StepsType
<1>4. steps[r][n] \in Seq(StepStates) /\ "queued" \in StepStates
  BY DEF StepsType, Attempt, StepStates
<1>5. Latest(r, n)' = "queued"
  BY <1>3, <1>4, AppendProperties DEF Latest
<1>6. QED
  BY <1>2, <1>5

(* The list that a handler goes on with, unless it was cancelled. *)
LEMMA WorkTaken ==
  ASSUME QInv, NEW t \in Tasks, NEW r, r = running[t], NEW next, NEW work, Goto(t, next, work),
         next \in HandlerPcs /\ state'[r] = "running" => WorkMatches(r, next, work)'
  PROVE  WorkSound(t)'
<1>1. /\ pc'[t] = IF cancelled[t] THEN "abandon_cancelled" ELSE next
      /\ todo'[t] = IF cancelled[t] THEN {} ELSE work
      /\ running'[t] = r
  BY DEF Goto, QInv, QueueType
<1>2. CASE cancelled[t]
  <2>1. pc'[t] \notin HandlerPcs
    BY <1>1, <1>2 DEF HandlerPcs
  <2>2. QED
    BY <2>1, NoWork
<1>3. CASE ~cancelled[t]
  <2>1. pc'[t] = next /\ todo'[t] = work /\ running'[t] = r
    BY <1>1, <1>3
  <2>2. SUFFICES ASSUME next \in HandlerPcs, state'[r] = "running"
                 PROVE  WorkMatches(running[t], pc[t], todo[t])'
    BY <2>1 DEF WorkSound, Working
  <2>3. WorkMatches(r, next, work)'
    BY <2>2
  <2>4. QED
    BY <2>1, <2>3 DEF WorkMatches, Current, Latest
<1>4. QED
  BY <1>2, <1>3

(* What a snapshot yields is current. *)
LEMMA AttemptsCurrent ==
  ASSUME NEW r \in RunIds, NEW s, NEW nodes \in SUBSET InState(r, s)
  PROVE  \A item \in Attempts(r, nodes) : Current(r, item, s)
BY DEF Attempts, InState, Current

(* The calls that read, and those that end the execution. *)
LEMMA ReaderWork ==
  ASSUME QInv, IInv, NEW t \in Tasks, WorkSound(t),
         Open(t) \/ Load(t) \/ Reload(t) \/ Settle(t)
  PROVE  WorkSound(t)'
<1>1. PICK r \in RunIds : r = running[t]
  BY HandlerWorker DEF Open, Load, Reload, Settle
<1>2. /\ UNCHANGED storeVars /\ state[r] = "running" /\ pc[t] \in HandlerPcs
      /\ steps' = steps /\ Plan[r] \subseteq Nodes
  BY <1>1, PlanAssumption DEF Open, Load, Reload, Settle, CanLoad, Owns, HandlerPcs, storeVars
<1>3. PICK at : at = pc[t]
  OBVIOUS
<1>4. WorkMatches(r, at, todo[t])
  BY <1>1, <1>2, <1>3 DEF WorkSound, Working
<1>5. at \notin Listing
      => \A n \in Plan[r] : /\ Latest(r, n)' # "running"
                            /\ Latest(r, n)' = "interrupted" => at \in {"open", "load"}
  BY <1>2, <1>4 DEF WorkMatches, Latest, Listing
<1>6. at \in {"open", "load", "reload", "settle"}
  BY <1>3 DEF Open, Load, Reload, Settle
<1>7. ASSUME NEW next, NEW work, next \notin Listing, Goto(t, next, work),
             \/ next \in {"open", "load"}
             \/ \A n \in Plan[r] : Latest(r, n)' # "interrupted"
      PROVE  WorkSound(t)'
  <2>1. WorkMatches(r, next, work)'
    BY <1>5, <1>6, <1>7 DEF WorkMatches, Listing
  <2>2. QED
    BY <1>1, <1>7, <2>1, WorkTaken
<1>8. ASSUME NEW next \in {"cancel_rest", "block", "start"}, NEW work, Goto(t, next, work),
             \A item \in work : Current(r, item, "queued"),
             \A n \in Plan[r] : Latest(r, n)' # "interrupted"
      PROVE  WorkSound(t)'
  <2>1. \A item \in work : Current(r, item, Expects(next))'
    BY <1>2, <1>8 DEF Current, Expects, Latest
  <2>2. WorkMatches(r, next, work)'
    BY <1>5, <1>6, <1>8, <2>1 DEF WorkMatches, Listing
  <2>3. QED
    BY <1>1, <1>8, <2>2, WorkTaken
<1>9. CASE Open(t)
  BY <1>7, <1>9 DEF Open, Listing
<1>10. CASE Settle(t)
  <2>1. at = "settle"
    BY <1>3, <1>10 DEF Settle
  <2>2. QED
    BY <1>5, <1>7, <1>10, <2>1 DEF Settle, Listing
<1>11. CASE Load(t)
  <2>1. PICK work : work = Attempts(r, InState(r, "interrupted"))
    OBVIOUS
  <2>2. CASE Plan[r] = {}
    BY <1>1, <1>7, <1>11, <2>2 DEF Load, Listing
  <2>3. CASE Plan[r] # {} /\ InState(r, "interrupted") = {}
    <3>1. \A n \in Plan[r] : Latest(r, n)' # "interrupted"
      BY <1>2, <2>3 DEF InState, Latest
    <3>2. QED
      BY <1>1, <1>7, <1>11, <2>3, <3>1 DEF Load, Listing
  <2>4. CASE Plan[r] # {} /\ InState(r, "interrupted") # {}
    <3>1. Goto(t, "retry", work)
      BY <1>1, <1>11, <2>1, <2>4 DEF Load
    <3>2. \A item \in work : Current(r, item, "interrupted")
      BY <2>1, AttemptsCurrent
    <3>3. \A item \in work : Current(r, item, Expects("retry"))'
      BY <1>2, <3>2 DEF Current, Expects, Latest
    <3>4. ASSUME NEW n \in Plan[r], Latest(r, n)' = "interrupted"
          PROVE  \E item \in work : item[1] = n
      <4>1. n \in InState(r, "interrupted")
        BY <1>2, <3>4 DEF InState, Latest
      <4>2. <<n, Len(steps[r][n])>> \in work
        BY <2>1, <4>1 DEF Attempts
      <4>3. <<n, Len(steps[r][n])>>[1] = n
        OBVIOUS
      <4>4. QED
        BY <4>2, <4>3
    <3>5. WorkMatches(r, "retry", work)'
      BY <1>5, <1>6, <3>3, <3>4 DEF WorkMatches, Listing
    <3>6. QED
      BY <1>1, <3>1, <3>5, WorkTaken
  <2>5. QED
    BY <2>2, <2>3, <2>4
<1>12. CASE Reload(t)
  <2>1. at = "reload"
    BY <1>3, <1>12 DEF Reload
  <2>2. \A n \in Plan[r] : Latest(r, n)' # "interrupted"
    BY <1>5, <2>1 DEF Listing
  <2>3. ASSUME NEW nodes \in SUBSET InState(r, "queued"), NEW next \in {"cancel_rest", "block", "start"},
               Goto(t, next, Attempts(r, nodes))
        PROVE  WorkSound(t)'
    <3>1. PICK work : work = Attempts(r, nodes)
      OBVIOUS
    <3>2. \A item \in work : Current(r, item, "queued")
      BY <3>1, AttemptsCurrent
    <3>3. QED
      BY <1>8, <2>2, <2>3, <3>1, <3>2
  <2>4. CASE RequiredFailure(r)
    <3>1. \/ Goto(t, "settle", Attempts(r, InState(r, "queued")))
          \/ Goto(t, "cancel_rest", Attempts(r, InState(r, "queued")))
      BY <1>1, <1>12, <2>4 DEF Reload
    <3>2. PICK work : work = Attempts(r, InState(r, "queued"))
      OBVIOUS
    <3>3. Goto(t, "settle", work) => WorkSound(t)'
      BY <1>7, <2>2 DEF Listing
    <3>4. QED
      BY <2>3, <3>1, <3>2, <3>3
  <2>5. CASE ~RequiredFailure(r) /\ BlockedSteps(r) # {}
    <3>1. Goto(t, "block", Attempts(r, BlockedSteps(r)))
      BY <1>1, <1>12, <2>5 DEF Reload
    <3>2. BlockedSteps(r) \in SUBSET InState(r, "queued")
      BY DEF BlockedSteps, InState
    <3>3. QED
      BY <2>3, <3>1, <3>2
  <2>6. CASE ~RequiredFailure(r) /\ BlockedSteps(r) = {} /\ ReadySteps(r) # {}
    <3>1. PICK n \in ReadySteps(r) : Goto(t, "start", Attempts(r, {n}))
      BY <1>1, <1>12, <2>6 DEF Reload
    <3>2. {n} \in SUBSET InState(r, "queued")
      BY DEF ReadySteps, InState
    <3>3. QED
      BY <2>3, <3>1, <3>2
  <2>7. CASE ~RequiredFailure(r) /\ BlockedSteps(r) = {} /\ ReadySteps(r) = {}
    <3>1. Goto(t, "finish_composing", {})
      BY <1>1, <1>12, <2>7 DEF Reload
    <3>2. QED
      BY <1>7, <2>2, <3>1 DEF Listing
  <2>8. QED
    BY <2>4, <2>5, <2>6, <2>7
<1>13. QED
  BY <1>9, <1>10, <1>11, <1>12

(* The calls that write the state of a step. *)
LEMMA WriterWork ==
  ASSUME QInv, IInv, EInv, QueuedRows, NEW t \in Tasks, WorkSound(t),
         Retry(t) \/ Block(t) \/ CancelRest(t) \/ Begin(t) \/ Execute(t)
  PROVE  WorkSound(t)'
<1>1. PICK r \in RunIds : r = running[t]
  BY HandlerWorker DEF Retry, Block, CancelRest, Begin, Execute
<1>2. PICK at : at = pc[t]
  OBVIOUS
<1>3. state[r] = "running" /\ at \in Listing
  BY <1>1, <1>2
     DEF Retry, Block, CancelRest, Begin, Execute, RetryInterruptedStep, CancelStep, StartStep,
         FinishStep, Owns, Listing
<1>4. WorkMatches(r, at, todo[t])
  BY <1>1, <1>2, <1>3 DEF WorkSound, Working, Listing, HandlerPcs
<1>5. r \in planned /\ StepsType /\ Plan[r] \subseteq Nodes
  BY <1>3, PlanAssumption DEF QueuedRows, Leased, IInv
<1>6. ASSUME NEW item \in todo[t]
      PROVE  /\ Current(r, item, Expects(at)) /\ item[1] \in Plan[r] /\ item[1] \in Nodes
             /\ item[2] = Len(steps[r][item[1]]) /\ item[2] \in 1..Len(steps[r][item[1]])
  <2>1. Current(r, item, Expects(at))
    BY <1>3, <1>4, <1>6 DEF WorkMatches
  <2>2. item[1] \in Plan[r] /\ item[1] \in Nodes /\ item[2] = Len(steps[r][item[1]])
    BY <1>5, <2>1 DEF Current
  <2>3. Len(steps[r][item[1]]) > 0 /\ Len(steps[r][item[1]]) \in Nat
    BY <1>5, <2>2, LenProperties DEF EInv, PlannedSteps, StepsType, Attempt
  <2>4. QED
    BY <2>1, <2>2, <2>3
(* No two items of a list are about one node. *)
<1>7. ASSUME NEW a \in todo[t], NEW b \in todo[t], a[1] = b[1] PROVE a = b
  <2>1. a[2] = b[2]
    BY <1>6, <1>7
  <2>2. a \in Nodes \X Nat /\ b \in Nodes \X Nat
    BY DEF QInv, QueueType
  <2>3. a = <<a[1], a[2]>> /\ b = <<b[1], b[2]>>
    BY <2>2
  <2>4. QED
    BY <1>7, <2>1, <2>3
(* A list whose item is done, when its node went to a state that needs no care. *)
<1>8. ASSUME NEW item \in todo[t], NEW same \in {"retry", "block", "cancel_rest"},
             NEW after \in {"reload", "settle"}, at = same,
             GotoNext(t, item, same, after),
             \A m \in Nodes : m # item[1] =>
               Len(steps'[r][m]) = Len(steps[r][m]) /\ Latest(r, m)' = Latest(r, m),
             Latest(r, item[1])' \notin {"running", "interrupted"}
      PROVE  WorkSound(t)'
  <2>1. PICK rest : rest = todo[t] \ {item}
    OBVIOUS
  <2>2. PICK next : next = IF rest = {} THEN after ELSE same
    OBVIOUS
  <2>3. Goto(t, next, rest)
    BY <1>8, <2>1, <2>2 DEF GotoNext
  <2>4. ASSUME NEW other \in rest PROVE Current(r, other, Expects(at))'
    <3>1. other \in todo[t] /\ other # item /\ other[1] # item[1]
      BY <1>7, <2>1, <2>4
    <3>2. Current(r, other, Expects(at)) /\ other[1] \in Nodes
      BY <1>6, <3>1
    <3>3. /\ Len(steps'[r][other[1]]) = Len(steps[r][other[1]])
          /\ Latest(r, other[1])' = Latest(r, other[1])
      BY <1>8, <3>1, <3>2
    <3>4. QED
      BY <3>2, <3>3 DEF Current
  <2>5. ASSUME NEW n \in Plan[r]
        PROVE  /\ Latest(r, n)' # "running"
               /\ Latest(r, n)' = "interrupted" =>
                    at = "retry" /\ \E other \in rest : other[1] = n
    <3>1. CASE n = item[1]
      BY <1>8, <3>1
    <3>2. CASE n # item[1]
      <4>1. Latest(r, n)' = Latest(r, n)
        BY <1>5, <1>8, <2>5, <3>2
      <4>2. Latest(r, n) # "running"
        BY <1>4, <1>8, <2>5 DEF WorkMatches
      <4>3. Latest(r, n) = "interrupted" => at = "retry" /\ \E other \in todo[t] : other[1] = n
        BY <1>4, <1>8, <2>5 DEF WorkMatches
      <4>4. \A other \in todo[t] : other[1] = n => other \in rest
        BY <2>1, <3>2
      <4>5. QED
        BY <4>1, <4>2, <4>3, <4>4
    <3>3. QED
      BY <3>1, <3>2
  <2>6. CASE rest = {}
    <3>1. \A n \in Plan[r] : Latest(r, n)' # "running" /\ Latest(r, n)' # "interrupted"
      BY <2>5, <2>6
    <3>2. next = after /\ next \notin Listing
      BY <1>8, <2>2, <2>6 DEF Listing
    <3>3. WorkMatches(r, next, rest)'
      BY <3>1, <3>2 DEF WorkMatches, Listing
    <3>4. QED
      BY <1>1, <2>3, <3>3, WorkTaken
  <2>7. CASE rest # {}
    <3>1. next = at /\ next \in {"retry", "block", "cancel_rest"}
      BY <1>8, <2>2, <2>7
    <3>2. \A other \in rest : Current(r, other, Expects(next))'
      BY <2>4, <3>1
    <3>3. WorkMatches(r, next, rest)'
      BY <2>5, <3>1, <3>2 DEF WorkMatches
    <3>4. QED
      BY <1>1, <2>3, <3>3, WorkTaken
  <2>8. QED
    BY <2>6, <2>7
<1>9. CASE Retry(t)
  <2>1. PICK item \in todo[t] : /\ RetryInterruptedStep(r, worker, item[1], item[2])
                                /\ GotoNext(t, item, "retry", "reload")
    BY <1>1, <1>9 DEF Retry
  <2>2. item[1] \in Nodes
    BY <1>6, <2>1
  <2>3. /\ \A m \in Nodes : m # item[1] => steps'[r][m] = steps[r][m]
        /\ Latest(r, item[1])' = "queued"
    BY <1>5, <2>1, <2>2, LatestRetried
  <2>4. \A m \in Nodes : m # item[1] =>
          Len(steps'[r][m]) = Len(steps[r][m]) /\ Latest(r, m)' = Latest(r, m)
    BY <2>3 DEF Latest
  <2>5. at = "retry"
    BY <1>2, <1>9 DEF Retry
  <2>6. QED
    BY <1>8, <2>1, <2>3, <2>4, <2>5
<1>10. CASE Block(t) \/ CancelRest(t)
  <2>1. PICK item \in todo[t] : /\ CancelStep(r, worker, item[1], item[2])
                                /\ \/ at = "block" /\ GotoNext(t, item, "block", "reload")
                                   \/ at = "cancel_rest" /\ GotoNext(t, item, "cancel_rest", "settle")
    BY <1>1, <1>2, <1>10 DEF Block, CancelRest
  <2>2. SetStep(r, item[1], item[2], "cancelled")
    BY <2>1 DEF CancelStep
  <2>3. \A m \in Nodes : /\ Len(steps'[r][m]) = Len(steps[r][m])
                         /\ Latest(r, m)' = IF m = item[1] THEN "cancelled" ELSE Latest(r, m)
    BY <1>5, <1>6, <2>2, LatestSet
  <2>4. Latest(r, item[1])' = "cancelled"
    BY <1>6, <2>3
  <2>5. \A m \in Nodes : m # item[1] =>
          Len(steps'[r][m]) = Len(steps[r][m]) /\ Latest(r, m)' = Latest(r, m)
    BY <2>3
  <2>6. QED
    BY <1>8, <2>1, <2>4, <2>5
<1>11. CASE Begin(t)
  <2>1. PICK item \in todo[t] : StartStep(r, worker, item[1], item[2]) /\ Goto(t, "execute", {item})
    BY <1>1, <1>11 DEF Begin
  <2>2. at = "start" /\ SetStep(r, item[1], item[2], "running")
    BY <1>2, <1>11, <2>1 DEF Begin, StartStep
  <2>3. \A m \in Nodes : /\ Len(steps'[r][m]) = Len(steps[r][m])
                         /\ Latest(r, m)' = IF m = item[1] THEN "running" ELSE Latest(r, m)
    BY <1>5, <1>6, <2>2, LatestSet
  <2>4. Current(r, item, Expects("execute"))'
    BY <1>6, <2>3 DEF Current, Expects
  <2>5. ASSUME NEW n \in Plan[r]
        PROVE  /\ Latest(r, n)' = "running" => n = item[1]
               /\ Latest(r, n)' # "interrupted"
    <3>1. Latest(r, n) # "running" /\ Latest(r, n) # "interrupted"
      BY <1>4, <2>2, <2>5 DEF WorkMatches
    <3>2. QED
      BY <1>5, <2>3, <2>5, <3>1
  <2>6. PICK work : work = {item}
    OBVIOUS
  <2>7. WorkMatches(r, "execute", work)'
    BY <2>4, <2>5, <2>6 DEF WorkMatches
  <2>8. QED
    BY <1>1, <2>1, <2>6, <2>7, WorkTaken
<1>12. CASE Execute(t)
  <2>1. PICK item \in todo[t], outcome \in {"completed", "failed"} :
          FinishStep(r, worker, item[1], item[2], outcome) /\ Goto(t, "reload", {})
    BY <1>1, <1>12 DEF Execute
  <2>2. at = "execute" /\ SetStep(r, item[1], item[2], outcome)
    BY <1>2, <1>12, <2>1 DEF Execute, FinishStep
  <2>3. \A m \in Nodes : /\ Len(steps'[r][m]) = Len(steps[r][m])
                         /\ Latest(r, m)' = IF m = item[1] THEN outcome ELSE Latest(r, m)
    BY <1>5, <1>6, <2>2, LatestSet
  <2>4. ASSUME NEW n \in Plan[r]
        PROVE  Latest(r, n)' # "running" /\ Latest(r, n)' # "interrupted"
    <3>1. Latest(r, n) # "interrupted"
      BY <1>4, <2>2, <2>4 DEF WorkMatches
    <3>2. Latest(r, n) = "running" => n = item[1]
      BY <1>4, <2>1, <2>2, <2>4 DEF WorkMatches
    <3>3. QED
      BY <1>5, <2>1, <2>3, <2>4, <3>1, <3>2
  <2>5. WorkMatches(r, "reload", {})'
    BY <2>4 DEF WorkMatches, Listing
  <2>6. QED
    BY <1>1, <2>1, <2>5, WorkTaken
<1>13. QED
  BY <1>9, <1>10, <1>11, <1>12

(* Every step of a handler leaves its own task with current work. *)
LEMMA HandlerWork ==
  ASSUME QInv, IInv, EInv, QueuedRows, NEW t \in Tasks, WorkSound(t), HandlerStep(t)
  PROVE  WorkSound(t)'
<1>1. CASE Open(t) \/ Load(t) \/ Reload(t) \/ Settle(t)
  BY <1>1, ReaderWork
<1>2. CASE Retry(t) \/ Block(t) \/ CancelRest(t) \/ Begin(t) \/ Execute(t)
  BY <1>2, WriterWork
<1>3. CASE FinishFailed(t) \/ FinishComposing(t) \/ Compose(t)
  <2>1. running' = running /\ running[t] \in RunIds
    BY <1>3, HandlerWorker DEF FinishFailed, FinishComposing, Compose, Goto
  <2>2. state'[running[t]] # "running"
    BY <1>3, <2>1
       DEF FinishFailed, FinishComposing, Compose, FinishRun, CompleteOutput, FailComposition,
           Transition, IInv, RunRows, RunType
  <2>3. QED
    BY <2>1, <2>2, NoWork
<1>4. CASE CallRefused(t) \/ CancelHandler(t)
  <2>1. pc'[t] \in {"abandon_failed", "abandon_cancelled"}
    BY <1>4 DEF CallRefused, CancelHandler, Goto, QInv, QueueType
  <2>2. QED
    BY <2>1, NoWork DEF HandlerPcs
<1>5. QED
  BY <1>1, <1>2, <1>3, <1>4 DEF HandlerStep

(* A step that moves no task, when the Runs of the busy ones are left alone. *)
LEMMA WorkOfOthers ==
  ASSUME QInv, NEW t \in Tasks, WorkSound(t),
         pc'[t] = pc[t] /\ running'[t] = running[t] /\ todo'[t] = todo[t],
         Busy(t) => Undisturbed(running[t])
  PROVE  WorkSound(t)'
<1>1. CASE Busy(t)
  BY <1>1, WorkKept
<1>2. CASE ~Busy(t)
  <2>1. pc'[t] = "idle"
    BY <1>2 DEF Busy
  <2>2. QED
    BY <2>1, NoWork DEF HandlerPcs
<1>3. QED
  BY <1>1, <1>2

(* A Run that is claimed was in nobody's hands. *)
LEMMA ClaimDisturbsNone ==
  ASSUME QInv, IInv, NEW r \in RunIds, NEW w, ClaimNext(r, w), NEW t \in Tasks, Busy(t)
  PROVE  Undisturbed(running[t])
<1>1. running[t] \in RunIds /\ running[t] # r
  BY DEF QInv, Held, ClaimNext, Leased, Terminal
<1>2. state'[running[t]] = state[running[t]] /\ steps' = steps
  BY <1>1 DEF ClaimNext, Transition, IInv, RunRows, RunType
<1>3. QED
  BY <1>2 DEF Undisturbed

(* Every step of the process leaves every task with current work. *)
LEMMA WorkPreserved ==
  ASSUME QInv, IInv, EInv, WInv, [Next]_queueVars, NEW t \in Tasks
  PROVE  WorkSound(t)'
<1> USE DEF runtimeVars, taskVars
<1>1. /\ QueuedRows /\ WorkSound(t) /\ RunType /\ StepsType
      /\ pc \in [Tasks -> Pcs] /\ running \in [Tasks -> RunIds \union {NoRun}]
      /\ todo \in [Tasks -> SUBSET (Nodes \X Nat)]
      /\ Busy(t) => running[t] \in RunIds
  BY DEF WInv, IInv, RunRows, QInv, QueueType
<1>2. ASSUME UNCHANGED <<pc, running, todo>>, Busy(t) => Undisturbed(running[t])
      PROVE  WorkSound(t)'
  BY <1>1, <1>2, WorkOfOthers
<1>3. ASSUME UNCHANGED <<state, steps, pc, running, todo>> PROVE WorkSound(t)'
  BY <1>2, <1>3 DEF Undisturbed
<1>4. ASSUME NEW r \in RunIds, Submission(r) PROVE WorkSound(t)'
  <2>1. CASE Wake(r)
    BY <1>3, <2>1 DEF Wake, storeVars
  <2>2. CASE Submit(r) \/ RejectPlan(r) \/ AcceptPlan(r) \/ CancelRun(r)
    <3>1. \A q \in RunIds : Undisturbed(q)
      BY <1>1, <2>2
         DEF Submit, RejectPlan, AcceptPlan, CancelRun, StartPlanning, FailPlanning,
             MaterializeAndEnqueue, Cancel, Transition, RunType, StepsType, Undisturbed
    <3>2. UNCHANGED <<pc, running, todo>>
      BY <2>2 DEF Submit, RejectPlan, AcceptPlan, CancelRun
    <3>3. QED
      BY <1>1, <1>2, <3>1, <3>2
  <2>3. QED
    BY <1>4, <2>1, <2>2 DEF Submission
<1>5. CASE DispatcherWakes \/ DispatcherAcquires \/ DispatcherFindsNothing \/ DispatcherFails
  BY <1>3, <1>5 DEF DispatcherWakes, DispatcherAcquires, DispatcherFindsNothing,
                    DispatcherFails, storeVars
<1>6. ASSUME NEW r \in RunIds, NEW u \in Tasks, DispatcherClaims(r, u) PROVE WorkSound(t)'
  <2>1. /\ ClaimNext(r, worker) /\ todo' = todo
        /\ pc' = [pc EXCEPT ![u] = "open"] /\ running' = [running EXCEPT ![u] = r]
    BY <1>6 DEF DispatcherClaims
  <2>2. CASE t # u
    <3>1. pc'[t] = pc[t] /\ running'[t] = running[t] /\ todo'[t] = todo[t]
      BY <1>1, <2>1, <2>2
    <3>2. QED
      BY <1>1, <2>1, <3>1, ClaimDisturbsNone, WorkOfOthers
  <2>3. CASE t = u
    <3>1. running'[t] = r /\ pc'[t] = "open" /\ steps' = steps /\ state[r] = "queued"
      BY <1>1, <2>1, <2>3 DEF ClaimNext
    <3>2. \A n \in Plan[r] : Latest(r, n)' # "running"
      BY <1>1, <3>1 DEF QueuedRows, Latest
    <3>3. PICK at : at = "open"
      OBVIOUS
    <3>4. WorkMatches(r, at, todo[t])'
      BY <3>2, <3>3 DEF WorkMatches, Listing
    <3>5. WorkMatches(running[t], pc[t], todo[t])'
      BY <3>1, <3>3, <3>4 DEF WorkMatches, Current, Latest
    <3>6. QED
      BY <3>5 DEF WorkSound
  <2>4. QED
    BY <2>2, <2>3
<1>7. ASSUME NEW u \in Tasks, HandlerStep(u) PROVE WorkSound(t)'
  <2>1. CASE t = u
    BY <1>1, <1>7, <2>1, HandlerWork
  <2>2. CASE t # u
    <3>1. PICK next, work : Goto(u, next, work)
      BY <1>7
         DEF HandlerStep, Open, Load, Retry, Reload, Block, CancelRest, Settle, Begin, Execute,
             FinishFailed, FinishComposing, Compose, CallRefused, CancelHandler, GotoNext
    <3>2. pc'[t] = pc[t] /\ running'[t] = running[t] /\ todo'[t] = todo[t]
      BY <1>1, <2>2, <3>1 DEF Goto
    <3>3. Busy(u)
      BY <1>7, HandlerMoves DEF Busy, HandlerPcs
    <3>4. Busy(t) => running[t] # running[u]
      BY <1>1, <2>2, <3>3 DEF QInv, TasksRegistered
    <3>5. Busy(t) => Undisturbed(running[t])
      BY <1>1, <1>7, <3>4, HandlerRow DEF Undisturbed
    <3>6. QED
      BY <1>1, <3>2, <3>5, WorkOfOthers
  <2>3. QED
    BY <2>1, <2>2
<1>8. ASSUME NEW u \in Tasks, Abandon(u) \/ AbandonCancelled(u) \/ HandlerRaises(u)
      PROVE  WorkSound(t)'
  <2>1. \E to \in {"idle", "abandon_failed"} : pc' = [pc EXCEPT ![u] = to]
    BY <1>8 DEF Abandon, AbandonCancelled, EndTask, HandlerRaises
  <2>2. CASE t = u
    <3>1. pc'[t] \in {"idle", "abandon_failed"}
      BY <1>1, <2>1, <2>2
    <3>2. QED
      BY <3>1, NoWork DEF HandlerPcs
  <2>3. CASE t # u
    <3>1. pc'[t] = pc[t] /\ running'[t] = running[t] /\ todo'[t] = todo[t]
      BY <1>1, <1>8, <2>1, <2>3 DEF Abandon, AbandonCancelled, EndTask, HandlerRaises
    <3>2. Busy(u)
      BY <1>8 DEF Abandon, AbandonCancelled, HandlerRaises, Busy, AbandonPcs, HandlerPcs
    <3>3. Busy(t) => running[t] # running[u]
      BY <1>1, <2>3, <3>2 DEF QInv, TasksRegistered
    <3>4. UNCHANGED storeVars \/ RecoverRuns({running[u]})
      BY <1>8 DEF Abandon, AbandonClaim, AbandonCancelled, HandlerRaises
    <3>5. Busy(t) => state'[running[t]] = state[running[t]] /\ steps'[running[t]] = steps[running[t]]
      BY <1>1, <3>3, <3>4 DEF RecoverRuns, storeVars
    <3>6. Busy(t) => Undisturbed(running[t])
      BY <3>5 DEF Undisturbed
    <3>7. QED
      BY <1>1, <3>1, <3>6, WorkOfOthers
  <2>4. QED
    BY <2>2, <2>3
<1>9. ASSUME NEW u \in Tasks, HeartbeatRenews(u) \/ HeartbeatRefused(u) PROVE WorkSound(t)'
  BY <1>3, <1>9 DEF HeartbeatRenews, HeartbeatRefused, Heartbeat, storeVars
<1>10. CASE CloseBegins
  <2>1. UNCHANGED <<pc, running, todo>> /\ (UNCHANGED storeVars \/ \E r \in RunIds : ClaimNext(r, worker))
    BY <1>10 DEF CloseBegins
  <2>2. QED
    BY <1>2, <1>3, <2>1, ClaimDisturbsNone DEF storeVars
<1>11. CASE CloseCancelsTasks \/ TimePasses \/ UNCHANGED queueVars
  BY <1>3, <1>11 DEF CloseCancelsTasks, TimePasses, Tick, queueVars, storeVars
<1>12. CASE CloseEnds \/ Crash
  <2>1. pc'[t] = "idle"
    BY <1>12 DEF CloseEnds, Crash, Gone
  <2>2. QED
    BY <2>1, NoWork DEF HandlerPcs
<1>13. CASE Start
  <2>1. UNCHANGED <<pc, running, todo>> /\ ~Busy(t)
    BY <1>13 DEF Start, QInv
  <2>2. QED
    BY <1>2, <2>1
<1>14. QED
  BY <1>4, <1>5, <1>6, <1>7, <1>8, <1>9, <1>10, <1>11, <1>12, <1>13
     DEF Next, DispatcherStep, TaskStep

(* With no step under way or interrupted, the engine finds one to go on with.  *)
LEMMA NeverStuck ==
  ASSUME NEW r \in RunIds, StepsType, \A n \in Plan[r] : Len(steps[r][n]) > 0,
         \A n \in Plan[r] : Latest(r, n) # "running" /\ Latest(r, n) # "interrupted"
  PROVE  ~Stuck(r)
<1>1. SUFFICES ASSUME Stuck(r) PROVE FALSE
  OBVIOUS
<1>2. Plan[r] \subseteq Nodes /\ \A n \in Plan[r] : Deps[n] \subseteq Plan[r]
  BY PlanAssumption
<1>3. \A n \in Plan[r] : Latest(r, n) \in Terminal \union {"queued"}
  <2>1. SUFFICES ASSUME NEW n \in Plan[r] PROVE Latest(r, n) \in StepStates
    BY DEF StepStates, Terminal
  <2>2. steps[r][n] \in Seq(StepStates) /\ Len(steps[r][n]) \in Nat /\ Len(steps[r][n]) > 0
    BY <1>2, LenProperties DEF StepsType, Attempt
  <2>3. QED
    BY <2>2, ElementOfSeq DEF Latest
<1>4. InState(r, "queued") \in (SUBSET Plan[r]) \ {{}}
  BY <1>1, <1>3 DEF Stuck, InState
<1>5. PICK n \in InState(r, "queued") : Deps[n] \intersect InState(r, "queued") = {}
  BY <1>4, AcyclicAssumption
<1>6. n \in Plan[r] /\ Latest(r, n) = "queued"
  BY <1>5 DEF InState
<1>7. \A d \in Deps[n] : d \in Plan[r] /\ Latest(r, d) \in Terminal
  BY <1>2, <1>3, <1>5, <1>6 DEF InState
<1>8. \A d \in Deps[n] : Latest(r, d) \notin Unsuccessful
  BY <1>1, <1>6 DEF Stuck, BlockedSteps
<1>9. \A d \in Deps[n] : Latest(r, d) = "completed"
  BY <1>7, <1>8 DEF Terminal, Unsuccessful
<1>10. n \in ReadySteps(r)
  BY <1>6, <1>9 DEF ReadySteps
<1>11. QED
  BY <1>1, <1>10 DEF Stuck

(* A task with current work, which still owns its Run, is not refused. *)
LEMMA OwnerServed ==
  ASSUME QInv, IInv, EInv, WInv, NEW t \in Tasks, OwnsRun(t)
  PROVE  ~Refused(t)
<1>1. SUFFICES ASSUME Refused(t) PROVE FALSE
  OBVIOUS
<1>2. PICK r \in RunIds : r = running[t]
  BY <1>1, HandlerWorker DEF Refused, HandlerPcs
<1>3. PICK at \in HandlerPcs : at = pc[t]
  BY <1>1 DEF Refused
<1>4. CASE at = "compose"
  <2>1. output[r] /\ state[r] = "composing"
    BY <1>1, <1>2, <1>3, <1>4 DEF Refused, OwnsRun, Owns
  <2>2. QED
    BY <2>1 DEF WInv, QueuedRows
<1>5. CASE at # "compose"
  <2>1. state[r] = "running"
    BY <1>2, <1>3, <1>5 DEF OwnsRun, Owns
  <2>2. r \in planned /\ Plan[r] \subseteq Nodes /\ StepsType
    BY <2>1, PlanAssumption DEF WInv, QueuedRows, Leased, IInv
  <2>3. WorkMatches(r, at, todo[t])
    BY <1>2, <1>3, <2>1 DEF WInv, WorkSound, Working
  <2>4. \A n \in Plan[r] : Len(steps[r][n]) > 0 /\ Len(steps[r][n]) \in Nat
    BY <2>2, LenProperties DEF EInv, PlannedSteps, StepsType, Attempt
  <2>5. CASE at \notin Listing
    <3>1. at = "reload" /\ Stuck(r)
      BY <1>1, <1>2, <1>3, <1>5, <2>2, <2>5 DEF Refused, Listing
    <3>2. \A n \in Plan[r] : Latest(r, n) # "running" /\ Latest(r, n) # "interrupted"
      BY <2>3, <3>1 DEF WorkMatches
    <3>3. QED
      BY <2>2, <2>4, <3>1, <3>2, NeverStuck
  <2>6. CASE at \in Listing
    <3>1. ASSUME NEW item \in todo[t]
          PROVE  AttemptIn(r, item, Expects(at)) /\ item[2] = Len(steps[r][item[1]])
      <4>1. Current(r, item, Expects(at))
        BY <2>3, <2>6 DEF WorkMatches
      <4>2. QED
        BY <2>4, <4>1 DEF AttemptIn, Current, Latest
    <3>2. at = "retry" => \A item \in todo[t] : item[1] \in Idempotent
      BY <1>3 DEF EInv, TaskSound
    <3>3. at = "retry" => \A item \in todo[t] : Retriable(r, item)
      BY <3>1, <3>2 DEF Retriable, Expects
    <3>4. at \in {"block", "start", "cancel_rest"} => \A item \in todo[t] : AttemptIn(r, item, "queued")
      BY <3>1 DEF Expects
    <3>5. at = "execute" => \A item \in todo[t] : AttemptIn(r, item, "running")
      BY <3>1 DEF Expects
    <3>6. QED
      BY <1>1, <1>2, <1>3, <1>5, <2>6, <3>3, <3>4, <3>5 DEF Refused, Listing
  <2>7. QED
    BY <2>5, <2>6
<1>6. QED
  BY <1>4, <1>5

(* The program starts with empty tables and no task. *)
LEMMA WorkInitially == Init => WInv
BY DEF Init, StoreInit, WInv, QueuedRows, WorkSound, Working, HandlerPcs, Leased

(* A handler that still owns its Run is never refused: every attempt that it   *)
(* took from an older snapshot is where the call expects it, the plan is       *)
(* there, no output is, and the engine's loop always knows how to go on, for   *)
(* every acyclic plan (execution_engine.py:81 execute).                        *)
THEOREM OwnersServed == Spec => []OwnerNeverRefused
<1>1. Init => WInv
  BY WorkInitially
<1>2. QInv /\ IInv /\ EInv /\ WInv /\ [Next]_queueVars => WInv'
  BY QueuedRowsPreserved, WorkPreserved DEF WInv
<1>3. QInv /\ IInv /\ EInv /\ WInv => OwnerNeverRefused
  BY OwnerServed DEF OwnerNeverRefused
<1>4. QED
  BY <1>1, <1>2, <1>3, EngineInvariant, PTL DEF Spec
=============================================================================
