--------------------------- MODULE RunStoreProofs ---------------------------
(***************************************************************************)
(* Proofs about RunStore, for every set of Runs, workers and nodes, every   *)
(* plan, every lease length and every bound on the revisions.               *)
(***************************************************************************)
EXTENDS RunStore, SequenceTheorems, TLAPS

-----------------------------------------------------------------------------
(* Sequences of step states: what an UPDATE of one row, of all the rows of a  *)
(* node, or the INSERT of another attempt makes of them.                      *)

Attempt == Seq(StepStates)

Update(s, old, new) == [k \in 1..Len(s) |-> IF s[k] \in old THEN new ELSE s[k]]

(* An UPDATE by state keeps the number of attempts and rewrites those in old. *)
LEMMA UpdateProperties ==
  ASSUME NEW s \in Attempt, NEW old, NEW new \in StepStates
  PROVE  /\ Update(s, old, new) \in Attempt
         /\ Len(Update(s, old, new)) = Len(s)
         /\ \A k \in 1..Len(s) :
              Update(s, old, new)[k] = IF s[k] \in old THEN new ELSE s[k]
<1>1. Len(s) \in Nat /\ \A k \in 1..Len(s) : s[k] \in StepStates
  BY ElementOfSeq, LenProperties DEF Attempt
<1>2. Update(s, old, new) \in [1..Len(s) -> StepStates]
  BY <1>1 DEF Update
<1>3. Update(s, old, new) \in Seq(StepStates)
  BY <1>1, <1>2, SeqDef
<1>4. DOMAIN Update(s, old, new) = 1..Len(s)
  BY DEF Update
<1>5. Len(Update(s, old, new)) = Len(s)
  BY <1>1, <1>3, <1>4, LenProperties, SMT
<1>6. QED
  BY <1>3, <1>5 DEF Attempt, Update

(* The same for every node of a Run: what Rewritten returns. *)
LEMMA RewrittenProperties ==
  ASSUME NEW r, NEW old, NEW new \in StepStates, steps[r] \in [Nodes -> Attempt]
  PROVE  /\ Rewritten(r, old, new) \in [Nodes -> Attempt]
         /\ \A n \in Nodes : Rewritten(r, old, new)[n] = Update(steps[r][n], old, new)
<1>1. \A n \in Nodes : Rewritten(r, old, new)[n] = Update(steps[r][n], old, new)
  BY DEF Rewritten, Update
<1>2. \A n \in Nodes : Update(steps[r][n], old, new) \in Attempt
  BY UpdateProperties
<1>3. QED
  BY <1>1, <1>2 DEF Rewritten, Update

-----------------------------------------------------------------------------
(* One row of run_steps history: what every transaction does to the attempts  *)
(* of a node.                                                                 *)

OnlyLastOpen(s) == \A k \in 1..Len(s) : k < Len(s) => s[k] \in {"interrupted", "failed"}

AlongEdges(s, t) ==
  /\ Len(t) >= Len(s)
  /\ \A k \in 1..Len(s) : t[k] = s[k] \/ <<s[k], t[k]>> \in StepEdges

(* An attempt is added queued, as the first one or after an interrupted one.  *)
NewAttempts(s, t) ==
  \A k \in 1..Len(t) :
    k > Len(s) => t[k] = "queued" /\ (Len(s) > 0 => s[Len(s)] = "interrupted")

(* The attempts s of node n become t. *)
RowStep(n, s, t) ==
  /\ t \in Attempt
  /\ AlongEdges(s, t)
  /\ NewAttempts(s, t)
  /\ OnlyLastOpen(s) => OnlyLastOpen(t)
  /\ (n \notin Idempotent /\ Len(s) <= 1) => Len(t) <= 1

(* Leaving the attempts of a node alone is a legal change of them. *)
LEMMA SameRow ==
  ASSUME NEW n, NEW s \in Attempt
  PROVE  RowStep(n, s, s)
BY LenProperties DEF RowStep, AlongEdges, NewAttempts, Attempt

(* So is moving an open attempt along an edge, as start_step does. *)
LEMMA SetRow ==
  ASSUME NEW n, NEW s \in Attempt, NEW k \in 1..Len(s), NEW new \in StepStates,
         <<s[k], new>> \in StepEdges,
         s[k] \notin {"interrupted", "failed"}
  PROVE  RowStep(n, s, [s EXCEPT ![k] = new])
<1> DEFINE t == [s EXCEPT ![k] = new]
<1>1. /\ t \in Attempt
      /\ Len(t) = Len(s)
      /\ \A j \in 1..Len(s) : t[j] = IF j = k THEN new ELSE s[j]
  BY ExceptSeq DEF Attempt
<1>2. Len(s) \in Nat
  BY LenProperties DEF Attempt
<1> HIDE DEF t
<1>3. AlongEdges(s, t)
  BY <1>1, <1>2 DEF AlongEdges
<1>4. OnlyLastOpen(s) => OnlyLastOpen(t)
  BY <1>1, <1>2 DEF OnlyLastOpen
<1>5. NewAttempts(s, t)
  BY <1>1, <1>2 DEF NewAttempts
<1>6. QED
  BY <1>1, <1>3, <1>4, <1>5 DEF RowStep, t

(* An UPDATE by state, when the new state is allowed for the attempts before  *)
(* the last or none of those changes.                                         *)
LEMMA UpdateRow ==
  ASSUME NEW n, NEW s \in Attempt, NEW old, NEW new \in StepStates,
         \A o \in old : <<o, new>> \in StepEdges,
         new \in {"interrupted", "failed"} \/ old \intersect {"interrupted", "failed"} = {}
  PROVE  RowStep(n, s, Update(s, old, new))
<1> DEFINE t == Update(s, old, new)
<1>1. /\ t \in Attempt
      /\ Len(t) = Len(s)
      /\ \A k \in 1..Len(s) : t[k] = IF s[k] \in old THEN new ELSE s[k]
  BY UpdateProperties
<1>2. Len(s) \in Nat
  BY LenProperties DEF Attempt
<1> HIDE DEF t
<1>3. AlongEdges(s, t)
  BY <1>1, <1>2 DEF AlongEdges
<1>4. OnlyLastOpen(s) => OnlyLastOpen(t)
  BY <1>1, <1>2 DEF OnlyLastOpen
<1>5. NewAttempts(s, t)
  BY <1>1, <1>2 DEF NewAttempts
<1>6. QED
  BY <1>1, <1>3, <1>4, <1>5 DEF RowStep, t

(* So is the new attempt that retry_interrupted_step inserts. *)
LEMMA AppendRow ==
  ASSUME NEW n \in Idempotent, NEW s \in Attempt, Len(s) > 0, s[Len(s)] = "interrupted"
  PROVE  RowStep(n, s, Append(s, "queued"))
<1> DEFINE t == Append(s, "queued")
<1>1. Len(s) \in Nat
  BY LenProperties DEF Attempt
<1>2. "queued" \in StepStates
  BY DEF StepStates
<1>3. /\ t \in Attempt
      /\ Len(t) = Len(s) + 1
      /\ \A k \in 1..Len(s) : t[k] = s[k]
  BY <1>1, <1>2, AppendProperties DEF Attempt
<1> HIDE DEF t
<1>4. AlongEdges(s, t)
  BY <1>1, <1>3 DEF AlongEdges
<1>5. OnlyLastOpen(s) => OnlyLastOpen(t)
  BY <1>1, <1>3 DEF OnlyLastOpen
<1>6. NewAttempts(s, t)
  <2>1. t[Len(s) + 1] = "queued"
    BY <1>1, <1>2, AppendProperties DEF Attempt, t
  <2>2. \A k \in 1..Len(t) : k > Len(s) => k = Len(s) + 1
    BY <1>1, <1>3
  <2>3. QED
    BY <2>1, <2>2 DEF NewAttempts
<1>7. QED
  BY <1>3, <1>4, <1>5, <1>6 DEF RowStep, t

(* So is the first attempt that materialize_and_enqueue inserts, or none. *)
LEMMA CreateRow ==
  ASSUME NEW n, NEW s, s = <<>>
  PROVE  RowStep(n, s, <<"queued">>) /\ RowStep(n, s, <<>>)
<1>1. <<"queued">> \in Attempt /\ <<>> \in Attempt
  BY DEF Attempt, StepStates
<1>2. QED
  BY <1>1 DEF RowStep, AlongEdges, NewAttempts, OnlyLastOpen

-----------------------------------------------------------------------------
(* The steps, transaction by transaction *)

StepsType == steps \in [RunIds -> [Nodes -> Attempt]]

(* The strengthening that MaterializeAndEnqueue needs: it overwrites nothing. *)
UnplannedHaveNoSteps == \A r \in RunIds : r \notin planned => steps[r] = NoSteps

RowsStep ==
  /\ StepsType'
  /\ \A r \in RunIds, n \in Nodes : RowStep(n, steps[r][n], steps'[r][n])

(* A transaction that does not touch run_steps treats every row legally. *)
LEMMA RowsUnchanged ==
  ASSUME StepsType, UNCHANGED steps
  PROVE  RowsStep
<1>1. \A r \in RunIds, n \in Nodes : steps[r][n] \in Attempt
  BY DEF StepsType
<1>2. QED
  BY <1>1, SameRow DEF RowsStep, StepsType

(* The steps of one Run change, those of the others do not. *)
LEMMA RowsOfOneRun ==
  ASSUME StepsType, NEW r \in RunIds,
         NEW rows, rows \in [Nodes -> Attempt],
         steps' = [steps EXCEPT ![r] = rows],
         \A n \in Nodes : RowStep(n, steps[r][n], rows[n])
  PROVE  RowsStep
<1>1. StepsType'
  BY DEF StepsType
<1>2. ASSUME NEW q \in RunIds, NEW n \in Nodes
      PROVE  RowStep(n, steps[q][n], steps'[q][n])
  <2>1. CASE q = r
    <3>1. steps'[q] = rows
      BY <2>1 DEF StepsType
    <3>2. QED
      BY <2>1, <3>1
  <2>2. CASE q # r
    <3>1. steps'[q] = steps[q] /\ steps[q][n] \in Attempt
      BY <2>2 DEF StepsType
    <3>2. QED
      BY <3>1, SameRow
  <2>3. QED
    BY <2>1, <2>2
<1>3. QED
  BY <1>1, <1>2 DEF RowsStep

(* The attempts of one node change, those of the others do not. *)
LEMMA RowsOfOneNode ==
  ASSUME StepsType, NEW r \in RunIds, NEW n \in Nodes,
         NEW row \in Attempt,
         steps' = [steps EXCEPT ![r][n] = row],
         RowStep(n, steps[r][n], row)
  PROVE  RowsStep
<1> DEFINE rows == [steps[r] EXCEPT ![n] = row]
<1>1. steps[r] \in [Nodes -> Attempt]
  BY DEF StepsType
<1>2. rows \in [Nodes -> Attempt] /\ steps' = [steps EXCEPT ![r] = rows]
  BY <1>1
<1>3. ASSUME NEW m \in Nodes
      PROVE  RowStep(m, steps[r][m], rows[m])
  <2>1. CASE m = n
    BY <1>1, <2>1
  <2>2. CASE m # n
    <3>1. rows[m] = steps[r][m] /\ steps[r][m] \in Attempt
      BY <1>1, <2>2
    <3>2. QED
      BY <3>1, SameRow
  <2>3. QED
    BY <2>1, <2>2
<1> HIDE DEF rows
<1>4. QED
  BY <1>2, <1>3, RowsOfOneRun

(* One attempt moves along an edge: start_step, finish_step, cancel_step. *)
LEMMA RowsOfOneAttempt ==
  ASSUME StepsType, NEW r \in RunIds, NEW n \in Nodes, NEW k \in 1..Len(steps[r][n]),
         NEW new \in StepStates, SetStep(r, n, k, new),
         <<steps[r][n][k], new>> \in StepEdges,
         steps[r][n][k] \notin {"interrupted", "failed"}
  PROVE  RowsStep
<1> DEFINE row == [steps[r][n] EXCEPT ![k] = new]
<1>1. steps[r][n] \in Attempt
  BY DEF StepsType
<1>2. RowStep(n, steps[r][n], row)
  BY <1>1, SetRow
<1>3. row \in Attempt
  BY <1>2 DEF RowStep
<1>4. steps' = [steps EXCEPT ![r][n] = row]
  BY DEF SetStep
<1> HIDE DEF row
<1>5. QED
  BY <1>2, <1>3, <1>4, RowsOfOneNode

(* All the attempts of a Run in some states move to another: cancel. *)
LEMMA RowsOfRewrite ==
  ASSUME StepsType, NEW r \in RunIds, NEW old, NEW new \in StepStates,
         \A o \in old : <<o, new>> \in StepEdges,
         new \in {"interrupted", "failed"} \/ old \intersect {"interrupted", "failed"} = {}
  PROVE  /\ Rewritten(r, old, new) \in [Nodes -> Attempt]
         /\ \A n \in Nodes : RowStep(n, steps[r][n], Rewritten(r, old, new)[n])
<1>1. steps[r] \in [Nodes -> Attempt]
  BY DEF StepsType
<1>2. /\ Rewritten(r, old, new) \in [Nodes -> Attempt]
      /\ \A n \in Nodes : Rewritten(r, old, new)[n] = Update(steps[r][n], old, new)
  BY <1>1, RewrittenProperties
<1>3. \A n \in Nodes : RowStep(n, steps[r][n], Update(steps[r][n], old, new))
  BY <1>1, UpdateRow
<1>4. QED
  BY <1>2, <1>3

(* What _recover_one does to the attempts of a Run. *)
LEMMA RowsOfRecovery ==
  ASSUME StepsType, NEW r \in RunIds
  PROVE  /\ RecoveredSteps(r) \in [Nodes -> Attempt]
         /\ \A n \in Nodes : RowStep(n, steps[r][n], RecoveredSteps(r)[n])
<1>1. CASE state[r] = "composing"
  <2>1. RecoveredSteps(r) = steps[r] /\ steps[r] \in [Nodes -> Attempt]
    BY <1>1 DEF RecoveredSteps, StepsType
  <2>2. QED
    BY <2>1, SameRow
<1>2. CASE state[r] # "composing" /\ Unrepeatable(r)
  <2>1. RecoveredSteps(r) = Rewritten(r, {"running", "interrupted"}, "failed")
    BY <1>2 DEF RecoveredSteps
  <2>2. /\ "failed" \in StepStates
        /\ \A o \in {"running", "interrupted"} : <<o, "failed">> \in StepEdges
    BY DEF StepStates, StepEdges
  <2>3. QED
    BY <2>1, <2>2, RowsOfRewrite
<1>3. CASE state[r] # "composing" /\ ~Unrepeatable(r)
  <2>1. RecoveredSteps(r) = Rewritten(r, {"running"}, "interrupted")
    BY <1>3 DEF RecoveredSteps
  <2>2. /\ "interrupted" \in StepStates
        /\ \A o \in {"running"} : <<o, "interrupted">> \in StepEdges
    BY DEF StepStates, StepEdges
  <2>3. QED
    BY <2>1, <2>2, RowsOfRewrite
<1>4. QED
  BY <1>1, <1>2, <1>3

(* The same for a transaction that recovers several Runs. *)
LEMMA RowsOfRecoverRuns ==
  ASSUME StepsType, NEW S \in SUBSET RunIds, RecoverRuns(S)
  PROVE  RowsStep
<1>1. steps' = [r \in RunIds |-> IF r \in S THEN RecoveredSteps(r) ELSE steps[r]]
  BY DEF RecoverRuns
<1>2. StepsType'
  BY <1>1, RowsOfRecovery DEF StepsType
<1>3. ASSUME NEW r \in RunIds, NEW n \in Nodes
      PROVE  RowStep(n, steps[r][n], steps'[r][n])
  <2>1. CASE r \in S
    BY <1>1, <2>1, RowsOfRecovery
  <2>2. CASE r \notin S
    <3>1. steps'[r][n] = steps[r][n] /\ steps[r][n] \in Attempt
      BY <1>1, <2>2 DEF StepsType
    <3>2. QED
      BY <3>1, SameRow
  <2>3. QED
    BY <2>1, <2>2
<1>4. QED
  BY <1>2, <1>3 DEF RowsStep

(* A plan is stored for a Run without steps, and so loses none. *)
LEMMA RowsOfMaterialize ==
  ASSUME StepsType, UnplannedHaveNoSteps, NEW r \in RunIds, MaterializeAndEnqueue(r)
  PROVE  RowsStep
<1> DEFINE rows == [n \in Nodes |-> IF n \in Plan[r] THEN <<"queued">> ELSE <<>>]
<1>1. steps' = [steps EXCEPT ![r] = rows] /\ r \notin planned
  BY DEF MaterializeAndEnqueue
<1>2. <<"queued">> \in Attempt /\ <<>> \in Attempt
  BY DEF Attempt, StepStates
<1>3. rows \in [Nodes -> Attempt]
  BY <1>2
<1>4. ASSUME NEW n \in Nodes
      PROVE  RowStep(n, steps[r][n], rows[n])
  <2>1. steps[r][n] = <<>>
    BY <1>1 DEF UnplannedHaveNoSteps, NoSteps
  <2>2. rows[n] = <<"queued">> \/ rows[n] = <<>>
    OBVIOUS
  <2>3. QED
    BY <2>1, <2>2, CreateRow
<1> HIDE DEF rows
<1>5. QED
  BY <1>1, <1>3, <1>4, RowsOfOneRun

(* Every transaction of the store treats every attempt as RowStep says. *)
LEMMA StoreRows ==
  ASSUME StepsType, UnplannedHaveNoSteps, [StoreNext]_storeVars
  PROVE  RowsStep
<1>1. ASSUME NEW r \in RunIds, StartPlanning(r) \/ FailPlanning(r) \/ Enqueue(r)
      PROVE  RowsStep
  BY <1>1, RowsUnchanged DEF StartPlanning, FailPlanning, Enqueue
<1>2. ASSUME NEW r \in RunIds, MaterializeAndEnqueue(r)
      PROVE  RowsStep
  BY <1>2, RowsOfMaterialize
<1>3. ASSUME NEW r \in RunIds, Cancel(r)
      PROVE  RowsStep
  <2> DEFINE rows == Rewritten(r, {"queued", "running"}, "cancelled")
  <2>1. steps' = [steps EXCEPT ![r] = rows]
    BY <1>3 DEF Cancel
  <2>2. /\ "cancelled" \in StepStates
        /\ \A o \in {"queued", "running"} : <<o, "cancelled">> \in StepEdges
    BY DEF StepStates, StepEdges
  <2>3. /\ rows \in [Nodes -> Attempt]
        /\ \A n \in Nodes : RowStep(n, steps[r][n], rows[n])
    BY <2>2, RowsOfRewrite
  <2> HIDE DEF rows
  <2>4. QED
    BY <2>1, <2>3, RowsOfOneRun
<1>4. ASSUME NEW r \in RunIds, NEW w \in Workers,
             \/ ClaimNext(r, w) \/ Heartbeat(r, w)
             \/ CompleteOutput(r, w) \/ FailComposition(r, w)
             \/ \E target \in {"composing", "failed"} : FinishRun(r, w, target)
      PROVE  RowsStep
  BY <1>4, RowsUnchanged DEF ClaimNext, Heartbeat, CompleteOutput, FailComposition, FinishRun
<1>5. ASSUME NEW r \in RunIds, NEW w \in Workers, AbandonClaim(r, w)
      PROVE  RowsStep
  <2>1. CASE UNCHANGED storeVars
    BY <2>1, RowsUnchanged DEF storeVars
  <2>2. CASE RecoverRuns({r})
    BY <2>2, RowsOfRecoverRuns
  <2>3. QED
    BY <1>5, <2>1, <2>2 DEF AbandonClaim
<1>6. ASSUME NEW r \in RunIds, NEW w \in Workers, NEW n \in Nodes,
             NEW k \in 1..Len(steps[r][n]), RetryInterruptedStep(r, w, n, k)
      PROVE  RowsStep
  <2>1. steps[r][n] \in Attempt
    BY DEF StepsType
  <2>2. /\ n \in Idempotent
        /\ Len(steps[r][n]) > 0
        /\ steps[r][n][Len(steps[r][n])] = "interrupted"
        /\ steps' = [steps EXCEPT ![r][n] = Append(steps[r][n], "queued")]
    BY <1>6 DEF RetryInterruptedStep, Latest
  <2>3. RowStep(n, steps[r][n], Append(steps[r][n], "queued"))
    BY <2>1, <2>2, AppendRow
  <2>4. Append(steps[r][n], "queued") \in Attempt
    BY <2>3 DEF RowStep
  <2>5. QED
    BY <2>2, <2>3, <2>4, RowsOfOneNode
<1>7. ASSUME NEW r \in RunIds, NEW w \in Workers, NEW n \in Nodes,
             NEW k \in 1..Len(steps[r][n]),
             \/ StartStep(r, w, n, k)
             \/ CancelStep(r, w, n, k)
             \/ \E outcome \in {"completed", "failed"} : FinishStep(r, w, n, k, outcome)
      PROVE  RowsStep
  <2>1. \E new \in StepStates :
          /\ SetStep(r, n, k, new)
          /\ <<steps[r][n][k], new>> \in StepEdges
          /\ steps[r][n][k] \notin {"interrupted", "failed"}
    BY <1>7 DEF StartStep, CancelStep, FinishStep, StepStates, StepEdges
  <2>2. QED
    BY <2>1, RowsOfOneAttempt
<1>8. CASE RecoverExpired
  <2>1. RecoverRuns(Expired) /\ Expired \in SUBSET RunIds
    BY <1>8 DEF RecoverExpired, Expired
  <2>2. QED
    BY <2>1, RowsOfRecoverRuns
<1>9. CASE Tick \/ UNCHANGED storeVars
  BY <1>9, RowsUnchanged DEF Tick, storeVars
<1>10. QED
  BY <1>1, <1>2, <1>3, <1>4, <1>5, <1>6, <1>7, <1>8, <1>9 DEF StoreNext

-----------------------------------------------------------------------------
(* The Runs, transaction by transaction *)

RunType ==
  /\ state \in [RunIds -> RunStates]
  /\ revision \in [RunIds -> Nat]
  /\ owner \in [RunIds -> Workers \union {NoWorker}]
  /\ lease \in [RunIds -> 0..LeaseLen]
  /\ ahead \in [RunIds -> SUBSET RunIds]
  /\ planned \in SUBSET RunIds
  /\ output \in [RunIds -> BOOLEAN]

RunRows == RunType /\ OwnershipMatchesState

(* Recovery keeps the rows of runs typed, and frees what it recovers. *)
LEMMA RunRowsOfRecovery ==
  ASSUME RunRows, NEW S \in SUBSET RunIds, RecoverRuns(S)
  PROVE  RunRows'
<1>1. /\ state' = [r \in RunIds |-> IF r \in S THEN Recovered(r) ELSE state[r]]
      /\ revision' = [r \in RunIds |->
           IF r \in S THEN revision[r] + (IF state[r] = "composing" THEN 1 ELSE 2)
           ELSE revision[r]]
      /\ owner' = [r \in RunIds |-> IF r \in S THEN NoWorker ELSE owner[r]]
      /\ lease' = [r \in RunIds |-> IF r \in S THEN 0 ELSE lease[r]]
      /\ UNCHANGED <<planned, output>>
  BY DEF RecoverRuns
<1>2. \A r \in RunIds : Recovered(r) \in {"failed", "queued"}
  BY DEF Recovered
<1>3. ahead' \in [RunIds -> SUBSET RunIds]
  <2>1. PICK rank : ahead' = [r \in RunIds |->
           IF r \in {p \in S : Recovered(p) = "queued"}
           THEN Queued \union {q \in {p \in S : Recovered(p) = "queued"} : rank[q] < rank[r]}
           ELSE ahead[r]]
    BY DEF RecoverRuns
  <2>2. QED
    BY <2>1 DEF RunRows, RunType, Queued
<1>4. RunType'
  <2>1. state' \in [RunIds -> RunStates]
    BY <1>1, <1>2 DEF RunRows, RunType, RunStates
  <2>2. revision' \in [RunIds -> Nat]
    BY <1>1 DEF RunRows, RunType
  <2>3. /\ owner' \in [RunIds -> Workers \union {NoWorker}]
        /\ lease' \in [RunIds -> 0..LeaseLen]
    BY <1>1, LeaseAssumption DEF RunRows, RunType
  <2>4. QED
    BY <1>1, <1>3, <2>1, <2>2, <2>3 DEF RunRows, RunType
<1>5. OwnershipMatchesState'
  BY <1>1, <1>2 DEF RunRows, RunType, OwnershipMatchesState, Leased
<1>6. QED
  BY <1>4, <1>5 DEF RunRows

(* Every transaction keeps the rows of runs typed and owned by their state. *)
LEMMA StoreRunRows ==
  ASSUME RunRows, [StoreNext]_storeVars
  PROVE  RunRows'
<1> USE WorkerAssumption, LeaseAssumption
    DEF RunRows, RunType, OwnershipMatchesState, RunStates, Leased
<1>1. ASSUME NEW r \in RunIds, StartPlanning(r)
      PROVE  RunRows'
  BY <1>1 DEF StartPlanning, Transition
<1>2. ASSUME NEW r \in RunIds, FailPlanning(r)
      PROVE  RunRows'
  BY <1>2 DEF FailPlanning, Transition, Release
<1>3. ASSUME NEW r \in RunIds, MaterializeAndEnqueue(r)
      PROVE  RunRows'
  BY <1>3 DEF MaterializeAndEnqueue, Transition, Release, JoinQueue, Queued
<1>4. ASSUME NEW r \in RunIds, Enqueue(r)
      PROVE  RunRows'
  BY <1>4 DEF Enqueue, Transition, Release, JoinQueue, Queued
<1>5. ASSUME NEW r \in RunIds, Cancel(r)
      PROVE  RunRows'
  BY <1>5 DEF Cancel, Transition, Release, LeaveQueue
<1>6. ASSUME NEW r \in RunIds, NEW w \in Workers, ClaimNext(r, w)
      PROVE  RunRows'
  BY <1>6 DEF ClaimNext, Transition, LeaveQueue
<1>7. ASSUME NEW r \in RunIds, NEW w \in Workers, Heartbeat(r, w)
      PROVE  RunRows'
  BY <1>7 DEF Heartbeat, CanRenew
<1>8. ASSUME NEW r \in RunIds, NEW w \in Workers, AbandonClaim(r, w)
      PROVE  RunRows'
  BY <1>8, RunRowsOfRecovery DEF AbandonClaim, storeVars
<1>9. ASSUME NEW r \in RunIds, NEW w \in Workers, CompleteOutput(r, w)
      PROVE  RunRows'
  BY <1>9 DEF CompleteOutput, Transition, Release
<1>10. ASSUME NEW r \in RunIds, NEW w \in Workers, FailComposition(r, w)
       PROVE  RunRows'
  BY <1>10 DEF FailComposition, Transition, Release
<1>11. ASSUME NEW r \in RunIds, NEW w \in Workers, NEW target \in {"composing", "failed"},
              FinishRun(r, w, target)
       PROVE  RunRows'
  BY <1>11 DEF FinishRun, Owns, Transition, Release
<1>12. ASSUME NEW r \in RunIds, NEW w \in Workers, NEW n \in Nodes,
              NEW k \in 1..Len(steps[r][n]),
              \/ RetryInterruptedStep(r, w, n, k) \/ StartStep(r, w, n, k)
              \/ CancelStep(r, w, n, k)
              \/ \E outcome \in {"completed", "failed"} : FinishStep(r, w, n, k, outcome)
       PROVE  RunRows'
  BY <1>12 DEF RetryInterruptedStep, StartStep, CancelStep, FinishStep
<1>13. CASE RecoverExpired
  BY <1>13, RunRowsOfRecovery DEF RecoverExpired, Expired
<1>14. CASE Tick
  BY <1>14 DEF Tick
<1>15. CASE UNCHANGED storeVars
  BY <1>15 DEF storeVars
<1>16. QED
  BY <1>1, <1>2, <1>3, <1>4, <1>5, <1>6, <1>7, <1>8, <1>9, <1>10, <1>11, <1>12,
     <1>13, <1>14, <1>15 DEF StoreNext

-----------------------------------------------------------------------------
(* Runs without a plan have no steps, so that materializing loses none. *)

(* An UPDATE of the steps of a Run that has none changes nothing. *)
LEMMA RewrittenNothing ==
  ASSUME NEW r, NEW old, NEW new, steps[r] = NoSteps
  PROVE  Rewritten(r, old, new) = NoSteps
<1>1. \A n \in Nodes : steps[r][n] = <<>>
  BY DEF NoSteps
<1>2. \A n \in Nodes :
        [k \in 1..Len(steps[r][n]) |-> IF steps[r][n][k] \in old THEN new ELSE steps[r][n][k]] = <<>>
  BY <1>1
<1>3. QED
  BY <1>2 DEF Rewritten, NoSteps

(* Nor does the recovery of such a Run. *)
LEMMA RecoveredNothing ==
  ASSUME NEW r, steps[r] = NoSteps
  PROVE  RecoveredSteps(r) = NoSteps
BY RewrittenNothing DEF RecoveredSteps

(* Recovery makes no steps for a Run without a plan. *)
LEMMA UnplannedRecovery ==
  ASSUME StepsType, UnplannedHaveNoSteps, NEW S \in SUBSET RunIds, RecoverRuns(S)
  PROVE  UnplannedHaveNoSteps'
<1>1. /\ steps' = [r \in RunIds |-> IF r \in S THEN RecoveredSteps(r) ELSE steps[r]]
      /\ planned' = planned
  BY DEF RecoverRuns
<1>2. ASSUME NEW r \in RunIds, r \notin planned
      PROVE  steps'[r] = NoSteps
  BY <1>1, <1>2, RecoveredNothing DEF UnplannedHaveNoSteps
<1>3. QED
  BY <1>1, <1>2 DEF UnplannedHaveNoSteps, NoSteps

(* Nor does any other transaction. *)
LEMMA UnplannedPreserved ==
  ASSUME StepsType, UnplannedHaveNoSteps, [StoreNext]_storeVars
  PROVE  UnplannedHaveNoSteps'
<1> USE DEF UnplannedHaveNoSteps, NoSteps, StepsType
<1>1. ASSUME NEW r \in RunIds,
             StartPlanning(r) \/ FailPlanning(r) \/ Enqueue(r)
      PROVE  UnplannedHaveNoSteps'
  BY <1>1 DEF StartPlanning, FailPlanning, Enqueue
<1>2. ASSUME NEW r \in RunIds, MaterializeAndEnqueue(r)
      PROVE  UnplannedHaveNoSteps'
  <2>1. /\ planned' = planned \union {r}
        /\ \A q \in RunIds : q # r => steps'[q] = steps[q]
    BY <1>2 DEF MaterializeAndEnqueue
  <2>2. QED
    BY <2>1
<1>3. ASSUME NEW r \in RunIds, Cancel(r)
      PROVE  UnplannedHaveNoSteps'
  <2> DEFINE rows == Rewritten(r, {"queued", "running"}, "cancelled")
  <2>1. steps' = [steps EXCEPT ![r] = rows] /\ planned' = planned
    BY <1>3 DEF Cancel
  <2>2. steps[r] = NoSteps => rows = NoSteps
    BY RewrittenNothing
  <2> HIDE DEF rows
  <2>3. QED
    BY <2>1, <2>2
<1>4. ASSUME NEW r \in RunIds, NEW w \in Workers,
             \/ ClaimNext(r, w) \/ Heartbeat(r, w)
             \/ CompleteOutput(r, w) \/ FailComposition(r, w)
             \/ \E target \in {"composing", "failed"} : FinishRun(r, w, target)
      PROVE  UnplannedHaveNoSteps'
  BY <1>4 DEF ClaimNext, Heartbeat, CompleteOutput, FailComposition, FinishRun
<1>5. ASSUME NEW r \in RunIds, NEW w \in Workers, AbandonClaim(r, w)
      PROVE  UnplannedHaveNoSteps'
  BY <1>5, UnplannedRecovery DEF AbandonClaim, storeVars
<1>6. ASSUME NEW r \in RunIds, NEW w \in Workers, NEW n \in Nodes,
             NEW k \in 1..Len(steps[r][n]),
             \/ RetryInterruptedStep(r, w, n, k) \/ StartStep(r, w, n, k)
             \/ CancelStep(r, w, n, k)
             \/ \E outcome \in {"completed", "failed"} : FinishStep(r, w, n, k, outcome)
      PROVE  UnplannedHaveNoSteps'
  <2>1. Len(steps[r][n]) > 0
    BY LenProperties DEF Attempt
  <2>2. r \in planned
    BY <2>1
  <2>3. /\ planned' = planned
        /\ \A q \in RunIds : q # r => steps'[q] = steps[q]
    BY <1>6 DEF RetryInterruptedStep, StartStep, CancelStep, FinishStep, SetStep
  <2>4. QED
    BY <2>2, <2>3
<1>7. CASE RecoverExpired
  BY <1>7, UnplannedRecovery DEF RecoverExpired, Expired
<1>8. CASE Tick \/ UNCHANGED storeVars
  BY <1>8 DEF Tick, storeVars
<1>9. QED
  BY <1>1, <1>2, <1>3, <1>4, <1>5, <1>6, <1>7, <1>8 DEF StoreNext

-----------------------------------------------------------------------------
(* The invariant *)

(* OwnershipMatchesState is what makes a claim recoverable; AttemptsWellFormed *)
(* and the steps of unplanned Runs are what keeps raw UPDATEs on the edges.    *)
IInv ==
  /\ RunRows
  /\ StepsType
  /\ UnplannedHaveNoSteps
  /\ AttemptsWellFormed

(* The empty database satisfies the invariant. *)
LEMMA InvariantInitially == StoreInit => IInv
<1> SUFFICES ASSUME StoreInit
             PROVE  IInv
  OBVIOUS
<1>1. RunRows
  BY LeaseAssumption
     DEF StoreInit, RunRows, RunType, OwnershipMatchesState, RunStates, Leased
<1>2. \A r \in RunIds : steps[r] = NoSteps
  BY DEF StoreInit
<1>3. <<>> \in Attempt
  BY DEF Attempt
<1>4. StepsType /\ UnplannedHaveNoSteps
  BY <1>2, <1>3 DEF StoreInit, StepsType, UnplannedHaveNoSteps, NoSteps
<1>5. AttemptsWellFormed
  BY <1>2 DEF AttemptsWellFormed, NoSteps
<1>6. QED
  BY <1>1, <1>4, <1>5 DEF IInv

(* Legal changes of every row keep the attempts well formed. *)
LEMMA AttemptsPreserved ==
  ASSUME IInv, RowsStep
  PROVE  AttemptsWellFormed'
<1> SUFFICES ASSUME NEW r \in RunIds, NEW n \in Nodes
             PROVE  /\ OnlyLastOpen(steps'[r][n])
                    /\ n \notin Idempotent => Len(steps'[r][n]) <= 1
  BY DEF AttemptsWellFormed, OnlyLastOpen
<1>1. /\ OnlyLastOpen(steps[r][n])
      /\ n \notin Idempotent => Len(steps[r][n]) <= 1
  BY DEF IInv, AttemptsWellFormed, OnlyLastOpen
<1>2. RowStep(n, steps[r][n], steps'[r][n])
  BY DEF RowsStep
<1>3. QED
  BY <1>1, <1>2 DEF RowStep

(* Every transaction keeps the invariant. *)
LEMMA InvariantPreserved == IInv /\ [StoreNext]_storeVars => IInv'
<1> SUFFICES ASSUME IInv, [StoreNext]_storeVars
             PROVE  IInv'
  OBVIOUS
<1>1. RowsStep
  BY StoreRows DEF IInv
<1>2. RunRows'
  BY StoreRunRows DEF IInv
<1>3. UnplannedHaveNoSteps'
  BY UnplannedPreserved DEF IInv
<1>4. AttemptsWellFormed'
  BY <1>1, AttemptsPreserved
<1>5. QED
  BY <1>1, <1>2, <1>3, <1>4 DEF IInv, RowsStep

(* The inductive invariant of the three stores, which the rest follow from. *)
THEOREM StoreInvariant == StoreSpec => []IInv
BY InvariantInitially, InvariantPreserved, PTL DEF StoreSpec

(* The rows of runs, run_steps, run_execution_plans and run_outputs hold      *)
(* values of their columns' types after every transaction.                    *)
THEOREM StoreTypeCorrect == StoreSpec => []StoreTypeOK
<1>1. IInv => StoreTypeOK
  BY DEF IInv, RunRows, RunType, StepsType, Attempt, StoreTypeOK
<1>2. QED
  BY <1>1, StoreInvariant, PTL

(* A Run carries a worker exactly while it runs or composes: whatever         *)
(* transactions raced, recover_expired sees every claim and no finished or    *)
(* queued Run looks claimed.                                                  *)
THEOREM OwnershipCorrect == StoreSpec => []OwnershipMatchesState
<1>1. IInv => OwnershipMatchesState
  BY DEF IInv, RunRows
<1>2. QED
  BY <1>1, StoreInvariant, PTL

(* Only the last attempt of a node is open, and a node that may not be        *)
(* repeated is attempted once: recovery never runs a completed or an          *)
(* unrepeatable step again.                                                   *)
THEOREM AttemptsCorrect == StoreSpec => []AttemptsWellFormed
<1>1. IInv => AttemptsWellFormed
  BY DEF IInv
<1>2. QED
  BY <1>1, StoreInvariant, PTL

(* The raw UPDATEs of the three stores keep every attempt, and move it along  *)
(* the edges of domain/runs.py.                                               *)
THEOREM StepsAlongEdges == StoreSpec => StepsFollowDomain
<1> DEFINE StepsMove ==
      \A r \in RunIds, n \in Nodes :
        /\ Len(steps'[r][n]) >= Len(steps[r][n])
        /\ \A k \in 1..Len(steps[r][n]) :
             \/ steps'[r][n][k] = steps[r][n][k]
             \/ <<steps[r][n][k], steps'[r][n][k]>> \in StepEdges
<1>1. IInv /\ [StoreNext]_storeVars => [StepsMove]_storeVars
  <2> SUFFICES ASSUME IInv, [StoreNext]_storeVars
               PROVE  StepsMove
    OBVIOUS
  <2>1. RowsStep
    BY StoreRows DEF IInv
  <2>2. QED
    BY <2>1 DEF RowsStep, RowStep, AlongEdges
<1>2. QED
  BY <1>1, StoreInvariant, PTL DEF StoreSpec, StepsFollowDomain

-----------------------------------------------------------------------------
(* What one transaction does to a terminal Run, and to any Run *)

Frozen(r) ==
  /\ state'[r] = state[r]
  /\ steps'[r] = steps[r]
  /\ owner'[r] = owner[r]
  /\ output'[r] = output[r]

(* Recovery leaves alone the Runs that it does not recover. *)
LEMMA RecoveryFreezesOthers ==
  ASSUME IInv, NEW S \in SUBSET RunIds, RecoverRuns(S), NEW q \in RunIds, q \notin S
  PROVE  Frozen(q)
BY DEF RecoverRuns, Frozen

(* No transaction touches a terminal Run. *)
LEMMA TerminalStep ==
  ASSUME IInv, [StoreNext]_storeVars, NEW q \in RunIds, state[q] \in Terminal
  PROVE  Frozen(q)
<1> USE DEF IInv, RunRows, RunType, StepsType, Frozen, Terminal
<1>1. ASSUME NEW r \in RunIds,
             \/ StartPlanning(r) \/ FailPlanning(r) \/ MaterializeAndEnqueue(r)
             \/ Enqueue(r) \/ Cancel(r)
      PROVE  Frozen(q)
  <2>1. q # r
    BY <1>1 DEF StartPlanning, FailPlanning, MaterializeAndEnqueue, Enqueue, Cancel
  <2>2. QED
    BY <1>1, <2>1 DEF StartPlanning, FailPlanning, MaterializeAndEnqueue, Enqueue, Cancel,
                      Transition, Release
<1>2. ASSUME NEW r \in RunIds, NEW w \in Workers,
             \/ ClaimNext(r, w) \/ Heartbeat(r, w)
             \/ CompleteOutput(r, w) \/ FailComposition(r, w)
             \/ \E target \in {"composing", "failed"} : FinishRun(r, w, target)
      PROVE  Frozen(q)
  <2>1. q # r
    BY <1>2 DEF ClaimNext, Heartbeat, CanRenew, CompleteOutput, FailComposition, FinishRun,
                Owns, Leased
  <2>2. QED
    BY <1>2, <2>1 DEF ClaimNext, Heartbeat, CompleteOutput, FailComposition, FinishRun,
                      Transition, Release
<1>3. ASSUME NEW r \in RunIds, NEW w \in Workers, AbandonClaim(r, w)
      PROVE  Frozen(q)
  <2>1. CASE UNCHANGED storeVars
    BY <2>1 DEF storeVars
  <2>2. CASE state[r] \in Leased /\ RecoverRuns({r})
    <3>1. {r} \in SUBSET RunIds /\ q \notin {r}
      BY <2>2 DEF Leased
    <3> HIDE DEF IInv, Frozen
    <3>2. QED
      BY <2>2, <3>1, RecoveryFreezesOthers
  <2>3. QED
    BY <1>3, <2>1, <2>2 DEF AbandonClaim
<1>4. ASSUME NEW r \in RunIds, NEW w \in Workers, NEW n \in Nodes,
             NEW k \in 1..Len(steps[r][n]),
             \/ RetryInterruptedStep(r, w, n, k) \/ StartStep(r, w, n, k)
             \/ CancelStep(r, w, n, k)
             \/ \E outcome \in {"completed", "failed"} : FinishStep(r, w, n, k, outcome)
      PROVE  Frozen(q)
  <2>1. q # r
    BY <1>4 DEF RetryInterruptedStep, StartStep, CancelStep, FinishStep, Owns
  <2>2. QED
    BY <1>4, <2>1 DEF RetryInterruptedStep, StartStep, CancelStep, FinishStep, SetStep
<1>5. CASE RecoverExpired
  <2>1. RecoverRuns(Expired) /\ Expired \in SUBSET RunIds /\ q \notin Expired
    BY <1>5 DEF RecoverExpired, Expired, Leased
  <2>2. QED
    BY <2>1, RecoveryFreezesOthers
<1>6. CASE Tick \/ UNCHANGED storeVars
  BY <1>6 DEF Tick, storeVars
<1>7. QED
  BY <1>1, <1>2, <1>3, <1>4, <1>5, <1>6 DEF StoreNext

(* Once a Run is terminal, no late write, recovery or retry touches it. *)
THEOREM TerminalRunsFrozen == StoreSpec => TerminalFrozen
<1>1. IInv /\ [StoreNext]_storeVars =>
        [\A r \in RunIds : state[r] \in Terminal =>
           /\ state'[r] = state[r]
           /\ steps'[r] = steps[r]
           /\ owner'[r] = owner[r]
           /\ output'[r] = output[r]]_storeVars
  BY TerminalStep DEF Frozen
<1>2. QED
  BY <1>1, StoreInvariant, PTL DEF StoreSpec, TerminalFrozen

-----------------------------------------------------------------------------
(* Refinement: every transaction is a step of the Run lifecycle or a stutter. *)

(* _persist_transition along an edge is one step of the lifecycle. *)
LEMMA LifecycleOfTransition ==
  ASSUME RunType, NEW r \in RunIds, NEW target, Transition(r, target), UNCHANGED output,
         <<state[r], target>> \in RunEdges, target # "interrupted",
         <<state[r], target>> # <<"composing", "completed">>
  PROVE  Lifecycle!Next
<1>1. state' = [state EXCEPT ![r] = target] /\ revision' = [revision EXCEPT ![r] = revision[r] + 1]
  BY DEF Transition
<1>2. Lifecycle!Advance(r)
  BY <1>1 DEF Lifecycle!Advance, RunType, RunEdges, Lifecycle!RunEdges
<1>3. \A q \in RunIds : q # r => Lifecycle!Stay(q)
  BY <1>1 DEF Lifecycle!Stay, RunType
<1>4. QED
  BY <1>2, <1>3 DEF Lifecycle!Next

(* A recovery takes every recovered Run along the lifecycle at once. *)
LEMMA LifecycleOfRecovery ==
  ASSUME RunType, NEW S \in SUBSET RunIds, RecoverRuns(S), \A r \in S : state[r] \in Leased
  PROVE  Lifecycle!Next
<1>1. /\ state' = [r \in RunIds |-> IF r \in S THEN Recovered(r) ELSE state[r]]
      /\ revision' = [r \in RunIds |->
           IF r \in S THEN revision[r] + (IF state[r] = "composing" THEN 1 ELSE 2)
           ELSE revision[r]]
      /\ output' = output
  BY DEF RecoverRuns
<1>2. ASSUME NEW r \in RunIds, r \notin S
      PROVE  Lifecycle!Stay(r)
  BY <1>1, <1>2 DEF Lifecycle!Stay
<1>3. ASSUME NEW r \in S, state[r] = "composing"
      PROVE  Lifecycle!Advance(r)
  <2>1. state'[r] = "failed" /\ revision'[r] = revision[r] + 1 /\ output'[r] = output[r]
    BY <1>1, <1>3 DEF Recovered
  <2>2. QED
    BY <1>3, <2>1 DEF Lifecycle!Advance, Lifecycle!RunEdges, RunType
<1>4. ASSUME NEW r \in S, state[r] # "composing"
      PROVE  Lifecycle!Recover(r)
  <2>1. /\ state[r] = "running"
        /\ state'[r] \in {"failed", "queued"}
        /\ revision'[r] = revision[r] + 2
        /\ output'[r] = output[r]
    BY <1>1, <1>4 DEF Recovered, Leased
  <2>2. QED
    BY <2>1 DEF Lifecycle!Recover, Lifecycle!RunEdges
<1>5. QED
  BY <1>2, <1>3, <1>4 DEF Lifecycle!Next

(* Every transaction is a step of the lifecycle, or invisible in it. *)
LEMMA LifecycleStep ==
  ASSUME RunType, [StoreNext]_storeVars
  PROVE  [Lifecycle!Next]_(Lifecycle!vars)
<1> USE DEF RunType, RunEdges
<1>1. ASSUME NEW r \in RunIds, StartPlanning(r)
      PROVE  Lifecycle!Next
  BY <1>1, LifecycleOfTransition DEF StartPlanning
<1>2. ASSUME NEW r \in RunIds, FailPlanning(r)
      PROVE  Lifecycle!Next
  BY <1>2, LifecycleOfTransition DEF FailPlanning
<1>3. ASSUME NEW r \in RunIds, MaterializeAndEnqueue(r)
      PROVE  Lifecycle!Next
  BY <1>3, LifecycleOfTransition DEF MaterializeAndEnqueue
<1>4. ASSUME NEW r \in RunIds, Enqueue(r)
      PROVE  Lifecycle!Next
  BY <1>4, LifecycleOfTransition DEF Enqueue
<1>5. ASSUME NEW r \in RunIds, Cancel(r)
      PROVE  Lifecycle!Next
  BY <1>5, LifecycleOfTransition DEF Cancel
<1>6. ASSUME NEW r \in RunIds, NEW w \in Workers, ClaimNext(r, w)
      PROVE  Lifecycle!Next
  BY <1>6, LifecycleOfTransition DEF ClaimNext
<1>7. ASSUME NEW r \in RunIds, NEW w \in Workers, AbandonClaim(r, w)
      PROVE  [Lifecycle!Next]_(Lifecycle!vars)
  BY <1>7, LifecycleOfRecovery DEF AbandonClaim, storeVars, Lifecycle!vars
<1>8. ASSUME NEW r \in RunIds, NEW w \in Workers, CompleteOutput(r, w)
      PROVE  Lifecycle!Next
  <2>1. /\ state[r] = "composing"
        /\ state' = [state EXCEPT ![r] = "completed"]
        /\ revision' = [revision EXCEPT ![r] = revision[r] + 1]
        /\ output' = [output EXCEPT ![r] = TRUE]
    BY <1>8 DEF CompleteOutput, Owns, Transition
  <2>2. Lifecycle!Advance(r)
    BY <2>1 DEF Lifecycle!Advance, Lifecycle!RunEdges
  <2>3. \A q \in RunIds : q # r => Lifecycle!Stay(q)
    BY <2>1 DEF Lifecycle!Stay
  <2>4. QED
    BY <2>2, <2>3 DEF Lifecycle!Next
<1>9. ASSUME NEW r \in RunIds, NEW w \in Workers, FailComposition(r, w)
      PROVE  Lifecycle!Next
  BY <1>9, LifecycleOfTransition DEF FailComposition, Owns
<1>10. ASSUME NEW r \in RunIds, NEW w \in Workers, NEW target \in {"composing", "failed"},
              FinishRun(r, w, target)
       PROVE  Lifecycle!Next
  BY <1>10, LifecycleOfTransition DEF FinishRun, Owns
<1>11. ASSUME NEW r \in RunIds, NEW w \in Workers, NEW n \in Nodes,
              NEW k \in 1..Len(steps[r][n]),
              \/ RetryInterruptedStep(r, w, n, k) \/ StartStep(r, w, n, k)
              \/ CancelStep(r, w, n, k)
              \/ \E outcome \in {"completed", "failed"} : FinishStep(r, w, n, k, outcome)
       PROVE  UNCHANGED Lifecycle!vars
  BY <1>11 DEF RetryInterruptedStep, StartStep, CancelStep, FinishStep, Lifecycle!vars
<1>12. ASSUME NEW r \in RunIds, NEW w \in Workers, Heartbeat(r, w)
       PROVE  UNCHANGED Lifecycle!vars
  BY <1>12 DEF Heartbeat, Lifecycle!vars
<1>13. CASE RecoverExpired
  BY <1>13, LifecycleOfRecovery DEF RecoverExpired, Expired
<1>14. CASE Tick \/ UNCHANGED storeVars
  BY <1>14 DEF Tick, storeVars, Lifecycle!vars
<1>15. QED
  BY <1>1, <1>2, <1>3, <1>4, <1>5, <1>6, <1>7, <1>8, <1>9, <1>10, <1>11, <1>12, <1>13, <1>14
     DEF StoreNext

(* The store implements the contract of RunLifecycle: one revision per edge,  *)
(* no visible "interrupted", terminal states final, output with completion.   *)
THEOREM StoreImplementsLifecycle == StoreSpec => LifecycleSpec
<1>1. StoreInit => Lifecycle!Init
  BY DEF StoreInit, Lifecycle!Init
<1>2. IInv /\ [StoreNext]_storeVars => [Lifecycle!Next]_(Lifecycle!vars)
  BY LifecycleStep DEF IInv, RunRows
<1>3. QED
  BY <1>1, <1>2, StoreInvariant, PTL DEF StoreSpec, LifecycleSpec, Lifecycle!Spec

=============================================================================
