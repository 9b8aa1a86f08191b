------------------------- MODULE RunSubmissionProofs -------------------------
(***************************************************************************)
(* Repeated submissions, for any number of deliveries, requests, Runs and    *)
(* ticks: the Root is asked about a Run once, a key has one Run in a          *)
(* lifetime of its record, what a reader of a Run sees is its lifecycle, a    *)
(* stream misses and repeats no event, and the limit of requests is kept.     *)
(***************************************************************************)
EXTENDS RunSubmission, FiniteSetTheorems, SequenceTheorems, WellFoundedInduction, TLAPS

(* Awaits of a delivery that was given a Run.                                 *)
Given == {"start", "interrupt", "decide", "record", "enqueue", "fail", "read", "answered"}
Awaits == {"idle", "create", "refused"} \union Given

RunColumns ==
  /\ state \in [RunIds -> RunStates]
  /\ revision \in [RunIds -> Nat]
  /\ output \in [RunIds -> BOOLEAN]
  /\ asked \in [RunIds -> Nat]

DeliveryFields ==
  /\ now \in Nat
  /\ pc \in [Deliveries -> Awaits]
  /\ carried \in [Deliveries -> Requests \union {Nothing}]
  /\ at \in [Deliveries -> Nat]
  /\ target \in [Deliveries -> RunIds \union {Nothing}]

OriginColumns == origin \in [RunIds -> [request : Requests \union {Nothing}, at : Nat]]

RecordColumns ==
  records \in [Slots -> [fingerprint : {FingerprintOf[q] : q \in Requests} \union {Nothing},
                         run : RunIds \union {Nothing}, expires : Nat]]

(* Where a delivery is, its fields say what they have to.                     *)
Placed ==
  \A d \in Deliveries :
    /\ pc[d] \in Given => target[d] \in RunIds
    /\ pc[d] = "idle" => target[d] = Nothing
    /\ pc[d] # "idle" => carried[d] \in Requests

(* The Root is asked as a Run leaves "received".                              *)
AskedOnLeaving == \A r \in RunIds : asked[r] <= 1 /\ (state[r] = "received" => asked[r] = 0)

(* A record is of the latest Run of its key.                                  *)
RecordNames(s) ==
  LET r == records[s].run IN
  records[s] # NoRecord =>
    /\ r \in RunIds /\ Exists(r)
    /\ Slot(origin[r].request) = s
    /\ records[s].fingerprint = FingerprintOf[origin[r].request]
RecordsName == \A s \in Slots : RecordNames(s)

(* No Run of a key outlives the record in time.                               *)
RecordsLatest ==
  \A r \in RunIds : Exists(r) =>
    /\ origin[r].request \in Requests
    /\ records[Slot(origin[r].request)] # NoRecord
    /\ origin[r].at + TTL <= records[Slot(origin[r].request)].expires

(* Nobody is answered with a Run that is not there.                           *)
AnswersExist == \A d \in Deliveries : target[d] # Nothing => Exists(target[d])

SInv ==
  /\ RunColumns /\ DeliveryFields /\ OriginColumns /\ RecordColumns
  /\ Placed /\ AskedOnLeaving /\ RecordsName /\ RecordsLatest /\ AnswersExist /\ OneRunPerKey

-----------------------------------------------------------------------------
(* What the parts of a step leave alone *)

(* The invariant holds before the first request.                              *)
LEMMA SubmissionInitially == Init => SInv
<1> SUFFICES ASSUME Init PROVE SInv
  OBVIOUS
<1>1. RunColumns /\ DeliveryFields /\ OriginColumns
  BY DEF Init, RunColumns, DeliveryFields, OriginColumns, RunStates, Awaits, Given, NoOrigin
<1>2. RecordColumns
  BY DEF Init, RecordColumns, NoRecord
<1>3. Placed /\ AskedOnLeaving
  BY DEF Init, Placed, AskedOnLeaving, Given
<1>4. RecordsName /\ RecordsLatest /\ AnswersExist /\ OneRunPerKey
  BY DEF Init, RecordsName, RecordNames, RecordsLatest, AnswersExist, OneRunPerKey, Exists
<1>5. QED
  BY <1>1, <1>2, <1>3, <1>4 DEF SInv

(* A delivery changes nothing of another, and goes to an await it is placed   *)
(* for.                                                                       *)
LEMMA DeliveryPlaced ==
  ASSUME SInv, NEW d \in Deliveries, Submission(d)
  PROVE  DeliveryFields' /\ Placed'
<1> USE RequestAssumption DEF SInv, DeliveryFields, Placed, Awaits, Given, Go
<1>1. ASSUME NEW q \in Requests, Blocked(d, q) \/ RateExceeded(d, q) \/ Guard(d, q)
      PROVE  DeliveryFields' /\ Placed'
  <2>1. /\ pc[d] = "idle"
        /\ pc' = [pc EXCEPT ![d] = "refused"] \/ pc' = [pc EXCEPT ![d] = "create"]
        /\ carried' = [carried EXCEPT ![d] = q]
        /\ at' = at \/ at' = [at EXCEPT ![d] = now]
        /\ UNCHANGED <<now, target>>
    BY <1>1 DEF Blocked, RateExceeded, Guard
  <2>2. QED
    BY <2>1
<1>2. CASE Replay(d)
  <2> DEFINE s == Slot(carried[d])
  <2>1. s \in Slots /\ records[s].run \in RunIds
    BY <1>2 DEF Replay, Alive, RecordsName, RecordNames, Slots, Slot
  <2>2. revision[records[s].run] \in Nat /\ Continuation(records[s].run) \in {"interrupt", "start", "read"}
    BY <2>1 DEF RunColumns, Continuation
  <2>3. QED
    BY <1>2, <2>1, <2>2 DEF Replay
<1>3. CASE Conflict(d) \/ PrincipalUnavailable(d)
  BY <1>3 DEF Conflict, PrincipalUnavailable
<1>4. ASSUME NEW r \in RunIds, Create(d, r)
      PROVE  DeliveryFields' /\ Placed'
  BY <1>4 DEF Create
<1>5. CASE StartPlanning(d)
  BY <1>5 DEF StartPlanning, RunColumns
<1>6. ASSUME NEW answer \in {"skill", "plan", "error"}, Decide(d, answer)
      PROVE  DeliveryFields' /\ Placed'
  BY <1>6 DEF Decide
<1>7. CASE RecordDecision(d) \/ Materialize(d) \/ MaterializeRefused(d)
  BY <1>7 DEF RecordDecision, Materialize, MaterializeRefused
<1>8. CASE FailPlanning(d) \/ PlanningLost(d) \/ Answer(d)
  BY <1>8 DEF FailPlanning, PlanningLost, Answer
<1>9. QED
  BY <1>1, <1>2, <1>3, <1>4, <1>5, <1>6, <1>7, <1>8 DEF Submission

(* The stream and the environment leave the deliveries alone; a crash ends    *)
(* them.                                                                      *)
LEMMA OthersPlaced ==
  ASSUME SInv, Stream \/ Environment
  PROVE  DeliveryFields' /\ Placed'
<1> USE DEF SInv, DeliveryFields, Placed, Awaits, Given, locals
<1>1. CASE Stream
  BY <1>1 DEF Stream, Open, Poll, Drop, Reconnect
<1>2. ASSUME NEW r \in RunIds, NEW to \in RunStates, Work(r, to) \/ Recover(r, to) \/ LateEvent(r)
      PROVE  DeliveryFields' /\ Placed'
  BY <1>2 DEF Work, Recover, LateEvent
<1>3. CASE Crash
  BY <1>3 DEF Crash
<1>4. CASE Tick
  BY <1>4 DEF Tick
<1>5. {"queued", "failed"} \subseteq RunStates /\ "queued" \in RunStates
  BY DEF RunStates
<1>6. QED
  BY <1>1, <1>2, <1>3, <1>4, <1>5 DEF Environment

-----------------------------------------------------------------------------
(* The Run as its readers see it *)

(* One edge of one Run is a step of the lifecycle.                            *)
LEMMA LifecycleOfMove ==
  ASSUME RunColumns, NEW r \in RunIds, NEW to \in RunStates \ {"interrupted"},
         <<state[r], to>> \in RunEdges,
         state' = [state EXCEPT ![r] = to],
         revision' = [revision EXCEPT ![r] = revision[r] + 1],
         output' = [output EXCEPT ![r] = output[r] \/ to = "completed"],
         <<state[r], to>> # <<"blocked", "completed">>
  PROVE  Lifecycle!Next
<1>1. <<state[r], to>> = <<"composing", "completed">> <=> to = "completed"
  BY DEF RunEdges
<1>2. Lifecycle!Advance(r)
  BY <1>1 DEF Lifecycle!Advance, RunColumns, RunEdges, Lifecycle!RunEdges
<1>3. \A q \in RunIds : q # r => Lifecycle!Stay(q)
  BY DEF Lifecycle!Stay, RunColumns
<1>4. QED
  BY <1>2, <1>3 DEF Lifecycle!Next

(* What a step does to the Runs: an edge or a recovery of one of them, by     *)
(* which it does not come to "received", and a question to the Root only as   *)
(* it leaves "received".                                                      *)
RunStep ==
  /\ [Lifecycle!Next]_(Lifecycle!vars)
  /\ RunColumns'
  /\ \A r \in RunIds : state'[r] = "received" => state[r] = "received"
  /\ \A r \in RunIds :
       \/ asked'[r] = asked[r]
       \/ state[r] = "received" /\ state'[r] # "received" /\ asked'[r] = asked[r] + 1

(* The Root's questions follow the edges.                                     *)
LEMMA AskedPreserved ==
  ASSUME RunColumns, AskedOnLeaving, RunStep
  PROVE  AskedOnLeaving'
BY DEF AskedOnLeaving, RunStep, RunColumns

(* A step that leaves the Runs alone.                                         *)
LEMMA StillRuns == ASSUME RunColumns, UNCHANGED <<state, revision, output, asked>> PROVE RunStep
BY DEF RunStep, RunColumns, Lifecycle!vars

(* A delivery moves its own Run along an edge.                                *)
LEMMA DeliveryRunStep ==
  ASSUME SInv, NEW d \in Deliveries, Submission(d)
  PROVE  RunStep
<1> USE DEF SInv
<1>1. ASSUME NEW q \in Requests, Blocked(d, q) \/ RateExceeded(d, q) \/ Guard(d, q)
      PROVE  RunStep
  BY <1>1, StillRuns DEF Blocked, RateExceeded, Guard, rows
<1>2. CASE Replay(d) \/ Conflict(d) \/ PrincipalUnavailable(d)
  BY <1>2, StillRuns DEF Replay, Conflict, PrincipalUnavailable, rows
<1>3. ASSUME NEW r \in RunIds, Create(d, r)
      PROVE  RunStep
  BY <1>3, StillRuns DEF Create
<1>4. CASE StartPlanning(d)
  <2> DEFINE r == target[d]
  <2>1. r \in RunIds
    BY <1>4 DEF StartPlanning, Placed, Given
  <2>2. /\ state[r] = "received" /\ state' = [state EXCEPT ![r] = "planning"]
        /\ revision' = [revision EXCEPT ![r] = revision[r] + 1]
        /\ output' = output
        /\ asked' = [asked EXCEPT ![r] = IF Explicit(carried[d]) THEN asked[r] ELSE asked[r] + 1]
    BY <1>4 DEF StartPlanning, Move
  <2>3. /\ "planning" \in RunStates \ {"interrupted"} /\ <<state[r], "planning">> \in RunEdges
        /\ output' = [output EXCEPT ![r] = output[r] \/ "planning" = "completed"]
    BY <2>1, <2>2 DEF RunColumns, RunStates, RunEdges
  <2>4. Lifecycle!Next
    BY <2>1, <2>2, <2>3, LifecycleOfMove
  <2>5. QED
    BY <2>1, <2>2, <2>4 DEF RunStep, RunColumns, RunStates
<1>5. ASSUME NEW answer \in {"skill", "plan", "error"}, Decide(d, answer)
      PROVE  RunStep
  BY <1>5, StillRuns DEF Decide, rows
<1>6. CASE RecordDecision(d)
  BY <1>6, StillRuns DEF RecordDecision, Keeps
<1>7. CASE Materialize(d) \/ FailPlanning(d)
  <2> DEFINE r == target[d]
  <2>1. r \in RunIds
    BY <1>7 DEF Materialize, FailPlanning, Placed, Given
  <2>2. PICK to \in {"queued", "failed"} :
          /\ state[r] = "planning" /\ state' = [state EXCEPT ![r] = to]
          /\ revision' = [revision EXCEPT ![r] = revision[r] + 1]
          /\ output' = output /\ asked' = asked
    BY <1>7 DEF Materialize, FailPlanning, PlansAt, Move
  <2>3. Lifecycle!Next
    <3>1. output' = [output EXCEPT ![r] = output[r] \/ to = "completed"]
      BY <2>1, <2>2 DEF RunColumns
    <3>2. to \in RunStates \ {"interrupted"} /\ <<state[r], to>> \in RunEdges
      BY <2>2 DEF RunStates, RunEdges
    <3>3. <<state[r], to>> # <<"blocked", "completed">>
      BY <2>2
    <3>4. QED
      BY <2>1, <2>2, <3>1, <3>2, <3>3, LifecycleOfMove
  <2>4. QED
    BY <2>1, <2>2, <2>3 DEF RunStep, RunColumns, RunStates
<1>8. CASE MaterializeRefused(d) \/ PlanningLost(d) \/ Answer(d)
  BY <1>8, StillRuns DEF MaterializeRefused, PlanningLost, Answer, rows
<1>9. QED
  BY <1>1, <1>2, <1>3, <1>4, <1>5, <1>6, <1>7, <1>8 DEF Submission

(* So do the workers; recovery takes two edges at once.                       *)
LEMMA OthersRunStep ==
  ASSUME SInv, Stream \/ Environment
  PROVE  RunStep
<1> USE DEF SInv
<1>1. CASE Stream
  BY <1>1, StillRuns DEF Stream, Open, Poll, Drop, Reconnect, rows
<1>2. ASSUME NEW r \in RunIds, NEW to \in RunStates, Work(r, to)
      PROVE  RunStep
  <2>1. /\ state[r] \in {"queued", "running", "composing"} /\ <<state[r], to>> \in RunEdges
        /\ to # "interrupted" /\ state' = [state EXCEPT ![r] = to]
        /\ revision' = [revision EXCEPT ![r] = revision[r] + 1]
        /\ output' = [output EXCEPT ![r] = output[r] \/ to = "completed"] /\ asked' = asked
    BY <1>2 DEF Work, Move
  <2>2. Lifecycle!Next
    BY <2>1, LifecycleOfMove
  <2>3. to # "received"
    BY <2>1 DEF RunEdges
  <2>4. QED
    BY <2>1, <2>2, <2>3 DEF RunStep, RunColumns
<1>3. ASSUME NEW r \in RunIds, NEW to \in {"queued", "failed"}, Recover(r, to)
      PROVE  RunStep
  <2>1. /\ state[r] = "running" /\ state' = [state EXCEPT ![r] = to]
        /\ revision' = [revision EXCEPT ![r] = revision[r] + 2]
        /\ output' = output /\ asked' = asked
    BY <1>3 DEF Recover
  <2>2. Lifecycle!Recover(r)
    BY <2>1 DEF Lifecycle!Recover, Lifecycle!RunEdges, RunColumns
  <2>3. \A q \in RunIds : q # r => Lifecycle!Stay(q)
    BY <2>1 DEF Lifecycle!Stay, RunColumns
  <2>4. Lifecycle!Next
    BY <2>2, <2>3 DEF Lifecycle!Next
  <2>5. QED
    BY <2>1, <2>4 DEF RunStep, RunColumns, RunStates
<1>4. ASSUME NEW r \in RunIds, LateEvent(r)
      PROVE  RunStep
  BY <1>4, StillRuns DEF LateEvent, Keeps
<1>5. CASE Crash \/ Tick
  BY <1>5, StillRuns DEF Crash, Tick, rows
<1>6. QED
  BY <1>1, <1>2, <1>3, <1>4, <1>5 DEF Environment

-----------------------------------------------------------------------------
(* Runs, records and answers *)

Answered(d) ==
  target[d] # Nothing =>
    /\ FingerprintOf[origin[target[d]].request] = FingerprintOf[carried[d]]
    /\ Slot(origin[target[d]].request) = Slot(carried[d])

Apart(r, s) ==
  Exists(r) /\ Exists(s) /\ r # s /\ Slot(origin[r].request) = Slot(origin[s].request)
    => origin[r].at >= origin[s].at + TTL \/ origin[s].at >= origin[r].at + TTL

(* OneRunPerKey, one pair of Runs and one delivery at a time.                 *)
LEMMA OneRunPerKeyByParts ==
  OneRunPerKey <=> (\A r, s \in RunIds : Apart(r, s)) /\ (\A d \in Deliveries : Answered(d))
BY DEF OneRunPerKey, Apart, Answered

Keyed ==
  OriginColumns /\ RecordColumns /\ RecordsName /\ RecordsLatest /\ AnswersExist /\ OneRunPerKey

(* Nothing but create_or_replay touches Runs' origins and records.            *)
LEMMA KeysUntouched ==
  ASSUME Keyed, UNCHANGED <<origin, records>>,
         \A d \in Deliveries : target'[d] # Nothing => target'[d] = target[d] /\ carried'[d] = carried[d]
  PROVE  Keyed'
<1>1. OriginColumns' /\ RecordColumns'
  BY DEF Keyed, OriginColumns, RecordColumns
<1>2. RecordsName' /\ RecordsLatest' /\ AnswersExist'
  BY DEF Keyed, RecordsName, RecordNames, RecordsLatest, AnswersExist, Exists
<1>3. \A r, s \in RunIds : Apart(r, s)'
  BY OneRunPerKeyByParts DEF Keyed, Apart, Exists
<1>4. \A d \in Deliveries : Answered(d)'
  BY OneRunPerKeyByParts DEF Keyed, Answered
<1>5. OneRunPerKey'
  BY <1>3, <1>4 DEF OneRunPerKey, Apart, Answered
<1>6. QED
  BY <1>1, <1>2, <1>5 DEF Keyed

(* A replay answers with the Run of a live record, whose request was the same. *)
LEMMA ReplayKeyed ==
  ASSUME SInv, NEW d \in Deliveries, Replay(d)
  PROVE  Keyed'
<1> DEFINE s == Slot(carried[d])
<1> USE DEF SInv
<1>1. /\ UNCHANGED <<origin, records, carried>>
      /\ target' = [target EXCEPT ![d] = records[s].run]
      /\ s \in Slots /\ records[s] # NoRecord
      /\ records[s].fingerprint = FingerprintOf[carried[d]]
  BY DEF Replay, Alive, rows, Placed, Slots, Slot
<1>2. OriginColumns' /\ RecordColumns' /\ RecordsName' /\ RecordsLatest'
  BY <1>1 DEF OriginColumns, RecordColumns, RecordsName, RecordNames, RecordsLatest, Exists
<1>3. \A r, q \in RunIds : Apart(r, q)'
  BY <1>1, OneRunPerKeyByParts DEF Apart, Exists
<1>4. ASSUME NEW e \in Deliveries
      PROVE  Answered(e)'
  <2>1. CASE e = d
    <3>1. target'[d] = records[s].run
      BY <1>1 DEF DeliveryFields
    <3>2. RecordNames(s)
      BY <1>1 DEF RecordsName
    <3>3. QED
      BY <1>1, <2>1, <3>1, <3>2 DEF Answered, RecordNames
  <2>2. CASE e # d
    BY <1>1, <2>2, OneRunPerKeyByParts DEF Answered, DeliveryFields
  <2>3. QED
    BY <2>1, <2>2
<1>5. OneRunPerKey'
  BY <1>3, <1>4 DEF OneRunPerKey, Apart, Answered
<1>6. AnswersExist'
  <2>1. RecordNames(s)
    BY <1>1 DEF RecordsName
  <2>2. QED
    BY <1>1, <2>1 DEF AnswersExist, RecordNames, Exists, DeliveryFields
<1>7. QED
  BY <1>2, <1>5, <1>6 DEF Keyed

(* A new Run comes when the record of its key has run out, and with it every  *)
(* Run that the key had before.                                               *)
LEMMA CreateKeyed ==
  ASSUME SInv, NEW d \in Deliveries, NEW r \in RunIds, Create(d, r)
  PROVE  Keyed'
<1> DEFINE q == carried[d]
           s == Slot(carried[d])
           made == [request |-> q, at |-> at[d]]
           record == [fingerprint |-> FingerprintOf[q], run |-> r, expires |-> at[d] + TTL]
<1> USE DEF SInv
<1>1. /\ q \in Requests /\ s \in Slots /\ at[d] \in Nat /\ TTL \in Nat
      /\ made # NoOrigin /\ record # NoRecord
  <2>1. q \in Requests /\ s \in Slots /\ at[d] \in Nat
    BY DEF Create, Placed, DeliveryFields, Slots, Slot
  <2>2. q # Nothing /\ r # Nothing /\ TTL \in Nat
    BY <2>1, RequestAssumption
  <2>3. QED
    BY <2>1, <2>2 DEF NoOrigin, NoRecord
<1>2. /\ origin' = [origin EXCEPT ![r] = made]
      /\ records' = [records EXCEPT ![s] = record]
      /\ target' = [target EXCEPT ![d] = r]
      /\ carried' = carried
      /\ ~Exists(r) /\ ~Alive(s, at[d])
  BY DEF Create
<1>3. OriginColumns' /\ RecordColumns'
  BY <1>1, <1>2 DEF OriginColumns, RecordColumns
<1>4. \A x \in RunIds : x # r => origin'[x] = origin[x] /\ (Exists(x)' <=> Exists(x))
  BY <1>2 DEF OriginColumns, Exists
<1>5. origin'[r] = made /\ Exists(r)'
  BY <1>1, <1>2 DEF OriginColumns, Exists
<1>6. \A x \in Slots : IF x = s THEN records'[x] = record ELSE records'[x] = records[x]
  BY <1>1, <1>2 DEF RecordColumns
<1>7. ASSUME NEW x \in RunIds, x # r, Exists(x), Slot(origin[x].request) = s
      PROVE  origin[x].at + TTL <= at[d]
  <2>1. records[s] # NoRecord /\ origin[x].at + TTL <= records[s].expires
    BY <1>7 DEF RecordsLatest
  <2>2. records[s].expires <= at[d]
    BY <1>1, <1>2, <2>1 DEF Alive, RecordColumns
  <2>3. records[s].expires \in Nat /\ origin[x].at \in Nat
    BY <1>1 DEF RecordColumns, OriginColumns
  <2>4. QED
    BY <1>1, <2>1, <2>2, <2>3
<1>8. RecordsName'
  <2> SUFFICES ASSUME NEW x \in Slots PROVE RecordNames(x)'
    BY DEF RecordsName
  <2>1. CASE x = s
    BY <1>5, <1>6, <2>1 DEF RecordNames
  <2>2. CASE x # s
    <3>1. RecordNames(x) /\ records'[x] = records[x]
      BY <1>6, <2>2 DEF RecordsName
    <3>2. records[x] # NoRecord => records[x].run # r
      BY <1>2, <3>1 DEF RecordNames
    <3>3. QED
      BY <1>4, <3>1, <3>2 DEF RecordNames
  <2>3. QED
    BY <2>1, <2>2
<1>9. RecordsLatest'
  <2> SUFFICES ASSUME NEW x \in RunIds, Exists(x)'
               PROVE  /\ origin'[x].request \in Requests
                      /\ records'[Slot(origin'[x].request)] # NoRecord
                      /\ origin'[x].at + TTL <= records'[Slot(origin'[x].request)].expires
    BY DEF RecordsLatest, Slot
  <2>1. CASE x = r
    BY <1>1, <1>5, <1>6, <2>1
  <2>2. CASE x # r
    <3>1. /\ origin'[x] = origin[x] /\ Exists(x)
          /\ origin[x].request \in Requests
          /\ records[Slot(origin[x].request)] # NoRecord
          /\ origin[x].at + TTL <= records[Slot(origin[x].request)].expires
      BY <1>4, <2>2 DEF RecordsLatest
    <3>2. Slot(origin[x].request) \in Slots /\ origin[x].at \in Nat
      BY <3>1 DEF Slots, Slot, OriginColumns
    <3>3. CASE Slot(origin[x].request) = s
      <4>1. origin[x].at + TTL <= at[d]
        BY <1>7, <2>2, <3>1, <3>3
      <4>2. origin[x].at + TTL <= at[d] + TTL
        BY <1>1, <3>2, <4>1
      <4>3. QED
        BY <1>1, <1>6, <3>1, <3>3, <4>2
    <3>4. CASE Slot(origin[x].request) # s
      BY <1>6, <3>1, <3>2, <3>4
    <3>5. QED
      BY <3>3, <3>4
  <2>3. QED
    BY <2>1, <2>2
<1>10. ASSUME NEW x \in RunIds, NEW y \in RunIds
       PROVE  Apart(x, y)'
  <2>1. CASE x # r /\ y # r
    BY <1>4, <2>1, OneRunPerKeyByParts DEF Apart
  <2>2. CASE x = r /\ y # r
    BY <1>4, <1>5, <1>7, <2>2 DEF Apart
  <2>3. CASE x # r /\ y = r
    BY <1>4, <1>5, <1>7, <2>3 DEF Apart
  <2>4. CASE x = r /\ y = r
    BY <2>4 DEF Apart
  <2>5. QED
    BY <2>1, <2>2, <2>3, <2>4
<1>11. ASSUME NEW e \in Deliveries
       PROVE  Answered(e)'
  <2>1. CASE e = d
    <3>1. target'[e] = r /\ carried'[e] = q
      BY <1>2, <2>1 DEF DeliveryFields
    <3>2. QED
      BY <1>5, <3>1 DEF Answered
  <2>2. CASE e # d
    <3>1. target'[e] = target[e] /\ carried'[e] = carried[e] /\ Answered(e)
      BY <1>2, <2>2, OneRunPerKeyByParts DEF DeliveryFields
    <3>2. target[e] # Nothing => target[e] \in RunIds /\ target[e] # r
      BY <1>2 DEF AnswersExist, DeliveryFields
    <3>3. QED
      BY <1>4, <3>1, <3>2 DEF Answered
  <2>3. QED
    BY <2>1, <2>2
<1>12. OneRunPerKey'
  BY <1>10, <1>11 DEF OneRunPerKey, Apart, Answered
<1>13. AnswersExist'
  BY <1>2, <1>4, <1>5 DEF AnswersExist, DeliveryFields
<1>14. QED
  BY <1>3, <1>8, <1>9, <1>12, <1>13 DEF Keyed

-----------------------------------------------------------------------------
(* The other deliveries, the stream and the environment touch no key.         *)
LEMMA OthersKeyed ==
  ASSUME SInv, Next, \A d \in Deliveries : ~Replay(d), \A d \in Deliveries, r \in RunIds : ~Create(d, r)
  PROVE  Keyed'
<1> USE DEF SInv
<1>1. ASSUME NEW d \in Deliveries, Submission(d)
      PROVE  /\ UNCHANGED <<origin, records, target>>
             /\ \A e \in Deliveries : target[e] # Nothing => carried'[e] = carried[e]
  <2>1. ASSUME NEW q \in Requests, Blocked(d, q) \/ RateExceeded(d, q) \/ Guard(d, q)
        PROVE  /\ UNCHANGED <<origin, records, target>>
               /\ target[d] = Nothing /\ carried' = [carried EXCEPT ![d] = q]
    BY <2>1 DEF Blocked, RateExceeded, Guard, rows, Placed
  <2>2. CASE Conflict(d) \/ PrincipalUnavailable(d)
    BY <2>2 DEF Conflict, PrincipalUnavailable, rows
  <2>3. CASE StartPlanning(d) \/ \E answer \in {"skill", "plan", "error"} : Decide(d, answer)
    BY <2>3 DEF StartPlanning, Decide, rows
  <2>4. CASE RecordDecision(d) \/ Materialize(d) \/ MaterializeRefused(d)
    BY <2>4 DEF RecordDecision, Materialize, MaterializeRefused, rows
  <2>5. CASE FailPlanning(d) \/ PlanningLost(d) \/ Answer(d)
    BY <2>5 DEF FailPlanning, PlanningLost, Answer, rows
  <2>6. CASE \E q \in Requests : Blocked(d, q) \/ RateExceeded(d, q) \/ Guard(d, q)
    BY <2>1, <2>6 DEF DeliveryFields
  <2>7. QED
    BY <1>1, <2>2, <2>3, <2>4, <2>5, <2>6 DEF Submission
<1>2. CASE Stream \/ Environment
  <2>1. ASSUME NEW r \in RunIds, NEW to \in RunStates, Work(r, to) \/ Recover(r, to) \/ LateEvent(r)
        PROVE  UNCHANGED <<origin, records, target, carried>>
    BY <2>1 DEF Work, Recover, LateEvent, locals
  <2>2. ASSUME Stream
        PROVE  UNCHANGED <<origin, records, target, carried>>
    BY <2>2 DEF Stream, Open, Poll, Drop, Reconnect, rows, locals
  <2>3. ASSUME Crash \/ Tick
        PROVE  UNCHANGED <<origin, records, target, carried>>
    BY <2>3 DEF Crash, Tick, rows, locals
  <2>4. {"queued", "failed"} \subseteq RunStates /\ "queued" \in RunStates
    BY DEF RunStates
  <2>5. UNCHANGED <<origin, records, target, carried>>
    BY <1>2, <2>1, <2>2, <2>3, <2>4 DEF Environment
  <2>6. QED
    BY <2>5, KeysUntouched DEF Keyed
<1>3. ASSUME NEW d \in Deliveries, Submission(d)
      PROVE  Keyed'
  BY <1>1, <1>3, KeysUntouched DEF Keyed
<1>4. QED
  BY <1>2, <1>3 DEF Next

(* Every step keeps the invariant, and moves Runs as their readers expect.    *)
LEMMA SubmissionPreserved == SInv /\ [Next]_vars => SInv' /\ [Lifecycle!Next]_(Lifecycle!vars)
<1> SUFFICES ASSUME SInv, [Next]_vars
             PROVE  SInv' /\ [Lifecycle!Next]_(Lifecycle!vars)
  OBVIOUS
<1>1. CASE Next
  <2>1. DeliveryFields' /\ Placed'
    BY <1>1, DeliveryPlaced, OthersPlaced DEF Next
  <2>2. RunStep
    BY <1>1, DeliveryRunStep, OthersRunStep DEF Next
  <2>3. AskedOnLeaving'
    BY <2>2, AskedPreserved DEF SInv
  <2>4. Keyed'
    BY <1>1, ReplayKeyed, CreateKeyed, OthersKeyed
  <2>5. QED
    BY <2>1, <2>2, <2>3, <2>4 DEF SInv, Keyed, RunStep
<1>2. CASE UNCHANGED vars
  <2>1. UNCHANGED <<now, state, revision, output, asked, pc, carried, at, target, token, origin, records>>
    BY <1>2 DEF vars, rows, locals
  <2>2. DeliveryFields' /\ Placed' /\ RunColumns' /\ AskedOnLeaving'
    BY <2>1 DEF SInv, DeliveryFields, Placed, RunColumns, AskedOnLeaving
  <2>3. Keyed'
    BY <2>1, KeysUntouched DEF SInv, Keyed
  <2>4. QED
    BY <2>1, <2>2, <2>3 DEF SInv, Keyed, Lifecycle!vars
<1>3. QED
  BY <1>1, <1>2

-----------------------------------------------------------------------------
(* Theorems *)

(* The inductive invariant of submission.                                     *)
THEOREM SubmissionInvariant == Spec => []SInv
<1>1. SInv /\ [Next]_vars => SInv'
  BY SubmissionPreserved
<1>2. QED
  BY SubmissionInitially, <1>1, PTL DEF Spec

(* create_or_replay: however deliveries of one key overtake each other        *)
(* between their clock and the lock, its Runs are a lifetime of the record    *)
(* apart, and an answer is a Run of the request it answers.                   *)
THEOREM KeysHaveOneRun == Spec => []OneRunPerKey
<1>1. SInv => OneRunPerKey
  BY DEF SInv
<1>2. QED
  BY <1>1, SubmissionInvariant, PTL

(* start_planning: no repetition, interruption or crash has the Root asked a  *)
(* second time about a Run.                                                   *)
THEOREM RootIsAskedOnce == Spec => []RootAskedOnce
<1>1. SInv => RootAskedOnce
  BY DEF SInv, AskedOnLeaving, RootAskedOnce
<1>2. QED
  BY <1>1, SubmissionInvariant, PTL

(* Submission, workers and recovery together implement the life of a Run that *)
(* the stores implement alone.                                                *)
THEOREM SubmissionImplementsLifecycle == Spec => LifecycleSpec
<1>1. Init => Lifecycle!Init
  BY DEF Init, Lifecycle!Init
<1>2. SInv /\ [Next]_vars => [Lifecycle!Next]_(Lifecycle!vars)
  BY SubmissionPreserved
<1>3. QED
  BY <1>1, <1>2, SubmissionInvariant, PTL DEF Spec, LifecycleSpec, Lifecycle!Spec

-----------------------------------------------------------------------------
(* A set of naturals has a least element.                                     *)
LEMMA NatLeast ==
  ASSUME NEW T, T \subseteq Nat, T # {}
  PROVE  \E x \in T : \A y \in T : x <= y
<1>1. PICK x \in T : \A y \in T : ~ (<<y, x>> \in OpToRel(<, Nat))
  BY NatLessThanWellFounded, WFMin
<1>2. \A y \in T : <<y, x>> \in Nat \X Nat
  OBVIOUS
<1>3. \A y \in T : y < x => <<y, x>> \in OpToRel(<, Nat)
  BY <1>2 DEF OpToRel
<1>4. \A y \in T : ~ (y < x)
  BY <1>1, <1>3, Zenon
<1>5. QED
  BY <1>4

(* Induction, for a set of naturals.                                          *)
LEMMA NatAll ==
  ASSUME NEW S, 0 \in S, \A n \in Nat : n \in S => n + 1 \in S
  PROVE  Nat \subseteq S
<1> DEFINE T == Nat \ S
<1> SUFFICES ASSUME T # {} PROVE FALSE
  OBVIOUS
<1>1. PICK x \in T : \A y \in T : x <= y
  BY NatLeast
<1>2. x # 0 /\ x - 1 \in Nat
  OBVIOUS
<1>3. x - 1 \notin T
  BY <1>1, <1>2
<1>4. QED
  BY <1>2, <1>3

-----------------------------------------------------------------------------
(* What a query of the events returns *)

(* The query, event by event.                                                 *)
LEMMA DueRecurrence ==
  ASSUME NEW events, Len(events) \in Nat, NEW after, NEW role
  PROVE  /\ DueUpTo(events, after, role)[0] = <<>>
         /\ \A n \in 1..Len(events) : DueUpTo(events, after, role)[n] =
              IF n > after /\ events[n] \in VisibleTo(role)
              THEN Append(DueUpTo(events, after, role)[n - 1], n)
              ELSE DueUpTo(events, after, role)[n - 1]
<1> DEFINE Hit(n) == n > after /\ events[n] \in VisibleTo(role)
           Found(g, k) == g = [n \in 0..k |-> IF n = 0 THEN <<>>
                                             ELSE IF Hit(n) THEN Append(g[n - 1], n) ELSE g[n - 1]]
           S == {k \in Nat : \E g : Found(g, k)}
<1>1. 0 \in S
  <2>1. Found([n \in 0..0 |-> <<>>], 0)
    OBVIOUS
  <2>2. QED
    BY <2>1
<1>2. ASSUME NEW k \in Nat, k \in S
      PROVE  k + 1 \in S
  <2>1. PICK g : Found(g, k)
    BY <1>2
  <2> DEFINE h == [n \in 0..(k + 1) |->
                    IF n = k + 1 THEN (IF Hit(n) THEN Append(g[k], n) ELSE g[k]) ELSE g[n]]
  <2> DEFINE H == [n \in 0..(k + 1) |-> IF n = 0 THEN <<>> ELSE IF Hit(n) THEN Append(h[n - 1], n) ELSE h[n - 1]]
  <2>2. ASSUME NEW n \in 0..(k + 1)
        PROVE  h[n] = H[n]
    <3>1. CASE n = k + 1
      <4>1. h[n] = IF Hit(n) THEN Append(g[k], n) ELSE g[k]
        BY <3>1
      <4>2. h[k] = g[k] /\ n - 1 = k /\ n # 0
        BY <3>1
      <4> HIDE DEF h, Hit
      <4>3. QED
        BY <3>1, <4>1, <4>2
    <3>2. CASE n \in 0..k
      <4>1. h[n] = g[n] /\ (n # 0 => n - 1 \in 0..k /\ h[n - 1] = g[n - 1])
        BY <3>2
      <4>2. g[n] = IF n = 0 THEN <<>> ELSE IF Hit(n) THEN Append(g[n - 1], n) ELSE g[n - 1]
        BY <2>1, <3>2
      <4> HIDE DEF h, Hit
      <4>3. QED
        BY <3>2, <4>1, <4>2
    <3>3. QED
      BY <3>1, <3>2
  <2>3. DOMAIN h = 0..(k + 1) /\ DOMAIN H = 0..(k + 1)
    OBVIOUS
  <2>4. h = [n \in 0..(k + 1) |-> h[n]] /\ H = [n \in 0..(k + 1) |-> H[n]]
    OBVIOUS
  <2>5. h = H
    <3> HIDE DEF h, H
    <3> QED
      BY <2>2, <2>4
  <2>6. Found(h, k + 1)
    <3> HIDE DEF Hit, h
    <3> QED
      BY <2>5
  <2>7. QED
    <3> HIDE DEF Found, h
    <3> QED
      BY <2>6
<1>3. Nat \subseteq S
  <2> HIDE DEF S
  <2> QED
    BY <1>1, <1>2, NatAll
<1>4. \E g : Found(g, Len(events))
  BY <1>3
<1>5. DueUpTo(events, after, role) = CHOOSE g : Found(g, Len(events))
  BY DEF DueUpTo
<1>6. Found(DueUpTo(events, after, role), Len(events))
  <2> HIDE DEF Found
  <2> QED
    BY <1>4, <1>5
<1> DEFINE f == DueUpTo(events, after, role)
<1>7. \A n \in 0..Len(events) : f[n] = IF n = 0 THEN <<>>
                                     ELSE IF Hit(n) THEN Append(f[n - 1], n) ELSE f[n - 1]
  <2> HIDE DEF Hit
  <2> QED
    BY <1>6
<1>8. QED
  <2> HIDE DEF f
  <2>1. f[0] = <<>>
    BY <1>7
  <2>2. \A n \in 1..Len(events) : n \in 0..Len(events) /\ n # 0
    OBVIOUS
  <2>3. \A n \in 1..Len(events) : f[n] = IF Hit(n) THEN Append(f[n - 1], n) ELSE f[n - 1]
    <3> HIDE DEF Hit
    <3> QED
      BY <1>7, <2>2
  <2>4. QED
    BY <2>1, <2>3 DEF f

(* s is the elements of T in their order.                                     *)
Lists(s, T) ==
  /\ s \in Seq(Nat)
  /\ \A i, j \in 1..Len(s) : i < j => s[i] < s[j]
  /\ \A i \in 1..Len(s) : s[i] \in T
  /\ \A x \in T : \E i \in 1..Len(s) : s[i] = x

(* One larger element at the end.                                             *)
LEMMA ListsAppend ==
  ASSUME NEW s, NEW T, Lists(s, T), NEW n \in Nat, \A x \in T : x < n
  PROVE  Lists(Append(s, n), T \union {n})
<1> DEFINE t == Append(s, n)
<1>1. /\ t \in Seq(Nat) /\ Len(t) = Len(s) + 1 /\ Len(s) \in Nat
      /\ \A i \in 1..Len(s) : t[i] = s[i]
      /\ t[Len(s) + 1] = n
  BY DEF Lists
<1>2. 1..Len(t) = 1..Len(s) \union {Len(s) + 1}
  BY <1>1
<1> HIDE DEF t
<1>3. ASSUME NEW i \in 1..Len(t), NEW j \in 1..Len(t), i < j
      PROVE  t[i] < t[j]
  <2>1. i \in 1..Len(s) /\ s[i] \in T /\ t[i] = s[i]
    BY <1>1, <1>2, <1>3 DEF Lists
  <2>2. CASE j \in 1..Len(s)
    BY <1>1, <1>3, <2>1, <2>2 DEF Lists
  <2>3. CASE j = Len(s) + 1
    BY <1>1, <2>1, <2>3
  <2>4. QED
    BY <1>2, <2>2, <2>3
<1>4. \A i \in 1..Len(t) : t[i] \in T \union {n}
  BY <1>1, <1>2 DEF Lists
<1>5. ASSUME NEW x \in T \union {n}
      PROVE  \E i \in 1..Len(t) : t[i] = x
  <2>1. CASE x \in T
    <3>1. PICK i \in 1..Len(s) : s[i] = x
      BY <2>1 DEF Lists
    <3>2. i \in 1..Len(t) /\ t[i] = x
      BY <1>1, <1>2, <3>1
    <3>3. QED
      BY <3>2
  <2>2. CASE x = n
    BY <1>1, <1>2, <2>2
  <2>3. QED
    BY <2>1, <2>2
<1>6. Lists(t, T \union {n})
  BY <1>1, <1>3, <1>4, <1>5 DEF Lists
<1>7. QED
  BY <1>6 DEF t

(* The events after a place that a role may see.                              *)
Shown(events, after, role) == {n \in 1..Len(events) : n > after /\ events[n] \in VisibleTo(role)}

(* A query returns all of them, each once, in their order.                    *)
LEMMA DueLists ==
  ASSUME NEW events, Len(events) \in Nat, NEW after, NEW role
  PROVE  Lists(Due(events, after, role), Shown(events, after, role))
<1> DEFINE f == DueUpTo(events, after, role)
           ShownTo(k) == {n \in 1..k : n > after /\ events[n] \in VisibleTo(role)}
           S == {k \in Nat : k <= Len(events) => Lists(f[k], ShownTo(k))}
<1>1. 0 \in S
  <2>1. f[0] = <<>> /\ ShownTo(0) = {}
    BY DueRecurrence
  <2>2. Lists(<<>>, {})
    BY DEF Lists
  <2> HIDE DEF f, ShownTo
  <2>3. QED
    BY <2>1, <2>2
<1>2. ASSUME NEW k \in Nat, k \in S
      PROVE  k + 1 \in S
  <2> SUFFICES ASSUME k + 1 <= Len(events) PROVE Lists(f[k + 1], ShownTo(k + 1))
    OBVIOUS
  <2>1. Lists(f[k], ShownTo(k)) /\ k + 1 \in 1..Len(events) /\ (k + 1) - 1 = k
    BY <1>2
  <2>2. f[k + 1] = IF k + 1 > after /\ events[k + 1] \in VisibleTo(role) THEN Append(f[k], k + 1) ELSE f[k]
    BY <2>1, DueRecurrence
  <2>3. CASE k + 1 > after /\ events[k + 1] \in VisibleTo(role)
    <3>1. ShownTo(k + 1) = ShownTo(k) \union {k + 1} /\ \A x \in ShownTo(k) : x < k + 1
      BY <2>3
    <3> HIDE DEF f, ShownTo
    <3>2. QED
      BY <2>1, <2>2, <2>3, <3>1, ListsAppend
  <2>4. CASE ~ (k + 1 > after /\ events[k + 1] \in VisibleTo(role))
    <3>1. ShownTo(k + 1) = ShownTo(k)
      BY <2>4
    <3> HIDE DEF f, ShownTo
    <3>2. QED
      BY <2>1, <2>2, <2>4, <3>1
  <2>5. QED
    BY <2>3, <2>4
<1>3. Nat \subseteq S
  <2> HIDE DEF S
  <2> QED
    BY <1>1, <1>2, NatAll
<1>4. Lists(f[Len(events)], ShownTo(Len(events)))
  BY <1>3
<1>5. QED
  BY <1>4 DEF Due, Shown

(* The elements up to c, in order, are the beginning of all of them.          *)
LEMMA ListsPrefix ==
  ASSUME NEW s, NEW t, NEW S, NEW T, Lists(s, S), Lists(t, T), NEW c \in Nat,
         S = {x \in T : x <= c}
  PROVE  IsPrefix(s, t)
<1>1. /\ s \in Seq(Nat) /\ t \in Seq(Nat) /\ Len(s) \in Nat /\ Len(t) \in Nat
      /\ \A i \in 1..Len(s) : s[i] \in Nat
      /\ \A i \in 1..Len(t) : t[i] \in Nat
  BY DEF Lists
<1>0. /\ \A i, j \in 1..Len(s) : i < j => s[i] < s[j]
      /\ \A i, j \in 1..Len(t) : i < j => t[i] < t[j]
      /\ \A i \in 1..Len(s) : s[i] \in T /\ s[i] <= c
      /\ \A x \in T : x <= c => \E i \in 1..Len(s) : s[i] = x
      /\ \A x \in T : \E i \in 1..Len(t) : t[i] = x
      /\ \A i \in 1..Len(t) : t[i] \in T
  BY DEF Lists
<1> DEFINE Off == {i \in 1..Len(s) : ~ (i <= Len(t) /\ s[i] = t[i])}
<1>2. Off = {}
  <2> SUFFICES ASSUME Off # {} PROVE FALSE
    OBVIOUS
  <2>1. PICK i \in Off : \A j \in Off : i <= j
    <3>1. Off \subseteq Nat
      OBVIOUS
    <3> HIDE DEF Off
    <3>2. QED
      BY <3>1, NatLeast
  <2>2. i \in 1..Len(s) /\ s[i] \in Nat /\ ~ (i <= Len(t) /\ s[i] = t[i])
    BY <1>1, <2>1
  <2>3. \A j \in 1..Len(s) : j < i => j <= Len(t) /\ s[j] = t[j]
    BY <2>1
  <2>4. PICK k \in 1..Len(t) : t[k] = s[i]
    BY <1>0, <2>2
  <2>5. ASSUME k < i
        PROVE  FALSE
    <3>1. k \in 1..Len(s) /\ s[k] = t[k] /\ s[k] < s[i]
      <4>1. k \in 1..Len(s)
        BY <1>1, <2>2, <2>4, <2>5
      <4>2. QED
        BY <1>0, <2>2, <2>3, <2>5, <4>1
    <3>2. QED
      BY <2>2, <2>4, <3>1
  <2>6. i < k /\ i \in 1..Len(t)
    <3>1. k # i
      BY <2>2, <2>4
    <3>2. i \in Nat /\ k \in Nat /\ 1 <= i /\ k <= Len(t) /\ Len(t) \in Nat
      BY <1>1, <2>2, <2>4
    <3>3. QED
      BY <2>5, <3>1, <3>2
  <2>7. t[i] < s[i] /\ t[i] \in Nat
    BY <1>0, <1>1, <2>4, <2>6
  <2>8. t[i] \in T /\ t[i] <= c
    <3>1. s[i] <= c /\ t[i] \in T
      BY <1>0, <2>2, <2>6
    <3>2. QED
      BY <2>2, <2>7, <3>1
  <2>9. PICK m \in 1..Len(s) : s[m] = t[i]
    BY <1>0, <2>8
  <2>10. CASE m < i
    <3>1. m \in 1..Len(t) /\ t[m] = t[i] /\ t[m] < t[i]
      BY <1>0, <1>1, <2>3, <2>6, <2>9, <2>10
    <3>2. QED
      BY <2>7, <3>1
  <2>11. CASE m = i
    BY <2>2, <2>7, <2>9, <2>11
  <2>12. CASE i < m
    <3>1. s[i] < s[m]
      BY <1>0, <2>2, <2>9, <2>12
    <3>2. QED
      BY <2>2, <2>7, <2>9, <3>1
  <2>13. QED
    BY <1>1, <2>2, <2>9, <2>10, <2>11, <2>12
<1>3. \A i \in 1..Len(s) : i <= Len(t) /\ s[i] = t[i]
  BY <1>2
<1>4. Len(s) <= Len(t)
  BY <1>1, <1>3
<1>5. SubSeq(s, 1, Len(s)) = SubSeq(t, 1, Len(s))
  BY <1>1, <1>3, <1>4
<1>6. QED
  BY <1>4, <1>5 DEF IsPrefix
(* The first of the elements of T, all of them after c.                       *)
LEMMA ListsFirst ==
  ASSUME NEW t, NEW T, Lists(t, T), NEW n \in 0..Len(t), NEW c \in Nat, \A x \in T : c < x
  PROVE  LET s == SubSeq(t, 1, n)
             last == CursorAfter(c, s)
         IN /\ Lists(s, {x \in T : x <= last})
            /\ last \in Nat /\ c <= last
            /\ n = Len(t) => \A x \in T : x <= last
<1> DEFINE s == SubSeq(t, 1, n)
           last == CursorAfter(c, s)
<1>1. /\ t \in Seq(Nat) /\ Len(t) \in Nat
      /\ \A i \in 1..Len(t) : t[i] \in Nat /\ t[i] \in T
      /\ \A i, j \in 1..Len(t) : i < j => t[i] < t[j]
      /\ \A x \in T : \E i \in 1..Len(t) : t[i] = x
  BY DEF Lists
<1>2. s \in Seq(Nat) /\ Len(s) = n /\ \A i \in 1..n : i \in 1..Len(t) /\ s[i] = t[i]
  BY <1>1
<1>3. last = IF n = 0 THEN c ELSE t[n]
  <2>1. s = <<>> <=> n = 0
    BY <1>2
  <2>2. n # 0 => n \in 1..n /\ Last(s) = t[n]
    BY <1>2 DEF Last
  <2> HIDE DEF s
  <2>3. QED
    BY <2>1, <2>2 DEF CursorAfter
<1> HIDE DEF s, last
<1>4. last \in Nat /\ c <= last
  BY <1>1, <1>2, <1>3
<1>5. ASSUME NEW i \in 1..n
      PROVE  t[i] <= last
  <2>1. n # 0 /\ n \in 1..Len(t) /\ i \in 1..Len(t) /\ last = t[n]
    BY <1>1, <1>3
  <2>2. t[i] \in Nat /\ t[n] \in Nat
    BY <1>1, <2>1
  <2>3. i = n \/ t[i] < t[n]
    BY <1>1, <2>1
  <2>4. QED
    BY <2>1, <2>2, <2>3
<1>6. ASSUME NEW x \in T, x <= last
      PROVE  \E i \in 1..n : s[i] = x
  <2>1. PICK i \in 1..Len(t) : t[i] = x
    BY <1>1
  <2>2. n # 0
    BY <1>1, <1>3, <1>6, <2>1
  <2>3. n \in 1..Len(t) /\ x <= t[n]
    BY <1>3, <1>6, <2>2
  <2>4. i <= n
    BY <1>1, <2>1, <2>3
  <2>5. i \in 1..n
    BY <2>4
  <2>6. QED
    BY <1>2, <2>1, <2>5
<1>7. Lists(s, {x \in T : x <= last})
  <2>1. \A i \in 1..n : s[i] \in {x \in T : x <= last}
    BY <1>1, <1>2, <1>5
  <2>2. \A i, j \in 1..n : i < j => s[i] < s[j]
    BY <1>1, <1>2
  <2>3. QED
    BY <1>2, <1>6, <2>1, <2>2 DEF Lists
<1>8. ASSUME n = Len(t), NEW x \in T
      PROVE  x <= last
  <2>1. PICK i \in 1..n : t[i] = x
    BY <1>1, <1>8
  <2>2. QED
    BY <1>5, <2>1
<1>9. QED
  BY <1>4, <1>7, <1>8 DEF s, last

(* What comes after c, behind what comes up to c.                             *)
LEMMA ListsConcat ==
  ASSUME NEW s, NEW t, NEW S, NEW T, Lists(s, S), Lists(t, T),
         \A x \in S, y \in T : x < y
  PROVE  Lists(s \o t, S \union T)
<1> DEFINE u == s \o t
<1>1. /\ s \in Seq(Nat) /\ Len(s) \in Nat /\ t \in Seq(Nat) /\ Len(t) \in Nat
      /\ \A i \in 1..Len(s) : s[i] \in S /\ s[i] \in Nat
      /\ \A i \in 1..Len(t) : t[i] \in T /\ t[i] \in Nat
      /\ \A i, j \in 1..Len(s) : i < j => s[i] < s[j]
      /\ \A i, j \in 1..Len(t) : i < j => t[i] < t[j]
      /\ \A x \in S : \E i \in 1..Len(s) : s[i] = x
      /\ \A x \in T : \E i \in 1..Len(t) : t[i] = x
  BY DEF Lists
<1>2. /\ u \in Seq(Nat) /\ Len(u) = Len(s) + Len(t)
      /\ \A i \in 1..Len(s) : i \in 1..Len(u) /\ u[i] = s[i]
      /\ \A i \in 1..Len(t) : Len(s) + i \in 1..Len(u) /\ u[Len(s) + i] = t[i]
  BY <1>1
<1> HIDE DEF u
<1>3. \A i \in 1..Len(u) : i \in 1..Len(s) \/ (i - Len(s) \in 1..Len(t) /\ i = Len(s) + (i - Len(s)))
  BY <1>1, <1>2
<1>4. ASSUME NEW i \in 1..Len(u)
      PROVE  \/ i \in 1..Len(s) /\ u[i] = s[i] /\ u[i] \in S
             \/ i - Len(s) \in 1..Len(t) /\ u[i] = t[i - Len(s)] /\ u[i] \in T
  <2>1. CASE i \in 1..Len(s)
    BY <1>1, <1>2, <2>1
  <2>2. ASSUME NEW j \in 1..Len(t), j = i - Len(s), i = Len(s) + j
        PROVE  u[i] = t[j] /\ u[i] \in T
    BY <1>1, <1>2, <2>2
  <2>3. QED
    BY <1>3, <2>1, <2>2
<1>5. ASSUME NEW i \in 1..Len(u), NEW j \in 1..Len(u), i < j
      PROVE  u[i] < u[j]
  <2>1. CASE j \in 1..Len(s)
    <3>1. i \in 1..Len(s)
      BY <1>1, <1>5, <2>1
    <3>2. QED
      BY <1>1, <1>2, <1>5, <2>1, <3>1
  <2>2. CASE i \in 1..Len(s) /\ j - Len(s) \in 1..Len(t)
    <3>1. u[i] \in S
      BY <1>1, <1>2, <2>2
    <3>2. j = Len(s) + (j - Len(s))
      BY <1>1
    <3>3. u[j] \in T
      BY <1>1, <1>2, <2>2, <3>2
    <3>4. QED
      BY <3>1, <3>3
  <2>3. CASE i - Len(s) \in 1..Len(t) /\ j - Len(s) \in 1..Len(t)
    <3>1. i = Len(s) + (i - Len(s)) /\ j = Len(s) + (j - Len(s)) /\ i - Len(s) < j - Len(s)
      BY <1>1, <1>5
    <3>2. u[i] = t[i - Len(s)] /\ u[j] = t[j - Len(s)]
      BY <1>2, <2>3, <3>1
    <3>3. QED
      BY <1>1, <2>3, <3>1, <3>2
  <2>4. QED
    BY <1>1, <1>3, <1>5, <2>1, <2>2, <2>3
<1>6. ASSUME NEW x \in S \union T
      PROVE  \E i \in 1..Len(u) : u[i] = x
  <2>1. CASE x \in S
    <3>1. PICK i \in 1..Len(s) : s[i] = x
      BY <1>1, <2>1
    <3>2. QED
      BY <1>2, <3>1
  <2>2. CASE x \in T
    <3>1. PICK i \in 1..Len(t) : t[i] = x
      BY <1>1, <2>2
    <3>2. QED
      BY <1>2, <3>1
  <2>3. QED
    BY <2>1, <2>2
<1>7. Lists(u, S \union T)
  BY <1>2, <1>4, <1>5, <1>6 DEF Lists
<1>8. QED
  BY <1>7 DEF u

(* A page is the first of what is due, all of it unless there is more.        *)
LEMMA PageIsFirst ==
  ASSUME NEW events, NEW after, NEW role, NEW limit \in Nat \ {0},
         Due(events, after, role) \in Seq(Nat)
  PROVE  \E n \in 0..Len(Due(events, after, role)) :
           /\ Page(events, after, role, limit).items = SubSeq(Due(events, after, role), 1, n)
           /\ ~ Page(events, after, role, limit).more => n = Len(Due(events, after, role))
<1> DEFINE due == Due(events, after, role)
           fetched == FirstOf(due, limit + 1)
<1> HIDE DEF due
<1>1. due \in Seq(Nat) /\ Len(due) \in Nat
  BY DEF due
<1>2. CASE limit < Len(due)
  <2>1. fetched = SubSeq(due, 1, limit + 1) /\ Len(fetched) = limit + 1
    BY <1>1, <1>2 DEF FirstOf
  <2>2. FirstOf(fetched, limit) = SubSeq(SubSeq(due, 1, limit + 1), 1, limit)
    BY <2>1 DEF FirstOf
  <2>3. SubSeq(SubSeq(due, 1, limit + 1), 1, limit) = SubSeq(due, 1, limit)
    BY <1>1, <1>2
  <2>4. limit \in 0..Len(due) /\ Len(fetched) > limit
    BY <1>1, <1>2, <2>1
  <2>5. QED
    BY <2>2, <2>3, <2>4 DEF Page, due
<1>3. CASE ~ limit < Len(due)
  <2>1. fetched = due
    BY <1>1, <1>3 DEF FirstOf
  <2>2. FirstOf(fetched, limit) = SubSeq(due, 1, Len(due))
    BY <1>1, <1>3, <2>1 DEF FirstOf
  <2>3. Len(due) \in 0..Len(due)
    BY <1>1
  <2>4. QED
    BY <2>2, <2>3 DEF Page, due
<1>4. QED
  BY <1>2, <1>3

-----------------------------------------------------------------------------
(* The stream *)

(* The first of the first.                                                    *)
LEMMA PrefixOfPrefix ==
  ASSUME NEW s \in Seq(Nat), NEW m \in 0..Len(s), NEW n \in 0..m
  PROVE  SubSeq(SubSeq(s, 1, m), 1, n) = SubSeq(s, 1, n)
OBVIOUS

(* A client that has what it may see up to c and is given the first events    *)
(* after c has what it may see up to the last of those.                       *)
LEMMA FurtherOn ==
  ASSUME NEW events, Len(events) \in Nat, NEW got, NEW c \in Nat, c = CursorAfter(0, got),
         Lists(got, {x \in Shown(events, 0, Role) : x <= c}),
         NEW n \in 0..Len(Due(events, c, Role))
  PROVE  LET more == SubSeq(Due(events, c, Role), 1, n)
             last == CursorAfter(0, got \o more)
         IN /\ last \in Nat /\ last = CursorAfter(c, more)
            /\ Lists(got \o more, {x \in Shown(events, 0, Role) : x <= last})
            /\ n = Len(Due(events, c, Role)) => \A x \in Shown(events, 0, Role) : x <= last
<1> DEFINE due == Due(events, c, Role)
           more == SubSeq(due, 1, n)
           all == Shown(events, 0, Role)
           next == Shown(events, c, Role)
           last == CursorAfter(c, more)
<1>1. Lists(due, next)
  BY DueLists
<1>2. next = {x \in all : x > c} /\ all \subseteq Nat
  BY DEF Shown
<1> HIDE DEF due, all, next
<1>3. /\ Lists(more, {x \in next : x <= last})
      /\ last \in Nat /\ c <= last
      /\ n = Len(due) => \A x \in next : x <= last
  <2>1. n \in 0..Len(due) /\ \A x \in next : c < x
    BY <1>2 DEF due
  <2>2. QED
    BY <1>1, <2>1, ListsFirst
<1> HIDE DEF more, last
<1>4. {x \in all : x <= c} \union {x \in next : x <= last} = {x \in all : x <= last}
  <2>1. \A x \in all : x \in Nat /\ (x \in next <=> c < x)
    BY <1>2
  <2>2. \A x \in all : x <= last <=> x <= c \/ (x \in next /\ x <= last)
    BY <1>3, <2>1
  <2>3. next \subseteq all
    BY <1>2
  <2>4. QED
    BY <2>2, <2>3, Zenon
<1>5. Lists(got \o more, {x \in all : x <= last})
  <2>1. Lists(got, {x \in all : x <= c})
    BY DEF all
  <2>2. \A x \in {x \in all : x <= c}, y \in {x \in next : x <= last} : x < y
    BY <1>2
  <2>3. Lists(got \o more, {x \in all : x <= c} \union {x \in next : x <= last})
    BY <1>3, <2>1, <2>2, ListsConcat
  <2>4. QED
    BY <1>4, <2>3
<1>6. CursorAfter(0, got \o more) = last
  <2>1. got \in Seq(Nat) /\ more \in Seq(Nat)
    BY <1>3 DEF Lists
  <2>2. CASE more = <<>>
    BY <2>1, <2>2 DEF last, CursorAfter
  <2>3. CASE more # <<>>
    <3>1. got \o more # <<>> /\ Last(got \o more) = Last(more)
      BY <2>1, <2>3 DEF Last
    <3>2. QED
      BY <2>3, <3>1 DEF last, CursorAfter
  <2>4. QED
    BY <2>2, <2>3
<1>7. n = Len(due) => \A x \in all : x <= last
  BY <1>2, <1>3
<1>8. QED
  BY <1>3, <1>5, <1>6, <1>7 DEF more, due, all, last

(* The events and the reader's fields.                                        *)
StreamFields ==
  /\ log \in [RunIds -> Seq(Visibilities)]
  /\ reader \in [run : RunIds \union {Nothing}, cursor : Nat, got : Seq(Nat),
                 state : {"idle", "open", "dropped", "ended"}]

(* What the reader may see of its Run, and where the client is.               *)
Visible == Shown(log[reader.run], 0, Role)
Place == CursorAfter(0, reader.got)

(* The client has what it may see up to its place; a stream that goes on      *)
(* goes on from there; one that has ended has left nothing out.               *)
Follows ==
  /\ reader.state = "idle" => reader.run = Nothing /\ reader.got = <<>> /\ reader.cursor = 0
  /\ reader.state # "idle" =>
       /\ reader.run \in RunIds /\ Exists(reader.run)
       /\ Place \in Nat /\ Lists(reader.got, {x \in Visible : x <= Place})
  /\ reader.state = "open" => reader.cursor = Place
  /\ reader.state = "ended" =>
       state[reader.run] \in Terminal /\ \A x \in Visible : x <= Place

(* That is what a stream promises.                                            *)
LEMMA FollowsCompletely == ASSUME StreamFields, Follows PROVE StreamComplete
<1> SUFFICES ASSUME reader.run # Nothing
             PROVE  /\ IsPrefix(reader.got, Due(log[reader.run], 0, Role))
                    /\ reader.state = "ended" => reader.got = Due(log[reader.run], 0, Role)
  BY DEF StreamComplete
<1> DEFINE got == reader.got
           visible == Due(log[reader.run], 0, Role)
<1>1. /\ reader.run \in RunIds /\ Place \in Nat
      /\ Lists(got, {x \in Visible : x <= Place})
  BY DEF Follows
<1>2. Lists(visible, Visible)
  <2>1. Len(log[reader.run]) \in Nat
    BY <1>1 DEF StreamFields
  <2>2. QED
    BY <2>1, DueLists DEF Visible
<1> HIDE DEF visible
<1>3. IsPrefix(got, visible)
  BY <1>1, <1>2, ListsPrefix
<1>4. ASSUME reader.state = "ended"
      PROVE  got = visible
  <2>1. {x \in Visible : x <= Place} = Visible
    BY <1>4 DEF Follows
  <2>2. IsPrefix(visible, got)
    <3>1. Visible \subseteq Nat
      BY DEF Visible, Shown
    <3>2. Lists(got, Visible)
      BY <1>1, <2>1
    <3>3. QED
      BY <1>1, <1>2, <2>1, <3>2, ListsPrefix
  <2>3. got \in Seq(Nat) /\ visible \in Seq(Nat)
    BY <1>1, <1>2 DEF Lists
  <2>4. Len(got) = Len(visible)
    BY <1>3, <2>2, <2>3 DEF IsPrefix
  <2>5. SubSeq(got, 1, Len(got)) = SubSeq(visible, 1, Len(visible))
    BY <1>3, <2>4 DEF IsPrefix
  <2>6. SubSeq(got, 1, Len(got)) = got /\ SubSeq(visible, 1, Len(visible)) = visible
    BY <2>3, SubSeqFull
  <2>7. QED
    BY <2>5, <2>6
<1>5. QED
  BY <1>3, <1>4 DEF visible

(* What a step may do to the events: add some, and only internal ones once    *)
(* the Run has ended.                                                         *)
LogStep ==
  /\ log' \in [RunIds -> Seq(Visibilities)]
  /\ \A r \in RunIds :
       /\ Exists(r) => Exists(r)'
       /\ state[r] \in Terminal => state'[r] \in Terminal
       /\ Len(log[r]) <= Len(log'[r])
       /\ \A n \in 1..Len(log[r]) : log'[r][n] = log[r][n]
       /\ Exists(r) /\ state[r] \in Terminal =>
            \A n \in 1..Len(log'[r]) : n > Len(log[r]) => log'[r][n] = "internal"

(* The reader's place is as good after it.                                    *)
LEMMA FollowsOn ==
  ASSUME StreamFields, Follows, LogStep, StreamFields',
         \/ reader' = reader
         \/ reader.state = "open" /\ reader' = [reader EXCEPT !.state = "dropped"]
  PROVE  Follows'
<1>1. /\ reader'.run = reader.run /\ reader'.got = reader.got /\ reader'.cursor = reader.cursor
      /\ reader'.state = reader.state \/ (reader.state = "open" /\ reader'.state = "dropped")
  BY DEF StreamFields
<1>2. Place' = Place
  BY <1>1 DEF Place
<1>3. CASE reader.state = "idle"
  BY <1>1, <1>3 DEF Follows
<1>4. CASE reader.state # "idle"
  <2> DEFINE r == reader.run
  <2>1. /\ r \in RunIds /\ Exists(r) /\ Exists(r)'
        /\ Place \in Nat /\ Lists(reader.got, {x \in Visible : x <= Place})
        /\ reader'.run = r
    BY <1>1, <1>4 DEF Follows, LogStep
  <2>2. /\ Len(log[r]) \in Nat /\ Len(log'[r]) \in Nat /\ Len(log[r]) <= Len(log'[r])
        /\ \A n \in 1..Len(log[r]) : log'[r][n] = log[r][n]
    BY <2>1 DEF StreamFields, LogStep
  <2>3. Visible = Shown(log[r], 0, Role) /\ Visible' = Shown(log'[r], 0, Role)
    BY <2>1 DEF Visible, Shown
  <2>4. Visible \subseteq Visible' /\ \A x \in Visible' \ Visible : x > Len(log[r]) /\ x \in 1..Len(log'[r])
    BY <2>2, <2>3 DEF Shown
  <2>5. Place <= Len(log[r])
    <3>1. reader.got \in Seq(Nat)
      BY DEF StreamFields
    <3>2. CASE reader.got = <<>>
      BY <2>2, <3>2 DEF Place, CursorAfter
    <3>3. CASE reader.got # <<>>
      <4>1. Place = reader.got[Len(reader.got)] /\ Len(reader.got) \in 1..Len(reader.got)
        BY <3>1, <3>3 DEF Place, CursorAfter, Last
      <4>2. Place \in Visible
        BY <2>1, <4>1 DEF Lists
      <4>3. QED
        BY <2>3, <4>2 DEF Shown
    <3>4. QED
      BY <3>2, <3>3
  <2>6. {x \in Visible' : x <= Place} = {x \in Visible : x <= Place}
    BY <2>1, <2>2, <2>4, <2>5
  <2>7. ASSUME reader'.state = "ended"
        PROVE  state'[r] \in Terminal /\ \A x \in Visible' : x <= Place
    <3>1. state[r] \in Terminal /\ \A x \in Visible : x <= Place
      BY <1>1, <2>7 DEF Follows
    <3>2. \A n \in 1..Len(log'[r]) : n > Len(log[r]) => log'[r][n] = "internal"
      BY <2>1, <3>1 DEF LogStep
    <3>3. Visible' \subseteq Visible
      BY <2>3, <2>4, <3>2 DEF Shown, VisibleTo
    <3>4. QED
      BY <2>1, <3>1, <3>3 DEF LogStep
  <2>8. reader'.state = "open" => reader'.cursor = Place'
    BY <1>1, <1>2 DEF Follows
  <2>9. Place' \in Nat /\ Lists(reader'.got, {x \in Visible' : x <= Place'})
    BY <1>1, <1>2, <2>1, <2>6
  <2>10. reader'.state # "idle"
    BY <1>1, <1>4
  <2>11. Exists(reader.run)'
    BY <1>1, <2>1 DEF Exists
  <2>12. QED
    BY <1>1, <1>2, <2>1, <2>7, <2>8, <2>9, <2>10, <2>11 DEF Follows
<1>5. QED
  BY <1>3, <1>4

(* Events join the log of one Run at its end.                                 *)
LEMMA LogGrows ==
  ASSUME StreamFields, NEW r \in RunIds, NEW new \in Seq(Visibilities),
         log' = [log EXCEPT ![r] = log[r] \o new],
         Exists(r) /\ state[r] \in Terminal => \A i \in 1..Len(new) : new[i] = "internal",
         \A x \in RunIds : Exists(x) => Exists(x)',
         \A x \in RunIds : state[x] \in Terminal => state'[x] \in Terminal
  PROVE  LogStep
<1>1. /\ log \in [RunIds -> Seq(Visibilities)] /\ log[r] \in Seq(Visibilities)
      /\ Len(log[r]) \in Nat /\ Len(new) \in Nat
  BY DEF StreamFields
<1>2. log[r] \o new \in Seq(Visibilities) /\ Len(log[r] \o new) = Len(log[r]) + Len(new)
  BY <1>1
<1>3. log' \in [RunIds -> Seq(Visibilities)]
  BY <1>1, <1>2
<1>4. \A n \in 1..Len(log[r]) : (log[r] \o new)[n] = log[r][n]
  BY <1>1
<1>5. \A n \in 1..Len(log[r] \o new) : n > Len(log[r]) =>
        n - Len(log[r]) \in 1..Len(new) /\ (log[r] \o new)[n] = new[n - Len(log[r])]
  BY <1>1, <1>2
<1>6. log'[r] = log[r] \o new /\ \A x \in RunIds : x # r => log'[x] = log[x]
  BY <1>1
<1>7. ASSUME NEW x \in RunIds
      PROVE  /\ Len(log[x]) <= Len(log'[x])
             /\ \A n \in 1..Len(log[x]) : log'[x][n] = log[x][n]
             /\ Exists(x) /\ state[x] \in Terminal =>
                  \A n \in 1..Len(log'[x]) : n > Len(log[x]) => log'[x][n] = "internal"
  <2>1. CASE x = r
    BY <1>1, <1>2, <1>4, <1>5, <1>6, <2>1
  <2>2. CASE x # r
    <3>1. log'[x] = log[x] /\ Len(log[x]) \in Nat
      BY <1>1, <1>6, <2>2
    <3>2. QED
      BY <3>1
  <2>3. QED
    BY <2>1, <2>2
<1>8. QED
  BY <1>3, <1>7 DEF LogStep

(* Or they stay as they are.                                                  *)
LEMMA LogStays ==
  ASSUME StreamFields, UNCHANGED <<log, state, origin>>
  PROVE  LogStep
<1>1. \A x \in RunIds : Len(log[x]) \in Nat
  BY DEF StreamFields
<1>2. QED
  BY <1>1 DEF StreamFields, LogStep, Exists

(* No edge leaves a state in which a Run ends.                                *)
LEMMA TerminalStays ==
  ASSUME RunColumns, NEW r \in RunIds, NEW to, state' = [state EXCEPT ![r] = to],
         state[r] \notin Terminal
  PROVE  \A x \in RunIds : state[x] \in Terminal => state'[x] \in Terminal
BY DEF RunColumns

(* The events that transactions write together.                               *)
Batches ==
  {<<"public", "internal">>, <<"public">>, <<"internal">>, <<"internal", "public">>, <<"admin", "public">>}

(* Each is a sequence of events.                                              *)
LEMMA BatchesAreEvents == \A new \in Batches : new \in Seq(Visibilities)
<1>1. "public" \in Visibilities /\ "internal" \in Visibilities /\ "admin" \in Visibilities
  BY DEF Visibilities
<1>2. /\ <<"public", "internal">> \in Seq(Visibilities)
      /\ <<"internal", "public">> \in Seq(Visibilities)
      /\ <<"admin", "public">> \in Seq(Visibilities)
  BY <1>1
<1>3. <<"public">> \in Seq(Visibilities) /\ <<"internal">> \in Seq(Visibilities)
  BY <1>1
<1>4. QED
  BY <1>2, <1>3, Zenon DEF Batches

(* What a delivery does to the events.                                        *)
LEMMA DeliveryLogStep ==
  ASSUME SInv, StreamFields, NEW d \in Deliveries, Submission(d)
  PROVE  LogStep /\ reader' = reader
<1> USE DEF SInv
<1>1. ASSUME NEW q \in Requests, Blocked(d, q) \/ RateExceeded(d, q) \/ Guard(d, q)
      PROVE  LogStep /\ reader' = reader
  BY <1>1, LogStays DEF Blocked, RateExceeded, Guard, rows
<1>2. CASE Replay(d) \/ Conflict(d) \/ PrincipalUnavailable(d)
  BY <1>2, LogStays DEF Replay, Conflict, PrincipalUnavailable, rows
<1>3. ASSUME NEW r \in RunIds, Create(d, r)
      PROVE  LogStep /\ reader' = reader
  <2>1. /\ log' = [log EXCEPT ![r] = Append(log[r], "public")]
        /\ ~ Exists(r) /\ state' = state /\ reader' = reader
        /\ \E made : origin' = [origin EXCEPT ![r] = made]
    BY <1>3 DEF Create, Appended
  <2>2. \A x \in RunIds : Exists(x) => Exists(x)'
    BY <2>1 DEF Exists, OriginColumns
  <2>3. <<"public">> \in Seq(Visibilities) /\ log[r] \in Seq(Visibilities)
    BY DEF Visibilities, StreamFields
  <2>4. log' = [log EXCEPT ![r] = log[r] \o <<"public">>]
    <3>1. Append(log[r], "public") = log[r] \o <<"public">>
      BY <2>3, AppendIsConcat DEF Visibilities
    <3>2. QED
      BY <2>1, <3>1
  <2>5. LogStep
    BY <2>1, <2>2, <2>3, <2>4, LogGrows
  <2>6. QED
    BY <2>1, <2>5
<1>4. CASE StartPlanning(d) \/ Materialize(d) \/ FailPlanning(d)
  <2> DEFINE r == target[d]
  <2>1. r \in RunIds
    BY <1>4 DEF StartPlanning, Materialize, FailPlanning, Placed, Given
  <2>2. PICK to \in RunStates, new \in Batches :
          /\ state[r] \in {"received", "planning"}
          /\ state' = [state EXCEPT ![r] = to]
          /\ log' = [log EXCEPT ![r] = log[r] \o new]
          /\ origin' = origin /\ reader' = reader
    BY <1>4 DEF StartPlanning, Materialize, FailPlanning, PlansAt, Move, Batches, RunStates
  <2>3. new \in Seq(Visibilities)
    BY BatchesAreEvents
  <2>4. state[r] \notin Terminal
    BY <2>2 DEF Terminal
  <2>5. \A x \in RunIds : state[x] \in Terminal => state'[x] \in Terminal
    BY <2>1, <2>2, <2>4, TerminalStays
  <2>6. \A x \in RunIds : Exists(x) => Exists(x)'
    BY <2>2 DEF Exists
  <2>7. LogStep
    BY <2>1, <2>2, <2>3, <2>4, <2>5, <2>6, LogGrows
  <2>8. QED
    BY <2>2, <2>7
<1>5. CASE RecordDecision(d)
  <2> DEFINE r == target[d]
  <2>1. r \in RunIds
    BY <1>5 DEF RecordDecision, Placed, Given
  <2>2. /\ log' = [log EXCEPT ![r] = log[r] \o <<"internal">>]
        /\ origin' = origin /\ state' = state /\ reader' = reader
    BY <1>5 DEF RecordDecision, Keeps
  <2>3. /\ <<"internal">> \in Seq(Visibilities)
        /\ \A i \in 1..Len(<<"internal">>) : <<"internal">>[i] = "internal"
    BY DEF Visibilities
  <2>4. \A x \in RunIds : Exists(x) => Exists(x)'
    BY <2>2 DEF Exists
  <2>5. LogStep
    BY <2>1, <2>2, <2>3, <2>4, LogGrows
  <2>6. QED
    BY <2>2, <2>5
<1>6. ASSUME NEW answer \in {"skill", "plan", "error"}, Decide(d, answer)
      PROVE  LogStep /\ reader' = reader
  BY <1>6, LogStays DEF Decide, rows
<1>7. CASE MaterializeRefused(d) \/ PlanningLost(d) \/ Answer(d)
  BY <1>7, LogStays DEF MaterializeRefused, PlanningLost, Answer, rows
<1>8. QED
  BY <1>1, <1>2, <1>3, <1>4, <1>5, <1>6, <1>7 DEF Submission

(* And what the environment does to them.                                     *)
LEMMA EnvironmentLogStep ==
  ASSUME SInv, StreamFields, Environment
  PROVE  /\ LogStep
         /\ \/ reader' = reader
            \/ reader.state = "open" /\ reader' = [reader EXCEPT !.state = "dropped"]
<1> USE DEF SInv
<1>1. ASSUME NEW r \in RunIds, NEW to \in RunStates, Work(r, to) \/ (Recover(r, to) /\ to \in {"queued", "failed"})
      PROVE  LogStep /\ reader' = reader
  <2>1. PICK new \in Batches :
          /\ state[r] \in {"queued", "running", "composing"}
          /\ state' = [state EXCEPT ![r] = to]
          /\ log' = [log EXCEPT ![r] = log[r] \o new]
          /\ origin' = origin /\ reader' = reader
    BY <1>1 DEF Work, Recover, Move, Batches
  <2>2. new \in Seq(Visibilities)
    BY BatchesAreEvents
  <2>3. state[r] \notin Terminal
    BY <2>1 DEF Terminal
  <2>4. \A x \in RunIds : state[x] \in Terminal => state'[x] \in Terminal
    BY <2>1, <2>3, TerminalStays
  <2>5. \A x \in RunIds : Exists(x) => Exists(x)'
    BY <2>1 DEF Exists
  <2>6. LogStep
    BY <2>1, <2>2, <2>3, <2>4, <2>5, LogGrows
  <2>7. QED
    BY <2>1, <2>6
<1>2. ASSUME NEW r \in RunIds, LateEvent(r)
      PROVE  LogStep /\ reader' = reader
  <2>1. /\ log' = [log EXCEPT ![r] = log[r] \o <<"internal">>]
        /\ origin' = origin /\ state' = state /\ reader' = reader
    BY <1>2 DEF LateEvent, Keeps
  <2>2. /\ <<"internal">> \in Seq(Visibilities)
        /\ \A i \in 1..Len(<<"internal">>) : <<"internal">>[i] = "internal"
    BY DEF Visibilities
  <2>3. \A x \in RunIds : Exists(x) => Exists(x)'
    BY <2>1 DEF Exists
  <2>4. LogStep
    BY <2>1, <2>2, <2>3, LogGrows
  <2>5. QED
    BY <2>1, <2>4
<1>3. CASE Crash
  <2>1. UNCHANGED <<log, state, origin>> /\ LogStep
    BY <1>3, LogStays DEF Crash, rows
  <2>2. reader' = [reader EXCEPT !.state = IF reader.state = "open" THEN "dropped" ELSE reader.state]
    BY <1>3 DEF Crash
  <2>3. reader.state # "open" => reader' = reader
    BY <2>2 DEF StreamFields
  <2>4. QED
    BY <2>1, <2>2, <2>3
<1>4. CASE Tick
  BY <1>4, LogStays DEF Tick, rows
<1>5. {"queued", "failed"} \subseteq RunStates
  BY DEF RunStates
<1>6. QED
  BY <1>1, <1>2, <1>3, <1>4, <1>5 DEF Environment

(* A poll, a drop in the middle of a page and the resumption.                 *)
LEMMA StreamFollows ==
  ASSUME SInv, StreamFields, Follows, Stream
  PROVE  StreamFields' /\ Follows'
<1> DEFINE r == reader.run
<1>1. UNCHANGED <<log, state, origin>>
  BY DEF Stream, Open, Poll, Drop, Reconnect, rows
<1>2. ASSUME NEW x \in RunIds, Open(x)
      PROVE  StreamFields' /\ Follows'
  <2>1. /\ reader.state = "idle" /\ Exists(x) /\ x \in RunIds
        /\ reader' = [reader EXCEPT !.run = x, !.state = "open"]
    BY <1>2 DEF Open
  <2>2. reader' = [run |-> x, cursor |-> 0, got |-> <<>>, state |-> "open"]
    BY <2>1 DEF Follows, StreamFields
  <2>3. StreamFields'
    BY <1>1, <2>1, <2>2 DEF StreamFields
  <2>4. Place' = 0
    BY <2>2 DEF Place, CursorAfter
  <2>5. {y \in Visible' : y <= 0} = {}
    BY DEF Visible, Shown
  <2>6. Lists(<<>>, {})
    BY DEF Lists
  <2>7. Lists(reader'.got, {y \in Visible' : y <= Place'})
    <3>1. reader'.got = <<>>
      BY <2>2
    <3>2. QED
      BY <2>4, <2>5, <2>6, <3>1
  <2>8. reader'.run = x /\ reader'.state = "open" /\ reader'.cursor = 0
    BY <2>2
  <2>9. Exists(x)'
    BY <1>1, <2>1 DEF Exists
  <2>10. QED
    BY <2>3, <2>4, <2>7, <2>8, <2>9 DEF Follows, Exists
<1>3. ASSUME reader.state # "idle"
      PROVE  /\ r \in RunIds /\ Exists(r) /\ Len(log[r]) \in Nat
             /\ Place \in Nat /\ Lists(reader.got, {x \in Shown(log[r], 0, Role) : x <= Place})
             /\ Due(log[r], Place, Role) \in Seq(Nat)
  <2>1. /\ r \in RunIds /\ Exists(r)
        /\ Place \in Nat /\ Lists(reader.got, {x \in Visible : x <= Place})
    BY <1>3 DEF Follows
  <2>2. Len(log[r]) \in Nat
    BY <2>1 DEF StreamFields
  <2>3. Lists(Due(log[r], Place, Role), Shown(log[r], Place, Role))
    BY <2>2, DueLists
  <2>4. QED
    BY <2>1, <2>2, <2>3 DEF Lists, Visible
(* The first n events after the place are written to the client.              *)
<1>4. ASSUME reader.state = "open", NEW n \in 0..Len(Due(log[r], Place, Role)),
             NEW more, more = SubSeq(Due(log[r], Place, Role), 1, n),
             reader'.run = r, reader'.got = reader.got \o more,
             reader'.state \in {"open", "dropped", "ended"}
      PROVE  /\ reader'.got \in Seq(Nat)
             /\ Place' \in Nat /\ Place' = CursorAfter(Place, more)
             /\ Lists(reader'.got, {x \in Visible' : x <= Place'})
             /\ n = Len(Due(log[r], Place, Role)) => \A x \in Visible' : x <= Place'
  <2>1. Visible' = Shown(log[r], 0, Role)
    BY <1>1, <1>4 DEF Visible
  <2>2. Place' = CursorAfter(0, reader.got \o more)
    BY <1>4 DEF Place
  <2>3. Place = CursorAfter(0, reader.got)
    BY DEF Place
  <2>4. /\ Place' \in Nat /\ Place' = CursorAfter(Place, more)
        /\ Lists(reader.got \o more, {x \in Shown(log[r], 0, Role) : x <= Place'})
        /\ n = Len(Due(log[r], Place, Role)) => \A x \in Shown(log[r], 0, Role) : x <= Place'
    <3>1. /\ Len(log[r]) \in Nat /\ Place \in Nat
          /\ Lists(reader.got, {x \in Shown(log[r], 0, Role) : x <= Place})
      BY <1>3, <1>4
    <3>2. LET found == SubSeq(Due(log[r], Place, Role), 1, n)
              last == CursorAfter(0, reader.got \o found)
          IN /\ last \in Nat /\ last = CursorAfter(Place, found)
             /\ Lists(reader.got \o found, {x \in Shown(log[r], 0, Role) : x <= last})
             /\ n = Len(Due(log[r], Place, Role)) => \A x \in Shown(log[r], 0, Role) : x <= last
      BY <2>3, <3>1, FurtherOn
    <3>3. QED
      BY <1>4, <2>2, <3>2
  <2>5. {x \in Visible' : x <= Place'} = {x \in Shown(log[r], 0, Role) : x <= Place'}
    BY <2>1
  <2>6. Lists(reader'.got, {x \in Visible' : x <= Place'})
    BY <1>4, <2>4, <2>5
  <2>7. reader'.got \in Seq(Nat)
    BY <2>6 DEF Lists
  <2>8. QED
    BY <2>1, <2>4, <2>6, <2>7
<1>5. ASSUME reader.state = "open"
      PROVE  \E n \in 0..Len(Due(log[r], Place, Role)) :
               /\ NextPage.items = SubSeq(Due(log[r], Place, Role), 1, n)
               /\ ~ NextPage.more => n = Len(Due(log[r], Place, Role))
  <2>1. NextPage = Page(log[r], Place, Role, PageSize)
    BY <1>5 DEF NextPage, Follows
  <2>2. PageSize \in Nat \ {0}
    BY RequestAssumption
  <2>3. QED
    BY <1>3, <1>5, <2>1, <2>2, PageIsFirst
<1>6. CASE Poll
  <2>1. PICK n \in 0..Len(Due(log[r], Place, Role)) :
          /\ NextPage.items = SubSeq(Due(log[r], Place, Role), 1, n)
          /\ ~ NextPage.more => n = Len(Due(log[r], Place, Role))
    BY <1>5, <1>6 DEF Poll
  <2>2. PICK more : more = NextPage.items
    OBVIOUS
  <2>3. PICK last : last = CursorAfter(reader.cursor, more)
    OBVIOUS
  <2>4. PICK next \in {"open", "ended"} :
          /\ reader' = [reader EXCEPT !.cursor = last, !.got = reader.got \o more, !.state = next]
          /\ next = "ended" => state[r] \in Terminal /\ ~ NextPage.more
    BY <1>6, <2>2, <2>3 DEF Poll
  <2>5. /\ reader'.run = r /\ reader'.got = reader.got \o more /\ reader'.cursor = last
        /\ reader'.state = next /\ reader.state = "open" /\ reader.cursor = Place
    BY <1>6, <2>4 DEF StreamFields, Poll, Follows
  <2>6. /\ reader'.got \in Seq(Nat)
        /\ Place' \in Nat /\ Place' = last
        /\ Lists(reader'.got, {x \in Visible' : x <= Place'})
        /\ n = Len(Due(log[r], Place, Role)) => \A x \in Visible' : x <= Place'
    BY <1>4, <2>1, <2>2, <2>3, <2>5
  <2>7. StreamFields'
    BY <1>1, <2>4, <2>5, <2>6 DEF StreamFields
  <2>8. r \in RunIds /\ Exists(r)'
    BY <1>1, <1>3, <2>5 DEF Exists
  <2>9. next = "ended" => state'[r] \in Terminal /\ \A x \in Visible' : x <= Place'
    BY <1>1, <2>1, <2>4, <2>6
  <2>10. QED
    BY <2>5, <2>6, <2>7, <2>8, <2>9 DEF Follows, Exists
<1>7. CASE Drop
  <2>1. reader.state = "open"
    BY <1>7 DEF Drop
  <2>2. PICK m \in 0..Len(Due(log[r], Place, Role)) :
          NextPage.items = SubSeq(Due(log[r], Place, Role), 1, m)
    BY <1>5, <2>1
  <2>3. PICK n \in 0..Len(NextPage.items) :
          reader' = [reader EXCEPT !.got = reader.got \o SubSeq(NextPage.items, 1, n), !.state = "dropped"]
    BY <1>7 DEF Drop
  <2>4. PICK more : more = SubSeq(NextPage.items, 1, n)
    OBVIOUS
  <2>5. n \in 0..Len(Due(log[r], Place, Role)) /\ more = SubSeq(Due(log[r], Place, Role), 1, n)
    <3>1. Due(log[r], Place, Role) \in Seq(Nat)
      BY <1>3, <2>1
    <3>2. Len(NextPage.items) = m
      BY <2>2, <3>1
    <3>3. n \in 0..m
      BY <2>3, <3>2
    <3>4. QED
      BY <2>2, <2>4, <3>1, <3>3, PrefixOfPrefix
  <2>6. /\ reader'.run = r /\ reader'.got = reader.got \o more /\ reader'.cursor = reader.cursor
        /\ reader'.state = "dropped"
    BY <2>3, <2>4 DEF StreamFields
  <2>7. /\ reader'.got \in Seq(Nat) /\ Place' \in Nat
        /\ Lists(reader'.got, {x \in Visible' : x <= Place'})
    BY <1>4, <2>1, <2>5, <2>6
  <2>8. reader' = [reader EXCEPT !.got = reader.got \o more, !.state = "dropped"]
    BY <2>3, <2>4
  <2>9. StreamFields'
    BY <1>1, <2>6, <2>7, <2>8 DEF StreamFields
  <2>10. r \in RunIds /\ Exists(r)'
    BY <1>1, <1>3, <2>1, <2>6 DEF Exists
  <2>11. QED
    BY <2>6, <2>7, <2>9, <2>10 DEF Follows, Exists
<1>8. CASE Reconnect
  <2>1. /\ reader.state = "dropped"
        /\ reader' = [reader EXCEPT !.cursor = Place, !.state = "open"]
    BY <1>8 DEF Reconnect, Place
  <2>2. /\ reader'.run = r /\ reader'.got = reader.got /\ reader'.cursor = Place
        /\ reader'.state = "open"
    BY <2>1 DEF StreamFields
  <2>3. Place' = Place /\ Visible' = Visible
    BY <1>1, <2>2 DEF Place, Visible
  <2>4. /\ r \in RunIds /\ Exists(r)' /\ Place \in Nat
        /\ Lists(reader.got, {x \in Visible : x <= Place})
    BY <1>1, <1>3, <2>1 DEF Follows, Exists
  <2>5. StreamFields'
    BY <1>1, <2>1, <2>4 DEF StreamFields
  <2>6. Lists(reader'.got, {x \in Visible' : x <= Place'})
    BY <2>2, <2>3, <2>4
  <2>7. QED
    BY <2>2, <2>3, <2>4, <2>5, <2>6 DEF Follows, Exists
<1>9. QED
  BY <1>2, <1>6, <1>7, <1>8 DEF Stream

(* Nothing is missed before the first request.                                *)
LEMMA StreamInitially == Init => StreamFields /\ Follows
<1> SUFFICES ASSUME Init PROVE StreamFields /\ Follows
  OBVIOUS
<1>1. log \in [RunIds -> Seq(Visibilities)]
  BY DEF Init
<1>2. reader = [run |-> Nothing, cursor |-> 0, got |-> <<>>, state |-> "idle"]
  BY DEF Init
<1>3. QED
  BY <1>1, <1>2 DEF StreamFields, Follows

(* No step loses the reader's place.                                          *)
LEMMA FollowsPreserved ==
  ASSUME SInv, StreamFields, Follows, [Next]_vars
  PROVE  StreamFields' /\ Follows'
<1>1. CASE Stream
  BY <1>1, StreamFollows
<1>2. CASE \E d \in Deliveries : Submission(d)
  <2>1. LogStep /\ reader' = reader
    BY <1>2, DeliveryLogStep
  <2>2. StreamFields'
    BY <2>1 DEF StreamFields, LogStep
  <2>3. QED
    BY <2>1, <2>2, FollowsOn
<1>3. CASE Environment
  <2>1. /\ LogStep
        /\ \/ reader' = reader
           \/ reader.state = "open" /\ reader' = [reader EXCEPT !.state = "dropped"]
    BY <1>3, EnvironmentLogStep
  <2>2. StreamFields'
    BY <2>1 DEF StreamFields, LogStep
  <2>3. QED
    BY <2>1, <2>2, FollowsOn
<1>4. CASE UNCHANGED vars
  <2>1. UNCHANGED <<log, state, origin, reader>>
    BY <1>4 DEF vars, rows
  <2>2. LogStep /\ StreamFields'
    BY <2>1, LogStays DEF StreamFields
  <2>3. QED
    BY <2>1, <2>2, FollowsOn
<1>5. QED
  BY <1>1, <1>2, <1>3, <1>4 DEF Next

(* event_stream: whatever page size, drops, crashes and late internal events, *)
(* the client has what its role may see up to its place, and all of it once   *)
(* the stream has ended.                                                      *)
THEOREM StreamIsComplete == Spec => []StreamComplete
<1>1. Init => StreamFields /\ Follows
  BY StreamInitially
<1>2. SInv /\ (StreamFields /\ Follows) /\ [Next]_vars => (StreamFields /\ Follows)'
  BY FollowsPreserved
<1>3. StreamFields /\ Follows => StreamComplete
  BY FollowsCompletely
<1>4. QED
  BY <1>1, <1>2, <1>3, SubmissionInvariant, PTL DEF Spec

-----------------------------------------------------------------------------
(* The limit *)

(* Requests that joined a user's window; PrincipalUnavailable, Conflict and    *)
(* the faults only take some away.                                            *)
Admitted(u) ==
  {d \in Deliveries :
    /\ carried[d] # Nothing /\ pc[d] # "idle" /\ UserOf[carried[d]] = u
    /\ target[d] # Nothing \/ pc[d] = "create"}

InWindow(u, t) == {d \in Admitted(u) : at[d] \in (t - Window + 1)..t}

(* f finds the requests of A that are younger than b in the window w, each in  *)
(* a place of its own.                                                        *)
Finds(f, A, times, w, b) ==
  /\ \A d \in A : times[d] > b => f[d] \in 1..Len(w) /\ w[f[d]] = times[d]
  /\ \A d, e \in A : times[d] > b /\ times[e] > b /\ d # e => f[d] # f[e]

Remembered(u) == \E f : Finds(f, Admitted(u), at, windows[u], now - Window)

RateTypes ==
  /\ windows \in [Users -> Seq(Nat)]
  /\ \A d \in Deliveries : at[d] <= now

Limited(u) == \A t \in 0..now : IsFiniteSet(InWindow(u, t)) /\ Cardinality(InWindow(u, t)) <= Limit

RateInv == RateTypes /\ \A u \in Users \ forgotten : Remembered(u) /\ Limited(u)

(* What leaves a window has expired, and the rest is the end of it.           *)
LEMMA ActiveIsEnd ==
  ASSUME NEW w \in Seq(Nat), NEW t \in Nat
  PROVE  \E k \in 0..Len(w) :
           /\ ActiveRequests(w, t) = SubSeq(w, k + 1, Len(w))
           /\ \A i \in 1..k : w[i] <= t - Window
<1> DEFINE E == Expired(w, t)
           D == {Len(w) - n : n \in E}
<1>1. Len(w) \in Nat
  OBVIOUS
<1>2. E \subseteq 0..Len(w) /\ 0 \in E
  BY <1>1 DEF Expired
<1>3. D \subseteq Nat /\ Len(w) \in D
  <2> HIDE DEF E
  <2>1. \A n \in E : Len(w) - n \in Nat
    BY <1>1, <1>2
  <2>2. Len(w) - 0 = Len(w)
    BY <1>1
  <2>3. QED
    BY <1>2, <2>1, <2>2
<1>4. PICK x \in D : \A y \in D : x <= y
  <2> HIDE DEF D
  <2> QED
    BY <1>3, NatLeast
<1>5. PICK k \in E : \A n \in E : n <= k
  <2> HIDE DEF E
  <2>1. PICK k \in E : x = Len(w) - k
    BY <1>4
  <2>2. \A n \in E : Len(w) - k <= Len(w) - n
    BY <1>4, <2>1
  <2>3. \A n \in E : n <= k
    BY <1>1, <1>2, <2>2
  <2>4. QED
    BY <2>3
<1>6. Max(E) = k
  <2> HIDE DEF E
  <2>1. \A n \in E : (\A m \in E : n >= m) => n = k
    BY <1>2, <1>5
  <2>2. \A m \in E : k >= m
    BY <1>2, <1>5
  <2>3. QED
    BY <1>5, <2>1, <2>2 DEF Max
<1>7. k \in 0..Len(w) /\ \A i \in 1..k : w[i] <= t - Window
  BY <1>5 DEF Expired
<1>8. QED
  BY <1>6, <1>7 DEF ActiveRequests

(* So what is left is a window again.                                         *)
LEMMA ActiveIsSeq ==
  ASSUME NEW w \in Seq(Nat), NEW t \in Nat
  PROVE  ActiveRequests(w, t) \in Seq(Nat) /\ Len(ActiveRequests(w, t)) \in Nat
<1>1. PICK k \in 0..Len(w) : ActiveRequests(w, t) = SubSeq(w, k + 1, Len(w))
  BY ActiveIsEnd
<1>2. SubSeq(w, k + 1, Len(w)) \in Seq(Nat)
  OBVIOUS
<1>3. QED
  BY <1>1, <1>2

(* The young requests are no more than the places of the window.              *)
LEMMA FoundAreFew ==
  ASSUME NEW f, NEW A, NEW times, NEW w \in Seq(Nat), NEW b, Finds(f, A, times, w, b)
  PROVE  LET young == {d \in A : times[d] > b}
         IN IsFiniteSet(young) /\ Cardinality(young) <= Len(w)
<1> DEFINE young == {d \in A : times[d] > b}
           g == [d \in young |-> f[d]]
<1>1. Len(w) \in Nat /\ IsFiniteSet(1..Len(w)) /\ Cardinality(1..Len(w)) = Len(w)
  <2>1. Len(w) \in Nat
    OBVIOUS
  <2>2. 1 \in Int /\ Len(w) \in Int
    BY <2>1
  <2>3. IsFiniteSet(1..Len(w)) /\ Cardinality(1..Len(w)) = IF 1 > Len(w) THEN 0 ELSE Len(w) - 1 + 1
    BY <2>2, FS_Interval
  <2>4. (IF 1 > Len(w) THEN 0 ELSE Len(w) - 1 + 1) = Len(w)
    BY <2>1
  <2>5. QED
    BY <2>1, <2>3, <2>4
<1>2. g \in Injection(young, 1..Len(w))
  <2>1. g \in [young -> 1..Len(w)]
    BY DEF Finds
  <2>2. \A d, e \in young : g[d] = g[e] => d = e
    BY DEF Finds
  <2> HIDE DEF g
  <2>3. QED
    BY <2>1, <2>2 DEF Injection, IsInjective
<1>3. IsFiniteSet(young) /\ Cardinality(young) <= Cardinality(1..Len(w))
  <2> HIDE DEF young, g
  <2> QED
    BY <1>1, <1>2, FS_Injection
<1>4. QED
  BY <1>1, <1>3

(* Nothing young leaves a window.                                             *)
LEMMA FindsActive ==
  ASSUME NEW f, NEW A, NEW times, \A d \in A : times[d] \in Nat,
         NEW w \in Seq(Nat), NEW t \in Nat, Finds(f, A, times, w, t - Window)
  PROVE  \E g : Finds(g, A, times, ActiveRequests(w, t), t - Window)
<1>1. PICK k \in 0..Len(w) :
        /\ ActiveRequests(w, t) = SubSeq(w, k + 1, Len(w))
        /\ \A i \in 1..k : w[i] <= t - Window
  BY ActiveIsEnd
<1> DEFINE v == SubSeq(w, k + 1, Len(w))
           g == [d \in A |-> f[d] - k]
<1>2. Len(v) = Len(w) - k /\ \A i \in 1..Len(v) : v[i] = w[k + i]
  OBVIOUS
<1>3. ASSUME NEW d \in A, times[d] > t - Window
      PROVE  g[d] \in 1..Len(v) /\ v[g[d]] = times[d]
  <2>1. f[d] \in 1..Len(w) /\ w[f[d]] = times[d] /\ g[d] = f[d] - k
    BY <1>3 DEF Finds
  <2>2. ~ f[d] \in 1..k
    <3>1. t - Window \in Int
      BY RateAssumption
    <3>2. QED
      BY <1>1, <1>3, <2>1, <3>1
  <2>3. g[d] \in 1..Len(v) /\ k + g[d] = f[d]
    BY <1>2, <2>1, <2>2
  <2> HIDE DEF v, g
  <2>4. QED
    BY <1>2, <2>1, <2>3
<1>4. ASSUME NEW d \in A, NEW e \in A, times[d] > t - Window, times[e] > t - Window, d # e
      PROVE  g[d] # g[e]
  BY <1>4 DEF Finds
<1>5. Finds(g, A, times, v, t - Window)
  <2> HIDE DEF v, g
  <2> QED
    BY <1>3, <1>4 DEF Finds
<1>6. QED
  BY <1>1, <1>5

(* Fewer requests, or a later cutoff.                                         *)
LEMMA FindsFewer ==
  ASSUME NEW f, NEW A, NEW times, NEW w, NEW b \in Int, Finds(f, A, times, w, b),
         NEW B \in SUBSET A, NEW times2, \A d \in B : times2[d] = times[d] /\ times[d] \in Nat,
         NEW c \in Int, b <= c
  PROVE  Finds(f, B, times2, w, c)
BY DEF Finds

(* A request joins at the end.                                                *)
LEMMA FindsAnother ==
  ASSUME NEW f, NEW A, NEW times, NEW w \in Seq(Nat), NEW b \in Int, Finds(f, A, times, w, b),
         NEW d, NEW B \in SUBSET (A \union {d}), NEW times2, NEW t \in Nat, times2[d] = t,
         \A e \in B : e # d => e \in A /\ times2[e] = times[e]
  PROVE  \E g : Finds(g, B, times2, Append(w, t), b)
<1> DEFINE v == Append(w, t)
           g == [e \in B |-> IF e = d THEN Len(w) + 1 ELSE f[e]]
<1>1. /\ Len(w) \in Nat /\ Len(v) = Len(w) + 1 /\ v[Len(w) + 1] = t
      /\ \A i \in 1..Len(w) : v[i] = w[i] /\ i \in 1..Len(v)
  OBVIOUS
<1> HIDE DEF v
<1>2. ASSUME NEW e \in B, times2[e] > b
      PROVE  g[e] \in 1..Len(v) /\ v[g[e]] = times2[e] /\ (e # d => g[e] = f[e] /\ f[e] \in 1..Len(w))
  <2>1. CASE e = d
    BY <1>1, <2>1
  <2>2. CASE e # d
    <3>1. f[e] \in 1..Len(w) /\ w[f[e]] = times2[e] /\ g[e] = f[e]
      BY <1>2, <2>2 DEF Finds
    <3>2. QED
      BY <1>1, <2>2, <3>1
  <2>3. QED
    BY <2>1, <2>2
<1>3. g[d] = Len(w) + 1 \/ d \notin B
  OBVIOUS
<1> HIDE DEF g
<1>4. ASSUME NEW x \in B, NEW y \in B, times2[x] > b, times2[y] > b, x # y
      PROVE  g[x] # g[y]
  <2>1. CASE x # d /\ y # d
    <3>1. g[x] = f[x] /\ g[y] = f[y] /\ x \in A /\ y \in A /\ times[x] > b /\ times[y] > b
      BY <1>2, <1>4, <2>1
    <3>2. QED
      BY <1>4, <3>1 DEF Finds
  <2>2. CASE x = d \/ y = d
    BY <1>1, <1>2, <1>3, <1>4, <2>2
  <2>3. QED
    BY <2>1, <2>2
<1>5. Finds(g, B, times2, v, b)
  BY <1>2, <1>4 DEF Finds
<1>6. QED
  BY <1>5 DEF v

(* A user whose requests do not change, or get fewer, while the clock may     *)
(* go on.                                                                     *)
LEMMA LimitedOn ==
  ASSUME DeliveryFields, RateTypes, NEW u, Limited(u),
         Admitted(u)' \subseteq Admitted(u), \A d \in Deliveries : at'[d] = at[d],
         now' \in {now, now + 1}
  PROVE  Limited(u)'
<1>1. now \in Nat /\ Window \in Nat \ {0} /\ \A d \in Deliveries : at[d] \in Nat /\ at[d] <= now
  BY RateAssumption DEF DeliveryFields, RateTypes
<1>2. ASSUME NEW t \in 0..now'
      PROVE  IsFiniteSet(InWindow(u, t)') /\ Cardinality(InWindow(u, t)') <= Limit
  <2>1. PICK s \in 0..now : InWindow(u, t)' \subseteq InWindow(u, s)
    <3>1. CASE t \in 0..now
      <4>1. InWindow(u, t)' \subseteq InWindow(u, t)
        BY DEF InWindow, Admitted
      <4>2. QED
        BY <3>1, <4>1
    <3>2. CASE t = now + 1
      <4>1. now \in 0..now
        BY <1>1
      <4>2. \A d \in Deliveries : at[d] \in (t - Window + 1)..t => at[d] \in (now - Window + 1)..now
        BY <1>1, <3>2
      <4>3. InWindow(u, t)' \subseteq InWindow(u, now)
        BY <4>2 DEF InWindow, Admitted
      <4>4. QED
        BY <4>1, <4>3
    <3>3. QED
      BY <1>1, <3>1, <3>2
  <2>2. IsFiniteSet(InWindow(u, s)) /\ Cardinality(InWindow(u, s)) <= Limit
    BY DEF Limited
  <2>3. /\ IsFiniteSet(InWindow(u, t)')
        /\ Cardinality(InWindow(u, t)') <= Cardinality(InWindow(u, s))
        /\ Cardinality(InWindow(u, t)') \in Nat /\ Cardinality(InWindow(u, s)) \in Nat
    BY <2>1, <2>2, FS_Subset, FS_CardinalityType
  <2>4. QED
    BY <2>2, <2>3, RateAssumption
<1>3. QED
  BY <1>2 DEF Limited

(* Nor is a window that stays as it was less than it was.                     *)
LEMMA RememberedOn ==
  ASSUME DeliveryFields, RateTypes, NEW u, Remembered(u),
         Admitted(u)' \subseteq Admitted(u), \A d \in Deliveries : at'[d] = at[d],
         now' \in {now, now + 1}, windows'[u] = windows[u]
  PROVE  Remembered(u)'
<1>1. PICK f : Finds(f, Admitted(u), at, windows[u], now - Window)
  BY DEF Remembered
<1>2. now - Window \in Int /\ now' - Window \in Int /\ now - Window <= now' - Window
  <2>1. now \in Nat /\ Window \in Nat
    BY RateAssumption DEF DeliveryFields
  <2>2. PICK n, later, w : n = now /\ later = now' /\ w = Window
    OBVIOUS
  <2>3. n \in Nat /\ w \in Nat /\ (later = n \/ later = n + 1)
    BY <2>1, <2>2
  <2>4. n - w \in Int /\ later - w \in Int /\ n - w <= later - w
    BY <2>3
  <2>5. QED
    BY <2>2, <2>4
<1>3. \A d \in Admitted(u)' : at'[d] = at[d] /\ at[d] \in Nat
  BY DEF Admitted, DeliveryFields
<1>4. PICK B, times, w, c : B = Admitted(u)' /\ times = at' /\ w = windows'[u] /\ c = now' - Window
  OBVIOUS
<1>5. /\ B \in SUBSET Admitted(u) /\ c \in Int /\ now - Window <= c
      /\ Finds(f, Admitted(u), at, w, now - Window)
      /\ \A d \in B : times[d] = at[d] /\ at[d] \in Nat
  BY <1>1, <1>2, <1>3, <1>4
<1>6. Finds(f, B, times, w, c)
  BY <1>2, <1>5, FindsFewer
<1>7. QED
  BY <1>4, <1>6 DEF Remembered

(* Steps that add nothing to the windows of users that are not forgotten.     *)
LEMMA RateOn ==
  ASSUME DeliveryFields, RateInv, windows' \in [Users -> Seq(Nat)],
         forgotten \subseteq forgotten', now' \in {now, now + 1}, at' = at,
         \A u \in Users : Admitted(u)' \subseteq Admitted(u),
         \A u \in Users \ forgotten' : windows'[u] = windows[u]
  PROVE  RateInv'
<1>1. RateTypes'
  BY DEF RateInv, RateTypes, DeliveryFields
<1>2. ASSUME NEW u \in Users, u \notin forgotten'
      PROVE  Remembered(u)' /\ Limited(u)'
  <2>1. RateTypes /\ Remembered(u) /\ Limited(u) /\ windows'[u] = windows[u]
    BY <1>2 DEF RateInv
  <2>2. Admitted(u)' \subseteq Admitted(u) /\ \A d \in Deliveries : at'[d] = at[d]
    BY DEF DeliveryFields
  <2>3. QED
    BY <2>1, <2>2, LimitedOn, RememberedOn
<1>3. QED
  BY <1>1, <1>2 DEF RateInv

(* A user whose window only loses what has expired.                           *)
LEMMA RememberedPruned ==
  ASSUME DeliveryFields, RateTypes, NEW u \in Users, Remembered(u),
         Admitted(u)' \subseteq Admitted(u), at' = at, now' = now,
         windows'[u] = ActiveRequests(windows[u], now)
  PROVE  Remembered(u)'
<1>1. PICK f : Finds(f, Admitted(u), at, windows[u], now - Window)
  BY DEF Remembered
<1>2. now \in Nat /\ now - Window \in Int /\ windows[u] \in Seq(Nat)
      /\ \A d \in Admitted(u) : at[d] \in Nat
  BY RateAssumption DEF DeliveryFields, RateTypes, Admitted
<1>3. PICK g : Finds(g, Admitted(u), at, ActiveRequests(windows[u], now), now - Window)
  BY <1>1, <1>2, FindsActive
<1>4. PICK B : B = Admitted(u)'
  OBVIOUS
<1>5. B \in SUBSET Admitted(u) /\ \A d \in B : at[d] = at[d] /\ at[d] \in Nat
  BY <1>2, <1>4
<1>6. now - Window <= now - Window
  BY <1>2
<1>7. Finds(g, B, at, ActiveRequests(windows[u], now), now - Window)
  BY <1>2, <1>3, <1>5, <1>6, FindsFewer
<1>8. QED
  BY <1>4, <1>7 DEF Remembered

(* RateExceeded                                                               *)
LEMMA RateOnRefusal ==
  ASSUME DeliveryFields, Placed, RateInv, NEW d \in Deliveries, NEW q \in Requests, RateExceeded(d, q)
  PROVE  RateInv'
<1> DEFINE v == UserOf[q]
<1>1. /\ v \in Users /\ windows \in [Users -> Seq(Nat)] /\ now \in Nat
      /\ windows' = [windows EXCEPT ![v] = ActiveRequests(windows[v], now)]
      /\ UNCHANGED <<now, at, target, forgotten>>
      /\ pc' = [pc EXCEPT ![d] = "refused"] /\ carried' = [carried EXCEPT ![d] = q]
      /\ pc[d] = "idle" /\ target[d] = Nothing
  BY DEF RateExceeded, Go, RateInv, RateTypes, DeliveryFields, Users, Placed
<1>2. \A u \in Users : Admitted(u)' \subseteq Admitted(u)
  BY <1>1 DEF Admitted, DeliveryFields
<1>3. windows' \in [Users -> Seq(Nat)]
  <2>1. ActiveRequests(windows[v], now) \in Seq(Nat)
    <3>1. windows[v] \in Seq(Nat)
      BY <1>1
    <3>2. QED
      BY <1>1, <3>1, ActiveIsSeq
  <2>2. QED
    BY <1>1, <2>1
<1>4. RateTypes'
  BY <1>1, <1>3 DEF RateInv, RateTypes
<1>5. ASSUME NEW u \in Users, u \notin forgotten'
      PROVE  Remembered(u)' /\ Limited(u)'
  <2>1. RateTypes /\ Remembered(u) /\ Limited(u)
    BY <1>1, <1>5 DEF RateInv
  <2>2. Limited(u)'
    BY <1>1, <1>2, <2>1, LimitedOn
  <2>3. CASE u = v
    <3>1. windows'[u] = ActiveRequests(windows[u], now)
      BY <1>1, <2>3
    <3>2. QED
      BY <1>1, <1>2, <2>1, <2>2, <3>1, RememberedPruned
  <2>4. CASE u # v
    <3>1. windows'[u] = windows[u]
      BY <1>1, <2>4
    <3>2. QED
      BY <1>1, <1>2, <2>1, <2>2, <3>1, RememberedOn
  <2>5. QED
    BY <2>3, <2>4
<1>6. QED
  BY <1>4, <1>5 DEF RateInv

(* Guard: the request joins its user's window behind what is left of it.      *)
LEMMA ReservedWindows ==
  ASSUME windows \in [Users -> Seq(Nat)], NEW v \in Users, NEW t \in Nat, NEW after,
         after \in Reserved(windows, v, t)
  PROVE  /\ after \in [Users -> Seq(Nat)]
         /\ after[v] = Append(ActiveRequests(windows[v], t), t)
         /\ \A u \in Users : u # v => after[u] = windows[u] \/ (windows[u] # <<>> /\ after[u] = <<>>)
<1> DEFINE active == ActiveRequests(windows[v], t)
           pruned == [windows EXCEPT ![v] = active]
           added == [pruned EXCEPT ![v] = Append(active, t)]
<1>1. active \in Seq(Nat)
  <2>1. windows[v] \in Seq(Nat)
    OBVIOUS
  <2>2. QED
    BY <2>1, ActiveIsSeq
<1>2. pruned[v] = active /\ DOMAIN pruned = Users /\ \A u \in Users : u # v => pruned[u] = windows[u]
  OBVIOUS
<1>3. after = added \/ \E old \in ToForget(pruned, v) : after = [added EXCEPT ![old] = <<>>]
  BY <1>2 DEF Reserved
<1> HIDE DEF active
<1>4. \A old \in ToForget(pruned, v) : old \in Users /\ old # v /\ windows[old] # <<>>
  BY <1>2 DEF ToForget, LeastRecent, KeysIn
<1>5. added \in [Users -> Seq(Nat)] /\ added[v] = Append(active, t) /\ \A u \in Users : u # v => added[u] = windows[u]
  BY <1>1, <1>2
<1> HIDE DEF added, pruned
<1>6. CASE after = added
  BY <1>5, <1>6 DEF active
<1>7. ASSUME NEW old \in ToForget(pruned, v), after = [added EXCEPT ![old] = <<>>]
      PROVE  /\ after \in [Users -> Seq(Nat)]
             /\ after[v] = Append(active, t)
             /\ \A u \in Users : u # v => after[u] = windows[u] \/ (windows[u] # <<>> /\ after[u] = <<>>)
  <2>1. old \in Users /\ old # v /\ windows[old] # <<>>
    BY <1>4
  <2>2. /\ after \in [Users -> Seq(Nat)] /\ after[old] = <<>>
        /\ \A u \in Users : u # old => after[u] = added[u]
    BY <1>5, <1>7, <2>1
  <2>3. QED
    BY <1>5, <2>1, <2>2
<1>8. QED
  BY <1>3, <1>6, <1>7 DEF active

(* After it the window has room for one more at the most.                     *)
LEMMA RateOnGuard ==
  ASSUME DeliveryFields, Placed, RateInv, NEW d \in Deliveries, NEW q \in Requests, Guard(d, q)
  PROVE  RateInv'
<1> DEFINE v == UserOf[q]
           left == ActiveRequests(windows[v], now)
<1>1. /\ v \in Users /\ windows \in [Users -> Seq(Nat)] /\ now \in Nat
      /\ windows' \in Reserved(windows, v, now) /\ Len(left) < Limit
      /\ forgotten' = forgotten \union {u \in Users : windows[u] # <<>> /\ windows'[u] = <<>>}
      /\ UNCHANGED <<now, target>>
      /\ at' = [at EXCEPT ![d] = now]
      /\ pc' = [pc EXCEPT ![d] = "create"] /\ carried' = [carried EXCEPT ![d] = q]
      /\ pc[d] = "idle" /\ target[d] = Nothing /\ windows[v] \in Seq(Nat)
  BY DEF Guard, Go, HasCapacity, RateInv, RateTypes, DeliveryFields, Users, Placed
<1>2. PICK after : after = windows'
  OBVIOUS
<1>3. /\ windows' \in [Users -> Seq(Nat)]
      /\ windows'[v] = Append(left, now)
      /\ \A u \in Users : u # v => windows'[u] = windows[u] \/ (windows[u] # <<>> /\ windows'[u] = <<>>)
  <2>1. after \in Reserved(windows, v, now)
    BY <1>1, <1>2
  <2> HIDE DEF v
  <2>2. /\ after \in [Users -> Seq(Nat)]
        /\ after[v] = Append(left, now)
        /\ \A u \in Users : u # v => after[u] = windows[u] \/ (windows[u] # <<>> /\ after[u] = <<>>)
    BY <1>1, <2>1, ReservedWindows
  <2>3. QED
    BY <1>2, <2>2
<1>4. left \in Seq(Nat) /\ Len(left) \in Nat
  BY <1>1, ActiveIsSeq
<1> HIDE DEF left
<1>5. /\ \A u \in Users : u # v => Admitted(u)' \subseteq Admitted(u)
      /\ Admitted(v)' \subseteq Admitted(v) \union {d}
      /\ \A u \in Users : d \notin Admitted(u)
  BY <1>1 DEF Admitted, DeliveryFields
<1>6. at'[d] = now /\ \A e \in Deliveries : e # d => at'[e] = at[e]
  BY <1>1 DEF DeliveryFields
<1>7. RateTypes'
  BY <1>1, <1>3, <1>6 DEF RateInv, RateTypes
<1>8. ASSUME NEW u \in Users, u \notin forgotten', u # v
      PROVE  Remembered(u)' /\ Limited(u)'
  <2>1. Remembered(u) /\ Limited(u) /\ windows'[u] = windows[u]
    BY <1>1, <1>3, <1>8 DEF RateInv
  <2>2. Admitted(u)' \subseteq Admitted(u) /\ \A e \in Admitted(u)' : at'[e] = at[e]
    BY <1>5, <1>6, <1>8 DEF Admitted
  <2>3. Remembered(u)'
    <3>1. PICK f : Finds(f, Admitted(u), at, windows[u], now - Window)
      BY <2>1 DEF Remembered
    <3>2. PICK B, times : B = Admitted(u)' /\ times = at'
      OBVIOUS
    <3>3. /\ B \in SUBSET Admitted(u) /\ now - Window \in Int /\ now - Window <= now - Window
          /\ \A e \in B : times[e] = at[e] /\ at[e] \in Nat
      BY <1>1, <2>2, <3>2, RateAssumption DEF Admitted, DeliveryFields
    <3>4. Finds(f, B, times, windows[u], now - Window)
      BY <3>1, <3>3, FindsFewer
    <3>5. QED
      BY <1>1, <2>1, <3>2, <3>4 DEF Remembered
  <2>4. Limited(u)'
    <3>1. ASSUME NEW t \in 0..now
          PROVE  IsFiniteSet(InWindow(u, t)') /\ Cardinality(InWindow(u, t)') <= Limit
      <4>1. InWindow(u, t)' \subseteq InWindow(u, t)
        BY <2>2 DEF InWindow
      <4>2. IsFiniteSet(InWindow(u, t)) /\ Cardinality(InWindow(u, t)) <= Limit
        BY <2>1 DEF Limited
      <4>3. /\ IsFiniteSet(InWindow(u, t)')
            /\ Cardinality(InWindow(u, t)') <= Cardinality(InWindow(u, t))
            /\ Cardinality(InWindow(u, t)') \in Nat /\ Cardinality(InWindow(u, t)) \in Nat
        BY <4>1, <4>2, FS_Subset, FS_CardinalityType
      <4>4. QED
        BY <4>2, <4>3, RateAssumption
    <3>2. QED
      BY <1>1, <3>1 DEF Limited
  <2>5. QED
    BY <2>3, <2>4
<1>9. ASSUME v \notin forgotten'
      PROVE  Remembered(v)' /\ Limited(v)'
  <2>1. Remembered(v) /\ Limited(v)
    BY <1>1, <1>9 DEF RateInv
  <2>2. PICK f : Finds(f, Admitted(v), at, windows[v], now - Window)
    BY <2>1 DEF Remembered
  <2>3. now - Window \in Int /\ \A e \in Admitted(v) : at[e] \in Nat
    BY <1>1, RateAssumption DEF Admitted, DeliveryFields
  <2>4. PICK g : Finds(g, Admitted(v), at, left, now - Window)
    BY <1>1, <2>2, <2>3, FindsActive DEF left
  <2>5. Remembered(v)'
    <3>1. PICK B, times : B = Admitted(v)' /\ times = at'
      OBVIOUS
    <3>2. /\ B \in SUBSET (Admitted(v) \union {d}) /\ times[d] = now
          /\ \A e \in B : e # d => e \in Admitted(v) /\ times[e] = at[e]
      BY <1>5, <1>6, <3>1 DEF Admitted
    <3>3. \E h : Finds(h, B, times, Append(left, now), now - Window)
      <4>1. PICK A, b : A = Admitted(v) /\ b = now - Window
        OBVIOUS
      <4>2. /\ left \in Seq(Nat) /\ now \in Nat /\ times[d] = now
            /\ b \in Int /\ Finds(g, A, at, left, b) /\ B \in SUBSET (A \union {d})
            /\ \A e \in B : e # d => e \in A /\ times[e] = at[e]
        BY <1>1, <1>4, <2>3, <2>4, <3>2, <4>1
      <4>3. \E h : Finds(h, B, times, Append(left, now), b)
        BY <4>2, FindsAnother
      <4>4. QED
        BY <4>1, <4>3
    <3>4. now' = now /\ windows'[v] = Append(left, now)
      BY <1>1, <1>3
    <3> HIDE DEF v
    <3>5. QED
      BY <3>1, <3>3, <3>4 DEF Remembered
  <2>6. /\ IsFiniteSet(InWindow(v, now)) /\ Cardinality(InWindow(v, now)) <= Len(left)
        /\ Cardinality(InWindow(v, now)) \in Nat
    <3>1. InWindow(v, now) = {e \in Admitted(v) : at[e] > now - Window}
      <4>1. \A e \in Admitted(v) : at[e] \in Nat /\ at[e] <= now
        BY <2>3 DEF Admitted, RateInv, RateTypes
      <4>2. Window \in Nat
        BY RateAssumption
      <4>3. \A e \in Admitted(v) : at[e] \in (now - Window + 1)..now <=> at[e] > now - Window
        BY <1>1, <4>1, <4>2
      <4>4. QED
        BY <4>3 DEF InWindow
    <3>2. LET young == {e \in Admitted(v) : at[e] > now - Window}
          IN IsFiniteSet(young) /\ Cardinality(young) <= Len(left)
      <4> HIDE DEF v
      <4> QED
        BY <1>4, <2>4, FoundAreFew
    <3>3. IsFiniteSet(InWindow(v, now)) /\ Cardinality(InWindow(v, now)) <= Len(left)
      BY <3>1, <3>2
    <3>4. QED
      BY <3>3, FS_CardinalityType
  <2>7. ASSUME NEW t \in 0..now
        PROVE  IsFiniteSet(InWindow(v, t)') /\ Cardinality(InWindow(v, t)') <= Limit
    <3>1. CASE t = now
      <4>1. InWindow(v, t)' \subseteq InWindow(v, now) \union {d}
        BY <1>5, <1>6, <3>1 DEF InWindow, Admitted
      <4>2. /\ IsFiniteSet(InWindow(v, now) \union {d})
            /\ Cardinality(InWindow(v, now) \union {d}) <= Cardinality(InWindow(v, now)) + 1
            /\ Cardinality(InWindow(v, now) \union {d}) \in Nat
        <5>1. /\ IsFiniteSet(InWindow(v, now) \union {d})
              /\ Cardinality(InWindow(v, now) \union {d}) =
                   IF d \in InWindow(v, now) THEN Cardinality(InWindow(v, now))
                   ELSE Cardinality(InWindow(v, now)) + 1
          BY <2>6, FS_AddElement
        <5>2. QED
          BY <2>6, <5>1
      <4>3. /\ IsFiniteSet(InWindow(v, t)')
            /\ Cardinality(InWindow(v, t)') <= Cardinality(InWindow(v, now) \union {d})
            /\ Cardinality(InWindow(v, t)') \in Nat
        BY <4>1, <4>2, FS_Subset, FS_CardinalityType
      <4>4. Cardinality(InWindow(v, now)) + 1 <= Limit
        BY <1>1, <1>4, <2>6, RateAssumption
      <4>5. QED
        BY <2>6, <4>2, <4>3, <4>4, RateAssumption
    <3>2. CASE t < now
      <4>1. InWindow(v, t)' \subseteq InWindow(v, t)
        <5>1. ~ at'[d] \in (t - Window + 1)..t
          BY <1>1, <1>6, <3>2
        <5>2. QED
          BY <1>5, <1>6, <5>1 DEF InWindow, Admitted
      <4>2. IsFiniteSet(InWindow(v, t)) /\ Cardinality(InWindow(v, t)) <= Limit
        BY <2>1 DEF Limited
      <4>3. /\ IsFiniteSet(InWindow(v, t)')
            /\ Cardinality(InWindow(v, t)') <= Cardinality(InWindow(v, t))
            /\ Cardinality(InWindow(v, t)') \in Nat /\ Cardinality(InWindow(v, t)) \in Nat
        BY <4>1, <4>2, FS_Subset, FS_CardinalityType
      <4>4. QED
        BY <4>2, <4>3, RateAssumption
    <3>3. QED
      BY <1>1, <3>1, <3>2
  <2>8. QED
    BY <1>1, <2>5, <2>7 DEF Limited
<1>10. QED
  BY <1>7, <1>8, <1>9 DEF RateInv

(* A delivery that goes on joins no window.                                   *)
LEMMA RateOnDelivery ==
  ASSUME SInv, RateInv, NEW d \in Deliveries, Submission(d)
  PROVE  RateInv'
<1> USE DEF SInv
<1>1. ASSUME NEW q \in Requests, Guard(d, q) \/ RateExceeded(d, q)
      PROVE  RateInv'
  BY <1>1, RateOnGuard, RateOnRefusal
<1>2. ASSUME UNCHANGED <<now, windows, at, forgotten>>,
             \A u \in Users : Admitted(u)' \subseteq Admitted(u)
      PROVE  RateInv'
  <2>1. windows' \in [Users -> Seq(Nat)] /\ forgotten \subseteq forgotten' /\ now' \in {now, now + 1}
    BY <1>2 DEF RateInv, RateTypes
  <2>2. QED
    BY <1>2, <2>1, RateOn
<1>3. ASSUME NEW q \in Requests, Blocked(d, q)
      PROVE  RateInv'
  <2>1. UNCHANGED <<now, windows, at, forgotten>>
    BY <1>3 DEF Blocked
  <2>2. \A u \in Users : Admitted(u)' \subseteq Admitted(u)
    BY <1>3 DEF Blocked, Go, Admitted, Placed, DeliveryFields
  <2>3. QED
    BY <1>2, <2>1, <2>2
<1>4. ASSUME UNCHANGED <<now, windows, at, forgotten, carried>>, NEW next, pc' = [pc EXCEPT ![d] = next],
             pc[d] = "create" \/ target[d] # Nothing,
             next # "create", \E r : target' = [target EXCEPT ![d] = r]
      PROVE  RateInv'
  <2>1. ASSUME NEW u \in Users, NEW e \in Admitted(u)'
        PROVE  e \in Admitted(u)
    <3>1. CASE e = d
      <4>1. pc[e] # "idle"
        BY <1>4, <3>1 DEF Placed
      <4>2. QED
        BY <1>4, <3>1, <4>1 DEF Admitted
    <3>2. CASE e # d
      BY <1>4, <3>2 DEF Admitted, DeliveryFields
    <3>3. QED
      BY <3>1, <3>2
  <2>2. QED
    BY <1>2, <1>4, <2>1
<1>5. target = [target EXCEPT ![d] = target[d]]
  BY DEF DeliveryFields
<1>6. pc[d] \in Given => target[d] # Nothing
  BY RequestAssumption DEF Placed
<1>7. CASE Replay(d) \/ \E r \in RunIds : Create(d, r)
  <2>1. PICK next \in {"interrupt", "start", "read"} :
          /\ UNCHANGED <<now, windows, at, forgotten, carried>> /\ pc' = [pc EXCEPT ![d] = next]
          /\ pc[d] = "create" /\ \E r : target' = [target EXCEPT ![d] = r]
    BY <1>7 DEF Replay, Create, Continuation, Go
  <2>2. QED
    BY <1>4, <2>1
<1>8. CASE Conflict(d) \/ PrincipalUnavailable(d)
  <2>1. /\ UNCHANGED <<now, windows, at, forgotten, carried, target>> /\ pc' = [pc EXCEPT ![d] = "refused"]
        /\ pc[d] = "create"
    BY <1>8 DEF Conflict, PrincipalUnavailable, Go
  <2>2. QED
    BY <1>4, <1>5, <2>1
<1>9. CASE \/ StartPlanning(d) \/ \E answer \in {"skill", "plan", "error"} : Decide(d, answer)
           \/ RecordDecision(d) \/ Materialize(d) \/ MaterializeRefused(d)
           \/ FailPlanning(d) \/ PlanningLost(d) \/ Answer(d)
  <2>1. PICK next \in Given \union {"refused"} :
          /\ UNCHANGED <<now, windows, at, forgotten, carried, target>> /\ pc' = [pc EXCEPT ![d] = next]
          /\ pc[d] \in Given
    <3>1. CASE StartPlanning(d) \/ \E answer \in {"skill", "plan", "error"} : Decide(d, answer)
      BY <3>1 DEF StartPlanning, Decide, Go, Given
    <3>2. CASE RecordDecision(d) \/ Materialize(d) \/ MaterializeRefused(d)
      BY <3>2 DEF RecordDecision, Materialize, MaterializeRefused, Go, Given
    <3>3. CASE FailPlanning(d) \/ PlanningLost(d) \/ Answer(d)
      BY <3>3 DEF FailPlanning, PlanningLost, Answer, Go, Given
    <3>4. QED
      BY <1>9, <3>1, <3>2, <3>3
  <2>2. next # "create"
    BY DEF Given
  <2>3. QED
    BY <1>4, <1>5, <1>6, <2>1, <2>2
<1>10. QED
  BY <1>1, <1>3, <1>7, <1>8, <1>9 DEF Submission

(* A crash forgets the users whose windows it empties; the rest joins none.   *)
LEMMA RateOnOthers ==
  ASSUME SInv, RateInv, Stream \/ Environment \/ UNCHANGED vars
  PROVE  RateInv'
<1> USE DEF SInv
<1>1. ASSUME UNCHANGED <<windows, locals, forgotten>>, now' \in {now, now + 1}
      PROVE  RateInv'
  <2>1. windows' \in [Users -> Seq(Nat)] /\ forgotten \subseteq forgotten' /\ at' = at
        /\ windows' = windows
    BY <1>1 DEF RateInv, RateTypes, locals
  <2>2. \A u \in Users : Admitted(u)' \subseteq Admitted(u)
    BY <1>1 DEF Admitted, locals
  <2>3. QED
    BY <1>1, <2>1, <2>2, RateOn
<1>2. CASE Stream \/ UNCHANGED vars
  <2>1. UNCHANGED <<windows, locals, forgotten, now>>
    BY <1>2 DEF Stream, Open, Poll, Drop, Reconnect, vars
  <2>2. QED
    BY <1>1, <2>1
<1>3. ASSUME NEW r \in RunIds, NEW to \in RunStates, Work(r, to) \/ Recover(r, to) \/ LateEvent(r)
      PROVE  RateInv'
  <2>1. UNCHANGED <<windows, locals, forgotten, now>>
    BY <1>3 DEF Work, Recover, LateEvent
  <2>2. QED
    BY <1>1, <2>1
<1>4. CASE Tick
  <2>1. UNCHANGED <<windows, locals, forgotten>> /\ now' = now + 1
    BY <1>4 DEF Tick
  <2>2. QED
    BY <1>1, <2>1
<1>5. CASE Crash
  <2>1. /\ UNCHANGED <<now, at, carried, target>>
        /\ pc' = [d \in Deliveries |-> IF pc[d] \in {"idle", "answered"} THEN pc[d] ELSE "refused"]
        /\ windows' = [u \in Users |-> <<>>]
        /\ forgotten' = forgotten \union {u \in Users : windows[u] # <<>>}
    BY <1>5 DEF Crash
  <2>2. windows' \in [Users -> Seq(Nat)] /\ forgotten \subseteq forgotten' /\ now' \in {now, now + 1}
    BY <2>1
  <2>3. \A u \in Users : Admitted(u)' \subseteq Admitted(u)
    BY <2>1 DEF Admitted
  <2>4. \A u \in Users \ forgotten' : windows'[u] = windows[u]
    BY <2>1
  <2>5. QED
    BY <2>1, <2>2, <2>3, <2>4, RateOn
<1>6. {"queued", "failed"} \subseteq RunStates /\ "queued" \in RunStates
  BY DEF RunStates
<1>7. QED
  BY <1>2, <1>3, <1>4, <1>5, <1>6 DEF Environment

(* Nobody has sent anything at first.                                         *)
LEMMA RateInitially == Init => RateInv
<1> SUFFICES ASSUME Init PROVE RateInv
  OBVIOUS
<1>1. RateTypes
  BY DEF Init, RateTypes
<1>2. \A u \in Users : Admitted(u) = {}
  BY DEF Init, Admitted
<1>3. ASSUME NEW u \in Users
      PROVE  Remembered(u) /\ Limited(u)
  <2>1. Admitted(u) = {}
    BY <1>2
  <2>2. Finds(<<>>, {}, at, windows[u], now - Window)
    BY DEF Finds
  <2>3. \A t \in 0..now : InWindow(u, t) = {}
    BY <2>1 DEF InWindow
  <2>4. Limited(u)
    BY <2>3, FS_EmptySet, RateAssumption DEF Limited
  <2>5. QED
    BY <2>1, <2>2, <2>4 DEF Remembered
<1>4. QED
  BY <1>1, <1>3 DEF RateInv

(* reserve: no window of the clock holds more than the limit of a user whose  *)
(* requests were not forgotten.                                               *)
THEOREM LimitIsKept == Spec => []RateHonoured
<1>1. Init => RateInv
  BY RateInitially
<1>2. SInv /\ RateInv /\ [Next]_vars => RateInv'
  BY RateOnDelivery, RateOnOthers DEF Next
<1>3. RateInv => RateHonoured
  <2> SUFFICES ASSUME RateInv, NEW u \in Users \ forgotten, NEW t \in 0..now
               PROVE  Cardinality({d \in Deliveries :
                        /\ carried[d] # Nothing /\ pc[d] # "idle" /\ UserOf[carried[d]] = u
                        /\ target[d] # Nothing \/ pc[d] = "create"
                        /\ at[d] \in (t - Window + 1)..t}) <= Limit
    BY DEF RateHonoured
  <2>1. Cardinality(InWindow(u, t)) <= Limit
    BY DEF RateInv, Limited
  <2>2. InWindow(u, t) = {d \in Deliveries :
                        /\ carried[d] # Nothing /\ pc[d] # "idle" /\ UserOf[carried[d]] = u
                        /\ target[d] # Nothing \/ pc[d] = "create"
                        /\ at[d] \in (t - Window + 1)..t}
    BY DEF InWindow, Admitted
  <2>3. QED
    BY <2>1, <2>2
<1>4. QED
  BY <1>1, <1>2, <1>3, SubmissionInvariant, PTL DEF Spec

=============================================================================
