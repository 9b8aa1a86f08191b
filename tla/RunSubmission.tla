--------------------------- MODULE RunSubmission ---------------------------
(***************************************************************************)
(* From a request on the wire to a queued Run, and from a Run's events to    *)
(* the client that follows them: POST /runs through the input guardrail,     *)
(* RunService, the idempotency record, OrchestrationSubmissionService and    *)
(* the Root; and the event stream of GET /runs/{id}/events.                  *)
(*                                                                          *)
(* A client delivers a request any number of times, at once or later.  Each  *)
(* delivery is a task of its own; pc names the await it is in, and each       *)
(* transaction is one step.  What the queue and the engine do to a Run is    *)
(* the environment: edges of the Run's life with the events they write,      *)
(* among them the internal ones of a call that outlived its Run.             *)
(***************************************************************************)
EXTENDS RunDomain, RunEvents, RateWindow, InputGuardrail

CONSTANTS
  Deliveries,    \* calls of submit_run
  Requests,      \* what they may carry
  UserOf,        \* the principal of a request: also its rate-limit key
  KeyOf,         \* its idempotency key
  FingerprintOf, \* request_fingerprint: the text, skill, thread, attachments
  Facts,         \* what the rules of the input guardrail see of it
  RunIds,        \* ids of the Runs that may be created
  Nothing,       \* None
  TTL,           \* idempotency_ttl, in ticks
  Followed,      \* bound: the Runs that workers get to and that a client follows
  Role,          \* the role of that client
  PageSize,      \* event_stream_policy.batch_size
  MaxTime,       \* bound on the clock
  MaxFaults,     \* bound on crashes, dropped connections and late events
  MaxRevision    \* bound: recoveries stop at this revision

ASSUME RequestAssumption ==
  /\ DOMAIN Facts = Requests
  /\ Followed \subseteq RunIds
  /\ Nothing \notin Requests \union RunIds
  /\ TTL \in Nat \ {0} /\ PageSize \in Nat \ {0}
  /\ MaxTime \in Nat /\ MaxFaults \in Nat /\ MaxRevision \in Nat

VARIABLES
  now,       \* the clock, in ticks
  state, revision, output, \* runs and run_outputs, as in RunLifecycle
  origin,    \* the request a Run was made of and when, NoOrigin before that
  log,       \* its events
  records,   \* api_idempotency_records, by principal and key
  windows,   \* the rate limiter's windows
  pc,        \* the await a delivery is in
  carried,   \* the request it carries
  at,        \* recorded_at: the clock when create_run began
  target,    \* the Run it was given
  token,     \* the revision it plans at
  verdict,   \* what the Root said: "skill", "plan" or "error"
  asked,     \* how often the Root was asked about a Run
  forgotten, \* users whose window was dropped with requests in it
  reader,    \* the stream: the Run, where it is, what the client has, its state
  faults

rows == <<state, revision, output, origin, log, records>>
locals == <<pc, carried, at, target, token, verdict>>
vars == <<now, rows, windows, locals, asked, forgotten, reader, faults>>

Users == {UserOf[q] : q \in Requests}
Slots == {<<UserOf[q], KeyOf[q]>> : q \in Requests}
Slot(q) == <<UserOf[q], KeyOf[q]>>
NoOrigin == [request |-> Nothing, at |-> 0]
NoRecord == [fingerprint |-> Nothing, run |-> Nothing, expires |-> 0]
Exists(r) == origin[r] # NoOrigin
Explicit(q) == Facts[q].skill # "none"

Init ==
  /\ now = 0
  /\ state = [r \in RunIds |-> "received"]
  /\ revision = [r \in RunIds |-> 0]
  /\ output = [r \in RunIds |-> FALSE]
  /\ origin = [r \in RunIds |-> NoOrigin]
  /\ log = [r \in RunIds |-> <<>>]
  /\ records = [s \in Slots |-> NoRecord]
  /\ windows = [u \in Users |-> <<>>]
  /\ pc = [d \in Deliveries |-> "idle"]
  /\ carried = [d \in Deliveries |-> Nothing]
  /\ at = [d \in Deliveries |-> 0]
  /\ target = [d \in Deliveries |-> Nothing]
  /\ token = [d \in Deliveries |-> 0]
  /\ verdict = [d \in Deliveries |-> "none"]
  /\ asked = [r \in RunIds |-> 0]
  /\ forgotten = {}
  /\ reader = [run |-> Nothing, cursor |-> 0, got |-> <<>>, state |-> "idle"]
  /\ faults = 0

Go(d, next) == pc' = [pc EXCEPT ![d] = next]

(* One edge of the Run's life, one revision, and the events of the            *)
(* transaction.                                                               *)
Move(r, to, visibilities) ==
  /\ state' = [state EXCEPT ![r] = to]
  /\ revision' = [revision EXCEPT ![r] = @ + 1]
  /\ log' = [log EXCEPT ![r] = @ \o visibilities]

Keeps(r, visibilities) ==
  /\ log' = [log EXCEPT ![r] = @ \o visibilities]
  /\ UNCHANGED <<state, revision>>

-----------------------------------------------------------------------------
(* LocalRunSubmissionService.submit_run up to the first await: the guardrail  *)
(* and the reading of the clock in create_run.                                *)

(* The principal, the text, the attachments and the skill are looked at       *)
(* before the rate: a blocked request takes no room.                          *)
Blocked(d, q) ==
  /\ pc[d] = "idle"
  /\ ~Admissible(Facts[q])
  /\ Go(d, "refused")
  /\ carried' = [carried EXCEPT ![d] = q]
  /\ UNCHANGED <<now, rows, windows, at, target, token, verdict, asked, forgotten, reader, faults>>

RateExceeded(d, q) ==
  /\ pc[d] = "idle"
  /\ Admissible(Facts[q])
  /\ ~HasCapacity(windows, UserOf[q], now)
  /\ windows' = [windows EXCEPT ![UserOf[q]] = ActiveRequests(@, now)]
  /\ Go(d, "refused")
  /\ carried' = [carried EXCEPT ![d] = q]
  /\ UNCHANGED <<now, rows, at, target, token, verdict, asked, forgotten, reader, faults>>

(* Mutant: the limit is compared before the request joins the window.         *)
GuardOneMore(d, q) ==
  /\ pc[d] = "idle"
  /\ Admissible(Facts[q])
  /\ Len(ActiveRequests(windows[UserOf[q]], now)) <= Limit
  /\ windows' \in Reserved(windows, UserOf[q], now)
  /\ forgotten' = forgotten \union
       {u \in Users : windows[u] # <<>> /\ windows'[u] = <<>>}
  /\ Go(d, "create")
  /\ carried' = [carried EXCEPT ![d] = q]
  /\ at' = [at EXCEPT ![d] = now]
  /\ UNCHANGED <<now, rows, target, token, verdict, asked, reader, faults>>

Guard(d, q) ==
  /\ pc[d] = "idle"
  /\ Admissible(Facts[q])
  /\ HasCapacity(windows, UserOf[q], now)
  /\ windows' \in Reserved(windows, UserOf[q], now)
  /\ forgotten' = forgotten \union
       {u \in Users : windows[u] # <<>> /\ windows'[u] = <<>>}
  /\ Go(d, "create")
  /\ carried' = [carried EXCEPT ![d] = q]
  /\ at' = [at EXCEPT ![d] = now]
  /\ UNCHANGED <<now, rows, target, token, verdict, asked, reader, faults>>

-----------------------------------------------------------------------------
(* SqliteRunStore.create_or_replay.  The record's expiry is compared with a   *)
(* clock read before the transaction was waited for.                          *)

(* Mutant: the lock's clock decides, not the request's.                       *)
AliveNow(slot, moment) == records[slot] # NoRecord /\ records[slot].expires > now

Alive(slot, moment) == records[slot] # NoRecord /\ records[slot].expires > moment

(* What submit does with the Run as the transaction returned it.              *)
Continuation(r) ==
  CASE state[r] = "planning" -> "interrupt"
    [] state[r] = "received" -> "start"
    [] OTHER -> "read"

Replay(d) ==
  LET slot == Slot(carried[d]) IN
  /\ pc[d] = "create"
  /\ Alive(slot, at[d])
  /\ records[slot].fingerprint = FingerprintOf[carried[d]]
  /\ target' = [target EXCEPT ![d] = records[slot].run]
  /\ token' = [token EXCEPT ![d] = revision[records[slot].run]]
  /\ Go(d, Continuation(records[slot].run))
  /\ UNCHANGED <<now, rows, windows, carried, at, verdict, asked, forgotten, reader, faults>>

(* The user was disabled, or has another role, since the request was let in.  *)
PrincipalUnavailable(d) ==
  /\ pc[d] = "create"
  /\ Go(d, "refused")
  /\ UNCHANGED <<now, rows, windows, carried, at, target, token, verdict, asked, forgotten, reader, faults>>

(* The same key for another request: IdempotencyConflictError.                *)
Conflict(d) ==
  LET slot == Slot(carried[d]) IN
  /\ pc[d] = "create"
  /\ Alive(slot, at[d])
  /\ records[slot].fingerprint # FingerprintOf[carried[d]]
  /\ Go(d, "refused")
  /\ UNCHANGED <<now, rows, windows, carried, at, target, token, verdict, asked, forgotten, reader, faults>>

(* The expired record is deleted, and the record, the Run and its first event *)
(* are inserted together.                                                     *)
Create(d, r) ==
  LET slot == Slot(carried[d]) IN
  /\ pc[d] = "create"
  /\ ~Alive(slot, at[d])
  /\ ~Exists(r)
  /\ origin' = [origin EXCEPT ![r] = [request |-> carried[d], at |-> at[d]]]
  /\ log' = [log EXCEPT ![r] = Appended(@, "public")]
  /\ records' = [records EXCEPT ![slot] =
       [fingerprint |-> FingerprintOf[carried[d]], run |-> r, expires |-> at[d] + TTL]]
  /\ target' = [target EXCEPT ![d] = r]
  /\ token' = [token EXCEPT ![d] = 0]
  /\ Go(d, "start")
  /\ UNCHANGED <<now, state, revision, output, windows, carried, at, verdict, asked, forgotten, reader, faults>>

-----------------------------------------------------------------------------
(* OrchestrationSubmissionService.submit                                      *)

(* _require_planning: the Run is where the token says.                        *)
PlansAt(d) == state[target[d]] = "planning" /\ revision[target[d]] = token[d]

(* Mutant: the planning is started whatever the Run's revision.               *)
StartPlanningAgain(d) ==
  LET r == target[d] IN
  /\ pc[d] = "start"
  /\ state[r] \in {"received", "planning"}
  /\ Move(r, "planning", <<"public", "internal">>)
  /\ token' = [token EXCEPT ![d] = revision[r] + 1]
  /\ asked' = [asked EXCEPT ![r] = IF Explicit(carried[d]) THEN @ ELSE @ + 1]
  /\ Go(d, "decide")
  /\ UNCHANGED <<now, output, origin, records, windows, carried, at, target, verdict, forgotten, reader, faults>>

(* start_planning, and the Root is asked: an explicit skill is its own answer *)
(* and costs no call.                                                         *)
StartPlanning(d) ==
  LET r == target[d] IN
  /\ pc[d] = "start"
  /\ state[r] = "received"
  /\ revision[r] = token[d]
  /\ Move(r, "planning", <<"public", "internal">>)
  /\ token' = [token EXCEPT ![d] = revision[r] + 1]
  /\ asked' = [asked EXCEPT ![r] = IF Explicit(carried[d]) THEN @ ELSE @ + 1]
  /\ Go(d, "decide")
  /\ UNCHANGED <<now, output, origin, records, windows, carried, at, target, verdict, forgotten, reader, faults>>

(* The Root fails, or its answer passes the validator; an explicit skill that *)
(* the catalogue knows is a plan of one mode, "skill".                        *)
Decide(d, answer) ==
  /\ pc[d] = "decide"
  /\ answer \in IF Explicit(carried[d]) THEN {"skill", "error"} ELSE {"plan", "error"}
  /\ verdict' = [verdict EXCEPT ![d] = answer]
  /\ Go(d, IF answer = "error" THEN "fail" ELSE "record")
  /\ UNCHANGED <<now, rows, windows, carried, at, target, token, asked, forgotten, reader, faults>>

RecordDecision(d) ==
  /\ pc[d] = "record"
  /\ PlansAt(d)
  /\ Keeps(target[d], <<"internal">>)
  /\ Go(d, IF verdict[d] = "skill" THEN "fail" ELSE "enqueue")
  /\ UNCHANGED <<now, output, origin, records, windows, carried, at, target, token, verdict, asked, forgotten, reader, faults>>

(* materialize_and_enqueue, and wake().                                       *)
Materialize(d) ==
  /\ pc[d] = "enqueue"
  /\ PlansAt(d)
  /\ Move(target[d], "queued", <<"public">>)
  /\ Go(d, "read")
  /\ UNCHANGED <<now, output, origin, records, windows, carried, at, target, token, verdict, asked, forgotten, reader, faults>>

(* The contracts of execution refuse the plan before it is recorded, or the   *)
(* transaction does, among others because the Run moved: both are recorded as *)
(* a failure of planning, if planning is still there to fail.                 *)
MaterializeRefused(d) ==
  /\ pc[d] \in {"record", "enqueue"}
  /\ verdict[d] = "plan"
  /\ Go(d, "fail")
  /\ UNCHANGED <<now, rows, windows, carried, at, target, token, verdict, asked, forgotten, reader, faults>>

(* Mutant: the token is not compared: whatever the Run is now, it fails.      *)
FailPlanningUnchecked(d) ==
  /\ pc[d] \in {"fail", "interrupt"}
  /\ Move(target[d], "failed", <<"internal", "public">>)
  /\ Go(d, "read")
  /\ UNCHANGED <<now, output, origin, records, windows, carried, at, target, token, verdict, asked, forgotten, reader, faults>>

(* fail_planning: of this delivery's planning, or, for a repeated request, of *)
(* one that it takes for interrupted.                                         *)
FailPlanning(d) ==
  /\ pc[d] \in {"fail", "interrupt"}
  /\ PlansAt(d)
  /\ Move(target[d], "failed", <<"internal", "public">>)
  /\ Go(d, "read")
  /\ UNCHANGED <<now, output, origin, records, windows, carried, at, target, token, verdict, asked, forgotten, reader, faults>>

(* OrchestrationLifecycleConflictError leaves submit: the request fails, and  *)
(* the Run is somebody else's.                                                *)
PlanningLost(d) ==
  /\ \/ pc[d] = "start" /\ (state[target[d]] # "received" \/ revision[target[d]] # token[d])
     \/ pc[d] \in {"record", "fail", "interrupt"} /\ ~PlansAt(d)
  /\ Go(d, "refused")
  /\ UNCHANGED <<now, rows, windows, carried, at, target, token, verdict, asked, forgotten, reader, faults>>

(* get_run: 202 with the Run.                                                 *)
Answer(d) ==
  /\ pc[d] = "read"
  /\ Go(d, "answered")
  /\ UNCHANGED <<now, rows, windows, carried, at, target, token, verdict, asked, forgotten, reader, faults>>

Submission(d) ==
  \/ \E q \in Requests : Blocked(d, q) \/ RateExceeded(d, q) \/ Guard(d, q)
  \/ Replay(d) \/ Conflict(d) \/ PrincipalUnavailable(d) \/ \E r \in RunIds : Create(d, r)
  \/ StartPlanning(d) \/ \E answer \in {"skill", "plan", "error"} : Decide(d, answer)
  \/ RecordDecision(d) \/ Materialize(d) \/ MaterializeRefused(d)
  \/ FailPlanning(d) \/ PlanningLost(d) \/ Answer(d)

-----------------------------------------------------------------------------
(* The environment: workers, cancellation, recovery, and calls of models and  *)
(* tools that end after their Run.                                            *)

Work(r, to) ==
  /\ r \in Followed /\ Exists(r)
  /\ state[r] \in {"queued", "running", "composing"}
  /\ <<state[r], to>> \in RunEdges
  /\ to # "interrupted"
  /\ Move(r, to, <<"public">>)
  /\ output' = [output EXCEPT ![r] = @ \/ to = "completed"]
  /\ UNCHANGED <<now, origin, records, windows, locals, asked, forgotten, reader, faults>>

(* _recover_one: run.interrupted is for administrators.                       *)
Recover(r, to) ==
  /\ state[r] = "running"
  /\ revision[r] < MaxRevision
  /\ to \in {"queued", "failed"}
  /\ state' = [state EXCEPT ![r] = to]
  /\ revision' = [revision EXCEPT ![r] = @ + 2]
  /\ log' = [log EXCEPT ![r] = @ \o <<"admin", "public">>]
  /\ UNCHANGED <<now, output, origin, records, windows, locals, asked, forgotten, reader, faults>>

Fault == faults < MaxFaults /\ faults' = faults + 1

(* The finish of a model or tool invocation does not ask for the Run's state. *)
LateEvent(r) ==
  /\ Fault
  /\ Exists(r) /\ state[r] \in Terminal
  /\ Keeps(r, <<"internal">>)
  /\ UNCHANGED <<now, output, origin, records, windows, locals, asked, forgotten, reader>>

(* The process dies: the deliveries and the limiter with it.                  *)
Crash ==
  /\ Fault
  /\ pc' = [d \in Deliveries |-> IF pc[d] \in {"idle", "answered"} THEN pc[d] ELSE "refused"]
  /\ windows' = [u \in Users |-> <<>>]
  /\ forgotten' = forgotten \union {u \in Users : windows[u] # <<>>}
  /\ reader' = [reader EXCEPT !.state = IF @ = "open" THEN "dropped" ELSE @]
  /\ UNCHANGED <<now, rows, carried, at, target, token, verdict, asked>>

Tick ==
  /\ now < MaxTime
  /\ now' = now + 1
  /\ UNCHANGED <<rows, windows, locals, asked, forgotten, reader, faults>>

-----------------------------------------------------------------------------
(* The stream of GET /runs/{id}/events                                        *)

Open(r) ==
  /\ reader.state = "idle"
  /\ r \in Followed /\ Exists(r)
  /\ reader' = [reader EXCEPT !.run = r, !.state = "open"]
  /\ UNCHANGED <<now, rows, windows, locals, asked, forgotten, faults>>

(* The page of one poll.                                                      *)
NextPage == Page(log[reader.run], reader.cursor, Role, PageSize)

(* Mutant: the loop ends when the Run has, whatever the page left behind.     *)
PollStopsAtTerminal ==
  /\ reader.state = "open"
  /\ reader' = [reader EXCEPT
       !.cursor = CursorAfter(@, NextPage.items),
       !.got = @ \o NextPage.items,
       !.state = IF state[reader.run] \in Terminal THEN "ended" ELSE "open"]
  /\ reader' # reader
  /\ UNCHANGED <<now, rows, windows, locals, asked, forgotten, faults>>

(* One round of event_stream: the page is written to the client, and the loop *)
(* ends when the Run had ended and the page is the last.                      *)
Poll ==
  /\ reader.state = "open"
  /\ reader' = [reader EXCEPT
       !.cursor = CursorAfter(@, NextPage.items),
       !.got = @ \o NextPage.items,
       !.state = IF state[reader.run] \in Terminal /\ ~NextPage.more THEN "ended" ELSE "open"]
  /\ reader' # reader
  /\ UNCHANGED <<now, rows, windows, locals, asked, forgotten, faults>>

(* The connection breaks after the client got a part of a page.               *)
Drop ==
  /\ Fault
  /\ reader.state = "open"
  /\ \E n \in 0..Len(NextPage.items) :
       reader' = [reader EXCEPT !.got = @ \o SubSeq(NextPage.items, 1, n), !.state = "dropped"]
  /\ UNCHANGED <<now, rows, windows, locals, asked, forgotten>>

(* Last-Event-ID: the client resumes after the last event it got.             *)
Reconnect ==
  /\ reader.state = "dropped"
  /\ reader' = [reader EXCEPT !.cursor = CursorAfter(0, reader.got), !.state = "open"]
  /\ UNCHANGED <<now, rows, windows, locals, asked, forgotten, faults>>

Stream == (\E r \in RunIds : Open(r)) \/ Poll \/ Drop \/ Reconnect

Environment ==
  \/ \E r \in RunIds, to \in RunStates : Work(r, to)
  \/ \E r \in RunIds, to \in {"queued", "failed"} : Recover(r, to)
  \/ \E r \in RunIds : LateEvent(r)
  \/ Crash \/ Tick

Next == (\E d \in Deliveries : Submission(d)) \/ Stream \/ Environment

Spec == Init /\ [][Next]_vars

-----------------------------------------------------------------------------
(* Properties *)

(* runs.state and the other columns, the deliveries' and the reader's fields  *)
(* hold what the code can put there.                                          *)
TypeOK ==
  /\ now \in 0..MaxTime /\ faults \in 0..MaxFaults
  /\ state \in [RunIds -> RunStates] /\ revision \in [RunIds -> Nat]
  /\ output \in [RunIds -> BOOLEAN]
  /\ log \in [RunIds -> Seq(Visibilities)]
  /\ pc \in [Deliveries -> {"idle", "create", "start", "interrupt", "decide", "record",
                            "enqueue", "fail", "read", "answered", "refused"}]
  /\ target \in [Deliveries -> RunIds \union {Nothing}]
  /\ asked \in [RunIds -> Nat]

(* One Run per key (create_or_replay): two Runs of one principal and key are  *)
(* at least a TTL apart, however the deliveries overtook each other between   *)
(* the clock and the lock, and an answer is a Run of the request it answers.  *)
OneRunPerKey ==
  /\ \A r, s \in {x \in RunIds : Exists(x)} :
       r # s /\ Slot(origin[r].request) = Slot(origin[s].request)
         => origin[r].at >= origin[s].at + TTL \/ origin[s].at >= origin[r].at + TTL
  /\ \A d \in Deliveries : target[d] # Nothing =>
       /\ FingerprintOf[origin[target[d]].request] = FingerprintOf[carried[d]]
       /\ Slot(origin[target[d]].request) = Slot(carried[d])

(* The Root is asked about a Run once (start_planning): over repeated         *)
(* deliveries, planning that is taken for interrupted, and crashes.           *)
RootAskedOnce == \A r \in RunIds : asked[r] <= 1

(* The stream misses nothing and repeats nothing (event_stream): what the     *)
(* client has is, in order, what it may see up to where it is, and when the   *)
(* stream ends that is all the Run will ever show it, although internal       *)
(* events may follow the end of the Run.                                      *)
StreamComplete ==
  reader.run # Nothing =>
    LET visible == Due(log[reader.run], 0, Role) IN
    /\ IsPrefix(reader.got, visible)
    /\ reader.state = "ended" => reader.got = visible

(* The limit holds in every window of the clock (reserve), for the users      *)
(* whose requests were not forgotten to make room or by a crash.              *)
RateHonoured ==
  \A u \in Users \ forgotten : \A t \in 0..now :
    Cardinality({d \in Deliveries :
      /\ carried[d] # Nothing /\ pc[d] # "idle" /\ UserOf[carried[d]] = u
      /\ target[d] # Nothing \/ pc[d] = "create"
      /\ at[d] \in (t - Window + 1)..t}) <= Limit

(* Submission, execution and recovery as a reader of the Run sees them are    *)
(* the Run lifecycle: a Run that does not exist yet is one not yet received.  *)
Lifecycle == INSTANCE RunLifecycle WITH
  RunIds <- RunIds, state <- state, revision <- revision, output <- output
LifecycleSpec == Lifecycle!Spec
=============================================================================
