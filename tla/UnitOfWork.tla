----------------------------- MODULE UnitOfWork -----------------------------
(***************************************************************************)
(* SqliteUnitOfWork and SqliteDatabase: how the asyncio tasks of the        *)
(* process share the one SQLite connection.                                 *)
(*                                                                          *)
(* A task that enters a unit waits for the write coordinator (an asyncio    *)
(* lock, first come first served), sends BEGIN IMMEDIATE to the thread of   *)
(* the aiosqlite connection, awaits each statement of its body, and leaves  *)
(* through commit or rollback.  The thread serves its requests in order,    *)
(* and serves them even when nobody awaits the answer any more: cancelling  *)
(* a task stops the wait, not the statement.                                *)
(***************************************************************************)
EXTENDS Integers, Sequences, FiniteSets, SequencesExt

CONSTANTS
  Tasks,        \* asyncio tasks, each with one unit of work
  Closer,       \* the task that calls SqliteDatabase.close
  Nobody,       \* the coordinator's lock is free
  NWrites,      \* statements in the body of a unit
  CancelPoints, \* the awaits at which a task may be cancelled
  MaxCancels    \* bound: cancellations

ASSUME UnitAssumption ==
  /\ Closer \notin Tasks
  /\ Nobody \notin Tasks \union {Closer}
  /\ NWrites \in Nat \ {0}
  /\ CancelPoints \subseteq {"lock", "begin", "write", "commit", "rollback"}
  /\ MaxCancels \in Nat

VARIABLES
  pc,       \* what each task awaits: "outside" and "left" are before and after
  asked,    \* statements of its body sent to the thread
  outcome,  \* what its caller sees
  holder,   \* the write coordinator's lock
  waiters,  \* tasks that wait for it, in order
  requests, \* the connection thread's queue of <<task, statement>>
  reply,    \* the thread's last answer to each task, <<statement, result>>
  inTx,     \* the connection is inside a transaction
  pending,  \* rows each task wrote in that transaction
  durable,  \* rows of each task that are committed
  closing,  \* _closing
  closer,   \* close(): "open", "lock", "rollback", "closed"
  cancels   \* cancellations so far

lockVars == <<holder, waiters>>
connectionVars == <<inTx, pending, durable>>
threadVars == <<requests, reply, connectionVars>>
closeVars == <<closing, closer>>
vars == <<pc, asked, outcome, lockVars, threadVars, closeVars, cancels>>

NoRows == [t \in Tasks |-> 0]
NoReply == <<"none", "none">>

Init ==
  /\ pc = [t \in Tasks |-> "outside"]
  /\ asked = NoRows
  /\ outcome = [t \in Tasks |-> "none"]
  /\ holder = Nobody
  /\ waiters = <<>>
  /\ requests = <<>>
  /\ reply = [t \in Tasks \union {Closer} |-> NoReply]
  /\ inTx = FALSE
  /\ pending = NoRows
  /\ durable = NoRows
  /\ closing = FALSE
  /\ closer = "open"
  /\ cancels = 0

-----------------------------------------------------------------------------
(* The thread of the connection.  BEGIN inside a transaction is an error; a   *)
(* write outside one is durable at once (isolation_level=None); COMMIT and    *)
(* ROLLBACK outside one do nothing.                                           *)

Ask(t, statement) ==
  /\ requests' = Append(requests, <<t, statement>>)
  /\ reply' = [reply EXCEPT ![t] = NoReply]
  /\ UNCHANGED connectionVars

Serve(statement, t) ==
  CASE statement = "begin" ->
         /\ inTx' = TRUE
         /\ UNCHANGED <<pending, durable>>
    [] statement = "write" /\ inTx ->
         /\ pending' = [pending EXCEPT ![t] = @ + 1]
         /\ UNCHANGED <<inTx, durable>>
    [] statement = "write" /\ ~inTx ->
         /\ durable' = [durable EXCEPT ![t] = @ + 1]
         /\ UNCHANGED <<inTx, pending>>
    [] statement = "commit" ->
         /\ durable' = [u \in Tasks |-> durable[u] + pending[u]]
         /\ pending' = NoRows
         /\ inTx' = FALSE
    [] statement = "rollback" ->
         /\ pending' = NoRows
         /\ inTx' = FALSE
         /\ UNCHANGED durable

ThreadServes ==
  /\ requests # <<>>
  /\ LET t == Head(requests)[1]
         statement == Head(requests)[2]
         result == IF statement = "begin" /\ inTx THEN "error" ELSE "ok" IN
       /\ Serve(statement, t)
       /\ reply' = [reply EXCEPT ![t] = <<statement, result>>]
  /\ requests' = Tail(requests)
  /\ UNCHANGED <<pc, asked, outcome, lockVars, closeVars, cancels>>

Answered(t, statement) == pc[t] = statement /\ reply[t] = <<statement, "ok">>

-----------------------------------------------------------------------------
(* __aenter__ *)

(* _require_connection does not raise. *)
Available == ~closing /\ closer # "closed"

Enter(t) ==
  /\ pc[t] = "outside"
  /\ pc' = [pc EXCEPT ![t] = "lock"]
  /\ waiters' = Append(waiters, t)
  /\ UNCHANGED <<asked, outcome, holder, threadVars, closeVars, cancels>>

(* The unit is over: the lock is free for the next. *)
Leave(t, seen) ==
  /\ pc' = [pc EXCEPT ![t] = "left"]
  /\ outcome' = [outcome EXCEPT ![t] = seen]
  /\ holder' = Nobody
  /\ UNCHANGED threadVars

Await(t, statement, seen) ==
  /\ pc' = [pc EXCEPT ![t] = statement]
  /\ Ask(t, statement)
  /\ outcome' = [outcome EXCEPT ![t] = seen]

(* Mutant: the lock is taken without waiting for it to be free. *)
GrantedUnlocked(t) == waiters # <<>> /\ Head(waiters) = t

Granted(t) == holder = Nobody /\ waiters # <<>> /\ Head(waiters) = t

Acquire(t) ==
  /\ Granted(t)
  /\ waiters' = Tail(waiters)
  /\ IF Available
     THEN holder' = t /\ Await(t, "begin", "none")
     ELSE Leave(t, "failed")
  /\ UNCHANGED <<asked, closeVars, cancels>>

(* Mutant: a refused BEGIN keeps the guard. *)
BeginRefusedKeepsGuard(t) ==
  /\ pc[t] = "begin"
  /\ reply[t] = <<"begin", "error">>
  /\ pc' = [pc EXCEPT ![t] = "left"]
  /\ outcome' = [outcome EXCEPT ![t] = "failed"]
  /\ UNCHANGED <<asked, lockVars, threadVars, closeVars, cancels>>

BeginRefused(t) ==
  /\ pc[t] = "begin"
  /\ reply[t] = <<"begin", "error">>
  /\ Leave(t, "failed")
  /\ UNCHANGED <<asked, waiters, closeVars, cancels>>

-----------------------------------------------------------------------------
(* The body and __aexit__, from one await to the next.  Every use of the      *)
(* connection raises while the database is closing.                           *)

(* Mutants: the exit forgets the rollback, or commits what there is. *)
RollBackForgotten(t, seen) ==
  /\ Leave(t, seen)
  /\ UNCHANGED <<asked, waiters, closeVars>>

RollBackCommits(t, seen) ==
  /\ IF Available
     THEN Await(t, "commit", seen) /\ UNCHANGED holder
     ELSE Leave(t, seen)
  /\ UNCHANGED <<asked, waiters, closeVars>>

(* __aexit__ of an active unit: without a connection it raises, and leaves.   *)
RollBack(t, seen) ==
  /\ IF Available
     THEN Await(t, "rollback", seen) /\ UNCHANGED holder
     ELSE Leave(t, seen)
  /\ UNCHANGED <<asked, waiters, closeVars>>

BodyWrites(t) ==
  /\ Answered(t, "begin") \/ Answered(t, "write")
  /\ asked[t] < NWrites
  /\ Available
  /\ asked' = [asked EXCEPT ![t] = @ + 1]
  /\ Await(t, "write", "none")
  /\ UNCHANGED <<lockVars, closeVars, cancels>>

Commit(t) ==
  /\ Answered(t, "write")
  /\ asked[t] = NWrites
  /\ Available
  /\ Await(t, "commit", "none")
  /\ UNCHANGED <<asked, lockVars, closeVars, cancels>>

(* The body raises, or ends without a commit. *)
BodyGivesUp(t) ==
  /\ Answered(t, "begin") \/ Answered(t, "write")
  /\ RollBack(t, "failed")
  /\ UNCHANGED cancels

Finish(t) ==
  /\ \/ Answered(t, "commit") /\ Leave(t, "committed")
     \/ Answered(t, "rollback") /\ Leave(t, outcome[t])
  /\ UNCHANGED <<asked, waiters, closeVars, cancels>>

-----------------------------------------------------------------------------
(* Cancellation at an await, whether or not the thread has served the call.   *)

Cancellable(point) ==
  /\ point \in CancelPoints
  /\ cancels < MaxCancels
  /\ cancels' = cancels + 1

CancelWaiting(t) ==
  /\ pc[t] = "lock"
  /\ Cancellable("lock")
  /\ pc' = [pc EXCEPT ![t] = "left"]
  /\ outcome' = [outcome EXCEPT ![t] = "cancelled"]
  /\ \E i \in DOMAIN waiters : waiters[i] = t /\ waiters' = RemoveAt(waiters, i)
  /\ UNCHANGED <<asked, holder, threadVars, closeVars>>

(* The guard is released; nothing is sent to the thread. *)
CancelBegin(t) ==
  /\ pc[t] = "begin"
  /\ Cancellable("begin")
  /\ Leave(t, "cancelled")
  /\ UNCHANGED <<asked, waiters, closeVars>>

CancelStatement(t) ==
  /\ pc[t] \in {"write", "commit"}
  /\ Cancellable(pc[t])
  /\ RollBack(t, "cancelled")

CancelRollback(t) ==
  /\ pc[t] = "rollback"
  /\ Cancellable("rollback")
  /\ Leave(t, "cancelled")
  /\ UNCHANGED <<asked, waiters, closeVars>>

-----------------------------------------------------------------------------
(* SqliteDatabase.close: no new use of the connection, then the lock, then a  *)
(* rollback of what is left.                                                  *)

CloseBegins ==
  /\ closer = "open"
  /\ closing' = TRUE
  /\ closer' = "lock"
  /\ waiters' = Append(waiters, Closer)
  /\ UNCHANGED <<pc, asked, outcome, holder, threadVars, cancels>>

CloseAcquires ==
  /\ closer = "lock"
  /\ Granted(Closer)
  /\ holder' = Closer
  /\ waiters' = Tail(waiters)
  /\ closer' = "rollback"
  /\ Ask(Closer, "rollback")
  /\ UNCHANGED <<pc, asked, outcome, closing, cancels>>

CloseEnds ==
  /\ closer = "rollback"
  /\ reply[Closer] = <<"rollback", "ok">>
  /\ closer' = "closed"
  /\ closing' = FALSE
  /\ holder' = Nobody
  /\ UNCHANGED <<pc, asked, outcome, waiters, threadVars, cancels>>

-----------------------------------------------------------------------------
Step(t) ==
  \/ Acquire(t) \/ BeginRefused(t)
  \/ BodyWrites(t) \/ Commit(t) \/ BodyGivesUp(t) \/ Finish(t)

CancelTask(t) == CancelWaiting(t) \/ CancelBegin(t) \/ CancelStatement(t) \/ CancelRollback(t)

Next ==
  \/ ThreadServes
  \/ \E t \in Tasks : Enter(t) \/ Step(t) \/ CancelTask(t)
  \/ CloseBegins \/ CloseAcquires \/ CloseEnds

Spec == Init /\ [][Next]_vars

(* asyncio resumes a task whose future is done, and the thread keeps serving. *)
Fairness ==
  /\ WF_vars(ThreadServes)
  /\ \A t \in Tasks : WF_vars(Step(t))
  /\ WF_vars(CloseAcquires) /\ WF_vars(CloseEnds)

FairSpec == Spec /\ Fairness

-----------------------------------------------------------------------------
(* Properties *)

Points == {"begin", "write", "commit", "rollback"}

TypeOK ==
  /\ pc \in [Tasks -> {"outside", "lock", "left"} \union Points]
  /\ asked \in [Tasks -> 0..NWrites]
  /\ outcome \in [Tasks -> {"none", "committed", "failed", "cancelled"}]
  /\ holder \in Tasks \union {Closer, Nobody}
  /\ waiters \in Seq(Tasks \union {Closer})
  /\ requests \in Seq((Tasks \union {Closer}) \X Points)
  /\ reply \in [Tasks \union {Closer} ->
                 {NoReply} \union (Points \X {"ok", "error"})]
  /\ inTx \in BOOLEAN
  /\ pending \in [Tasks -> 0..NWrites]
  /\ durable \in [Tasks -> 0..NWrites]
  /\ closing \in BOOLEAN
  /\ closer \in {"open", "lock", "rollback", "closed"}
  /\ cancels \in 0..MaxCancels

(* All the statements of a unit become durable or none does, whatever was     *)
(* cancelled, raised or closed in between.                                    *)
AllOrNothing == \A t \in Tasks : durable[t] \in {0, NWrites}

(* The caller is told the truth: a unit that ended well is durable, and one   *)
(* that failed is not.  (A cancelled one may be either: the commit may have   *)
(* been on its way.)                                                          *)
OutcomeTruthful ==
  \A t \in Tasks :
    /\ outcome[t] = "committed" => durable[t] = NWrites
    /\ (outcome[t] = "failed" /\ pc[t] = "left") => durable[t] = 0

(* When no unit holds the connection and the thread is idle, no transaction   *)
(* is open: an unfinished unit was rolled back, so that the next can begin.   *)
Quiet == holder = Nobody /\ requests = <<>> /\ Available
CleanBetweenUnits == Quiet => ~inTx

(* The one transaction that can outlive its unit is that of a task cancelled  *)
(* at its BEGIN; it is empty, so no later unit commits rows that are not its  *)
(* own.  Every other way out of a unit, at any await, leaves no transaction.  *)
OnlyBeginLeaks ==
  (Quiet /\ inTx) =>
    /\ pending = NoRows
    /\ \E t \in Tasks : pc[t] = "left" /\ reply[t] = <<"begin", "ok">>

(* Every unit that is entered ends, and so does close(): a cancelled task, a  *)
(* failed statement or a closing database never leaves the lock behind.       *)
EveryUnitEnds ==
  /\ \A t \in Tasks : pc[t] = "lock" ~> pc[t] = "left"
  /\ closer = "lock" ~> closer = "closed"
=============================================================================
