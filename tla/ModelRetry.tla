----------------------------- MODULE ModelRetry -----------------------------
(***************************************************************************)
(* RetryingModelProvider.invoke: one logical model call, made of at most    *)
(* MaxAttempts network requests under an attempt timeout and a total one.   *)
(*                                                                          *)
(* Time is counted in ticks of the monotonic clock.  A wait that is given a *)
(* limit may return up to Slack ticks late: asyncio promises no more.       *)
(***************************************************************************)
EXTENDS Integers

CONSTANTS
  MaxAttempts,    \* policy.max_attempts
  AttemptTimeout, \* policy.attempt_timeout_seconds
  TotalTimeout,   \* policy.total_timeout_seconds
  Backoff,        \* policy.retry_backoff_seconds
  Slack           \* how late a wait may return

ASSUME PolicyAssumption ==
  /\ MaxAttempts \in 1..10
  /\ AttemptTimeout \in Nat \ {0}
  /\ TotalTimeout \in Nat /\ TotalTimeout >= AttemptTimeout
  /\ Backoff \in [1..(MaxAttempts - 1) -> Nat]
  /\ Slack \in Nat

VARIABLES
  pc,       \* "try" (top of the loop), "request", "sleep", "done"
  attempt,  \* the loop's variable
  clock,    \* ticks since the call started
  requests, \* requests that were sent to the provider
  failure,  \* last_failure: "none", "timeout", "transient" or "permanent"
  result,   \* what the caller gets: "none" so far, "response" or "failure"
  reported  \* its provider_request_count

retryVars == <<pc, attempt, clock, requests, failure, result, reported>>

RetryInit ==
  /\ pc = "try"
  /\ attempt = 1
  /\ clock = 0
  /\ requests = 0
  /\ failure = "none"
  /\ result = "none"
  /\ reported = 0

Remaining == TotalTimeout - clock

(* Mutant: every attempt gets its full timeout. *)
WholeTimeout == AttemptTimeout

Timeout == IF AttemptTimeout < Remaining THEN AttemptTimeout ELSE Remaining

Return(what, count) ==
  /\ pc' = "done"
  /\ result' = what
  /\ reported' = count

Send ==
  /\ pc = "try"
  /\ Remaining > 0
  /\ requests' = requests + 1
  /\ pc' = "request"
  /\ UNCHANGED <<attempt, clock, failure, result, reported>>

(* The break after a sleep that ended too late: the count is that of the last *)
(* failure, which a provider that makes one request raises with 1.            *)
Expire ==
  /\ pc = "try"
  /\ Remaining <= 0
  /\ Return("failure", 1)
  /\ UNCHANGED <<attempt, clock, requests, failure>>

Respond ==
  /\ pc = "request"
  /\ \E d \in 0..Timeout : clock' = clock + d
  /\ Return("response", attempt)
  /\ UNCHANGED <<attempt, requests, failure>>

(* The failure is not worth, or not worth the time of, another attempt. *)
GivesUp(why, now) ==
  \/ attempt >= MaxAttempts
  \/ why = "permanent"
  \/ Backoff[attempt] >= TotalTimeout - now

(* A failure is "transient" when it is retryable and its code is one of the   *)
(* three transport codes, and "permanent" otherwise.                          *)
Fail ==
  /\ pc = "request"
  /\ \E why \in {"timeout", "transient", "permanent"} :
     \E d \in IF why = "timeout" THEN Timeout..(Timeout + Slack) ELSE 0..Timeout :
       /\ clock' = clock + d
       /\ failure' = why
       /\ IF GivesUp(why, clock + d)
          THEN Return("failure", attempt)
          ELSE pc' = "sleep" /\ UNCHANGED <<result, reported>>
  /\ UNCHANGED <<attempt, requests>>

Sleep ==
  /\ pc = "sleep"
  /\ \E late \in 0..Slack : clock' = clock + Backoff[attempt] + late
  /\ attempt' = attempt + 1
  /\ pc' = "try"
  /\ UNCHANGED <<requests, failure, result, reported>>

RetryNext == Send \/ Expire \/ Respond \/ Fail \/ Sleep

RetrySpec == RetryInit /\ [][RetryNext]_retryVars

-----------------------------------------------------------------------------
(* Properties *)

RetryTypeOK ==
  /\ pc \in {"try", "request", "sleep", "done"}
  /\ attempt \in 1..MaxAttempts
  /\ clock \in Nat
  /\ requests \in 0..MaxAttempts
  /\ failure \in {"none", "timeout", "transient", "permanent"}
  /\ result \in {"none", "response", "failure"}
  /\ reported \in 0..MaxAttempts

(* The call ends within the total timeout, up to the lateness of its last     *)
(* wait: late waits do not add up over the attempts.                          *)
DeadlineHonoured == clock <= TotalTimeout + Slack

(* No answer claims more requests than were made, and a response claims       *)
(* exactly those that were.                                                   *)
NeverOvercounts ==
  pc = "done" =>
    /\ reported \in 1..requests
    /\ result = "response" => reported = requests

(* A second request follows only a failure that may go away by itself.        *)
OnlyTransientRetried ==
  [][requests' > requests => failure \in {"none", "timeout", "transient"}]_retryVars

(* "report exact request counts": every answer claims the requests made.      *)
ExactCounts == pc = "done" => reported = requests
=============================================================================
