--------------------------- MODULE ToolGovernance ---------------------------
(***************************************************************************)
(* Guarded calls of one tool: GuardedToolExecutionService and the stores it  *)
(* asks (registry, policies, approvals, budgets, invocations).               *)
(*                                                                          *)
(* A call checks, in order and each in a transaction of its own, the tool,   *)
(* the active policy, its arguments, the approval and the budget, and then   *)
(* executes between two writes of its invocation row.  Anything may change   *)
(* between two of these transactions: an administrator activates another     *)
(* policy, discovery changes the tool, the connection drops, an approver     *)
(* loses the right to approve, a grant expires, another call goes first, the *)
(* calling task is cancelled, the process dies.                              *)
(***************************************************************************)
EXTENDS Integers, FiniteSets

CONSTANTS
  Calls,       \* tasks inside GuardedToolExecutionService.execute
  Runs,
  Arguments,   \* argument fingerprints
  Grants,      \* grants that can be issued
  Nothing,     \* None
  Versions,    \* versions of the tool's policy
  Allowing,    \* those whose effect is allow
  Approving,   \* those that require an approval
  MaxCalls,    \* their max_calls_per_run
  Snapshots,   \* what discovery can say of the tool: permission and schema
  SnapshotOf,  \* the snapshot a version was written for
  MaxChanges,  \* bound on changes of the tool, its connection, users and expiries
  MaxFaults    \* bound on cancellations, store errors and crashes

ASSUME ConstantsAssumption ==
  /\ IsFiniteSet(Calls)
  /\ Nothing \notin Calls \union Runs \union Arguments \union Grants \union Versions
  /\ Allowing \subseteq Versions /\ Approving \subseteq Versions
  /\ MaxCalls \in [Versions -> Nat]
  /\ SnapshotOf \in [Versions -> Snapshots]
  /\ MaxChanges \in Nat /\ MaxFaults \in Nat

VARIABLES
  policies,   \* state of each version: "draft", "active" or "retired"
  snapshot,   \* the registry's snapshot of the tool
  toolActive, \* its state is active
  connected,  \* its connection's state is connected
  trusted,    \* subject and approver are active users, with the role required
  grants,     \* the rows of tool_approvals
  expired,    \* grants past their expires_at
  used,       \* calls_used of the Run's tool_call_budgets row
  rows,       \* the call's tool_invocations row, "none" if there is none
  pc,         \* the await the call is in, "idle" before it and "ended" after
  request,    \* what it was asked: Run, arguments, approval reference
  seen,       \* what it knows: snapshot, policy version, reference expired
  grant,      \* the grant it consumed
  number,     \* the calls_used it reserved, 0 before
  effect,     \* what became of the tool: "none", "pending", or its outcome
  cancelled,  \* task.cancel() was called and not delivered yet
  changes, faults

governance == <<policies, snapshot, toolActive, connected, trusted, expired, changes>>
ledgers == <<grants, used, rows>>
locals == <<request, seen, grant, number, effect>>
vars == <<governance, ledgers, pc, locals, cancelled, faults>>

Awaits == {"resolve", "policy", "validate", "approve", "reserve", "deny", "start", "finish"}

Unissued == [state |-> "unissued", run |-> Nothing, arguments |-> Nothing, version |-> Nothing]
Unasked == [run |-> Nothing, arguments |-> Nothing, reference |-> Nothing]
Unseen == [snapshot |-> Nothing, version |-> Nothing, late |-> FALSE]

Init ==
  /\ policies = [v \in Versions |-> "draft"]
  /\ snapshot \in Snapshots
  /\ toolActive = TRUE /\ connected = TRUE /\ trusted = TRUE
  /\ grants = [g \in Grants |-> Unissued]
  /\ expired = {}
  /\ used = [r \in Runs |-> 0]
  /\ rows = [c \in Calls |-> "none"]
  /\ pc = [c \in Calls |-> "idle"]
  /\ request = [c \in Calls |-> Unasked]
  /\ seen = [c \in Calls |-> Unseen]
  /\ grant = [c \in Calls |-> Nothing]
  /\ number = [c \in Calls |-> 0]
  /\ effect = [c \in Calls |-> "none"]
  /\ cancelled = [c \in Calls |-> FALSE]
  /\ changes = 0 /\ faults = 0

IsActive(v) == policies[v] = "active"
Usable == toolActive /\ connected

-----------------------------------------------------------------------------
(* Administration *)

Change == changes < MaxChanges /\ changes' = changes + 1

(* activate: a draft written for what the tool is now replaces the active     *)
(* version.                                                                   *)
Activate(v) ==
  /\ policies[v] = "draft"
  /\ SnapshotOf[v] = snapshot
  /\ policies' = [w \in Versions |->
       IF w = v THEN "active" ELSE IF IsActive(w) THEN "retired" ELSE policies[w]]
  /\ UNCHANGED <<snapshot, toolActive, connected, trusted, expired, changes,
                 ledgers, pc, locals, cancelled, faults>>

(* save_tool_snapshot and update_connection. *)
Discover(s, active) ==
  /\ Change
  /\ <<s, active>> # <<snapshot, toolActive>>
  /\ snapshot' = s /\ toolActive' = active
  /\ UNCHANGED <<policies, connected, trusted, expired, ledgers, pc, locals, cancelled, faults>>

Reconnect ==
  /\ Change
  /\ connected' = ~connected
  /\ UNCHANGED <<policies, snapshot, toolActive, trusted, expired, ledgers, pc, locals,
                 cancelled, faults>>

UserChanges ==
  /\ Change
  /\ trusted' = ~trusted
  /\ UNCHANGED <<policies, snapshot, toolActive, connected, expired, ledgers, pc, locals,
                 cancelled, faults>>

(* The users, the tool and its policy as they are now, which both ends of a   *)
(* grant ask for.                                                             *)
Current(v) == trusted /\ Usable /\ IsActive(v)

CanIssue(v) == v \in Allowing \intersect Approving /\ Current(v)

(* issue_grant: the claims are those of a call the approver was shown.        *)
IssueGrant(g, r, a) ==
  /\ grants[g] = Unissued
  /\ \E v \in Versions :
       /\ CanIssue(v)
       /\ grants' = [grants EXCEPT ![g] =
            [state |-> "active", run |-> r, arguments |-> a, version |-> v]]
  /\ UNCHANGED <<governance, used, rows, pc, locals, cancelled, faults>>

Expire(g) ==
  /\ Change
  /\ grants[g].state = "active"
  /\ g \notin expired
  /\ expired' = expired \union {g}
  /\ UNCHANGED <<policies, snapshot, toolActive, connected, trusted, ledgers, pc, locals,
                 cancelled, faults>>

-----------------------------------------------------------------------------
(* A call.  An await whose task was cancelled meanwhile raises even when the  *)
(* transaction behind it went through, and the call ends there.               *)

Goto(c, there) ==
  /\ pc' = [pc EXCEPT ![c] = IF cancelled[c] THEN "ended" ELSE there]
  /\ UNCHANGED <<cancelled, faults>>

(* execute: the Run is the context's, the principal is the actor.             *)
Begin(c, r, a, reference) ==
  /\ pc[c] = "idle"
  /\ request' = [request EXCEPT ![c] = [run |-> r, arguments |-> a, reference |-> reference]]
  /\ \E admitted \in BOOLEAN : Goto(c, IF admitted THEN "resolve" ELSE "deny")
  /\ UNCHANGED <<governance, ledgers, seen, grant, number, effect>>

Resolve(c) ==
  /\ pc[c] = "resolve"
  /\ seen' = [seen EXCEPT ![c].snapshot = snapshot]
  /\ Goto(c, IF Usable THEN "policy" ELSE "deny")
  /\ UNCHANGED <<governance, ledgers, request, grant, number, effect>>

(* get_policy, and the checks of what it returned. *)
ReadPolicy(c) ==
  /\ pc[c] = "policy"
  /\ \/ \E v \in Versions :
          /\ IsActive(v)
          /\ seen' = [seen EXCEPT ![c].version = v]
          /\ Goto(c, IF v \in Allowing /\ SnapshotOf[v] = seen[c].snapshot
                     THEN "validate" ELSE "deny")
     \/ /\ \A v \in Versions : ~IsActive(v)
        /\ Goto(c, "deny")
        /\ UNCHANGED seen
  /\ UNCHANGED <<governance, ledgers, request, grant, number, effect>>

Approval(c) == seen[c].version \in Approving
Budgeted(c) == IF MaxCalls[seen[c].version] = 0 THEN "deny" ELSE "reserve"

(* validate_arguments against a fresh snapshot.  The clock that judges the    *)
(* grant is read here, before consume_approval waits for its transaction.     *)
Validate(c) ==
  /\ pc[c] = "validate"
  /\ seen' = [seen EXCEPT ![c].late = Approval(c) /\ request[c].reference \in expired]
  /\ \E valid \in BOOLEAN :
       Goto(c, IF ~(valid /\ toolActive /\ snapshot = seen[c].snapshot) THEN "deny"
               ELSE IF ~Approval(c) THEN Budgeted(c)
               ELSE IF request[c].reference = Nothing THEN "deny" ELSE "approve")
  /\ UNCHANGED <<governance, ledgers, request, grant, number, effect>>

(* Mutant: a grant is good for any arguments. *)
ClaimsMatchRunOnly(c, g) ==
  /\ grants[g].run = request[c].run
  /\ grants[g].version = seen[c].version

(* consume_approval's checks of the row and of the present. *)
ClaimsMatch(c, g) ==
  /\ grants[g].run = request[c].run
  /\ grants[g].arguments = request[c].arguments
  /\ grants[g].version = seen[c].version

CanConsume(c, g) ==
  /\ grants[g].state = "active"
  /\ ~seen[c].late
  /\ ClaimsMatch(c, g)
  /\ Current(grants[g].version)

(* _guard_approval looks again at the grant it was handed, which is spent.    *)
ApprovalMatches(c, g) ==
  /\ <<grants[g].run, grants[g].arguments>> = <<request[c].run, request[c].arguments>>
  /\ grants[g].version = seen[c].version

Approve(c) ==
  /\ pc[c] = "approve"
  /\ LET g == request[c].reference IN
       \/ /\ CanConsume(c, g)
          /\ grants' = [grants EXCEPT ![g].state = "consumed"]
          /\ grant' = [grant EXCEPT ![c] = g]
          /\ Goto(c, IF ApprovalMatches(c, g) THEN Budgeted(c) ELSE "deny")
       \/ /\ ~CanConsume(c, g)
          /\ Goto(c, "deny")
          /\ UNCHANGED <<grants, grant>>
  /\ UNCHANGED <<governance, used, rows, request, seen, number, effect>>

(* Mutant: the policy read before is good enough. *)
CanReserveStale(c) == Usable /\ used[request[c].run] < MaxCalls[seen[c].version]

(* Mutant: off by one. *)
CanReserveOneMore(c) ==
  /\ Usable
  /\ IsActive(seen[c].version)
  /\ used[request[c].run] <= MaxCalls[seen[c].version]

(* reserve_call: the tool and the policy are checked again, in the            *)
(* transaction that takes the number.                                         *)
CanReserve(c) ==
  /\ Usable
  /\ IsActive(seen[c].version)
  /\ used[request[c].run] < MaxCalls[seen[c].version]

Reserve(c) ==
  /\ pc[c] = "reserve"
  /\ \/ /\ CanReserve(c)
        /\ used' = [used EXCEPT ![request[c].run] = @ + 1]
        /\ number' = [number EXCEPT ![c] = used[request[c].run] + 1]
        /\ Goto(c, "start")
     \/ /\ ~CanReserve(c)
        /\ Goto(c, "deny")
        /\ UNCHANGED <<used, number>>
  /\ UNCHANGED <<governance, grants, rows, request, seen, grant, effect>>

Deny(c) ==
  /\ pc[c] = "deny"
  /\ rows' = [rows EXCEPT ![c] = "denied"]
  /\ Goto(c, "ended")
  /\ UNCHANGED <<governance, grants, used, locals>>

(* Mutant: the tool is called while the row is written. *)
StartInvocationLater(c) ==
  /\ pc[c] = "start"
  /\ effect' = [effect EXCEPT ![c] = IF cancelled[c] THEN "none" ELSE "pending"]
  /\ Goto(c, "execute")
  /\ UNCHANGED <<governance, ledgers, request, seen, grant, number>>

(* start, after which the tool is called. *)
StartInvocation(c) ==
  /\ pc[c] = "start"
  /\ rows' = [rows EXCEPT ![c] = "running"]
  /\ effect' = [effect EXCEPT ![c] = IF cancelled[c] THEN "none" ELSE "pending"]
  /\ Goto(c, "execute")
  /\ UNCHANGED <<governance, grants, used, request, seen, grant, number>>

(* The executor returns, raises, or is cancelled: the cancellation is caught, *)
(* and delivered again when the row says so.                                  *)
Execute(c) ==
  /\ pc[c] = "execute"
  /\ \E outcome \in IF cancelled[c] THEN {"cancelled"} ELSE {"completed", "failed"} :
       effect' = [effect EXCEPT ![c] = outcome]
  /\ pc' = [pc EXCEPT ![c] = "finish"]
  /\ cancelled' = [cancelled EXCEPT ![c] = FALSE]
  /\ UNCHANGED <<governance, ledgers, request, seen, grant, number, faults>>

FinishInvocation(c) ==
  /\ pc[c] = "finish"
  /\ rows' = [rows EXCEPT ![c] = effect[c]]
  /\ Goto(c, "ended")
  /\ UNCHANGED <<governance, grants, used, locals>>

-----------------------------------------------------------------------------
(* Faults *)

Fault == faults < MaxFaults /\ faults' = faults + 1

CancelCall(c) ==
  /\ Fault
  /\ pc[c] \in Awaits \union {"execute"}
  /\ ~cancelled[c]
  /\ cancelled' = [cancelled EXCEPT ![c] = TRUE]
  /\ UNCHANGED <<governance, ledgers, pc, locals>>

(* The cancellation is delivered before the transaction was sent, except to   *)
(* a cancelled execution, which writes its row behind a shield.               *)
CancelDelivered(c) ==
  /\ pc[c] \in Awaits /\ cancelled[c]
  /\ pc[c] = "finish" => effect[c] # "cancelled"
  /\ pc' = [pc EXCEPT ![c] = "ended"]
  /\ UNCHANGED <<governance, ledgers, locals, cancelled, faults>>

(* A store raises: the call ends with that error, even while it is denied. A  *)
(* registry read by the argument validator fails closed instead.              *)
StoreFails(c) ==
  /\ Fault
  /\ pc[c] \in Awaits
  /\ pc' = [pc EXCEPT ![c] = IF pc[c] = "validate" THEN "deny" ELSE "ended"]
  /\ UNCHANGED <<governance, ledgers, locals, cancelled>>

Crash ==
  /\ Fault
  /\ pc' = [c \in Calls |-> IF pc[c] = "idle" THEN "idle" ELSE "ended"]
  /\ UNCHANGED <<governance, ledgers, locals, cancelled>>

-----------------------------------------------------------------------------
Administer ==
  \/ \E v \in Versions : Activate(v)
  \/ \E s \in Snapshots, active \in BOOLEAN : Discover(s, active)
  \/ Reconnect
  \/ UserChanges
  \/ \E g \in Grants, r \in Runs, a \in Arguments : IssueGrant(g, r, a)
  \/ \E g \in Grants : Expire(g)

Call(c) ==
  \/ \E r \in Runs, a \in Arguments, reference \in Grants \union {Nothing} :
       Begin(c, r, a, reference)
  \/ Resolve(c) \/ ReadPolicy(c) \/ Validate(c) \/ Approve(c) \/ Reserve(c)
  \/ Deny(c) \/ StartInvocation(c) \/ Execute(c) \/ FinishInvocation(c)
  \/ CancelCall(c) \/ CancelDelivered(c) \/ StoreFails(c)

Next == Administer \/ Crash \/ \E c \in Calls : Call(c)

Spec == Init /\ [][Next]_vars

-----------------------------------------------------------------------------
(* Properties *)

Started(c) == rows[c] \notin {"none", "denied"}

(* Rows, requests and what a call knows hold values of their type; an         *)
(* invocation's row takes no state but those of tool_invocations.             *)
TypeOK ==
  /\ policies \in [Versions -> {"draft", "active", "retired"}]
  /\ snapshot \in Snapshots
  /\ toolActive \in BOOLEAN /\ connected \in BOOLEAN /\ trusted \in BOOLEAN
  /\ grants \in [Grants -> [state : {"unissued", "active", "consumed"},
                            run : Runs \union {Nothing},
                            arguments : Arguments \union {Nothing},
                            version : Versions \union {Nothing}]]
  /\ expired \subseteq Grants
  /\ used \in [Runs -> Nat]
  /\ rows \in [Calls -> {"none", "denied", "running", "completed", "failed", "cancelled"}]
  /\ pc \in [Calls -> Awaits \union {"idle", "execute", "ended"}]
  /\ request \in [Calls -> [run : Runs \union {Nothing},
                            arguments : Arguments \union {Nothing},
                            reference : Grants \union {Nothing}]]
  /\ seen \in [Calls -> [snapshot : Snapshots \union {Nothing},
                         version : Versions \union {Nothing},
                         late : BOOLEAN]]
  /\ grant \in [Calls -> Grants \union {Nothing}]
  /\ number \in [Calls -> Nat]
  /\ effect \in [Calls -> {"none", "pending", "completed", "failed", "cancelled"}]
  /\ cancelled \in [Calls -> BOOLEAN]
  /\ changes \in 0..MaxChanges /\ faults \in 0..MaxFaults

(* The calls of a Run are numbered without a gap or a repetition over policy  *)
(* changes, cancellations and crashes, and no number exceeds the limit of the *)
(* policy it was taken under.                                                 *)
BudgetHonoured ==
  /\ \A r \in Runs :
       used[r] = Cardinality({c \in Calls : number[c] > 0 /\ request[c].run = r})
  /\ \A c \in Calls : number[c] > 0 =>
       /\ number[c] <= MaxCalls[seen[c].version]
       /\ number[c] <= used[request[c].run]
  /\ \A c, d \in Calls :
       number[c] = number[d] /\ request[c].run = request[d].run /\ number[c] > 0 => c = d

(* Where the policy asks for an approval, a call is started only with a grant *)
(* that was consumed for its Run, its arguments and that very version, and    *)
(* no other call ever holds.                                                  *)
GrantBacksOneCall ==
  \A c \in Calls :
    /\ Started(c) /\ Approval(c) => grant[c] # Nothing
    /\ grant[c] # Nothing =>
         /\ grants[grant[c]] = [state |-> "consumed", run |-> request[c].run,
                               arguments |-> request[c].arguments,
                               version |-> seen[c].version]
         /\ \A d \in Calls : grant[d] = grant[c] => d = c

(* A call takes its number only under the one policy that is active at that   *)
(* moment, which allows it, and on a tool that is usable then, whatever it    *)
(* read before.                                                               *)
NoStaleAuthorization ==
  [][ \A c \in Calls : number'[c] # number[c] =>
        /\ Usable
        /\ seen[c].version \in Allowing
        /\ \A v \in Versions : IsActive(v) <=> v = seen[c].version ]_vars

(* The tool is touched only by calls that hold a number and a row, no denied  *)
(* call touches it, and a row that was finished says what really happened: a  *)
(* row is left running by calls that were cut off, and by no others.          *)
ExecutionRecorded ==
  \A c \in Calls :
    /\ effect[c] # "none" => Started(c)
    /\ Started(c) => number[c] > 0 /\ (rows[c] = "running" \/ rows[c] = effect[c])
    /\ rows[c] = "denied" => number[c] = 0
    /\ rows[c] = "running" => pc[c] \in {"execute", "finish"} \/ faults > 0
=============================================================================
