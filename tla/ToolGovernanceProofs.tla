------------------------ MODULE ToolGovernanceProofs ------------------------
(***************************************************************************)
(* Proofs about ToolGovernance, for any number of calls, Runs, grants and    *)
(* policy versions, and any number of changes and faults.                    *)
(***************************************************************************)
EXTENDS ToolGovernance, FiniteSetTheorems, TLAPS

USE ConstantsAssumption

-----------------------------------------------------------------------------
(* The inductive invariant *)

(* What is true of a call by the await it has reached. *)
Stage(c) ==
  /\ pc[c] # "idle" => request[c].run \in Runs /\ request[c].arguments \in Arguments
  /\ pc[c] \in {"idle", "resolve", "policy", "validate", "approve"} => grant[c] = Nothing
  /\ pc[c] \in {"idle", "resolve", "policy", "validate", "approve", "reserve", "deny"} =>
       number[c] = 0
  /\ pc[c] \in Awaits \union {"idle"} /\ pc[c] # "finish" =>
       rows[c] = "none" /\ effect[c] = "none"
  /\ pc[c] \in {"validate", "approve", "reserve"} => seen[c].version \in Allowing
  /\ pc[c] = "approve" => request[c].reference # Nothing
  /\ pc[c] = "reserve" /\ Approval(c) => grant[c] # Nothing
  /\ pc[c] = "start" => number[c] > 0
  /\ pc[c] = "execute" => rows[c] = "running" /\ effect[c] = "pending"
  /\ pc[c] = "finish" =>
       rows[c] = "running" /\ effect[c] \in {"completed", "failed", "cancelled"}
  /\ number[c] > 0 => seen[c].version \in Versions /\ (Approval(c) => grant[c] # Nothing)
  /\ grant[c] # Nothing => pc[c] # "idle" /\ seen[c].version \in Versions
  /\ cancelled[c] => faults > 0

Stages == \A c \in Calls : Stage(c)

(* At most one version is active. *)
OneActive == \A v, w \in Versions : IsActive(v) /\ IsActive(w) => v = w

(* A grant in somebody's hands was consumed for him alone. *)
Held(c) ==
  grant[c] # Nothing =>
    /\ grants[grant[c]] = [state |-> "consumed", run |-> request[c].run,
                           arguments |-> request[c].arguments,
                           version |-> seen[c].version]
    /\ \A d \in Calls : grant[d] = grant[c] => d = c

GrantsHeld == \A c \in Calls : Held(c)

TInv ==
  /\ TypeOK
  /\ Stages
  /\ OneActive
  /\ GrantsHeld
  /\ ExecutionRecorded
  /\ BudgetHonoured

-----------------------------------------------------------------------------
(* A step leaves everything of call d as it is. *)
Still(d) ==
  /\ pc'[d] = pc[d] /\ request'[d] = request[d] /\ seen'[d] = seen[d]
  /\ grant'[d] = grant[d] /\ number'[d] = number[d] /\ effect'[d] = effect[d]
  /\ rows'[d] = rows[d] /\ cancelled'[d] = cancelled[d]

(* Types *)

Grant == [state : {"unissued", "active", "consumed"}, run : Runs \union {Nothing},
          arguments : Arguments \union {Nothing}, version : Versions \union {Nothing}]
Knowledge == [snapshot : Snapshots \union {Nothing}, version : Versions \union {Nothing},
              late : BOOLEAN]

(* A call learns one thing at a time. *)
LEMMA KnowledgeUpdate ==
  ASSUME NEW f \in [Calls -> Knowledge], NEW c \in Calls
  PROVE  /\ \A s \in Snapshots : [f EXCEPT ![c].snapshot = s] \in [Calls -> Knowledge]
         /\ \A v \in Versions : [f EXCEPT ![c].version = v] \in [Calls -> Knowledge]
         /\ \A b \in BOOLEAN : [f EXCEPT ![c].late = b] \in [Calls -> Knowledge]
<1>1. ASSUME NEW s \in Snapshots PROVE [f EXCEPT ![c].snapshot = s] \in [Calls -> Knowledge]
  BY DEF Knowledge
<1>2. ASSUME NEW v \in Versions PROVE [f EXCEPT ![c].version = v] \in [Calls -> Knowledge]
  BY DEF Knowledge
<1>3. ASSUME NEW b \in BOOLEAN PROVE [f EXCEPT ![c].late = b] \in [Calls -> Knowledge]
  BY DEF Knowledge
<1>4. QED
  BY <1>1, <1>2, <1>3

(* Consuming a grant leaves a row of tool_approvals. *)
LEMMA GrantUpdate ==
  ASSUME NEW f \in [Grants -> Grant], NEW g \in Grants
  PROVE  [f EXCEPT ![g].state = "consumed"] \in [Grants -> Grant]
  BY DEF Grant

(* Consuming a grant leaves its claims alone. *)
LEMMA GrantUpdated ==
  ASSUME NEW f \in [Grants -> Grant], NEW g \in Grants
  PROVE  [f EXCEPT ![g].state = "consumed"][g] =
           [state |-> "consumed", run |-> f[g].run, arguments |-> f[g].arguments,
            version |-> f[g].version]
  BY DEF Grant

(* Every step of an administrator keeps the types. *)
LEMMA AdministerType ==
  ASSUME TypeOK, Administer
  PROVE  TypeOK'
<1>1. ASSUME NEW v \in Versions, Activate(v) PROVE TypeOK'
  BY <1>1 DEF TypeOK, Activate, ledgers, locals
<1>2. ASSUME NEW s \in Snapshots, NEW active \in BOOLEAN, Discover(s, active) PROVE TypeOK'
  BY <1>2 DEF TypeOK, Discover, Change, ledgers, locals
<1>3. ASSUME Reconnect PROVE TypeOK'
  BY <1>3 DEF TypeOK, Reconnect, Change, ledgers, locals
<1>4. ASSUME UserChanges PROVE TypeOK'
  BY <1>4 DEF TypeOK, UserChanges, Change, ledgers, locals
<1>5. ASSUME NEW g \in Grants, NEW r \in Runs, NEW a \in Arguments, IssueGrant(g, r, a)
      PROVE TypeOK'
  BY <1>5 DEF TypeOK, IssueGrant, CanIssue, governance, locals
<1>6. ASSUME NEW g \in Grants, Expire(g) PROVE TypeOK'
  BY <1>6 DEF TypeOK, Expire, Change, ledgers, locals
<1>7. QED
  BY <1>1, <1>2, <1>3, <1>4, <1>5, <1>6 DEF Administer

(* Every step of a call keeps the types. *)
LEMMA CallType ==
  ASSUME TypeOK, Stages, NEW c \in Calls, Call(c)
  PROVE  TypeOK'
<1> USE DEF governance, ledgers, locals, Goto, Awaits
<1>a. seen \in [Calls -> Knowledge] /\ snapshot \in Snapshots
  BY DEF TypeOK, Knowledge
<1>b. ASSUME NEW there \in Awaits \union {"ended"}, pc' = [pc EXCEPT ![c] = there]
      PROVE  pc' \in [Calls -> Awaits \union {"idle", "execute", "ended"}]
  BY <1>b DEF TypeOK
<1>1. ASSUME NEW r \in Runs, NEW a \in Arguments, NEW reference \in Grants \union {Nothing},
             Begin(c, r, a, reference)
      PROVE TypeOK'
  BY <1>1 DEF TypeOK, Begin
<1>2. CASE Resolve(c)
  <2>1. seen' \in [Calls -> Knowledge]
    BY <1>2, <1>a, KnowledgeUpdate DEF Resolve
  <2>2. QED
    BY <1>2, <2>1 DEF TypeOK, Resolve, Knowledge
<1>3. CASE ReadPolicy(c)
  <2>1. seen' \in [Calls -> Knowledge]
    BY <1>3, <1>a, KnowledgeUpdate DEF ReadPolicy
  <2>2. PICK there \in Awaits \union {"ended"} : pc' = [pc EXCEPT ![c] = there]
    BY <1>3 DEF ReadPolicy
  <2>3. pc' \in [Calls -> Awaits \union {"idle", "execute", "ended"}]
    BY <1>b, <2>2
  <2>4. QED
    BY <1>3, <2>1, <2>3 DEF TypeOK, ReadPolicy, Knowledge
<1>4. CASE Validate(c)
  <2>1. (Approval(c) /\ request[c].reference \in expired) \in BOOLEAN
    OBVIOUS
  <2>2. seen' \in [Calls -> Knowledge]
    BY <1>4, <1>a, <2>1, KnowledgeUpdate DEF Validate
  <2>3. PICK there \in Awaits \union {"ended"} : pc' = [pc EXCEPT ![c] = there]
    BY <1>4 DEF Validate, Budgeted
  <2>4. pc' \in [Calls -> Awaits \union {"idle", "execute", "ended"}]
    BY <1>b, <2>3
  <2>5. QED
    BY <1>4, <2>2, <2>4 DEF TypeOK, Validate, Knowledge
<1>5. CASE Approve(c)
  <2> DEFINE g == request[c].reference
  <2>1. g \in Grants
    BY <1>5 DEF TypeOK, Stages, Stage, Approve
  <2>2. grants \in [Grants -> Grant] /\ grant \in [Calls -> Grants \union {Nothing}]
    BY DEF TypeOK, Grant
  <2>3. grants' \in [Grants -> Grant] /\ grant' \in [Calls -> Grants \union {Nothing}]
    BY <1>5, <2>1, <2>2, GrantUpdate DEF Approve
  <2>4. PICK there \in Awaits \union {"ended"} : pc' = [pc EXCEPT ![c] = there]
    BY <1>5 DEF Approve, Budgeted
  <2>5. pc' \in [Calls -> Awaits \union {"idle", "execute", "ended"}]
    BY <1>b, <2>4
  <2>6. QED
    BY <1>5, <2>3, <2>5 DEF TypeOK, Approve, Grant
<1>6. CASE Reserve(c)
  <2>1. /\ request[c].run \in Runs
        /\ used \in [Runs -> Nat] /\ number \in [Calls -> Nat]
    BY <1>6 DEF Reserve, Stages, Stage, TypeOK
  <2>2. used' \in [Runs -> Nat] /\ number' \in [Calls -> Nat]
    BY <1>6, <2>1 DEF Reserve
  <2>3. PICK there \in Awaits \union {"ended"} : pc' = [pc EXCEPT ![c] = there]
    BY <1>6 DEF Reserve
  <2>4. pc' \in [Calls -> Awaits \union {"idle", "execute", "ended"}]
    BY <1>b, <2>3
  <2>5. QED
    BY <1>6, <2>2, <2>4 DEF TypeOK, Reserve
<1>7. CASE Deny(c)
  BY <1>7 DEF TypeOK, Deny
<1>8. CASE StartInvocation(c)
  BY <1>8 DEF TypeOK, StartInvocation
<1>9. CASE Execute(c)
  BY <1>9 DEF TypeOK, Execute
<1>10. CASE FinishInvocation(c)
  BY <1>10 DEF TypeOK, FinishInvocation, Stages, Stage
<1>11. CASE CancelCall(c)
  BY <1>11 DEF TypeOK, CancelCall, Fault
<1>12. CASE CancelDelivered(c)
  BY <1>12 DEF TypeOK, CancelDelivered
<1>13. CASE StoreFails(c)
  BY <1>13 DEF TypeOK, StoreFails, Fault
<1>14. QED
  BY <1>1, <1>2, <1>3, <1>4, <1>5, <1>6, <1>7, <1>8, <1>9, <1>10, <1>11, <1>12, <1>13 DEF Call

-----------------------------------------------------------------------------
(* Stages *)

(* A call's step leaves the other calls where they are. *)
LEMMA CallFrame ==
  ASSUME TypeOK, NEW c \in Calls, Call(c), NEW d \in Calls, d # c
  PROVE  Still(d) /\ faults \in Nat /\ faults' \in Nat /\ faults' >= faults
<1> USE DEF Still, governance, ledgers, locals, Goto, TypeOK
<1>1. ASSUME NEW r \in Runs, NEW a \in Arguments, NEW reference \in Grants \union {Nothing},
             Begin(c, r, a, reference)
      PROVE Still(d) /\ faults' = faults
  BY <1>1 DEF Begin
<1>2. CASE Resolve(c) \/ ReadPolicy(c) \/ Validate(c)
  BY <1>2 DEF Resolve, ReadPolicy, Validate
<1>3. CASE Approve(c) \/ Reserve(c)
  BY <1>3 DEF Approve, Reserve
<1>4. CASE Deny(c) \/ StartInvocation(c) \/ Execute(c) \/ FinishInvocation(c)
  BY <1>4 DEF Deny, StartInvocation, Execute, FinishInvocation
<1>5. CASE CancelCall(c) \/ CancelDelivered(c) \/ StoreFails(c)
  BY <1>5 DEF CancelCall, CancelDelivered, StoreFails, Fault
<1>6. QED
  BY <1>1, <1>2, <1>3, <1>4, <1>5 DEF Call

(* A call nobody touches stays at its stage. *)
LEMMA StillStage ==
  ASSUME NEW d \in Calls, Stage(d), Still(d), faults \in Nat, faults' \in Nat,
         faults' >= faults
  PROVE  Stage(d)'
  BY DEF Stage, Still, Approval

(* A call's own step takes it to the stage of the await it reaches. *)
LEMMA CallStage ==
  ASSUME TypeOK, TypeOK', NEW c \in Calls, Stage(c), Call(c)
  PROVE  Stage(c)'
<1> USE DEF governance, ledgers, locals, Goto, Awaits, Stage, Approval
<1>1. ASSUME NEW r \in Runs, NEW a \in Arguments, NEW reference \in Grants \union {Nothing},
             Begin(c, r, a, reference)
      PROVE Stage(c)'
  BY <1>1 DEF TypeOK, Begin
<1>2. CASE Resolve(c)
  BY <1>2 DEF TypeOK, Resolve
<1>3. CASE ReadPolicy(c)
  BY <1>3 DEF TypeOK, ReadPolicy
<1>4. CASE Validate(c)
  BY <1>4 DEF TypeOK, Validate, Budgeted
<1>5. CASE Approve(c)
  BY <1>5 DEF TypeOK, Approve, Budgeted
<1>6. CASE Reserve(c)
  BY <1>6 DEF TypeOK, Reserve
<1>7. CASE Deny(c)
  BY <1>7 DEF TypeOK, Deny
<1>8. CASE StartInvocation(c)
  BY <1>8 DEF TypeOK, StartInvocation
<1>9. CASE Execute(c)
  BY <1>9 DEF TypeOK, Execute
<1>10. CASE FinishInvocation(c)
  BY <1>10 DEF TypeOK, FinishInvocation
<1>11. CASE CancelCall(c)
  BY <1>11 DEF TypeOK, CancelCall, Fault
<1>12. CASE CancelDelivered(c)
  BY <1>12 DEF TypeOK, CancelDelivered
<1>13. CASE StoreFails(c)
  BY <1>13 DEF TypeOK, StoreFails, Fault
<1>14. QED
  BY <1>1, <1>2, <1>3, <1>4, <1>5, <1>6, <1>7, <1>8, <1>9, <1>10, <1>11, <1>12, <1>13 DEF Call

-----------------------------------------------------------------------------
(* What the stores hold *)

(* Where a step changes no grant, nor who holds it, nor the claims of a call  *)
(* that holds one, the grants held stay good.                                 *)
LEMMA HeldUnchanged ==
  ASSUME TypeOK, GrantsHeld, grant' = grant,
         \A c \in Calls : grant[c] # Nothing =>
           /\ grants'[grant[c]] = grants[grant[c]]
           /\ request'[c] = request[c] /\ seen'[c] = seen[c]
  PROVE  GrantsHeld'
  BY DEF GrantsHeld, Held

(* Only Approve hands a grant over, and only one that nobody holds. *)
LEMMA ApproveHeld ==
  ASSUME TypeOK, Stages, GrantsHeld, NEW c \in Calls, Approve(c)
  PROVE  GrantsHeld'
<1> DEFINE g == request[c].reference
<1>1. g \in Grants /\ grants \in [Grants -> Grant]
  BY DEF TypeOK, Stages, Stage, Approve, Grant
<1>2. request' = request /\ seen' = seen
  BY DEF Approve
<1>3. CASE CanConsume(c, g) /\ grants' = [grants EXCEPT ![g].state = "consumed"]
                          /\ grant' = [grant EXCEPT ![c] = g]
  <2>1. grants'[g] = [state |-> "consumed", run |-> request[c].run,
                      arguments |-> request[c].arguments, version |-> seen[c].version]
    <3>1. grants'[g] = [state |-> "consumed", run |-> grants[g].run,
                        arguments |-> grants[g].arguments, version |-> grants[g].version]
      BY <1>1, <1>3, GrantUpdated
    <3>2. /\ grants[g].run = request[c].run /\ grants[g].arguments = request[c].arguments
          /\ grants[g].version = seen[c].version
      BY <1>3 DEF CanConsume, ClaimsMatch
    <3>3. QED
      BY <3>1, <3>2
  <2>2. \A h \in Grants : h # g => grants'[h] = grants[h]
    BY <1>1, <1>3
  <2>3. \A d \in Calls : grant[d] # g
    <3>1. g # Nothing /\ grants[g].state = "active"
      BY <1>1, <1>3 DEF CanConsume
    <3>2. ASSUME NEW d \in Calls, grant[d] = g PROVE grants[g].state = "consumed"
      <4>1. grants[grant[d]] = [state |-> "consumed", run |-> request[d].run,
                                arguments |-> request[d].arguments,
                                version |-> seen[d].version]
        BY <3>1, <3>2 DEF GrantsHeld, Held
      <4>2. QED
        BY <3>2, <4>1
    <3>3. QED
      BY <3>1, <3>2
  <2>4. grant'[c] = g /\ \A d \in Calls : d # c => grant'[d] = grant[d]
    BY <1>3 DEF TypeOK
  <2>5. ASSUME NEW d \in Calls, d # c PROVE Held(d)'
    BY <1>2, <2>2, <2>3, <2>4, <2>5 DEF GrantsHeld, Held, TypeOK
  <2>6. Held(c)'
    BY <1>2, <2>1, <2>3, <2>4 DEF Held
  <2>7. QED
    BY <2>5, <2>6 DEF GrantsHeld
<1>4. CASE UNCHANGED <<grants, grant>>
  BY <1>2, <1>4, HeldUnchanged
<1>5. QED
  BY <1>3, <1>4 DEF Approve

(* No step of a call hands a grant to two calls or alters its claims. *)
LEMMA CallHeld ==
  ASSUME TypeOK, Stages, GrantsHeld, NEW c \in Calls, Call(c)
  PROVE  GrantsHeld'
<1> USE DEF governance, ledgers, locals
<1>1. ASSUME NEW r \in Runs, NEW a \in Arguments, NEW reference \in Grants \union {Nothing},
             Begin(c, r, a, reference)
      PROVE GrantsHeld'
  BY <1>1, HeldUnchanged DEF Begin, TypeOK, Stages, Stage
<1>2. CASE Resolve(c) \/ ReadPolicy(c) \/ Validate(c)
  BY <1>2, HeldUnchanged DEF Resolve, ReadPolicy, Validate, TypeOK, Stages, Stage
<1>3. CASE Approve(c)
  BY <1>3, ApproveHeld
<1>4. CASE \/ Reserve(c) \/ Deny(c) \/ StartInvocation(c) \/ Execute(c) \/ FinishInvocation(c)
           \/ CancelCall(c) \/ CancelDelivered(c) \/ StoreFails(c)
  BY <1>4, HeldUnchanged
     DEF Reserve, Deny, StartInvocation, Execute, FinishInvocation, CancelCall,
         CancelDelivered, StoreFails
<1>5. QED
  BY <1>1, <1>2, <1>3, <1>4 DEF Call

(* Where a step reserves nothing and leaves the callers that hold a number    *)
(* what they asked and know, the budget stays right.                          *)
LEMMA BudgetUnchanged ==
  ASSUME TypeOK, BudgetHonoured, UNCHANGED <<used, number>>,
         \A c \in Calls : number[c] > 0 => request'[c] = request[c] /\ seen'[c] = seen[c]
  PROVE  BudgetHonoured'
<1>1. ASSUME NEW r \in Runs
      PROVE {c \in Calls : number'[c] > 0 /\ request'[c].run = r}
              = {c \in Calls : number[c] > 0 /\ request[c].run = r}
  OBVIOUS
<1>2. QED
  BY <1>1 DEF BudgetHonoured

(* Reserve takes the number after the last one taken for the Run. *)
LEMMA ReserveBudget ==
  ASSUME TypeOK, Stages, BudgetHonoured, NEW c \in Calls, Reserve(c)
  PROVE  BudgetHonoured'
<1> DEFINE run == request[c].run
           Numbered(r) == {d \in Calls : number[d] > 0 /\ request[d].run = r}
<1>1. /\ request' = request /\ seen' = seen /\ number[c] = 0
      /\ run \in Runs /\ seen[c].version \in Versions
  BY DEF Reserve, Stages, Stage, TypeOK
<1>2. CASE CanReserve(c) /\ used' = [used EXCEPT ![run] = @ + 1]
                        /\ number' = [number EXCEPT ![c] = used[run] + 1]
  <2>1. /\ used \in [Runs -> Nat] /\ number \in [Calls -> Nat]
        /\ used'[run] = used[run] + 1 /\ number'[c] = used[run] + 1
        /\ \A r \in Runs : r # run => used'[r] = used[r]
        /\ \A d \in Calls : d # c => number'[d] = number[d]
    BY <1>1, <1>2 DEF TypeOK
  <2>2. ASSUME NEW r \in Runs
        PROVE used'[r] = Cardinality({d \in Calls : number'[d] > 0 /\ request'[d].run = r})
    <3>1. IsFiniteSet(Numbered(r)) /\ used[r] = Cardinality(Numbered(r))
      BY FS_Subset DEF BudgetHonoured
    <3>2. CASE r = run
      <4>1. {d \in Calls : number'[d] > 0 /\ request'[d].run = r} = Numbered(r) \union {c}
        BY <1>1, <2>1, <3>2
      <4>2. c \notin Numbered(r)
        BY <1>1
      <4>3. QED
        BY <2>1, <3>1, <3>2, <4>1, <4>2, FS_AddElement
    <3>3. CASE r # run
      <4>1. {d \in Calls : number'[d] > 0 /\ request'[d].run = r} = Numbered(r)
        BY <1>1, <2>1, <3>3
      <4>2. QED
        BY <2>1, <3>1, <3>3, <4>1
    <3>4. QED
      BY <3>2, <3>3
  <2>3. ASSUME NEW d \in Calls, number'[d] > 0
        PROVE number'[d] <= MaxCalls[seen'[d].version] /\ number'[d] <= used'[request'[d].run]
    <3>1. CASE d = c
      BY <1>1, <1>2, <2>1, <3>1 DEF CanReserve
    <3>2. CASE d # c
      <4>1. number[d] > 0 /\ request[d].run \in Runs
        BY <2>1, <2>3, <3>2 DEF Stages, Stage
      <4>2. QED
        BY <1>1, <2>1, <3>2, <4>1 DEF BudgetHonoured
    <3>3. QED
      BY <3>1, <3>2
  <2>4. ASSUME NEW d \in Calls, NEW e \in Calls, number'[d] = number'[e],
               request'[d].run = request'[e].run, number'[d] > 0
        PROVE d = e
    BY <1>1, <2>1, <2>4 DEF BudgetHonoured
  <2>5. QED
    BY <2>2, <2>3, <2>4 DEF BudgetHonoured
<1>3. CASE UNCHANGED <<used, number>>
  BY <1>1, <1>3, BudgetUnchanged
<1>4. QED
  BY <1>2, <1>3 DEF Reserve

(* No step of a call but Reserve touches the budget. *)
LEMMA CallBudget ==
  ASSUME TypeOK, Stages, BudgetHonoured, NEW c \in Calls, Call(c)
  PROVE  BudgetHonoured'
<1> USE DEF governance, ledgers, locals
<1>1. ASSUME NEW r \in Runs, NEW a \in Arguments, NEW reference \in Grants \union {Nothing},
             Begin(c, r, a, reference)
      PROVE BudgetHonoured'
  BY <1>1, BudgetUnchanged DEF Begin, TypeOK, Stages, Stage
<1>2. CASE Resolve(c) \/ ReadPolicy(c) \/ Validate(c)
  BY <1>2, BudgetUnchanged DEF Resolve, ReadPolicy, Validate, TypeOK, Stages, Stage
<1>3. CASE Reserve(c)
  BY <1>3, ReserveBudget
<1>4. CASE \/ Approve(c) \/ Deny(c) \/ StartInvocation(c) \/ Execute(c) \/ FinishInvocation(c)
           \/ CancelCall(c) \/ CancelDelivered(c) \/ StoreFails(c)
  BY <1>4, BudgetUnchanged
     DEF Approve, Deny, StartInvocation, Execute, FinishInvocation, CancelCall,
         CancelDelivered, StoreFails
<1>5. QED
  BY <1>1, <1>2, <1>3, <1>4 DEF Call

(* The row of a call says what its stage says. *)
LEMMA CallRecorded ==
  ASSUME TypeOK, Stages, ExecutionRecorded, NEW c \in Calls, Call(c)
  PROVE  ExecutionRecorded'
<1> DEFINE Recorded(d) ==
      /\ effect[d] # "none" => Started(d)
      /\ Started(d) => number[d] > 0 /\ (rows[d] = "running" \/ rows[d] = effect[d])
      /\ rows[d] = "denied" => number[d] = 0
      /\ rows[d] = "running" => pc[d] \in {"execute", "finish"} \/ faults > 0
<1>1. ASSUME NEW d \in Calls, d # c PROVE Recorded(d)'
  BY <1>1, CallFrame DEF ExecutionRecorded, Still, Started
<1>2. Recorded(c)'
  <2> USE DEF governance, ledgers, locals, Goto, Awaits, Stages, Stage, ExecutionRecorded,
              Started, TypeOK
  <2>1. ASSUME NEW r \in Runs, NEW a \in Arguments,
               NEW reference \in Grants \union {Nothing}, Begin(c, r, a, reference)
        PROVE Recorded(c)'
    BY <2>1 DEF Begin
  <2>2. CASE Resolve(c) \/ ReadPolicy(c) \/ Validate(c) \/ Approve(c)
    BY <2>2 DEF Resolve, ReadPolicy, Validate, Approve
  <2>3. CASE Reserve(c)
    BY <2>3 DEF Reserve
  <2>4. CASE Deny(c)
    BY <2>4 DEF Deny
  <2>5. CASE StartInvocation(c)
    BY <2>5 DEF StartInvocation
  <2>6. CASE Execute(c)
    BY <2>6 DEF Execute
  <2>7. CASE FinishInvocation(c)
    BY <2>7 DEF FinishInvocation
  <2>8. CASE CancelCall(c) \/ CancelDelivered(c)
    BY <2>8 DEF CancelCall, CancelDelivered, Fault
  <2>9. CASE StoreFails(c)
    BY <2>9 DEF StoreFails, Fault
  <2>10. QED
    BY <2>1, <2>2, <2>3, <2>4, <2>5, <2>6, <2>7, <2>8, <2>9 DEF Call
<1>3. QED
  BY <1>1, <1>2 DEF ExecutionRecorded

-----------------------------------------------------------------------------
(* Administrators and crashes *)

(* Activating a version retires the one that was active, and nothing else     *)
(* activates one.                                                             *)
LEMMA NextOneActive ==
  ASSUME TypeOK, OneActive, [Next]_vars
  PROVE  OneActive'
<1>1. ASSUME NEW v \in Versions, Activate(v) PROVE OneActive'
  BY <1>1 DEF Activate, OneActive, IsActive
<1>2. CASE policies' = policies
  BY <1>2 DEF OneActive, IsActive
<1>3. ASSUME NEW c \in Calls, Call(c) PROVE policies' = policies
  BY <1>3 DEF Call, Begin, Resolve, ReadPolicy, Validate, Approve, Reserve, Deny,
              StartInvocation, Execute, FinishInvocation, CancelCall, CancelDelivered,
              StoreFails, governance
<1>4. QED
  BY <1>1, <1>2, <1>3 DEF Next, Administer, Discover, Reconnect, UserChanges, IssueGrant,
                          Expire, Crash, governance, vars

(* An administrator touches no call, and no grant that a call holds. *)
LEMMA AdministerCalls ==
  ASSUME TInv, Administer
  PROVE  Stages' /\ GrantsHeld' /\ ExecutionRecorded' /\ BudgetHonoured'
<1> USE DEF TInv
<1>1. UNCHANGED <<pc, request, seen, grant, number, effect, rows, used, cancelled, faults>>
  BY DEF Administer, Activate, Discover, Reconnect, UserChanges, IssueGrant, Expire,
         governance, ledgers, locals
<1>2. Stages'
  BY <1>1 DEF Stages, Stage, Approval
<1>3. ExecutionRecorded'
  BY <1>1 DEF ExecutionRecorded, Started
<1>4. BudgetHonoured'
  BY <1>1, BudgetUnchanged
<1>5. ASSUME NEW c \in Calls, grant[c] # Nothing PROVE grants'[grant[c]] = grants[grant[c]]
  <2>1. grant[c] \in Grants /\ grants[grant[c]].state = "consumed"
    <3>1. grants[grant[c]] = [state |-> "consumed", run |-> request[c].run,
                              arguments |-> request[c].arguments, version |-> seen[c].version]
      BY <1>5 DEF GrantsHeld, Held
    <3>2. QED
      BY <1>5, <3>1 DEF TypeOK
  <2>2. ASSUME NEW g \in Grants, NEW r \in Runs, NEW a \in Arguments, IssueGrant(g, r, a)
        PROVE grants'[grant[c]] = grants[grant[c]]
    BY <2>1, <2>2 DEF IssueGrant, CanIssue, Unissued, TypeOK
  <2>3. QED
    BY <2>2 DEF Administer, Activate, Discover, Reconnect, UserChanges, Expire, ledgers
<1>6. GrantsHeld'
  BY <1>1, <1>5, HeldUnchanged
<1>7. QED
  BY <1>2, <1>3, <1>4, <1>6

(* A crash only ends calls. *)
LEMMA CrashCalls ==
  ASSUME TInv, Crash
  PROVE  TypeOK' /\ Stages' /\ GrantsHeld' /\ ExecutionRecorded' /\ BudgetHonoured'
<1> USE DEF TInv, Crash, Fault, governance, ledgers, locals
<1>1. TypeOK'
  BY DEF TypeOK
<1>2. Stages'
  BY DEF TypeOK, Stages, Stage, Approval, Awaits
<1>3. ExecutionRecorded'
  BY DEF TypeOK, ExecutionRecorded, Started
<1>4. BudgetHonoured'
  BY BudgetUnchanged
<1>5. GrantsHeld'
  BY HeldUnchanged
<1>6. QED
  BY <1>1, <1>2, <1>3, <1>4, <1>5

-----------------------------------------------------------------------------
(* The theorems *)

(* The stores are empty at first. *)
LEMMA InitTInv ==
  ASSUME Init
  PROVE  TInv
<1> USE DEF Init
<1>1. TypeOK
  BY DEF TypeOK, Unissued, Unasked, Unseen, Awaits
<1>2. Stages /\ GrantsHeld /\ OneActive
  BY DEF Stages, Stage, GrantsHeld, Held, OneActive, IsActive, Awaits
<1>3. ExecutionRecorded
  BY DEF ExecutionRecorded, Started
<1>4. BudgetHonoured
  <2>1. ASSUME NEW r \in Runs
        PROVE {c \in Calls : number[c] > 0 /\ request[c].run = r} = {}
    OBVIOUS
  <2>2. Cardinality({}) = 0
    BY FS_EmptySet
  <2>3. \A r \in Runs : used[r] = Cardinality({c \in Calls : number[c] > 0 /\ request[c].run = r})
    BY <2>1, <2>2
  <2>4. \A c \in Calls : number[c] = 0
    OBVIOUS
  <2>5. QED
    BY <2>3, <2>4 DEF BudgetHonoured
<1>5. QED
  BY <1>1, <1>2, <1>3, <1>4 DEF TInv

(* Every step keeps the invariant. *)
LEMMA NextTInv ==
  ASSUME TInv, [Next]_vars
  PROVE  TInv'
<1>1. OneActive'
  BY NextOneActive DEF TInv
<1>2. CASE Administer
  BY <1>1, <1>2, AdministerType, AdministerCalls DEF TInv
<1>3. CASE Crash
  BY <1>1, <1>3, CrashCalls DEF TInv
<1>4. ASSUME NEW c \in Calls, Call(c) PROVE TInv'
  <2>1. TypeOK'
    BY <1>4, CallType DEF TInv
  <2>2. ASSUME NEW d \in Calls PROVE Stage(d)'
    <3>1. CASE d = c
      BY <1>4, <2>1, <3>1, CallStage DEF TInv, Stages
    <3>2. CASE d # c
      BY <1>4, <3>2, CallFrame, StillStage DEF TInv, Stages
    <3>3. QED
      BY <3>1, <3>2
  <2>3. Stages'
    BY <2>2 DEF Stages
  <2>4. GrantsHeld' /\ ExecutionRecorded' /\ BudgetHonoured'
    BY <1>4, CallHeld, CallRecorded, CallBudget DEF TInv
  <2>5. QED
    BY <1>1, <2>1, <2>3, <2>4 DEF TInv
<1>5. CASE UNCHANGED vars
  <2> USE <1>5 DEF TInv, vars, governance, ledgers, locals
  <2>1. TypeOK' /\ Stages'
    BY DEF TypeOK, Stages, Stage, Approval
  <2>2. GrantsHeld'
    BY HeldUnchanged
  <2>3. ExecutionRecorded' /\ BudgetHonoured'
    BY BudgetUnchanged DEF ExecutionRecorded, Started
  <2>4. QED
    BY <1>1, <2>1, <2>2, <2>3
<1>6. QED
  BY <1>2, <1>3, <1>4, <1>5 DEF Next

(* Whatever administrators, approvers and faults do between the transactions  *)
(* of GuardedToolExecutionService.execute, every reachable state satisfies    *)
(* the invariant that says what a call may rely on at each await.             *)
THEOREM GovernanceInvariant == Spec => []TInv
<1>1. Init => TInv
  BY InitTInv
<1>2. TInv /\ [Next]_vars => TInv'
  BY NextTInv
<1>3. QED
  BY <1>1, <1>2, PTL DEF Spec

(* The rows of the governance stores keep their types, and an invocation row  *)
(* only has the states of tool_invocations.                                   *)
THEOREM TypeCorrect == Spec => []TypeOK
<1>1. TInv => TypeOK
  BY DEF TInv
<1>2. QED
  BY <1>1, GovernanceInvariant, PTL

(* consume_approval gives a grant to one call, and to no call whose Run,      *)
(* arguments or policy version are not the grant's; a call under a policy     *)
(* that requires an approval is not started without one.                      *)
THEOREM GrantsAreSingleUse == Spec => []GrantBacksOneCall
<1>1. TInv => GrantBacksOneCall
  <2> SUFFICES ASSUME TInv, NEW c \in Calls
               PROVE  /\ Started(c) /\ Approval(c) => grant[c] # Nothing
                      /\ Held(c)
    BY DEF GrantBacksOneCall, Held
  <2>1. Started(c) => number[c] > 0
    BY DEF TInv, ExecutionRecorded
  <2>2. QED
    BY <2>1 DEF TInv, Stages, Stage, GrantsHeld
<1>2. QED
  BY <1>1, GovernanceInvariant, PTL

(* start and finish leave a row that says what became of the tool, whichever  *)
(* of the awaits of execute is the last one reached.                          *)
THEOREM ExecutionsAreRecorded == Spec => []ExecutionRecorded
<1>1. TInv => ExecutionRecorded
  BY DEF TInv
<1>2. QED
  BY <1>1, GovernanceInvariant, PTL

(* reserve_call numbers the calls of a Run 1, 2, 3 and so on, and stops at    *)
(* the limit of the policy.                                                   *)
THEOREM BudgetIsHonoured == Spec => []BudgetHonoured
<1>1. TInv => BudgetHonoured
  BY DEF TInv
<1>2. QED
  BY <1>1, GovernanceInvariant, PTL

(* The policy a call read at get_policy is the one in force when reserve_call *)
(* gives it a number: a policy activated in between, or a tool discovered to  *)
(* have changed, stops it.                                                    *)
THEOREM AuthorizationIsFresh == Spec => NoStaleAuthorization
<1> DEFINE Fresh == \A c \in Calls : number'[c] # number[c] =>
                      /\ Usable
                      /\ seen[c].version \in Allowing
                      /\ \A v \in Versions : IsActive(v) <=> v = seen[c].version
<1>1. ASSUME TInv, [Next]_vars PROVE Fresh
  <2> SUFFICES ASSUME NEW c \in Calls, number'[c] # number[c]
               PROVE  /\ Usable
                      /\ seen[c].version \in Allowing
                      /\ \A v \in Versions : IsActive(v) <=> v = seen[c].version
    OBVIOUS
  <2>1. Call(c)
    <3>1. PICK d \in Calls : Call(d)
      BY <1>1 DEF Next, Administer, Activate, Discover, Reconnect, UserChanges, IssueGrant,
                  Expire, Crash, governance, locals, vars
    <3>2. d = c
      BY <1>1, <3>1, CallFrame DEF Still, TInv
    <3>3. QED
      BY <3>1, <3>2
  <2>2. Reserve(c)
    BY <2>1 DEF Call, Begin, Resolve, ReadPolicy, Validate, Approve, Deny, StartInvocation,
                Execute, FinishInvocation, CancelCall, CancelDelivered, StoreFails, locals
  <2>3. CanReserve(c) /\ seen[c].version \in Allowing
    BY <1>1, <2>2 DEF Reserve, TInv, Stages, Stage
  <2>4. QED
    BY <1>1, <2>3 DEF CanReserve, TInv, OneActive
<1>2. QED
  BY <1>1, GovernanceInvariant, PTL DEF Spec, NoStaleAuthorization
=============================================================================
