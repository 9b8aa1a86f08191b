---------------------------- MODULE AccessProofs ----------------------------
(***************************************************************************)
(* Who gets in, and what goes out.  One grant makes one administrator, for    *)
(* any number of requests and any lifetime of a grant, and the commands       *)
(* around it keep to its steps; a session token is good once, for any number  *)
(* of tabs.  For any number of policies, orders, deliveries and calls, what   *)
(* is activated is what was reviewed, and nothing leaves that a policy in     *)
(* force did not allow; and a call to a model keeps its deadline, for every   *)
(* retry policy that the contract admits and every lateness of the timers.    *)
(***************************************************************************)
EXTENDS Installation, LoginSessions, ModelPolicies, ModelRetry, FiniteSetTheorems,
        SequenceTheorems, WellFoundedInduction, TLAPS

-----------------------------------------------------------------------------
(* The first administrator                                                    *)

States == {"none", "open", "revoked", "consumed"}

(* The part of the types that the argument uses.                              *)
GrantTypes ==
  /\ bootClock \in Nat
  /\ request \in [Requests -> [at : {"idle", "issue", "rotate", "validate", "create", "done", "refused"},
                               token : Requests \union {NoGrant}, now : Nat]]
  /\ grant \in [Requests -> [state : States, expires : Nat, by : Requests \union {NoGrant}]]
  /\ admins \subseteq Requests

(* A request past its first step presents an actual grant.                    *)
Presents ==
  \A r \in Requests : request[r].at \in {"validate", "create"} => request[r].token \in Requests

(* A grant is issued by the request it is named after, which is then done.    *)
IssuedOnce ==
  \A r \in Requests : request[r].at \in {"idle", "issue", "rotate", "validate", "create"} =>
    grant[r].state = "none" /\ r \notin admins

(* Once there is an administrator a grant is neither usable nor issued again. *)
ConsumedByAdmin ==
  /\ \A a \in admins :
       /\ request[a].at = "done"
       /\ request[a].token \in Requests
       /\ grant[request[a].token].state = "consumed"
       /\ grant[request[a].token].by = a
       /\ request[a].now < grant[request[a].token].expires
  /\ \A g \in Requests : grant[g].state = "consumed" => grant[g].by \in admins
  /\ admins # {} => \A g \in Requests : grant[g].state # "open"

OneOpen == \A g, h \in Requests : grant[g].state = "open" /\ grant[h].state = "open" => g = h

OneAdmin == \A a, b \in admins : a = b

BootInv == GrantTypes /\ Presents /\ IssuedOnce /\ ConsumedByAdmin /\ OneOpen /\ OneAdmin

-----------------------------------------------------------------------------
(* Nobody has asked for anything yet.                                         *)
LEMMA BootInvInit == BootInit => BootInv
  BY BootAssumption DEF BootInit, BootInv, GrantTypes, Presents, IssuedOnce, ConsumedByAdmin,
     OneOpen, OneAdmin, Idle, NotIssued, States

(* A request that only moves on: the grants and the administrators stay.      *)
LEMMA MovesKeep ==
  ASSUME BootInv, NEW r \in Requests, NEW new \in [at : {"issue", "rotate", "validate", "create", "refused"},
                               token : Requests \union {NoGrant}, now : Nat],
         request' = [request EXCEPT ![r] = new],
         UNCHANGED <<grant, admins>>, bootClock' \in Nat,
         request[r].at \in {"idle", "issue", "rotate", "validate", "create"},
         new.at \in {"validate", "create"} => new.token \in Requests
  PROVE  BootInv'
  BY DEF BootInv, GrantTypes, Presents, IssuedOnce, ConsumedByAdmin, OneOpen, OneAdmin

(* A request that asks for a grant presents none.                             *)
LEMMA AskGrantKeeps ==
  ASSUME BootInv, NEW r \in Requests, NEW await \in {"issue", "rotate"}, AskGrant(r, await)
  PROVE  BootInv'
  <1> DEFINE new == [at |-> await, token |-> NoGrant, now |-> bootClock]
  <1>1. /\ new \in [at : {"issue", "rotate", "validate", "create", "refused"},
                    token : Requests \union {NoGrant}, now : Nat]
        /\ new.at \notin {"validate", "create"}
    BY DEF BootInv, GrantTypes
  <1>2. request' = [request EXCEPT ![r] = new]
    BY DEF AskGrant
  <1>3. request[r].at = "idle" /\ bootClock' \in Nat
    BY DEF AskGrant, Idle, BootInv, GrantTypes
  <1> QED
    BY <1>1, <1>2, <1>3, MovesKeep DEF AskGrant

(* One that presents a grant presents one that was issued.                    *)
LEMMA AskAdminKeeps ==
  ASSUME BootInv, NEW r \in Requests, NEW g \in Requests, AskAdmin(r, g)
  PROVE  BootInv'
  <1> DEFINE new == [at |-> "validate", token |-> g, now |-> bootClock]
  <1>1. /\ new \in [at : {"issue", "rotate", "validate", "create", "refused"},
                    token : Requests \union {NoGrant}, now : Nat]
        /\ request' = [request EXCEPT ![r] = new]
        /\ request[r].at = "idle"
        /\ bootClock' \in Nat
    BY DEF AskAdmin, Idle, BootInv, GrantTypes
  <1> QED
    BY <1>1, MovesKeep DEF AskAdmin

(* A request that is refused, or that goes on to create.                      *)
LEMMA WaitsKeeps ==
  ASSUME BootInv, NEW r \in Requests, NEW await \in {"create", "refused"}, Waits(r, await),
         request[r].at \in {"issue", "rotate", "validate", "create"},
         await = "create" => request[r].at = "validate",
         UNCHANGED <<bootClock, grant, admins>>
  PROVE  BootInv'
  <1> DEFINE new == [request[r] EXCEPT !.at = await]
  <1>1. /\ new \in [at : {"issue", "rotate", "validate", "create", "refused"},
                    token : Requests \union {NoGrant}, now : Nat]
        /\ new.at = await /\ new.token = request[r].token
        /\ bootClock' \in Nat
    BY DEF BootInv, GrantTypes
  <1>2. request' = [request EXCEPT ![r] = new]
    BY DEF Waits, BootInv, GrantTypes
  <1>3. new.at \in {"validate", "create"} => new.token \in Requests
    BY <1>1 DEF BootInv, Presents
  <1> QED
    BY <1>1, <1>2, <1>3, MovesKeep

(* A new grant, in a table where no other is open.                            *)
LEMMA IssueKeeps ==
  ASSUME BootInv, NEW r \in Requests, NEW grants \in [Requests -> [state : States, expires : Nat,
                                                       by : Requests \union {NoGrant}]],
         admins = {}, admins' = {}, bootClock' = bootClock,
         request[r].at \in {"issue", "rotate"},
         \A g \in Requests : grants[g].state \notin {"open", "consumed"},
         \A g \in Requests : grants[g].state = "none" <=> grant[g].state = "none",
         grant' = Issued(grants, r), Waits(r, "done")
  PROVE  BootInv'
  <1> DEFINE due == request[r].now + GrantTTL
             new == [state |-> "open", expires |-> due, by |-> NoGrant]
  <1>0. due \in Nat
    BY BootAssumption DEF BootInv, GrantTypes
  <1>a. new \in [state : States, expires : Nat, by : Requests \union {NoGrant}]
    BY <1>0 DEF States
  <1>b. grant' = [grants EXCEPT ![r] = new]
    BY DEF Issued
  <1> HIDE DEF due, new
  <1>1. /\ grant' \in [Requests -> [state : States, expires : Nat, by : Requests \union {NoGrant}]]
        /\ grant'[r].state = "open"
        /\ \A g \in Requests \ {r} : grant'[g] = grants[g]
    BY <1>a, <1>b DEF new
  <1>c. request' = [request EXCEPT ![r] = [request[r] EXCEPT !.at = "done"]]
    BY DEF Waits
  <1>d. [request[r] EXCEPT !.at = "done"] \in
          [at : {"idle", "issue", "rotate", "validate", "create", "done", "refused"},
           token : Requests \union {NoGrant}, now : Nat]
    BY DEF BootInv, GrantTypes
  <1>2. /\ request' \in [Requests -> [at : {"idle", "issue", "rotate", "validate", "create", "done", "refused"},
                                      token : Requests \union {NoGrant}, now : Nat]]
        /\ request'[r].at = "done"
        /\ \A q \in Requests \ {r} : request'[q] = request[q]
    BY <1>c, <1>d DEF BootInv, GrantTypes
  <1>3. GrantTypes'
    BY <1>1, <1>2 DEF BootInv, GrantTypes
  <1>4. Presents'
    BY <1>2 DEF BootInv, Presents
  <1>5. IssuedOnce'
    BY <1>1, <1>2 DEF BootInv, IssuedOnce
  <1>6. ConsumedByAdmin'
    BY <1>1 DEF ConsumedByAdmin
  <1>7. OneOpen' /\ OneAdmin'
    BY <1>1 DEF OneOpen, OneAdmin
  <1> QED
    BY <1>3, <1>4, <1>5, <1>6, <1>7 DEF BootInv

(* The open grant is closed before the next is issued.                        *)
LEMMA RotateKeeps ==
  ASSUME BootInv, NEW r \in Requests, Rotate(r)
  PROVE  BootInv'
  <1> DEFINE grants == Revoked(grant)
  <1>1. grants \in [Requests -> [state : States, expires : Nat, by : Requests \union {NoGrant}]]
    <2> SUFFICES ASSUME NEW g \in Requests
                 PROVE  [grant[g] EXCEPT !.state = "revoked"]
                          \in [state : States, expires : Nat, by : Requests \union {NoGrant}]
      BY DEF Revoked, BootInv, GrantTypes
    <2> QED
      BY DEF BootInv, GrantTypes, States
  <1>2. \A g \in Requests : grants[g].state = IF grant[g].state = "open" THEN "revoked"
                                               ELSE grant[g].state
    BY DEF Revoked, BootInv, GrantTypes
  <1>3. \A g \in Requests : grants[g].state \notin {"open", "consumed"}
    BY <1>2 DEF Rotate, BootInv, ConsumedByAdmin
  <1>4. \A g \in Requests : grants[g].state = "none" <=> grant[g].state = "none"
    BY <1>2
  <1> HIDE DEF grants
  <1>5. /\ admins = {} /\ admins' = {} /\ bootClock' = bootClock
        /\ request[r].at \in {"issue", "rotate"}
        /\ grant' = Issued(grants, r) /\ Waits(r, "done")
    BY DEF Rotate, grants
  <1> QED
    BY <1>1, <1>3, <1>4, <1>5, IssueKeeps

(* The first grant is issued while there is none and no administrator.        *)
LEMMA IssueFirstKeeps ==
  ASSUME BootInv, NEW r \in Requests, IssueFirst(r)
  PROVE  BootInv'
  <1>1. /\ admins = {} /\ admins' = {} /\ bootClock' = bootClock
        /\ request[r].at \in {"issue", "rotate"}
        /\ \A g \in Requests : grant[g].state = "none"
        /\ grant' = Issued(grant, r) /\ Waits(r, "done")
        /\ grant \in [Requests -> [state : States, expires : Nat, by : Requests \union {NoGrant}]]
    BY DEF IssueFirst, BootInv, GrantTypes
  <1> QED
    BY <1>1, IssueKeeps

(* The one step that makes an administrator, and the only one that consumes.  *)
LEMMA CreateAdminKeeps ==
  ASSUME BootInv, NEW r \in Requests, CreateAdmin(r)
  PROVE  BootInv'
  <1> DEFINE g == request[r].token
  <1>0. request[r].at = "create" /\ g \in Requests /\ bootClock' = bootClock
    BY DEF CreateAdmin, BootInv, Presents
  <1>1. CASE Waits(r, "refused") /\ UNCHANGED <<admins, grant>>
    BY <1>0, <1>1, WaitsKeeps
  <1>2. CASE /\ Usable(g, request[r].now) /\ admins = {} /\ admins' = {r}
             /\ grant' = [grant EXCEPT ![g].state = "consumed", ![g].by = r]
             /\ Waits(r, "done")
    <2>1. /\ grant' \in [Requests -> [state : States, expires : Nat, by : Requests \union {NoGrant}]]
          /\ grant'[g].state = "consumed" /\ grant'[g].by = r
          /\ grant'[g].expires = grant[g].expires
          /\ \A h \in Requests \ {g} : grant'[h] = grant[h]
      BY <1>0, <1>2 DEF BootInv, GrantTypes, States
    <2>2. /\ request' \in [Requests -> [at : {"idle", "issue", "rotate", "validate", "create", "done", "refused"},
                                        token : Requests \union {NoGrant}, now : Nat]]
          /\ request'[r].at = "done" /\ request'[r].token = g /\ request'[r].now = request[r].now
          /\ \A q \in Requests \ {r} : request'[q] = request[q]
      BY <1>2 DEF Waits, BootInv, GrantTypes
    <2>3. grant[g].state = "open" /\ grant[g].expires > request[r].now
      BY <1>2 DEF Usable
    <2>4. GrantTypes'
      BY <1>0, <1>2, <2>1, <2>2 DEF BootInv, GrantTypes
    <2>5. Presents'
      BY <2>2 DEF BootInv, Presents
    <2>6. IssuedOnce'
      BY <1>0, <1>2, <2>1, <2>2, <2>3 DEF BootInv, IssuedOnce
    <2>7. request[r].now < grant[g].expires
      BY <1>0, <2>3 DEF BootInv, GrantTypes
    <2>8. \A h \in Requests : grant'[h].state # "open"
      BY <1>0, <2>1, <2>3 DEF BootInv, OneOpen
    <2>9. \A h \in Requests : grant'[h].state = "consumed" => h = g
      BY <1>2, <2>1 DEF BootInv, ConsumedByAdmin
    <2>10. ConsumedByAdmin'
      <3>1. \A h \in Requests : grant'[h].state = "consumed" => grant'[h].by \in admins'
        BY <1>2, <2>1, <2>9
      <3>2. ASSUME NEW a \in admins'
            PROVE  /\ request'[a].at = "done" /\ request'[a].token \in Requests
                   /\ grant'[request'[a].token].state = "consumed"
                   /\ grant'[request'[a].token].by = a
                   /\ request'[a].now < grant'[request'[a].token].expires
        <4>1. a = r /\ request'[a].token = g
          BY <1>2, <2>2
        <4> QED BY <1>0, <2>1, <2>2, <2>7, <4>1
      <3> QED BY <2>8, <3>1, <3>2 DEF ConsumedByAdmin
    <2>11. OneOpen' /\ OneAdmin'
      BY <1>2, <2>8 DEF OneOpen, OneAdmin
    <2> QED
      BY <2>4, <2>5, <2>6, <2>10, <2>11 DEF BootInv
  <1> QED
    BY <1>1, <1>2 DEF CreateAdmin

(* No step of the bootstrap breaks the invariant.                             *)
LEMMA BootInvNext == BootInv /\ [BootNext]_bootVars => BootInv'
  <1> SUFFICES ASSUME BootInv, [BootNext]_bootVars PROVE BootInv'
    OBVIOUS
  <1>1. ASSUME NEW r \in Requests, NEW await \in {"issue", "rotate"}, AskGrant(r, await)
        PROVE  BootInv'
    BY <1>1, AskGrantKeeps
  <1>2. ASSUME NEW r \in Requests, NEW g \in Requests, AskAdmin(r, g) PROVE BootInv'
    BY <1>2, AskAdminKeeps
  <1>3. ASSUME NEW r \in Requests, Rotate(r) PROVE BootInv'
    BY <1>3, RotateKeeps
  <1>4. ASSUME NEW r \in Requests, IssueFirst(r) PROVE BootInv'
    BY <1>4, IssueFirstKeeps
  <1>5. ASSUME NEW r \in Requests, IssueRefused(r) PROVE BootInv'
    BY <1>5, WaitsKeeps DEF IssueRefused
  <1>6. ASSUME NEW r \in Requests, ValidateGrant(r) PROVE BootInv'
    BY <1>6, WaitsKeeps DEF ValidateGrant
  <1>7. ASSUME NEW r \in Requests, CreateAdmin(r) PROVE BootInv'
    BY <1>7, CreateAdminKeeps
  <1>8. CASE BootTick
    BY <1>8 DEF BootTick, BootInv, GrantTypes, Presents, IssuedOnce, ConsumedByAdmin, OneOpen, OneAdmin
  <1>9. CASE UNCHANGED bootVars
    BY <1>9 DEF bootVars, BootInv, GrantTypes, Presents, IssuedOnce, ConsumedByAdmin, OneOpen, OneAdmin
  <1> QED
    BY <1>1, <1>2, <1>3, <1>4, <1>5, <1>6, <1>7, <1>8, <1>9 DEF BootNext

(* The invariant says what is promised.                                       *)
LEMMA BootInvImplies == BootInv => BootstrapOnce
  BY DEF BootInv, ConsumedByAdmin, OneOpen, OneAdmin, BootstrapOnce, Open

(* However many calls issue, rotate and create at once: one usable grant, one *)
(* administrator, and never one without the other having gone (issue_grant,   *)
(* create_admin).                                                             *)
THEOREM OneAdministrator == BootSpec => []BootstrapOnce
  <1>1. BootSpec => []BootInv
    BY BootInvInit, BootInvNext, PTL DEF BootSpec
  <1> QED
    BY <1>1, BootInvImplies, PTL

-----------------------------------------------------------------------------
(* The commands around the grant.  Only the command that made a configuration *)
(* fills it, a URL is that of a request, and what a request presents to become *)
(* administrator was printed.                                                  *)
CommandTypes ==
  /\ command \in [Requests -> {"idle", "create", "write", "ignore", "append", "load", "ask", "done"}]
  /\ shown \subseteq Requests

Filling == \A r \in Requests : command[r] = "write" => config.by = r /\ config.whole = FALSE

Printed ==
  \A r \in Requests : request[r].at \in {"validate", "create"} => request[r].token \in shown

InstallInv == BootInv /\ CommandTypes /\ Filling /\ Printed

(* Every step of a command is a step of the bootstrap, or leaves it alone.    *)
LEMMA CommandsKeepToBoot ==
  ASSUME CommandTypes, [InstallNext]_installVars
  PROVE  [BootNext]_bootVars
  <1>1. ASSUME NEW r \in Requests,
               PlanInit(r) \/ CreateConfig(r) \/ WriteConfig(r) \/ LookAtIgnore(r)
                 \/ AppendIgnore(r) \/ PrintUrl(r) \/ Stop(r)
        PROVE  UNCHANGED bootVars
    BY <1>1 DEF PlanInit, CreateConfig, WriteConfig, LookAtIgnore, AppendIgnore, PrintUrl, Stop
  <1>2. ASSUME NEW r \in Requests, LoadInstalled(r)
        PROVE  AskGrant(r, "issue") \/ UNCHANGED bootVars
    BY <1>2 DEF LoadInstalled
  <1>3. ASSUME NEW r \in Requests, AskRotation(r)
        PROVE  AskGrant(r, "rotate")
    BY <1>3 DEF AskRotation
  <1>4. ASSUME NEW r \in Requests, Grants(r)
        PROVE  Rotate(r) \/ IssueFirst(r) \/ IssueRefused(r)
    BY <1>4 DEF Grants
  <1>5. ASSUME NEW r \in Requests, Browse(r)
        PROVE  (\E g \in Requests : AskAdmin(r, g)) \/ ValidateGrant(r) \/ CreateAdmin(r)
    BY <1>5 DEF Browse, CommandTypes
  <1>6. OperatorWrites => UNCHANGED bootVars
    BY DEF OperatorWrites
  <1>7. UNCHANGED installVars => UNCHANGED bootVars
    BY DEF installVars
  <1> QED
    BY <1>1, <1>2, <1>3, <1>4, <1>5, <1>6, <1>7 DEF InstallNext, BootNext

(* No command runs and there is nothing installed.                            *)
LEMMA InstallInvInit == InstallInit => InstallInv
  BY BootInvInit DEF InstallInit, InstallInv, CommandTypes, Filling, Printed, BootInit, Idle

(* The configuration and the steps of the commands.                           *)
LEMMA CommandsKeep ==
  ASSUME InstallInv, [InstallNext]_installVars
  PROVE  CommandTypes' /\ Filling'
  <1>1. CommandTypes'
    BY DEF InstallInv, CommandTypes, InstallNext, installVars, PlanInit, CreateConfig, WriteConfig,
       LookAtIgnore, AppendIgnore, LoadInstalled, AskRotation, Grants, PrintUrl, Browse,
       OperatorWrites, Stop, Turns, fileVarsOfInit
  <1>2. ASSUME NEW r \in Requests, CreateConfig(r) PROVE Filling'
    <2>1. CASE config = NoConfig
      BY <1>2, <2>1, BootAssumption
      DEF InstallInv, CommandTypes, Filling, CreateConfig, Turns, NoConfig
    <2>2. CASE config # NoConfig
      BY <1>2, <2>2 DEF InstallInv, CommandTypes, Filling, CreateConfig, Turns
    <2> QED
      BY <2>1, <2>2
  <1>3. ASSUME NEW r \in Requests, WriteConfig(r) PROVE Filling'
    <2>1. \A q \in Requests : command[q] = "write" => q = r
      BY <1>3 DEF InstallInv, Filling, WriteConfig
    <2>2. \A q \in Requests : command'[q] # "write"
      BY <1>3, <2>1 DEF InstallInv, CommandTypes, WriteConfig, Turns
    <2> QED
      BY <2>2 DEF Filling
  <1>4. OperatorWrites => Filling'
    BY DEF Filling, OperatorWrites
  <1>5. ASSUME NEW r \in Requests,
               PlanInit(r) \/ LookAtIgnore(r) \/ AppendIgnore(r) \/ LoadInstalled(r)
                 \/ AskRotation(r) \/ PrintUrl(r) \/ Stop(r)
        PROVE  Filling'
    <2>1. UNCHANGED config /\ \E step \in {"create", "ignore", "append", "load", "ask", "done"} : Turns(r, step)
      BY <1>5 DEF PlanInit, LookAtIgnore, AppendIgnore, LoadInstalled, AskRotation, PrintUrl, Stop,
         fileVarsOfInit
    <2> QED
      BY <2>1 DEF InstallInv, CommandTypes, Filling, Turns
  <1>6. ASSUME NEW r \in Requests, Grants(r) \/ Browse(r) PROVE Filling'
    BY <1>6 DEF InstallInv, Filling, Grants, Browse, fileVarsOfInit
  <1>7. UNCHANGED <<config, command>> => Filling'
    BY DEF InstallInv, Filling
  <1> QED
    BY <1>1, <1>2, <1>3, <1>4, <1>5, <1>6, <1>7 DEF InstallNext, installVars, fileVarsOfInit

(* What a browser presents was printed before.                                *)
LEMMA PrintedKeeps ==
  ASSUME InstallInv, [InstallNext]_installVars
  PROVE  Printed'
  <1> USE DEF InstallInv, BootInv, GrantTypes
  <1>0. shown \subseteq shown'
    BY DEF InstallNext, installVars, PlanInit, CreateConfig, WriteConfig, LookAtIgnore, AppendIgnore,
       LoadInstalled, AskRotation, Grants, PrintUrl, Browse, OperatorWrites, Stop
  <1>1. ASSUME NEW r \in Requests, NEW await \in {"issue", "rotate"}, AskGrant(r, await) PROVE Printed'
    BY <1>0, <1>1 DEF Printed, AskGrant
  <1>2. ASSUME NEW r \in Requests, Grants(r) PROVE Printed'
    BY <1>0, <1>2 DEF Printed, Grants, Rotate, IssueFirst, IssueRefused, Waits
  <1>3. ASSUME NEW r \in Requests, Browse(r) PROVE Printed'
    <2>1. CASE \E g \in shown : AskAdmin(r, g)
      BY <1>0, <2>1 DEF Printed, AskAdmin
    <2>2. CASE ValidateGrant(r)
      BY <1>0, <2>2 DEF Printed, ValidateGrant, Waits
    <2>3. CASE CreateAdmin(r)
      BY <1>0, <2>3 DEF Printed, CreateAdmin, Waits
    <2> QED
      BY <1>3, <2>1, <2>2, <2>3 DEF Browse
  <1>4. UNCHANGED request => Printed'
    BY <1>0 DEF Printed
  <1>5. ASSUME NEW r \in Requests, LoadInstalled(r) \/ AskRotation(r) PROVE Printed'
    BY <1>1, <1>4, <1>5 DEF LoadInstalled, AskRotation, bootVars
  <1> QED
    BY <1>2, <1>3, <1>4, <1>5 DEF InstallNext, installVars, bootVars, PlanInit, CreateConfig, WriteConfig,
       LookAtIgnore, AppendIgnore, PrintUrl, OperatorWrites, Stop, BootTick

(* No command breaks the invariant.                                           *)
LEMMA InstallInvNext == InstallInv /\ [InstallNext]_installVars => InstallInv'
  BY CommandsKeepToBoot, BootInvNext, CommandsKeep, PrintedKeeps DEF InstallInv

(* Every step that the property speaks of.                                    *)
LEMMA StepKeepsInstalled ==
  ASSUME InstallInv, InstallNext
  PROVE  /\ config.whole /\ config.loads => config' = config
         /\ config.by # NoGrant /\ config'.by # config.by => config'.by = Operator
         /\ \A r \in Requests : command[r] # "ask" /\ command'[r] = "ask" => config.loads
         /\ \A a \in admins' \ admins : request[a].token \in shown
  <1>1. /\ config.whole /\ config.loads => config' = config
        /\ config.by # NoGrant /\ config'.by # config.by => config'.by = Operator
    <2>1. ASSUME NEW r \in Requests, CreateConfig(r)
          PROVE  (config = NoConfig /\ config.whole = FALSE /\ config.by = NoGrant) \/ config' = config
      BY <2>1 DEF CreateConfig, NoConfig
    <2>2. ASSUME NEW r \in Requests, WriteConfig(r)
          PROVE  config.whole = FALSE /\ config.by = r /\ config'.by = r
      BY <2>2 DEF WriteConfig, Rendered, InstallInv, Filling
    <2>3. OperatorWrites => config' = config \/ (~config.loads /\ config'.by = Operator)
      BY DEF OperatorWrites
    <2>4. ASSUME NEW r \in Requests,
                 PlanInit(r) \/ LookAtIgnore(r) \/ AppendIgnore(r) \/ LoadInstalled(r)
                   \/ AskRotation(r) \/ Grants(r) \/ PrintUrl(r) \/ Browse(r) \/ Stop(r)
          PROVE  config' = config
      BY <2>4 DEF PlanInit, LookAtIgnore, AppendIgnore, LoadInstalled, AskRotation, Grants,
         PrintUrl, Browse, Stop, fileVarsOfInit
    <2> QED
      BY <2>1, <2>2, <2>3, <2>4 DEF InstallNext, fileVarsOfInit
  <1>2. ASSUME NEW r \in Requests, command[r] # "ask", command'[r] = "ask"
        PROVE  config.loads
    <2>1. ASSUME NEW q \in Requests, LoadInstalled(q) \/ AskRotation(q), ~config.loads
          PROVE  command'[r] # "ask"
      BY <1>2, <2>1 DEF LoadInstalled, AskRotation, Loads, Turns, InstallInv, CommandTypes
    <2>2. ASSUME NEW q \in Requests,
                 PlanInit(q) \/ CreateConfig(q) \/ WriteConfig(q) \/ LookAtIgnore(q)
                   \/ AppendIgnore(q) \/ Grants(q) \/ PrintUrl(q) \/ Browse(q) \/ Stop(q)
          PROVE  command'[r] # "ask"
      BY <1>2, <2>2 DEF PlanInit, CreateConfig, WriteConfig, LookAtIgnore, AppendIgnore, Grants,
         PrintUrl, Browse, Stop, Turns, InstallInv, CommandTypes
    <2>3. OperatorWrites \/ UNCHANGED command => command'[r] # "ask"
      BY <1>2 DEF OperatorWrites
    <2> QED
      BY <1>2, <2>1, <2>2, <2>3 DEF InstallNext
  <1>3. ASSUME NEW a \in admins' \ admins
        PROVE  request[a].token \in shown
    <2>1. PICK r \in Requests : CreateAdmin(r) /\ admins' = {r} /\ Browse(r)
      BY <1>3 DEF InstallNext, PlanInit, CreateConfig, WriteConfig, LookAtIgnore, AppendIgnore,
         LoadInstalled, AskRotation, Grants, PrintUrl, Browse, OperatorWrites, Stop, BootTick, bootVars,
         AskGrant, AskAdmin, Rotate, IssueFirst, IssueRefused, ValidateGrant, CreateAdmin
    <2> QED
      BY <1>3, <2>1 DEF CreateAdmin, InstallInv, Printed
  <1> QED
    BY <1>1, <1>2, <1>3

(* Therefore it always holds.                                                 *)
LEMMA InstallInvAlways == InstallSpec => []InstallInv
  BY InstallInvInit, InstallInvNext, PTL DEF InstallSpec

(* The commands implement the bootstrap: everything they and the browser do   *)
(* to grants and administrators is a step of it, wherever one of them stops.  *)
THEOREM CommandsImplementBootstrap == InstallSpec => BootSpec
  <1>1. InstallInit => BootInit
    BY DEF InstallInit
  <1>2. InstallInv /\ [InstallNext]_installVars => [BootNext]_bootVars
    BY CommandsKeepToBoot DEF InstallInv
  <1> QED
    BY <1>1, <1>2, InstallInvAlways, PTL DEF InstallSpec, BootSpec

(* Nothing that was installed is written over, and there is no grant without  *)
(* a configuration, nor an administrator without a URL, for any number of     *)
(* overlapping commands (apply, init_command).                                *)
THEOREM InstallationIsKept == InstallSpec => InstalledStays
  <1>1. InstallInv /\ [InstallNext]_installVars =>
          [ /\ config.whole /\ config.loads => config' = config
            /\ config.by # NoGrant /\ config'.by # config.by => config'.by = Operator
            /\ \A r \in Requests : command[r] # "ask" /\ command'[r] = "ask" => config.loads
            /\ \A a \in admins' \ admins : request[a].token \in shown ]_installVars
    BY StepKeepsInstalled
  <1> QED
    BY <1>1, InstallInvAlways, PTL DEF InstallSpec, InstalledStays

-----------------------------------------------------------------------------
(* Login sessions                                                             *)

TabRecords ==
  [at : {"rest", "find", "insert", "authenticate", "viewed", "rotate", "logout"},
   op : {"none", "login", "view", "rotate", "logout"}, token : Nat, session : Nat, now : Nat,
   rehash : BOOLEAN, before : SUBSET Nat, source : Sources \union {0}]
SessionRecords ==
  [state : {"none", "active", "revoked", "expired"}, token : Nat, created : Nat, expires : Nat]
SpentRecords == [token : Nat, session : Tokens, op : {"rotate", "logout"}]

LoginTypes ==
  /\ loginClock \in Nat
  /\ drawn \in 0..MaxTokens /\ held \subseteq 1..drawn
  /\ tab \in [Tabs -> TabRecords]
  /\ session \in [Tokens -> SessionRecords]
  /\ spent \in Seq(SpentRecords)

(* A login that was let in has a token that nobody was answered yet.          *)
FreshOf(new) ==
  new.at = "insert" => new.token \in (1..drawn) \ held /\ session[new.token].state = "none"

(* What a request knew spent is spent; past its check, it has a session that  *)
(* was inserted, which had not run out, and its token was not known spent.    *)
AskedOf(new) == new.at = "authenticate" => new.before \subseteq SpentTokens /\ new.op \in {"view", "rotate", "logout"}
CheckedOf(new) ==
  new.at \in {"viewed", "rotate", "logout"} =>
    /\ new.session \in Tokens /\ session[new.session].state # "none"
    /\ new.token \notin new.before
    /\ new.now < session[new.session].expires

TabsKeep == \A t \in Tabs : FreshOf(tab[t]) /\ AskedOf(tab[t]) /\ CheckedOf(tab[t])

(* Two logins never have one token.                                           *)
FreshApart ==
  \A t, u \in Tabs :
    tab[t].at = "insert" /\ tab[u].at = "insert" /\ tab[t].token = tab[u].token => t = u

(* A session that was inserted has a token that was answered, and its time.   *)
SessionsKeep ==
  \A s \in Tokens : session[s].state # "none" =>
    s \in held /\ session[s].token \in held /\ session[s].expires = session[s].created + SessionTTL

SessionsApart ==
  \A s, r \in Tokens :
    session[s].state = "active" /\ session[r].state = "active" /\ session[s].token = session[r].token
      => s = r

(* A spent token was answered, is spent once, and opens no active session.    *)
SpentKeeps ==
  \A i \in DOMAIN spent :
    /\ spent[i].token \in held
    /\ session[spent[i].session].state # "none"
    /\ spent[i].op = "logout" => session[spent[i].session].state = "revoked"
    /\ \A s \in Tokens : session[s].state = "active" => session[s].token # spent[i].token
SpentOnce == \A i, j \in DOMAIN spent : spent[i].token = spent[j].token => i = j

LoginInv ==
  LoginTypes /\ TabsKeep /\ FreshApart /\ SessionsKeep /\ SessionsApart /\ SpentKeeps /\ SpentOnce

-----------------------------------------------------------------------------
(* What a flag is not is a flag, whatever it holds.                           *)
LEMMA NotBoolean == ASSUME NEW b PROVE (~b) \in BOOLEAN
  <1>1. ((~b) = TRUE) \/ ((~b) = FALSE)
    BY SMT
  <1>2. \A x : x = TRUE \/ x = FALSE => x \in BOOLEAN
    BY Zenon
  <1> QED
    BY <1>1, <1>2, Zenon

(* The types of one entry of the ledger and of one session.                   *)
LEMMA SpentTyped == LoginTypes => \A i \in DOMAIN spent : spent[i] \in SpentRecords
  <1> SUFFICES ASSUME LoginTypes, NEW i \in DOMAIN spent PROVE spent[i] \in SpentRecords
    OBVIOUS
  <1>1. spent \in Seq(SpentRecords)
    BY DEF LoginTypes
  <1>2. i \in 1..Len(spent)
    BY <1>1
  <1> QED
    BY <1>1, <1>2

(* Spent tokens are tokens.                                                   *)
LEMMA SpentAreNumbers == LoginTypes => SpentTokens \in SUBSET Nat
  BY SpentTyped DEF SpentTokens, SpentRecords

(* Nothing was asked yet.                                                     *)
LEMMA LoginInvInit == LoginInit => LoginInv
  <1> SUFFICES ASSUME LoginInit PROVE LoginInv
    OBVIOUS
  <1>1. Resting \in TabRecords
    BY DEF Resting, TabRecords
  <1>2. NoSession \in SessionRecords
    BY DEF NoSession, SessionRecords
  <1>b. /\ loginClock \in Nat /\ drawn \in 0..MaxTokens /\ held \subseteq 1..drawn
        /\ tab \in [Tabs -> TabRecords] /\ session \in [Tokens -> SessionRecords]
        /\ spent \in Seq(SpentRecords)
    BY <1>1, <1>2, LoginAssumption DEF LoginInit
  <1>3. LoginTypes
    BY <1>b DEF LoginTypes
  <1>4. TabsKeep /\ FreshApart
    BY DEF LoginInit, TabsKeep, FreshApart, FreshOf, AskedOf, CheckedOf, Resting
  <1>5. SessionsKeep /\ SessionsApart /\ SpentKeeps /\ SpentOnce
    BY DEF LoginInit, SessionsKeep, SessionsApart, SpentKeeps, SpentOnce, NoSession
  <1> QED
    BY <1>3, <1>4, <1>5 DEF LoginInv

(* A tab that moves on while the tokens and the sessions stay.                *)
LEMMA TabMoves ==
  ASSUME LoginInv, NEW t \in Tabs, NEW new \in TabRecords,
         tab' = [tab EXCEPT ![t] = new], UNCHANGED <<drawn, held, session, spent>>,
         new.at # "insert", AskedOf(new), CheckedOf(new),
         loginClock' \in Nat
  PROVE  LoginInv'
  <1>1. LoginTypes'
    BY DEF LoginInv, LoginTypes
  <1>2. \A u \in Tabs : tab'[u] = IF u = t THEN new ELSE tab[u]
    BY DEF LoginInv, LoginTypes
  <1>3. TabsKeep'
    BY <1>2 DEF LoginInv, TabsKeep, FreshOf, AskedOf, CheckedOf, SpentTokens
  <1>4. FreshApart'
    BY <1>2 DEF LoginInv, FreshApart
  <1>5. SessionsKeep' /\ SessionsApart' /\ SpentKeeps' /\ SpentOnce'
    BY DEF LoginInv, SessionsKeep, SessionsApart, SpentKeeps, SpentOnce
  <1> QED
    BY <1>1, <1>3, <1>4, <1>5 DEF LoginInv

(* A tab that rests.                                                          *)
LEMMA RestMoves ==
  Resting \in TabRecords /\ Resting.at = "rest" /\ AskedOf(Resting) /\ CheckedOf(Resting)
  BY DEF Resting, TabRecords, AskedOf, CheckedOf

(* A login starts with no token.                                              *)
LEMMA SignInKeeps ==
  ASSUME LoginInv, NEW t \in Tabs, NEW source \in Sources, SignIn(t, source)
  PROVE  LoginInv'
  <1> DEFINE new == [Resting EXCEPT !.at = "find", !.op = "login",
                                    !.now = loginClock, !.source = source]
  <1>1. new \in TabRecords /\ new.at = "find" /\ AskedOf(new) /\ CheckedOf(new)
    BY DEF Resting, TabRecords, AskedOf, CheckedOf, LoginInv, LoginTypes
  <1>2. loginClock' \in Nat /\ UNCHANGED <<drawn, held, session, spent>>
    BY DEF SignIn, LoginInv, LoginTypes
  <1>3. \/ tab' = [tab EXCEPT ![t] = new]
        \/ UNCHANGED tab
    BY DEF SignIn
  <1>4. CASE tab' = [tab EXCEPT ![t] = new]
    <2> HIDE DEF new
    <2> QED BY <1>1, <1>2, <1>4, TabMoves
  <1>5. CASE UNCHANGED tab
    BY <1>2, <1>5 DEF LoginInv, LoginTypes, TabsKeep, FreshApart, FreshOf, AskedOf, CheckedOf, SpentTokens,
      SessionsKeep, SessionsApart, SpentKeeps, SpentOnce
  <1> QED
    BY <1>3, <1>4, <1>5

(* A login that is let in draws a token that nobody has.                      *)
LEMMA FindIdentityKeeps ==
  ASSUME LoginInv, NEW t \in Tabs, NEW right \in BOOLEAN, FindIdentity(t, right)
  PROVE  LoginInv'
  <1>1. CASE Rests(t) /\ drawn' = drawn
    BY <1>1, RestMoves, TabMoves DEF FindIdentity, Rests, LoginInv, LoginTypes
  <1>2. CASE /\ drawn < MaxTokens /\ drawn' = drawn + 1
             /\ tab' = [tab EXCEPT ![t].at = "insert", ![t].token = drawn + 1, ![t].rehash = ~hashed]
    <2> DEFINE new == [tab[t] EXCEPT !.at = "insert", !.token = drawn + 1, !.rehash = ~hashed]
    <2>a. (~hashed) \in BOOLEAN
      BY NotBoolean
    <2>b. drawn + 1 \in Nat /\ tab[t] \in TabRecords
      BY DEF LoginInv, LoginTypes
    <2>c. new \in TabRecords
      BY <2>a, <2>b, Zenon DEF TabRecords
    <2>1. /\ new \in TabRecords /\ new.at = "insert" /\ new.token = drawn + 1
          /\ tab' = [tab EXCEPT ![t] = new]
      BY <1>2, <2>b, <2>c DEF LoginInv, LoginTypes, TabRecords
    <2> HIDE DEF new
    <2>2. UNCHANGED <<loginClock, session, held, spent>>
      BY DEF FindIdentity
    <2>3. \A u \in Tabs : tab'[u] = IF u = t THEN new ELSE tab[u]
      BY <2>1 DEF LoginInv, LoginTypes
    <2>3a. drawn' \in 0..MaxTokens /\ held' \subseteq 1..drawn'
      BY <1>2, <2>2, LoginAssumption DEF LoginInv, LoginTypes
    <2>4. LoginTypes'
      BY <2>1, <2>2, <2>3a DEF LoginInv, LoginTypes
    <2>5. session[drawn + 1].state = "none"
      BY <1>2, LoginAssumption DEF LoginInv, LoginTypes, SessionsKeep, SessionRecords, Tokens
    <2>6. TabsKeep'
      BY <1>2, <2>1, <2>2, <2>3, <2>5 DEF LoginInv, LoginTypes, TabsKeep, FreshOf, AskedOf, CheckedOf, SpentTokens
    <2>7. FreshApart'
      BY <1>2, <2>1, <2>3 DEF LoginInv, LoginTypes, TabsKeep, FreshApart, FreshOf
    <2>8. SessionsKeep' /\ SessionsApart' /\ SpentKeeps' /\ SpentOnce'
      BY <2>2 DEF LoginInv, SessionsKeep, SessionsApart, SpentKeeps, SpentOnce
    <2> QED
      BY <2>4, <2>6, <2>7, <2>8 DEF LoginInv
  <1> QED
    BY <1>1, <1>2 DEF FindIdentity

(* The token is answered with the session; sessions that ran out expire with it.*)
LEMMA CreateSessionKeeps ==
  ASSUME LoginInv, NEW t \in Tabs, CreateSession(t)
  PROVE  LoginInv'
  <1> DEFINE n == tab[t].token
             entry(s) == IF s = n
               THEN [state |-> "active", token |-> s, created |-> tab[t].now,
                     expires |-> tab[t].now + SessionTTL]
               ELSE IF session[s].state = "active" /\ session[s].expires <= tab[t].now
                 THEN [session[s] EXCEPT !.state = "expired"]
               ELSE session[s]
  <1>1. /\ n \in (1..drawn) \ held /\ n \in Tokens /\ session[n].state = "none"
        /\ tab[t].now \in Nat /\ tab[t].at = "insert"
    BY LoginAssumption
    DEF CreateSession, LoginInv, LoginTypes, TabsKeep, FreshOf, TabRecords, Tokens
  <1>2. /\ session' = [s \in Tokens |-> entry(s)]
        /\ held' = held \union {n}
        /\ tab' = [tab EXCEPT ![t] = Resting]
        /\ UNCHANGED <<loginClock, drawn, spent>>
    BY DEF CreateSession, Rests
  <1>3. \A s \in Tokens : entry(s) \in SessionRecords
    <2> TAKE s \in Tokens
    <2>1. s \in Nat /\ tab[t].now + SessionTTL \in Nat /\ session[s] \in SessionRecords
      BY <1>1, LoginAssumption DEF LoginInv, LoginTypes, Tokens
    <2> QED
      BY <1>1, <2>1 DEF SessionRecords
  <1>4. \A u \in Tabs : tab'[u] = IF u = t THEN Resting ELSE tab[u]
    BY <1>2 DEF LoginInv, LoginTypes
  <1>5. /\ \A s \in Tokens \ {n} :
             /\ session'[s].token = session[s].token
             /\ session'[s].created = session[s].created
             /\ session'[s].expires = session[s].expires
             /\ session'[s].state = "none" <=> session[s].state = "none"
             /\ session'[s].state = "active" => session[s].state = "active"
             /\ session[s].state = "revoked" => session'[s].state = "revoked"
        /\ session'[n].state = "active" /\ session'[n].token = n
        /\ session'[n].expires = session'[n].created + SessionTTL
    BY <1>1, <1>2 DEF LoginInv, LoginTypes, SessionRecords
  <1>6. LoginTypes'
    BY <1>1, <1>2, <1>3, RestMoves DEF LoginInv, LoginTypes
  <1> HIDE DEF n, entry
  <1>7. SpentTokens' = SpentTokens
    BY <1>2 DEF SpentTokens
  <1>8. TabsKeep'
    <2> SUFFICES ASSUME NEW u \in Tabs, u # t
                 PROVE  FreshOf(tab[u])' /\ AskedOf(tab[u])' /\ CheckedOf(tab[u])'
      BY <1>4 DEF TabsKeep, FreshOf, AskedOf, CheckedOf, Resting
    <2>1. tab'[u] = tab[u]
      BY <1>4
    <2>2. FreshOf(tab[u])'
      <3>1. tab[u].at = "insert" => tab[u].token # n
        BY <1>1 DEF LoginInv, FreshApart, n
      <3>2. (1..drawn) \subseteq Tokens
        BY LoginAssumption DEF LoginInv, LoginTypes, Tokens
      <3> QED
        BY <2>1, <3>1, <3>2, <1>5, <1>2 DEF LoginInv, TabsKeep, FreshOf
    <2>3. AskedOf(tab[u])'
      BY <2>1, <1>7 DEF LoginInv, TabsKeep, AskedOf
    <2>4. CheckedOf(tab[u])'
      <3>1. tab[u].at \in {"viewed", "rotate", "logout"} => tab[u].session # n
        BY <1>1 DEF LoginInv, TabsKeep, CheckedOf
      <3> QED
        BY <2>1, <3>1, <1>5 DEF LoginInv, TabsKeep, CheckedOf
    <2> QED
      BY <2>2, <2>3, <2>4
  <1>9. FreshApart'
    BY <1>4 DEF LoginInv, FreshApart, Resting
  <1>10. SessionsKeep'
    BY <1>1, <1>2, <1>5 DEF LoginInv, SessionsKeep
  <1>11. SessionsApart'
    BY <1>1, <1>2, <1>5 DEF LoginInv, SessionsKeep, SessionsApart
  <1>12. SpentKeeps' /\ SpentOnce'
    <2>1. \A i \in DOMAIN spent : spent[i].session \in Tokens
      BY SpentTyped DEF LoginInv, SpentRecords
    <2>2. SpentKeeps'
      <3> SUFFICES ASSUME NEW i \in DOMAIN spent
                   PROVE  /\ spent[i].token \in held'
                          /\ session'[spent[i].session].state # "none"
                          /\ spent[i].op = "logout" => session'[spent[i].session].state = "revoked"
                          /\ \A s \in Tokens : session'[s].state = "active" => session'[s].token # spent[i].token
        BY <1>2 DEF SpentKeeps
      <3>1. spent[i].token \in held /\ spent[i].session \in Tokens \ {n}
        BY <2>1, <1>1 DEF LoginInv, SpentKeeps
      <3>2. /\ session[spent[i].session].state # "none"
            /\ spent[i].op = "logout" => session[spent[i].session].state = "revoked"
            /\ \A s \in Tokens : session[s].state = "active" => session[s].token # spent[i].token
        BY DEF LoginInv, SpentKeeps
      <3>3. \A s \in Tokens : session'[s].state = "active" => session'[s].token # spent[i].token
        BY <3>1, <3>2, <1>1, <1>5
      <3> QED
        BY <3>1, <3>2, <3>3, <1>2, <1>5
    <2>3. SpentOnce'
      BY <1>2 DEF LoginInv, SpentOnce
    <2> QED
      BY <2>2, <2>3
  <1> QED
    BY <1>6, <1>8, <1>9, <1>10, <1>11, <1>12 DEF LoginInv

(* The request knows what is spent at that moment.                            *)
LEMMA AskKeeps ==
  ASSUME LoginInv, NEW t \in Tabs, NEW op \in {"view", "rotate", "logout"}, NEW token \in Tokens,
         Ask(t, op, token)
  PROVE  LoginInv'
  <1> DEFINE new == [Resting EXCEPT !.at = "authenticate", !.op = op, !.token = token,
                                    !.now = loginClock, !.before = SpentTokens]
  <1>1. SpentTokens \in SUBSET Nat
    BY SpentAreNumbers DEF LoginInv
  <1>2. token \in Nat /\ loginClock \in Nat
    BY LoginAssumption DEF LoginInv, LoginTypes, Tokens
  <1>3. /\ new \in TabRecords /\ new.at = "authenticate" /\ new.op = op /\ new.before = SpentTokens
    BY <1>1, <1>2 DEF Resting, TabRecords
  <1>4. tab' = [tab EXCEPT ![t] = new] /\ UNCHANGED <<loginClock, drawn, held, session, spent>>
    BY DEF Ask
  <1> HIDE DEF new
  <1>5. AskedOf(new) /\ CheckedOf(new)
    BY <1>3 DEF AskedOf, CheckedOf
  <1> QED
    BY <1>2, <1>3, <1>4, <1>5, TabMoves

(* A request goes on only with a session that is active and has not run out.  *)
LEMMA AuthenticateKeeps ==
  ASSUME LoginInv, NEW t \in Tabs, NEW csrf \in BOOLEAN, Authenticate(t, csrf)
  PROVE  LoginInv'
  <1> DEFINE found == {s \in Tokens : session[s].state = "active" /\ session[s].token = tab[t].token}
             live == {s \in found : session[s].expires > tab[t].now}
             entry(s) == IF s \in found \ live THEN [session[s] EXCEPT !.state = "expired"]
                         ELSE session[s]
  <1>1. /\ tab[t] \in TabRecords /\ tab[t].at = "authenticate"
        /\ AskedOf(tab[t])
    BY DEF Authenticate, LoginInv, LoginTypes, TabsKeep
  <1>2. /\ session' = [s \in Tokens |-> entry(s)]
        /\ UNCHANGED <<loginClock, drawn, held, spent>>
    BY DEF Authenticate
  <1>3. \E new \in TabRecords :
          /\ tab' = [tab EXCEPT ![t] = new]
          /\ \/ new.at = "rest"
             \/ /\ new.at \in {"viewed", "rotate", "logout"}
                /\ new.session \in live /\ new.token = tab[t].token
                /\ new.before = tab[t].before /\ new.now = tab[t].now
    <2>1. CASE Rests(t)
      BY <2>1, RestMoves DEF Rests
    <2>2. CASE \E s \in live : tab' = [tab EXCEPT ![t].session = s, ![t].at =
                                         IF tab[t].op = "view" THEN "viewed" ELSE tab[t].op]
      <3>1. PICK s \in live : tab' = [tab EXCEPT ![t].session = s, ![t].at =
                                        IF tab[t].op = "view" THEN "viewed" ELSE tab[t].op]
        BY <2>2
      <3> DEFINE new == [tab[t] EXCEPT !.session = s,
                                       !.at = IF tab[t].op = "view" THEN "viewed" ELSE tab[t].op]
      <3>2. s \in Nat
        BY LoginAssumption DEF Tokens
      <3>3. new \in TabRecords
        BY <1>1, <3>2 DEF TabRecords, AskedOf
      <3>4. /\ tab' = [tab EXCEPT ![t] = new]
            /\ new.at \in {"viewed", "rotate", "logout"}
            /\ new.session = s /\ new.token = tab[t].token
            /\ new.before = tab[t].before /\ new.now = tab[t].now
        BY <1>1, <3>1 DEF TabRecords, AskedOf, LoginInv, LoginTypes
      <3> QED
        BY <3>3, <3>4
    <2> QED
      BY <2>1, <2>2 DEF Authenticate
  <1>4. PICK new \in TabRecords :
          /\ tab' = [tab EXCEPT ![t] = new]
          /\ \/ new.at = "rest"
             \/ /\ new.at \in {"viewed", "rotate", "logout"}
                /\ new.session \in live /\ new.token = tab[t].token
                /\ new.before = tab[t].before /\ new.now = tab[t].now
    BY <1>3
  <1>5. \A s \in Tokens :
             /\ entry(s) \in SessionRecords
             /\ session'[s].token = session[s].token
             /\ session'[s].created = session[s].created
             /\ session'[s].expires = session[s].expires
             /\ session'[s].state = "none" <=> session[s].state = "none"
             /\ session'[s].state = "active" => session[s].state = "active"
             /\ session[s].state = "revoked" => session'[s].state = "revoked"
    BY <1>2 DEF LoginInv, LoginTypes, SessionRecords
  <1>6. \A u \in Tabs : tab'[u] = IF u = t THEN new ELSE tab[u]
    BY <1>4 DEF LoginInv, LoginTypes
  <1>7. LoginTypes'
    BY <1>2, <1>4, <1>5 DEF LoginInv, LoginTypes
  <1>8. \A s \in live : /\ s \in Tokens /\ session[s].state = "active"
                        /\ session[s].token = tab[t].token /\ session[s].expires > tab[t].now
    OBVIOUS
  <1> HIDE DEF found, live, entry
  <1>9. (1..drawn) \subseteq Tokens
    BY LoginAssumption DEF LoginInv, LoginTypes, Tokens
  <1>10. tab[t].token \notin SpentTokens \/ live = {}
    BY <1>8 DEF LoginInv, SpentKeeps, SpentTokens
  <1>11. TabsKeep'
    <2>1. CheckedOf(new)'
      <3> SUFFICES ASSUME new.at # "rest" PROVE CheckedOf(new)'
        BY DEF CheckedOf
      <3>1. new.session \in live /\ new.token \notin new.before /\ new.now = tab[t].now
        BY <1>1, <1>4, <1>10 DEF AskedOf
      <3>2. /\ new.session \in Tokens /\ session[new.session].state = "active"
            /\ new.now < session[new.session].expires
        BY <3>1, <1>1, <1>8 DEF LoginInv, LoginTypes, SessionRecords, TabRecords
      <3> QED
        BY <3>1, <3>2, <1>5 DEF CheckedOf
    <2>2. FreshOf(new)' /\ AskedOf(new)'
      BY <1>4 DEF FreshOf, AskedOf
    <2> SUFFICES ASSUME NEW u \in Tabs, u # t
                 PROVE  FreshOf(tab[u])' /\ AskedOf(tab[u])' /\ CheckedOf(tab[u])'
      BY <1>6, <2>1, <2>2 DEF TabsKeep, FreshOf, AskedOf, CheckedOf
    <2>3. tab'[u] = tab[u] /\ FreshOf(tab[u]) /\ AskedOf(tab[u]) /\ CheckedOf(tab[u])
      BY <1>6 DEF LoginInv, TabsKeep
    <2>4. FreshOf(tab[u])'
      BY <2>3, <1>2, <1>5, <1>9 DEF FreshOf
    <2>5. AskedOf(tab[u])'
      BY <2>3, <1>2 DEF AskedOf, SpentTokens
    <2>6. CheckedOf(tab[u])'
      BY <2>3, <1>5 DEF CheckedOf
    <2> QED
      BY <2>4, <2>5, <2>6
  <1>12. FreshApart'
    BY <1>4, <1>6 DEF LoginInv, FreshApart
  <1>13. SessionsKeep' /\ SessionsApart'
    BY <1>2, <1>5 DEF LoginInv, SessionsKeep, SessionsApart
  <1>14. SpentKeeps'
    <2>1. \A i \in DOMAIN spent : spent[i].session \in Tokens
      BY SpentTyped DEF LoginInv, SpentRecords
    <2> QED
      BY <2>1, <1>2, <1>5 DEF LoginInv, SpentKeeps
  <1>15. SpentOnce'
    BY <1>2 DEF LoginInv, SpentOnce
  <1> QED
    BY <1>7, <1>11, <1>12, <1>13, <1>14, <1>15 DEF LoginInv

(* A view answers and changes nothing.                                        *)
LEMMA ViewedKeeps == ASSUME LoginInv, NEW t \in Tabs, Viewed(t) PROVE LoginInv'
  BY RestMoves, TabMoves DEF Viewed, Rests, LoginInv, LoginTypes

(* The token of a session that is still the one that was checked is spent: it *)
(* was not spent before, and the session goes on with a new one or not at all.*)
LEMMA SpendKeeps ==
  ASSUME LoginInv, NEW t \in Tabs, NEW op \in {"rotate", "logout"}, NEW q, q = tab[t].session,
         tab[t].at \in {"rotate", "logout"}, StillMine(t), Rests(t),
         spent' = Append(spent, [token |-> tab[t].token, session |-> q, op |-> op]),
         loginClock' = loginClock,
         session' \in [Tokens -> SessionRecords],
         \A s \in Tokens \ {q} : session'[s] = session[s],
         session'[q].expires = session[q].expires, session'[q].created = session[q].created,
         session'[q].state # "none", op = "logout" => session'[q].state = "revoked",
         session'[q].token \in held', session'[q].state = "active" => session'[q].token \notin held,
         drawn' \in drawn..MaxTokens, held \subseteq held', held' \subseteq 1..drawn',
         (held' \ held) \cap (1..drawn) = {}
  PROVE  LoginInv'
  <1> DEFINE entry == [token |-> tab[t].token, session |-> q, op |-> op]
  <1>1. /\ tab[t] \in TabRecords /\ q \in Tokens
        /\ session[q].state = "active" /\ session[q].token = tab[t].token
    BY DEF LoginInv, LoginTypes, TabsKeep, CheckedOf, StillMine
  <1>2. entry \in SpentRecords /\ entry.token = tab[t].token /\ entry.session = q /\ entry.op = op
    BY <1>1 DEF SpentRecords, TabRecords
  <1> HIDE DEF entry
  <1>3. spent \in Seq(SpentRecords) /\ spent' = Append(spent, entry)
    BY DEF LoginInv, LoginTypes, entry
  <1>4. /\ spent' \in Seq(SpentRecords)
        /\ DOMAIN spent' = 1..(Len(spent) + 1) /\ DOMAIN spent = 1..Len(spent) /\ Len(spent) \in Nat
        /\ \A i \in DOMAIN spent : spent'[i] = spent[i]
        /\ spent'[Len(spent) + 1] = entry
    BY <1>2, <1>3
  <1>5. \A i \in DOMAIN spent' : \/ i \in DOMAIN spent /\ spent'[i] = spent[i]
                                 \/ i = Len(spent) + 1 /\ i \notin DOMAIN spent /\ spent'[i] = entry
    <2>1. \A n \in Nat : \A i \in 1..(n + 1) : i \in 1..n \/ (i = n + 1 /\ i \notin 1..n)
      OBVIOUS
    <2> QED
      BY <1>4, <2>1, Zenon
  <1>6. SpentTokens \subseteq SpentTokens'
    BY <1>4 DEF SpentTokens
  <1>7. \A u \in Tabs : tab'[u] = IF u = t THEN Resting ELSE tab[u]
    BY DEF Rests, LoginInv, LoginTypes
  <1>8. LoginTypes'
    BY <1>4, RestMoves, LoginAssumption DEF Rests, LoginInv, LoginTypes
  <1>9. \A s \in Tokens : /\ session'[s].expires = session[s].expires
                          /\ session[s].state # "none" => session'[s].state # "none"
                          /\ session[s].state = "none" => session'[s].state = "none"
    BY <1>1
  <1>10. TabsKeep'
    <2> SUFFICES ASSUME NEW u \in Tabs, u # t
                 PROVE  FreshOf(tab[u])' /\ AskedOf(tab[u])' /\ CheckedOf(tab[u])'
      BY <1>7 DEF TabsKeep, FreshOf, AskedOf, CheckedOf, Resting
    <2>1. tab'[u] = tab[u] /\ FreshOf(tab[u]) /\ AskedOf(tab[u]) /\ CheckedOf(tab[u])
      BY <1>7 DEF LoginInv, TabsKeep
    <2>2. (1..drawn) \ held \subseteq (1..drawn') \ held' /\ 1..drawn \subseteq Tokens
      BY LoginAssumption DEF LoginInv, LoginTypes, Tokens
    <2>3. FreshOf(tab[u])'
      BY <2>1, <2>2, <1>9 DEF FreshOf
    <2>4. AskedOf(tab[u])'
      BY <2>1, <1>6 DEF AskedOf
    <2>5. CheckedOf(tab[u])'
      BY <2>1, <1>9 DEF CheckedOf
    <2> QED
      BY <2>3, <2>4, <2>5
  <1>11. FreshApart'
    BY <1>7 DEF LoginInv, FreshApart, Resting
  <1>12. SessionsKeep'
    <2> SUFFICES ASSUME NEW s \in Tokens, session'[s].state # "none"
                 PROVE  /\ s \in held' /\ session'[s].token \in held'
                        /\ session'[s].expires = session'[s].created + SessionTTL
      BY DEF SessionsKeep
    <2>1. /\ s \in held /\ session[s].token \in held
          /\ session[s].expires = session[s].created + SessionTTL
      BY <1>9 DEF LoginInv, SessionsKeep
    <2>2. CASE s = q
      BY <2>1, <2>2
    <2>3. CASE s # q
      BY <2>1, <2>3
    <2> QED
      BY <2>2, <2>3
  <1>13. SessionsApart'
    BY <1>1 DEF LoginInv, SessionsKeep, SessionsApart
  <1>14. \A i \in DOMAIN spent : /\ spent[i].token \in held /\ spent[i].token # tab[t].token
                                 /\ spent[i].session \in Tokens
    BY <1>1, SpentTyped DEF LoginInv, SpentKeeps, SpentRecords
  <1>15. SpentKeeps'
    <2> SUFFICES ASSUME NEW i \in DOMAIN spent'
                 PROVE  /\ spent'[i].token \in held'
                        /\ session'[spent'[i].session].state # "none"
                        /\ spent'[i].op = "logout" => session'[spent'[i].session].state = "revoked"
                        /\ \A s \in Tokens : session'[s].state = "active" => session'[s].token # spent'[i].token
      BY DEF SpentKeeps
    <2>1. CASE i \in DOMAIN spent /\ spent'[i] = spent[i]
      <3>1. /\ spent[i].token \in held /\ spent[i].session \in Tokens
            /\ session[spent[i].session].state # "none"
            /\ spent[i].op = "logout" => session[spent[i].session].state = "revoked"
            /\ \A s \in Tokens : session[s].state = "active" => session[s].token # spent[i].token
        BY <1>14, <2>1 DEF LoginInv, SpentKeeps
      <3>2. spent[i].op = "logout" => spent[i].session # q
        BY <3>1, <1>1
      <3>3. /\ session'[spent[i].session].state # "none"
            /\ spent[i].op = "logout" => session'[spent[i].session].state = "revoked"
        BY <3>1, <3>2, <1>9
      <3>4. \A s \in Tokens : session'[s].state = "active" => session'[s].token # spent[i].token
        BY <3>1
      <3>5. spent[i].token \in held'
        BY <3>1
      <3> QED
        BY <2>1, <3>3, <3>4, <3>5
    <2>2. CASE spent'[i] = entry
      <3>1. tab[t].token \in held
        BY <1>1 DEF LoginInv, SessionsKeep
      <3>2. \A s \in Tokens \ {q} : session[s].state = "active" => session[s].token # tab[t].token
        BY <1>1 DEF LoginInv, SessionsApart
      <3>3. \A s \in Tokens : session'[s].state = "active" => session'[s].token # tab[t].token
        BY <3>1, <3>2
      <3> QED
        BY <2>2, <3>1, <3>3, <1>2
    <2> QED
      BY <2>1, <2>2, <1>5
  <1>16. SpentOnce'
    BY <1>2, <1>5, <1>14 DEF LoginInv, SpentOnce
  <1> QED
    BY <1>8, <1>10, <1>11, <1>12, <1>13, <1>15, <1>16 DEF LoginInv

(* The one that rotates gives the session a token that nobody has.            *)
LEMMA RotateSessionKeeps ==
  ASSUME LoginInv, NEW t \in Tabs, RotateSession(t)
  PROVE  LoginInv'
  <1>1. CASE UNCHANGED <<session, drawn, spent, held>>
    BY <1>1, RestMoves, TabMoves DEF RotateSession, Rests, LoginInv, LoginTypes
  <1>2. CASE /\ Rotates(t) /\ drawn < MaxTokens /\ drawn' = drawn + 1
             /\ session' = [session EXCEPT ![tab[t].session].token = drawn + 1]
             /\ spent' = Append(spent, [token |-> tab[t].token, session |-> tab[t].session, op |-> "rotate"])
             /\ held' = held \union {drawn + 1}
    <2> DEFINE q == tab[t].session
               new == [session[q] EXCEPT !.token = drawn + 1]
    <2>1. tab[t].at = "rotate" /\ Rests(t) /\ loginClock' = loginClock
      BY DEF RotateSession
    <2>2. q \in Tokens /\ session[q] \in SessionRecords /\ session[q].state = "active"
      BY <2>1, <1>2 DEF LoginInv, LoginTypes, TabsKeep, CheckedOf, Rotates, StillMine
    <2>3. /\ drawn' \in drawn..MaxTokens /\ held' \subseteq 1..drawn'
          /\ drawn + 1 \notin held /\ drawn + 1 \in Nat
          /\ (held' \ held) \cap (1..drawn) = {}
      BY <1>2, LoginAssumption DEF LoginInv, LoginTypes
    <2>4. /\ new \in SessionRecords /\ new.token = drawn + 1 /\ new.state = "active"
          /\ new.expires = session[q].expires /\ new.created = session[q].created
          /\ session' = [session EXCEPT ![q] = new]
      BY <1>2, <2>2, <2>3 DEF SessionRecords, LoginInv, LoginTypes
    <2> HIDE DEF new
    <2>5. /\ session' \in [Tokens -> SessionRecords] /\ session'[q] = new
          /\ \A s \in Tokens \ {q} : session'[s] = session[s]
      BY <2>2, <2>4 DEF LoginInv, LoginTypes
    <2>6. StillMine(t) /\ session'[q].token \in held' /\ session'[q].token \notin held /\ held \subseteq held'
      BY <1>2, <2>3, <2>4, <2>5 DEF Rotates
    <2>7. spent' = Append(spent, [token |-> tab[t].token, session |-> q, op |-> "rotate"])
      BY <1>2
    <2>8. /\ session'[q].expires = session[q].expires /\ session'[q].created = session[q].created
          /\ session'[q].state = "active" /\ q = tab[t].session
      BY <2>4, <2>5
    <2> HIDE DEF q
    <2> QED
      BY <2>1, <2>3, <2>5, <2>6, <2>7, <2>8, SpendKeeps
  <1> QED
    BY <1>1, <1>2 DEF RotateSession

(* The one that logs out ends the session.                                    *)
LEMMA RevokeSessionKeeps ==
  ASSUME LoginInv, NEW t \in Tabs, RevokeSession(t)
  PROVE  LoginInv'
  <1>1. CASE UNCHANGED <<session, spent>>
    BY <1>1, RestMoves, TabMoves DEF RevokeSession, Rests, LoginInv, LoginTypes
  <1>2. CASE /\ StillMine(t)
             /\ session' = [session EXCEPT ![tab[t].session].state = "revoked"]
             /\ spent' = Append(spent, [token |-> tab[t].token, session |-> tab[t].session, op |-> "logout"])
    <2> DEFINE q == tab[t].session
               new == [session[q] EXCEPT !.state = "revoked"]
    <2>1. tab[t].at = "logout" /\ Rests(t) /\ UNCHANGED <<loginClock, drawn, held>>
      BY DEF RevokeSession
    <2>2. /\ q \in Tokens /\ session[q] \in SessionRecords /\ session[q].state = "active"
          /\ session[q].token \in held
      BY <2>1, <1>2 DEF LoginInv, LoginTypes, TabsKeep, CheckedOf, SessionsKeep, StillMine
    <2>3. /\ drawn' \in drawn..MaxTokens /\ held' \subseteq 1..drawn'
          /\ (held' \ held) \cap (1..drawn) = {}
      BY <2>1, LoginAssumption DEF LoginInv, LoginTypes
    <2>4. /\ new \in SessionRecords /\ new.token = session[q].token /\ new.state = "revoked"
          /\ new.expires = session[q].expires /\ new.created = session[q].created
          /\ session' = [session EXCEPT ![q] = new]
      BY <1>2, <2>2 DEF SessionRecords, LoginInv, LoginTypes
    <2> HIDE DEF new
    <2>5. /\ session' \in [Tokens -> SessionRecords] /\ session'[q] = new
          /\ \A s \in Tokens \ {q} : session'[s] = session[s]
      BY <2>2, <2>4 DEF LoginInv, LoginTypes
    <2> HIDE DEF q
    <2> QED
      BY <1>2, <2>1, <2>2, <2>3, <2>4, <2>5, SpendKeeps DEF q
  <1> QED
    BY <1>1, <1>2 DEF RevokeSession

(* Steps that touch neither a tab nor a session.                              *)
LEMMA LoginSameKeeps ==
  ASSUME LoginInv, UNCHANGED <<tab, session, drawn, held, spent>>, loginClock' \in Nat
  PROVE  LoginInv'
  <1>1. LoginTypes'
    BY DEF LoginInv, LoginTypes
  <1>2. TabsKeep' /\ FreshApart'
    BY DEF LoginInv, TabsKeep, FreshApart, FreshOf, AskedOf, CheckedOf, SpentTokens
  <1>3. SessionsKeep' /\ SessionsApart' /\ SpentKeeps' /\ SpentOnce'
    BY DEF LoginInv, SessionsKeep, SessionsApart, SpentKeeps, SpentOnce
  <1> QED
    BY <1>1, <1>2, <1>3 DEF LoginInv

(* No step of a tab breaks the invariant.                                     *)
LEMMA LoginInvNext == LoginInv /\ [LoginNext]_loginVars => LoginInv'
  <1> SUFFICES ASSUME LoginInv, [LoginNext]_loginVars PROVE LoginInv'
    OBVIOUS
  <1>1. ASSUME NEW t \in Tabs, NEW source \in Sources, SignIn(t, source) PROVE LoginInv'
    BY <1>1, SignInKeeps
  <1>2. ASSUME NEW t \in Tabs, NEW right \in BOOLEAN, FindIdentity(t, right) PROVE LoginInv'
    BY <1>2, FindIdentityKeeps
  <1>3. ASSUME NEW t \in Tabs, CreateSession(t) PROVE LoginInv'
    BY <1>3, CreateSessionKeeps
  <1>4. ASSUME NEW t \in Tabs, NEW op \in {"view", "rotate", "logout"}, NEW token \in Tokens,
               Ask(t, op, token)
        PROVE  LoginInv'
    BY <1>4, AskKeeps
  <1>5. ASSUME NEW t \in Tabs, NEW csrf \in BOOLEAN, Authenticate(t, csrf) PROVE LoginInv'
    BY <1>5, AuthenticateKeeps
  <1>6. ASSUME NEW t \in Tabs, Viewed(t) \/ RotateSession(t) \/ RevokeSession(t) PROVE LoginInv'
    BY <1>6, ViewedKeeps, RotateSessionKeeps, RevokeSessionKeeps
  <1>7. CASE Disable \/ LoginTick \/ UNCHANGED loginVars
    BY <1>7, LoginSameKeeps DEF Disable, LoginTick, loginVars, LoginInv, LoginTypes
  <1> QED
    BY <1>1, <1>2, <1>3, <1>4, <1>5, <1>6, <1>7, Zenon DEF LoginNext

(* A session token is good once, for any number of tabs, tokens and minutes:  *)
(* one rotation or logout wins with it, and it opens nothing afterwards.      *)
THEOREM TokenGood == LoginSpec => []TokenGoodOnce
  <1>1. LoginInv => TokenGoodOnce
    BY DEF LoginInv, TabsKeep, CheckedOf, SessionsKeep, SessionsApart, SpentKeeps, SpentOnce,
       TokenGoodOnce
  <1>2. LoginSpec => []LoginInv
    BY LoginInvInit, LoginInvNext, PTL DEF LoginSpec
  <1> QED
    BY <1>1, <1>2, PTL

-----------------------------------------------------------------------------
(* The retries of a call                                                      *)

(* How the loop's variable, the requests made and the clock hang together at  *)
(* each await: what the deadline and the counts follow from.                  *)
LoopInv ==
  /\ attempt \in 1..MaxAttempts
  /\ clock \in Nat
  /\ requests \in 0..MaxAttempts
  /\ pc \in {"try", "request", "sleep", "done"}
  /\ failure \in {"none", "timeout", "transient", "permanent"}
  /\ result \in {"none", "response", "failure"}
  /\ reported \in 0..MaxAttempts
  /\ clock <= TotalTimeout + Slack
  /\ pc = "try" => /\ requests = attempt - 1
                   /\ attempt = 1 => clock = 0
  /\ pc = "request" => requests = attempt /\ clock < TotalTimeout
  /\ pc = "sleep" => /\ requests = attempt
                     /\ attempt < MaxAttempts
                     /\ clock + Backoff[attempt] < TotalTimeout
  /\ pc # "done" => failure # "permanent"
  /\ pc = "done" => /\ reported \in 1..requests
                    /\ result = "response" => reported = requests

(* The call starts at time zero with no request made. *)
LEMMA LoopInitially == RetryInit => LoopInv
BY PolicyAssumption DEF RetryInit, LoopInv

(* The timeout of an attempt never reaches over the total deadline. *)
LEMMA TimeoutBounds ==
  ASSUME clock \in Nat, Remaining > 0
  PROVE  Timeout \in Nat /\ clock + Timeout <= TotalTimeout
BY PolicyAssumption DEF Timeout, Remaining

(* Every step of the loop keeps the invariant. *)
LEMMA LoopPreserved == LoopInv /\ [RetryNext]_retryVars => LoopInv'
<1> SUFFICES ASSUME LoopInv, [RetryNext]_retryVars
             PROVE  LoopInv'
  OBVIOUS
<1> USE PolicyAssumption
<1>1. CASE Send
  BY <1>1 DEF Send, LoopInv, Remaining
<1>2. CASE Expire
  BY <1>2 DEF Expire, LoopInv, Remaining, Return
<1>3. CASE Respond
  <2>1. PICK d \in 0..Timeout : clock' = clock + d
    BY <1>3 DEF Respond
  <2>2. Timeout \in Nat /\ clock + Timeout <= TotalTimeout
    BY <1>3, TimeoutBounds DEF Respond, LoopInv, Remaining
  <2>3. QED
    BY <1>3, <2>1, <2>2 DEF Respond, LoopInv, Return
<1>4. CASE Fail
  <2>1. PICK why \in {"timeout", "transient", "permanent"} :
          \E d \in IF why = "timeout" THEN Timeout..(Timeout + Slack) ELSE 0..Timeout :
            /\ clock' = clock + d
            /\ failure' = why
            /\ IF GivesUp(why, clock + d)
               THEN Return("failure", attempt)
               ELSE pc' = "sleep" /\ UNCHANGED <<result, reported>>
    BY <1>4 DEF Fail
  <2>2. PICK d \in IF why = "timeout" THEN Timeout..(Timeout + Slack) ELSE 0..Timeout :
          /\ clock' = clock + d
          /\ failure' = why
          /\ IF GivesUp(why, clock + d)
             THEN Return("failure", attempt)
             ELSE pc' = "sleep" /\ UNCHANGED <<result, reported>>
    BY <2>1
  <2>3. Timeout \in Nat /\ clock + Timeout <= TotalTimeout
    BY <1>4, TimeoutBounds DEF Fail, LoopInv, Remaining
  <2>4. d \in Nat /\ clock + d <= TotalTimeout + Slack
    BY <2>2, <2>3 DEF LoopInv
  <2>5. pc = "request" /\ UNCHANGED <<attempt, requests>>
    BY <1>4 DEF Fail
  <2>6. CASE GivesUp(why, clock + d)
    BY <2>2, <2>4, <2>5, <2>6 DEF LoopInv, Return
  <2>7. CASE ~GivesUp(why, clock + d)
    <3>1. attempt < MaxAttempts /\ why # "permanent"
      BY <2>7 DEF GivesUp, LoopInv
    <3>2. Backoff[attempt] \in Nat
      BY <3>1 DEF LoopInv
    <3>3. clock + d + Backoff[attempt] < TotalTimeout
      BY <2>4, <2>7, <3>2 DEF GivesUp, LoopInv
    <3>4. QED
      BY <2>2, <2>4, <2>5, <2>7, <3>1, <3>2, <3>3 DEF LoopInv
  <2>8. QED
    BY <2>6, <2>7
<1>5. CASE Sleep
  <2>1. PICK late \in 0..Slack : clock' = clock + Backoff[attempt] + late
    BY <1>5 DEF Sleep
  <2>2. Backoff[attempt] \in Nat
    BY <1>5 DEF Sleep, LoopInv
  <2>3. QED
    BY <1>5, <2>1, <2>2 DEF Sleep, LoopInv
<1>6. CASE UNCHANGED retryVars
  BY <1>6 DEF retryVars, LoopInv
<1>7. QED
  BY <1>1, <1>2, <1>3, <1>4, <1>5, <1>6 DEF RetryNext

(* The inductive invariant of the retry loop. *)
THEOREM LoopInvariant == RetrySpec => []LoopInv
BY LoopInitially, LoopPreserved, PTL DEF RetrySpec

(* The call ends within the total timeout and the lateness of one wait,       *)
(* however many attempts and sleeps were late before.                         *)
THEOREM DeadlineHolds == RetrySpec => []DeadlineHonoured
<1>1. LoopInv => DeadlineHonoured
  BY DEF LoopInv, DeadlineHonoured
<1>2. QED
  BY <1>1, LoopInvariant, PTL

(* provider_request_count never exceeds the requests made, and is exact in a  *)
(* response; a failure may undercount (see ExactCounts).                      *)
THEOREM CountsNeverExceed == RetrySpec => []NeverOvercounts
<1>1. LoopInv => NeverOvercounts
  BY DEF LoopInv, NeverOvercounts
<1>2. QED
  BY <1>1, LoopInvariant, PTL

(* A permanent failure is never followed by another request.                  *)
THEOREM PermanentNotRetried == RetrySpec => OnlyTransientRetried
<1>1. LoopInv /\ [RetryNext]_retryVars =>
        [requests' > requests => failure \in {"none", "timeout", "transient"}]_retryVars
  BY DEF LoopInv, RetryNext, Send, Expire, Respond, Fail, Sleep, retryVars
<1>2. QED
  BY <1>1, LoopInvariant, PTL DEF RetrySpec, OnlyTransientRetried

-----------------------------------------------------------------------------
(* Policies and their activation                                              *)

OrdersOrNone == Orders \union {Nothing}
Baselines == Versions \union {Nothing, NoBaseline}
JobRecords == [order : OrdersOrNone, at : Nat, baseline : Baselines]
IdempotencyRecords == [order : OrdersOrNone, expires : Nat]
Activations == [version : Versions, replaced : Versions \union {NoBaseline}, order : Orders]
PolicyStates == {"none", "draft", "active", "retired"}

AdminTypes ==
  /\ policyClock \in Nat
  /\ policy \in [Versions -> PolicyStates]
  /\ order = [o \in Orders |-> order[o]]
  /\ \A o \in Orders : order[o] # NoOrder => order[o].version \in Versions
  /\ passed \subseteq Orders
  /\ records \in [Slots -> IdempotencyRecords]
  /\ awaiting \in [Deliveries -> {"idle", "replay", "candidate", "baseline", "approval",
                                  "activate", "answered", "refused"}]
  /\ job \in [Deliveries -> JobRecords]
  /\ answer = [d \in Deliveries |-> answer[d]]
  /\ history \in Seq(Activations)

(* One policy of a profile is active.                                         *)
OneActive ==
  \A v, w \in Versions :
    policy[v] = "active" /\ policy[w] = "active" /\ ProfileOf(v) = ProfileOf(w) => v = w

(* A delivery carries an order that was made out; to activate it, one whose   *)
(* evaluation was approved.                                                   *)
Carries(d) ==
  /\ awaiting[d] # "idle" => job[d].order \in Orders /\ order[job[d].order] # NoOrder
  /\ awaiting[d] = "activate" => job[d].order \in passed
Delivered == \A d \in Deliveries : Carries(d)

(* An activation is of what its order says, against what the order says; its  *)
(* version is no draft any more.                                              *)
Rightly(h) ==
  /\ h.order \in passed /\ order[h.order] # NoOrder
  /\ order[h.order].version = h.version
  /\ order[h.order].impact.baseline = Rules(h.replaced)
  /\ policy[h.version] \in {"active", "retired"}
HistoryRight == \A i \in DOMAIN history : Rightly(history[i])
HistoryOnce == \A i, j \in DOMAIN history : history[i].version = history[j].version => i = j

Took(o) == \E i \in DOMAIN history : history[i].order = o

(* A record is of an activation that took place, and so is an answer.         *)
RecordsTrue == \A s \in Slots : records[s] # NoRecord => Took(records[s].order)
AnswersTrue ==
  \A d \in Deliveries : awaiting[d] = "answered" =>
    answer[d] = order[job[d].order] /\ Took(job[d].order)

AdminInv ==
  /\ AdminTypes /\ OneActive /\ Delivered /\ HistoryRight /\ HistoryOnce
  /\ RecordsTrue /\ AnswersTrue

-----------------------------------------------------------------------------
(* Nothing was saved yet.                                                     *)
LEMMA AdminInvInit == PolicyInit => AdminInv
  <1> SUFFICES ASSUME PolicyInit PROVE AdminInv
    OBVIOUS
  <1>1. NoRecord \in IdempotencyRecords /\ NoJob \in JobRecords
    BY DEF NoRecord, NoJob, IdempotencyRecords, JobRecords, OrdersOrNone, Baselines
  <1>2. AdminTypes
    BY <1>1 DEF PolicyInit, AdminTypes, PolicyStates
  <1>3. OneActive /\ Delivered /\ HistoryRight /\ HistoryOnce /\ RecordsTrue /\ AnswersTrue
    BY DEF PolicyInit, OneActive, Delivered, Carries, HistoryRight, HistoryOnce, RecordsTrue,
       AnswersTrue
  <1> QED
    BY <1>2, <1>3 DEF AdminInv

(* The active policy of a profile, when there is one.                         *)
LEMMA ActiveIs ==
  ASSUME NEW profile
  PROVE  \/ Active(profile) = NoBaseline /\ Actives(profile) = {}
         \/ Active(profile) \in Actives(profile)
  BY DEF Active

(* An active version is the active one of its profile.                        *)
LEMMA ActiveAlone ==
  ASSUME AdminInv, NEW w \in Versions, policy[w] = "active"
  PROVE  Active(ProfileOf(w)) = w
  <1>1. w \in Actives(ProfileOf(w))
    BY DEF Actives
  <1>2. Active(ProfileOf(w)) \in Actives(ProfileOf(w))
    BY <1>1, ActiveIs
  <1> QED
    BY <1>2 DEF Actives, AdminInv, OneActive

(* An entry of the history.                                                   *)
LEMMA HistoryTyped == AdminTypes => \A i \in DOMAIN history : history[i] \in Activations
  <1> SUFFICES ASSUME AdminTypes, NEW i \in DOMAIN history PROVE history[i] \in Activations
    OBVIOUS
  <1>1. history \in Seq(Activations)
    BY DEF AdminTypes
  <1>2. i \in 1..Len(history)
    BY <1>1
  <1> QED
    BY <1>1, <1>2

(* A draft starts what was nothing: it replaces nothing and was not activated.*)
LEMMA SaveDraftKeeps == ASSUME AdminInv, NEW v \in Versions, SaveDraft(v) PROVE AdminInv'
  <1>1. /\ \A w \in Versions : policy'[w] # policy[w] => policy[w] = "none" /\ policy'[w] = "draft"
        /\ policy' \in [Versions -> PolicyStates]
        /\ UNCHANGED <<policyClock, order, passed, records, awaiting, job, answer, history>>
    BY DEF SaveDraft, adminVars, AdminInv, AdminTypes, PolicyStates
  <1>2. AdminTypes'
    BY <1>1 DEF AdminInv, AdminTypes
  <1>3. OneActive'
    BY <1>1 DEF AdminInv, OneActive
  <1>4. Delivered' /\ HistoryOnce' /\ RecordsTrue' /\ AnswersTrue'
    BY <1>1 DEF AdminInv, Delivered, Carries, HistoryOnce, RecordsTrue, AnswersTrue, Took
  <1>5. HistoryRight'
    <2>1. \A i \in DOMAIN history : history[i].version \in Versions
      BY HistoryTyped DEF AdminInv, Activations
    <2> QED
      BY <1>1, <2>1 DEF AdminInv, HistoryRight, Rightly
  <1> QED
    BY <1>2, <1>3, <1>4, <1>5 DEF AdminInv

(* A review makes out an order that was none before.                          *)
LEMMA ReviewKeeps ==
  ASSUME AdminInv, NEW o \in Orders, NEW v \in Versions, Review(o, v)
  PROVE  AdminInv'
  <1>1. /\ order[o] = NoOrder /\ order' = [order EXCEPT ![o] = order'[o]]
        /\ order'[o].version = v
        /\ UNCHANGED <<policyClock, policy, passed, records, awaiting, job, answer, history>>
    BY DEF Review, AdminInv, AdminTypes
  <1>2. /\ order' = [q \in Orders |-> order'[q]]
        /\ \A q \in Orders \ {o} : order'[q] = order[q]
    BY <1>1 DEF AdminInv, AdminTypes
  <1>3. order'[o] # NoOrder
    BY <1>1, VersionAssumption DEF NoOrder
  <1>4. AdminTypes'
    BY <1>1, <1>2, <1>3 DEF AdminInv, AdminTypes, NoOrder
  <1>5. OneActive' /\ HistoryOnce' /\ RecordsTrue'
    BY <1>1 DEF AdminInv, OneActive, HistoryOnce, RecordsTrue, Took
  <1>6. \A q \in Orders : order[q] # NoOrder => order'[q] = order[q]
    BY <1>1, <1>2
  <1>7. Delivered' /\ AnswersTrue'
    BY <1>1, <1>6 DEF AdminInv, Delivered, Carries, AnswersTrue, Took, NoOrder
  <1>8. HistoryRight'
    BY <1>1, <1>6 DEF AdminInv, AdminTypes, HistoryRight, Rightly, NoOrder
  <1> QED
    BY <1>4, <1>5, <1>7, <1>8 DEF AdminInv

-----------------------------------------------------------------------------
(* Steps that leave the administrators' part alone.                           *)
LEMMA AdminSameKeeps ==
  ASSUME AdminInv, UNCHANGED <<policy, adminVars>>, policyClock' \in Nat
  PROVE  AdminInv'
  <1>1. UNCHANGED <<policy, order, passed, records, awaiting, job, answer, history>>
    BY DEF adminVars
  <1>2. AdminTypes'
    BY <1>1 DEF AdminInv, AdminTypes
  <1>3. OneActive' /\ Delivered' /\ HistoryRight' /\ HistoryOnce' /\ RecordsTrue' /\ AnswersTrue'
    BY <1>1 DEF AdminInv, OneActive, Delivered, Carries, HistoryRight, Rightly, HistoryOnce,
       RecordsTrue, AnswersTrue, Took
  <1> QED
    BY <1>2, <1>3 DEF AdminInv

(* A delivery that moves on and activates nothing: it carries an order, it    *)
(* answers about an activation that took place, and records at most go.       *)
LEMMA DeliveryMoves ==
  ASSUME AdminInv, NEW d \in Deliveries, NEW new \in JobRecords,
         NEW next \in {"replay", "candidate", "baseline", "approval", "activate", "answered",
                       "refused"},
         Await(d, next), job' = [job EXCEPT ![d] = new],
         new.order \in Orders, order[new.order] # NoOrder,
         next = "activate" => new.order \in passed',
         passed \subseteq passed', passed' \subseteq Orders,
         records' \in [Slots -> IdempotencyRecords],
         \A s \in Slots : records'[s] = records[s] \/ records'[s] = NoRecord,
         UNCHANGED <<policyClock, policy, order, history>>,
         \/ next # "answered" /\ answer' = answer
         \/ answer' = [answer EXCEPT ![d] = order[new.order]] /\ Took(new.order)
  PROVE  AdminInv'
  <1>1. /\ awaiting' = [awaiting EXCEPT ![d] = next]
        /\ \A e \in Deliveries : /\ awaiting'[e] = IF e = d THEN next ELSE awaiting[e]
                                 /\ job'[e] = IF e = d THEN new ELSE job[e]
    BY DEF Await, AdminInv, AdminTypes
  <1>2. answer' = [e \in Deliveries |-> answer'[e]]
    BY DEF AdminInv, AdminTypes
  <1>3. AdminTypes'
    BY <1>1, <1>2 DEF AdminInv, AdminTypes
  <1>4. OneActive' /\ HistoryOnce'
    BY DEF AdminInv, OneActive, HistoryOnce
  <1>5. Delivered'
    BY <1>1 DEF AdminInv, Delivered, Carries
  <1>6. HistoryRight'
    BY DEF AdminInv, HistoryRight, Rightly
  <1>7. RecordsTrue'
    BY DEF AdminInv, RecordsTrue, Took
  <1>8. AnswersTrue'
    <2> SUFFICES ASSUME NEW e \in Deliveries, awaiting'[e] = "answered"
                 PROVE  answer'[e] = order[job'[e].order] /\ Took(job'[e].order)
      BY DEF AnswersTrue, Took
    <2>1. CASE e = d
      BY <1>1, <2>1 DEF AdminInv, AdminTypes
    <2>2. CASE e # d
      BY <1>1, <2>2 DEF AdminInv, AdminTypes, AnswersTrue
    <2> QED
      BY <2>1, <2>2
  <1> QED
    BY <1>3, <1>4, <1>5, <1>6, <1>7, <1>8 DEF AdminInv

(* A delivery in an await knows its order.                                    *)
LEMMA JobKnown ==
  ASSUME AdminInv, NEW d \in Deliveries, awaiting[d] # "idle"
  PROVE  /\ job[d] \in JobRecords /\ job[d].order \in Orders /\ order[job[d].order] # NoOrder
         /\ order[job[d].order].version \in Versions /\ KeyOf[job[d].order] \in Slots
         /\ job' = job => job' = [job EXCEPT ![d] = job[d]]
         /\ passed \subseteq Orders /\ records \in [Slots -> IdempotencyRecords]
  BY DEF AdminInv, AdminTypes, Delivered, Carries, Slots

(* A delivery takes an order that was made out.                               *)
LEMMA DeliverKeeps ==
  ASSUME AdminInv, NEW d \in Deliveries, NEW o \in Orders, Deliver(d, o)
  PROVE  AdminInv'
  <1> DEFINE new == [NoJob EXCEPT !.order = o, !.at = policyClock]
  <1>1. new \in JobRecords /\ new.order = o
    BY DEF NoJob, JobRecords, OrdersOrNone, Baselines, AdminInv, AdminTypes
  <1>2. /\ Await(d, "replay") /\ job' = [job EXCEPT ![d] = new] /\ order[o] # NoOrder
        /\ UNCHANGED <<policyClock, policy, order, passed, records, answer, history>>
        /\ passed \subseteq Orders /\ records \in [Slots -> IdempotencyRecords]
    BY DEF Deliver, AdminInv, AdminTypes
  <1> HIDE DEF new
  <1> QED
    BY <1>1, <1>2, DeliveryMoves

(* A repeated order is answered with what a record of it says.                *)
LEMMA ReplaysKeep ==
  ASSUME AdminInv, NEW d \in Deliveries, awaiting[d] # "idle", Replays(d),
         UNCHANGED <<policyClock, order, passed, job>>
  PROVE  AdminInv'
  <1>1. /\ records[KeyOf[job[d].order]] # NoRecord
        /\ records[KeyOf[job[d].order]].order = job[d].order
        /\ answer' = [answer EXCEPT ![d] = order[job[d].order]]
        /\ Await(d, "answered") /\ UNCHANGED <<records, history, policy>>
    BY DEF Replays, Alive
  <1>2. Took(job[d].order)
    BY <1>1, JobKnown DEF AdminInv, RecordsTrue
  <1> QED
    BY <1>1, <1>2, JobKnown, DeliveryMoves

(* So is one whose key stands for another order, with a refusal.              *)
LEMMA ConflictsKeep ==
  ASSUME AdminInv, NEW d \in Deliveries, awaiting[d] # "idle", Conflicts(d),
         UNCHANGED <<policyClock, order, passed, job>>
  PROVE  AdminInv'
  <1>1. Await(d, "refused") /\ UNCHANGED <<records, answer, history, policy>>
    BY DEF Conflicts
  <1> QED
    BY <1>1, JobKnown, DeliveryMoves

(* A record that ran out goes; the answer of a live one is repeated or refused.*)
LEMMA LookUpKeeps == ASSUME AdminInv, NEW d \in Deliveries, LookUp(d) PROVE AdminInv'
  <1>1. awaiting[d] # "idle" /\ UNCHANGED <<policyClock, order, passed, job>>
    BY DEF LookUp
  <1>2. CASE Replays(d) \/ Conflicts(d)
    BY <1>1, <1>2, ReplaysKeep, ConflictsKeep
  <1>3. CASE /\ records' = [records EXCEPT ![KeyOf[job[d].order]] = NoRecord]
             /\ Await(d, "candidate")
             /\ UNCHANGED <<answer, history, policy>>
    <2>1. NoRecord \in IdempotencyRecords
      BY DEF NoRecord, IdempotencyRecords, OrdersOrNone
    <2>2. /\ records' \in [Slots -> IdempotencyRecords]
          /\ \A s \in Slots : records'[s] = records[s] \/ records'[s] = NoRecord
      BY <1>1, <1>3, <2>1, JobKnown
    <2> QED
      BY <1>1, <1>3, <2>2, JobKnown, DeliveryMoves
  <1> QED
    BY <1>2, <1>3 DEF LookUp

(* Only a draft goes on.                                                      *)
LEMMA ReadCandidateKeeps ==
  ASSUME AdminInv, NEW d \in Deliveries, ReadCandidate(d)
  PROVE  AdminInv'
  <1>1. /\ awaiting[d] # "idle"
        /\ UNCHANGED <<policyClock, policy, order, passed, records, job, answer, history>>
        /\ Await(d, "baseline") \/ Await(d, "refused")
    BY DEF ReadCandidate
  <1> QED
    BY <1>1, JobKnown, DeliveryMoves

(* The baseline that is read is a version or none.                            *)
LEMMA ReadBaselineKeeps ==
  ASSUME AdminInv, NEW d \in Deliveries, ReadBaseline(d)
  PROVE  AdminInv'
  <1> DEFINE found == Active(ProfileOf(order[job[d].order].version))
             new == [job[d] EXCEPT !.baseline = found]
  <1>1. /\ awaiting[d] # "idle"
        /\ UNCHANGED <<policyClock, policy, order, passed, records, answer, history>>
        /\ Await(d, "approval") \/ Await(d, "refused")
        /\ job' = [job EXCEPT ![d].baseline = found]
    BY DEF ReadBaseline
  <1>2. found \in Baselines
    BY ActiveIs DEF Baselines, Actives
  <1> HIDE DEF found
  <1>3. new \in JobRecords /\ new.order = job[d].order /\ job' = [job EXCEPT ![d] = new]
    BY <1>1, <1>2, JobKnown DEF JobRecords, AdminInv, AdminTypes
  <1> HIDE DEF new
  <1> QED
    BY <1>1, <1>3, JobKnown, DeliveryMoves

(* What goes on to be activated was approved.                                 *)
LEMMA RequireApprovedKeeps ==
  ASSUME AdminInv, NEW d \in Deliveries, RequireApproved(d)
  PROVE  AdminInv'
  <1>1. /\ awaiting[d] # "idle"
        /\ UNCHANGED <<policyClock, policy, order, records, job, answer, history>>
        /\ \/ passed' = passed \union {job[d].order} /\ Await(d, "activate")
           \/ passed' = passed /\ Await(d, "refused")
    BY DEF RequireApproved
  <1>2. passed \subseteq passed' /\ passed' \subseteq Orders
    BY <1>1, JobKnown
  <1> QED
    BY <1>1, <1>2, JobKnown, DeliveryMoves

(* The version takes the place of what was active, which is what the impact   *)
(* of its order was computed against.                                         *)
LEMMA ActivatesKeep ==
  ASSUME AdminInv, NEW d \in Deliveries, awaiting[d] = "activate",
         StillAsReviewed(d), Activates(d), UNCHANGED <<policyClock, order, passed, job>>
  PROVE  AdminInv'
  <1>o. PICK o : o = job[d].order
    OBVIOUS
  <1>v. PICK v : v = order[o].version
    OBVIOUS
  <1>r. PICK replaced : replaced = Active(ProfileOf(v))
    OBVIOUS
  <1>e. PICK entry : entry = [version |-> v, replaced |-> replaced, order |-> o]
    OBVIOUS
  <1>t. PICK record : record = [order |-> o, expires |-> job[d].at + RecordTTL]
    OBVIOUS
  <1>1. /\ o \in Orders /\ order[o] # NoOrder /\ v \in Versions /\ o \in passed
        /\ KeyOf[o] \in Slots /\ job[d] \in JobRecords
    BY <1>o, <1>v, JobKnown DEF AdminInv, Delivered, Carries
  <1>2. policy[v] = "draft" /\ order[o].impact.baseline = Rules(replaced)
    BY <1>o, <1>v, <1>r DEF StillAsReviewed, Impact
  <1>3. /\ policy' = [w \in Versions |->
             IF w = v THEN "active" ELSE IF w = replaced THEN "retired" ELSE policy[w]]
        /\ records' = [records EXCEPT ![KeyOf[o]] = record]
        /\ history' = Append(history, entry)
        /\ answer' = [answer EXCEPT ![d] = order[o]]
        /\ awaiting' = [awaiting EXCEPT ![d] = "answered"]
    BY <1>o, <1>v, <1>r, <1>e, <1>t DEF Activates, Await
  <1>4. /\ entry \in Activations /\ entry.version = v /\ entry.replaced = replaced /\ entry.order = o
        /\ record \in IdempotencyRecords /\ record.order = o
    BY <1>1, <1>r, <1>e, <1>t, ActiveIs, VersionAssumption
    DEF Activations, Actives, IdempotencyRecords, OrdersOrNone, JobRecords
  <1>5. \A w \in Versions : policy[w] = "active" /\ ProfileOf(w) = ProfileOf(v) => w = replaced
    BY <1>r, ActiveAlone
  <1>7. /\ history' \in Seq(Activations)
        /\ DOMAIN history' = 1..(Len(history) + 1) /\ DOMAIN history = 1..Len(history)
        /\ Len(history) \in Nat
        /\ \A i \in DOMAIN history : history'[i] = history[i]
        /\ history'[Len(history) + 1] = entry
    BY <1>3, <1>4 DEF AdminInv, AdminTypes
  <1>8. \A i \in DOMAIN history' : \/ i \in DOMAIN history /\ history'[i] = history[i]
                                   \/ /\ i = Len(history) + 1 /\ i \notin DOMAIN history
                                      /\ history'[i] = entry
    <2>1. \A n \in Nat : \A i \in 1..(n + 1) : i \in 1..n \/ (i = n + 1 /\ i \notin 1..n)
      OBVIOUS
    <2> QED
      BY <1>7, <2>1, Zenon
  <1>9. \A q : Took(q) => Took(q)'
    BY <1>7 DEF Took
  <1>10. Took(o)'
    BY <1>4, <1>7 DEF Took
  <1>11. AdminTypes'
    BY <1>3, <1>4, <1>7 DEF AdminInv, AdminTypes, PolicyStates
  <1>12. OneActive'
    BY <1>3, <1>5 DEF AdminInv, AdminTypes, OneActive
  <1>13. Delivered'
    BY <1>3 DEF AdminInv, AdminTypes, Delivered, Carries
  <1>14. HistoryRight'
    <2> SUFFICES ASSUME NEW i \in DOMAIN history' PROVE 
                 /\ history'[i].order \in passed' /\ order'[history'[i].order] # NoOrder
                 /\ order'[history'[i].order].version = history'[i].version
                 /\ order'[history'[i].order].impact.baseline = Rules(history'[i].replaced)
                 /\ policy'[history'[i].version] \in {"active", "retired"}
      BY DEF HistoryRight, Rightly, Rules, NoOrder
    <2>1. CASE i \in DOMAIN history /\ history'[i] = history[i]
      <3>1. Rightly(history[i]) /\ history[i].version \in Versions
        BY <2>1, HistoryTyped DEF AdminInv, HistoryRight, Activations
      <3>2. history[i].version # v
        BY <3>1, <1>2 DEF Rightly
      <3>3. policy'[history[i].version] \in {"active", "retired"}
        BY <3>1, <3>2, <1>3 DEF Rightly
      <3> QED
        BY <2>1, <3>1, <3>3 DEF Rightly
    <2>2. CASE history'[i] = entry
      BY <2>2, <1>1, <1>2, <1>3, <1>4, <1>v DEF Rightly, AdminInv, AdminTypes, Rules
    <2> QED
      BY <2>1, <2>2, <1>8
  <1>15. HistoryOnce'
    <2>1. \A i \in DOMAIN history : history[i].version # v
      BY <1>2 DEF AdminInv, HistoryRight, Rightly
    <2> QED
      BY <2>1, <1>4, <1>8 DEF AdminInv, HistoryOnce
  <1>16. RecordsTrue'
    BY <1>3, <1>4, <1>9, <1>10 DEF AdminInv, AdminTypes, RecordsTrue
  <1>17. AnswersTrue'
    BY <1>o, <1>3, <1>9, <1>10 DEF AdminInv, AdminTypes, AnswersTrue
  <1> QED
    BY <1>11, <1>12, <1>13, <1>14, <1>15, <1>16, <1>17 DEF AdminInv

(* The transaction replays, refuses or activates.                             *)
LEMMA ActivateKeeps == ASSUME AdminInv, NEW d \in Deliveries, Activate(d) PROVE AdminInv'
  <1>1. awaiting[d] = "activate" /\ UNCHANGED <<policyClock, order, passed, job>>
    BY DEF Activate
  <1>2. CASE Replays(d) \/ Conflicts(d)
    BY <1>1, <1>2, ReplaysKeep, ConflictsKeep
  <1>3. CASE StillAsReviewed(d) /\ Activates(d)
    BY <1>1, <1>3, ActivatesKeep
  <1>4. CASE Await(d, "refused") /\ UNCHANGED <<records, answer, history, policy>>
    BY <1>1, <1>4, JobKnown, DeliveryMoves
  <1> QED
    BY <1>2, <1>3, <1>4 DEF Activate

(* Calls read the policies and never write them.                              *)
LEMMA CallingKeeps == ASSUME AdminInv, NEW c \in Calls, Calling(c) PROVE AdminInv'
  BY AdminSameKeeps
  DEF Calling, ReadPolicy, ReadCandidates, DenyCall, StartCall, FinishCall, Invoke, AdminInv, AdminTypes

(* No step breaks the invariant of the administrators.                        *)
LEMMA AdminInvNext == AdminInv /\ [PolicyNext]_policyVars => AdminInv'
  <1> SUFFICES ASSUME AdminInv, [PolicyNext]_policyVars PROVE AdminInv'
    OBVIOUS
  <1>1. ASSUME NEW v \in Versions, SaveDraft(v) PROVE AdminInv'
    BY <1>1, SaveDraftKeeps
  <1>2. ASSUME NEW o \in Orders, NEW v \in Versions, Review(o, v) PROVE AdminInv'
    BY <1>2, ReviewKeeps
  <1>3. ASSUME NEW d \in Deliveries, NEW o \in Orders, Deliver(d, o) PROVE AdminInv'
    BY <1>3, DeliverKeeps
  <1>4. ASSUME NEW d \in Deliveries,
               LookUp(d) \/ ReadCandidate(d) \/ ReadBaseline(d) \/ RequireApproved(d) \/ Activate(d)
        PROVE  AdminInv'
    BY <1>4, LookUpKeeps, ReadCandidateKeeps, ReadBaselineKeeps, RequireApprovedKeeps, ActivateKeeps
  <1>5. ASSUME NEW c \in Calls, Calling(c) PROVE AdminInv'
    BY <1>5, CallingKeeps
  <1>6. CASE PolicyTick \/ UNCHANGED policyVars
    BY <1>6, AdminSameKeeps DEF PolicyTick, policyVars, AdminInv, AdminTypes
  <1> QED
    BY <1>1, <1>2, <1>3, <1>4, <1>5, <1>6, Zenon DEF PolicyNext, Administration

(* The active policies of a profile are none or one.                          *)
LEMMA AtMostOne == ASSUME OneActive, NEW p PROVE Cardinality(Actives(p)) <= 1
  <1>1. CASE Actives(p) = {}
    BY <1>1, FS_EmptySet
  <1>2. CASE Actives(p) # {}
    <2>1. PICK v : v \in Actives(p)
      BY <1>2
    <2>2. Actives(p) = {v}
      BY <2>1 DEF Actives, OneActive
    <2>3. Cardinality({v}) = 1
      BY FS_Singleton
    <2>4. Cardinality(Actives(p)) = 1
      BY <2>2, <2>3, Zenon
    <2> QED
      BY <2>4
  <1> QED
    BY <1>1, <1>2

(* What is activated is what was reviewed, for any number of versions,        *)
(* administrators' orders, deliveries of them and calls in between.           *)
THEOREM ActivationsReviewed == PolicySpec => []ActivatedAsReviewed
  <1>1. AdminInv => ActivatedAsReviewed
    <2> SUFFICES ASSUME AdminInv PROVE ActivatedAsReviewed
      OBVIOUS
    <2>1. \A p \in {ProfileOf(v) : v \in Versions} : Cardinality(Actives(p)) <= 1
      BY AtMostOne DEF AdminInv
    <2> QED
      BY <2>1 DEF AdminInv, HistoryRight, Rightly, HistoryOnce, AnswersTrue, Took, ActivatedAsReviewed
  <1>2. PolicySpec => []AdminInv
    BY AdminInvInit, AdminInvNext, PTL DEF PolicySpec
  <1> QED
    BY <1>1, <1>2, PTL

-----------------------------------------------------------------------------
(* The choice of a candidate                                                  *)

(* A set of numbers that is not empty has a least one.                        *)
LEMMA NatLeast ==
  ASSUME NEW T, T \subseteq Nat, T # {}
  PROVE  \E x \in T : \A y \in T : x <= y
  <1>1. PICK x \in T : \A y \in T : ~ (<<y, x>> \in OpToRel(<, Nat))
    BY NatLessThanWellFounded, WFMin
  <1>2. \A y \in T : <<y, x>> \in Nat \X Nat
    OBVIOUS
  <1>3. \A y \in T : y < x => <<y, x>> \in OpToRel(<, Nat)
    BY <1>2 DEF OpToRel
  <1>4. \A y \in T : ~ (y < x)
    BY <1>1, <1>3, Zenon
  <1> QED
    BY <1>4

(* The candidate of the least priority is one of them.                        *)
LEMMA SelectedIn ==
  ASSUME NEW eligible, eligible # {}, \A c \in eligible : c.priority \in Nat
  PROVE  Selected(eligible) \in eligible
  <1> DEFINE T == {c.priority : c \in eligible}
  <1>1. PICK x \in T : \A y \in T : x <= y
    <2>1. T \subseteq Nat /\ T # {}
      OBVIOUS
    <2> HIDE DEF T
    <2> QED
      BY <2>1, NatLeast
  <1>2. PICK c \in eligible : \A d \in eligible : c.priority <= d.priority
    BY <1>1
  <1> QED
    BY <1>2 DEF Selected

(* What a policy and a candidate both allow, for one source.                  *)
Permits(rules, chosen, s) ==
  /\ s.classes \subseteq rules.classes /\ s.classes \subseteq chosen.classes
  /\ s.kind \in rules.kinds \intersect chosen.kinds
  /\ s.raw => rules.raw /\ chosen.raw
  /\ rules.zeroRetention => chosen.retention = "zero_retention"

(* An allowed call goes to a candidate that, with the policy, allows every    *)
(* source it carries; what is not allowed is blocked.                         *)
LEMMA DecisionAllows ==
  ASSUME NEW asked, NEW rules, NEW candidates, NEW redacted,
         \A c \in candidates : c.priority \in Nat
  PROVE  LET verdict == EgressDecision(asked, rules, candidates, redacted) IN
         /\ verdict.outcome \in {"allowed", "blocked"}
         /\ verdict.outcome = "allowed" =>
              /\ candidates # {} /\ verdict.selected \subseteq candidates
              /\ \A chosen \in verdict.selected, s \in SourcesOf(asked) :
                   Permits(rules, chosen, s)
  <1> DEFINE eligible == Eligible(candidates, asked, rules)
             verdict == EgressDecision(asked, rules, candidates, redacted)
  <1>1. \/ verdict.outcome = "blocked"
        \/ /\ eligible # {} /\ verdict.outcome = "allowed"
           /\ verdict.selected = {Selected(eligible)}
    BY DEF EgressDecision, Decided
  <1>2. CASE eligible # {} /\ verdict.outcome = "allowed" /\ verdict.selected = {Selected(eligible)}
    <2>1. eligible \subseteq candidates
      BY DEF Eligible
    <2>2. Selected(eligible) \in eligible
      BY <1>2, <2>1, SelectedIn
    <2>3. CandidateAllowed(Selected(eligible), asked, rules)
      BY <2>2 DEF Eligible
    <2>4. \A s \in SourcesOf(asked) : Permits(rules, Selected(eligible), s)
      <3> SUFFICES ASSUME NEW s \in SourcesOf(asked) PROVE Permits(rules, Selected(eligible), s)
        OBVIOUS
      <3>1. s.classes \subseteq ClassesOf(asked) /\ s.kind \in KindsOf(asked)
        BY DEF ClassesOf, KindsOf
      <3>2. s.raw => CarriesRaw(asked)
        BY DEF CarriesRaw
      <3> HIDE DEF eligible
      <3> QED
        BY <2>3, <3>1, <3>2 DEF CandidateAllowed, Permits
    <2> HIDE DEF eligible, verdict
    <2> QED
      BY <1>2, <2>1, <2>2, <2>4 DEF verdict
  <1> QED
    BY <1>1, <1>2

-----------------------------------------------------------------------------
(* The calls                                                                  *)

Awaits == {"policy", "candidates", "deny", "start", "provider", "finish", "ended"}
Rows == {"none", "denied", "running", "completed", "failed"}

IsCallRecord(k) ==
  /\ {"at", "policy", "source", "decision", "outcome"} \subseteq DOMAIN k
  /\ k.at \in Awaits

CallTypes ==
  /\ call = [c \in Calls |-> call[c]] /\ \A c \in Calls : IsCallRecord(call[c])
  /\ row \in [Calls -> Rows]
  /\ inForce = [c \in Calls |-> inForce[c]]

(* A call that is let out: by what was in force, to a candidate of what was   *)
(* in force, and both allow all it carries.                                   *)
LetOut(c, k, force) ==
  /\ {k.policy, k.source} \subseteq force
  /\ k.decision.selected \subseteq Snapshot[k.source].candidates
  /\ \A chosen \in k.decision.selected, s \in SourcesOf(CallOf[c]) :
       Permits(Snapshot[k.policy].policy, chosen, s)

(* What a call has read and its row, by the await it is in.                   *)
CallFits(c, k, r, force) ==
  /\ k.at \in {"policy", "deny"} => r = "none" /\ k.decision.outcome = "blocked"
  /\ k.at = "candidates" => r = "none" /\ k.policy \in force
  /\ k.at = "start" => r = "none" /\ LetOut(c, k, force)
  /\ k.at = "provider" => r = "running" /\ LetOut(c, k, force)
  /\ k.at = "finish" => r = "running" /\ LetOut(c, k, force) /\ k.outcome # "none"
  /\ k.at = "ended" =>
       \/ r = "denied" /\ k.decision.outcome = "blocked"
       \/ /\ r = IF k.outcome = "completed" THEN "completed" ELSE "failed"
          /\ LetOut(c, k, force) /\ k.outcome # "none"

(* Between its two reads a call has seen every policy of its profile that     *)
(* was active.                                                                *)
Covers(c) == call[c].at = "candidates" => Actives(CallOf[c].profile) \subseteq inForce[c]

CallInv ==
  CallTypes /\ \A c \in Calls : CallFits(c, call[c], row[c], inForce[c]) /\ Covers(c)

(* No call has read anything yet.                                             *)
LEMMA CallInvInit == PolicyInit => CallInv
  BY DEF PolicyInit, CallInv, CallTypes, IsCallRecord, CallFits, Covers, NoCall, PolicyMissing,
     Decided, Awaits, Rows

(* What was in force stays so for a call, and more may come.                  *)
LEMMA ForceGrows ==
  ASSUME NEW c, NEW k, NEW r, NEW force, NEW more, CallFits(c, k, r, force), force \subseteq more
  PROVE  CallFits(c, k, r, more)
  BY DEF CallFits, LetOut

(* A call stays let out while what it read and was decided stays.             *)
LEMMA LetOutStays ==
  ASSUME NEW c, NEW j, NEW k, NEW force, LetOut(c, j, force),
         k.policy = j.policy, k.source = j.source, k.decision = j.decision
  PROVE  LetOut(c, k, force)
  BY DEF LetOut

(* A call that takes a step of its own.                                       *)
LEMMA CallMoves ==
  ASSUME CallInv, NEW c \in Calls, NEW k, NEW r \in Rows, NEW force, IsCallRecord(k),
         call' = [call EXCEPT ![c] = k], row' = [row EXCEPT ![c] = r],
         inForce' = [inForce EXCEPT ![c] = force], policy' = policy,
         CallFits(c, k, r, force),
         k.at = "candidates" => Actives(CallOf[c].profile) \subseteq force
  PROVE  CallInv'
  <1>1. /\ call' = [e \in Calls |-> call'[e]] /\ inForce' = [e \in Calls |-> inForce'[e]]
        /\ \A e \in Calls : /\ call'[e] = IF e = c THEN k ELSE call[e]
                            /\ row'[e] = IF e = c THEN r ELSE row[e]
                            /\ inForce'[e] = IF e = c THEN force ELSE inForce[e]
    BY DEF CallInv, CallTypes
  <1>2. CallTypes'
    BY <1>1 DEF CallInv, CallTypes, IsCallRecord
  <1>3. \A e \in Calls : CallFits(e, call'[e], row'[e], inForce'[e])
    BY <1>1 DEF CallInv
  <1>4. \A e \in Calls : Covers(e)'
    BY <1>1 DEF CallInv, Covers, Actives
  <1> QED
    BY <1>2, <1>3, <1>4 DEF CallInv

(* A call that is where it is.                                                *)
LEMMA CallKnown ==
  ASSUME CallInv, NEW c \in Calls
  PROVE  /\ IsCallRecord(call[c]) /\ row[c] \in Rows /\ CallFits(c, call[c], row[c], inForce[c])
         /\ row' = row => row' = [row EXCEPT ![c] = row[c]]
         /\ inForce' = inForce => inForce' = [inForce EXCEPT ![c] = inForce[c]]
  BY DEF CallInv, CallTypes

(* The policy that a call reads is in force at that moment.                   *)
LEMMA ReadPolicyKeeps == ASSUME CallInv, NEW c \in Calls, ReadPolicy(c) PROVE CallInv'
  <1>1. PICK found : found = Active(CallOf[c].profile)
    OBVIOUS
  <1>2. PICK k : k = [call[c] EXCEPT !.policy = found,
                                     !.at = IF found = NoBaseline THEN "deny" ELSE "candidates"]
    OBVIOUS
  <1>3. /\ IsCallRecord(k) /\ k.policy = found /\ k.decision = call[c].decision
        /\ k.at = IF found = NoBaseline THEN "deny" ELSE "candidates"
        /\ call[c].at = "policy" /\ UNCHANGED <<row, policy>>
        /\ inForce' = [inForce EXCEPT ![c] = Actives(CallOf[c].profile)]
    BY <1>1, <1>2, CallKnown DEF ReadPolicy, IsCallRecord, Awaits
  <1>4. call' = [call EXCEPT ![c] = k]
    BY <1>1, <1>2 DEF ReadPolicy, CallInv, CallTypes
  <1>5. CallFits(c, k, row[c], Actives(CallOf[c].profile))
    <2>1. row[c] = "none" /\ call[c].decision.outcome = "blocked"
      BY <1>3, CallKnown DEF CallFits
    <2>2. found # NoBaseline => found \in Actives(CallOf[c].profile)
      BY <1>1, ActiveIs
    <2> QED
      BY <1>3, <2>1, <2>2 DEF CallFits
  <1> QED
    BY <1>3, <1>4, <1>5, CallKnown, CallMoves

(* The candidates come from a version that was in force, and so did the       *)
(* policy, whatever was activated between the two.                            *)
LEMMA ReadCandidatesKeeps ==
  ASSUME CallInv, NEW c \in Calls, NEW redacted, ReadCandidates(c, redacted)
  PROVE  CallInv'
  <1>1. PICK source : source = Active(CallOf[c].profile)
    OBVIOUS
  <1>2. PICK candidates : candidates = IF source = NoBaseline THEN {} ELSE Rules(source).candidates
    OBVIOUS
  <1>3. PICK verdict : verdict = EgressDecision(CallOf[c], Snapshot[call[c].policy].policy,
                                                  candidates, redacted)
    OBVIOUS
  <1>4. PICK k : k = [call[c] EXCEPT !.source = source, !.decision = verdict,
                        !.at = IF verdict.outcome = "allowed" THEN "start" ELSE "deny"]
    OBVIOUS
  <1>5. /\ IsCallRecord(k) /\ k.policy = call[c].policy /\ k.source = source /\ k.decision = verdict
        /\ k.at = IF verdict.outcome = "allowed" THEN "start" ELSE "deny"
        /\ call[c].at = "candidates" /\ UNCHANGED <<row, policy, inForce>>
    BY <1>4, CallKnown DEF ReadCandidates, IsCallRecord, Awaits
  <1>6. call' = [call EXCEPT ![c] = k]
    BY <1>1, <1>2, <1>3, <1>4 DEF ReadCandidates, CallInv, CallTypes
  <1>7. source # NoBaseline =>
          /\ source \in Versions /\ source \in Actives(CallOf[c].profile)
          /\ candidates = Snapshot[source].candidates
    BY <1>1, <1>2, ActiveIs DEF Actives, Rules
  <1>8. \A d \in candidates : d.priority \in Nat
    <2>1. \A v \in Versions : \A d \in Snapshot[v].candidates : d.priority \in Nat
      <3>1. \A v \in Versions : \A d \in Snapshot[v].candidates : IsCandidate(d)
        BY VersionAssumption, Zenon DEF IsSnapshot
      <3>2. ASSUME NEW d, IsCandidate(d) PROVE d.priority \in Nat
        <4>1. d.priority \in 0..MaxPriority
          BY <3>2, Zenon DEF IsCandidate
        <4> QED
          BY <4>1
      <3> QED
        BY <3>1, <3>2, Zenon
    <2>2. CASE source = NoBaseline
      BY <1>2, <2>2
    <2>3. CASE source # NoBaseline
      <3>1. source \in Versions /\ candidates = Snapshot[source].candidates
        BY <1>7, <2>3
      <3> QED
        BY <2>1, <3>1
    <2> QED
      BY <2>2, <2>3
  <1>9. /\ verdict.outcome \in {"allowed", "blocked"}
        /\ verdict.outcome = "allowed" =>
             /\ candidates # {} /\ verdict.selected \subseteq candidates
             /\ \A chosen \in verdict.selected, s \in SourcesOf(CallOf[c]) :
                  Permits(Snapshot[call[c].policy].policy, chosen, s)
    BY <1>3, <1>8, DecisionAllows
  <1>10. /\ row[c] = "none" /\ call[c].policy \in inForce[c]
         /\ Actives(CallOf[c].profile) \subseteq inForce[c]
    BY <1>5 DEF CallInv, CallFits, Covers
  <1>11. verdict.outcome = "allowed" => LetOut(c, k, inForce[c])
    BY <1>2, <1>5, <1>7, <1>9, <1>10 DEF LetOut
  <1>12. CallFits(c, k, row[c], inForce[c])
    BY <1>5, <1>9, <1>10, <1>11 DEF CallFits
  <1> QED
    BY <1>5, <1>6, <1>12, CallKnown, CallMoves

(* A call that was blocked is recorded as denied.                             *)
LEMMA DenyCallKeeps == ASSUME CallInv, NEW c \in Calls, DenyCall(c) PROVE CallInv'
  <1>1. PICK k : k = [call[c] EXCEPT !.at = "ended"]
    OBVIOUS
  <1>2. /\ IsCallRecord(k) /\ k.decision = call[c].decision /\ k.at = "ended"
        /\ call[c].at = "deny" /\ row' = [row EXCEPT ![c] = "denied"] /\ UNCHANGED <<policy, inForce>>
    BY <1>1, CallKnown DEF DenyCall, IsCallRecord, Awaits
  <1>3. call' = [call EXCEPT ![c] = k]
    BY <1>1 DEF DenyCall, CallInv, CallTypes
  <1>4. CallFits(c, k, "denied", inForce[c]) /\ "denied" \in Rows
    BY <1>2, CallKnown DEF CallFits, Rows
  <1> QED
    BY <1>2, <1>3, <1>4, CallKnown, CallMoves

(* The row is written before the call goes out.                               *)
LEMMA StartCallKeeps == ASSUME CallInv, NEW c \in Calls, StartCall(c) PROVE CallInv'
  <1>1. PICK k : k = [call[c] EXCEPT !.at = "provider"]
    OBVIOUS
  <1>2. /\ IsCallRecord(k) /\ k.policy = call[c].policy /\ k.source = call[c].source
        /\ k.decision = call[c].decision /\ k.at = "provider"
        /\ call[c].at = "start" /\ row' = [row EXCEPT ![c] = "running"] /\ UNCHANGED <<policy, inForce>>
    BY <1>1, CallKnown DEF StartCall, IsCallRecord, Awaits
  <1>3. call' = [call EXCEPT ![c] = k]
    BY <1>1 DEF StartCall, CallInv, CallTypes
  <1>4. CallFits(c, k, "running", inForce[c]) /\ "running" \in Rows
    BY <1>2, CallKnown, LetOutStays DEF CallFits, Rows
  <1> QED
    BY <1>2, <1>3, <1>4, CallKnown, CallMoves

(* Whatever the provider answers comes to an outcome.                         *)
LEMMA InvokeKeeps ==
  ASSUME CallInv, NEW c \in Calls, NEW reply \in Answers, NEW valid \in BOOLEAN, Invoke(c, reply, valid)
  PROVE  CallInv'
  <1>1. PICK k : k = [call[c] EXCEPT !.outcome = OutcomeOf(reply, valid), !.at = "finish"]
    OBVIOUS
  <1>2. /\ IsCallRecord(k) /\ k.policy = call[c].policy /\ k.source = call[c].source
        /\ k.decision = call[c].decision /\ k.at = "finish" /\ k.outcome = OutcomeOf(reply, valid)
        /\ call[c].at = "provider" /\ UNCHANGED <<row, policy, inForce>>
    BY <1>1, CallKnown DEF Invoke, IsCallRecord, Awaits
  <1>3. call' = [call EXCEPT ![c] = k]
    BY <1>1 DEF Invoke, CallInv, CallTypes
  <1>4. OutcomeOf(reply, valid) # "none"
    BY DEF OutcomeOf, Answers
  <1>5. CallFits(c, k, row[c], inForce[c])
    BY <1>2, <1>4, CallKnown, LetOutStays DEF CallFits
  <1>6. /\ row' = [row EXCEPT ![c] = row[c]] /\ row[c] \in Rows
        /\ inForce' = [inForce EXCEPT ![c] = inForce[c]]
    BY <1>2, CallKnown
  <1>7. IsCallRecord(k) /\ k.at = "finish" /\ policy' = policy
    BY <1>2
  <1> QED
    BY <1>3, <1>5, <1>6, <1>7, CallMoves

(* The row says what the outcome was.                                         *)
LEMMA FinishCallKeeps == ASSUME CallInv, NEW c \in Calls, FinishCall(c) PROVE CallInv'
  <1>1. PICK k : k = [call[c] EXCEPT !.at = "ended"]
    OBVIOUS
  <1>2. PICK r : r = IF call[c].outcome = "completed" THEN "completed" ELSE "failed"
    OBVIOUS
  <1>3. /\ IsCallRecord(k) /\ k.policy = call[c].policy /\ k.source = call[c].source
        /\ k.decision = call[c].decision /\ k.at = "ended" /\ k.outcome = call[c].outcome
        /\ call[c].at = "finish" /\ row' = [row EXCEPT ![c] = r] /\ UNCHANGED <<policy, inForce>>
    BY <1>1, <1>2, CallKnown DEF FinishCall, IsCallRecord, Awaits
  <1>4. call' = [call EXCEPT ![c] = k]
    BY <1>1 DEF FinishCall, CallInv, CallTypes
  <1>5. CallFits(c, k, r, inForce[c]) /\ r \in Rows
    BY <1>2, <1>3, CallKnown, LetOutStays DEF CallFits, Rows
  <1> QED
    BY <1>3, <1>4, <1>5, CallKnown, CallMoves

(* Steps of the administrators: what becomes active is in force for every     *)
(* call that is being decided.                                                *)
LEMMA CallsWait ==
  ASSUME CallInv, UNCHANGED <<call, row>>,
         inForce' = [c \in Calls |-> inForce'[c]],
         \A c \in Calls : inForce[c] \subseteq inForce'[c],
         \A c \in Calls : call[c].at = "candidates" =>
           \A v \in Versions : policy'[v] = "active" => policy[v] = "active" \/ v \in inForce'[c]
  PROVE  CallInv'
  <1>1. CallTypes'
    BY DEF CallInv, CallTypes, IsCallRecord
  <1>2. \A c \in Calls : CallFits(c, call[c], row[c], inForce'[c])
    BY ForceGrows DEF CallInv
  <1>3. \A c \in Calls : Covers(c)'
    BY DEF CallInv, Covers, Actives
  <1> QED
    BY <1>1, <1>2, <1>3 DEF CallInv

(* No step breaks the invariant of the calls.                                 *)
LEMMA CallInvNext == CallInv /\ [PolicyNext]_policyVars => CallInv'
  <1> SUFFICES ASSUME CallInv, [PolicyNext]_policyVars PROVE CallInv'
    OBVIOUS
  <1>0. inForce = [c \in Calls |-> inForce[c]]
    BY DEF CallInv, CallTypes
  <1>1. ASSUME NEW v \in Versions, SaveDraft(v) PROVE CallInv'
    <2>1. UNCHANGED <<call, row, inForce>>
      BY <1>1 DEF SaveDraft, callVars
    <2>2. \A w \in Versions : policy'[w] = "active" => policy[w] = "active"
      BY <1>1 DEF SaveDraft
    <2> QED
      BY <1>0, <2>1, <2>2, CallsWait
  <1>2. ASSUME NEW d \in Deliveries, Activate(d) PROVE CallInv'
    <2>1. UNCHANGED <<call, row>>
      BY <1>2 DEF Activate
    <2>2. inForce' = [c \in Calls |-> IF call[c].at \in {"candidates", "start"}
                                      THEN inForce[c] \union {v \in Versions : policy'[v] = "active"}
                                      ELSE inForce[c]]
      BY <1>2 DEF Activate
    <2> QED
      BY <2>1, <2>2, CallsWait
  <1>3. CASE \/ \E o \in Orders, v \in Versions : Review(o, v)
             \/ \E d \in Deliveries :
                  \/ \E o \in Orders : Deliver(d, o)
                  \/ LookUp(d) \/ ReadCandidate(d) \/ ReadBaseline(d) \/ RequireApproved(d)
             \/ PolicyTick \/ UNCHANGED policyVars
    <2>1. UNCHANGED <<policy, call, row, inForce>>
      BY <1>3 DEF Review, Deliver, LookUp, Replays, Conflicts, ReadCandidate, ReadBaseline,
        RequireApproved, PolicyTick, policyVars, callVars
    <2> QED
      BY <1>0, <2>1, CallsWait
  <1>4. ASSUME NEW c \in Calls, Calling(c) PROVE CallInv'
    BY <1>4, ReadPolicyKeeps, ReadCandidatesKeeps, DenyCallKeeps, StartCallKeeps, InvokeKeeps,
       FinishCallKeeps DEF Calling
  <1> QED
    BY <1>1, <1>2, <1>3, <1>4, Zenon DEF PolicyNext, Administration

(* Nothing leaves that a policy did not allow, for any number of calls, of    *)
(* policies and candidates, and of activations between a call's two reads.    *)
THEOREM EgressKept == PolicySpec => []EgressAllowed
  <1>1. CallInv => EgressAllowed
    BY DEF CallInv, CallTypes, IsCallRecord, Awaits, Rows, CallFits, LetOut, Permits, EgressAllowed
  <1>2. PolicySpec => []CallInv
    BY CallInvInit, CallInvNext, PTL DEF PolicySpec
  <1> QED
    BY <1>1, <1>2, PTL
=============================================================================
