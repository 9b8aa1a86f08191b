--------------------------- MODULE AdminBootstrap ---------------------------
(***************************************************************************)
(* How the first administrator comes to be: `pangi bootstrap` issues a grant,  *)
(* whose URL is carried to the browser by hand, and the browser turns the     *)
(* grant into an administrator (BootstrapAdminService,                        *)
(* SqliteBootstrapStore).  A request reads the clock and then waits for the   *)
(* write guard of each of its transactions; one that is cancelled, or whose   *)
(* process died, takes no further step.                                       *)
(***************************************************************************)
EXTENDS Integers, FiniteSets

CONSTANTS
  Requests,       \* issue_url and create_admin calls; a grant has the name of its call
  NoGrant,
  GrantTTL,       \* grant_ttl_minutes, in ticks
  MaxBootTime     \* bound on the clock

ASSUME BootAssumption ==
  /\ NoGrant \notin Requests
  /\ GrantTTL \in Nat \ {0} /\ MaxBootTime \in Nat

VARIABLES
  bootClock,
  request,   \* the await a call is in, the grant it presents and its clock
  grant,     \* bootstrap_grants: state, expiry, who consumed it
  admins     \* users whose role is admin, by the call that created them

bootVars == <<bootClock, request, grant, admins>>

Idle == [at |-> "idle", token |-> NoGrant, now |-> 0]
NotIssued == [state |-> "none", expires |-> 0, by |-> NoGrant]
Open(grants) == {g \in Requests : grants[g].state = "open"}

BootInit ==
  /\ bootClock = 0
  /\ request = [r \in Requests |-> Idle]
  /\ grant = [g \in Requests |-> NotIssued]
  /\ admins = {}

Waits(r, await) == request' = [request EXCEPT ![r].at = await]

(* issue_url, up to its transaction.                                          *)
AskGrant(r, await) ==
  /\ request[r] = Idle
  /\ request' = [request EXCEPT ![r] = [at |-> await, token |-> NoGrant, now |-> bootClock]]
  /\ UNCHANGED <<bootClock, grant, admins>>

Revoked(grants) ==
  [g \in Requests |-> IF grants[g].state = "open" THEN [grants[g] EXCEPT !.state = "revoked"]
                      ELSE grants[g]]

Issued(grants, r) ==
  [grants EXCEPT ![r] = [state |-> "open", expires |-> request[r].now + GrantTTL, by |-> NoGrant]]

(* Mutant: a rotation leaves the grants it replaces open.                     *)
RotateAlone(r) ==
  /\ request[r].at = "rotate"
  /\ admins = {}
  /\ grant' = Issued(grant, r)
  /\ Waits(r, "done")
  /\ UNCHANGED <<bootClock, admins>>

(* issue_grant: nothing once there is an administrator; a second grant only   *)
(* with --rotate, which revokes the one before.                               *)
Rotate(r) ==
  /\ request[r].at = "rotate"
  /\ admins = {}
  /\ grant' = Issued(Revoked(grant), r)
  /\ Waits(r, "done")
  /\ UNCHANGED <<bootClock, admins>>

IssueFirst(r) ==
  /\ request[r].at = "issue"
  /\ admins = {}
  /\ \A g \in Requests : grant[g].state = "none"
  /\ grant' = Issued(grant, r)
  /\ Waits(r, "done")
  /\ UNCHANGED <<bootClock, admins>>

IssueRefused(r) ==
  /\ request[r].at \in {"issue", "rotate"}
  /\ \/ admins # {}
     \/ request[r].at = "issue" /\ \E g \in Requests : grant[g].state # "none"
  /\ Waits(r, "refused")
  /\ UNCHANGED <<bootClock, grant, admins>>

(* create_admin reads the clock once for the preflight and the transaction.   *)
AskAdmin(r, g) ==
  /\ request[r] = Idle
  /\ grant[g].state # "none"
  /\ request' = [request EXCEPT ![r] = [at |-> "validate", token |-> g, now |-> bootClock]]
  /\ UNCHANGED <<bootClock, grant, admins>>

Usable(g, now) == grant[g].state = "open" /\ grant[g].expires > now

(* validate_grant, before the password is hashed.                             *)
ValidateGrant(r) ==
  /\ request[r].at = "validate"
  /\ Waits(r, IF Usable(request[r].token, request[r].now) THEN "create" ELSE "refused")
  /\ UNCHANGED <<bootClock, grant, admins>>

(* create_admin: the user, the identity and the consumed grant in one         *)
(* transaction, which checks the grant again.                                 *)
CreateAdmin(r) ==
  LET g == request[r].token IN
  /\ request[r].at = "create"
  /\ \/ /\ Usable(g, request[r].now)
        /\ admins = {}
        /\ admins' = {r}
        /\ grant' = [grant EXCEPT ![g].state = "consumed", ![g].by = r]
        /\ Waits(r, "done")
     \/ /\ ~Usable(g, request[r].now) \/ admins # {}
        /\ Waits(r, "refused")
        /\ UNCHANGED <<admins, grant>>
  /\ UNCHANGED <<bootClock>>

BootTick ==
  /\ bootClock < MaxBootTime
  /\ bootClock' = bootClock + 1
  /\ UNCHANGED <<request, grant, admins>>

BootNext ==
  \/ \E r \in Requests :
       \/ \E await \in {"issue", "rotate"} : AskGrant(r, await)
       \/ \E g \in Requests : AskAdmin(r, g)
       \/ Rotate(r) \/ IssueFirst(r) \/ IssueRefused(r)
       \/ ValidateGrant(r) \/ CreateAdmin(r)
  \/ BootTick

BootSpec == BootInit /\ [][BootNext]_bootVars

-----------------------------------------------------------------------------
(* Properties *)

BootTypeOK ==
  /\ bootClock \in 0..MaxBootTime
  /\ request \in [Requests -> [at : {"idle", "issue", "rotate", "validate", "create", "done", "refused"},
                               token : Requests \union {NoGrant}, now : 0..MaxBootTime]]
  /\ grant \in [Requests -> [state : {"none", "open", "revoked", "consumed"}, expires : Nat,
                             by : Requests \union {NoGrant}]]
  /\ admins \subseteq Requests

(* One grant, one administrator (issue_grant, create_admin): however issues,  *)
(* rotations and creations overlap, no two grants can be used, the bootstrap  *)
(* makes at most one administrator, who consumed a grant that was open and    *)
(* within its time, and from then on there is no grant left to use.           *)
BootstrapOnce ==
  /\ \A g, h \in Open(grant) : g = h
  /\ \A a, b \in admins : a = b
  /\ admins # {} => Open(grant) = {}
  /\ \A a \in admins : LET used == grant[request[a].token] IN
       used.state = "consumed" /\ used.by = a /\ request[a].now < used.expires
  /\ \A g \in Requests : grant[g].state = "consumed" => grant[g].by \in admins
=============================================================================
