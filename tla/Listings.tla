------------------------------ MODULE Listings ------------------------------
(***************************************************************************)
(* Reading a list page by page while it changes: Runs, audit events and      *)
(* model policies, each behind a cursor that names the last row of the page   *)
(* before and the query it belongs to, which the reader may change.  Text     *)
(* that orders rows (ids, ISO timestamps in UTC) is a number.                 *)
(***************************************************************************)
EXTENDS Integers, SequencesExt

CONSTANTS
  RowIds,      \* ids rows may have, in their order as text
  MaxCreated   \* bound on created_at

ASSUME ListAssumption ==
  RowIds \subseteq Nat /\ MaxCreated \in Nat \ {0}

NoCursor == [id |-> 0, created |-> 0, query |-> <<>>]

VARIABLES
  query,     \* the list, who asks, for which of its rows, and the limit
  listed,    \* the rows of that list
  cursor,    \* next_cursor of the last page
  reading,   \* whether the reader has begun, has reached the end, or was refused
  seen,      \* the ids it was given
  stayed,    \* rows there when it began that are there and not changed since
  used       \* the ids there have been: none comes twice

listVars == <<query, listed, cursor, reading, seen, stayed, used>>

(* Newest first.  What breaks a tie differs: the later id for Runs ...        *)
RunBefore(r, s) == r.created > s.created \/ (r.created = s.created /\ r.id > s.id)
(* ... and audit events, ...                                                  *)
AuditBefore(r, s) == r.created > s.created \/ (r.created = s.created /\ r.id > s.id)
(* ... the earlier one for policies.                                          *)
PolicyBefore(r, s) == r.created > s.created \/ (r.created = s.created /\ r.id < s.id)

Before(r, s) ==
  CASE query.list = "runs" -> RunBefore(r, s)
    [] query.list = "audit" -> AuditBefore(r, s)
    [] query.list = "policies" -> PolicyBefore(r, s)

(* A user's scope is the user's own Runs; an audit filter picks some events.   *)
Matches(r) == (query.pick = "some" => r.picked) /\ (query.open => r.open)

(* The rows beyond the one the cursor names.                                   *)
AfterCursor(r) == cursor = NoCursor \/ Before(cursor, r)

(* ORDER BY: the rows of a set, each before those that come after it.          *)
InOrder(rows, before(_, _)) ==
  CHOOSE s \in [1..Cardinality(rows) -> rows] :
    \A i, j \in DOMAIN s : i < j => before(s[i], s[j])

(* LIMIT limit + 1: one more than the page tells whether there is another.     *)
Fetched ==
  LET sorted == InOrder({r \in listed : Matches(r) /\ AfterCursor(r)}, Before)
  IN SubSeq(sorted, 1, IF Len(sorted) <= query.limit THEN Len(sorted) ELSE query.limit + 1)

-----------------------------------------------------------------------------
Queries ==
  [list : {"runs"}, reader : {1}, pick : {"all", "some"}, open : BOOLEAN, limit : {1, 2}]
    \union [list : {"audit"}, reader : {1}, pick : {"all", "some"}, open : {FALSE}, limit : {1, 2}]
    \union [list : {"policies"}, reader : {1, 2}, pick : {"all"}, open : {FALSE}, limit : {1, 2}]

NoQuery == [list |-> "none", reader |-> 1, pick |-> "all", open |-> FALSE, limit |-> 1]

(* What a cursor remembers of its query: who asks and the filters, not the     *)
(* limit.                                                                      *)
RunsFingerprint == <<query.reader, query.pick, query.open>>
AuditFingerprint == <<query.reader, query.pick>>
PoliciesFingerprint == <<query.reader>>

ListInit ==
  /\ query = NoQuery
  /\ listed = {} /\ cursor = NoCursor /\ reading = "no"
  /\ seen = <<>> /\ stayed = {} /\ used = {}

(* The list in question and what of it will be asked for.                      *)
AskList ==
  /\ query = NoQuery
  /\ query' \in Queries
  /\ UNCHANGED <<listed, cursor, reading, seen, stayed, used>>

(* A row arrives: created_at was read before its transaction, so it may be     *)
(* older than rows already there.                                              *)
Arrive ==
  /\ query # NoQuery
  /\ \E id \in RowIds \ used, created \in 1..MaxCreated,
        picked \in IF query.list = "policies" THEN {TRUE} ELSE BOOLEAN :
       /\ listed' = listed \union {[id |-> id, created |-> created, picked |-> picked, open |-> TRUE]}
       /\ used' = used \union {id}
  /\ UNCHANGED <<query, cursor, reading, seen, stayed>>

(* A Run leaves the states the reader asks for.                                *)
LeaveState ==
  /\ query.list = "runs"
  /\ \E r \in {x \in listed : x.open} :
       /\ listed' = (listed \ {r}) \union {[r EXCEPT !.open = FALSE]}
       /\ stayed' = stayed \ {r.id}
  /\ UNCHANGED <<query, cursor, reading, seen, used>>

(* purge_expired: the oldest rows not younger than the cutoff, up to a limit.  *)
PurgeExpired ==
  /\ query.list = "audit"
  /\ \E before \in 1..MaxCreated, limit \in 1..2 :
       LET expired == InOrder({r \in listed : r.created <= before}, LAMBDA r, s : Before(s, r))
           purged == ToSet(SubSeq(expired, 1, IF Len(expired) < limit THEN Len(expired) ELSE limit))
       IN /\ purged # {}
          /\ listed' = listed \ purged
          /\ stayed' = stayed \ {r.id : r \in purged}
  /\ UNCHANGED <<query, cursor, reading, seen, used>>

(* The cursor is used for other filters, another limit, another role or by     *)
(* somebody else.                                                              *)
TurnTo ==
  /\ reading = "on"
  /\ query' \in {q \in Queries \ {query} : q.list = query.list}
  /\ UNCHANGED <<listed, cursor, reading, seen, stayed, used>>

(* Mutant: any cursor will do.                                                 *)
ResumesAny(fingerprint) == TRUE

(* A cursor is good for the query it was made for.                             *)
Resumes(fingerprint) == cursor = NoCursor \/ cursor.query = fingerprint

PointAt(row, fingerprint) == [id |-> row.id, created |-> row.created, query |-> fingerprint]

(* One transaction a page.                                                     *)
Page(fingerprint) ==
  /\ reading \in {"no", "on"} /\ Resumes(fingerprint)
  /\ LET items == SubSeq(Fetched, 1, IF Len(Fetched) < query.limit THEN Len(Fetched) ELSE query.limit)
         more == Len(Fetched) > query.limit
     IN /\ seen' = seen \o [i \in DOMAIN items |-> items[i].id]
        /\ cursor' = IF more THEN PointAt(items[Len(items)], fingerprint) ELSE NoCursor
        /\ reading' = IF more THEN "on" ELSE "ended"
  /\ stayed' = IF reading = "no" THEN {r.id : r \in listed} ELSE stayed
  /\ UNCHANGED <<query, listed, used>>

(* The cursor is of another query: the request is invalid.                     *)
Refuse(fingerprint) ==
  /\ reading = "on" /\ ~Resumes(fingerprint)
  /\ reading' = "refused"
  /\ UNCHANGED <<query, listed, cursor, seen, stayed, used>>

ListRuns == query.list = "runs" /\ (Page(RunsFingerprint) \/ Refuse(RunsFingerprint))
ListEvents == query.list = "audit" /\ (Page(AuditFingerprint) \/ Refuse(AuditFingerprint))
ListPolicies == query.list = "policies" /\ (Page(PoliciesFingerprint) \/ Refuse(PoliciesFingerprint))

ListNext ==
  AskList \/ Arrive \/ LeaveState \/ PurgeExpired \/ TurnTo \/ ListRuns \/ ListEvents \/ ListPolicies

ListSpec == ListInit /\ [][ListNext]_listVars

-----------------------------------------------------------------------------
(* Properties *)

ListTypeOK ==
  /\ query \in Queries \union {NoQuery}
  /\ listed \subseteq [id : RowIds, created : 1..MaxCreated, picked : BOOLEAN, open : BOOLEAN]
  /\ reading \in {"no", "on", "ended", "refused"}
  /\ ToSet(seen) \subseteq RowIds /\ stayed \subseteq RowIds

(* A reader that reaches the end has been given every row of its query that    *)
(* was there from its first page on, and none twice, whatever arrived, changed *)
(* or was purged in between, and whatever filters it had before               *)
(* (sqlite/runs.py:490, audit.py:130, model_routing.py:165).                   *)
PagesComplete ==
  /\ IsInjective(seen)
  /\ reading = "ended" =>
       {r.id : r \in {x \in listed : x.id \in stayed /\ Matches(x)}} \subseteq ToSet(seen)
=============================================================================
