----------------------------- MODULE RunEvents -----------------------------
(***************************************************************************)
(* The events of a Run and how they are paged.  A log is the sequence of     *)
(* the visibilities of the Run's events: the index of an event is its place  *)
(* in it, because every writer takes MAX(event_index) + 1 in the transaction *)
(* that inserts.  Types, messages and attributes are not told apart.         *)
(***************************************************************************)
EXTENDS Integers, SequencesExt

Visibilities == {"public", "admin", "internal"}

(* RunEventService.list_events: an administrator sees the events for          *)
(* administrators too, and nobody sees the internal ones.                     *)
VisibleTo(role) == IF role = "admin" THEN {"public", "admin"} ELSE {"public"}

(* _append_event: the next index, which is the end of the log.                *)
Appended(log, visibility) == Append(log, visibility)

(* The WHERE clause of read_events, in the order of the index: what it has    *)
(* found at each event of the log.                                            *)
DueUpTo(log, after, role) ==
  LET found[n \in 0..Len(log)] ==
        IF n = 0 THEN <<>>
        ELSE IF n > after /\ log[n] \in VisibleTo(role) THEN Append(found[n - 1], n)
        ELSE found[n - 1]
  IN found

Due(log, after, role) == DueUpTo(log, after, role)[Len(log)]

FirstOf(s, n) == SubSeq(s, 1, IF n < Len(s) THEN n ELSE Len(s))

(* list_events asks for one event more than the page holds, and gives a       *)
(* cursor to the next page exactly when it got it.                            *)
Page(log, after, role, limit) ==
  LET fetched == FirstOf(Due(log, after, role), limit + 1)
  IN [items |-> FirstOf(fetched, limit), more |-> Len(fetched) > limit]

(* Where the reader goes on: after the last event it was given.               *)
CursorAfter(cursor, items) == IF items = <<>> THEN cursor ELSE Last(items)
=============================================================================
