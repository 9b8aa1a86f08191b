----------------------------- MODULE RateWindow -----------------------------
(***************************************************************************)
(* InMemoryInputRateLimiter: a window of request times per key, for at most  *)
(* MaxKeys keys.  windows[k] is the deque of key k, oldest first; a key that *)
(* is not in the dictionary has the empty window.                            *)
(***************************************************************************)
EXTENDS Integers, FiniteSets, SequencesExt

CONSTANTS
  Limit,      \* policy.rate_limit
  Window,     \* policy.rate_window_seconds, in ticks
  MaxKeys     \* max_keys

ASSUME RateAssumption == Limit \in Nat \ {0} /\ Window \in Nat \ {0} /\ MaxKeys \in Nat \ {0}

(* _active_requests: requests leave at the front, up to the first that is     *)
(* inside the cutoff.                                                         *)
Expired(window, now) == {n \in 0..Len(window) : \A i \in 1..n : window[i] <= now - Window}
ActiveRequests(window, now) == SubSeq(window, Max(Expired(window, now)) + 1, Len(window))

KeysIn(windows) == {k \in DOMAIN windows : windows[k] # <<>>}

(* min() over the time of the last request; any of those that tie.            *)
LeastRecent(windows) ==
  {k \in KeysIn(windows) : \A j \in KeysIn(windows) : Last(windows[k]) <= Last(windows[j])}

(* The keys one of which is forgotten to make room for k: none when there is  *)
(* room.                                                                      *)
ToForget(windows, k) ==
  IF windows[k] = <<>> /\ Cardinality(KeysIn(windows)) >= MaxKeys
  THEN LeastRecent(windows) ELSE {}

HasCapacity(windows, k, now) == Len(ActiveRequests(windows[k], now)) < Limit

(* reserve, when it returns None: the expired requests of k leave, a key is   *)
(* forgotten if it must be, and now joins the window of k.                    *)
Reserved(windows, k, now) ==
  LET pruned == [windows EXCEPT ![k] = ActiveRequests(@, now)]
      added == [pruned EXCEPT ![k] = Append(@, now)]
  IN IF ToForget(pruned, k) = {} THEN {added}
     ELSE {[added EXCEPT ![old] = <<>>] : old \in ToForget(pruned, k)}
=============================================================================
