----------------------------- MODULE MCRunQueue -----------------------------
(* Two Runs: one delegates to b, which depends on a, the other answers        *)
(* directly.                                                                  *)
EXTENDS RunQueue, TLC

CONSTANTS r1, r2, a, b

MCPlan == r1 :> {a, b} @@ r2 :> {}
MCDeps == a :> {} @@ b :> {a}

(* Worker and task identities are interchangeable. *)
MCSymmetry == Permutations(Workers) \union Permutations(Tasks)
=============================================================================
