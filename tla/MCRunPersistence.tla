----------------------------- MODULE MCRunPersistence -----------------------------
(* Two Runs: one delegates to b, which depends on a (a may be repeated, b may *)
(* not), the other answers directly.  Any caller, any order of calls.         *)
EXTENDS RunPersistence, TLC

CONSTANTS r1, r2, a, b

MCPlan == r1 :> {a, b} @@ r2 :> {}
MCDeps == a :> {} @@ b :> {a}
=============================================================================
