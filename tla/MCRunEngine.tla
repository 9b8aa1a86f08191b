----------------------------- MODULE MCRunEngine ----------------------------
(* One Run and a plan in which everything the engine distinguishes occurs: b  *)
(* depends on the optional a, c depends on nothing and may not be repeated.   *)
EXTENDS RunQueue, TLC

CONSTANTS r1, a, b, c

MCPlan == r1 :> {a, b, c}
MCDeps == a :> {} @@ b :> {a} @@ c :> {}
=============================================================================
