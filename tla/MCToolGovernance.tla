-------------------------- MODULE MCToolGovernance --------------------------
(* One tool with a policy that requires approvals, a stricter one that does   *)
(* not, and one that denies.                                                  *)
EXTENDS ToolGovernance, TLC

CONSTANTS approve, free, deny

MCMaxCalls == approve :> 2 @@ free :> 1 @@ deny :> 1
MCSnapshotOf == approve :> "s1" @@ free :> "s1" @@ deny :> "s1"

(* Calls and arguments are interchangeable. *)
MCSymmetry == Permutations(Calls) \union Permutations(Arguments)
=============================================================================
