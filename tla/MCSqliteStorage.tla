-------------------------- MODULE MCSqliteStorage --------------------------
(* Two processes, of which the second brings one migration more.              *)
EXTENDS SqliteStorage, TLC

CONSTANTS older, newer

MCPackage == older :> <<"m1">> @@ newer :> <<"m1", "m2">>
=============================================================================
