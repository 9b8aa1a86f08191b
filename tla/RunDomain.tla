----------------------------- MODULE RunDomain -----------------------------
(***************************************************************************)
(* The state machines of a Run and of a Run Step, as domain/runs.py states *)
(* them.  Every store below moves its rows along these edges only.         *)
(***************************************************************************)
EXTENDS Integers

RunStates ==
  {"received", "blocked", "planning", "queued", "running", "composing",
   "completed", "failed", "cancelled", "interrupted"}

StepStates ==
  {"queued", "running", "completed", "failed", "cancelled", "interrupted"}

RunEdges ==
  { <<"received", "blocked">>, <<"received", "planning">>,
    <<"received", "queued">>, <<"blocked", "completed">>,
    <<"planning", "queued">>, <<"planning", "failed">>,
    <<"queued", "running">>, <<"queued", "cancelled">>,
    <<"running", "composing">>, <<"running", "failed">>,
    <<"running", "cancelled">>, <<"running", "interrupted">>,
    <<"interrupted", "queued">>, <<"interrupted", "failed">>,
    <<"composing", "completed">>, <<"composing", "failed">> }

StepEdges ==
  { <<"queued", "running">>, <<"queued", "cancelled">>,
    <<"running", "completed">>, <<"running", "failed">>,
    <<"running", "cancelled">>, <<"running", "interrupted">>,
    <<"interrupted", "queued">>, <<"interrupted", "failed">> }

Terminal == {"completed", "failed", "cancelled"}

(* Failed or cancelled: the outcomes that fail a Run when the step is       *)
(* required and that block its dependants.                                  *)
Unsuccessful == {"failed", "cancelled"}

(* States in which a worker holds a lease on the Run. *)
Leased == {"running", "composing"}
=============================================================================
