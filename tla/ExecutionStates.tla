--------------------------- MODULE ExecutionStates ---------------------------
(***************************************************************************)
(* The life cycle of one mission execution: the states the platform        *)
(* stores, the transitions a gateway report may cause, and the rule that   *)
(* keeps an operator's request standing while the robot still reports the  *)
(* state it was in when the request was made.                              *)
(* Source: backend/app/services/fleet_commands.py.                         *)
(***************************************************************************)

\* States a gateway can confirm, and the platform's own pending requests.
TerminalStates  == {"completed", "failed", "cancelled"}
ReportedStates  == {"accepted", "running", "paused"} \union TerminalStates
RequestedStates == {"pause_requested", "resume_requested", "cancel_requested"}

\* ACTIVE_EXECUTION_STATES: the execution occupies its device.
ActiveStates == {"dispatched", "accepted", "running", "paused"}
                  \union RequestedStates

ExecutionStates == ActiveStates \union TerminalStates

\* Variant: a failed execution may be reported running again.
AllowedReopening(state) ==
  CASE state = "running" -> {"running", "paused"} \union TerminalStates
    [] state = "failed"  -> {"failed", "running"}
    [] OTHER -> {state, "accepted", "running"} \union TerminalStates

\* The transition table of apply_execution_telemetry.
Allowed(state) ==
  CASE state = "dispatched" ->
         {"dispatched", "accepted", "running", "failed", "cancelled"}
    [] state = "accepted" ->
         {"accepted", "running", "paused", "failed", "cancelled"}
    [] state = "running" ->
         {"running", "paused", "completed", "failed", "cancelled"}
    [] state = "paused" ->
         {"paused", "running", "failed", "cancelled"}
    [] state = "pause_requested" ->
         {"pause_requested", "paused", "completed", "failed", "cancelled"}
    [] state = "resume_requested" ->
         {"resume_requested", "running", "failed", "cancelled"}
    [] state = "cancel_requested" ->
         {"cancel_requested", "completed", "failed", "cancelled"}
    [] state \in TerminalStates -> {state}
    [] OTHER -> {}

(***************************************************************************)
(* An execution row x has a state and the state it was in when the pending *)
(* request was made (x.ret, "control_return_state").  A report of that     *)
(* very state leaves the request standing; any other report is taken as it *)
(* comes, and must then be in the table.                                   *)
(***************************************************************************)
Resolved(x, reported) ==
  IF x.state \in RequestedStates /\ reported = x.ret THEN x.state ELSE reported

Accepts(x, reported) == Resolved(x, reported) \in Allowed(x.state)

\* What a control request does to an execution row.
Requested(x, request) == [x EXCEPT !.ret = x.state, !.state = request]

=============================================================================
