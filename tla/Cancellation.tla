----------------------------- MODULE Cancellation -----------------------------
(***************************************************************************)
(* What the platform promises an operator of the cancellation of a task:   *)
(* it is durable, nothing is given to a robot for the task once it was     *)
(* requested, and it is confirmed only when no robot works on the task.    *)
(***************************************************************************)
CONSTANT Tasks

VARIABLES
  stage,   \* how far the cancellation of each task has come
  working  \* is a robot working on the task, or about to?

Stages == {"open", "requested", "confirmed"}

\* Before anybody asks, work comes and goes.
Proceed(t) ==
  /\ stage[t] = "open"
  /\ stage'[t] = "open"

\* Somebody asks while a robot works: it is not stopped yet.
Request(t) ==
  /\ stage[t] = "open" /\ working[t]
  /\ stage'[t] = "requested" /\ working'[t]

\* Work stops; it never starts again.
Stop(t) ==
  /\ stage[t] = "requested" /\ working[t]
  /\ stage'[t] = "requested" /\ ~working'[t]

\* The cancellation is confirmed: at once when there is nothing to stop.
Confirm(t) ==
  /\ stage[t] \in {"open", "requested"}
  /\ stage'[t] = "confirmed" /\ ~working'[t]

Stays(t) == stage'[t] = stage[t] /\ working'[t] = working[t]

Init ==
  /\ stage = [t \in Tasks |-> "open"]
  /\ working = [t \in Tasks |-> FALSE]

Next ==
  /\ stage' \in [Tasks -> Stages]
  /\ working' \in [Tasks -> BOOLEAN]
  /\ \A t \in Tasks : Proceed(t) \/ Request(t) \/ Stop(t) \/ Confirm(t) \/ Stays(t)

Spec == Init /\ [][Next]_<<stage, working>>
=============================================================================
