--------------------------- MODULE CommandDelivery ---------------------------
(***************************************************************************)
(* The command queue between the platform and one device: operator and     *)
(* safety requests become durable commands, the device's gateway polls     *)
(* them in order of priority, obeys each once and acknowledges it, and     *)
(* only a telemetry report moves the mission.                              *)
(*                                                                         *)
(* The platform's side is exec (mission executions of the device), cmd     *)
(* (its device_commands rows) and queued.  The other variables are the     *)
(* gateway, which is not part of the repository and does what              *)
(* docs/DEVICE_GATEWAY_API.md asks of it: it keeps the commands it handled *)
(* and their outcomes, and polls and reports over HTTP, one request of     *)
(* each kind at a time.  Requests and responses may be lost.               *)
(***************************************************************************)
EXTENDS Integers, ExecutionStates

CONSTANTS
  MaxMissions,    \* bound: missions dispatched to the device in a behaviour
  Priorities,     \* priorities a mission's task, hence its mission_start, may have
  Requests        \* bound: the kinds of request that are made

Missions == 1..MaxMissions

ASSUME DeliveryAssumption ==
  /\ MaxMissions \in Nat
  /\ Priorities \subseteq Int
  /\ Requests \subseteq {"pause", "resume", "cancel", "hold"}

VARIABLES
  exec,      \* mission execution rows
  cmd,       \* command rows, by idempotency key
  queued,    \* number of commands created
  response,  \* commands of a poll response the gateway has not handled yet
  outcome,   \* what the gateway did with each command
  robot,     \* what the robot is doing about each mission
  report     \* a telemetry request on its way

platform == <<exec, cmd, queued>>
gateway  == <<response, outcome, robot, report>>
vars     == <<exec, cmd, queued, response, outcome, robot, report>>

NoMission == 0
NoReport  == [mission |-> NoMission, state |-> "none"]

(***************************************************************************)
(* Idempotency keys.  A control is keyed by its execution, and a safety    *)
(* hold by its device: there is one key, whatever mission it is about.     *)
(***************************************************************************)
Kinds   == {"start", "pause", "resume", "cancel"}
HoldKey == <<"hold", NoMission>>
Keys    == (Kinds \X Missions) \union {HoldKey}

CommandStates == {"absent", "pending", "delivered", "acknowledged", "failed"}

CommandRow == [status: CommandStates, mission: Missions \union {NoMission},
               priority: Int, order: Nat]
ExecRow    == [state: ExecutionStates \union {"absent"},
               ret: ExecutionStates \union {"none"}]

NoCommand == [status |-> "absent", mission |-> NoMission, priority |-> 0, order |-> 0]
NoExec    == [state |-> "absent", ret |-> "none"]

Outcomes == {"none", "acknowledged", "failed"}

\* The robot has taken a mission and its machinery may move.
Working     == {"accepted", "running", "paused", "stopping"}
RobotStates == {"unknown", "refused"} \union Working \union TerminalStates

\* PENDING_COMMAND_STATUSES
Open == {k \in Keys : cmd[k].status \in {"pending", "delivered"}}

\* The order of a poll response: higher priority first, then older first.
Precedes(j, k) ==
  \/ cmd[j].priority > cmd[k].priority
  \/ cmd[j].priority = cmd[k].priority /\ cmd[j].order < cmd[k].order

First(k) == \A j \in response : j # k => Precedes(k, j)

(***************************************************************************)
(* Requests of the scheduler, the operators and the safety rules.          *)
(***************************************************************************)
DefaultPriority == 90
HoldPriority    == 100

\* queue_command: a command whose key exists already is not queued again.
Queue(k, m, priority) ==
  IF cmd[k].status # "absent"
    THEN UNCHANGED <<cmd, queued>>
    ELSE /\ cmd' = [cmd EXCEPT ![k] = [status |-> "pending", mission |-> m,
                                       priority |-> priority,
                                       order |-> queued + 1]]
         /\ queued' = queued + 1

\* Variant: controls are urgent.
UrgentPriority(m) == HoldPriority

\* _mission_control_priority: of the start that waits, while nothing was reported
\* or requested.
ControlPriority(m) ==
  IF exec[m].state = "dispatched" THEN cmd[<<"start", m>>].priority ELSE DefaultPriority

\* Variant: a device is reserved only by a mission its robot has accepted.
DispatchUnreserved(m) ==
  /\ exec[m].state = "absent"
  /\ \A n \in 1..(m - 1) : exec[n].state \notin {"absent", "accepted", "running", "paused"}
  /\ exec' = [exec EXCEPT ![m] = [state |-> "dispatched", ret |-> "none"]]
  /\ \E p \in Priorities : Queue(<<"start", m>>, m, p)
  /\ UNCHANGED gateway

\* dispatch_mission, for a device that has no active execution.
Dispatch(m) ==
  /\ exec[m].state = "absent"
  /\ \A n \in Missions : exec[n].state \notin ActiveStates
  /\ \A n \in 1..(m - 1) : exec[n].state # "absent"
  /\ exec' = [exec EXCEPT ![m] = [state |-> "dispatched", ret |-> "none"]]
  /\ \E p \in Priorities : Queue(<<"start", m>>, m, p)
  /\ UNCHANGED gateway

Pause(m) ==
  /\ "pause" \in Requests
  /\ exec[m].state \in {"dispatched", "accepted", "running"}
  /\ Queue(<<"pause", m>>, m, ControlPriority(m))
  /\ exec' = [exec EXCEPT ![m] = Requested(@, "pause_requested")]
  /\ UNCHANGED gateway

\* Variant: a resume returns to the state recorded at the last request.
ResumeToReturn(m) ==
  /\ "resume" \in Requests
  /\ exec[m].state = "paused"
  /\ Queue(<<"resume", m>>, m, DefaultPriority)
  /\ exec' = [exec EXCEPT ![m].state = exec[m].ret]
  /\ UNCHANGED gateway

Resume(m) ==
  /\ "resume" \in Requests
  /\ exec[m].state = "paused"
  /\ Queue(<<"resume", m>>, m, DefaultPriority)
  /\ exec' = [exec EXCEPT ![m] = Requested(@, "resume_requested")]
  /\ UNCHANGED gateway

\* Variant: a cancellation is not queued behind an open pause.
CancelUnlessPausing(m) ==
  /\ "cancel" \in Requests
  /\ exec[m].state \in ActiveStates
  /\ IF <<"pause", m>> \in Open
       THEN UNCHANGED <<cmd, queued>>
       ELSE Queue(<<"cancel", m>>, m, ControlPriority(m))
  /\ exec' = [exec EXCEPT ![m] = Requested(@, "cancel_requested")]
  /\ UNCHANGED gateway

\* cancel_task; a cancellation for reassignment queues under the same key.
Cancel(m) ==
  /\ "cancel" \in Requests
  /\ exec[m].state \in ActiveStates
  /\ Queue(<<"cancel", m>>, m, ControlPriority(m))
  /\ exec' = [exec EXCEPT ![m] =
                IF @.state = "cancel_requested" THEN @ ELSE Requested(@, "cancel_requested")]
  /\ UNCHANGED gateway

\* _evaluate_safety; it queues the hold also when there is nothing to hold.
SafetyHold ==
  LET S == {m \in Missions : exec[m].state \in {"dispatched", "accepted", "running"}}
  IN /\ "hold" \in Requests
     /\ \/ /\ S = {}
           /\ Queue(HoldKey, NoMission, HoldPriority)
           /\ UNCHANGED exec
        \/ \E m \in S :
             /\ Queue(HoldKey, m, HoldPriority)
             /\ exec' = [exec EXCEPT ![m] = Requested(@, "pause_requested")]
     /\ UNCHANGED gateway

(***************************************************************************)
(* The command loop of the gateway.                                        *)
(***************************************************************************)

\* Variant: what was delivered once is not returned again.
PollOnce ==
  LET S == {k \in Open : cmd[k].status = "pending"}
  IN /\ response = {}
     /\ S # {}
     /\ response' = S
     /\ cmd' = [k \in Keys |-> IF k \in S THEN [cmd[k] EXCEPT !.status = "delivered"]
                                          ELSE cmd[k]]
     /\ UNCHANGED <<exec, queued, outcome, robot, report>>

\* pull_gateway_commands: every unacknowledged command is returned again.
Poll ==
  /\ response = {}
  /\ Open # {}
  /\ response' = Open
  /\ cmd' = [k \in Keys |-> IF k \in Open THEN [cmd[k] EXCEPT !.status = "delivered"]
                                          ELSE cmd[k]]
  /\ UNCHANGED <<exec, queued, outcome, robot, report>>

\* The response, or what is left of it when the gateway fails, is lost.
LoseResponse ==
  /\ response # {}
  /\ response' = {}
  /\ UNCHANGED <<exec, cmd, queued, outcome, robot, report>>

\* A command asks for a mission in one of the states from; the robot obeys if
\* it is there.
Obeys(k, from, to) ==
  LET m == cmd[k].mission
  IN IF m # NoMission /\ robot[m] \in from
       THEN /\ robot' = [robot EXCEPT ![m] = to]
            /\ outcome' = [outcome EXCEPT ![k] = "acknowledged"]
       ELSE /\ outcome' = [outcome EXCEPT ![k] = "failed"]
            /\ UNCHANGED robot

\* The robot may refuse any mission; it does not check for a second one.
Refuses(k) ==
  /\ robot' = [robot EXCEPT ![cmd[k].mission] = "refused"]
  /\ outcome' = [outcome EXCEPT ![k] = "failed"]

Obey(k) ==
  \/ /\ k[1] = "start"
     /\ Obeys(k, {"unknown"}, "accepted") \/ Refuses(k)
  \/ k[1] \in {"pause", "hold"} /\ Obeys(k, {"accepted", "running"}, "paused")
  \/ k[1] = "resume" /\ Obeys(k, {"paused"}, "running")
  \/ k[1] = "cancel" /\ Obeys(k, {"accepted", "running", "paused"}, "stopping")

\* Commands are handled in the order of the response, each once.
Handle(k) ==
  /\ k \in response
  /\ First(k)
  /\ response' = response \ {k}
  /\ IF outcome[k] = "none" THEN Obey(k) ELSE UNCHANGED <<outcome, robot>>
  /\ UNCHANGED <<exec, cmd, queued, report>>

\* Variant: any failed acknowledgement ends the execution, whatever its state.
AcknowledgeFails(k) ==
  /\ outcome[k] # "none"
  /\ k \in Open
  /\ cmd' = [cmd EXCEPT ![k].status = outcome[k]]
  /\ exec' = IF outcome[k] = "failed" /\ cmd[k].mission # NoMission
               THEN [exec EXCEPT ![cmd[k].mission] = [state |-> "failed", ret |-> "none"]]
               ELSE exec
  /\ UNCHANGED <<queued, gateway>>

\* acknowledge_gateway_command.  The gateway repeats an acknowledgement until it
\* is answered; a repeated one is the same and changes nothing.
Acknowledge(k) ==
  /\ outcome[k] # "none"
  /\ k \in Open
  /\ cmd' = [cmd EXCEPT ![k].status = outcome[k]]
  /\ exec' = IF /\ k[1] = "start"
                /\ outcome[k] = "failed"
                /\ exec[k[2]].state = "dispatched"
               THEN [exec EXCEPT ![k[2]] = [state |-> "failed", ret |-> "none"]]
               ELSE exec
  /\ UNCHANGED <<queued, gateway>>

(***************************************************************************)
(* The work of the robot and its telemetry loop.                           *)
(***************************************************************************)
Work(m) ==
  /\ \/ robot[m] = "accepted" /\ robot' = [robot EXCEPT ![m] = "running"]
     \/ robot[m] = "running"  /\ robot' = [robot EXCEPT ![m] = "completed"]
     \/ robot[m] \in Working  /\ robot' = [robot EXCEPT ![m] = "failed"]
  /\ UNCHANGED <<exec, cmd, queued, response, outcome, report>>

Stop(m) ==
  /\ robot[m] = "stopping"
  /\ robot' = [robot EXCEPT ![m] = "cancelled"]
  /\ UNCHANGED <<exec, cmd, queued, response, outcome, report>>

\* A robot that is still stopping reports that it is running.
Send(m) ==
  /\ report = NoReport
  /\ robot[m] \notin {"unknown", "refused"}
  /\ report' = [mission |-> m,
                state |-> IF robot[m] = "stopping" THEN "running" ELSE robot[m]]
  /\ UNCHANGED <<exec, cmd, queued, response, outcome, robot>>

\* apply_execution_telemetry, or its refusal.
Receive ==
  /\ report # NoReport
  /\ LET m == report.mission
         x == exec[m]
         s == Resolved(x, report.state)
     IN exec' = IF Accepts(x, report.state)
                  THEN [exec EXCEPT ![m] =
                          [state |-> s,
                           ret |-> IF s \in RequestedStates THEN x.ret ELSE "none"]]
                  ELSE exec
  /\ report' = NoReport
  /\ UNCHANGED <<cmd, queued, response, outcome, robot>>

LoseReport ==
  /\ report # NoReport
  /\ report' = NoReport
  /\ UNCHANGED <<exec, cmd, queued, response, outcome, robot>>

Init ==
  /\ exec = [m \in Missions |-> NoExec]
  /\ cmd = [k \in Keys |-> NoCommand]
  /\ queued = 0
  /\ response = {}
  /\ outcome = [k \in Keys |-> "none"]
  /\ robot = [m \in Missions |-> "unknown"]
  /\ report = NoReport

Next ==
  \/ \E m \in Missions : \/ Dispatch(m)
                         \/ Pause(m)
                         \/ Resume(m)
                         \/ Cancel(m)
                         \/ Work(m)
                         \/ Stop(m)
                         \/ Send(m)
  \/ \E k \in Keys : Handle(k) \/ Acknowledge(k)
  \/ SafetyHold
  \/ Poll
  \/ LoseResponse
  \/ Receive
  \/ LoseReport

(***************************************************************************)
(* The gateway polls, reports and repeats its acknowledgements for ever,   *)
(* and a robot told to stop stops.  The network may lose any message, but  *)
(* not all of them.  Operators, safety rules and the robot's own work are  *)
(* under no obligation.                                                    *)
(***************************************************************************)
Fairness ==
  /\ WF_vars(Poll)
  /\ SF_vars(Receive)
  /\ \A k \in Keys : SF_vars(Handle(k)) /\ WF_vars(Acknowledge(k))
  /\ \A m \in Missions : WF_vars(Stop(m)) /\ SF_vars(Send(m))

Spec == Init /\ [][Next]_vars /\ Fairness

-----------------------------------------------------------------------------
(***************************************************************************)
(* Properties.                                                             *)
(***************************************************************************)

\* The types of the rows and of the gateway's records.
TypeOK ==
  /\ exec \in [Missions -> ExecRow]
  /\ cmd \in [Keys -> CommandRow]
  /\ queued \in Nat
  /\ response \subseteq Keys
  /\ outcome \in [Keys -> Outcomes]
  /\ robot \in [Missions -> RobotStates]
  /\ report \in [mission: Missions, state: ReportedStates] \union {NoReport}

\* A pause was requested at the priority of the mission's start, or a hold was.
AskedEarly(m) ==
  \/ /\ cmd[<<"pause", m>>].status # "absent"
     /\ cmd[<<"pause", m>>].priority = cmd[<<"start", m>>].priority
  \/ cmd[HoldKey].status # "absent"

\* The one way for a control to overtake its start: the task is less urgent than
\* the default control, and a pause or a hold took the execution out of
\* dispatched, so that the cancellation after it no longer has the start's
\* priority.
Overtakable(m) == cmd[<<"start", m>>].priority < DefaultPriority /\ AskedEarly(m)

\* The robot has refused such a cancellation.
Overtaken(m) == Overtakable(m) /\ outcome[<<"cancel", m>>] = "failed"

\* No robot is handed an operator's control of a mission before its start,
\* whatever the task's priority, but a cancellation that overtakes it: never a
\* pause or a resume, and no cancellation unless the start was less urgent and a
\* pause or hold was requested before it.
StartBeforeControl ==
  \A m \in Missions, kind \in {"pause", "resume", "cancel"} :
    outcome[<<kind, m>>] # "none"
      => outcome[<<"start", m>>] # "none" \/ (kind = "cancel" /\ Overtaken(m))

\* What the platform believes ended has ended: it frees the device for another
\* mission only when the robot no longer works on this one.
StoppedMeansStopped ==
  \A m \in Missions :
    exec[m].state \in TerminalStates => robot[m] \notin Working

\* A robot never works on two missions.
OneMissionAtATime ==
  \A m, n \in Missions : robot[m] \in Working /\ robot[n] \in Working => m = n

\* A requested cancellation is never lost, unless it overtook its start: until the
\* robot has stopped working on the mission, or is stopping, the command is in
\* the queue.
CancelIsUnderway ==
  \A m \in Missions :
    exec[m].state = "cancel_requested"
      => \/ <<"cancel", m>> \in Open
         \/ robot[m] \notin {"accepted", "running", "paused"}
         \/ Overtaken(m)

\* Neither is a requested pause.
PauseIsUnderway ==
  \A m \in Missions :
    exec[m].state = "pause_requested"
      => \/ <<"pause", m>> \in Open
         \/ HoldKey \in Open
         \/ robot[m] \notin {"accepted", "running"}

\* A requested cancellation is answered, however often responses and reports
\* are lost, unless the robot refused the mission or the cancellation overtook
\* its start.
CancelIsAnswered ==
  \A m \in Missions :
    exec[m].state = "cancel_requested"
      ~> exec[m].state \in TerminalStates \/ robot[m] = "refused" \/ Overtaken(m)

=============================================================================
