------------------------ MODULE CommandDeliveryProofs ------------------------
(***************************************************************************)
(* Proofs about CommandDelivery, for any number of missions and any        *)
(* priorities.                                                             *)
(*                                                                         *)
(* The argument.  Typed says that rows have their types and that a command *)
(* is about the mission of its key.  Rows relates executions and starts,   *)
(* Answers relates command rows and what the gateway did, Truth relates    *)
(* the platform's beliefs to the robot: together they are Safe.  Started   *)
(* says how far an execution gets before its start is handled; Queued and  *)
(* Handed follow a control behind its start through the queue, a poll      *)
(* response and the robot's hands, and leave out the one cancellation that *)
(* may overtake it: with Safe they are Ordered.                            *)
(***************************************************************************)
EXTENDS CommandDelivery, TLAPS

Controls == {"pause", "resume", "cancel"}

Closed == {"acknowledged", "failed"}

LEMMA KeyFacts ==
  /\ \A kind \in Kinds, m \in Missions : <<kind, m>> \in Keys
  /\ HoldKey \in Keys
  /\ \A k \in Keys : k = HoldKey \/ \E kind \in Kinds, m \in Missions : k = <<kind, m>>
  /\ \A k \in Keys : k[1] \in Kinds => k[2] \in Missions /\ k = <<k[1], k[2]>>
  /\ \A k \in Keys : k[1] \notin Kinds => k = HoldKey
  /\ \A kind \in Kinds, m \in Missions : <<kind, m>> # HoldKey
<1>1. \A m \in Missions : m \in Nat /\ m # NoMission
  BY DEF Missions, NoMission
<1>2. "hold" \notin Kinds
  BY DEF Kinds
<1> QED
  BY <1>1, <1>2 DEF Keys, HoldKey

\* What queue_command does to the rows.
LEMMA QueueEffect ==
  ASSUME TypeOK, NEW k \in Keys, NEW m \in Missions \union {NoMission},
         NEW p \in Int, Queue(k, m, p)
  PROVE  /\ cmd' \in [Keys -> CommandRow]
         /\ queued' \in Nat
         /\ queued <= queued'
         /\ \A j \in Keys : j # k => cmd'[j] = cmd[j]
         /\ cmd[k].status # "absent" => cmd' = cmd /\ queued' = queued
         /\ cmd[k].status = "absent" =>
              cmd'[k] = [status |-> "pending", mission |-> m, priority |-> p,
                         order |-> queued + 1] /\ queued' = queued + 1
BY DEF Queue, TypeOK, CommandRow, CommandStates

LEMMA PriorityType ==
  ASSUME TypeOK, NEW m \in Missions
  PROVE  ControlPriority(m) \in Int /\ Priorities \subseteq Int
<1>1. <<"start", m>> \in Keys
  BY KeyFacts DEF Kinds
<1> QED
  BY <1>1, DeliveryAssumption DEF ControlPriority, DefaultPriority, TypeOK, CommandRow

LEMMA RequestType ==
  ASSUME NEW x \in ExecRow, x.state # "absent", NEW request \in RequestedStates
  PROVE  Requested(x, request) \in ExecRow
BY DEF Requested, ExecRow, ExecutionStates, ActiveStates

\* The state a report leads to.
LEMMA ResolvedStates ==
  ASSUME NEW x \in ExecRow, NEW s \in ReportedStates, Accepts(x, s)
  PROVE  /\ Resolved(x, s) \in ExecutionStates
         /\ x.state # "absent"
         /\ Resolved(x, s) \in TerminalStates => Resolved(x, s) = s
         /\ x.state \in TerminalStates => Resolved(x, s) = x.state
         /\ Resolved(x, s) = "cancel_requested" => x.state = "cancel_requested"
BY DEF Accepts, Resolved, Allowed, ReportedStates, RequestedStates, ActiveStates,
       TerminalStates, ExecutionStates, ExecRow

\* A command is about the mission of its key, and only commands are delivered.
Addressed ==
  /\ \A kind \in Kinds, m \in Missions :
       cmd[<<kind, m>>].status # "absent" => cmd[<<kind, m>>].mission = m
  /\ \A k \in response : cmd[k].status # "absent"

Typed == TypeOK /\ Addressed

LEMMA QueueAddressed ==
  ASSUME Typed, NEW k \in Keys, NEW m \in Missions \union {NoMission}, NEW p \in Int,
         k = <<k[1], m>> \/ k = HoldKey, Queue(k, m, p), response' = response
  PROVE  Addressed'
<1>1. /\ \A j \in Keys : j # k => cmd'[j] = cmd[j]
      /\ cmd[k].status # "absent" => cmd' = cmd
      /\ cmd[k].status = "absent" => cmd'[k].mission = m /\ cmd'[k].status = "pending"
  <2>1. TypeOK
    BY DEF Typed
  <2>2. cmd[k].status = "absent" =>
          cmd'[k] = [status |-> "pending", mission |-> m, priority |-> p,
                     order |-> queued + 1]
    BY <2>1, QueueEffect
  <2> QED
    BY <2>1, <2>2, QueueEffect
<1>2. ASSUME NEW kind \in Kinds, NEW n \in Missions, cmd'[<<kind, n>>].status # "absent"
      PROVE  cmd'[<<kind, n>>].mission = n
  <2>1. <<kind, n>> \in Keys /\ <<kind, n>> # HoldKey
    BY KeyFacts
  <2>2. CASE <<kind, n>> = k
    <3>1. n = m
      BY <2>1, <2>2
    <3> QED
      BY <1>1, <1>2, <2>2, <3>1 DEF Typed, Addressed
  <2>3. CASE <<kind, n>> # k
    BY <1>1, <1>2, <2>1, <2>3 DEF Typed, Addressed
  <2> QED
    BY <2>2, <2>3
<1>3. ASSUME NEW j \in response' PROVE cmd'[j].status # "absent"
  BY <1>1, <1>3 DEF Typed, TypeOK, Addressed
<1> QED
  BY <1>2, <1>3 DEF Addressed

-----------------------------------------------------------------------------
LEMMA InitTypes == Init => Typed
<1> SUFFICES ASSUME Init PROVE Typed
  OBVIOUS
<1>1. NoExec \in ExecRow
  BY DEF NoExec, ExecRow
<1>2. NoCommand \in CommandRow
  BY DEF NoCommand, CommandRow, CommandStates, NoMission
<1>3. TypeOK
  BY <1>1, <1>2 DEF Init, TypeOK, Outcomes, RobotStates
<1> QED
  BY <1>3, KeyFacts DEF Init, Typed, Addressed, NoCommand

\* What the robot does with a command it has not handled.
LEMMA ObeyEffect ==
  ASSUME TypeOK, NEW k \in Keys, Obey(k),
         k[1] = "start" => cmd[k].mission \in Missions
  PROVE  /\ outcome' \in [Keys -> Outcomes]
         /\ outcome'[k] \in Closed
         /\ \A j \in Keys : j # k => outcome'[j] = outcome[j]
         /\ robot' \in [Missions -> RobotStates]
         /\ \A n \in Missions : n # cmd[k].mission => robot'[n] = robot[n]
         /\ k[1] = "start" =>
              LET m == cmd[k].mission
              IN \/ robot[m] = "unknown" /\ robot'[m] = "accepted" /\ outcome'[k] # "failed"
                 \/ robot[m] # "unknown" /\ robot'[m] = robot[m]
                 \/ robot'[m] = "refused"
         /\ k[1] # "start" =>
              \A m \in Missions :
                \/ robot'[m] = robot[m]
                \/ /\ robot[m] \in {"accepted", "running", "paused"}
                   /\ robot'[m] \in {"paused", "running", "stopping"}
         /\ k[1] = "cancel" /\ cmd[k].mission \in Missions =>
              robot'[cmd[k].mission] \notin {"accepted", "running", "paused"}
<1> DEFINE m == cmd[k].mission
<1>1. m \in Missions \union {NoMission} /\ NoMission \notin Missions
  BY DEF TypeOK, CommandRow, Missions, NoMission
<1>2. CASE k[1] = "start"
  <2>1. m \in Missions
    BY <1>2
  <2>2. CASE Obeys(k, {"unknown"}, "accepted")
    BY <1>1, <1>2, <2>1, <2>2
       DEF Obeys, TypeOK, Outcomes, Closed, RobotStates, Working
  <2>3. CASE Refuses(k)
    BY <1>1, <1>2, <2>1, <2>3
       DEF Refuses, TypeOK, Outcomes, Closed, RobotStates, Working
  <2> QED
    BY <1>2, <2>2, <2>3 DEF Obey
<1>3. CASE k[1] \in {"pause", "hold"}
  BY <1>1, <1>3 DEF Obey, Obeys, TypeOK, Outcomes, Closed, RobotStates, Working
<1>4. CASE k[1] = "resume"
  BY <1>1, <1>4 DEF Obey, Obeys, TypeOK, Outcomes, Closed, RobotStates, Working
<1>5. CASE k[1] = "cancel"
  BY <1>1, <1>5 DEF Obey, Obeys, TypeOK, Outcomes, Closed, RobotStates, Working
<1> QED
  BY <1>2, <1>3, <1>4, <1>5 DEF Obey

LEMMA StepTypes == Typed /\ [Next]_vars => Typed'
<1> SUFFICES ASSUME Typed, [Next]_vars PROVE Typed'
  OBVIOUS
<1>0. TypeOK /\ Addressed
  BY DEF Typed
<1>1. ASSUME NEW m \in Missions, Dispatch(m) PROVE Typed'
  <2>1. <<"start", m>> \in Keys
    BY KeyFacts DEF Kinds
  <2>2. cmd' \in [Keys -> CommandRow] /\ queued' \in Nat /\ Addressed'
    BY <1>0, <1>1, <2>1, QueueEffect, QueueAddressed, PriorityType DEF Dispatch, gateway
  <2>3. [state |-> "dispatched", ret |-> "none"] \in ExecRow
    BY DEF ExecRow, ExecutionStates, ActiveStates, RequestedStates
  <2> QED
    BY <1>0, <1>1, <2>2, <2>3 DEF Dispatch, Typed, TypeOK, gateway
<1>2. ASSUME NEW m \in Missions, Pause(m) PROVE Typed'
  <2>1. <<"pause", m>> \in Keys
    BY KeyFacts DEF Kinds
  <2>2. cmd' \in [Keys -> CommandRow] /\ queued' \in Nat /\ Addressed'
    BY <1>0, <1>2, <2>1, QueueEffect, QueueAddressed, PriorityType DEF Pause, gateway
  <2>3. Requested(exec[m], "pause_requested") \in ExecRow
    BY <1>0, <1>2, RequestType DEF Pause, TypeOK, RequestedStates
  <2> QED
    BY <1>0, <1>2, <2>2, <2>3 DEF Pause, Typed, TypeOK, gateway
<1>3. ASSUME NEW m \in Missions, Resume(m) PROVE Typed'
  <2>1. <<"resume", m>> \in Keys /\ DefaultPriority \in Int
    BY KeyFacts DEF Kinds, DefaultPriority
  <2>2. cmd' \in [Keys -> CommandRow] /\ queued' \in Nat /\ Addressed'
    BY <1>0, <1>3, <2>1, QueueEffect, QueueAddressed DEF Resume, gateway
  <2>3. Requested(exec[m], "resume_requested") \in ExecRow
    BY <1>0, <1>3, RequestType DEF Resume, TypeOK, RequestedStates
  <2> QED
    BY <1>0, <1>3, <2>2, <2>3 DEF Resume, Typed, TypeOK, gateway
<1>4. ASSUME NEW m \in Missions, Cancel(m) PROVE Typed'
  <2>1. <<"cancel", m>> \in Keys
    BY KeyFacts DEF Kinds
  <2>2. cmd' \in [Keys -> CommandRow] /\ queued' \in Nat /\ Addressed'
    BY <1>0, <1>4, <2>1, QueueEffect, QueueAddressed, PriorityType DEF Cancel, gateway
  <2>3. Requested(exec[m], "cancel_requested") \in ExecRow
    BY <1>0, <1>4, RequestType DEF Cancel, TypeOK, ActiveStates, RequestedStates
  <2> QED
    BY <1>0, <1>4, <2>2, <2>3 DEF Cancel, Typed, TypeOK, gateway
<1>5. CASE SafetyHold
  <2>1. HoldKey \in Keys /\ HoldPriority \in Int
    BY KeyFacts DEF HoldPriority
  <2>2. PICK m \in Missions \union {NoMission} : Queue(HoldKey, m, HoldPriority)
    BY <1>5 DEF SafetyHold
  <2>3. cmd' \in [Keys -> CommandRow] /\ queued' \in Nat /\ Addressed'
    BY <1>0, <1>5, <2>1, <2>2, QueueEffect, QueueAddressed DEF SafetyHold, gateway, Typed
  <2>4. \A n \in Missions :
          exec[n].state \in {"dispatched", "accepted", "running"}
            => Requested(exec[n], "pause_requested") \in ExecRow
    BY <1>0, RequestType DEF TypeOK, RequestedStates
  <2>5. exec' \in [Missions -> ExecRow]
    BY <1>0, <1>5, <2>4 DEF SafetyHold, TypeOK
  <2> QED
    BY <1>0, <1>5, <2>3, <2>5 DEF SafetyHold, Typed, TypeOK, gateway
<1>6. CASE Poll
  <2>1. TypeOK'
    BY <1>0, <1>6 DEF Poll, TypeOK, Open, CommandRow, CommandStates
  <2>2. \A k \in Keys : /\ cmd'[k].mission = cmd[k].mission
                        /\ cmd'[k].status = IF k \in Open THEN "delivered" ELSE cmd[k].status
    BY <1>0, <1>6 DEF Poll, TypeOK, CommandRow
  <2>3. Addressed'
    BY <1>0, <1>6, <2>2, KeyFacts DEF Poll, Addressed, Open
  <2> QED
    BY <2>1, <2>3 DEF Typed
<1>7. CASE LoseResponse
  BY <1>0, <1>7 DEF LoseResponse, Typed, TypeOK, Addressed
<1>8. ASSUME NEW k \in Keys, Handle(k) PROVE  Typed'
  <2>1. CASE outcome[k] = "none"
    <3>1. k[1] = "start" => cmd[k].mission \in Missions
      BY <1>0, <1>8, KeyFacts DEF Handle, Addressed, Kinds
    <3> QED
      BY <1>0, <1>8, <2>1, <3>1, ObeyEffect DEF Handle, Typed, TypeOK, Addressed
  <2>2. CASE outcome[k] # "none"
    BY <1>0, <1>8, <2>2 DEF Handle, Typed, TypeOK, Addressed
  <2> QED
    BY <2>1, <2>2
<1>9. ASSUME NEW k \in Keys, Acknowledge(k) PROVE Typed'
  <2>1. outcome[k] \in Closed
    BY <1>0, <1>9 DEF Acknowledge, TypeOK, Outcomes, Closed
  <2>2. [state |-> "failed", ret |-> "none"] \in ExecRow
    BY DEF ExecRow, ExecutionStates, TerminalStates
  <2>3. cmd' \in [Keys -> CommandRow]
    BY <1>0, <1>9, <2>1 DEF Acknowledge, TypeOK, CommandRow, Closed, CommandStates
  <2>4. exec' \in [Missions -> ExecRow]
    BY <1>0, <1>9, <2>2, KeyFacts DEF Acknowledge, TypeOK, Kinds
  <2>5. /\ \A j \in Keys : j # k => cmd'[j] = cmd[j]
        /\ cmd'[k].status \in Closed /\ cmd'[k].mission = cmd[k].mission
    BY <1>0, <1>9, <2>1 DEF Acknowledge, TypeOK, CommandRow
  <2>6. cmd[k].status # "absent" /\ response' = response
    BY <1>9 DEF Acknowledge, Open, gateway
  <2>7. Addressed'
    BY <1>0, <2>5, <2>6, KeyFacts DEF Addressed, TypeOK, Closed
  <2> QED
    BY <1>0, <1>9, <2>3, <2>4, <2>7 DEF Acknowledge, Typed, TypeOK, gateway
<1>10. ASSUME NEW m \in Missions, Work(m) \/ Stop(m) PROVE Typed'
  BY <1>0, <1>10
     DEF Work, Stop, Typed, TypeOK, Addressed, RobotStates, Working, TerminalStates
<1>11. ASSUME NEW m \in Missions, Send(m) PROVE Typed'
  <2>1. robot[m] \in Working \union TerminalStates
    BY <1>0, <1>11 DEF Send, TypeOK, RobotStates
  <2>2. report' \in [mission: Missions, state: ReportedStates]
    BY <1>11, <2>1 DEF Send, Working, TerminalStates, ReportedStates
  <2> QED
    BY <1>0, <1>11, <2>2 DEF Send, Typed, TypeOK, Addressed
<1>12. CASE Receive
  <2> DEFINE m == report.mission
             x == exec[m]
             s == Resolved(x, report.state)
  <2>1. m \in Missions /\ report.state \in ReportedStates /\ x \in ExecRow
    BY <1>0, <1>12 DEF Receive, TypeOK
  <2>2. Accepts(x, report.state)
          => [state |-> s,
              ret |-> IF s \in RequestedStates THEN x.ret ELSE "none"] \in ExecRow
    BY <2>1, ResolvedStates DEF ExecRow
  <2>3. exec' \in [Missions -> ExecRow]
    BY <1>0, <1>12, <2>1, <2>2 DEF Receive, TypeOK
  <2> QED
    BY <1>0, <1>12, <2>3 DEF Receive, Typed, TypeOK, Addressed
<1>13. CASE LoseReport
  BY <1>0, <1>13 DEF LoseReport, Typed, TypeOK, Addressed
<1>14. CASE UNCHANGED vars
  BY <1>0, <1>14 DEF vars, Typed, TypeOK, Addressed
<1>15. Next \/ UNCHANGED vars
  OBVIOUS
<1> QED
  BY <1>1, <1>2, <1>3, <1>4, <1>5, <1>6, <1>7, <1>8, <1>9, <1>10, <1>11, <1>12,
     <1>13, <1>14, <1>15 DEF Next

-----------------------------------------------------------------------------
(***************************************************************************)
(* The platform and the robot.  A mission has an execution exactly when    *)
(* its start was queued, and only one is active.  A command is handled     *)
(* only after it was queued, and closed only after it was handled.  The    *)
(* robot knows a mission once it handled its start, has refused it if the  *)
(* start failed, and has stopped working on whatever is reported or        *)
(* recorded as ended.                                                      *)
(***************************************************************************)
Rows ==
  /\ \A m \in Missions :
       exec[m].state = "absent" <=> cmd[<<"start", m>>].status = "absent"
  /\ \A m, n \in Missions :
       exec[m].state \in ActiveStates /\ exec[n].state \in ActiveStates => m = n

Answers ==
  \A k \in Keys :
    /\ outcome[k] # "none" => cmd[k].status # "absent"
    /\ cmd[k].status \in Closed => outcome[k] = cmd[k].status

Truth ==
  /\ \A m \in Missions :
       /\ outcome[<<"start", m>>] = "none" => robot[m] = "unknown"
       /\ outcome[<<"start", m>>] = "failed" => robot[m] = "refused"
       /\ exec[m].state \in TerminalStates => robot[m] \in {"refused"} \union TerminalStates
  /\ report.state \in TerminalStates => robot[report.mission] = report.state

Safe == Typed /\ Rows /\ Answers /\ Truth

\* A request of an operator or of the safety rules: it queues nothing but a
\* control, and moves nothing but an active execution.
ControlRequest ==
  \/ \E m \in Missions : Pause(m) \/ Resume(m) \/ Cancel(m)
  \/ SafetyHold

LEMMA ControlEffect ==
  ASSUME Typed, ControlRequest
  PROVE  /\ UNCHANGED <<response, outcome, robot, report>>
         /\ \A k \in Keys : \/ cmd'[k] = cmd[k]
                            \/ /\ k[1] # "start"
                               /\ cmd[k].status = "absent"
                               /\ cmd'[k].status = "pending"
         /\ \A m \in Missions : \/ exec'[m] = exec[m]
                                \/ /\ exec[m].state \in ActiveStates
                                   /\ exec'[m].state \in RequestedStates
<1>0. TypeOK
  BY DEF Typed
<1>1. ASSUME NEW k \in Keys, NEW m \in Missions \union {NoMission}, NEW p \in Int,
             Queue(k, m, p), k[1] # "start"
      PROVE  \A j \in Keys : \/ cmd'[j] = cmd[j]
                             \/ /\ j[1] # "start"
                                /\ cmd[j].status = "absent"
                                /\ cmd'[j].status = "pending"
  <2>1. /\ \A j \in Keys : j # k => cmd'[j] = cmd[j]
        /\ cmd[k].status # "absent" => cmd' = cmd
        /\ cmd[k].status = "absent" =>
             cmd'[k] = [status |-> "pending", mission |-> m, priority |-> p,
                        order |-> queued + 1]
    BY <1>0, <1>1, QueueEffect
  <2>2. cmd[k].status = "absent" => cmd'[k].status = "pending"
    BY <2>1
  <2> QED
    BY <1>1, <2>1, <2>2
<1>2. ASSUME NEW m \in Missions, NEW request \in RequestedStates,
             exec' = [exec EXCEPT ![m] = Requested(@, request)],
             exec[m].state \in ActiveStates
      PROVE  \A n \in Missions : \/ exec'[n] = exec[n]
                                 \/ /\ exec[n].state \in ActiveStates
                                    /\ exec'[n].state \in RequestedStates
  BY <1>0, <1>2 DEF TypeOK, ExecRow, Requested
<1>3. ASSUME NEW m \in Missions, Pause(m) \/ Resume(m) \/ Cancel(m)
      PROVE  \E kind \in Controls : \E p \in Int : Queue(<<kind, m>>, m, p)
  BY <1>0, <1>3, PriorityType DEF Pause, Resume, Cancel, Controls, DefaultPriority
<1>4. \A kind \in Controls, m \in Missions :
        <<kind, m>> \in Keys /\ <<kind, m>>[1] # "start"
  BY KeyFacts DEF Controls, Kinds
<1>5. HoldKey \in Keys /\ HoldKey[1] # "start" /\ HoldPriority \in Int
  BY KeyFacts DEF HoldKey, HoldPriority
<1>6. CASE SafetyHold
  <2>1. PICK m \in Missions \union {NoMission} : Queue(HoldKey, m, HoldPriority)
    BY <1>6 DEF SafetyHold
  <2>2. \/ exec' = exec
        \/ \E n \in Missions : /\ exec[n].state \in {"dispatched", "accepted", "running"}
                               /\ exec' = [exec EXCEPT ![n] = Requested(@, "pause_requested")]
    BY <1>6 DEF SafetyHold
  <2>3. \A n \in Missions : \/ exec'[n] = exec[n]
                            \/ /\ exec[n].state \in ActiveStates
                               /\ exec'[n].state \in RequestedStates
    BY <1>2, <2>2 DEF ActiveStates, RequestedStates
  <2> QED
    BY <1>1, <1>5, <1>6, <2>1, <2>3 DEF SafetyHold, gateway
<1>7. ASSUME NEW m \in Missions, Pause(m) \/ Resume(m) \/ Cancel(m)
      PROVE  \A n \in Missions : \/ exec'[n] = exec[n]
                                 \/ /\ exec[n].state \in ActiveStates
                                    /\ exec'[n].state \in RequestedStates
  <2>1. CASE Pause(m)
    BY <1>2, <2>1 DEF Pause, ActiveStates, RequestedStates
  <2>2. CASE Resume(m)
    BY <1>2, <2>2 DEF Resume, ActiveStates, RequestedStates
  <2>3. CASE Cancel(m)
    <3>1. CASE exec[m].state = "cancel_requested"
      BY <1>0, <2>3, <3>1 DEF Cancel, TypeOK
    <3>2. CASE exec[m].state # "cancel_requested"
      <4>1. exec' = [exec EXCEPT ![m] = Requested(@, "cancel_requested")]
        BY <1>0, <2>3, <3>2 DEF Cancel, TypeOK
      <4> QED
        BY <1>2, <2>3, <4>1 DEF Cancel, RequestedStates
    <3> QED
      BY <3>1, <3>2
  <2> QED
    BY <1>7, <2>1, <2>2, <2>3
<1>8. ASSUME NEW m \in Missions, Pause(m) \/ Resume(m) \/ Cancel(m)
      PROVE  UNCHANGED <<response, outcome, robot, report>>
  BY <1>8 DEF Pause, Resume, Cancel, gateway
<1>9. ASSUME NEW m \in Missions, Pause(m) \/ Resume(m) \/ Cancel(m)
      PROVE  \A k \in Keys : \/ cmd'[k] = cmd[k]
                             \/ /\ k[1] # "start"
                                /\ cmd[k].status = "absent"
                                /\ cmd'[k].status = "pending"
  <2>1. PICK kind \in Controls, p \in Int : Queue(<<kind, m>>, m, p)
    BY <1>3, <1>9
  <2> QED
    BY <1>1, <1>4, <2>1
<1> QED
  BY <1>6, <1>7, <1>8, <1>9 DEF ControlRequest

LEMMA DispatchEffect ==
  ASSUME Typed, NEW m \in Missions, Dispatch(m)
  PROVE  /\ UNCHANGED <<response, outcome, robot, report>>
         /\ \A k \in Keys : k # <<"start", m>> => cmd'[k] = cmd[k]
         /\ cmd'[<<"start", m>>] = cmd[<<"start", m>>] \/
              /\ cmd[<<"start", m>>].status = "absent"
              /\ cmd'[<<"start", m>>].status = "pending"
              /\ cmd'[<<"start", m>>].order = queued'
              /\ queued' = queued + 1
         /\ cmd'[<<"start", m>>].status # "absent"
         /\ exec'[m].state = "dispatched"
         /\ \A n \in Missions : n # m => exec'[n] = exec[n]
         /\ queued \in Nat /\ queued' \in Nat /\ queued <= queued'
<1>1. TypeOK /\ <<"start", m>> \in Keys
  BY KeyFacts DEF Typed, Kinds
<1>2. PICK p \in Priorities : Queue(<<"start", m>>, m, p)
  BY DEF Dispatch
<1>p. p \in Int
  BY DeliveryAssumption
<1>3. /\ \A j \in Keys : j # <<"start", m>> => cmd'[j] = cmd[j]
      /\ queued' \in Nat /\ queued <= queued'
      /\ cmd[<<"start", m>>].status # "absent" => cmd' = cmd
      /\ cmd[<<"start", m>>].status = "absent" =>
           cmd'[<<"start", m>>] = [status |-> "pending", mission |-> m,
                  priority |-> p, order |-> queued + 1]
             /\ queued' = queued + 1
  BY <1>1, <1>2, <1>p, QueueEffect
<1>4. UNCHANGED <<response, outcome, robot, report>>
  BY DEF Dispatch, gateway
<1>5. exec'[m].state = "dispatched" /\ \A n \in Missions : n # m => exec'[n] = exec[n]
  BY <1>1 DEF Dispatch, TypeOK
<1> QED
  BY <1>1, <1>3, <1>4, <1>5 DEF TypeOK


-----------------------------------------------------------------------------
LEMMA InitSafe == Init => Safe
<1> SUFFICES ASSUME Init PROVE Safe
  OBVIOUS
<1>1. Typed
  BY InitTypes
<1>2. Rows
  BY KeyFacts DEF Init, Rows, NoExec, NoCommand, Kinds, ActiveStates, RequestedStates
<1>3. Answers
  BY DEF Init, Answers, NoCommand, Closed
<1>4. Truth
  BY KeyFacts DEF Init, Truth, NoExec, NoReport, Kinds, TerminalStates
<1> QED
  BY <1>1, <1>2, <1>3, <1>4 DEF Safe

LEMMA StepRows == Safe /\ [Next]_vars => Rows'
<1> SUFFICES ASSUME Safe, [Next]_vars PROVE Rows'
  OBVIOUS
<1>0. Typed /\ TypeOK /\ Addressed /\ Rows /\ Answers
  BY DEF Safe, Typed
<1>s. \A m \in Missions : <<"start", m>> \in Keys /\ <<"start", m>>[1] = "start"
  BY KeyFacts DEF Kinds
<1>a. "absent" \notin ActiveStates /\ RequestedStates \subseteq ActiveStates
  BY DEF ActiveStates, RequestedStates
<1>1. CASE ControlRequest
  BY <1>0, <1>1, <1>s, <1>a, ControlEffect DEF Rows, RequestedStates
<1>2. ASSUME NEW m \in Missions, Dispatch(m) PROVE Rows'
  <2>1. \A n \in Missions : exec[n].state \notin ActiveStates
    BY <1>2 DEF Dispatch
  <2>2. \A n \in Missions : n # m => <<"start", n>> # <<"start", m>>
    OBVIOUS
  <2>3. \A n \in Missions : n # m => /\ exec'[n] = exec[n]
                                     /\ cmd'[<<"start", n>>] = cmd[<<"start", n>>]
    BY <1>0, <1>2, <1>s, <2>2, DispatchEffect
  <2>4. exec'[m].state = "dispatched" /\ cmd'[<<"start", m>>].status # "absent"
    BY <1>0, <1>2, DispatchEffect
  <2> QED
    BY <1>0, <2>1, <2>3, <2>4 DEF Rows
<1>3. CASE Poll
  <2>1. \A k \in Keys : cmd'[k].status = IF k \in Open THEN "delivered" ELSE cmd[k].status
    BY <1>0, <1>3 DEF Poll, TypeOK, CommandRow
  <2>2. \A k \in Keys : cmd'[k].status = "absent" <=> cmd[k].status = "absent"
    BY <2>1 DEF Open
  <2> QED
    BY <1>0, <1>3, <1>s, <2>2 DEF Poll, Rows
<1>4. ASSUME NEW k \in Keys, Acknowledge(k) PROVE Rows'
  <2>1. outcome[k] \in Closed /\ cmd[k].status # "absent"
    BY <1>0, <1>4 DEF Acknowledge, TypeOK, Outcomes, Closed, Open
  <2>2. \A j \in Keys : cmd'[j].status = "absent" <=> cmd[j].status = "absent"
    BY <1>0, <1>4, <2>1 DEF Acknowledge, TypeOK, CommandRow, Closed
  <2>3. \A m \in Missions : \/ exec'[m] = exec[m]
                            \/ exec[m].state = "dispatched" /\ exec'[m].state = "failed"
    BY <1>0, <1>4 DEF Acknowledge, TypeOK
  <2>4. "failed" \notin ActiveStates
    BY DEF ActiveStates, RequestedStates
  <2> QED
    BY <1>0, <1>s, <1>a, <2>2, <2>3, <2>4 DEF Rows
<1>5. CASE Receive
  <2> DEFINE n == report.mission
  <2>1. n \in Missions /\ report.state \in ReportedStates /\ exec[n] \in ExecRow
    BY <1>0, <1>5 DEF Receive, TypeOK
  <2>2. CASE Accepts(exec[n], report.state)
    <3>1. /\ exec'[n].state = Resolved(exec[n], report.state)
          /\ \A m \in Missions : m # n => exec'[m] = exec[m]
      BY <1>0, <1>5, <2>1, <2>2 DEF Receive, TypeOK
    <3>2. exec[n].state # "absent" /\ exec'[n].state # "absent"
      BY <2>1, <2>2, <3>1, ResolvedStates DEF ExecutionStates, ActiveStates, RequestedStates, TerminalStates
    <3>3. exec'[n].state \in ActiveStates => exec[n].state \in ActiveStates
      <4>1. exec[n].state \in TerminalStates => exec'[n].state = exec[n].state
        BY <2>1, <2>2, <3>1, ResolvedStates
      <4> QED
        BY <2>1, <3>2, <4>1 DEF ExecRow, ExecutionStates
    <3> QED
      BY <1>0, <1>5, <3>1, <3>2, <3>3 DEF Receive, Rows
  <2>3. CASE ~Accepts(exec[n], report.state)
    BY <1>0, <1>5, <2>3 DEF Receive, Rows
  <2> QED
    BY <2>2, <2>3
<1>6. ASSUME UNCHANGED <<exec, cmd>> PROVE Rows'
  BY <1>0, <1>6 DEF Rows
<1>7. ASSUME NEW m \in Missions, Work(m) \/ Stop(m) \/ Send(m) PROVE Rows'
  BY <1>6, <1>7 DEF Work, Stop, Send
<1>8. ASSUME NEW k \in Keys, Handle(k) PROVE Rows'
  BY <1>6, <1>8 DEF Handle
<1>9. CASE LoseResponse \/ LoseReport \/ UNCHANGED vars
  BY <1>6, <1>9 DEF LoseResponse, LoseReport, vars
<1> QED
  BY <1>1, <1>2, <1>3, <1>4, <1>5, <1>7, <1>8, <1>9 DEF Next, ControlRequest

LEMMA StepAnswers == Safe /\ [Next]_vars => Answers'
<1> SUFFICES ASSUME Safe, [Next]_vars PROVE Answers'
  OBVIOUS
<1>0. Typed /\ TypeOK /\ Addressed /\ Rows /\ Answers
  BY DEF Safe, Typed
<1>1. CASE ControlRequest
  <2>1. \A k \in Keys : \/ cmd'[k] = cmd[k]
                        \/ cmd[k].status = "absent" /\ cmd'[k].status = "pending"
    BY <1>0, <1>1, ControlEffect
  <2>2. outcome' = outcome
    BY <1>0, <1>1, ControlEffect
  <2> QED
    BY <1>0, <2>1, <2>2 DEF Answers, Closed
<1>2. ASSUME NEW m \in Missions, Dispatch(m) PROVE Answers'
  <2>1. \A k \in Keys : \/ cmd'[k] = cmd[k]
                        \/ cmd[k].status = "absent" /\ cmd'[k].status = "pending"
    BY <1>0, <1>2, DispatchEffect
  <2>2. outcome' = outcome
    BY <1>0, <1>2, DispatchEffect
  <2> QED
    BY <1>0, <2>1, <2>2 DEF Answers, Closed
<1>3. CASE Poll
  <2>1. \A k \in Keys : cmd'[k].status = IF k \in Open THEN "delivered" ELSE cmd[k].status
    BY <1>0, <1>3 DEF Poll, TypeOK, CommandRow
  <2> QED
    BY <1>0, <1>3, <2>1 DEF Poll, Answers, Closed, Open
<1>4. ASSUME NEW k \in Keys, Handle(k) PROVE Answers'
  <2>1. cmd[k].status # "absent" /\ cmd' = cmd
    BY <1>0, <1>4 DEF Handle, Addressed
  <2>2. CASE outcome[k] = "none"
    <3>1. k[1] = "start" => cmd[k].mission \in Missions
      BY <1>0, <2>1, KeyFacts DEF Addressed, Kinds
    <3>2. \A j \in Keys : j # k => outcome'[j] = outcome[j]
      BY <1>0, <1>4, <2>2, <3>1, ObeyEffect DEF Handle
    <3>3. cmd[k].status \notin Closed
      BY <1>0, <2>2 DEF Answers, Closed
    <3> QED
      BY <1>0, <2>1, <3>2, <3>3 DEF Answers
  <2>3. CASE outcome[k] # "none"
    BY <1>0, <1>4, <2>1, <2>3 DEF Handle, Answers
  <2> QED
    BY <2>2, <2>3
<1>5. ASSUME NEW k \in Keys, Acknowledge(k) PROVE Answers'
  <2>1. /\ \A j \in Keys : j # k => cmd'[j] = cmd[j]
        /\ cmd'[k].status = outcome[k]
        /\ outcome' = outcome
    BY <1>0, <1>5 DEF Acknowledge, TypeOK, CommandRow, gateway
  <2>2. outcome[k] # "absent"
    BY <1>0 DEF TypeOK, Outcomes
  <2> QED
    BY <1>0, <2>1, <2>2 DEF Answers
<1>6. ASSUME UNCHANGED <<outcome, cmd>> PROVE Answers'
  BY <1>0, <1>6 DEF Answers
<1>7. ASSUME NEW m \in Missions, Work(m) \/ Stop(m) \/ Send(m) PROVE Answers'
  BY <1>6, <1>7 DEF Work, Stop, Send
<1>8. CASE LoseResponse \/ LoseReport \/ Receive \/ UNCHANGED vars
  BY <1>6, <1>8 DEF LoseResponse, LoseReport, Receive, vars
<1> QED
  BY <1>1, <1>2, <1>3, <1>4, <1>5, <1>7, <1>8 DEF Next, ControlRequest


LEMMA StepTruth == Safe /\ [Next]_vars => Truth'
<1> SUFFICES ASSUME Safe, [Next]_vars PROVE Truth'
  OBVIOUS
<1>0. Typed /\ TypeOK /\ Addressed /\ Rows /\ Answers /\ Truth
  BY DEF Safe, Typed
<1>s. \A m \in Missions : <<"start", m>> \in Keys /\ <<"start", m>>[1] = "start"
  BY KeyFacts DEF Kinds
<1>t. /\ NoReport.state \notin TerminalStates
      /\ RequestedStates \intersect TerminalStates = {}
      /\ Closed \subseteq Outcomes \ {"none"}
      /\ TerminalStates \intersect ({"unknown", "refused"} \union Working) = {}
  BY DEF NoReport, TerminalStates, RequestedStates, Closed, Outcomes, Working
<1>r. report.state \in TerminalStates => report.mission \in Missions
  BY <1>0, <1>t DEF TypeOK
<1>1. CASE ControlRequest
  <2>1. \A m \in Missions : exec'[m].state \in TerminalStates => exec[m].state \in TerminalStates
    BY <1>0, <1>1, <1>t, ControlEffect
  <2>2. UNCHANGED <<outcome, robot, report>>
    BY <1>0, <1>1, ControlEffect
  <2> QED
    BY <1>0, <2>1, <2>2 DEF Truth
<1>2. ASSUME NEW m \in Missions, Dispatch(m) PROVE Truth'
  <2>1. exec'[m].state = "dispatched" /\ \A n \in Missions : n # m => exec'[n] = exec[n]
    BY <1>0, <1>2, DispatchEffect
  <2>2. UNCHANGED <<outcome, robot, report>>
    BY <1>0, <1>2, DispatchEffect
  <2> QED
    BY <1>0, <2>1, <2>2 DEF Truth, TerminalStates
<1>3. ASSUME NEW k \in Keys, Handle(k) PROVE Truth'
  <2>1. cmd[k].status # "absent" /\ exec' = exec /\ report' = report
    BY <1>0, <1>3 DEF Handle, Addressed
  <2>2. CASE outcome[k] # "none"
    BY <1>0, <1>3, <2>1, <2>2 DEF Handle, Truth
  <2>3. CASE outcome[k] = "none" /\ k[1] = "start"
    <3> DEFINE m == k[2]
    <3>1. m \in Missions /\ k = <<"start", m>> /\ cmd[k].mission = m
      BY <1>0, <2>1, <2>3, KeyFacts DEF Addressed, Kinds
    <3>2. robot[m] = "unknown"
      BY <1>0, <2>3, <3>1 DEF Truth
    <3>3. /\ outcome'[k] \in Closed
          /\ \A j \in Keys : j # k => outcome'[j] = outcome[j]
          /\ \A n \in Missions : n # m => robot'[n] = robot[n]
          /\ \/ robot'[m] = "accepted" /\ outcome'[k] # "failed"
             \/ robot'[m] = "refused"
             \/ robot[m] # "unknown"
      BY <1>0, <1>3, <2>3, <3>1, ObeyEffect DEF Handle
    <3>4. exec[m].state \notin TerminalStates
      BY <1>0, <1>t, <3>1, <3>2 DEF Truth
    <3>5. report.state \in TerminalStates => report.mission # m
      BY <1>0, <1>t, <3>1, <3>2 DEF Truth
    <3>6. ASSUME NEW n \in Missions, n # m
          PROVE  /\ robot'[n] = robot[n]
                 /\ outcome'[<<"start", n>>] = outcome[<<"start", n>>]
      <4>1. <<"start", n>> # k
        BY <3>1, <3>6
      <4> QED
        BY <1>s, <3>3, <3>6, <4>1
    <3>7. report.state \in TerminalStates => robot'[report.mission] = robot[report.mission]
      BY <1>r, <3>5, <3>6
    <3>8. ASSUME NEW n \in Missions
          PROVE  /\ outcome'[<<"start", n>>] = "none" => robot'[n] = "unknown"
                 /\ outcome'[<<"start", n>>] = "failed" => robot'[n] = "refused"
                 /\ exec[n].state \in TerminalStates
                      => robot'[n] \in {"refused"} \union TerminalStates
      <4>1. CASE n = m
        BY <1>t, <3>1, <3>2, <3>3, <3>4, <4>1
      <4>2. CASE n # m
        BY <1>0, <3>6, <4>2 DEF Truth
      <4> QED
        BY <4>1, <4>2
    <3> QED
      BY <1>0, <2>1, <3>7, <3>8 DEF Truth
  <2>4. CASE outcome[k] = "none" /\ k[1] # "start"
    <3>1. /\ \A j \in Keys : j # k => outcome'[j] = outcome[j]
          /\ \A m \in Missions : \/ robot'[m] = robot[m]
                                 \/ robot[m] \in {"accepted", "running", "paused"}
      BY <1>0, <1>3, <2>4, ObeyEffect DEF Handle
    <3>2. \A m \in Missions : outcome'[<<"start", m>>] = outcome[<<"start", m>>]
      BY <1>s, <2>4, <3>1
    <3>3. report.state \in TerminalStates => robot'[report.mission] = robot[report.mission]
      BY <1>0, <1>r, <1>t, <3>1 DEF Truth, Working
    <3> QED
      BY <1>0, <1>t, <2>1, <3>1, <3>2, <3>3 DEF Truth, Working
  <2> QED
    BY <2>2, <2>3, <2>4
<1>4. ASSUME NEW k \in Keys, Acknowledge(k) PROVE Truth'
  <2>1. ASSUME NEW m \in Missions, exec'[m] # exec[m] PROVE robot[m] = "refused"
    <3>1. k[1] = "start" /\ outcome[k] = "failed" /\ k[2] = m
      BY <1>0, <1>4, <2>1 DEF Acknowledge, TypeOK
    <3>2. k = <<"start", m>>
      BY <3>1, KeyFacts DEF Kinds
    <3> QED
      BY <1>0, <3>1, <3>2 DEF Truth
  <2>2. UNCHANGED <<outcome, robot, report>>
    BY <1>4 DEF Acknowledge, gateway
  <2> QED
    BY <1>0, <2>1, <2>2 DEF Truth
<1>5. ASSUME NEW m \in Missions, Work(m) \/ Stop(m) PROVE Truth'
  <2>1. /\ UNCHANGED <<exec, outcome, report>>
        /\ robot[m] \in Working
        /\ \A n \in Missions : n # m => robot'[n] = robot[n]
    BY <1>0, <1>5 DEF Work, Stop, Working, TypeOK
  <2>2. exec[m].state \notin TerminalStates /\ outcome[<<"start", m>>] \notin {"none", "failed"}
    BY <1>0, <1>t, <2>1 DEF Truth, Working
  <2>3. report.state \in TerminalStates => report.mission # m
    BY <1>0, <1>t, <2>1 DEF Truth
  <2> QED
    BY <1>0, <1>r, <2>1, <2>2, <2>3 DEF Truth
<1>6. ASSUME NEW m \in Missions, Send(m) PROVE Truth'
  <2>1. /\ UNCHANGED <<exec, outcome, robot>>
        /\ report'.mission = m
        /\ report'.state = IF robot[m] = "stopping" THEN "running" ELSE robot[m]
    BY <1>6 DEF Send
  <2> QED
    BY <1>0, <1>t, <2>1 DEF Truth, TerminalStates
<1>7. CASE Receive
  <2> DEFINE n == report.mission
  <2>1. n \in Missions /\ report.state \in ReportedStates /\ exec[n] \in ExecRow
    BY <1>0, <1>7 DEF Receive, TypeOK
  <2>2. UNCHANGED <<outcome, robot>> /\ report' = NoReport
    BY <1>7 DEF Receive
  <2>3. \A m \in Missions : m # n => exec'[m] = exec[m]
    BY <1>0, <1>7, <2>1 DEF Receive, TypeOK
  <2>4. ASSUME exec'[n].state \in TerminalStates
        PROVE  robot[n] \in {"refused"} \union TerminalStates
    <3>1. CASE Accepts(exec[n], report.state)
      <4>1. exec'[n].state = Resolved(exec[n], report.state)
        BY <1>0, <1>7, <2>1, <3>1 DEF Receive, TypeOK
      <4>2. report.state \in TerminalStates
        BY <2>1, <2>4, <3>1, <4>1, ResolvedStates
      <4> QED
        BY <1>0, <4>2 DEF Truth
    <3>2. CASE ~Accepts(exec[n], report.state)
      <4>1. exec' = exec
        BY <1>7, <3>2 DEF Receive
      <4> QED
        BY <1>0, <2>1, <2>4, <4>1 DEF Truth
    <3> QED
      BY <3>1, <3>2
  <2> QED
    BY <1>0, <1>t, <2>2, <2>3, <2>4 DEF Truth
<1>8. CASE Poll \/ LoseResponse \/ UNCHANGED vars
  BY <1>0, <1>8 DEF Poll, LoseResponse, vars, Truth
<1>9. CASE LoseReport
  BY <1>0, <1>9, <1>t DEF LoseReport, Truth
<1> QED
  BY <1>1, <1>2, <1>3, <1>4, <1>5, <1>6, <1>7, <1>8, <1>9 DEF Next, ControlRequest

LEMMA SafeInvariance == Spec => []Safe
<1>1. Init => Safe
  BY InitSafe
<1>2. Safe /\ [Next]_vars => Safe'
  BY StepTypes, StepRows, StepAnswers, StepTruth DEF Safe
<1> QED
  BY <1>1, <1>2, PTL DEF Spec

\* Every reachable state has the declared types.
THEOREM TypesHold == Spec => []TypeOK
<1>1. Safe => TypeOK
  BY DEF Safe, Typed
<1> QED
  BY <1>1, SafeInvariance, PTL

\* fleet_commands.py:478: an execution is recorded as ended, and its device
\* freed, only when the robot has ended the mission or refused it, however
\* commands, acknowledgements and reports are delayed or lost.
THEOREM EndedMissionsAreStopped == Spec => []StoppedMeansStopped
<1>1. Safe => StoppedMeansStopped
  BY DEF Safe, Truth, StoppedMeansStopped, Working, TerminalStates
<1> QED
  BY <1>1, SafeInvariance, PTL

\* dispatch_mission: as a device is given one mission at a time, no robot ever
\* works on two, although it does not check for itself.
THEOREM NoRobotSharesItself == Spec => []OneMissionAtATime
<1>1. ASSUME Safe, NEW m \in Missions, robot[m] \in Working
      PROVE  exec[m].state \in ActiveStates
  <2>1. TypeOK /\ <<"start", m>> \in Keys
    BY <1>1, KeyFacts DEF Safe, Typed, Kinds
  <2>2. outcome[<<"start", m>>] # "none"
    BY <1>1 DEF Safe, Truth, Working
  <2>3. exec[m].state # "absent"
    BY <1>1, <2>1, <2>2 DEF Safe, Answers, Rows
  <2>4. exec[m].state \notin TerminalStates
    BY <1>1 DEF Safe, Truth, Working, TerminalStates
  <2> QED
    BY <2>1, <2>3, <2>4 DEF TypeOK, ExecRow, ExecutionStates
<1>2. Safe => OneMissionAtATime
  BY <1>1 DEF OneMissionAtATime, Safe, Rows
<1> QED
  BY <1>2, SafeInvariance, PTL


-----------------------------------------------------------------------------
(***************************************************************************)
(* Order.  Before its start is handled an execution is dispatched, or a    *)
(* pause, a hold or a cancellation of it was requested, and nothing was    *)
(* reported.  So every control of a mission follows its start into the     *)
(* queue, into a poll response and into the hands of the robot, except a   *)
(* cancellation that overtakes it; and a robot that was handed any other   *)
(* cancellation no longer works on the mission.                            *)
(***************************************************************************)
Started ==
  /\ \A m \in Missions :
       outcome[<<"start", m>>] = "none" =>
         /\ exec[m].state \in {"absent", "dispatched", "pause_requested", "cancel_requested"}
         /\ \/ cmd[<<"pause", m>>].status = "absent" /\ exec[m].state # "pause_requested"
            \/ AskedEarly(m)
  /\ report # NoReport => outcome[<<"start", report.mission>>] # "none"

Follows(kind, m) ==
  \/ Precedes(<<"start", m>>, <<kind, m>>)
  \/ outcome[<<"start", m>>] # "none"
  \/ kind = "cancel" /\ Overtakable(m)

Queued ==
  \A m \in Missions :
    /\ \A kind \in Kinds : cmd[<<kind, m>>].order <= queued
    /\ \A kind \in Controls :
         cmd[<<kind, m>>].status # "absent" =>
           cmd[<<"start", m>>].status # "absent" /\ Follows(kind, m)
    /\ exec[m].state = "cancel_requested" => cmd[<<"cancel", m>>].status # "absent"

Handed ==
  \A m \in Missions :
    /\ \A kind \in Controls :
         /\ <<kind, m>> \in response =>
              <<"start", m>> \in response \/ outcome[<<"start", m>>] # "none"
         /\ outcome[<<kind, m>>] # "none" =>
              outcome[<<"start", m>>] # "none" \/ (kind = "cancel" /\ Overtaken(m))
    /\ outcome[<<"cancel", m>>] # "none" =>
         robot[m] \notin {"accepted", "running", "paused"} \/ Overtaken(m)

Ordered == Safe /\ Started /\ Queued /\ Handed


\* What a step keeps: command rows and what was done with them, and which step
\* makes a control.
Keeps ==
  /\ \A k \in Keys : cmd[k].status # "absent" =>
       /\ cmd'[k].status # "absent"
       /\ cmd'[k].priority = cmd[k].priority
       /\ cmd'[k].order = cmd[k].order
  /\ \A k \in Keys : cmd[k].status = "absent" =>
       \/ cmd'[k] = cmd[k]
       \/ cmd'[k].order = queued' /\ queued' = queued + 1
  /\ \A k \in Keys : outcome[k] # "none" => outcome'[k] = outcome[k]
  /\ queued \in Nat /\ queued' \in Nat /\ queued <= queued'

NewControls ==
  \A m \in Missions, kind \in Controls :
    cmd[<<kind, m>>].status = "absent" /\ cmd'[<<kind, m>>].status # "absent" =>
      \/ kind = "pause" /\ Pause(m)
      \/ kind = "resume" /\ Resume(m)
      \/ kind = "cancel" /\ Cancel(m)

\* A step that queues one command, if its key is new.
LEMMA QueueKeeps ==
  ASSUME TypeOK, NEW k \in Keys, NEW m \in Missions \union {NoMission}, NEW p \in Int,
         Queue(k, m, p), outcome' = outcome
  PROVE  /\ Keeps
         /\ \A j \in Keys : j # k => cmd'[j] = cmd[j]
         /\ cmd'[k].status # "absent"
         /\ cmd[k].status = "absent" => cmd'[k].priority = p
<1>1. queued \in Nat /\ queued <= queued + 1 /\ queued <= queued
  BY DEF TypeOK
<1>2. /\ queued' \in Nat
      /\ \A j \in Keys : j # k => cmd'[j] = cmd[j]
      /\ cmd[k].status # "absent" => cmd' = cmd /\ queued' = queued
      /\ cmd[k].status = "absent" =>
           cmd'[k] = [status |-> "pending", mission |-> m, priority |-> p,
                      order |-> queued + 1] /\ queued' = queued + 1
  BY QueueEffect
<1> QED
  BY <1>1, <1>2 DEF Keeps

LEMMA StepKeeps ==
  ASSUME Safe, [Next]_vars
  PROVE  Keeps /\ NewControls
<1>0. Typed /\ TypeOK /\ Addressed /\ Rows /\ Answers /\ queued \in Nat
  BY DEF Safe, Typed, TypeOK
<1>k. /\ \A kind \in Kinds, m \in Missions : <<kind, m>> \in Keys /\ <<kind, m>> # HoldKey
      /\ Controls \subseteq Kinds /\ "start" \in Kinds /\ "start" \notin Controls
      /\ Missions \subseteq Missions \union {NoMission}
  BY KeyFacts DEF Controls, Kinds
<1>1. ASSUME NEW m \in Missions, NEW kind \in Controls, NEW p \in Int,
             Queue(<<kind, m>>, m, p), outcome' = outcome,
             \/ kind = "pause" /\ Pause(m)
             \/ kind = "resume" /\ Resume(m)
             \/ kind = "cancel" /\ Cancel(m)
      PROVE  Keeps /\ NewControls
  <2>1. Keeps /\ \A j \in Keys : j # <<kind, m>> => cmd'[j] = cmd[j]
    BY <1>0, <1>k, <1>1, QueueKeeps
  <2> QED
    BY <1>k, <1>1, <2>1 DEF NewControls
<1>2. ASSUME NEW m \in Missions, Pause(m) PROVE Keeps /\ NewControls
  BY <1>0, <1>1, <1>2, PriorityType DEF Pause, gateway, Controls
<1>3. ASSUME NEW m \in Missions, Resume(m) PROVE Keeps /\ NewControls
  <2>1. DefaultPriority \in Int
    BY DEF DefaultPriority
  <2> QED
    BY <1>1, <1>3, <2>1 DEF Resume, gateway, Controls
<1>4. ASSUME NEW m \in Missions, Cancel(m) PROVE Keeps /\ NewControls
  BY <1>0, <1>1, <1>4, PriorityType DEF Cancel, gateway, Controls
<1>5. CASE SafetyHold
  <2>1. PICK m \in Missions \union {NoMission} : Queue(HoldKey, m, HoldPriority)
    BY <1>5 DEF SafetyHold
  <2>2. HoldKey \in Keys /\ HoldPriority \in Int /\ outcome' = outcome
    BY <1>5, KeyFacts DEF HoldPriority, SafetyHold, gateway
  <2>3. Keeps /\ \A j \in Keys : j # HoldKey => cmd'[j] = cmd[j]
    BY <1>0, <2>1, <2>2, QueueKeeps
  <2> QED
    BY <1>k, <2>3 DEF NewControls
<1>6. ASSUME NEW m \in Missions, Dispatch(m) PROVE Keeps /\ NewControls
  <2>1. PICK p \in Priorities : Queue(<<"start", m>>, m, p)
    BY <1>6 DEF Dispatch
  <2>2. p \in Int /\ outcome' = outcome
    BY <1>6, DeliveryAssumption DEF Dispatch, gateway
  <2>3. Keeps /\ \A j \in Keys : j # <<"start", m>> => cmd'[j] = cmd[j]
    BY <1>0, <1>k, <2>1, <2>2, QueueKeeps
  <2> QED
    BY <1>k, <2>3 DEF NewControls
<1>7. ASSUME queued' = queued,
             \A k \in Keys : /\ cmd'[k].priority = cmd[k].priority
                             /\ cmd'[k].order = cmd[k].order
                             /\ cmd[k].status = "absent" <=> cmd'[k].status = "absent"
                             /\ cmd[k].status = "absent" => cmd'[k] = cmd[k]
                             /\ outcome[k] # "none" => outcome'[k] = outcome[k]
      PROVE  Keeps /\ NewControls
  BY <1>0, <1>k, <1>7 DEF Keeps, NewControls
<1>8. CASE Poll
  <2>1. \A k \in Keys : IF k \in Open THEN cmd'[k] = [cmd[k] EXCEPT !.status = "delivered"]
                                      ELSE cmd'[k] = cmd[k]
    BY <1>8 DEF Poll
  <2>2. \A k \in Keys : /\ cmd'[k].priority = cmd[k].priority
                        /\ cmd'[k].order = cmd[k].order
                        /\ cmd[k].status = "absent" <=> cmd'[k].status = "absent"
                        /\ cmd[k].status = "absent" => cmd'[k] = cmd[k]
    BY <1>0, <2>1 DEF Open, TypeOK, CommandRow
  <2> QED
    BY <1>7, <1>8, <2>2 DEF Poll
<1>9. ASSUME NEW k \in Keys, Acknowledge(k) PROVE Keeps /\ NewControls
  <2>1. outcome[k] \in Closed /\ cmd[k].status # "absent"
    BY <1>0, <1>9 DEF Acknowledge, TypeOK, Outcomes, Closed, Open
  <2>2. \A j \in Keys : /\ cmd'[j].priority = cmd[j].priority
                        /\ cmd'[j].order = cmd[j].order
                        /\ cmd[j].status = "absent" <=> cmd'[j].status = "absent"
                        /\ cmd[j].status = "absent" => cmd'[j] = cmd[j]
    BY <1>0, <1>9, <2>1 DEF Acknowledge, TypeOK, CommandRow, Closed
  <2> QED
    BY <1>7, <1>9, <2>2 DEF Acknowledge, gateway
<1>10. ASSUME NEW k \in Keys, Handle(k) PROVE Keeps /\ NewControls
  <2>1. cmd[k].status # "absent" /\ UNCHANGED <<cmd, queued>>
    BY <1>0, <1>10 DEF Handle, Addressed
  <2>2. k[1] = "start" => cmd[k].mission \in Missions
    BY <1>0, <2>1, KeyFacts DEF Addressed, Kinds
  <2>3. \A j \in Keys : outcome[j] # "none" => outcome'[j] = outcome[j]
    BY <1>0, <1>10, <2>2, ObeyEffect DEF Handle
  <2> QED
    BY <1>7, <2>1, <2>3
<1>11. ASSUME NEW m \in Missions, Work(m) \/ Stop(m) \/ Send(m) PROVE Keeps /\ NewControls
  BY <1>7, <1>11 DEF Work, Stop, Send
<1>12. CASE LoseResponse \/ Receive \/ LoseReport \/ UNCHANGED vars
  BY <1>7, <1>12 DEF LoseResponse, Receive, LoseReport, vars
<1> QED
  BY <1>2, <1>3, <1>4, <1>5, <1>6, <1>8, <1>9, <1>10, <1>11, <1>12 DEF Next

\* Once a mission has its start, having been asked early, or being overtakable or
\* overtaken, is for ever.
LEMMA AskedStays ==
  ASSUME Keeps, NEW m \in Missions, cmd[<<"start", m>>].status # "absent"
  PROVE  /\ AskedEarly(m) => AskedEarly(m)'
         /\ Overtakable(m) => Overtakable(m)'
         /\ Overtaken(m) => Overtaken(m)'
<1>1. /\ <<"start", m>> \in Keys /\ <<"pause", m>> \in Keys /\ <<"cancel", m>> \in Keys
      /\ HoldKey \in Keys
  BY KeyFacts DEF Kinds
<1>2. AskedEarly(m) => AskedEarly(m)'
  BY <1>1 DEF Keeps, AskedEarly
<1>3. Overtakable(m) => Overtakable(m)'
  BY <1>1, <1>2 DEF Keeps, Overtakable
<1>4. Overtaken(m) => Overtaken(m)'
  BY <1>1, <1>3 DEF Keeps, Overtaken
<1> QED
  BY <1>2, <1>3, <1>4

LEMMA InitOrdered == Init => Started /\ Queued /\ Handed
<1> SUFFICES ASSUME Init PROVE Started /\ Queued /\ Handed
  OBVIOUS
<1>1. /\ \A kind \in Kinds, m \in Missions : <<kind, m>> \in Keys
      /\ Controls \subseteq Kinds /\ {"start", "pause", "cancel"} \subseteq Kinds
  BY KeyFacts DEF Controls, Kinds
<1>2. Queued
  BY <1>1 DEF Init, Queued, NoCommand, NoExec
<1>3. Handed
  BY <1>1 DEF Init, Handed, Controls, Kinds
<1>4. Started
  BY <1>1 DEF Init, Started, NoCommand, NoExec
<1> QED
  BY <1>2, <1>3, <1>4

\* How an execution whose start is not handled can change.
LEMMA EarlyChange ==
  ASSUME Safe, Started, [Next]_vars, NEW m \in Missions,
         outcome[<<"start", m>>] = "none", exec'[m] # exec[m]
  PROVE  \/ Dispatch(m) /\ exec'[m].state = "dispatched"
         \/ Pause(m) /\ exec[m].state = "dispatched" /\ exec'[m].state = "pause_requested"
         \/ Cancel(m) /\ exec'[m].state = "cancel_requested"
         \/ /\ exec[m].state = "dispatched" /\ exec'[m].state = "pause_requested"
            /\ cmd'[HoldKey].status # "absent"
<1>0. TypeOK /\ exec[m] \in ExecRow
  BY DEF Safe, Typed, TypeOK
<1>s. exec[m].state \in {"absent", "dispatched", "pause_requested", "cancel_requested"}
  BY DEF Started
<1>1. ASSUME NEW n \in Missions, Dispatch(n) PROVE m = n /\ exec'[m].state = "dispatched"
  BY <1>0, <1>1 DEF Dispatch, TypeOK
<1>2. ASSUME NEW n \in Missions, Pause(n)
      PROVE  m = n /\ exec[m].state = "dispatched" /\ exec'[m].state = "pause_requested"
  BY <1>0, <1>s, <1>2 DEF Pause, TypeOK, Requested, ExecRow
<1>3. ASSUME NEW n \in Missions, Resume(n) PROVE FALSE
  BY <1>0, <1>s, <1>3 DEF Resume, TypeOK
<1>4. ASSUME NEW n \in Missions, Cancel(n)
      PROVE  m = n /\ exec'[m].state = "cancel_requested"
  BY <1>0, <1>4 DEF Cancel, TypeOK, Requested, ExecRow
<1>5. CASE SafetyHold
  <2>1. PICK n \in Missions \union {NoMission} : Queue(HoldKey, n, HoldPriority)
    BY <1>5 DEF SafetyHold
  <2>2. HoldKey \in Keys /\ HoldPriority \in Int /\ outcome' = outcome
    BY <1>5, KeyFacts DEF HoldPriority, SafetyHold, gateway
  <2>3. cmd'[HoldKey].status # "absent"
    BY <1>0, <2>1, <2>2, QueueKeeps
  <2>4. exec[m].state = "dispatched" /\ exec'[m].state = "pause_requested"
    BY <1>0, <1>s, <1>5 DEF SafetyHold, TypeOK, Requested, ExecRow
  <2> QED
    BY <2>3, <2>4
<1>6. ASSUME NEW k \in Keys, Acknowledge(k) PROVE FALSE
  <2>1. k[1] = "start" /\ outcome[k] = "failed" /\ k[2] = m
    BY <1>0, <1>6 DEF Acknowledge, TypeOK
  <2>2. k = <<"start", m>>
    BY <2>1, KeyFacts DEF Kinds
  <2> QED
    BY <2>1, <2>2
<1>7. CASE Receive
  <2>1. report.mission = m
    BY <1>0, <1>7 DEF Receive, TypeOK
  <2> QED
    BY <1>7, <2>1 DEF Receive, Started
<1>8. ASSUME NEW n \in Missions, Work(n) \/ Stop(n) \/ Send(n) PROVE FALSE
  BY <1>8 DEF Work, Stop, Send
<1>9. ASSUME NEW k \in Keys, Handle(k) PROVE FALSE
  BY <1>9 DEF Handle
<1>10. CASE Poll \/ LoseResponse \/ LoseReport \/ UNCHANGED vars
  BY <1>10 DEF Poll, LoseResponse, LoseReport, vars
<1> QED
  BY <1>1, <1>2, <1>3, <1>4, <1>5, <1>6, <1>7, <1>8, <1>9, <1>10 DEF Next

LEMMA StepStarted == Safe /\ Started /\ Queued /\ [Next]_vars => Started'
<1> SUFFICES ASSUME Safe, Started, Queued, [Next]_vars PROVE Started'
  OBVIOUS
<1>0. Typed /\ TypeOK /\ Addressed /\ Rows /\ Truth /\ Keeps /\ NewControls
  BY StepKeeps DEF Safe, Typed
<1>k. /\ \A kind \in Kinds, m \in Missions : <<kind, m>> \in Keys
      /\ "start" \in Kinds /\ "pause" \in Kinds /\ "pause" \in Controls
  BY KeyFacts DEF Controls, Kinds
<1>1. ASSUME NEW m \in Missions, outcome'[<<"start", m>>] = "none"
      PROVE  /\ exec'[m].state \in {"absent", "dispatched", "pause_requested",
                                    "cancel_requested"}
             /\ \/ cmd'[<<"pause", m>>].status = "absent" /\ exec'[m].state # "pause_requested"
                \/ AskedEarly(m)'
  <2>1. outcome[<<"start", m>>] = "none"
    BY <1>0, <1>k, <1>1 DEF Keeps
  <2>2. /\ exec[m].state \in {"absent", "dispatched", "pause_requested", "cancel_requested"}
        /\ \/ cmd[<<"pause", m>>].status = "absent" /\ exec[m].state # "pause_requested"
           \/ AskedEarly(m)
    BY <2>1 DEF Started
  <2>3. exec'[m].state \in {"absent", "dispatched", "pause_requested", "cancel_requested"}
    BY <2>1, <2>2, EarlyChange
  \* A pause that is there, or a hold that took the execution, was asked early.
  <2>4. ASSUME cmd[<<"pause", m>>].status # "absent" \/ exec[m].state = "pause_requested"
        PROVE  AskedEarly(m)'
    <3>1. AskedEarly(m)
      BY <2>2, <2>4
    <3>2. cmd[<<"start", m>>].status # "absent"
      BY <1>0, <1>k, <2>4 DEF Queued, Rows
    <3> QED
      BY <1>0, <3>1, <3>2, AskedStays
  \* A pause of an execution whose start waits has the priority of the start.
  <2>5. ASSUME Pause(m), cmd[<<"pause", m>>].status = "absent" PROVE AskedEarly(m)'
    <3>1. exec[m].state = "dispatched"
      BY <2>2, <2>5 DEF Pause
    <3>2. /\ Queue(<<"pause", m>>, m, cmd[<<"start", m>>].priority)
          /\ outcome' = outcome
      BY <2>5, <3>1 DEF Pause, ControlPriority, gateway
    <3>3. cmd[<<"start", m>>].priority \in Int /\ <<"pause", m>> # <<"start", m>>
      BY <1>0, <1>k DEF TypeOK, CommandRow
    <3>4. /\ cmd'[<<"pause", m>>].status # "absent"
          /\ cmd'[<<"pause", m>>].priority = cmd[<<"start", m>>].priority
          /\ cmd'[<<"start", m>>] = cmd[<<"start", m>>]
      BY <1>0, <1>k, <2>5, <3>2, <3>3, QueueKeeps
    <3> QED
      BY <3>4 DEF AskedEarly
  <2>6. ASSUME cmd[<<"pause", m>>].status = "absent", exec[m].state # "pause_requested",
               cmd'[<<"pause", m>>].status # "absent" \/ exec'[m].state = "pause_requested"
        PROVE  AskedEarly(m)'
    <3>1. CASE cmd'[<<"pause", m>>].status # "absent"
      <4>1. Pause(m)
        BY <1>0, <1>k, <2>6, <3>1 DEF NewControls
      <4> QED
        BY <2>5, <2>6, <4>1
    <3>2. CASE exec'[m].state = "pause_requested"
      <4>1. Pause(m) \/ cmd'[HoldKey].status # "absent"
        BY <2>1, <2>6, <3>2, EarlyChange
      <4> QED
        BY <2>5, <2>6, <4>1 DEF AskedEarly
    <3> QED
      BY <2>6, <3>1, <3>2
  <2> QED
    BY <2>3, <2>4, <2>6
<1>2. ASSUME report' # NoReport PROVE outcome'[<<"start", report'.mission>>] # "none"
  <2>1. CASE report' = report
    <3>1. report.mission \in Missions /\ outcome[<<"start", report.mission>>] # "none"
      BY <1>0, <1>2, <2>1 DEF TypeOK, Started
    <3> QED
      BY <1>0, <1>k, <2>1, <3>1 DEF Keeps
  <2>2. ASSUME NEW m \in Missions, Send(m)
        PROVE  outcome'[<<"start", report'.mission>>] # "none"
    <3>1. report'.mission = m /\ robot[m] # "unknown" /\ outcome' = outcome
      BY <2>2 DEF Send
    <3> QED
      BY <1>0, <3>1 DEF Truth
  <2>3. report' = report \/ report' = NoReport \/ \E m \in Missions : Send(m)
    BY DEF Next, vars, Dispatch, Pause, Resume, Cancel, SafetyHold, Poll, LoseResponse,
           Handle, Acknowledge, Work, Stop, Receive, LoseReport, gateway
  <2> QED
    BY <1>2, <2>1, <2>2, <2>3
<1> QED
  BY <1>1, <1>2 DEF Started

\* A cancellation is requested by nothing but Cancel.
LEMMA CancelCause ==
  ASSUME Safe, [Next]_vars, NEW m \in Missions,
         exec'[m].state = "cancel_requested", exec[m].state # "cancel_requested"
  PROVE  Cancel(m)
<1>0. TypeOK
  BY DEF Safe, Typed
<1>1. ASSUME NEW n \in Missions, Dispatch(n) \/ Pause(n) \/ Resume(n) PROVE FALSE
  <2>1. exec[m] \in ExecRow
    BY <1>0 DEF TypeOK
  <2>2. CASE Dispatch(n)
    BY <1>0, <2>1, <2>2 DEF Dispatch, TypeOK
  <2>3. CASE Pause(n)
    BY <1>0, <2>1, <2>3 DEF Pause, TypeOK, Requested, ExecRow
  <2>4. CASE Resume(n)
    BY <1>0, <2>1, <2>4 DEF Resume, TypeOK, Requested, ExecRow
  <2> QED
    BY <1>1, <2>2, <2>3, <2>4
<1>2. ASSUME NEW n \in Missions, Cancel(n) PROVE m = n
  BY <1>0, <1>2 DEF Cancel, TypeOK
<1>3. SafetyHold => FALSE
  BY <1>0 DEF SafetyHold, TypeOK, Requested, ExecRow
<1>4. ASSUME NEW k \in Keys, Acknowledge(k) PROVE FALSE
  BY <1>0, <1>4 DEF Acknowledge, TypeOK
<1>5. CASE Receive
  <2>1. report.mission = m /\ report.state \in ReportedStates /\ exec[m] \in ExecRow
    BY <1>0, <1>5 DEF Receive, TypeOK
  <2>2. Accepts(exec[m], report.state) /\ exec'[m].state = Resolved(exec[m], report.state)
    BY <1>0, <1>5, <2>1 DEF Receive, TypeOK
  <2> QED
    BY <2>1, <2>2, ResolvedStates
<1>6. exec' # exec
  OBVIOUS
<1>7. ASSUME NEW k \in Keys PROVE ~Handle(k)
  BY <1>6 DEF Handle
<1>8. ASSUME NEW n \in Missions PROVE ~(Work(n) \/ Stop(n) \/ Send(n))
  BY <1>6 DEF Work, Stop, Send
<1>9. ~(Poll \/ LoseResponse \/ LoseReport \/ UNCHANGED vars)
  BY <1>6 DEF Poll, LoseResponse, LoseReport, vars
<1> QED
  BY <1>1, <1>2, <1>3, <1>4, <1>5, <1>7, <1>8, <1>9 DEF Next

\* A control is queued behind the start of its mission, or after the start was
\* handled, or it is a cancellation that may overtake it.
LEMMA NewControlFollows ==
  ASSUME Safe, Started, Queued, NEW m \in Missions, NEW kind \in Controls,
         \/ kind = "pause" /\ Pause(m)
         \/ kind = "resume" /\ Resume(m)
         \/ kind = "cancel" /\ Cancel(m) /\ exec[m].state # "cancel_requested",
         cmd[<<kind, m>>].status = "absent"
  PROVE  cmd'[<<"start", m>>].status # "absent" /\ Follows(kind, m)'
<1>0. TypeOK /\ Rows
  BY DEF Safe, Typed
<1>k. /\ <<kind, m>> \in Keys /\ <<"start", m>> \in Keys /\ <<kind, m>> # <<"start", m>>
      /\ "start" \in Kinds /\ HoldKey \in Keys /\ <<"pause", m>> \in Keys
  BY KeyFacts DEF Controls, Kinds
<1> DEFINE start == cmd[<<"start", m>>]
<1>1. start.status # "absent"
  BY <1>0 DEF Rows, Pause, Resume, Cancel, ActiveStates, RequestedStates
<1>2. /\ start.priority \in Int /\ start.order \in Nat /\ start.order <= queued
      /\ queued \in Nat
  BY <1>0, <1>k DEF TypeOK, CommandRow, Queued
<1>3. outcome' = outcome
  BY DEF Pause, Resume, Cancel, gateway
<1>4. ASSUME NEW p \in Int, Queue(<<kind, m>>, m, p)
      PROVE  /\ Keeps
             /\ cmd'[<<"start", m>>] = start
             /\ p <= start.priority => Precedes(<<"start", m>>, <<kind, m>>)'
  <2>1. /\ cmd'[<<"start", m>>] = start
        /\ cmd'[<<kind, m>>] = [status |-> "pending", mission |-> m, priority |-> p,
                                order |-> queued + 1]
    BY <1>0, <1>k, <1>4, QueueEffect
  <2>2. cmd'[<<kind, m>>].priority = p /\ cmd'[<<kind, m>>].order = queued + 1
    BY <2>1
  <2>3. p <= start.priority => Precedes(<<"start", m>>, <<kind, m>>)'
    BY <1>2, <2>1, <2>2 DEF Precedes
  <2>4. Keeps
    BY <1>0, <1>3, <1>k, <1>4, QueueKeeps
  <2> QED
    BY <2>1, <2>3, <2>4
<1>5. \E p \in Int : /\ Queue(<<kind, m>>, m, p)
                     /\ exec[m].state = "dispatched" => p = start.priority
                     /\ exec[m].state = "pause_requested" => p = DefaultPriority
  <2>1. DefaultPriority \in Int /\ ControlPriority(m) \in Int
    BY <1>0, PriorityType DEF DefaultPriority
  <2>2. /\ exec[m].state = "dispatched" => ControlPriority(m) = start.priority
        /\ exec[m].state = "pause_requested" => ControlPriority(m) = DefaultPriority
    BY DEF ControlPriority
  <2> QED
    BY <2>1, <2>2 DEF Pause, Resume, Cancel
<1>6. PICK p \in Int : /\ Queue(<<kind, m>>, m, p)
                       /\ exec[m].state = "dispatched" => p = start.priority
                       /\ exec[m].state = "pause_requested" => p = DefaultPriority
  BY <1>5
<1>7. Keeps /\ cmd'[<<"start", m>>].status # "absent"
  BY <1>1, <1>4, <1>6
<1>8. CASE outcome[<<"start", m>>] # "none"
  BY <1>3, <1>7, <1>8 DEF Follows
<1>9. CASE outcome[<<"start", m>>] = "none" /\ exec[m].state = "dispatched"
  <2>1. p <= start.priority
    BY <1>2, <1>6, <1>9
  <2> QED
    BY <1>4, <1>6, <1>7, <2>1 DEF Follows
<1>10. CASE outcome[<<"start", m>>] = "none" /\ exec[m].state # "dispatched"
  <2>1. kind = "cancel" /\ exec[m].state = "pause_requested"
    BY <1>10 DEF Started, Pause, Resume, Cancel, ActiveStates, RequestedStates
  <2>2. AskedEarly(m) /\ p = DefaultPriority
    BY <1>6, <1>10, <2>1 DEF Started
  <2>3. CASE start.priority < DefaultPriority
    <3>1. Overtakable(m)'
      BY <1>1, <1>7, <2>2, <2>3, AskedStays DEF Overtakable
    <3> QED
      BY <1>7, <2>1, <3>1 DEF Follows
  <2>4. CASE ~(start.priority < DefaultPriority)
    <3>1. p <= start.priority
      BY <1>2, <2>2, <2>4 DEF DefaultPriority
    <3> QED
      BY <1>4, <1>6, <1>7, <3>1 DEF Follows
  <2> QED
    BY <2>3, <2>4
<1> QED
  BY <1>8, <1>9, <1>10

LEMMA StepQueued == Safe /\ Started /\ Queued /\ [Next]_vars => Queued'
<1> SUFFICES ASSUME Safe, Started, Queued, [Next]_vars PROVE Queued'
  OBVIOUS
<1>0. TypeOK /\ Keeps /\ NewControls
  BY StepKeeps DEF Safe, Typed
<1>k. /\ \A kind \in Kinds, m \in Missions : <<kind, m>> \in Keys
      /\ Controls \subseteq Kinds /\ "start" \in Kinds /\ "cancel" \in Controls
  BY KeyFacts DEF Controls, Kinds
<1>1. ASSUME NEW m \in Missions, NEW kind \in Kinds PROVE cmd'[<<kind, m>>].order <= queued'
  <2>1. cmd[<<kind, m>>].order \in Nat /\ cmd[<<kind, m>>].order <= queued
    BY <1>0, <1>k DEF TypeOK, CommandRow, Queued
  <2>2. \/ cmd'[<<kind, m>>].order = cmd[<<kind, m>>].order
        \/ cmd'[<<kind, m>>].order = queued'
    BY <1>0, <1>k DEF Keeps
  <2> QED
    BY <1>0, <2>1, <2>2 DEF Keeps
<1>2. ASSUME NEW m \in Missions, NEW kind \in Controls, cmd'[<<kind, m>>].status # "absent"
      PROVE  cmd'[<<"start", m>>].status # "absent" /\ Follows(kind, m)'
  <2>1. CASE cmd[<<kind, m>>].status # "absent"
    <3>1. cmd[<<"start", m>>].status # "absent" /\ Follows(kind, m)
      BY <2>1 DEF Queued
    <3>2. /\ cmd'[<<"start", m>>].status # "absent"
          /\ Precedes(<<"start", m>>, <<kind, m>>) => Precedes(<<"start", m>>, <<kind, m>>)'
          /\ outcome[<<"start", m>>] # "none" => outcome'[<<"start", m>>] # "none"
      BY <1>0, <1>k, <2>1, <3>1 DEF Keeps, Precedes
    <3>3. Overtakable(m) => Overtakable(m)'
      BY <1>0, <3>1, AskedStays
    <3> QED
      BY <3>1, <3>2, <3>3 DEF Follows
  <2>2. CASE cmd[<<kind, m>>].status = "absent"
    <3>1. \/ kind = "pause" /\ Pause(m)
          \/ kind = "resume" /\ Resume(m)
          \/ kind = "cancel" /\ Cancel(m)
      BY <1>0, <1>2, <2>2 DEF NewControls
    <3>2. kind = "cancel" => exec[m].state # "cancel_requested"
      BY <2>2 DEF Queued
    <3> QED
      BY <2>2, <3>1, <3>2, NewControlFollows
  <2> QED
    BY <2>1, <2>2
<1>3. ASSUME NEW m \in Missions, exec'[m].state = "cancel_requested"
      PROVE  cmd'[<<"cancel", m>>].status # "absent"
  <2>1. CASE exec[m].state = "cancel_requested"
    BY <1>0, <1>k, <2>1 DEF Queued, Keeps
  <2>2. CASE exec[m].state # "cancel_requested"
    <3>1. Cancel(m)
      BY <1>3, <2>2, CancelCause
    <3>2. /\ Queue(<<"cancel", m>>, m, ControlPriority(m))
          /\ ControlPriority(m) \in Int /\ outcome' = outcome
      BY <1>0, <3>1, PriorityType DEF Cancel, gateway
    <3> QED
      BY <1>0, <1>k, <3>2, QueueKeeps
  <2> QED
    BY <2>1, <2>2
<1> QED
  BY <1>1, <1>2, <1>3 DEF Queued

LEMMA StepHanded == Safe /\ Started /\ Queued /\ Handed /\ [Next]_vars => Handed'
<1> SUFFICES ASSUME Safe, Started, Queued, Handed, [Next]_vars PROVE Handed'
  OBVIOUS
<1>0. Typed /\ TypeOK /\ Addressed /\ Rows /\ Answers /\ Truth /\ Keeps
  BY StepKeeps DEF Safe, Typed
<1>k. /\ \A kind \in Kinds, m \in Missions : <<kind, m>> \in Keys
      /\ Controls \subseteq Kinds /\ "start" \in Kinds /\ "cancel" \in Controls
      /\ "start" \notin Controls
  BY KeyFacts DEF Controls, Kinds
\* What was handed, or has overtaken, stays so.
<1>h. ASSUME NEW m \in Missions, NEW kind \in Controls, outcome[<<kind, m>>] # "none"
      PROVE  /\ outcome[<<"start", m>>] # "none" => outcome'[<<"start", m>>] # "none"
             /\ Overtaken(m) => Overtaken(m)'
  <2>1. cmd[<<"start", m>>].status # "absent"
    BY <1>0, <1>k, <1>h DEF Answers, Queued
  <2> QED
    BY <1>0, <1>k, <2>1, AskedStays DEF Keeps
<1>1. CASE Poll
  <2>1. response' = Open /\ UNCHANGED <<outcome, robot>>
    BY <1>1 DEF Poll
  <2>2. ASSUME NEW m \in Missions, NEW kind \in Controls, <<kind, m>> \in Open
        PROVE  <<"start", m>> \in Open \/ outcome[<<"start", m>>] # "none"
    <3>1. cmd[<<"start", m>>].status # "absent"
      BY <1>0, <2>2 DEF Queued, Open
    <3>2. cmd[<<"start", m>>].status \in {"pending", "delivered"} \union Closed
      BY <1>0, <1>k, <3>1 DEF TypeOK, CommandRow, CommandStates, Closed
    <3>3. cmd[<<"start", m>>].status \in Closed => outcome[<<"start", m>>] \in Closed
      BY <1>0, <1>k DEF Answers
    <3> QED
      BY <1>k, <3>2, <3>3 DEF Open, Closed
  <2> QED
    BY <1>h, <1>k, <2>1, <2>2 DEF Handed
<1>2. ASSUME NEW k \in Keys, Handle(k) PROVE Handed'
  <2>1. /\ k \in response /\ First(k) /\ response' = response \ {k}
        /\ cmd[k].status # "absent"
    BY <1>0, <1>2 DEF Handle, Addressed
  \* A control at the head of the response: its start was handled before, or it
  \* is a cancellation that may overtake it.
  <2>2. ASSUME NEW m \in Missions, NEW kind \in Controls, k = <<kind, m>>
        PROVE  outcome[<<"start", m>>] # "none" \/ (kind = "cancel" /\ Overtakable(m))
    <3>1. Follows(kind, m)
      BY <2>1, <2>2 DEF Queued
    <3>2. <<"start", m>> \in response => Precedes(k, <<"start", m>>)
      BY <1>k, <2>1, <2>2 DEF First
    <3>3. /\ cmd[k].priority \in Int /\ cmd[<<"start", m>>].priority \in Int
          /\ cmd[k].order \in Nat /\ cmd[<<"start", m>>].order \in Nat
      BY <1>0, <1>k DEF TypeOK, CommandRow
    <3>4. ~(Precedes(<<"start", m>>, k) /\ Precedes(k, <<"start", m>>))
      BY <3>3 DEF Precedes
    <3> QED
      BY <2>1, <2>2, <3>1, <3>2, <3>4 DEF Handed, Follows
  <2>3. CASE outcome[k] # "none"
    <3>1. UNCHANGED <<outcome, robot>>
      BY <1>2, <2>3 DEF Handle
    <3> QED
      BY <1>h, <1>k, <2>1, <2>3, <3>1 DEF Handed
  <2>4. CASE outcome[k] = "none"
    <3>1. k[1] = "start" => cmd[k].mission = k[2] /\ k[2] \in Missions /\ k = <<"start", k[2]>>
      BY <1>0, <2>1, KeyFacts DEF Addressed, Kinds
    <3>2. k[1] = "cancel" => cmd[k].mission = k[2] /\ k[2] \in Missions /\ k = <<"cancel", k[2]>>
      BY <1>0, <2>1, KeyFacts DEF Addressed, Kinds
    <3>3. /\ outcome'[k] # "none"
          /\ \A j \in Keys : j # k => outcome'[j] = outcome[j]
      BY <1>0, <1>2, <2>4, <3>1, ObeyEffect DEF Handle, Closed
    \* The robot refuses a cancellation of a mission it does not know.
    <3>o. ASSUME NEW m \in Missions, k = <<"cancel", m>>, outcome[<<"start", m>>] = "none"
          PROVE  Overtaken(m)'
      <4>1. robot[m] = "unknown" /\ cmd[k].mission = m /\ k[1] = "cancel"
        BY <1>0, <3>2, <3>o DEF Truth
      <4>2. Obeys(k, {"accepted", "running", "paused"}, "stopping")
        BY <1>2, <2>4, <4>1 DEF Handle, Obey
      <4>3. outcome'[k] = "failed"
        BY <1>0, <4>1, <4>2 DEF Obeys, TypeOK
      <4>4. Overtakable(m) /\ cmd[<<"start", m>>].status # "absent"
        BY <1>k, <2>1, <2>2, <3>o DEF Queued
      <4> QED
        BY <1>0, <3>o, <4>3, <4>4, AskedStays DEF Overtaken
    <3>4. ASSUME NEW m \in Missions, NEW kind \in Controls, outcome'[<<kind, m>>] # "none"
          PROVE  outcome'[<<"start", m>>] # "none" \/ (kind = "cancel" /\ Overtaken(m)')
      <4>1. CASE k = <<kind, m>>
        BY <1>0, <1>k, <2>2, <3>o, <4>1 DEF Keeps
      <4>2. CASE k # <<kind, m>>
        BY <1>h, <1>k, <3>3, <3>4, <4>2 DEF Handed
      <4> QED
        BY <4>1, <4>2
    <3>5. ASSUME NEW m \in Missions, NEW kind \in Controls, <<kind, m>> \in response'
          PROVE  <<"start", m>> \in response' \/ outcome'[<<"start", m>>] # "none"
      BY <1>0, <1>k, <2>1, <3>3, <3>5 DEF Handed, Keeps
    <3>6. ASSUME NEW m \in Missions, outcome'[<<"cancel", m>>] # "none"
          PROVE  robot'[m] \notin {"accepted", "running", "paused"} \/ Overtaken(m)'
      <4>1. CASE k = <<"cancel", m>>
        BY <1>0, <1>2, <2>4, <3>2, <4>1, ObeyEffect DEF Handle
      <4>2. CASE k # <<"cancel", m>>
        <5>1. outcome[<<"cancel", m>>] # "none"
          BY <1>k, <3>3, <3>6, <4>2
        <5>2. CASE Overtaken(m)
          BY <1>h, <1>k, <5>1, <5>2
        <5>3. CASE ~Overtaken(m)
          <6>1. /\ robot[m] \notin {"accepted", "running", "paused"}
                /\ outcome[<<"start", m>>] # "none"
            BY <1>k, <5>1, <5>3 DEF Handed
          <6>2. CASE k[1] = "start"
            <7>1. k[2] # m
              BY <2>4, <3>1, <6>1, <6>2
            <7> QED
              BY <1>0, <1>2, <2>4, <3>1, <6>1, <6>2, <7>1, ObeyEffect DEF Handle
          <6>3. CASE k[1] # "start"
            BY <1>0, <1>2, <2>4, <6>1, <6>3, ObeyEffect DEF Handle
          <6> QED
            BY <6>2, <6>3
        <5> QED
          BY <5>2, <5>3
      <4> QED
        BY <4>1, <4>2
    <3> QED
      BY <3>4, <3>5, <3>6 DEF Handed
  <2> QED
    BY <2>3, <2>4
<1>3. ASSUME NEW m \in Missions, Work(m) \/ Stop(m) PROVE Handed'
  <2>1. /\ UNCHANGED <<response, outcome>>
        /\ \A n \in Missions :
             robot'[n] \in {"accepted", "running", "paused"}
               => robot[n] \in {"accepted", "running", "paused"}
    BY <1>0, <1>3 DEF Work, Stop, TypeOK
  <2> QED
    BY <1>h, <1>k, <2>1 DEF Handed
<1>4. ASSUME UNCHANGED <<outcome, robot>>, response' \in {response, {}} PROVE Handed'
  BY <1>h, <1>k, <1>4 DEF Handed
<1>5. CASE ControlRequest
  <2>1. UNCHANGED <<response, outcome, robot, report>>
    BY <1>0, <1>5, ControlEffect
  <2> QED
    BY <1>4, <2>1
<1>6. ASSUME NEW m \in Missions, Dispatch(m) \/ Send(m) PROVE Handed'
  BY <1>4, <1>6 DEF Dispatch, Send, gateway
<1>7. ASSUME NEW k \in Keys, Acknowledge(k) PROVE Handed'
  BY <1>4, <1>7 DEF Acknowledge, gateway
<1>8. CASE LoseResponse \/ Receive \/ LoseReport \/ UNCHANGED vars
  BY <1>4, <1>8 DEF LoseResponse, Receive, LoseReport, vars
<1> QED
  BY <1>1, <1>2, <1>3, <1>5, <1>6, <1>7, <1>8 DEF Next, ControlRequest

LEMMA OrderedInvariance == Spec => []Ordered
<1>1. Init => Ordered
  BY InitSafe, InitOrdered DEF Ordered
<1>2. Ordered /\ [Next]_vars => Ordered'
  BY StepTypes, StepRows, StepAnswers, StepTruth, StepStarted, StepQueued, StepHanded
     DEF Ordered, Safe
<1> QED
  BY <1>1, <1>2, PTL DEF Spec

\* tasks.py:61, "Preserve FIFO order when controlling an execution not yet
\* started": whatever the priorities, and in whatever order requests, polls and
\* losses come, no robot is handed a pause or a resume before its start, and a
\* cancellation only if the start is less urgent than a control and a pause was
\* requested while it waited, or a hold was requested.
THEOREM ControlsFollowStarts == Spec => []StartBeforeControl
<1>1. Ordered => StartBeforeControl
  BY DEF Ordered, Handed, StartBeforeControl, Controls
<1> QED
  BY <1>1, OrderedInvariance, PTL

\* devices.py:846: whatever the priorities, a requested cancellation that did not
\* overtake its start is never lost. It stays in the queue until the robot has
\* stopped working on the mission or is stopping.
THEOREM CancellationsAreKept == Spec => []CancelIsUnderway
<1>1. ASSUME Ordered, NEW m \in Missions, exec[m].state = "cancel_requested",
             <<"cancel", m>> \notin Open
      PROVE  robot[m] \notin {"accepted", "running", "paused"} \/ Overtaken(m)
  <2>1. TypeOK /\ <<"cancel", m>> \in Keys
    BY <1>1, KeyFacts DEF Ordered, Safe, Typed, Kinds
  <2>2. cmd[<<"cancel", m>>].status # "absent"
    BY <1>1 DEF Ordered, Queued
  <2>3. cmd[<<"cancel", m>>].status \in Closed
    BY <1>1, <2>1, <2>2 DEF TypeOK, CommandRow, CommandStates, Open, Closed
  <2>4. outcome[<<"cancel", m>>] # "none"
    BY <1>1, <2>1, <2>3 DEF Ordered, Safe, Answers, Closed
  <2> QED
    BY <1>1, <2>4 DEF Ordered, Handed
<1>2. Ordered => CancelIsUnderway
  BY <1>1 DEF CancelIsUnderway
<1> QED
  BY <1>2, OrderedInvariance, PTL

=============================================================================
