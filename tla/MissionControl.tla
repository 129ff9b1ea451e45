--------------------------- MODULE MissionControl ----------------------------
(***************************************************************************)
(* Tasks, mission executions and resource allocations of the fleet, and    *)
(* every request handler that moves them: scheduler dispatch, confirmed    *)
(* reassignment, reassign, pause, resume, cancel, safety hold, rejected    *)
(* start and gateway telemetry.                                            *)
(*                                                                         *)
(* A handler is a database transaction.  PostgreSQL runs it at READ        *)
(* COMMITTED and the session writes back only the attributes the handler   *)
(* changed, so a handler that takes no row lock is modelled by two steps:  *)
(* it reads its rows (tx holds them), and later writes what it changed     *)
(* relative to those rows over whatever is stored by then.  Deferred names *)
(* the handlers that may be caught between the two steps; the others run   *)
(* their two steps at once.                                                *)
(*                                                                         *)
(* The commands these handlers queue are not read by any of them: their    *)
(* idempotency keys, delivery and acknowledgement are CommandDelivery's.   *)
(***************************************************************************)
EXTENDS Integers, FiniteSets, ExecutionStates

CONSTANTS
  Tasks,          \* construction tasks
  Devices,        \* registered, enabled and compatible devices
  None,           \* no task, no device
  MaxExecutions,  \* bound: executions created in a behaviour
  Required,       \* work units each task requires; 0: no resource requirement
  Deferred        \* handlers that may be interleaved between read and write

Operations == {"telemetry", "pause", "resume", "hold", "reject",
               "reassign", "confirm"}

ASSUME ConstantsAssumption ==
  /\ None \notin Tasks \union Devices
  /\ MaxExecutions \in Nat
  /\ Required \in [Tasks -> Nat]
  /\ Deferred \subseteq Operations
  /\ IsFiniteSet(Tasks)
  /\ IsFiniteSet(Devices)

VARIABLES
  task,    \* task rows
  exec,    \* mission execution rows, in order of creation
  alloc,   \* resource allocation row of each execution that has one
  device,  \* what each device last reported of itself
  issued,  \* number of executions created
  tx       \* a handler caught between its reads and its writes

rows == <<task, exec, alloc, device, issued>>
vars == <<task, exec, alloc, device, issued, tx>>

Executions == 1..MaxExecutions

TaskStates == {"pending", "assigned", "running", "paused", "reassign_pending",
               "cancel_requested", "cancelled", "completed", "failed"}

TaskRow == [status: TaskStates,
            device: Devices \union {None},
            intent: Devices \union {None},   \* params.pending_reassignment
            stamped: BOOLEAN,                \* cancelled_at is set
            done: Nat]                       \* requirement.completed_qty

ExecRow == [task: Tasks \union {None},
            device: Devices \union {None},
            state: ExecutionStates \union {"absent"},
            ret: ExecutionStates \union {"none"}]

AllocRow == [state: ExecutionStates \union {"none"}, done: {0, 1}]

NoExec  == [task |-> None, device |-> None, state |-> "absent", ret |-> "none"]
NoAlloc == [state |-> "none", done |-> 0]
NewTask == [status |-> "pending", device |-> None, intent |-> None,
            stamped |-> FALSE, done |-> 0]

\* "ready": idle and online; "parked": idle, but reported offline; "busy":
\* any other status, offline or not, for no handler tells these apart.
DeviceStates == {"ready", "parked", "busy"}

(***************************************************************************)
(* Queries.                                                                *)
(***************************************************************************)
HasRequirements(t) == Required[t] > 0

Of(t)       == {e \in Executions : exec[e].task = t}
Active(t)   == {e \in Of(t) : exec[e].state \in ActiveStates}
Busy(d)     == \E e \in Executions : /\ exec[e].device = d
                                     /\ exec[e].state \in ActiveStates
Live(t, av) == {e \in Of(t) : av[e].state \in ActiveStates}
Done(t, av) == Cardinality({e \in Of(t) : av[e].done = 1})

\* Variant: an index that forgets the pending requests.
DeviceIndexOfConfirmed(x) ==
  \A e, f \in Executions :
    (/\ e # f
     /\ x[e].state \in ActiveStates \ RequestedStates
     /\ x[f].state \in ActiveStates \ RequestedStates) => x[e].device # x[f].device

\* The partial unique index uq_mission_executions_active_device.
DeviceIndex(x) ==
  \A e, f \in Executions :
    (/\ e # f
     /\ x[e].state \in ActiveStates
     /\ x[f].state \in ActiveStates) => x[e].device # x[f].device

\* The newest active execution of a task, if there is one.
Newest(t) == {e \in Active(t) : \A f \in Active(t) : f <= e}

(***************************************************************************)
(* Transactions.  A read transaction names its operation, its arguments    *)
(* and the rows it loaded; rows it did not touch are left blank.           *)
(***************************************************************************)
NoTransaction ==
  [op |-> "none", task |-> None, device |-> None, touched |-> {},
   exec |-> [e \in Executions |-> NoExec],
   alloc |-> [e \in Executions |-> NoAlloc],
   row |-> NewTask]

Transactions ==
  [op: Operations \union {"none"}, task: Tasks \union {None},
   device: Devices \union {None}, touched: SUBSET Executions,
   exec: [Executions -> ExecRow], alloc: [Executions -> AllocRow],
   row: TaskRow]

Loads(op, t, d, S, row) ==
  [op |-> op, task |-> t, device |-> d, touched |-> S,
   exec |-> [e \in Executions |-> IF e \in S THEN exec[e] ELSE NoExec],
   alloc |-> [e \in Executions |-> IF e \in S THEN alloc[e] ELSE NoAlloc],
   row |-> row]

\* Only some handlers also load the task without locking it.
Read(op, t, d, S)     == Loads(op, t, d, S, NewTask)
ReadTask(op, t, d, S) == Loads(op, t, d, S, task[t])

\* An attribute is written only if the handler changed what it had loaded.
Written(current, loaded, new) == IF new = loaded THEN current ELSE new

\* control_return_state is read only while a request is pending, so the model
\* forgets it with the request.
MergedExec(current, loaded, new) ==
  LET state == Written(current.state, loaded.state, new.state)
  IN [current EXCEPT !.state = state,
                     !.ret = IF state \in RequestedStates
                               THEN Written(@, loaded.ret, new.ret) ELSE "none"]

MergedAlloc(current, loaded, new) ==
  [current EXCEPT !.state = Written(@, loaded.state, new.state),
                  !.done = Written(@, loaded.done, new.done)]

MergedTask(current, loaded, new) ==
  [current EXCEPT !.status = Written(@, loaded.status, new.status),
                  !.device = Written(@, loaded.device, new.device),
                  !.intent = Written(@, loaded.intent, new.intent)]

(***************************************************************************)
(* Effects shared by several handlers.                                     *)
(***************************************************************************)

\* dispatch_mission for a task that has no resource requirement.
DispatchDirect(r) ==
  LET e == issued + 1
      d == r.device
      t == r.task
      new == [r.row EXCEPT !.status = "assigned", !.intent = None,
                           !.device = IF @ = None THEN d ELSE @]
  IN /\ issued < MaxExecutions
     /\ issued' = e
     /\ exec' = [exec EXCEPT ![e] = [task |-> t, device |-> d,
                                     state |-> "dispatched", ret |-> "none"]]
     /\ DeviceIndex(exec')
     /\ task' = [task EXCEPT ![t] = MergedTask(@, r.row, new)]
     /\ device' = [device EXCEPT ![d] = "busy"]
     /\ UNCHANGED alloc

\* The executions a control handler loaded get its request.
RequestExecutions(r, request) ==
  /\ exec' = [e \in Executions |->
                IF e \in r.touched
                  THEN MergedExec(exec[e], r.exec[e],
                                  Requested(r.exec[e], request))
                  ELSE exec[e]]
  /\ DeviceIndex(exec')

\* So do their allocations.
RequestAllocations(r, request) ==
  alloc' = [e \in Executions |->
              IF e \in r.touched /\ r.alloc[e].state # "none"
                THEN MergedAlloc(alloc[e], r.alloc[e],
                                 [r.alloc[e] EXCEPT !.state = request])
                ELSE alloc[e]]

\* _finalize_task_cancellation
Finalized(row) ==
  [row EXCEPT !.status = "cancelled", !.device = None, !.stamped = TRUE]

(***************************************************************************)
(* The task a telemetry report leaves behind.                              *)
(***************************************************************************)

\* Variant: the dispatch state ends up in the status.
AggregatedToCapacity(t, row, av) ==
  [row EXCEPT !.status = IF Live(t, av) = {} THEN "waiting_capacity" ELSE @]

\* Variant: the first unit to stop closes the cancellation.
AggregatedEarly(t, row, av) ==
  IF row.status = "cancel_requested" THEN Finalized(row) ELSE row

\* Variant: the guard of a confirmed cancellation is dropped.
AggregatedAgain(t, row, av) ==
  IF row.status = "cancel_requested" /\ Live(t, av) = {}
    THEN Finalized(row)
    ELSE [row EXCEPT !.status = IF Live(t, av) = {} THEN "pending" ELSE "running"]

\* _aggregate_allocated_task; av are the allocations as the handler sees them.
Aggregated(t, row, av) ==
  LET live    == Live(t, av)
      done    == IF Done(t, av) < Required[t] THEN Done(t, av) ELSE Required[t]
      counted == [row EXCEPT !.done = done]
      status  == IF live = {}
                   THEN IF done = Required[t] THEN "completed" ELSE "pending"
                 ELSE IF \A e \in live : av[e].state = "paused" THEN "paused"
                 ELSE IF \E e \in live : av[e].state = "running" THEN "running"
                 ELSE "assigned"
  IN IF row.status = "cancelled" \/ row.stamped
       THEN Finalized(counted)
     ELSE IF row.status = "cancel_requested"
       THEN IF live = {} THEN Finalized(counted) ELSE counted
     ELSE [counted EXCEPT !.status = status]

\* Variant: only a reported cancellation ends a requested one.
ProjectedCancelled(row, state, others) ==
  IF row.status = "cancel_requested"
    THEN IF state = "cancelled" /\ others = {} THEN Finalized(row) ELSE row
    ELSE [row EXCEPT !.status = IF state \in TerminalStates THEN "failed" ELSE @]

\* Variant: every stopped execution leaves its task to a reassignment.
ProjectedToReassign(row, state, others) ==
  IF row.status # "cancel_requested" /\ state = "cancelled"
    THEN [row EXCEPT !.status = "reassign_pending", !.device = None]
    ELSE ProjectedCancelled(row, state, others)

\* The direct projection: e reported state, others are still active or not.
Projected(row, state, others) ==
  IF row.status = "cancel_requested" /\ state \in TerminalStates
    THEN IF others = {} THEN Finalized(row) ELSE row
  ELSE CASE state = "accepted"  -> [row EXCEPT !.status = "assigned"]
         [] state = "running"   -> [row EXCEPT !.status = "running"]
         [] state = "paused"    -> [row EXCEPT !.status = "paused"]
         [] state = "completed" -> [row EXCEPT !.status = "completed"]
         [] state = "failed"    -> [row EXCEPT !.status = "failed"]
         [] state = "cancelled" ->
              [row EXCEPT !.status = IF row.intent = None THEN "pending"
                                     ELSE "reassign_pending",
                          !.device = None]
         [] OTHER -> row

(***************************************************************************)
(* What each handler writes, given what it read.                           *)
(***************************************************************************)

\* Pause and resume write the task's whole params column, as they loaded it.
RewriteParams(r) ==
  task' = [task EXCEPT ![r.task] = [@ EXCEPT !.intent = r.row.intent]]

WritePause(r) ==
  /\ RequestExecutions(r, "pause_requested")
  /\ RequestAllocations(r, "pause_requested")
  /\ RewriteParams(r)
  /\ UNCHANGED <<device, issued>>

WriteResume(r) ==
  /\ RequestExecutions(r, "resume_requested")
  /\ RequestAllocations(r, "resume_requested")
  /\ RewriteParams(r)
  /\ UNCHANGED <<device, issued>>

\* _evaluate_safety does not tell the allocation.
WriteHold(r) ==
  /\ RequestExecutions(r, "pause_requested")
  /\ UNCHANGED <<task, alloc, device, issued>>

\* A failed ACK of mission_start; the allocation is not told either.
WriteReject(r) ==
  /\ exec' = [e \in Executions |->
                IF e \in r.touched
                  THEN MergedExec(exec[e], r.exec[e],
                                  [r.exec[e] EXCEPT !.state = "failed"])
                  ELSE exec[e]]
  /\ task' = [task EXCEPT ![r.task] =
                MergedTask(@, r.row, [r.row EXCEPT !.status = "pending",
                                                   !.device = None])]
  /\ UNCHANGED <<alloc, device, issued>>

\* Reassign: cancel the execution that was found, or dispatch at once.  The
\* intent carries the time of the request, so it is always written.
WriteReassign(r) ==
  \/ /\ r.touched # {}
     /\ RequestExecutions(r, "cancel_requested")
     /\ task' = [task EXCEPT ![r.task] =
                   [MergedTask(@, r.row, [r.row EXCEPT !.status = "reassign_pending"])
                      EXCEPT !.intent = r.device]]
     /\ UNCHANGED <<alloc, device, issued>>
  \/ /\ r.touched = {}
     /\ DispatchDirect(r)

\* The scheduler dispatches what the intent names; a task without an intent
\* goes back to planning.
WriteConfirm(r) ==
  \/ /\ r.device # None
     /\ DispatchDirect(r)
  \/ /\ r.device = None
     /\ task' = [task EXCEPT ![r.task] =
                   MergedTask(@, r.row, [r.row EXCEPT !.status = "pending"])]
     /\ UNCHANGED <<exec, alloc, device, issued>>

\* Telemetry locks the task after it loaded the execution and its allocation.
\* The gateway (external) may report any state, and any status of its own; it
\* states the quantity done with a terminal state, and repeats it unchanged.
WriteTelemetry(r, reported, done, as) ==
  \E e \in r.touched :
    LET x     == r.exec[e]
        a     == r.alloc[e]
        state == Resolved(x, reported)
        seen  == [a EXCEPT !.state = state, !.done = done]
    IN /\ Accepts(x, reported)
       /\ a.state = "none" \/ reported \notin TerminalStates \/ x.state \in TerminalStates
            => done = a.done
       /\ exec' = [exec EXCEPT ![e] = MergedExec(@, x, [x EXCEPT !.state = state])]
       /\ DeviceIndex(exec')
       /\ IF a.state # "none"
            THEN /\ alloc' = [alloc EXCEPT ![e] = MergedAlloc(@, a, seen)]
                 /\ task' = [task EXCEPT ![r.task] =
                               Aggregated(r.task, @, [alloc EXCEPT ![e] = seen])]
            ELSE /\ task' = [task EXCEPT ![r.task] =
                               Projected(@, state, Active(r.task) \ {e})]
                 /\ UNCHANGED alloc
       /\ device' = [device EXCEPT ![r.device] =
                       IF state \in {"accepted", "running", "paused"}
                         THEN "busy" ELSE as]
       /\ UNCHANGED issued

Write(r) ==
  \/ r.op = "pause"     /\ WritePause(r)
  \/ r.op = "resume"    /\ WriteResume(r)
  \/ r.op = "hold"      /\ WriteHold(r)
  \/ r.op = "reject"    /\ WriteReject(r)
  \/ r.op = "reassign"  /\ WriteReassign(r)
  \/ r.op = "confirm"   /\ WriteConfirm(r)
  \/ /\ r.op = "telemetry"
     /\ \E reported \in ReportedStates, done \in {0, 1}, as \in {"ready", "busy"} :
          WriteTelemetry(r, reported, done, as)

\* Either the handler runs alone, or it is caught after its reads.
Handle(r) ==
  \/ /\ Write(r)
     /\ UNCHANGED tx
  \/ /\ r.op \in Deferred
     /\ tx = NoTransaction
     /\ tx' = r
     /\ UNCHANGED rows

(***************************************************************************)
(* Operator requests.                                                      *)
(***************************************************************************)

\* Variant: pause takes every active execution.
PauseTaskAnyActive(t) ==
  Active(t) # {} /\ Handle(ReadTask("pause", t, None, Active(t)))

PauseTask(t) ==
  LET S == {e \in Of(t) : exec[e].state \in {"dispatched", "accepted", "running"}}
  IN S # {} /\ Handle(ReadTask("pause", t, None, S))

ResumeTask(t) ==
  LET S == {e \in Of(t) : exec[e].state = "paused"}
  IN S # {} /\ Handle(ReadTask("resume", t, None, S))

\* reassign_task looks at neither the task's status nor the planned offline mark.
ReassignTask(t, d) ==
  /\ ~HasRequirements(t)
  /\ device[d] \in {"ready", "parked"}
  /\ ~Busy(d)
  /\ Handle(ReadTask("reassign", t, d, Newest(t)))

\* Variant: cancel looks at the executions, not at the task.
CancelTaskAnyTime(t) ==
  /\ Active(t) = {}
  /\ task' = [task EXCEPT ![t] = Finalized(@)]
  /\ UNCHANGED <<exec, alloc, device, issued, tx>>

\* cancel_task holds the task row from the start, and runs alone.
CancelTask(t) ==
  /\ task[t].status \notin {"cancelled", "completed"}
  /\ IF Active(t) = {}
       THEN /\ alloc' = [e \in Executions |->
                           IF e \in Live(t, alloc)
                             THEN [alloc[e] EXCEPT !.state = "cancelled"]
                             ELSE alloc[e]]
            /\ task' = [task EXCEPT ![t] = Finalized(@)]
            /\ UNCHANGED exec
       ELSE /\ exec' = [e \in Executions |->
                          IF e \in Active(t) /\ exec[e].state # "cancel_requested"
                            THEN Requested(exec[e], "cancel_requested")
                            ELSE exec[e]]
            /\ alloc' = [e \in Executions |->
                           IF e \in Active(t) /\ alloc[e].state # "none"
                             THEN [alloc[e] EXCEPT !.state = "cancel_requested"]
                             ELSE alloc[e]]
            /\ task' = [task EXCEPT ![t] = [@ EXCEPT !.status = "cancel_requested"]]
  /\ UNCHANGED <<device, issued, tx>>

(***************************************************************************)
(* The scheduler.                                                          *)
(***************************************************************************)

Available(d) == device[d] = "ready" /\ ~Busy(d)

\* Variant: what is reserved is planned again.
RemainingUnfinished(t) == Required[t] - task[t].done

\* Units still to be given out: what is done or reserved is not planned again.
Remaining(t) ==
  LET open == Required[t] - task[t].done
                - Cardinality({e \in Live(t, alloc) : alloc[e].done = 0})
  IN IF open < 0 THEN 0 ELSE open

\* Variant: a task that is not closed may be given more robots.
PlannableUntilClosed(t) == task[t].status \notin {"cancelled", "completed"}

\* The locking query of the tick.
Plannable(t) == task[t].status = "pending" /\ ~task[t].stamped

Candidates(t) ==
  {d \in Devices : /\ Available(d)
                   /\ \A e \in Live(t, alloc) : exec[e].device # d}

(***************************************************************************)
(* One pass of _tick over one ready task.  The unit of work is what one    *)
(* device delivers in the planning window, so a sufficient plan gives each *)
(* remaining unit to a device of its own.                                  *)
(***************************************************************************)
Tick(t) ==
  LET k   == Remaining(t)
      new == (issued + 1)..(issued + k)
  IN /\ HasRequirements(t)
     /\ Plannable(t)
     /\ k > 0
     /\ issued + k <= MaxExecutions
     /\ \E place \in [new -> Candidates(t)] :
          /\ \A e, f \in new : e # f => place[e] # place[f]
          /\ exec' = [e \in Executions |->
                        IF e \in new
                          THEN [task |-> t, device |-> place[e],
                                state |-> "dispatched", ret |-> "none"]
                          ELSE exec[e]]
          /\ alloc' = [e \in Executions |->
                         IF e \in new THEN [state |-> "dispatched", done |-> 0]
                                      ELSE alloc[e]]
          /\ task' = [task EXCEPT ![t] = [@ EXCEPT !.status = "assigned",
                                                   !.device = place[issued + 1],
                                                   !.intent = None]]
          /\ device' = [d \in Devices |->
                          IF \E e \in new : place[e] = d
                            THEN "busy" ELSE device[d]]
     /\ issued' = issued + k
     /\ UNCHANGED tx

\* _dispatch_confirmed_reassignments: any task in reassign_pending, whatever
\* its previous execution is doing.
ConfirmReassignment(t) ==
  LET d == task[t].intent
  IN /\ task[t].status = "reassign_pending"
     /\ d # None => Available(d)
     /\ Handle(ReadTask("confirm", t, d, {}))

\* _evaluate_safety for a device that broke a hold rule.
SafetyHold(d) ==
  LET S == {e \in Executions : /\ exec[e].device = d
                               /\ exec[e].state \in {"dispatched", "accepted", "running"}}
  IN S # {} /\ Handle(Read("hold", None, d, S))

(***************************************************************************)
(* Requests of a device's gateway.                                         *)
(***************************************************************************)
ReportMission(e) ==
  /\ exec[e].state # "absent"
  /\ Handle(Read("telemetry", exec[e].task, exec[e].device, {e}))

RejectStart(e) ==
  /\ exec[e].state = "dispatched"
  /\ Handle(ReadTask("reject", exec[e].task, exec[e].device, {e}))

ReportDevice(d, as) ==
  /\ device' = [device EXCEPT ![d] = as]
  /\ UNCHANGED <<task, exec, alloc, issued, tx>>

ReportOffline(d) ==
  /\ device' = [device EXCEPT ![d] = IF @ = "ready" THEN "parked" ELSE @]
  /\ UNCHANGED <<task, exec, alloc, issued, tx>>

(***************************************************************************)
(* The pending transaction commits, or is rolled back.                     *)
(***************************************************************************)
Commit   == Write(tx) /\ tx' = NoTransaction
Rollback == tx # NoTransaction /\ tx' = NoTransaction /\ UNCHANGED rows

Init ==
  /\ task = [t \in Tasks |-> NewTask]
  /\ exec = [e \in Executions |-> NoExec]
  /\ alloc = [e \in Executions |-> NoAlloc]
  /\ device = [d \in Devices |-> "ready"]
  /\ issued = 0
  /\ tx = NoTransaction

\* Requests about a task, and the scheduler's dispatch of a reassignment.
TaskRequest(t) ==
  \/ PauseTask(t)
  \/ ResumeTask(t)
  \/ CancelTask(t)
  \/ ConfirmReassignment(t)
  \/ \E d \in Devices : ReassignTask(t, d)

\* Everything else but the scheduler's tick.
Others ==
  \/ \E d \in Devices : \/ SafetyHold(d)
                        \/ ReportOffline(d)
                        \/ \E as \in {"ready", "busy"} : ReportDevice(d, as)
  \/ \E e \in Executions : \/ RejectStart(e)
                           \/ ReportMission(e)
  \/ Commit
  \/ Rollback

Next ==
  \/ \E t \in Tasks : TaskRequest(t) \/ Tick(t)
  \/ Others

Spec == Init /\ [][Next]_vars

-----------------------------------------------------------------------------
(***************************************************************************)
(* Properties.                                                             *)
(***************************************************************************)

\* The types of the rows and of the pending transaction.
TypeOK ==
  /\ task \in [Tasks -> TaskRow]
  /\ exec \in [Executions -> ExecRow]
  /\ alloc \in [Executions -> AllocRow]
  /\ device \in [Devices -> DeviceStates]
  /\ issued \in 0..MaxExecutions
  /\ tx \in Transactions

\* A robot works on at most one execution, in every interleaving: the partial
\* unique index of mission_executions turns the second writer away.
OneActivePerDevice ==
  \A d \in Devices :
    Cardinality({e \in Executions : /\ exec[e].device = d
                                    /\ exec[e].state \in ActiveStates}) <= 1

\* A task with resource requirements is closed, as cancelled or as completed,
\* only when every unit has stopped: none of its executions occupies a robot
\* and none of its allocations reserves a share of the work.
ClosedTasksAreStopped ==
  \A t \in Tasks :
    HasRequirements(t) /\ task[t].status \in {"cancelled", "completed"}
      => Active(t) = {} /\ Live(t, alloc) = {}

\* No unit of work is given out twice: what is finished and what is reserved
\* never exceed what the task requires, through failures and replanning.
NoUnitGivenTwice ==
  \A t \in Tasks :
    HasRequirements(t) =>
      Cardinality({e \in Of(t) : \/ alloc[e].done = 1
                                 \/ alloc[e].state \in ActiveStates}) <= Required[t]

\* A direct task waiting for cancellation has an execution that can still
\* confirm it, and one shown as assigned, running or paused has one that is.
OpenTasksHaveAUnit ==
  \A t \in Tasks :
    (/\ ~HasRequirements(t)
     /\ task[t].status \in {"cancel_requested", "assigned", "running", "paused"})
       => Active(t) # {}

\* A task that went back to planning before it was done has something left to
\* plan, so a later tick can give it to a robot.
PendingIsPlannable ==
  \A t \in Tasks :
    (/\ HasRequirements(t)
     /\ task[t].status = "pending"
     /\ Active(t) = {}
     /\ task[t].done < Required[t]) => Remaining(t) > 0

\* A direct task is never in the hands of two robots: reassignment waits for
\* the previous robot to confirm that it stopped.
OneRobotPerDirectTask ==
  \A t \in Tasks : ~HasRequirements(t) => Cardinality(Active(t)) <= 1

\* A task waiting for its reassignment remembers the device it is meant for
\* until the scheduler consumes that intent.
IntentIsDurable ==
  \A t \in Tasks : task[t].status = "reassign_pending" => task[t].intent # None

\* A confirmed cancellation is immutable: no late or repeated report, safety
\* hold, operator request or tick brings the task back.
CancelledTaskIsFinal(t) == task[t].status = "cancelled" => task'[t].status = "cancelled"

SplitCancellationIsFinal ==
  [][\A t \in Tasks : HasRequirements(t) => CancelledTaskIsFinal(t)]_vars

SplitTasks == {t \in Tasks : HasRequirements(t)}

\* What an operator sees of the cancellation of a split task.
CancellationStage ==
  [t \in SplitTasks |->
     CASE task[t].status = "cancel_requested" -> "requested"
       [] task[t].status = "cancelled"        -> "confirmed"
       [] OTHER                               -> "open"]

Promise == INSTANCE Cancellation
             WITH Tasks <- SplitTasks, stage <- CancellationStage,
                  working <- [t \in SplitTasks |-> Active(t) # {}]

\* The durable, telemetry-confirmed cancellation (tasks.py cancel_task): a
\* requested one takes no new robot and is not lost until it is confirmed, and
\* it is confirmed only when every robot of the task has stopped.
CancellationIsKept == Promise!Spec

\* A completed split task never re-enters planning when its gateways repeat
\* their terminal reports.
SplitCompletionIsFinal ==
  [][\A t \in Tasks : HasRequirements(t) /\ task[t].status = "completed"
                        => task'[t].status = "completed"]_vars

\* What a gateway confirmed as the end of an execution stays so.
TerminalIsFinal ==
  [][\A e \in Executions : exec[e].state \in TerminalStates
                             => exec'[e].state = exec[e].state]_vars

\* A requested cancellation is superseded only by the end of the execution,
\* never by a report of an earlier state, a pause or a safety hold.
CancelRequestStands ==
  [][\A e \in Executions :
       exec[e].state = "cancel_requested"
         => exec'[e].state \in {"cancel_requested"} \union TerminalStates]_vars

=============================================================================
