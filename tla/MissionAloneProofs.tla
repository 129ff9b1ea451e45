-------------------------- MODULE MissionAloneProofs --------------------------
(***************************************************************************)
(* Theorems about MissionControl when every handler runs alone, for every  *)
(* set of tasks and devices, every requirement and every bound: what is    *)
(* left of the design once the races of the handlers are set aside.  The   *)
(* last part is about TaskDag, for every relation of dependency: it is     *)
(* MissionControl, and no robot gets work of a split task before its turn. *)
(***************************************************************************)
EXTENDS MissionControlProofs, TaskDag

-----------------------------------------------------------------------------
(***************************************************************************)
(* What a handler other than telemetry does to each kind of row.           *)
(***************************************************************************)

\* How one execution moves: it stays, an execution without a pending request
\* gets one or fails, or an active one is asked to cancel.
Steered(r, e) ==
  \/ exec'[e] = exec[e]
  \/ /\ e \in r.touched
     /\ exec[e].state \in ActiveStates \ RequestedStates
     /\ \/ exec'[e].state \in RequestedStates
        \/ r.op = "reject" /\ exec'[e].state = "failed"
  \/ /\ exec[e].state \in ActiveStates
     /\ exec'[e].state = "cancel_requested"

\* A control request steers what it loaded.
LEMMA RequestSteers ==
  ASSUME RowTypes, NEW r \in Transactions, Fresh(r), Aimed(r), Loaded(r),
         r.op \in {"pause", "resume", "hold", "reassign"},
         NEW request \in RequestedStates, RequestExecutions(r, request),
         r.op = "reassign" => request = "cancel_requested",
         NEW e \in Executions
  PROVE  Steered(r, e)
<1>1. CASE e \notin r.touched
  BY <1>1 DEF RequestExecutions, Steered
<1>2. CASE e \in r.touched
  <2> DEFINE new == Requested(exec[e], request)
  <2>1. /\ exec[e] \in ExecRow /\ r.exec[e] = exec[e]
        /\ exec[e].state # "absent" /\ exec[e].state \in ActiveStates
    BY <1>2 DEF RowTypes, Fresh, Loaded
  <2>2. new \in ExecRow /\ new.state = request
    BY <2>1, RequestedType
  <2> HIDE DEF new
  <2>3. exec'[e] = MergedExec(exec[e], exec[e], new)
    BY <1>2, <2>1 DEF RequestExecutions, new
  <2>4. exec'[e].state = request
    BY <2>1, <2>2, <2>3, MergedExecType DEF Written
  <2> QED
    BY <1>2, <2>1, <2>4 DEF Aimed, Steered
<1> QED
  BY <1>1, <1>2

\* So does every other handler but telemetry.
LEMMA WriteSteers ==
  ASSUME ConstantsAssumption, RowTypes, NEW r \in Transactions, Fresh(r), Aimed(r), Loaded(r),
         Write(r), r.op # "telemetry", NEW e \in Executions, e <= issued
  PROVE  Steered(r, e)
<1>1. CASE r.op = "pause" /\ WritePause(r)
  BY <1>1, RequestSteers DEF WritePause, RequestedStates
<1>2. CASE r.op = "resume" /\ WriteResume(r)
  BY <1>2, RequestSteers DEF WriteResume, RequestedStates
<1>3. CASE r.op = "hold" /\ WriteHold(r)
  BY <1>3, RequestSteers DEF WriteHold, RequestedStates
<1>4. CASE r.op = "reject" /\ WriteReject(r) /\ e \in r.touched
  <2> DEFINE new == [exec[e] EXCEPT !.state = "failed"]
  <2>1. exec[e] \in ExecRow /\ r.exec[e] = exec[e] /\ exec[e].state \in ActiveStates
    BY <1>4 DEF RowTypes, Fresh
  <2>2. new \in ExecRow /\ new.state = "failed"
    BY <2>1 DEF ExecRow, ExecutionStates, TerminalStates
  <2> HIDE DEF new
  <2>3. exec'[e] = MergedExec(exec[e], exec[e], new)
    BY <1>4, <2>1 DEF WriteReject, new
  <2>4. exec'[e].state = "failed"
    BY <2>1, <2>2, <2>3, MergedExecType DEF Written
  <2> QED
    BY <1>4, <2>1, <2>4 DEF Aimed, Steered
<1>5. CASE r.op = "reject" /\ WriteReject(r) /\ e \notin r.touched
  BY <1>5 DEF WriteReject, Steered
<1>6. CASE DispatchDirect(r)
  BY <1>6 DEF DispatchDirect, RowTypes, Steered
<1>7. CASE r.op = "reassign" /\ WriteReassign(r)
  BY <1>6, <1>7, RequestSteers DEF WriteReassign, RequestedStates
<1>8. CASE r.op = "confirm" /\ WriteConfirm(r)
  BY <1>6, <1>8 DEF WriteConfirm, Steered
<1> QED
  BY <1>1, <1>2, <1>3, <1>4, <1>5, <1>7, <1>8 DEF Write

\* How one task moves: it stays, or the handler's own task keeps its quantity
\* done and gets the status that the handler gives it.
Placed(r, t) ==
  \/ task'[t] = task[t]
  \/ /\ t = r.task
     /\ task'[t].done = task[t].done
     /\ \/ r.op \in {"reject", "confirm"} /\ task'[t].status = "pending"
        \/ /\ r.op = "reassign"
           /\ task'[t].status = "reassign_pending"
           /\ task'[t].intent # None
        \/ /\ r.op \in {"reassign", "confirm"}
           /\ DispatchDirect(r)
           /\ task'[t].status = "assigned"

\* A handler that loaded the task as it is stored writes the status it means.
LEMMA FreshTask ==
  ASSUME NEW row \in TaskRow, NEW new \in TaskRow
  PROVE  /\ MergedTask(row, row, new).status = new.status
         /\ MergedTask(row, row, new).done = row.done
BY DEF MergedTask, Written, TaskRow

LEMMA WritePlaces ==
  ASSUME ConstantsAssumption, RowTypes, NEW r \in Transactions, Aimed(r), Loaded(r),
         Write(r), r.op # "telemetry", NEW t \in Tasks
  PROVE  Placed(r, t)
<1>1. task[t] \in TaskRow
  BY DEF RowTypes
<1>2. CASE r.op \in {"pause", "resume"} /\ RewriteParams(r)
  <2>1. [task[t] EXCEPT !.intent = task[t].intent] = task[t]
    BY <1>1 DEF TaskRow
  <2> QED
    BY <1>2, <2>1 DEF RewriteParams, Aimed, Placed, RowTypes
<1>3. CASE r.op = "hold" /\ WriteHold(r)
  BY <1>3 DEF WriteHold, Placed
<1>4. CASE t # r.task /\ \E new : task' = [task EXCEPT ![r.task] = new]
  BY <1>4 DEF RowTypes, Placed
<1>5. CASE t = r.task /\ r.op = "reject" /\ WriteReject(r)
  <2> DEFINE new == [task[t] EXCEPT !.status = "pending", !.device = None]
  <2>1. new \in TaskRow /\ new.status = "pending"
    BY <1>1 DEF TaskRow, TaskStates
  <2>2. task'[t] = MergedTask(task[t], task[t], new)
    BY <1>5 DEF WriteReject, Aimed, RowTypes
  <2> HIDE DEF new
  <2> QED
    BY <1>1, <1>5, <2>1, <2>2, FreshTask DEF Placed
<1>6. CASE t = r.task /\ r.op \in {"reassign", "confirm"} /\ DispatchDirect(r)
  <2> DEFINE new == [task[t] EXCEPT !.status = "assigned", !.intent = None,
                                    !.device = IF @ = None THEN r.device ELSE @]
  <2>1. r.device \in Devices \union {None}
    BY DEF Transactions
  <2>2. new \in TaskRow /\ new.status = "assigned"
    BY <1>1, <2>1 DEF TaskRow, TaskStates
  <2>3. task'[t] = MergedTask(task[t], task[t], new)
    BY <1>6 DEF DispatchDirect, Aimed, RowTypes
  <2> HIDE DEF new
  <2> QED
    BY <1>1, <1>6, <2>2, <2>3, FreshTask DEF Placed
<1>7. CASE t = r.task /\ r.op = "reassign" /\ WriteReassign(r) /\ ~DispatchDirect(r)
  <2> DEFINE new    == [task[t] EXCEPT !.status = "reassign_pending"]
             merged == MergedTask(task[t], task[t], new)
  <2>1. new \in TaskRow /\ new.status = "reassign_pending"
    BY <1>1 DEF TaskRow, TaskStates
  <2> HIDE DEF new
  <2>2. /\ merged \in TaskRow
        /\ merged.status = "reassign_pending"
        /\ merged.done = task[t].done
    BY <1>1, <2>1, FreshTask, MergedTaskType
  <2>3. task'[t] = [merged EXCEPT !.intent = r.device]
    BY <1>7 DEF WriteReassign, Aimed, RowTypes, new
  <2>4. r.device # None
    BY <1>7 DEF Loaded
  <2> HIDE DEF merged
  <2>5. /\ task'[t].status = "reassign_pending"
        /\ task'[t].done = task[t].done
        /\ task'[t].intent # None
    BY <2>2, <2>3, <2>4 DEF TaskRow
  <2> QED
    BY <1>7, <2>5 DEF Placed
<1>8. CASE t = r.task /\ r.op = "confirm" /\ WriteConfirm(r) /\ ~DispatchDirect(r)
  <2> DEFINE new == [task[t] EXCEPT !.status = "pending"]
  <2>1. new \in TaskRow /\ new.status = "pending"
    BY <1>1 DEF TaskRow, TaskStates
  <2>2. task'[t] = MergedTask(task[t], task[t], new)
    BY <1>8 DEF WriteConfirm, Aimed, RowTypes
  <2> HIDE DEF new
  <2> QED
    BY <1>1, <1>8, <2>1, <2>2, FreshTask DEF Placed
<1> QED
  <2>1. ASSUME DispatchDirect(r) \/ WriteReject(r) \/ WriteReassign(r) \/ WriteConfirm(r)
        PROVE  \E new : task' = [task EXCEPT ![r.task] = new]
    BY <2>1 DEF DispatchDirect, WriteReject, WriteReassign, WriteConfirm
  <2> QED
    BY <1>2, <1>3, <1>4, <1>5, <1>6, <1>7, <1>8, <2>1
       DEF Write, WritePause, WriteResume

\* The task of a rejected start is back to planning.
LEMMA RejectedIsPending ==
  ASSUME RowTypes, NEW r \in Transactions, Aimed(r), Write(r), r.op = "reject"
  PROVE  task'[r.task].status = "pending"
<1> DEFINE row == task[r.task]
           new == [row EXCEPT !.status = "pending", !.device = None]
<1>1. r.task \in Tasks /\ row \in TaskRow /\ r.row = row
  BY DEF RowTypes, Aimed
<1>2. new \in TaskRow /\ new.status = "pending"
  BY <1>1 DEF TaskRow, TaskStates
<1>3. task'[r.task] = MergedTask(row, row, new)
  BY <1>1 DEF Write, WriteReject, RowTypes
<1> HIDE DEF new
<1> QED
  BY <1>1, <1>2, <1>3, FreshTask

\* A report that a handler takes alone: it moves one execution along the table,
\* its allocation with it, and recomputes the task from what is then stored.
Reports(r, e, state) ==
  /\ e <= issued
  /\ r.task = exec[e].task
  /\ state \in Allowed(exec[e].state)
  /\ state # "dispatched"
  /\ exec'[e].state = state
  /\ \A f \in Executions : f # e => exec'[f] = exec[f] /\ alloc'[f] = alloc[f]
  /\ issued' = issued
  /\ \A u \in Tasks : u # r.task => task'[u] = task[u]
  /\ IF HasRequirements(r.task)
       THEN /\ alloc'[e].state = state
            /\ exec[e].state \notin ActiveStates => alloc'[e].done = alloc[e].done
            /\ task'[r.task] = Aggregated(r.task, task[r.task], alloc')
       ELSE /\ alloc' = alloc
            /\ task'[r.task] = Projected(task[r.task], state, Active(r.task) \ {e})

\* Merging into the very row that was loaded gives what the handler means.
LEMMA FreshAlloc ==
  ASSUME NEW a \in AllocRow, NEW new \in AllocRow
  PROVE  MergedAlloc(a, a, new) = new
BY DEF MergedAlloc, Written, AllocRow

LEMMA TelemetryReports ==
  ASSUME RowTypes, RowsCoherent, NEW r \in Transactions, Fresh(r), Loaded(r),
         r.op = "telemetry", Write(r)
  PROVE  \E e \in Executions, state \in ExecutionStates : Reports(r, e, state)
<1>1. PICK reported \in ReportedStates, done \in {0, 1}, as \in {"ready", "busy"} :
        WriteTelemetry(r, reported, done, as)
  BY DEF Write
<1>2. PICK e \in r.touched :
        LET x     == r.exec[e]
            a     == r.alloc[e]
            state == Resolved(x, reported)
            seen  == [a EXCEPT !.state = state, !.done = done]
        IN /\ Accepts(x, reported)
           /\ a.state = "none" \/ reported \notin TerminalStates \/ x.state \in TerminalStates
                => done = a.done
           /\ exec' = [exec EXCEPT ![e] = MergedExec(@, x, [x EXCEPT !.state = state])]
           /\ IF a.state # "none"
                THEN /\ alloc' = [alloc EXCEPT ![e] = MergedAlloc(@, a, seen)]
                     /\ task' = [task EXCEPT ![r.task] =
                                   Aggregated(r.task, @, [alloc EXCEPT ![e] = seen])]
                ELSE /\ task' = [task EXCEPT ![r.task] =
                                   Projected(@, state, Active(r.task) \ {e})]
                     /\ UNCHANGED alloc
           /\ UNCHANGED issued
  BY <1>1 DEF WriteTelemetry
<1> DEFINE x     == exec[e]
           a     == alloc[e]
           state == Resolved(x, reported)
           seen  == [a EXCEPT !.state = state, !.done = done]
           moved == [x EXCEPT !.state = state]
           t     == r.task
<1>3. /\ e \in Executions /\ e <= issued /\ x \in ExecRow /\ a \in AllocRow
      /\ x.state # "absent" /\ r.exec[e] = x /\ r.alloc[e] = a
      /\ (a.state # "none") <=> HasRequirements(t)
      /\ t = x.task /\ t \in Tasks /\ task[t] \in TaskRow
  BY DEF Transactions, Loaded, Fresh, RowTypes, RowsCoherent
<1>4. moved \in ExecRow /\ moved.state = state /\ state \in ExecutionStates /\ state # "dispatched"
  BY <1>3, ResolvedType DEF ExecRow
<1>5. seen \in AllocRow /\ seen.state = state /\ seen.done = done
  BY <1>3, <1>4 DEF AllocRow
<1>6. state \in Allowed(x.state)
  BY <1>2, <1>3 DEF Accepts
<1>7. exec[e].state \notin ActiveStates /\ HasRequirements(t) => done = a.done
  BY <1>2, <1>3 DEF ExecRow, ExecutionStates
<1>8. exec' = [exec EXCEPT ![e] = MergedExec(@, x, moved)] /\ issued' = issued
  BY <1>2, <1>3
<1>9. /\ HasRequirements(t)
           => /\ alloc' = [alloc EXCEPT ![e] = MergedAlloc(@, a, seen)]
              /\ task' = [task EXCEPT ![t] = Aggregated(t, @, [alloc EXCEPT ![e] = seen])]
      /\ ~HasRequirements(t)
           => /\ alloc' = alloc
              /\ task' = [task EXCEPT ![t] = Projected(@, state, Active(t) \ {e})]
  BY <1>2, <1>3
<1> HIDE DEF state, seen, moved
<1>10. exec'[e].state = state
  <2>1. exec'[e] = MergedExec(x, x, moved)
    BY <1>3, <1>8 DEF RowTypes
  <2> QED
    BY <1>3, <1>4, <2>1, MergedExecType DEF Written
<1>11. ASSUME HasRequirements(t)
       PROVE  /\ alloc' = [alloc EXCEPT ![e] = seen]
              /\ alloc'[e].state = state /\ alloc'[e].done = done
              /\ task'[t] = Aggregated(t, task[t], alloc')
  <2>1. MergedAlloc(a, a, seen) = seen
    BY <1>3, <1>5, FreshAlloc
  <2>2. alloc' = [alloc EXCEPT ![e] = seen]
    BY <1>9, <1>11, <2>1
  <2> QED
    BY <1>3, <1>5, <1>9, <1>11, <2>2 DEF RowTypes
<1>12. /\ \A f \in Executions : f # e => exec'[f] = exec[f] /\ alloc'[f] = alloc[f]
       /\ \A u \in Tasks : u # t => task'[u] = task[u]
       /\ ~HasRequirements(t) =>
            alloc' = alloc /\ task'[t] = Projected(task[t], state, Active(t) \ {e})
  BY <1>3, <1>8, <1>9 DEF RowTypes
<1>13. Reports(r, e, state)
  BY <1>3, <1>4, <1>6, <1>7, <1>8, <1>10, <1>11, <1>12 DEF Reports
<1> QED
  BY <1>3, <1>4, <1>13

\* A cancel request touches its own task, and not the quantity done.
LEMMA CancelTaskPlaces ==
  ASSUME RowTypes, NEW u \in Tasks, CancelTask(u), NEW t \in Tasks
  PROVE  /\ t # u => task'[t] = task[t]
         /\ task'[t].done = task[t].done
         /\ task'[u].status = IF Active(u) = {} THEN "cancelled" ELSE "cancel_requested"
<1>1. task[t] \in TaskRow /\ task[u] \in TaskRow
  BY DEF RowTypes
<1>2. CASE Active(u) = {}
  <2>1. task' = [task EXCEPT ![u] = Finalized(task[u])]
    BY <1>2 DEF CancelTask
  <2>2. Finalized(task[u]).status = "cancelled" /\ Finalized(task[u]).done = task[u].done
    BY <1>1 DEF Finalized, TaskRow
  <2> QED
    BY <1>2, <2>1, <2>2 DEF RowTypes
<1>3. CASE Active(u) # {}
  <2>1. task' = [task EXCEPT ![u] = [task[u] EXCEPT !.status = "cancel_requested"]]
    BY <1>3 DEF CancelTask
  <2> QED
    BY <1>1, <1>3, <2>1 DEF RowTypes, TaskRow
<1> QED
  BY <1>2, <1>3

\* So does a tick.
LEMMA TickPlaces ==
  ASSUME RowTypes, NEW u \in Tasks, Tick(u), NEW t \in Tasks
  PROVE  /\ t # u => task'[t] = task[t]
         /\ task'[t].done = task[t].done
         /\ task'[u].status = "assigned"
<1>1. task[t] \in TaskRow /\ task[u] \in TaskRow
  BY DEF RowTypes
<1>2. PICK d : task' = [task EXCEPT ![u] = [task[u] EXCEPT !.status = "assigned",
                                                           !.device = d,
                                                           !.intent = None]]
  BY DEF Tick
<1> QED
  BY <1>1, <1>2 DEF RowTypes, TaskRow

\* The steps when every handler runs alone.
Alone == Basic /\ NoLateRejection /\ Undisturbed

ActsAlone(r) == Loaded(r) /\ Fresh(r) /\ Aimed(r) /\ Rejecting(r) /\ Write(r)

LEMMA AloneRequestShape ==
  ASSUME ConstantsAssumption, Deferred = {}, Alone,
         (\E t \in Tasks : TaskRequest(t)) \/ Others \/ UNCHANGED vars
  PROVE  \/ \E r \in Transactions : ActsAlone(r)
         \/ \E t \in Tasks : CancelTask(t)
         \/ UNCHANGED <<task, exec, alloc, issued>>
<1>1. ~Commit
  BY DEF Commit, Alone, Undisturbed, NoTransaction, Write
<1> QED
  BY <1>1, RequestShape DEF Alone, HandlerStep, Handle, IdleStep, ActsAlone

LEMMA AloneShape ==
  ASSUME ConstantsAssumption, Deferred = {}, Alone, [Next]_vars
  PROVE  \/ \E r \in Transactions : ActsAlone(r)
         \/ \E t \in Tasks : CancelTask(t) \/ Tick(t)
         \/ UNCHANGED <<task, exec, alloc, issued>>
BY AloneRequestShape DEF Next

-----------------------------------------------------------------------------
(***************************************************************************)
(* The executions.                                                         *)
(***************************************************************************)

\* How one execution moves in any step.
Moves(e) ==
  \/ exec'[e].state = exec[e].state
  \/ exec'[e].state \in Allowed(exec[e].state)
  \/ /\ exec[e].state \in ActiveStates
     /\ exec'[e].state = "cancel_requested"
  \/ /\ exec[e].state \in ActiveStates \ RequestedStates
     /\ exec'[e].state \in RequestedStates \union {"failed"}

LEMMA EveryExecutionMoves ==
  ASSUME ConstantsAssumption, Deferred = {}, Alone, [Next]_vars,
         NEW e \in Executions, e <= issued
  PROVE  Moves(e)
<1>0. RowTypes /\ RowsCoherent /\ exec[e] \in ExecRow
  BY DEF Alone, Basic, RowTypes
<1>1. ASSUME NEW r \in Transactions, ActsAlone(r), r.op = "telemetry"
      PROVE  Moves(e)
  <2>1. PICK f \in Executions, state \in ExecutionStates : Reports(r, f, state)
    BY <1>0, <1>1, TelemetryReports DEF ActsAlone
  <2> QED
    BY <2>1 DEF Reports, Moves
<1>2. ASSUME NEW r \in Transactions, ActsAlone(r), r.op # "telemetry"
      PROVE  Moves(e)
  <2>1. Steered(r, e)
    BY <1>0, <1>2, WriteSteers DEF ActsAlone
  <2> QED
    BY <2>1 DEF Steered, Moves
<1>3. ASSUME NEW t \in Tasks, CancelTask(t)
      PROVE  Moves(e)
  <2>1. CASE exec'[e] = exec[e]
    BY <2>1 DEF Moves
  <2>2. CASE e \in Active(t) /\ exec'[e] = Requested(exec[e], "cancel_requested")
    BY <1>0, <2>2 DEF Active, Of, Requested, ExecRow, Moves
  <2> QED
    BY <1>3, <2>1, <2>2 DEF CancelTask
<1>4. ASSUME NEW t \in Tasks, Tick(t)
      PROVE  Moves(e)
  <2>1. e \notin (issued + 1)..(issued + Remaining(t))
    BY <1>0 DEF RowTypes, Executions
  <2>2. exec'[e] = exec[e]
    BY <1>4, <2>1 DEF Tick
  <2> QED
    BY <2>2 DEF Moves
<1>5. CASE UNCHANGED <<task, exec, alloc, issued>>
  BY <1>5 DEF Moves
<1> QED
  BY <1>1, <1>2, <1>3, <1>4, <1>5, AloneShape

\* What a gateway confirmed as the end of an execution stays so: no report,
\* rejection or request moves an execution that has ended.
THEOREM TerminalExecutions ==
  ASSUME Deferred = {}
  PROVE  Spec => TerminalIsFinal
<1>1. ASSUME ConstantsAssumption, Alone, [Next]_vars, NEW e \in Executions,
             exec[e].state \in TerminalStates
      PROVE  exec'[e].state = exec[e].state
  <2>1. e <= issued
    BY <1>1 DEF Alone, Basic, RowsCoherent, NoExec, TerminalStates
  <2>2. Moves(e)
    BY <1>1, <2>1, EveryExecutionMoves
  <2>3. exec[e].state \notin ActiveStates /\ Allowed(exec[e].state) = {exec[e].state}
    BY <1>1 DEF TerminalStates, ActiveStates, RequestedStates, Allowed
  <2> QED
    BY <2>2, <2>3 DEF Moves
<1>2. ConstantsAssumption /\ Alone /\ [Next]_vars
        => [\A e \in Executions : exec[e].state \in TerminalStates
                                    => exec'[e].state = exec[e].state]_vars
  BY <1>1
<1>3. Spec => []Alone
  BY AloneInvariance DEF Alone
<1> QED
  BY <1>2, <1>3, ConstantsAssumption, PTL DEF Spec, TerminalIsFinal

\* A requested cancellation is superseded only by the end of the execution.
THEOREM CancelRequests ==
  ASSUME Deferred = {}
  PROVE  Spec => CancelRequestStands
<1>1. ASSUME ConstantsAssumption, Alone, [Next]_vars, NEW e \in Executions,
             exec[e].state = "cancel_requested"
      PROVE  exec'[e].state \in {"cancel_requested"} \union TerminalStates
  <2>1. e <= issued
    BY <1>1 DEF Alone, Basic, RowsCoherent, NoExec
  <2>2. Moves(e)
    BY <1>1, <2>1, EveryExecutionMoves
  <2>3. Allowed("cancel_requested") \subseteq {"cancel_requested"} \union TerminalStates
    BY DEF Allowed, TerminalStates
  <2> QED
    BY <1>1, <2>2, <2>3 DEF Moves, RequestedStates
<1>2. ConstantsAssumption /\ Alone /\ [Next]_vars
        => [\A e \in Executions :
              exec[e].state = "cancel_requested"
                => exec'[e].state \in {"cancel_requested"} \union TerminalStates]_vars
  BY <1>1
<1>3. Spec => []Alone
  BY AloneInvariance DEF Alone
<1> QED
  BY <1>2, <1>3, ConstantsAssumption, PTL DEF Spec, CancelRequestStands

-----------------------------------------------------------------------------
(***************************************************************************)
(* Tasks that need no resources.                                           *)
(***************************************************************************)

\* What a report makes of the task keeps the intent of a task that waits for
\* its reassignment.
LEMMA ReportKeepsIntent ==
  ASSUME NEW row \in TaskRow, row.status = "reassign_pending" => row.intent # None
  PROVE  /\ \A state, others :
              Projected(row, state, others).status = "reassign_pending"
                => Projected(row, state, others).intent # None
         /\ \A t, av :
              Aggregated(t, row, av).status = "reassign_pending"
                => Aggregated(t, row, av).intent # None
<1>1. ASSUME NEW state, NEW others
      PROVE  Projected(row, state, others).status = "reassign_pending"
               => Projected(row, state, others).intent # None
  BY DEF Projected, Finalized, TaskRow
<1>2. ASSUME NEW t, NEW av
      PROVE  Aggregated(t, row, av).status = "reassign_pending"
               => Aggregated(t, row, av).intent # None
  BY DEF Aggregated, Finalized, TaskRow
<1> QED
  BY <1>1, <1>2

LEMMA IntentStep ==
  ASSUME ConstantsAssumption, Deferred = {}, Alone, IntentIsDurable, [Next]_vars
  PROVE  IntentIsDurable'
<1> SUFFICES ASSUME NEW t \in Tasks, task'[t].status = "reassign_pending"
             PROVE  task'[t].intent # None
  BY DEF IntentIsDurable
<1>0. /\ RowTypes /\ RowsCoherent /\ task[t] \in TaskRow
      /\ task[t].status = "reassign_pending" => task[t].intent # None
  BY DEF Alone, Basic, RowTypes, IntentIsDurable
<1>1. ASSUME NEW r \in Transactions, ActsAlone(r), r.op = "telemetry"
      PROVE  task'[t].intent # None
  <2>1. PICK e \in Executions, state \in ExecutionStates : Reports(r, e, state)
    BY <1>0, <1>1, TelemetryReports DEF ActsAlone
  <2> QED
    BY <1>0, <2>1, ReportKeepsIntent DEF Reports
<1>2. ASSUME NEW r \in Transactions, ActsAlone(r), r.op # "telemetry"
      PROVE  task'[t].intent # None
  <2>1. Placed(r, t)
    BY <1>0, <1>2, WritePlaces DEF ActsAlone
  <2> QED
    BY <1>0, <2>1 DEF Placed
<1>3. ASSUME NEW u \in Tasks, CancelTask(u)
      PROVE  task'[t].intent # None
  BY <1>0, <1>3, CancelTaskPlaces
<1>4. ASSUME NEW u \in Tasks, Tick(u)
      PROVE  task'[t].intent # None
  BY <1>0, <1>4, TickPlaces
<1>5. CASE UNCHANGED <<task, exec, alloc, issued>>
  BY <1>0, <1>5
<1> QED
  BY <1>1, <1>2, <1>3, <1>4, <1>5, AloneShape

\* A task that waits for its reassignment remembers the device it is meant for.
THEOREM IntentRemembered ==
  ASSUME Deferred = {}
  PROVE  Spec => []IntentIsDurable
<1>1. Init => IntentIsDurable
  BY DEF Init, IntentIsDurable, NewTask
<1>2. ConstantsAssumption /\ Alone /\ IntentIsDurable /\ [Next]_vars => IntentIsDurable'
  BY IntentStep
<1>3. Spec => []Alone
  BY AloneInvariance DEF Alone
<1> QED
  BY <1>1, <1>2, <1>3, ConstantsAssumption, PTL DEF Spec

\* The statuses of a task that is in the hands of a robot.
HeldStatuses == {"cancel_requested", "assigned", "running", "paused"}

\* An execution that is active stays active, unless it is reported ended or its
\* start is rejected.
LEMMA OpenStep ==
  ASSUME ConstantsAssumption, Deferred = {}, Alone, OpenTasksHaveAUnit, [Next]_vars
  PROVE  OpenTasksHaveAUnit'
<1> SUFFICES ASSUME NEW t \in Tasks, ~HasRequirements(t), task'[t].status \in HeldStatuses
             PROVE  \E e \in Executions : exec'[e].task = t /\ exec'[e].state \in ActiveStates
  BY DEF OpenTasksHaveAUnit, HeldStatuses, HasRequirements, Active, Of
<1> DEFINE Kept == \E e \in Executions : exec'[e].task = t /\ exec'[e].state \in ActiveStates
<1>0. /\ RowTypes /\ RowsCoherent /\ Evolves /\ task[t] \in TaskRow
      /\ task[t].status \in HeldStatuses => Active(t) # {}
  BY BasicStep DEF Alone, Basic, RowTypes, OpenTasksHaveAUnit, HeldStatuses
<1>a. ASSUME NEW e \in Executions, exec[e].state \in ActiveStates
      PROVE  e <= issued /\ exec'[e].task = exec[e].task
  BY <1>0, <1>a DEF RowsCoherent, NoExec, ActiveStates, RequestedStates, Evolves
<1>1. ASSUME NEW r \in Transactions, ActsAlone(r), r.op = "telemetry"
      PROVE  Kept
  <2>1. PICK e \in Executions, state \in ExecutionStates : Reports(r, e, state)
    BY <1>0, <1>1, TelemetryReports DEF ActsAlone
  <2>2. CASE t # r.task
    <3>1. task'[t] = task[t]
      BY <2>1, <2>2 DEF Reports
    <3>2. PICK f \in Active(t) : TRUE
      BY <1>0, <3>1
    <3>3. f # e
      BY <2>1, <2>2, <3>2 DEF Reports, Active, Of
    <3> QED
      BY <2>1, <3>2, <3>3 DEF Reports, Active, Of
  <2>3. CASE t = r.task
    <3>1. task'[t] = Projected(task[t], state, Active(t) \ {e})
      BY <2>1, <2>3 DEF Reports
    <3>2. CASE state \in ActiveStates
      <4>1. exec'[e].task = t
        BY <1>0, <2>1, <2>3 DEF Reports, Evolves
      <4> QED
        BY <2>1, <3>2, <4>1 DEF Reports
    <3>3. CASE \E f \in Active(t) : f # e
      BY <2>1, <3>3 DEF Reports, Active, Of
    <3> QED
      BY <1>0, <3>1, <3>2, <3>3 DEF Projected, Finalized, TaskRow, HeldStatuses,
                                    ExecutionStates, TerminalStates
  <2> QED
    BY <2>2, <2>3
<1>2. ASSUME NEW r \in Transactions, ActsAlone(r), r.op # "telemetry"
      PROVE  Kept
  <2>1. Placed(r, t) /\ r \in Transactions /\ Loaded(r) /\ Aimed(r)
    BY <1>0, <1>2, WritePlaces DEF ActsAlone
  <2>2. CASE DispatchDirect(r) /\ t = r.task
    <3>1. issued + 1 \in Executions
      BY <1>0, <2>2, ConstantsAssumption
         DEF DispatchDirect, RowTypes, Executions, ConstantsAssumption
    <3>2. exec'[issued + 1] = [task |-> t, device |-> r.device,
                               state |-> "dispatched", ret |-> "none"]
      BY <1>0, <2>2, <3>1 DEF DispatchDirect, RowTypes
    <3> QED
      BY <3>1, <3>2 DEF ActiveStates
  <2>3. CASE task'[t] = task[t]
    <3>1. PICK f \in Active(t) : TRUE
      BY <1>0, <2>3
    <3>2. f \in Executions /\ exec[f].task = t /\ exec[f].state \in ActiveStates
      BY <3>1 DEF Active, Of
    <3>3. Steered(r, f)
      BY <1>0, <1>2, <1>a, <3>2, WriteSteers DEF ActsAlone
    <3>4. CASE exec'[f].state \in ActiveStates
      BY <1>a, <3>2, <3>4
    <3>5. CASE r.op = "reject" /\ f \in r.touched
      <4>1. r.task = t
        BY <2>1, <3>2, <3>5 DEF Aimed
      <4>2. task'[t].status = "pending"
        BY <1>0, <1>2, <3>5, <4>1, RejectedIsPending DEF ActsAlone
      <4> QED
        BY <4>2 DEF HeldStatuses
    <3> QED
      BY <3>2, <3>3, <3>4, <3>5 DEF Steered, ActiveStates, RequestedStates
  <2> QED
    BY <2>1, <2>2, <2>3 DEF Placed, HeldStatuses
<1>3. ASSUME NEW u \in Tasks, CancelTask(u)
      PROVE  Kept
  <2>1. CASE u # t \/ Active(t) # {}
    <3>1. PICK f \in Active(t) : TRUE
      BY <1>0, <1>3, <2>1, CancelTaskPlaces
    <3>2. f \in Executions /\ exec[f].task = t /\ exec[f].state \in ActiveStates
      BY <3>1 DEF Active, Of
    <3>3. exec'[f].state \in ActiveStates
      <4>1. Requested(exec[f], "cancel_requested").state = "cancel_requested"
        BY <1>0, <3>2 DEF Requested, RowTypes, ExecRow
      <4>2. exec'[f] \in {exec[f], Requested(exec[f], "cancel_requested")}
        BY <1>3, <3>2 DEF CancelTask
      <4> QED
        BY <3>2, <4>1, <4>2 DEF ActiveStates, RequestedStates
    <3> QED
      BY <1>a, <3>2, <3>3
  <2>2. CASE u = t /\ Active(t) = {}
    BY <1>0, <1>3, <2>2, CancelTaskPlaces DEF HeldStatuses
  <2> QED
    BY <2>1, <2>2
<1>4. ASSUME NEW u \in Tasks, Tick(u)
      PROVE  Kept
  <2>1. u # t
    BY <1>4 DEF Tick
  <2>2. PICK f \in Active(t) : TRUE
    BY <1>0, <1>4, <2>1, TickPlaces
  <2>3. f \in Executions /\ exec[f].task = t /\ exec[f].state \in ActiveStates /\ f <= issued
    BY <1>a, <2>2 DEF Active, Of
  <2>4. f \notin (issued + 1)..(issued + Remaining(u))
    BY <1>0, <2>3 DEF RowTypes, Executions
  <2>5. exec'[f] = exec[f]
    BY <1>4, <2>3, <2>4 DEF Tick
  <2> QED
    BY <2>3, <2>5
<1>5. CASE UNCHANGED <<task, exec, alloc, issued>>
  BY <1>0, <1>5 DEF Active, Of
<1> QED
  BY <1>1, <1>2, <1>3, <1>4, <1>5, AloneShape

\* A direct task that is shown as assigned, running or paused, or waits for its
\* cancellation, has an execution that can still end it.
THEOREM OpenTasks ==
  ASSUME Deferred = {}
  PROVE  Spec => []OpenTasksHaveAUnit
<1>1. Init => OpenTasksHaveAUnit
  BY DEF Init, OpenTasksHaveAUnit, NewTask
<1>2. ConstantsAssumption /\ Alone /\ OpenTasksHaveAUnit /\ [Next]_vars => OpenTasksHaveAUnit'
  BY OpenStep
<1>3. Spec => []Alone
  BY AloneInvariance DEF Alone
<1> QED
  BY <1>1, <1>2, <1>3, ConstantsAssumption, PTL DEF Spec

-----------------------------------------------------------------------------
(***************************************************************************)
(* Tasks that are split into units of work.  A unit counts against the     *)
(* requirement while it is reserved or done.  The quantity done of the     *)
(* task is what its allocations say, and a completed task has all of it.   *)
(***************************************************************************)
Shares(t) == {e \in Of(t) : alloc[e].done = 1 \/ alloc[e].state \in ActiveStates}

WorkCoherent ==
  \A t \in Tasks :
    HasRequirements(t) =>
      /\ Cardinality(Shares(t)) <= Required[t]
      /\ task[t].done = Done(t, alloc)
      /\ task[t].status = "completed" => task[t].done = Required[t]

\* Sets of executions are finite.
LEMMA ExecutionsFinite ==
  ASSUME ConstantsAssumption, NEW S \in SUBSET Executions
  PROVE  IsFiniteSet(S) /\ Cardinality(S) \in Nat
<1>1. IsFiniteSet(Executions)
  BY FS_Interval DEF ConstantsAssumption, Executions
<1>2. IsFiniteSet(S)
  BY <1>1, FS_Subset
<1> QED
  BY <1>2, FS_CardinalityType

LEMMA FewerExecutions ==
  ASSUME ConstantsAssumption, NEW S \in SUBSET Executions, NEW T \in SUBSET S
  PROVE  Cardinality(T) <= Cardinality(S)
BY ExecutionsFinite, FS_Subset

\* The executions of a task stay its own, while no new one is created for it.
LEMMA SameExecutions ==
  ASSUME ConstantsAssumption, RowsCoherent, RowsCoherent', Evolves, NEW t \in Tasks,
         \A e \in Executions : e <= issued' => e <= issued \/ exec'[e].task # t
  PROVE  Of(t)' = Of(t)
<1>1. None \notin Tasks
  BY DEF ConstantsAssumption
<1>2. ASSUME NEW e \in Executions
      PROVE  exec'[e].task = t <=> exec[e].task = t
  BY <1>1 DEF RowsCoherent, Evolves, NoExec
<1> QED
  BY <1>2 DEF Of

\* A step in which nothing more of a task is reserved or done.
LEMMA QuietWork ==
  ASSUME ConstantsAssumption, RowTypes, NEW t \in Tasks,
         Cardinality(Shares(t)) <= Required[t],
         task[t].done = Done(t, alloc),
         task[t].status = "completed" => task[t].done = Required[t],
         Of(t)' = Of(t),
         \A e \in Of(t) : /\ alloc'[e].done = alloc[e].done
                          /\ alloc'[e].state \in ActiveStates => alloc[e].state \in ActiveStates,
         task'[t].done = task[t].done,
         task'[t].status = "completed" => task[t].status = "completed"
  PROVE  /\ Cardinality(Shares(t)') <= Required[t]
         /\ task'[t].done = Done(t, alloc)'
         /\ task'[t].status = "completed" => task'[t].done = Required[t]
<1>1. Shares(t) \in SUBSET Executions /\ Shares(t)' \in SUBSET Shares(t)
  BY DEF Shares, Of
<1>2. Cardinality(Shares(t)') <= Cardinality(Shares(t))
  BY <1>1, FewerExecutions
<1>3. Cardinality(Shares(t)) \in Nat /\ Cardinality(Shares(t)') \in Nat
  BY <1>1, ExecutionsFinite
<1>4. Required[t] \in Nat
  BY DEF ConstantsAssumption
<1>5. {e \in Of(t)' : alloc'[e].done = 1} = {e \in Of(t) : alloc[e].done = 1}
  OBVIOUS
<1>6. Done(t, alloc)' = Done(t, alloc)
  BY <1>5 DEF Done
<1> QED
  BY <1>2, <1>3, <1>4, <1>6

\* What a handler other than telemetry does to the allocations.
LEMMA WriteAllocations ==
  ASSUME RowTypes, RowsCoherent, StopCoherent, NEW r \in Transactions, Fresh(r), Loaded(r),
         Write(r), r.op # "telemetry", NEW e \in Executions, e <= issued,
         HasRequirements(exec[e].task)
  PROVE  /\ alloc'[e].done = alloc[e].done
         /\ alloc'[e].state \in ActiveStates => alloc[e].state \in ActiveStates
<1>1. CASE alloc' = alloc
  BY <1>1
<1>2. ASSUME NEW request \in RequestedStates, RequestAllocations(r, request)
      PROVE  /\ alloc'[e].done = alloc[e].done
             /\ alloc'[e].state \in ActiveStates => alloc[e].state \in ActiveStates
  <2>1. CASE e \notin r.touched
    BY <1>2, <2>1 DEF RequestAllocations
  <2>2. CASE e \in r.touched
    <3>1. alloc[e].state \in ActiveStates /\ alloc[e] \in AllocRow /\ r.alloc[e] = alloc[e]
      BY <2>2 DEF Fresh, StopCoherent, RowTypes
    <3>2. alloc'[e] \in {alloc[e], MergedAlloc(alloc[e], alloc[e],
                                               [alloc[e] EXCEPT !.state = request])}
      BY <1>2, <3>1 DEF RequestAllocations
    <3>3. MergedAlloc(alloc[e], alloc[e], [alloc[e] EXCEPT !.state = request]).done
            = alloc[e].done
      BY <3>1 DEF MergedAlloc, Written, AllocRow
    <3> QED
      BY <3>1, <3>2, <3>3
  <2> QED
    BY <2>1, <2>2
<1> QED
  BY <1>1, <1>2 DEF Write, WritePause, WriteResume, WriteHold, WriteReject, WriteReassign,
                    WriteConfirm, DispatchDirect, RequestedStates

\* What a report makes of a task with allocations.
LEMMA AggregatedDone ==
  ASSUME ConstantsAssumption, NEW t \in Tasks, NEW row \in TaskRow, NEW av
  PROVE  /\ Aggregated(t, row, av).done
              = IF Done(t, av) < Required[t] THEN Done(t, av) ELSE Required[t]
         /\ Aggregated(t, row, av).status = "completed"
              => Aggregated(t, row, av).done = Required[t]
<1>1. Done(t, av) \in Nat /\ Required[t] \in Nat
  BY DoneType DEF ConstantsAssumption
<1> QED
  BY <1>1 DEF Aggregated, Finalized, TaskRow

\* A report gives out no unit: what it leaves reserved or done was reserved or
\* done before.
LEMMA ReportWork ==
  ASSUME ConstantsAssumption, RowTypes, RowsCoherent, StopCoherent, RowsCoherent', Evolves,
         NEW r \in Transactions, NEW e \in Executions, NEW state \in ExecutionStates,
         Reports(r, e, state), NEW t \in Tasks, HasRequirements(t),
         Cardinality(Shares(t)) <= Required[t],
         task[t].done = Done(t, alloc),
         task[t].status = "completed" => task[t].done = Required[t]
  PROVE  /\ Cardinality(Shares(t)') <= Required[t]
         /\ task'[t].done = Done(t, alloc)'
         /\ task'[t].status = "completed" => task'[t].done = Required[t]
<1>1. Of(t)' = Of(t)
  BY SameExecutions DEF Reports
<1>2. CASE t # r.task
  <2>1. \A f \in Of(t) : alloc'[f] = alloc[f]
    BY <1>2 DEF Reports, Of
  <2>2. task'[t] = task[t]
    BY <1>2 DEF Reports
  <2> QED
    BY <1>1, <2>1, <2>2, QuietWork
<1>3. CASE t = r.task
  <2>1. /\ alloc'[e].state = state
        /\ exec[e].state \notin ActiveStates => alloc'[e].done = alloc[e].done
        /\ task'[t] = Aggregated(t, task[t], alloc')
        /\ exec[e].task = t /\ e <= issued
        /\ state \in Allowed(exec[e].state)
    BY <1>3 DEF Reports
  <2>2. exec[e].state \in ActiveStates => alloc[e].state \in ActiveStates
    BY <2>1 DEF StopCoherent
  <2>3. state \in ActiveStates => exec[e].state \in ActiveStates
    <3>1. exec[e].state \in ExecutionStates
      BY <2>1 DEF RowTypes, RowsCoherent, ExecRow
    <3>2. exec[e].state \in TerminalStates => Allowed(exec[e].state) = {exec[e].state}
      BY DEF Allowed, TerminalStates
    <3> QED
      BY <2>1, <3>1, <3>2 DEF ExecutionStates
  <2>4. Shares(t)' \in SUBSET Shares(t) /\ Shares(t) \in SUBSET Executions
    <3>1. ASSUME NEW f \in Shares(t)'
          PROVE  f \in Shares(t)
      <4>1. f \in Of(t) /\ (alloc'[f].done = 1 \/ alloc'[f].state \in ActiveStates)
        BY <1>1 DEF Shares
      <4>2. CASE f # e
        BY <4>1, <4>2 DEF Reports, Shares, Of
      <4>3. CASE f = e
        BY <2>1, <2>2, <2>3, <4>1, <4>3 DEF Shares
      <4> QED
        BY <4>2, <4>3
    <3> QED
      BY <3>1 DEF Shares, Of
  <2>5. /\ Cardinality(Shares(t)') <= Cardinality(Shares(t))
        /\ Cardinality(Shares(t)) \in Nat /\ Cardinality(Shares(t)') \in Nat
    BY <2>4, FewerExecutions, ExecutionsFinite
  <2> DEFINE Finished == {f \in Of(t) : alloc'[f].done = 1}
  <2>6. Done(t, alloc)' = Cardinality(Finished) /\ Done(t, alloc') = Cardinality(Finished)
    BY <1>1 DEF Done
  <2>7. Finished \in SUBSET Shares(t)' /\ Shares(t)' \in SUBSET Executions
    BY <1>1, <2>4 DEF Shares
  <2> HIDE DEF Finished
  <2>8. Cardinality(Finished) <= Cardinality(Shares(t)') /\ Cardinality(Finished) \in Nat
    BY <2>7, FewerExecutions, ExecutionsFinite
  <2>9. task[t] \in TaskRow /\ Required[t] \in Nat
    BY DEF RowTypes, ConstantsAssumption
  <2>10. /\ task'[t].done = IF Cardinality(Finished) < Required[t]
                              THEN Cardinality(Finished) ELSE Required[t]
         /\ task'[t].status = "completed" => task'[t].done = Required[t]
    BY <2>1, <2>6, <2>9, AggregatedDone
  <2> QED
    BY <2>5, <2>6, <2>8, <2>9, <2>10
<1> QED
  BY <1>2, <1>3

\* A tick gives out exactly what is neither reserved nor done.
LEMMA TickWork ==
  ASSUME ConstantsAssumption, RowTypes, RowsCoherent, RowsCoherent', Evolves,
         NEW u \in Tasks, Tick(u), NEW t \in Tasks, HasRequirements(t),
         Cardinality(Shares(t)) <= Required[t],
         task[t].done = Done(t, alloc),
         task[t].status = "completed" => task[t].done = Required[t]
  PROVE  /\ Cardinality(Shares(t)') <= Required[t]
         /\ task'[t].done = Done(t, alloc)'
         /\ task'[t].status = "completed" => task'[t].done = Required[t]
<1> DEFINE k   == Remaining(u)
           new == (issued + 1)..(issued + k)
<1>1. PICK place :
        /\ exec' = [e \in Executions |->
                      IF e \in new
                        THEN [task |-> u, device |-> place[e],
                              state |-> "dispatched", ret |-> "none"]
                        ELSE exec[e]]
        /\ alloc' = [e \in Executions |->
                       IF e \in new THEN [state |-> "dispatched", done |-> 0]
                                    ELSE alloc[e]]
  BY DEF Tick
<1>2. k > 0 /\ issued + k <= MaxExecutions /\ issued' = issued + k
  BY DEF Tick
<1>3. issued \in Nat /\ MaxExecutions \in Nat
  BY DEF RowTypes, ConstantsAssumption
<1> DEFINE Finished == {e \in Of(u) : alloc[e].done = 1}
           Reserved == {e \in Live(u, alloc) : alloc[e].done = 0}
<1>4. /\ IsFiniteSet(Finished) /\ Cardinality(Finished) \in Nat
      /\ IsFiniteSet(Reserved) /\ Cardinality(Reserved) \in Nat
      /\ IsFiniteSet(Shares(u)) /\ Cardinality(Shares(u)) \in Nat
  <2>1. /\ Finished \in SUBSET Executions
        /\ Reserved \in SUBSET Executions
        /\ Shares(u) \in SUBSET Executions
    BY DEF Of, Live, Shares
  <2> HIDE DEF Finished, Reserved
  <2> QED
    BY <2>1, ExecutionsFinite
<1>5. Required[u] \in Nat /\ task[u].done \in Nat /\ Required[t] \in Nat
  BY DEF ConstantsAssumption, RowTypes, TaskRow
<1>6. k = Required[u] - task[u].done - Cardinality(Reserved) /\ k \in Nat
  <2> HIDE DEF Reserved
  <2>1. k = IF Required[u] - task[u].done - Cardinality(Reserved) < 0
              THEN 0 ELSE Required[u] - task[u].done - Cardinality(Reserved)
    BY DEF Remaining, Reserved
  <2> QED
    BY <1>2, <1>4, <1>5, <2>1
<1> HIDE DEF k
<1>7. \A e \in new : e \in Executions /\ ~(e <= issued)
  BY <1>2, <1>3, <1>6 DEF Executions
<1>8. task'[t].done = task[t].done /\ (task'[t].status = "completed" => t # u)
      /\ (t # u => task'[t] = task[t])
  BY TickPlaces
<1>9. CASE t # u
  <2>1. \A e \in Executions : e <= issued' => e <= issued \/ exec'[e].task # t
    BY <1>1, <1>2, <1>3, <1>6, <1>9 DEF Executions
  <2>2. Of(t)' = Of(t)
    BY <2>1, SameExecutions
  <2>3. ASSUME NEW e \in Of(t)
        PROVE  alloc'[e] = alloc[e]
    <3>1. e \in Executions /\ e <= issued
      BY ConstantsAssumption DEF Of, RowsCoherent, NoExec, ConstantsAssumption
    <3> QED
      BY <1>1, <1>7, <3>1
  <2> QED
    BY <1>8, <1>9, <2>2, <2>3, QuietWork
<1>10. CASE t = u
  <2>1. ASSUME NEW e \in Executions
        PROVE  /\ e \in new => exec'[e].task = u /\ alloc'[e].state \in ActiveStates
                                 /\ alloc'[e].done = 0
               /\ e \notin new => exec'[e] = exec[e] /\ alloc'[e] = alloc[e]
               /\ exec[e].task = u => e \notin new
    <3>1. exec[e].task = u => e <= issued
      BY ConstantsAssumption DEF RowsCoherent, NoExec, ConstantsAssumption
    <3> QED
      BY <1>1, <1>7, <3>1 DEF ActiveStates
  <2> HIDE DEF new
  <2>2. Shares(u)' = Shares(u) \union new
    BY <1>7, <2>1 DEF Shares, Of
  <2>3. Shares(u) \intersect new = {}
    BY <2>1 DEF Shares, Of
  <2>4. {e \in Of(u) : alloc[e].done = 1}' = Finished
    BY <1>7, <2>1 DEF Of
  <2>5. IsFiniteSet(new) /\ Cardinality(new) = k
    <3>1. issued + 1 \in Int /\ issued + k \in Int /\ ~(issued + 1 > issued + k)
          /\ (issued + k) - (issued + 1) + 1 = k
      BY <1>2, <1>3, <1>6
    <3> QED
      BY <3>1, FS_Interval DEF new
  <2>6. Cardinality(Shares(u)') = Cardinality(Shares(u)) + k
    <3>1. Cardinality(Shares(u) \union new)
            = Cardinality(Shares(u)) + Cardinality(new) - Cardinality(Shares(u) \intersect new)
      BY <1>4, <2>5, FS_Union
    <3>2. Cardinality(Shares(u) \intersect new) = 0
      BY <2>3, FS_EmptySet
    <3> QED
      BY <1>4, <1>6, <2>2, <2>5, <3>1, <3>2
  <2>7. Cardinality(Shares(u)) = Cardinality(Finished) + Cardinality(Reserved)
    <3>1. /\ Shares(u) = Finished \union Reserved
          /\ Finished \intersect Reserved = {}
      <4>1. \A e \in Executions : alloc[e].done \in {0, 1}
        BY DEF RowTypes, AllocRow
      <4> QED
        BY <4>1 DEF Shares, Live, Of
    <3> HIDE DEF Finished, Reserved
    <3>2. Cardinality(Finished \union Reserved)
            = Cardinality(Finished) + Cardinality(Reserved)
                - Cardinality(Finished \intersect Reserved)
      BY <1>4, FS_Union
    <3>3. Cardinality(Finished \intersect Reserved) = 0
      BY <3>1, FS_EmptySet
    <3> QED
      BY <1>4, <3>1, <3>2, <3>3
  <2>8. task[u].done = Cardinality(Finished) /\ Done(u, alloc)' = Cardinality(Finished)
    BY <1>10, <2>4 DEF Done
  <2> HIDE DEF Finished, Reserved
  <2>9. Cardinality(Shares(u)') = Required[u]
    BY <1>4, <1>5, <1>6, <2>6, <2>7, <2>8
  <2> QED
    BY <1>5, <1>8, <1>10, <2>8, <2>9
<1> QED
  BY <1>9, <1>10

\* Only a tick gives work of a split task to a robot.
LEMMA WriteGivesNoWork ==
  ASSUME ConstantsAssumption, RowTypes, RowsCoherent, RowsCoherent', Evolves,
         NEW r \in Transactions, Loaded(r), Write(r), r.op # "telemetry",
         NEW t \in Tasks, HasRequirements(t)
  PROVE  Of(t)' = Of(t)
<1>1. ASSUME NEW e \in Executions, e <= issued', ~(e <= issued)
      PROVE  exec'[e].task # t
  <2>1. issued' = issued \/ (DispatchDirect(r) /\ r.op \in {"reassign", "confirm"})
    BY DEF Write, WritePause, WriteResume, WriteHold, WriteReject, WriteReassign, WriteConfirm
  <2>2. DispatchDirect(r) /\ r.op \in {"reassign", "confirm"}
    BY <1>1, <2>1
  <2>3. e = issued + 1
    BY <1>1, <2>2 DEF DispatchDirect, RowTypes, Executions
  <2>4. exec'[e].task = r.task
    BY <2>2, <2>3 DEF DispatchDirect, RowTypes
  <2> QED
    BY <2>2, <2>4 DEF Loaded
<1> QED
  BY <1>1, SameExecutions

\* Every step keeps the account of the units.
LEMMA WorkStep ==
  ASSUME ConstantsAssumption, Deferred = {}, Alone, WorkCoherent, [Next]_vars
  PROVE  WorkCoherent'
<1> SUFFICES ASSUME NEW t \in Tasks, HasRequirements(t)
             PROVE  /\ Cardinality(Shares(t)') <= Required[t]
                    /\ task'[t].done = Done(t, alloc)'
                    /\ task'[t].status = "completed" => task'[t].done = Required[t]
  BY DEF WorkCoherent, HasRequirements
<1>0. /\ RowTypes /\ RowsCoherent /\ StopCoherent /\ RowsCoherent' /\ Evolves
      /\ Cardinality(Shares(t)) <= Required[t]
      /\ task[t].done = Done(t, alloc)
      /\ task[t].status = "completed" => task[t].done = Required[t]
  BY BasicStep DEF Alone, Basic, Undisturbed, WorkCoherent
<1>a. ASSUME NEW e \in Of(t)
      PROVE  e \in Executions /\ e <= issued /\ exec[e].task = t
  BY <1>0, ConstantsAssumption DEF Of, RowsCoherent, NoExec, ConstantsAssumption
<1> DEFINE Kept == /\ Cardinality(Shares(t)') <= Required[t]
                   /\ task'[t].done = Done(t, alloc)'
                   /\ task'[t].status = "completed" => task'[t].done = Required[t]
<1>1. ASSUME NEW r \in Transactions, ActsAlone(r), r.op = "telemetry"
      PROVE  Kept
  <2>1. PICK e \in Executions, state \in ExecutionStates : Reports(r, e, state)
    BY <1>0, <1>1, TelemetryReports DEF ActsAlone
  <2> QED
    BY <1>0, <2>1, ReportWork
<1>2. ASSUME NEW r \in Transactions, ActsAlone(r), r.op # "telemetry"
      PROVE  Kept
  <2>1. Loaded(r) /\ Fresh(r) /\ Aimed(r) /\ Write(r)
    BY <1>2 DEF ActsAlone
  <2>3. Of(t)' = Of(t)
    BY <1>0, <1>2, <2>1, WriteGivesNoWork
  <2>4. \A e \in Of(t) : /\ alloc'[e].done = alloc[e].done
                         /\ alloc'[e].state \in ActiveStates => alloc[e].state \in ActiveStates
    BY <1>0, <1>2, <1>a, <2>1, WriteAllocations
  <2>5. task'[t].done = task[t].done /\ (task'[t].status = "completed" => task[t].status = "completed")
    <3>1. Placed(r, t)
      BY <1>0, <1>2, <2>1, WritePlaces
    <3> QED
      BY <3>1 DEF Placed
  <2> QED
    BY <1>0, <2>3, <2>4, <2>5, QuietWork
<1>3. ASSUME NEW u \in Tasks, CancelTask(u)
      PROVE  Kept
  <2>1. Of(t)' = Of(t)
    BY <1>0, <1>3, SameExecutions DEF CancelTask
  <2>2. ASSUME NEW e \in Of(t)
        PROVE  /\ alloc'[e].done = alloc[e].done
               /\ alloc'[e].state \in ActiveStates => alloc[e].state \in ActiveStates
    <3>1. alloc[e] \in AllocRow /\ e \in Executions /\ e <= issued /\ exec[e].task = t
      BY <1>0, <1>a DEF RowTypes
    <3>2. exec[e].state \in ActiveStates => alloc[e].state \in ActiveStates
      BY <1>0, <3>1 DEF StopCoherent
    <3>3. \/ alloc'[e] = alloc[e]
          \/ alloc'[e] = [alloc[e] EXCEPT !.state = "cancelled"]
          \/ /\ exec[e].state \in ActiveStates
             /\ alloc'[e] = [alloc[e] EXCEPT !.state = "cancel_requested"]
      BY <1>3, <3>1 DEF CancelTask, Active
    <3> QED
      BY <3>1, <3>2, <3>3 DEF AllocRow, ActiveStates, RequestedStates
  <2>3. task'[t].done = task[t].done /\ (task'[t].status = "completed" => task[t].status = "completed")
    BY <1>0, <1>3, CancelTaskPlaces
  <2> QED
    BY <1>0, <2>1, <2>2, <2>3, QuietWork
<1>4. ASSUME NEW u \in Tasks, Tick(u)
      PROVE  Kept
  BY <1>0, <1>4, TickWork
<1>5. CASE UNCHANGED <<task, exec, alloc, issued>>
  <2>1. Of(t)' = Of(t)
    BY <1>5 DEF Of
  <2> QED
    BY <1>0, <1>5, <2>1, QuietWork
<1> QED
  BY <1>1, <1>2, <1>3, <1>4, <1>5, AloneShape

\* The account of the units holds in every behaviour.
LEMMA WorkInvariance ==
  ASSUME Deferred = {}
  PROVE  Spec => [](Alone /\ WorkCoherent)
<1>1. ASSUME ConstantsAssumption, Init
      PROVE  WorkCoherent
  <2> SUFFICES ASSUME NEW t \in Tasks
               PROVE  /\ Cardinality(Shares(t)) <= Required[t]
                      /\ task[t].done = Done(t, alloc)
                      /\ task[t].status # "completed"
    BY DEF WorkCoherent
  <2>1. Shares(t) = {} /\ {e \in Of(t) : alloc[e].done = 1} = {}
    BY <1>1 DEF Init, Shares, Of, NoExec, ConstantsAssumption
  <2>2. task[t].done = 0 /\ task[t].status = "pending" /\ Required[t] \in Nat
    BY <1>1 DEF Init, NewTask, ConstantsAssumption
  <2>3. Cardinality(Shares(t)) = 0 /\ Done(t, alloc) = 0
    BY <2>1, FS_EmptySet DEF Done
  <2> QED
    BY <2>2, <2>3
<1>2. ConstantsAssumption /\ Alone /\ WorkCoherent /\ [Next]_vars => WorkCoherent'
  BY WorkStep
<1>3. Spec => []Alone
  BY AloneInvariance DEF Alone
<1> QED
  BY <1>1, <1>2, <1>3, ConstantsAssumption, PTL DEF Spec

\* No unit of work is given out twice: what is finished and what is reserved
\* never exceed what the task requires, through failures and replanning.
THEOREM UnitsGivenOnce ==
  ASSUME Deferred = {}
  PROVE  Spec => []NoUnitGivenTwice
<1>1. WorkCoherent => NoUnitGivenTwice
  BY DEF WorkCoherent, NoUnitGivenTwice, Shares
<1> QED
  BY <1>1, WorkInvariance, PTL

\* A report of a unit of a completed task repeats what is stored.
LEMMA ReportCompleted ==
  ASSUME ConstantsAssumption, Alone, WorkCoherent,
         NEW r \in Transactions, NEW e \in Executions, NEW state \in ExecutionStates,
         Reports(r, e, state), NEW t \in Tasks, HasRequirements(t),
         task[t].status = "completed"
  PROVE  task'[t].status = "completed"
<1>1. CASE t # r.task
  BY <1>1 DEF Reports
<1>2. CASE t = r.task
  <2>1. /\ RowTypes /\ RowsCoherent /\ StopCoherent /\ CancelCoherent
        /\ task[t] \in TaskRow /\ Required[t] \in Nat
        /\ task[t].done = Required[t] /\ task[t].done = Done(t, alloc)
    BY DEF Alone, Basic, NoLateRejection, Undisturbed, RowTypes, WorkCoherent,
           ConstantsAssumption
  <2>2. /\ alloc'[e].state = state
        /\ exec[e].state \notin ActiveStates => alloc'[e].done = alloc[e].done
        /\ task'[t] = Aggregated(t, task[t], alloc')
        /\ exec[e].task = t /\ e <= issued
        /\ state \in Allowed(exec[e].state)
    BY <1>2 DEF Reports
  <2>3. exec[e].state \notin ActiveStates
    BY <2>1, <2>2 DEF StopCoherent
  <2>4. state \notin ActiveStates
    <3>1. exec[e].state \in TerminalStates
      BY <2>1, <2>2, <2>3 DEF RowTypes, RowsCoherent, ExecRow, ExecutionStates
    <3>2. Allowed(exec[e].state) = {exec[e].state}
      BY <3>1 DEF Allowed, TerminalStates
    <3> QED
      BY <2>2, <2>3, <3>2
  <2>5. ASSUME NEW f \in Of(t)
        PROVE  alloc'[f].state \notin ActiveStates /\ alloc'[f].done = alloc[f].done
    <3>1. f \in Executions /\ f <= issued /\ exec[f].task = t
      BY <2>1, ConstantsAssumption DEF Of, RowsCoherent, NoExec, ConstantsAssumption
    <3>2. CASE f = e
      BY <2>2, <2>3, <2>4, <3>2
    <3>3. CASE f # e
      BY <2>1, <3>1, <3>3 DEF Reports, StopCoherent
    <3> QED
      BY <3>2, <3>3
  <2>6. Live(t, alloc') = {}
    BY <2>5 DEF Live
  <2>7. Done(t, alloc') = Required[t]
    <3>1. {f \in Of(t) : alloc'[f].done = 1} = {f \in Of(t) : alloc[f].done = 1}
      BY <2>5
    <3> QED
      BY <2>1, <3>1 DEF Done
  <2>8. ~task[t].stamped
    BY <2>1 DEF CancelCoherent
  <2> QED
    BY <2>1, <2>2, <2>6, <2>7, <2>8 DEF Aggregated, TaskRow
<1> QED
  BY <1>1, <1>2

LEMMA CompletionStep ==
  ASSUME ConstantsAssumption, Deferred = {}, Alone, WorkCoherent, [Next]_vars,
         NEW t \in Tasks, HasRequirements(t), task[t].status = "completed"
  PROVE  task'[t].status = "completed"
<1>0. /\ RowTypes /\ RowsCoherent /\ StopCoherent
      /\ \A e \in Executions : e <= issued /\ exec[e].task = t
                                => exec[e].state \notin ActiveStates
  BY DEF Alone, Basic, Undisturbed, StopCoherent
<1>1. ASSUME NEW r \in Transactions, ActsAlone(r), r.op = "telemetry"
      PROVE  task'[t].status = "completed"
  <2>1. PICK e \in Executions, state \in ExecutionStates : Reports(r, e, state)
    BY <1>0, <1>1, TelemetryReports DEF ActsAlone
  <2> QED
    BY <2>1, ReportCompleted
<1>2. ASSUME NEW r \in Transactions, ActsAlone(r), r.op # "telemetry"
      PROVE  task'[t].status = "completed"
  <2>1. Placed(r, t) /\ Loaded(r) /\ Rejecting(r)
    BY <1>0, <1>2, WritePlaces DEF ActsAlone
  <2>2. CASE r.op = "reject" /\ t = r.task
    <3>1. PICK e \in r.touched : exec[e].state = "dispatched" /\ exec[e].task = t
      BY <2>1, <2>2 DEF Rejecting
    <3>2. e \in Executions /\ e <= issued /\ exec[e].state \in ActiveStates
      BY <2>1, <3>1 DEF Loaded, Transactions, ActiveStates
    <3> QED
      BY <1>0, <3>1, <3>2
  <2>3. CASE r.op \in {"reassign", "confirm"}
    BY <2>1, <2>3 DEF Loaded, Placed
  <2> QED
    BY <2>1, <2>2, <2>3 DEF Placed
<1>3. ASSUME NEW u \in Tasks, CancelTask(u)
      PROVE  task'[t].status = "completed"
  BY <1>0, <1>3, CancelTaskPlaces DEF CancelTask
<1>4. ASSUME NEW u \in Tasks, Tick(u)
      PROVE  task'[t].status = "completed"
  BY <1>0, <1>4, TickPlaces DEF Tick, Plannable
<1>5. CASE UNCHANGED <<task, exec, alloc, issued>>
  BY <1>5
<1> QED
  BY <1>1, <1>2, <1>3, <1>4, <1>5, AloneShape

\* A completed split task never re-enters planning when its gateways repeat
\* their terminal reports.
THEOREM SplitCompletion ==
  ASSUME Deferred = {}
  PROVE  Spec => SplitCompletionIsFinal
<1>1. ConstantsAssumption /\ Alone /\ WorkCoherent /\ [Next]_vars
        => [\A t \in Tasks : HasRequirements(t) /\ task[t].status = "completed"
                               => task'[t].status = "completed"]_vars
  BY CompletionStep
<1> QED
  BY <1>1, WorkInvariance, ConstantsAssumption, PTL DEF Spec, SplitCompletionIsFinal

-----------------------------------------------------------------------------
(***************************************************************************)
(* The cancellation of a split task keeps what it promises.  While it is   *)
(* requested no execution of the task is "dispatched", so none can be      *)
(* rejected, which would put the task back to pending.                     *)
(***************************************************************************)
RequestCoherent ==
  \A e \in Executions :
    (/\ e <= issued
     /\ HasRequirements(exec[e].task)
     /\ task[exec[e].task].status = "cancel_requested") => exec[e].state # "dispatched"

\* What a report makes of a task whose cancellation is requested, and of others.
LEMMA AggregatedRequest ==
  ASSUME NEW t, NEW row \in TaskRow, NEW av
  PROVE  /\ row.status = "cancel_requested"
              => Aggregated(t, row, av).status \in {"cancel_requested", "cancelled"}
         /\ row.status # "cancel_requested"
              => Aggregated(t, row, av).status # "cancel_requested"
BY DEF Aggregated, Finalized, TaskRow

\* A requested cancellation stands until it is confirmed; only a cancel request
\* makes one, and only of a task that is in the hands of a robot.
LEMMA RequestStands ==
  ASSUME ConstantsAssumption, Deferred = {}, Alone, RequestCoherent, [Next]_vars,
         NEW t \in Tasks, HasRequirements(t)
  PROVE  /\ task[t].status = "cancel_requested"
              => task'[t].status \in {"cancel_requested", "cancelled"}
         /\ task[t].status # "cancel_requested" /\ task'[t].status = "cancel_requested"
              => CancelTask(t) /\ Active(t) # {}
<1> DEFINE Stands == /\ task[t].status = "cancel_requested"
                          => task'[t].status \in {"cancel_requested", "cancelled"}
                     /\ task[t].status # "cancel_requested" /\ task'[t].status = "cancel_requested"
                          => CancelTask(t) /\ Active(t) # {}
<1>0. RowTypes /\ RowsCoherent /\ task[t] \in TaskRow
  BY DEF Alone, Basic, RowTypes
<1>1. ASSUME NEW r \in Transactions, ActsAlone(r), r.op = "telemetry"
      PROVE  Stands
  <2>1. PICK e \in Executions, state \in ExecutionStates : Reports(r, e, state)
    BY <1>0, <1>1, TelemetryReports DEF ActsAlone
  <2>2. task'[t] = task[t] \/ task'[t] = Aggregated(t, task[t], alloc')
    BY <2>1 DEF Reports
  <2> QED
    BY <1>0, <2>2, AggregatedRequest
<1>2. ASSUME NEW r \in Transactions, ActsAlone(r), r.op # "telemetry"
      PROVE  Stands
  <2>1. Placed(r, t) /\ Loaded(r) /\ Rejecting(r)
    BY <1>0, <1>2, WritePlaces DEF ActsAlone
  <2>2. CASE r.op = "reject" /\ t = r.task
    <3>1. PICK e \in r.touched : exec[e].state = "dispatched" /\ exec[e].task = t
      BY <2>1, <2>2 DEF Rejecting
    <3>2. e \in Executions /\ e <= issued
      BY <2>1, <3>1 DEF Loaded, Transactions
    <3>3. task[t].status # "cancel_requested"
      BY <3>1, <3>2 DEF RequestCoherent
    <3> QED
      BY <2>1, <2>2, <3>3 DEF Placed
  <2>3. CASE r.op \in {"reassign", "confirm"}
    BY <2>1, <2>3 DEF Loaded, Placed
  <2> QED
    BY <2>1, <2>2, <2>3 DEF Placed
<1>3. ASSUME NEW u \in Tasks, CancelTask(u)
      PROVE  Stands
  BY <1>0, <1>3, CancelTaskPlaces
<1>4. ASSUME NEW u \in Tasks, Tick(u)
      PROVE  Stands
  BY <1>0, <1>4, TickPlaces DEF Tick, Plannable
<1>5. CASE UNCHANGED <<task, exec, alloc, issued>>
  BY <1>5
<1> QED
  BY <1>1, <1>2, <1>3, <1>4, <1>5, AloneShape

\* New executions belong to tasks that were planned or direct.
LEMMA OnlyPlannedGrow ==
  ASSUME ConstantsAssumption, Deferred = {}, Alone, [Next]_vars,
         NEW e \in Executions, e <= issued', ~(e <= issued),
         HasRequirements(exec'[e].task)
  PROVE  task'[exec'[e].task].status = "assigned"
<1>0. RowTypes /\ RowsCoherent
  BY DEF Alone, Basic
<1>1. ASSUME NEW r \in Transactions, ActsAlone(r)
      PROVE  FALSE
  <2>1. Loaded(r) /\ Write(r) /\ issued' # issued
    BY <1>0, <1>1 DEF ActsAlone, RowTypes, Executions
  <2>2. DispatchDirect(r) /\ r.op \in {"reassign", "confirm"}
    BY <2>1 DEF Write, WritePause, WriteResume, WriteHold, WriteReject, WriteReassign,
                WriteConfirm, WriteTelemetry
  <2>3. e = issued + 1
    BY <1>0, <2>2 DEF DispatchDirect, RowTypes, Executions
  <2>4. exec'[e].task = r.task
    BY <1>0, <2>2, <2>3 DEF DispatchDirect, RowTypes
  <2> QED
    BY <2>1, <2>2, <2>4 DEF Loaded
<1>2. ASSUME NEW u \in Tasks, CancelTask(u)
      PROVE  FALSE
  BY <1>2 DEF CancelTask
<1>3. ASSUME NEW u \in Tasks, Tick(u)
      PROVE  exec'[e].task = u /\ task'[u].status = "assigned"
  <2>1. exec'[e] = exec[e] \/ exec'[e].task = u
    BY <1>3 DEF Tick
  <2>2. RowsCoherent'
    BY BasicStep DEF Alone, Basic
  <2>3. exec'[e] # exec[e]
    BY <1>0, <2>2 DEF RowsCoherent, NoExec
  <2> QED
    BY <1>0, <1>3, <2>1, <2>3, TickPlaces
<1> QED
  BY <1>1, <1>2, <1>3, AloneShape

\* No execution of a task becomes active, unless the task is given out.
LEMMA NothingRestarts ==
  ASSUME ConstantsAssumption, Deferred = {}, Alone, [Next]_vars,
         NEW t \in Tasks, HasRequirements(t), task'[t].status # "assigned",
         NEW e \in Executions, exec'[e].task = t
  PROVE  /\ e <= issued /\ exec[e].task = t
         /\ exec'[e].state \in ActiveStates => exec[e].state \in ActiveStates
         /\ exec'[e].state = "dispatched" => exec[e].state = "dispatched"
<1>1. RowTypes /\ RowsCoherent /\ RowsCoherent' /\ Evolves
  BY BasicStep DEF Alone, Basic
<1>2. e <= issued'
  BY <1>1, ConstantsAssumption DEF RowsCoherent, NoExec, ConstantsAssumption
<1>3. e <= issued
  BY <1>2, OnlyPlannedGrow
<1>4. exec[e] \in ExecRow /\ exec[e].state # "absent"
  BY <1>1, <1>3 DEF RowTypes, RowsCoherent
<1>5. exec[e].state \in TerminalStates => exec'[e].state = exec[e].state
  <2>1. Moves(e)
    BY <1>3, EveryExecutionMoves
  <2>2. exec[e].state \in TerminalStates =>
          exec[e].state \notin ActiveStates /\ Allowed(exec[e].state) = {exec[e].state}
    BY DEF TerminalStates, ActiveStates, RequestedStates, Allowed
  <2> QED
    BY <2>1, <2>2 DEF Moves
<1> QED
  BY <1>1, <1>3, <1>4, <1>5 DEF Evolves, ExecRow, ExecutionStates

\* It is inductive that a task whose cancellation is requested has no dispatched
\* execution: the request reaches every active execution.
LEMMA RequestStep ==
  ASSUME ConstantsAssumption, Deferred = {}, Alone, RequestCoherent, [Next]_vars
  PROVE  RequestCoherent'
<1> SUFFICES ASSUME NEW e \in Executions, e <= issued', HasRequirements(exec'[e].task),
                    task'[exec'[e].task].status = "cancel_requested"
             PROVE  exec'[e].state # "dispatched"
  BY DEF RequestCoherent, HasRequirements
<1> DEFINE t == exec'[e].task
<1>1. RowTypes /\ RowsCoherent' /\ t \in Tasks
  BY BasicStep DEF Alone, Basic, RowsCoherent
<1>2. /\ e <= issued /\ exec[e].task = t
      /\ exec'[e].state = "dispatched" => exec[e].state = "dispatched"
  BY <1>1, NothingRestarts
<1>3. CASE task[t].status = "cancel_requested"
  BY <1>2, <1>3 DEF RequestCoherent
<1>4. CASE task[t].status # "cancel_requested"
  <2>1. CancelTask(t) /\ Active(t) # {}
    BY <1>1, <1>4, RequestStands
  <2>2. exec[e].state = "dispatched" => e \in Active(t)
    BY <1>2 DEF Active, Of, ActiveStates
  <2>3. e \in Active(t) /\ exec[e].state = "dispatched"
          => exec'[e] = Requested(exec[e], "cancel_requested")
    BY <2>1 DEF CancelTask
  <2>4. Requested(exec[e], "cancel_requested").state = "cancel_requested"
    BY <1>1 DEF Requested, RowTypes, ExecRow
  <2> QED
    BY <1>2, <2>2, <2>3, <2>4
<1> QED
  BY <1>3, <1>4

\* A split task that is cancelled has stopped.
ConfirmedStopped ==
  \A t \in Tasks : HasRequirements(t) /\ task[t].status = "cancelled" => Active(t) = {}

LEMMA ConfirmedHasStopped == ASSUME ConstantsAssumption, Alone PROVE ConfirmedStopped
<1> SUFFICES ASSUME NEW t \in Tasks, HasRequirements(t), task[t].status = "cancelled",
                    NEW e \in Active(t)
             PROVE  FALSE
  BY DEF ConfirmedStopped
<1>1. e \in Executions /\ e <= issued /\ exec[e].task = t /\ exec[e].state \in ActiveStates
  BY ConstantsAssumption DEF Active, Of, Alone, Basic, RowsCoherent, NoExec,
                             ConstantsAssumption
<1> QED
  BY <1>1 DEF Alone, Undisturbed, StopCoherent

\* How far the cancellation of one task comes in a step.
LEMMA CancellationAdvances ==
  ASSUME ConstantsAssumption, Deferred = {}, Alone, RequestCoherent,
         ConfirmedStopped, ConfirmedStopped', [Next]_vars,
         NEW t \in Tasks, HasRequirements(t)
  PROVE  \/ /\ task[t].status \notin {"cancel_requested", "cancelled"}
            /\ task'[t].status \notin {"cancel_requested", "cancelled"}
         \/ /\ task[t].status \notin {"cancel_requested", "cancelled"} /\ Active(t) # {}
            /\ task'[t].status = "cancel_requested" /\ Active(t)' # {}
         \/ /\ task[t].status = "cancel_requested"
            /\ task'[t].status = "cancel_requested" /\ (Active(t)' # {} => Active(t) # {})
         \/ /\ task[t].status # "cancelled"
            /\ task'[t].status = "cancelled" /\ Active(t)' = {}
         \/ /\ task[t].status = "cancelled" /\ Active(t) = {}
            /\ task'[t].status = "cancelled" /\ Active(t)' = {}
<1>1. task'[t].status = "cancelled" => Active(t)' = {}
  BY DEF ConfirmedStopped, HasRequirements
<1>2. task[t].status = "cancelled" => Active(t) = {}
  BY DEF ConfirmedStopped
<1>3. CASE task[t].status = "cancelled"
  <2>1. CancelFinal
    BY CancelStep DEF Alone
  <2> QED
    BY <1>1, <1>2, <1>3, <2>1 DEF CancelFinal
<1>4. CASE task[t].status = "cancel_requested"
  <2>1. task'[t].status \in {"cancel_requested", "cancelled"}
    BY <1>4, RequestStands
  <2>2. ASSUME NEW e \in Active(t)'
        PROVE  e \in Active(t)
    <3>1. e \in Executions /\ exec'[e].task = t /\ exec'[e].state \in ActiveStates
      BY DEF Active, Of
    <3> QED
      BY <2>1, <3>1, NothingRestarts DEF Active, Of
  <2> QED
    BY <1>1, <1>4, <2>1, <2>2
<1>5. CASE task[t].status \notin {"cancel_requested", "cancelled"} /\ task'[t].status = "cancel_requested"
  <2>1. CancelTask(t) /\ Active(t) # {}
    BY <1>5, RequestStands
  <2>2. PICK e \in Active(t) : TRUE
    BY <2>1
  <2>3. e \in Executions /\ e <= issued /\ exec[e].task = t /\ exec[e] \in ExecRow
    BY ConstantsAssumption DEF Active, Of, Alone, Basic, RowTypes, RowsCoherent, NoExec,
                               ConstantsAssumption
  <2>4. exec'[e] = exec[e] \/ exec'[e] = Requested(exec[e], "cancel_requested")
    BY <2>1, <2>3 DEF CancelTask
  <2>5. exec'[e].task = t /\ exec'[e].state \in ActiveStates
    <3>1. exec[e].state \in ActiveStates
      BY <2>2 DEF Active
    <3> QED
      BY <2>3, <2>4, <3>1 DEF Requested, ExecRow, ActiveStates, RequestedStates
  <2> QED
    BY <1>5, <2>1, <2>3, <2>5 DEF Active, Of
<1> QED
  BY <1>1, <1>3, <1>4, <1>5

\* The cancellation of a split task implements the promise of Cancellation.
THEOREM CancellationKept ==
  ASSUME Deferred = {}
  PROVE  Spec => CancellationIsKept
<1> DEFINE Working == [t \in SplitTasks |-> Active(t) # {}]
<1>1. ASSUME ConstantsAssumption, Init
      PROVE  RequestCoherent /\ Promise!Init
  <2>1. \A t \in Tasks : task[t].status = "pending" /\ Active(t) = {}
    BY <1>1 DEF Init, NewTask, Active, Of, NoExec, ActiveStates, RequestedStates
  <2>2. RequestCoherent
    BY <1>1 DEF Init, RequestCoherent, NoExec
  <2>3. CancellationStage = [t \in SplitTasks |-> "open"] /\ Working = [t \in SplitTasks |-> FALSE]
    BY <2>1 DEF CancellationStage, SplitTasks
  <2> QED
    BY <2>2, <2>3 DEF Promise!Init
<1>2. ConstantsAssumption /\ Alone /\ RequestCoherent /\ [Next]_vars => RequestCoherent'
  BY RequestStep
<1>3. ConstantsAssumption /\ Alone => ConfirmedStopped
  BY ConfirmedHasStopped
<1>4. ASSUME ConstantsAssumption, Alone, RequestCoherent,
             ConfirmedStopped, ConfirmedStopped', [Next]_vars
      PROVE  Promise!Next
  <2>1. SplitTasks' = SplitTasks /\ SplitTasks \subseteq Tasks
    BY DEF SplitTasks, HasRequirements
  <2>2. ASSUME NEW t \in SplitTasks
        PROVE  /\ CancellationStage[t] = (CASE task[t].status = "cancel_requested" -> "requested"
                                            [] task[t].status = "cancelled" -> "confirmed"
                                            [] OTHER -> "open")
               /\ CancellationStage'[t] = (CASE task'[t].status = "cancel_requested" -> "requested"
                                             [] task'[t].status = "cancelled" -> "confirmed"
                                             [] OTHER -> "open")
               /\ Working[t] = (Active(t) # {})
               /\ Working'[t] = (Active(t)' # {})
    BY <2>1 DEF CancellationStage
  <2>3. CancellationStage' \in [SplitTasks -> Promise!Stages]
    BY <2>1, <2>2 DEF CancellationStage, Promise!Stages
  <2>4. Working' \in [SplitTasks -> BOOLEAN]
    BY <2>1
  <2>5. ASSUME NEW t \in SplitTasks
        PROVE  \/ Promise!Proceed(t) \/ Promise!Request(t) \/ Promise!Stop(t)
               \/ Promise!Confirm(t) \/ Promise!Stays(t)
    <3>1. t \in Tasks /\ HasRequirements(t)
      BY DEF SplitTasks
    <3> QED
      BY <1>4, <2>2, <3>1, CancellationAdvances
         DEF Promise!Proceed, Promise!Request, Promise!Stop, Promise!Confirm, Promise!Stays
  <2> QED
    BY <2>3, <2>4, <2>5 DEF Promise!Next
<1>5. ConstantsAssumption /\ Alone /\ RequestCoherent /\ ConfirmedStopped /\ ConfirmedStopped' /\ [Next]_vars
        => [Promise!Next]_<<CancellationStage, Working>>
  BY <1>4
<1>6. Spec => []Alone
  BY AloneInvariance DEF Alone
<1> QED
  BY <1>1, <1>2, <1>3, <1>5, <1>6, ConstantsAssumption, PTL
     DEF Spec, CancellationIsKept, Promise!Spec


-----------------------------------------------------------------------------
(***************************************************************************)
(* Tasks that come and go are still the tasks of mission control.          *)
(***************************************************************************)
LEMMA DagStepRunsMissionControl == [DagNext]_dagVars => [Next]_vars
<1> SUFFICES ASSUME [DagNext]_dagVars PROVE [Next]_vars
  OBVIOUS
<1>1. ASSUME NEW t \in Tasks, BeginCreate(t) \/ EndCreate(t) \/ Delete(t) \/ PassOver(t)
      PROVE  UNCHANGED vars
  BY <1>1 DEF BeginCreate, EndCreate, Delete, PassOver
<1>2. ASSUME NEW t \in Tasks, TakeUp(t) PROVE Next
  BY <1>2 DEF TakeUp, Next
<1>3. CASE BeginPass
  BY <1>3 DEF BeginPass
<1>4. CASE (\E t \in Stored : TaskRequest(t)) \/ Others
  BY <1>4 DEF Next, Stored
<1>5. CASE UNCHANGED dagVars
  BY <1>5 DEF dagVars, vars
<1> QED
  BY <1>1, <1>2, <1>3, <1>4, <1>5 DEF DagNext

\* What is proved of mission control holds with tasks that are created,
\* deleted, and dispatched in the order of their dependencies.
THEOREM DagRunsMissionControl == DagSpec => Spec
<1>1. DagInit => Init
  BY DEF DagInit
<1> QED
  BY <1>1, DagStepRunsMissionControl, PTL DEF DagSpec, Spec

-----------------------------------------------------------------------------
(***************************************************************************)
(* The order of the dependencies.                                          *)
(***************************************************************************)

\* The dependencies of a task are completed, and their rows are there to stay.
Met(t) ==
  \A d \in Dependencies[t] :
    HasRequirements(d) => life[d] = "stored" /\ task[d].status = "completed"

\* The list of a pass only ages well: whatever it lists stays ready.
DagInv ==
  /\ life \in [Tasks -> {"new", "creating", "stored", "gone"}]
  /\ ready \in SUBSET Tasks
  /\ \A t \in Tasks : HasRequirements(t) /\ Of(t) # {} => life[t] = "stored"
  /\ \A t \in ready : Met(t)
  /\ DependenciesFirst

\* A completed split task has been worked on.
LEMMA CompletedHasWork ==
  ASSUME ConstantsAssumption, WorkCoherent, NEW d \in Tasks, HasRequirements(d),
         task[d].status = "completed"
  PROVE  Of(d) # {}
<1>1. Done(d, alloc) = Required[d]
  BY DEF WorkCoherent
<1>2. ASSUME Of(d) = {} PROVE FALSE
  <2>1. {e \in Of(d) : alloc[e].done = 1} = {}
    BY <1>2
  <2>2. Done(d, alloc) = 0
    BY <2>1, FS_EmptySet DEF Done
  <2> QED
    BY <1>1, <2>2 DEF HasRequirements, ConstantsAssumption
<1> QED
  BY <1>2

\* Requests and reports give no work of a split task to a robot.
LEMMA QuietDag ==
  ASSUME ConstantsAssumption, Deferred = {}, Alone, RowsCoherent', Evolves,
         (\E t \in Tasks : TaskRequest(t)) \/ Others \/ UNCHANGED vars,
         NEW t \in Tasks, HasRequirements(t)
  PROVE  Of(t)' = Of(t)
<1>0. RowTypes /\ RowsCoherent
  BY DEF Alone, Basic
<1>1. ASSUME NEW r \in Transactions, ActsAlone(r), r.op = "telemetry"
      PROVE  Of(t)' = Of(t)
  <2>1. \E e \in Executions, state \in ExecutionStates : Reports(r, e, state)
    BY <1>0, <1>1, TelemetryReports DEF ActsAlone
  <2>2. issued' = issued
    BY <2>1 DEF Reports
  <2> QED
    BY <1>0, <2>2, SameExecutions
<1>2. ASSUME NEW r \in Transactions, ActsAlone(r), r.op # "telemetry"
      PROVE  Of(t)' = Of(t)
  BY <1>0, <1>2, WriteGivesNoWork DEF ActsAlone
<1>3. ASSUME NEW u \in Tasks, CancelTask(u)
      PROVE  Of(t)' = Of(t)
  BY <1>0, <1>3, SameExecutions DEF CancelTask
<1>4. CASE UNCHANGED <<task, exec, alloc, issued>>
  BY <1>4 DEF Of
<1> QED
  BY <1>1, <1>2, <1>3, <1>4, AloneRequestShape

\* A tick gives work of its own task only.
LEMMA TickGivesItsOwn ==
  ASSUME ConstantsAssumption, RowTypes, RowsCoherent, RowsCoherent', Evolves,
         NEW u \in Tasks, Tick(u), NEW t \in Tasks, t # u
  PROVE  Of(t)' = Of(t)
<1>1. ASSUME NEW e \in Executions, e <= issued', ~(e <= issued)
      PROVE  exec'[e].task # t
  <2>1. e \in (issued + 1)..(issued + Remaining(u))
    BY <1>1 DEF Tick, RowTypes, Executions
  <2>2. exec'[e].task = u
    BY <2>1 DEF Tick
  <2> QED
    BY <2>2
<1> QED
  BY <1>1, SameExecutions

LEMMA DagStep ==
  ASSUME ConstantsAssumption, DependenciesAssumption, Deferred = {},
         Alone, WorkCoherent, DagInv, [DagNext]_dagVars
  PROVE  DagInv'
<1>0. /\ [Next]_vars /\ RowTypes /\ RowsCoherent /\ RowsCoherent' /\ Evolves
      /\ \A t \in Tasks : Dependencies[t] \in SUBSET Tasks
      /\ life \in [Tasks -> {"new", "creating", "stored", "gone"}]
      /\ ready \in SUBSET Tasks
  BY DagStepRunsMissionControl, BasicStep DEF Alone, Basic, DependenciesAssumption, DagInv
<1>1. /\ life' \in [Tasks -> {"new", "creating", "stored", "gone"}]
      /\ ready' \in SUBSET Tasks
  BY <1>0 DEF DagNext, BeginCreate, EndCreate, Delete, TakeUp, PassOver, BeginPass, dagVars,
              Stored, Creating
<1>2. ASSUME NEW d \in Tasks, HasRequirements(d), life[d] = "stored", task[d].status = "completed"
      PROVE  life'[d] = "stored" /\ task'[d].status = "completed"
  <2>1. task'[d].status = "completed"
    BY <1>0, <1>2, CompletionStep
  <2>2. life'[d] = "stored"
    BY <1>0, <1>2 DEF DagNext, BeginCreate, EndCreate, Delete, TakeUp, PassOver, BeginPass,
                      dagVars
  <2> QED
    BY <2>1, <2>2
<1>3. ASSUME NEW t \in Tasks, Met(t) PROVE Met(t)'
  BY <1>0, <1>2, <1>3 DEF Met, HasRequirements
<1>4. ASSUME NEW t \in Tasks, HasRequirements(t), Of(t)' # Of(t)
      PROVE  TakeUp(t)
  <2>1. CASE (\E u \in Stored : TaskRequest(u)) \/ Others
    BY <1>0, <1>4, <2>1, QuietDag DEF Stored
  <2>2. CASE UNCHANGED vars
    BY <1>0, <1>4, <2>2, QuietDag
  <2>3. ASSUME NEW u \in Tasks, TakeUp(u), u # t PROVE FALSE
    BY <1>0, <1>4, <2>3, TickGivesItsOwn DEF TakeUp
  <2> QED
    BY <2>1, <2>2, <2>3 DEF DagNext, BeginCreate, EndCreate, Delete, PassOver, BeginPass,
                            dagVars, vars
<1>5. ASSUME NEW t \in Tasks, HasRequirements(t), Of(t)' # {}
      PROVE  life'[t] = "stored" /\ Met(t)'
  <2>1. CASE Of(t) = {}
    <3>1. TakeUp(t)
      BY <1>4, <1>5, <2>1
    <3>2. t \in ready /\ life[t] = "stored" /\ life' = life
      BY <3>1 DEF TakeUp, Stored
    <3> QED
      BY <1>3, <3>2 DEF DagInv
  <2>2. CASE Of(t) # {}
    <3>1. life[t] = "stored" /\ Met(t)
      BY <1>5, <2>2 DEF DagInv, DependenciesFirst, Met
    <3>2. life'[t] = "stored"
      BY <1>0, <2>2, <3>1 DEF DagNext, BeginCreate, EndCreate, Delete, TakeUp, PassOver,
                              BeginPass, dagVars
    <3> QED
      BY <1>3, <3>1, <3>2
  <2> QED
    BY <2>1, <2>2
<1>6. ASSUME NEW t \in ready' PROVE Met(t)'
  <2>1. CASE t \in ready
    BY <1>0, <1>3, <2>1 DEF DagInv
  <2>2. CASE t \notin ready
    <3>1. BeginPass
      BY <1>6, <2>2 DEF DagNext, BeginCreate, EndCreate, Delete, TakeUp, PassOver, dagVars
    <3>2. t \in Tasks /\ \A d \in Dependencies[t] :
            d \in Stored \union Creating /\ task[d].status = "completed"
      BY <1>1, <1>6, <3>1 DEF BeginPass, AllCompleted
    <3>3. Met(t)
      <4> SUFFICES ASSUME NEW d \in Dependencies[t], HasRequirements(d)
                   PROVE  life[d] = "stored" /\ task[d].status = "completed"
        BY DEF Met
      <4>1. d \in Tasks /\ task[d].status = "completed"
        BY <1>0, <3>2
      <4> QED
        BY <4>1, CompletedHasWork DEF DagInv
    <3> QED
      BY <1>3, <3>2, <3>3
  <2> QED
    BY <2>1, <2>2
<1> QED
  BY <1>1, <1>5, <1>6 DEF DagInv, DependenciesFirst, Met, HasRequirements

\* No robot is given work of a split task before the tasks it depends on are
\* completed, when every handler runs alone: no list of ready nodes is too old,
\* since no completion is ever taken back.
THEOREM DependenciesAreFirst ==
  ASSUME Deferred = {}
  PROVE  DagSpec => []DependenciesFirst
<1>1. ConstantsAssumption /\ DagInit => DagInv
  <2> SUFFICES ASSUME ConstantsAssumption, DagInit PROVE DagInv
    OBVIOUS
  <2>1. \A t \in Tasks : Of(t) = {}
    BY DEF DagInit, Init, Of, NoExec, ConstantsAssumption
  <2> QED
    BY <2>1 DEF DagInit, DagInv, DependenciesFirst
<1>2. ConstantsAssumption /\ DependenciesAssumption /\ Alone /\ WorkCoherent /\ DagInv
        /\ [DagNext]_dagVars => DagInv'
  BY DagStep
<1>3. DagSpec => [](Alone /\ WorkCoherent)
  BY DagRunsMissionControl, WorkInvariance, PTL
<1>4. DagInv => DependenciesFirst
  BY DEF DagInv
<1> QED
  BY <1>1, <1>2, <1>3, <1>4, ConstantsAssumption, DependenciesAssumption, PTL DEF DagSpec
==============================================================================
