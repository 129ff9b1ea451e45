------------------------ MODULE MissionControlProofs -------------------------
(***************************************************************************)
(* Theorems about MissionControl, for every set of tasks and devices, every *)
(* requirement, every bound and every choice of deferred handlers.         *)
(***************************************************************************)
EXTENDS MissionControl, FiniteSetTheorems, TLAPS

(***************************************************************************)
(* The inductive invariant of the rows.  Every execution that was created  *)
(* belongs to a task and a device for good, and has an allocation exactly  *)
(* when its task has a resource requirement.                               *)
(***************************************************************************)
RowsCoherent ==
  \A e \in Executions :
    IF e <= issued
      THEN /\ exec[e].state # "absent"
           /\ exec[e].task \in Tasks
           /\ exec[e].device \in Devices
           /\ (alloc[e].state # "none") <=> HasRequirements(exec[e].task)
      ELSE exec[e] = NoExec /\ alloc[e] = NoAlloc

(***************************************************************************)
(* What a handler has loaded.  The executions exist, and still belong to   *)
(* the same task; none that had left "dispatched" when it was read is      *)
(* "dispatched" now; a dispatch is about to happen for a direct task only. *)
(***************************************************************************)
Loaded(r) ==
  /\ \A e \in r.touched :
       /\ e <= issued
       /\ r.exec[e].state # "absent"
       /\ r.exec[e].state # "dispatched" => exec[e].state # "dispatched"
       /\ (r.alloc[e].state # "none") <=> HasRequirements(exec[e].task)
       /\ r.op = "telemetry" => r.task = exec[e].task
  /\ r.op \in {"reassign", "confirm"} =>
       r.task \in Tasks /\ ~HasRequirements(r.task)
  /\ r.op = "reassign" => r.device # None

\* The stored rows have their types.
RowTypes ==
  /\ task \in [Tasks -> TaskRow]
  /\ exec \in [Executions -> ExecRow]
  /\ alloc \in [Executions -> AllocRow]
  /\ device \in [Devices -> DeviceStates]
  /\ issued \in 0..MaxExecutions

\* reassign_task refuses a task with requirements, and nothing else waits.
SplitNotReassigned ==
  \A t \in Tasks : HasRequirements(t) => task[t].status # "reassign_pending"

Basic ==
  RowTypes /\ RowsCoherent /\ SplitNotReassigned /\ tx \in Transactions /\ Loaded(tx)

(***************************************************************************)
(* What every step does to the executions that exist: their task and their *)
(* device are fixed, and none goes back to "dispatched".                   *)
(***************************************************************************)
Evolves ==
  /\ issued' \in Nat
  /\ issued <= issued'
  /\ \A e \in Executions :
       e <= issued => /\ exec'[e].task = exec[e].task
                      /\ exec'[e].state = "dispatched" => exec[e].state = "dispatched"

-----------------------------------------------------------------------------
(***************************************************************************)
(* Merging what a handler changed into a stored row keeps the row's type.  *)
(***************************************************************************)

\* Writing an execution row back changes neither its task nor its device.
LEMMA MergedExecType ==
  ASSUME NEW current \in ExecRow, NEW loaded \in ExecRow, NEW new \in ExecRow
  PROVE  /\ MergedExec(current, loaded, new) \in ExecRow
         /\ MergedExec(current, loaded, new).task = current.task
         /\ MergedExec(current, loaded, new).device = current.device
         /\ MergedExec(current, loaded, new).state
              = Written(current.state, loaded.state, new.state)
BY DEF MergedExec, Written, ExecRow

\* Writing an allocation row back keeps its type.
LEMMA MergedAllocType ==
  ASSUME NEW current \in AllocRow, NEW loaded \in AllocRow, NEW new \in AllocRow
  PROVE  /\ MergedAlloc(current, loaded, new) \in AllocRow
         /\ MergedAlloc(current, loaded, new).state
              = Written(current.state, loaded.state, new.state)
BY DEF MergedAlloc, Written, AllocRow

\* Writing a task row back keeps its type and its cancellation stamp.
LEMMA MergedTaskType ==
  ASSUME NEW current \in TaskRow, NEW loaded \in TaskRow, NEW new \in TaskRow
  PROVE  /\ MergedTask(current, loaded, new) \in TaskRow
         /\ MergedTask(current, loaded, new).stamped = current.stamped
         /\ MergedTask(current, loaded, new).status
              = Written(current.status, loaded.status, new.status)
BY DEF MergedTask, Written, TaskRow

\* What a control request writes into an execution row is an execution row.
LEMMA RequestedType ==
  ASSUME NEW x \in ExecRow, x.state # "absent", NEW request \in RequestedStates
  PROVE  Requested(x, request) \in ExecRow /\ Requested(x, request).state = request
BY DEF Requested, ExecRow, ExecutionStates, ActiveStates, RequestedStates

\* The state a report resolves to is a state of an execution, and is never
\* "dispatched".
LEMMA ResolvedType ==
  ASSUME NEW x \in ExecRow, NEW reported \in ReportedStates
  PROVE  /\ Resolved(x, reported) \in ExecutionStates
         /\ Resolved(x, reported) # "dispatched"
BY DEF Resolved, ExecRow, ExecutionStates, ActiveStates, RequestedStates,
       ReportedStates, TerminalStates

\* The quantity finished is a natural number, however many executions there are.
LEMMA DoneType ==
  ASSUME NEW t, NEW av, MaxExecutions \in Nat
  PROVE  Done(t, av) \in Nat
<1>1. {e \in Of(t) : av[e].done = 1} \subseteq 1..MaxExecutions
  BY DEF Of, Executions
<1>2. IsFiniteSet(1..MaxExecutions)
  BY FS_Interval
<1>3. IsFiniteSet({e \in Of(t) : av[e].done = 1})
  BY <1>1, <1>2, FS_Subset
<1> QED
  BY <1>3, FS_CardinalityType DEF Done

\* A finished cancellation is a cancelled, stamped task.
LEMMA FinalizedType ==
  ASSUME NEW row \in TaskRow
  PROVE  /\ Finalized(row) \in TaskRow
         /\ Finalized(row).status = "cancelled"
         /\ Finalized(row).stamped = TRUE
BY DEF Finalized, TaskRow, TaskStates

\* What telemetry makes of a task with allocations is a task.
LEMMA AggregatedType ==
  ASSUME ConstantsAssumption, NEW t \in Tasks, NEW row \in TaskRow, NEW av
  PROVE  Aggregated(t, row, av) \in TaskRow
<1>1. Done(t, av) \in Nat /\ Required[t] \in Nat
  BY DoneType DEF ConstantsAssumption
<1> QED
  BY <1>1 DEF Aggregated, Finalized, TaskRow, TaskStates

\* What telemetry makes of a direct task is a task.
LEMMA ProjectedType ==
  ASSUME NEW row \in TaskRow, NEW state \in ExecutionStates, NEW others
  PROVE  Projected(row, state, others) \in TaskRow
BY DEF Projected, Finalized, TaskRow, TaskStates

-----------------------------------------------------------------------------
(***************************************************************************)
(* What a handler loads.                                                   *)
(***************************************************************************)

\* The empty transaction has the type of a transaction and has loaded nothing.
LEMMA NoTransactionType ==
  NoTransaction \in Transactions /\ Loaded(NoTransaction)
BY DEF NoTransaction, Transactions, Operations, NoExec, NoAlloc, NewTask,
       ExecRow, AllocRow, TaskRow, TaskStates, Loaded

\* Fresh reads of existing executions are a loaded transaction.
LEMMA LoadsLoaded ==
  ASSUME RowTypes, RowsCoherent,
         NEW op \in Operations, NEW t \in Tasks \union {None},
         NEW d \in Devices \union {None}, NEW S \in SUBSET Executions,
         NEW row \in TaskRow,
         \A e \in S : exec[e].state # "absent",
         op = "telemetry" => \A e \in S : exec[e].task = t,
         op \in {"reassign", "confirm"} => t \in Tasks /\ ~HasRequirements(t),
         op = "reassign" => d # None
  PROVE  /\ Loads(op, t, d, S, row) \in Transactions
         /\ Loaded(Loads(op, t, d, S, row))
<1> DEFINE loadedExec  == [e \in Executions |-> IF e \in S THEN exec[e] ELSE NoExec]
           loadedAlloc == [e \in Executions |-> IF e \in S THEN alloc[e] ELSE NoAlloc]
<1>1. loadedExec \in [Executions -> ExecRow]
  BY DEF RowTypes, NoExec, ExecRow
<1>2. loadedAlloc \in [Executions -> AllocRow]
  BY DEF RowTypes, NoAlloc, AllocRow
<1>3. Loads(op, t, d, S, row) \in Transactions
  BY <1>1, <1>2 DEF Loads, Transactions
<1>4. \A e \in S : e <= issued
  BY DEF RowsCoherent, NoExec
<1>5. \A e \in S : loadedExec[e] = exec[e] /\ loadedAlloc[e] = alloc[e]
  OBVIOUS
<1>6. Loaded(Loads(op, t, d, S, row))
  BY <1>4, <1>5 DEF Loaded, Loads, RowsCoherent
<1> QED
  BY <1>3, <1>6

\* Writing back an execution that was loaded keeps its task and its device, and
\* never makes it "dispatched" again.
LEMMA MergedLoaded ==
  ASSUME RowTypes, RowsCoherent, NEW r \in Transactions, Loaded(r),
         NEW e \in r.touched, NEW new \in ExecRow,
         new.state \notin {"absent", "dispatched"}
  PROVE  /\ MergedExec(exec[e], r.exec[e], new) \in ExecRow
         /\ MergedExec(exec[e], r.exec[e], new).task = exec[e].task
         /\ MergedExec(exec[e], r.exec[e], new).device = exec[e].device
         /\ MergedExec(exec[e], r.exec[e], new).state # "absent"
         /\ MergedExec(exec[e], r.exec[e], new).state = "dispatched"
              => exec[e].state = "dispatched"
<1>1. e \in Executions /\ r.exec[e] \in ExecRow /\ exec[e] \in ExecRow
  BY DEF Transactions, RowTypes
<1>2. exec[e].state # "absent"
  BY <1>1 DEF Loaded, RowsCoherent
<1> QED
  BY <1>1, <1>2, MergedExecType DEF Written

-----------------------------------------------------------------------------
(***************************************************************************)
(* What each handler writes keeps the rows coherent.                       *)
(***************************************************************************)

\* A control request: pause, resume, hold, and a reassignment that cancels.
LEMMA RequestBasic ==
  ASSUME RowTypes, RowsCoherent, NEW r \in Transactions, Loaded(r),
         NEW request \in RequestedStates,
         RequestExecutions(r, request),
         RequestAllocations(r, request) \/ UNCHANGED alloc,
         task' \in [Tasks -> TaskRow],
         UNCHANGED <<device, issued>>
  PROVE  RowTypes' /\ RowsCoherent' /\ Evolves
<1>1. ASSUME NEW e \in Executions
      PROVE  /\ exec'[e] \in ExecRow
             /\ exec'[e].task = exec[e].task
             /\ exec'[e].device = exec[e].device
             /\ e <= issued => exec'[e].state # "absent"
             /\ exec'[e].state = "dispatched" => exec[e].state = "dispatched"
             /\ ~(e <= issued) => exec'[e] = exec[e]
  <2>1. CASE e \notin r.touched
    BY <2>1 DEF RequestExecutions, RowTypes, RowsCoherent
  <2>2. CASE e \in r.touched
    <3>1. r.exec[e] \in ExecRow /\ r.exec[e].state # "absent" /\ e <= issued
      BY <2>2 DEF Transactions, Loaded
    <3>2. /\ Requested(r.exec[e], request) \in ExecRow
          /\ Requested(r.exec[e], request).state = request
      BY <3>1, RequestedType
    <3>3. request \notin {"absent", "dispatched"}
      BY DEF RequestedStates
    <3>4. exec'[e] = MergedExec(exec[e], r.exec[e], Requested(r.exec[e], request))
      BY <2>2 DEF RequestExecutions
    <3> QED
      BY <2>2, <3>1, <3>2, <3>3, <3>4, MergedLoaded
  <2> QED
    BY <2>1, <2>2
<1>2. ASSUME NEW e \in Executions
      PROVE  /\ alloc'[e] \in AllocRow
             /\ (alloc'[e].state = "none") <=> (alloc[e].state = "none")
             /\ ~(e <= issued) => alloc'[e] = alloc[e]
  <2>1. CASE alloc' = alloc
    BY <2>1 DEF RowTypes
  <2>2. CASE RequestAllocations(r, request) /\ ~(e \in r.touched /\ r.alloc[e].state # "none")
    BY <2>2 DEF RequestAllocations, RowTypes
  <2>3. CASE RequestAllocations(r, request) /\ e \in r.touched /\ r.alloc[e].state # "none"
    <3>1. r.alloc[e] \in AllocRow /\ alloc[e] \in AllocRow /\ e <= issued
      BY <2>3 DEF Transactions, Loaded, RowTypes
    <3>2. alloc[e].state # "none"
      BY <2>3, <3>1 DEF Loaded, RowsCoherent
    <3>3. request \in ExecutionStates
      BY DEF ExecutionStates, ActiveStates
    <3>4. [r.alloc[e] EXCEPT !.state = request] \in AllocRow
      BY <3>1, <3>3 DEF AllocRow
    <3>5. alloc'[e] = MergedAlloc(alloc[e], r.alloc[e],
                                  [r.alloc[e] EXCEPT !.state = request])
      BY <2>3 DEF RequestAllocations
    <3>6. request # "none" /\ [r.alloc[e] EXCEPT !.state = request].state = request
      BY <3>1 DEF RequestedStates, AllocRow
    <3> DEFINE new == [r.alloc[e] EXCEPT !.state = request]
    <3>7. new \in AllocRow /\ new.state # "none"
      BY <3>4, <3>6
    <3> HIDE DEF new
    <3>8. alloc'[e] = MergedAlloc(alloc[e], r.alloc[e], new)
      BY <3>5 DEF new
    <3>9. /\ alloc'[e] \in AllocRow
          /\ alloc'[e].state = Written(alloc[e].state, r.alloc[e].state, new.state)
      BY <3>1, <3>7, <3>8, MergedAllocType
    <3> QED
      BY <3>1, <3>2, <3>7, <3>9 DEF Written
  <2> QED
    BY <2>1, <2>2, <2>3
<1>3. exec' \in [Executions -> ExecRow]
  BY <1>1 DEF RequestExecutions
<1>4. alloc' \in [Executions -> AllocRow]
  <2>1. CASE alloc' = alloc
    BY <2>1 DEF RowTypes
  <2>2. CASE RequestAllocations(r, request)
    BY <1>2, <2>2 DEF RequestAllocations
  <2> QED
    BY <2>1, <2>2
<1>5. RowTypes'
  BY <1>3, <1>4 DEF RowTypes
<1>6. RowsCoherent'
  BY <1>1, <1>2 DEF RowsCoherent, RowTypes
<1>7. Evolves
  BY <1>1 DEF Evolves, RowTypes
<1> QED
  BY <1>5, <1>6, <1>7

\* Rewriting the params column keeps every task's status and stamp.
LEMMA RewriteParamsBasic ==
  ASSUME RowTypes, NEW r \in Transactions, RewriteParams(r)
  PROVE  /\ task' \in [Tasks -> TaskRow]
         /\ \A t \in Tasks : /\ task'[t].status = task[t].status
                             /\ task'[t].stamped = task[t].stamped
<1>1. r.row.intent \in Devices \union {None}
  BY DEF Transactions, TaskRow
<1>2. \A t \in Tasks : task[t] \in TaskRow
  BY DEF RowTypes
<1>3. task' = [task EXCEPT ![r.task] = [@ EXCEPT !.intent = r.row.intent]]
  BY DEF RewriteParams
<1>4. \A t \in Tasks : /\ [task[t] EXCEPT !.intent = r.row.intent] \in TaskRow
                      /\ [task[t] EXCEPT !.intent = r.row.intent].status = task[t].status
                      /\ [task[t] EXCEPT !.intent = r.row.intent].stamped = task[t].stamped
  BY <1>1, <1>2 DEF TaskRow
<1> QED
  BY <1>2, <1>3, <1>4 DEF RowTypes

\* Writing a task's status, or its status and its intent, keeps the types.
LEMMA StatusWritten ==
  ASSUME RowTypes, NEW r \in Transactions, NEW status \in TaskStates,
         NEW intent \in Devices \union {None}, NEW t \in Tasks
  PROVE  /\ MergedTask(task[t], r.row, [r.row EXCEPT !.status = status]) \in TaskRow
         /\ [MergedTask(task[t], r.row, [r.row EXCEPT !.status = status])
               EXCEPT !.intent = intent] \in TaskRow
<1> DEFINE new    == [r.row EXCEPT !.status = status]
           merged == MergedTask(task[t], r.row, new)
<1>1. r.row \in TaskRow /\ task[t] \in TaskRow
  BY DEF Transactions, RowTypes
<1>2. new \in TaskRow
  BY <1>1 DEF TaskRow
<1> HIDE DEF new
<1>3. merged \in TaskRow
  BY <1>1, <1>2, MergedTaskType
<1> HIDE DEF merged
<1>4. [merged EXCEPT !.intent = intent] \in TaskRow
  BY <1>3 DEF TaskRow
<1> QED
  BY <1>3, <1>4 DEF merged, new

\* A dispatch creates the next execution and leaves the others alone.
LEMMA DispatchDirectBasic ==
  ASSUME ConstantsAssumption, RowTypes, RowsCoherent,
         NEW r \in Transactions, Loaded(r),
         r.op \in {"reassign", "confirm"}, r.device # None, DispatchDirect(r)
  PROVE  RowTypes' /\ RowsCoherent' /\ Evolves
<1> DEFINE n == issued + 1
           fresh == [task |-> r.task, device |-> r.device,
                     state |-> "dispatched", ret |-> "none"]
<1>1. r.task \in Tasks /\ r.device \in Devices /\ ~HasRequirements(r.task)
  BY DEF Loaded, Transactions
<1>2. n \in Executions /\ n \in 0..MaxExecutions /\ issued \in Nat
  BY DEF DispatchDirect, RowTypes, Executions, ConstantsAssumption
<1>3. fresh \in ExecRow
  BY <1>1 DEF ExecRow, ExecutionStates, ActiveStates
<1>4. exec' = [exec EXCEPT ![n] = fresh] /\ issued' = n /\ alloc' = alloc
  BY DEF DispatchDirect
<1>5. task' \in [Tasks -> TaskRow]
  <2> DEFINE new == [r.row EXCEPT !.status = "assigned", !.intent = None,
                                  !.device = IF @ = None THEN r.device ELSE @]
  <2>1. r.row \in TaskRow
    BY DEF Transactions
  <2>2. new \in TaskRow
    BY <1>1, <2>1 DEF TaskRow, TaskStates
  <2>3. \A t \in Tasks : MergedTask(task[t], r.row, new) \in TaskRow
    BY <2>1, <2>2, MergedTaskType DEF RowTypes
  <2>4. task' = [task EXCEPT ![r.task] = MergedTask(@, r.row, new)]
    BY DEF DispatchDirect
  <2> QED
    BY <1>1, <2>3, <2>4 DEF RowTypes
<1>6. device' \in [Devices -> DeviceStates]
  BY DEF DispatchDirect, RowTypes, DeviceStates
<1>7. RowTypes'
  BY <1>2, <1>3, <1>4, <1>5, <1>6 DEF RowTypes
<1>8. RowsCoherent'
  <2>1. ASSUME NEW e \in Executions, e # n
        PROVE  exec'[e] = exec[e] /\ alloc'[e] = alloc[e] /\ (e <= issued' <=> e <= issued)
    BY <1>2, <1>4, <2>1 DEF RowTypes, Executions
  <2>2. exec'[n] = fresh /\ alloc'[n] = NoAlloc /\ n <= issued'
    BY <1>2, <1>4 DEF RowTypes, RowsCoherent
  <2>3. /\ exec'[n].state # "absent" /\ exec'[n].task \in Tasks
        /\ exec'[n].device \in Devices /\ ~HasRequirements(exec'[n].task)
        /\ alloc'[n].state = "none"
    BY <1>1, <2>2 DEF NoAlloc
  <2> QED
    BY <2>1, <2>2, <2>3 DEF RowsCoherent, HasRequirements
<1>9. Evolves
  BY <1>2, <1>4 DEF Evolves, RowTypes
<1> QED
  BY <1>7, <1>8, <1>9

\* A rejected start fails the execution and returns the task.
LEMMA RejectBasic ==
  ASSUME RowTypes, RowsCoherent, NEW r \in Transactions, Loaded(r), WriteReject(r)
  PROVE  RowTypes' /\ RowsCoherent' /\ Evolves
<1>1. ASSUME NEW e \in Executions
      PROVE  /\ exec'[e] \in ExecRow
             /\ exec'[e].task = exec[e].task
             /\ exec'[e].device = exec[e].device
             /\ e <= issued => exec'[e].state # "absent"
             /\ exec'[e].state = "dispatched" => exec[e].state = "dispatched"
             /\ ~(e <= issued) => exec'[e] = exec[e]
  <2>1. CASE e \notin r.touched
    BY <2>1 DEF WriteReject, RowTypes, RowsCoherent
  <2>2. CASE e \in r.touched
    <3>1. r.exec[e] \in ExecRow /\ e <= issued
      BY <2>2 DEF Transactions, Loaded
    <3>2. /\ [r.exec[e] EXCEPT !.state = "failed"] \in ExecRow
          /\ [r.exec[e] EXCEPT !.state = "failed"].state = "failed"
      BY <3>1 DEF ExecRow, ExecutionStates, TerminalStates
    <3>3. exec'[e] = MergedExec(exec[e], r.exec[e], [r.exec[e] EXCEPT !.state = "failed"])
      BY <2>2 DEF WriteReject
    <3> DEFINE new == [r.exec[e] EXCEPT !.state = "failed"]
    <3>4. new \in ExecRow /\ new.state \notin {"absent", "dispatched"}
      BY <3>2
    <3> HIDE DEF new
    <3>5. exec'[e] = MergedExec(exec[e], r.exec[e], new)
      BY <3>3 DEF new
    <3> QED
      BY <2>2, <3>1, <3>4, <3>5, MergedLoaded
  <2> QED
    BY <2>1, <2>2
<1>2. exec' \in [Executions -> ExecRow]
  BY <1>1 DEF WriteReject
<1>3. task' \in [Tasks -> TaskRow]
  <2> DEFINE new == [r.row EXCEPT !.status = "pending", !.device = None]
  <2>1. r.row \in TaskRow
    BY DEF Transactions
  <2>2. new \in TaskRow
    BY <2>1 DEF TaskRow, TaskStates
  <2>3. \A t \in Tasks : MergedTask(task[t], r.row, new) \in TaskRow
    BY <2>1, <2>2, MergedTaskType DEF RowTypes
  <2>4. task' = [task EXCEPT ![r.task] = MergedTask(@, r.row, new)]
    BY DEF WriteReject
  <2> QED
    BY <2>3, <2>4 DEF RowTypes
<1>4. UNCHANGED <<alloc, device, issued>>
  BY DEF WriteReject
<1>5. RowTypes'
  BY <1>2, <1>3, <1>4 DEF RowTypes
<1>6. RowsCoherent'
  BY <1>1, <1>4 DEF RowsCoherent
<1>7. Evolves
  BY <1>1, <1>4 DEF Evolves, RowTypes
<1> QED
  BY <1>5, <1>6, <1>7

\* A telemetry report moves one execution, its allocation and the task.
LEMMA TelemetryBasic ==
  ASSUME ConstantsAssumption, RowTypes, RowsCoherent,
         NEW r \in Transactions, Loaded(r), r.op = "telemetry",
         NEW reported \in ReportedStates, NEW done \in {0, 1},
         NEW as \in {"ready", "busy"}, WriteTelemetry(r, reported, done, as)
  PROVE  RowTypes' /\ RowsCoherent' /\ Evolves
<1>1. PICK e \in r.touched :
        LET x     == r.exec[e]
            a     == r.alloc[e]
            state == Resolved(x, reported)
            seen  == [a EXCEPT !.state = state, !.done = done]
        IN /\ exec' = [exec EXCEPT ![e] = MergedExec(@, x, [x EXCEPT !.state = state])]
           /\ IF a.state # "none"
                THEN /\ alloc' = [alloc EXCEPT ![e] = MergedAlloc(@, a, seen)]
                     /\ task' = [task EXCEPT ![r.task] =
                                   Aggregated(r.task, @, [alloc EXCEPT ![e] = seen])]
                ELSE /\ task' = [task EXCEPT ![r.task] =
                                   Projected(@, state, Active(r.task) \ {e})]
                     /\ UNCHANGED alloc
           /\ device' = [device EXCEPT ![r.device] =
                           IF state \in {"accepted", "running", "paused"}
                             THEN "busy" ELSE as]
           /\ UNCHANGED issued
  BY DEF WriteTelemetry
<1> DEFINE x     == r.exec[e]
           a     == r.alloc[e]
           state == Resolved(x, reported)
           seen  == [a EXCEPT !.state = state, !.done = done]
           moved == [x EXCEPT !.state = state]
<1>2. /\ e \in Executions /\ e <= issued /\ x \in ExecRow /\ a \in AllocRow
      /\ (a.state # "none") <=> HasRequirements(exec[e].task)
      /\ r.task = exec[e].task
  BY DEF Transactions, Loaded
<1>3. state \in ExecutionStates /\ state \notin {"absent", "dispatched", "none"}
  <2>1. state \in ExecutionStates /\ state # "dispatched"
    BY <1>2, ResolvedType
  <2> QED
    BY <2>1 DEF ExecutionStates, ActiveStates, RequestedStates, TerminalStates
<1>4. moved \in ExecRow /\ moved.state \notin {"absent", "dispatched"}
  BY <1>2, <1>3 DEF ExecRow
<1>5. seen \in AllocRow /\ seen.state # "none"
  BY <1>2, <1>3 DEF AllocRow
<1>6. state \in ExecutionStates
  BY <1>3
<1> HIDE DEF x, a, state, seen, moved
<1>7. /\ exec' = [exec EXCEPT ![e] = MergedExec(@, x, moved)]
      /\ UNCHANGED issued
  BY <1>1 DEF x, state, moved
<1>8. /\ MergedExec(exec[e], x, moved) \in ExecRow
      /\ MergedExec(exec[e], x, moved).task = exec[e].task
      /\ MergedExec(exec[e], x, moved).device = exec[e].device
      /\ MergedExec(exec[e], x, moved).state # "absent"
      /\ MergedExec(exec[e], x, moved).state = "dispatched"
           => exec[e].state = "dispatched"
  BY <1>2, <1>4, MergedLoaded DEF x
<1>9. /\ a.state # "none"
           => /\ alloc' = [alloc EXCEPT ![e] = MergedAlloc(@, a, seen)]
              /\ task' = [task EXCEPT ![r.task] =
                            Aggregated(r.task, @, [alloc EXCEPT ![e] = seen])]
      /\ a.state = "none"
           => /\ alloc' = alloc
              /\ task' = [task EXCEPT ![r.task] =
                            Projected(@, state, Active(r.task) \ {e})]
  BY <1>1 DEF x, a, state, seen
<1>10. exec' \in [Executions -> ExecRow]
  BY <1>2, <1>7, <1>8 DEF RowTypes
<1>11. alloc' \in [Executions -> AllocRow]
  BY <1>2, <1>5, <1>9, MergedAllocType DEF RowTypes
<1>12. r.task \in Tasks /\ task[r.task] \in TaskRow
  BY <1>2 DEF RowTypes, RowsCoherent
<1>13. task' \in [Tasks -> TaskRow]
  <2>1. CASE a.state # "none"
    <3>1. Aggregated(r.task, task[r.task], [alloc EXCEPT ![e] = seen]) \in TaskRow
      BY <1>12, AggregatedType
    <3> QED
      BY <1>9, <1>12, <2>1, <3>1 DEF RowTypes
  <2>2. CASE a.state = "none"
    <3>1. Projected(task[r.task], state, Active(r.task) \ {e}) \in TaskRow
      BY <1>6, <1>12, ProjectedType
    <3> QED
      BY <1>9, <1>12, <2>2, <3>1 DEF RowTypes
  <2> QED
    BY <2>1, <2>2
<1>14. device' \in [Devices -> DeviceStates]
  BY <1>1 DEF RowTypes, DeviceStates
<1>15. RowTypes'
  BY <1>7, <1>10, <1>11, <1>13, <1>14 DEF RowTypes
<1>16. RowsCoherent'
  <2>1. ASSUME NEW f \in Executions, f # e
        PROVE  exec'[f] = exec[f] /\ alloc'[f] = alloc[f]
    BY <1>2, <1>7, <1>9, <2>1 DEF RowTypes
  <2>2. exec'[e] = MergedExec(exec[e], x, moved)
    BY <1>2, <1>7 DEF RowTypes
  <2>3. (alloc'[e].state # "none") <=> HasRequirements(exec[e].task)
    <3>1. CASE a.state = "none"
      BY <1>2, <1>9, <3>1 DEF RowsCoherent
    <3>2. CASE a.state # "none"
      <4>1. alloc'[e] = MergedAlloc(alloc[e], a, seen)
        BY <1>2, <1>9, <3>2 DEF RowTypes
      <4>2. alloc'[e].state = Written(alloc[e].state, a.state, seen.state)
        BY <1>2, <1>5, <4>1, MergedAllocType DEF RowTypes
      <4>3. alloc[e].state # "none"
        BY <1>2, <3>2 DEF RowsCoherent
      <4> QED
        BY <1>2, <1>5, <3>2, <4>2, <4>3 DEF Written
    <3> QED
      BY <3>1, <3>2
  <2> QED
    BY <1>2, <1>7, <1>8, <2>1, <2>2, <2>3 DEF RowsCoherent, HasRequirements
<1>17. Evolves
  BY <1>2, <1>7, <1>8 DEF Evolves, RowTypes
<1> QED
  BY <1>15, <1>16, <1>17

\* Whatever a handler writes, from whatever it has loaded.
LEMMA WriteBasic ==
  ASSUME ConstantsAssumption, RowTypes, RowsCoherent,
         NEW r \in Transactions, Loaded(r), Write(r)
  PROVE  RowTypes' /\ RowsCoherent' /\ Evolves
<1>1. CASE WritePause(r)
  <2>1. "pause_requested" \in RequestedStates
    BY DEF RequestedStates
  <2> QED
    BY <1>1, <2>1, RequestBasic, RewriteParamsBasic DEF WritePause
<1>2. CASE WriteResume(r)
  <2>1. "resume_requested" \in RequestedStates
    BY DEF RequestedStates
  <2> QED
    BY <1>2, <2>1, RequestBasic, RewriteParamsBasic DEF WriteResume
<1>3. CASE WriteHold(r)
  <2>1. "pause_requested" \in RequestedStates
    BY DEF RequestedStates
  <2> QED
    BY <1>3, <2>1, RequestBasic DEF WriteHold, RowTypes
<1>4. CASE WriteReject(r)
  BY <1>4, RejectBasic
<1>5. CASE r.op = "reassign" /\ WriteReassign(r)
  <2>1. CASE DispatchDirect(r)
    BY <1>5, <2>1, DispatchDirectBasic DEF Loaded
  <2>2. CASE /\ RequestExecutions(r, "cancel_requested")
             /\ task' = [task EXCEPT ![r.task] =
                   [MergedTask(@, r.row, [r.row EXCEPT !.status = "reassign_pending"])
                      EXCEPT !.intent = r.device]]
             /\ UNCHANGED <<alloc, device, issued>>
    <3>1. "cancel_requested" \in RequestedStates /\ "reassign_pending" \in TaskStates
      BY DEF RequestedStates, TaskStates
    <3>2. r.device \in Devices \union {None}
      BY DEF Transactions
    <3>3. task' \in [Tasks -> TaskRow]
      BY <2>2, <3>1, <3>2, StatusWritten DEF RowTypes
    <3> QED
      BY <2>2, <3>1, <3>3, RequestBasic
  <2> QED
    BY <1>5, <2>1, <2>2 DEF WriteReassign
<1>6. CASE r.op = "confirm" /\ WriteConfirm(r)
  <2>1. CASE r.device # None /\ DispatchDirect(r)
    BY <1>6, <2>1, DispatchDirectBasic
  <2>2. CASE /\ task' = [task EXCEPT ![r.task] =
                   MergedTask(@, r.row, [r.row EXCEPT !.status = "pending"])]
             /\ UNCHANGED <<exec, alloc, device, issued>>
    <3>1. "pending" \in TaskStates
      BY DEF TaskStates
    <3>2. task' \in [Tasks -> TaskRow]
      BY <2>2, <3>1, StatusWritten DEF RowTypes
    <3> QED
      BY <2>2, <3>2 DEF RowTypes, RowsCoherent, Evolves, HasRequirements
  <2> QED
    BY <1>6, <2>1, <2>2 DEF WriteConfirm
<1>7. CASE /\ r.op = "telemetry"
           /\ \E reported \in ReportedStates, done \in {0, 1}, as \in {"ready", "busy"} :
                WriteTelemetry(r, reported, done, as)
  BY <1>7, TelemetryBasic
<1> QED
  BY <1>1, <1>2, <1>3, <1>4, <1>5, <1>6, <1>7 DEF Write

\* A cancel request, with and without active executions.
LEMMA CancelBasic ==
  ASSUME RowTypes, RowsCoherent, NEW t \in Tasks, CancelTask(t)
  PROVE  RowTypes' /\ RowsCoherent' /\ Evolves
<1>1. ASSUME NEW e \in Executions
      PROVE  /\ exec'[e] \in ExecRow
             /\ exec'[e].task = exec[e].task
             /\ exec'[e].device = exec[e].device
             /\ e <= issued => exec'[e].state # "absent"
             /\ exec'[e].state = "dispatched" => exec[e].state = "dispatched"
             /\ ~(e <= issued) => exec'[e] = exec[e]
  <2>1. CASE exec'[e] = exec[e]
    BY <2>1 DEF RowTypes, RowsCoherent
  <2>2. CASE e \in Active(t) /\ exec'[e] = Requested(exec[e], "cancel_requested")
    <3>1. exec[e] \in ExecRow /\ exec[e].state # "absent"
      BY <2>2 DEF Active, ActiveStates, RequestedStates, RowTypes
    <3>2. "cancel_requested" \in RequestedStates
      BY DEF RequestedStates
    <3>3. /\ Requested(exec[e], "cancel_requested") \in ExecRow
          /\ Requested(exec[e], "cancel_requested").state = "cancel_requested"
      BY <3>1, <3>2, RequestedType
    <3>4. e <= issued
      BY <3>1 DEF RowsCoherent, NoExec
    <3> QED
      BY <2>2, <3>1, <3>3, <3>4 DEF Requested, ExecRow
  <2> QED
    BY <2>1, <2>2 DEF CancelTask
<1>2. ASSUME NEW e \in Executions
      PROVE  /\ alloc'[e] \in AllocRow
             /\ (alloc'[e].state = "none") <=> (alloc[e].state = "none")
             /\ ~(e <= issued) => alloc'[e] = alloc[e]
  <2>1. alloc[e] \in AllocRow /\ (~(e <= issued) => alloc[e].state = "none")
    BY DEF RowTypes, RowsCoherent, NoAlloc
  <2>2. CASE alloc'[e] = alloc[e]
    BY <2>1, <2>2
  <2>3. CASE /\ alloc[e].state # "none"
             /\ alloc'[e] \in {[alloc[e] EXCEPT !.state = "cancelled"],
                               [alloc[e] EXCEPT !.state = "cancel_requested"]}
    BY <2>1, <2>3 DEF AllocRow, ExecutionStates, ActiveStates, RequestedStates,
                      TerminalStates
  <2>4. e \in Live(t, alloc) => alloc[e].state # "none"
    BY DEF Live, ActiveStates, RequestedStates
  <2> QED
    BY <2>2, <2>3, <2>4 DEF CancelTask
<1>3. exec' \in [Executions -> ExecRow] /\ alloc' \in [Executions -> AllocRow]
  BY <1>1, <1>2 DEF CancelTask, RowTypes
<1>4. task' \in [Tasks -> TaskRow]
  <2>1. task[t] \in TaskRow
    BY DEF RowTypes
  <2>2. Finalized(task[t]) \in TaskRow
    BY <2>1, FinalizedType
  <2>3. [task[t] EXCEPT !.status = "cancel_requested"] \in TaskRow
    BY <2>1 DEF TaskRow, TaskStates
  <2> QED
    BY <2>2, <2>3 DEF CancelTask, RowTypes
<1>5. UNCHANGED <<device, issued>>
  BY DEF CancelTask
<1>6. RowTypes'
  BY <1>3, <1>4, <1>5 DEF RowTypes
<1>7. RowsCoherent'
  BY <1>1, <1>2, <1>5 DEF RowsCoherent
<1>8. Evolves
  BY <1>1, <1>5 DEF Evolves, RowTypes
<1> QED
  BY <1>6, <1>7, <1>8

\* A tick that dispatches creates the next executions, with allocations.
LEMMA TickBasic ==
  ASSUME ConstantsAssumption, RowTypes, RowsCoherent, NEW t \in Tasks, Tick(t)
  PROVE  RowTypes' /\ RowsCoherent' /\ Evolves
<1> DEFINE k   == Remaining(t)
           new == (issued + 1)..(issued + k)
<1>1. PICK place \in [new -> Candidates(t)] :
        /\ exec' = [e \in Executions |->
                      IF e \in new
                        THEN [task |-> t, device |-> place[e],
                              state |-> "dispatched", ret |-> "none"]
                        ELSE exec[e]]
        /\ alloc' = [e \in Executions |->
                       IF e \in new THEN [state |-> "dispatched", done |-> 0]
                                    ELSE alloc[e]]
        /\ task' = [task EXCEPT ![t] = [@ EXCEPT !.status = "assigned",
                                                 !.device = place[issued + 1],
                                                 !.intent = None]]
        /\ device' = [d \in Devices |->
                        IF \E e \in new : place[e] = d THEN "busy" ELSE device[d]]
  BY DEF Tick
<1>2. HasRequirements(t) /\ k > 0 /\ issued + k <= MaxExecutions /\ issued' = issued + k
  BY DEF Tick
<1>3. k \in Int
  <2>1. Required[t] \in Nat /\ task[t].done \in Nat
    BY DEF ConstantsAssumption, RowTypes, TaskRow
  <2> DEFINE R == {e \in Live(t, alloc) : alloc[e].done = 0}
  <2>2. R \subseteq 1..MaxExecutions
    BY DEF Live, Of, Executions
  <2> HIDE DEF R
  <2>3. IsFiniteSet(R)
    <3>1. IsFiniteSet(1..MaxExecutions)
      BY FS_Interval DEF ConstantsAssumption
    <3> QED
      BY <2>2, <3>1, FS_Subset
  <2>4. Cardinality(R) \in Nat
    BY <2>3, FS_CardinalityType
  <2> QED
    BY <2>1, <2>4 DEF Remaining, R
<1> HIDE DEF k
<1>4. issued \in Nat /\ new \subseteq Executions /\ issued + 1 \in new
  BY <1>2, <1>3 DEF RowTypes, Executions, ConstantsAssumption
<1>5. \A e \in new : place[e] \in Devices
  BY <1>1 DEF Candidates
<1>6. \A e \in new : [task |-> t, device |-> place[e],
                      state |-> "dispatched", ret |-> "none"] \in ExecRow
  BY <1>5 DEF ExecRow, ExecutionStates, ActiveStates
<1>7. [state |-> "dispatched", done |-> 0] \in AllocRow
  BY DEF AllocRow, ExecutionStates, ActiveStates
<1>8. exec' \in [Executions -> ExecRow]
  BY <1>1, <1>6 DEF RowTypes
<1>9. alloc' \in [Executions -> AllocRow]
  BY <1>1, <1>7 DEF RowTypes
<1>10. task' \in [Tasks -> TaskRow]
  <2> DEFINE row == [task[t] EXCEPT !.status = "assigned", !.intent = None,
                                    !.device = place[issued + 1]]
  <2>1. place[issued + 1] \in Devices /\ task[t] \in TaskRow
    BY <1>4, <1>5 DEF RowTypes
  <2>2. row \in TaskRow
    BY <2>1 DEF TaskRow, TaskStates
  <2>3. task' = [task EXCEPT ![t] = row]
    BY <1>1, <2>1 DEF RowTypes, TaskRow
  <2> QED
    BY <2>2, <2>3 DEF RowTypes
<1>11. device' \in [Devices -> DeviceStates]
  BY <1>1 DEF RowTypes, DeviceStates
<1>12. RowTypes'
  BY <1>2, <1>3, <1>4, <1>8, <1>9, <1>10, <1>11
     DEF RowTypes, ConstantsAssumption
<1>13. \A e \in Executions : e <= issued => e \notin new
  BY <1>4 DEF Executions
<1>14. \A e \in Executions : e <= issued' <=> e <= issued \/ e \in new
  BY <1>2, <1>3, <1>4 DEF Executions, ConstantsAssumption
<1>15. RowsCoherent'
  <2>1. ASSUME NEW e \in new
        PROVE  /\ exec'[e].state # "absent" /\ exec'[e].task = t
               /\ exec'[e].device \in Devices /\ alloc'[e].state # "none"
    BY <1>1, <1>4, <1>5
  <2>2. ASSUME NEW e \in Executions, e \notin new
        PROVE  exec'[e] = exec[e] /\ alloc'[e] = alloc[e]
    BY <1>1, <2>2
  <2> QED
    BY <1>2, <1>13, <1>14, <2>1, <2>2 DEF RowsCoherent, HasRequirements
<1>16. Evolves
  BY <1>1, <1>2, <1>3, <1>4, <1>13 DEF Evolves
<1> QED
  BY <1>12, <1>15, <1>16

\* Split tasks are never waiting for a reassignment, whatever is written.
LEMMA WriteUnassigned ==
  ASSUME RowTypes, RowsCoherent, SplitNotReassigned,
         NEW r \in Transactions, Loaded(r), Write(r)
  PROVE  SplitNotReassigned'
<1> SUFFICES ASSUME NEW t \in Tasks, HasRequirements(t)
             PROVE  task'[t].status # "reassign_pending"
  BY DEF SplitNotReassigned, HasRequirements
<1>1. task[t] \in TaskRow /\ task[t].status # "reassign_pending"
  BY DEF SplitNotReassigned, RowTypes
<1>2. CASE task' = task \/ RewriteParams(r)
  BY <1>1, <1>2, RewriteParamsBasic
<1>3. CASE r.op \in {"reassign", "confirm"} /\ r.task # t
            /\ \E new : task' = [task EXCEPT ![r.task] = new]
  BY <1>1, <1>3 DEF RowTypes
<1>4. CASE WriteReject(r)
  <2> DEFINE new == [r.row EXCEPT !.status = "pending", !.device = None]
  <2>1. r.row \in TaskRow
    BY DEF Transactions
  <2>2. new \in TaskRow /\ new.status = "pending"
    BY <2>1 DEF TaskRow, TaskStates
  <2>3. task'[t] = task[t] \/ task'[t] = MergedTask(task[t], r.row, new)
    BY <1>4 DEF WriteReject, RowTypes
  <2> HIDE DEF new
  <2>4. MergedTask(task[t], r.row, new).status \in {task[t].status, "pending"}
    BY <1>1, <2>1, <2>2, MergedTaskType DEF Written
  <2> QED
    BY <1>1, <2>3, <2>4
<1>5. CASE /\ r.op = "telemetry"
           /\ \E reported \in ReportedStates, done \in {0, 1}, as \in {"ready", "busy"} :
                WriteTelemetry(r, reported, done, as)
  <2>1. PICK av : task'[t] = task[t] \/ task'[t] = Aggregated(t, task[t], av)
    <3>1. PICK reported \in ReportedStates, done \in {0, 1}, as \in {"ready", "busy"} :
            WriteTelemetry(r, reported, done, as)
      BY <1>5
    <3>2. PICK e \in r.touched :
            LET a     == r.alloc[e]
                state == Resolved(r.exec[e], reported)
                seen  == [a EXCEPT !.state = state, !.done = done]
            IN IF a.state # "none"
                 THEN task' = [task EXCEPT ![r.task] =
                                 Aggregated(r.task, @, [alloc EXCEPT ![e] = seen])]
                 ELSE task' = [task EXCEPT ![r.task] =
                                 Projected(@, state, Active(r.task) \ {e})]
      BY <3>1 DEF WriteTelemetry
    <3>3. /\ (r.alloc[e].state # "none") <=> HasRequirements(exec[e].task)
          /\ r.task = exec[e].task
      BY <1>5 DEF Loaded
    <3> QED
      BY <3>2, <3>3 DEF RowTypes
  <2> QED
    BY <1>1, <2>1 DEF Aggregated, Finalized, TaskRow
<1> QED
  <2>1. r.op \in {"reassign", "confirm"} => r.task # t
    BY DEF Loaded
  <2>2. ASSUME DispatchDirect(r)
        PROVE  \E new : task' = [task EXCEPT ![r.task] = new]
    BY <2>2 DEF DispatchDirect
  <2>3. ASSUME WriteReassign(r)
        PROVE  \E new : task' = [task EXCEPT ![r.task] = new]
    BY <2>2, <2>3 DEF WriteReassign
  <2>4. ASSUME WriteConfirm(r)
        PROVE  \E new : task' = [task EXCEPT ![r.task] = new]
    BY <2>2, <2>4 DEF WriteConfirm
  <2> QED
    BY <1>2, <1>3, <1>4, <1>5, <2>1, <2>2, <2>3, <2>4
       DEF Write, WritePause, WriteResume, WriteHold

-----------------------------------------------------------------------------
(***************************************************************************)
(* Every step keeps the rows and the pending transaction coherent.         *)
(***************************************************************************)

\* A pending transaction stays coherent while other handlers write.
LEMMA LoadedKept ==
  ASSUME RowTypes, RowsCoherent, tx \in Transactions, Loaded(tx), Evolves, tx' = tx
  PROVE  (tx \in Transactions /\ Loaded(tx))'
<1>1. ASSUME NEW e \in tx.touched
      PROVE  /\ e <= issued' /\ exec'[e].task = exec[e].task
             /\ exec'[e].state = "dispatched" => exec[e].state = "dispatched"
  <2>1. e \in Executions /\ e <= issued
    BY DEF Transactions, Loaded
  <2> QED
    BY <2>1 DEF Evolves, RowTypes, Executions
<1>2. tx' \in Transactions'
  BY DEF Transactions, ExecRow, AllocRow, TaskRow
<1> QED
  BY <1>1, <1>2 DEF Loaded, HasRequirements

\* So does one that ends.
LEMMA NoneLoaded ==
  ASSUME tx' = NoTransaction
  PROVE  (tx \in Transactions /\ Loaded(tx))'
<1>1. tx' \in Transactions
  BY NoTransactionType
<1>2. tx'.touched = {} /\ tx'.op = "none"
  BY DEF NoTransaction
<1> QED
  BY <1>1, <1>2 DEF Loaded

\* A rejection has loaded an execution that is "dispatched" at that time.
Rejecting(r) ==
  r.op = "reject" =>
    \E e \in r.touched : exec[e].state = "dispatched" /\ exec[e].task = r.task

\* What was just read is what is stored; only telemetry looks at executions
\* that are no longer active.
Fresh(r) ==
  \A e \in r.touched :
    /\ r.exec[e] = exec[e]
    /\ r.alloc[e] = alloc[e]
    /\ r.op # "telemetry" => exec[e].state \in ActiveStates

\* The handlers that look at the task loaded it as it is stored; a control
\* request finds no request pending; a rejection names one task.
Aimed(r) ==
  /\ r.op \in {"pause", "resume", "reassign", "confirm", "reject"} =>
       r.task \in Tasks /\ r.row = task[r.task]
  /\ r.op \in {"pause", "resume", "hold", "reject"} =>
       \A e \in r.touched : exec[e].state \notin RequestedStates
  /\ r.op = "reject" => \A e \in r.touched : exec[e].task = r.task

(***************************************************************************)
(* The shapes of a step: a handler with coherent reads; a cancel request; a *)
(* tick; the commit of the pending transaction; a step that only moves a   *)
(* device or forgets the transaction.                                      *)
(***************************************************************************)
HandlerStep ==
  \E r \in Transactions :
    Loaded(r) /\ Fresh(r) /\ Aimed(r) /\ Rejecting(r) /\ Handle(r)

IdleStep ==
  /\ UNCHANGED <<task, exec, alloc, issued>>
  /\ device' \in [Devices -> DeviceStates]
  /\ tx' \in {tx, NoTransaction}

LEMMA RequestShape ==
  ASSUME ConstantsAssumption, Basic,
         (\E t \in Tasks : TaskRequest(t)) \/ Others \/ UNCHANGED vars
  PROVE  \/ HandlerStep
         \/ \E t \in Tasks : CancelTask(t)
         \/ Commit
         \/ IdleStep
<1>0. /\ RowTypes /\ RowsCoherent
      /\ NewTask \in TaskRow
      /\ \A t \in Tasks : task[t] \in TaskRow
      /\ {"dispatched", "accepted", "running", "paused"} \subseteq ActiveStates
  BY DEF Basic, RowTypes, NewTask, TaskRow, TaskStates, ActiveStates
<1>1. ASSUME NEW t \in Tasks, PauseTask(t) PROVE HandlerStep
  <2> DEFINE S == {e \in Of(t) : exec[e].state \in {"dispatched", "accepted", "running"}}
             r == Loads("pause", t, None, S, task[t])
  <2>1. S \in SUBSET Executions /\ \A e \in S : exec[e].state # "absent"
    BY DEF Of
  <2>2. r \in Transactions /\ Loaded(r)
    BY <1>0, <2>1, LoadsLoaded DEF Operations
  <2>3. Fresh(r)
    BY <1>0 DEF Fresh, Loads, Of
  <2>4. r.op = "pause" /\ Handle(r) /\ r.touched = S /\ r.task = t /\ r.row = task[t]
    BY <1>1 DEF PauseTask, Loads, ReadTask
  <2>5. Aimed(r)
    BY <2>4 DEF Aimed, RequestedStates
  <2> QED
    BY <2>2, <2>3, <2>4, <2>5 DEF HandlerStep, Rejecting
<1>2. ASSUME NEW t \in Tasks, ResumeTask(t) PROVE HandlerStep
  <2> DEFINE S == {e \in Of(t) : exec[e].state = "paused"}
             r == Loads("resume", t, None, S, task[t])
  <2>1. S \in SUBSET Executions /\ \A e \in S : exec[e].state # "absent"
    BY DEF Of
  <2>2. r \in Transactions /\ Loaded(r)
    BY <1>0, <2>1, LoadsLoaded DEF Operations
  <2>3. Fresh(r)
    BY <1>0 DEF Fresh, Loads, Of
  <2>4. r.op = "resume" /\ Handle(r) /\ r.touched = S /\ r.task = t /\ r.row = task[t]
    BY <1>2 DEF ResumeTask, Loads, ReadTask
  <2>5. Aimed(r)
    BY <2>4 DEF Aimed, RequestedStates
  <2> QED
    BY <2>2, <2>3, <2>4, <2>5 DEF HandlerStep, Rejecting
<1>3. ASSUME NEW t \in Tasks, NEW d \in Devices, ReassignTask(t, d) PROVE HandlerStep
  <2> DEFINE S == Newest(t)
             r == Loads("reassign", t, d, S, task[t])
  <2>1. S \in SUBSET Executions /\ \A e \in S : exec[e].state # "absent"
    BY DEF Newest, Active, Of, ActiveStates, RequestedStates
  <2>2. ~HasRequirements(t) /\ d # None /\ Handle(r)
    BY <1>3, ConstantsAssumption DEF ReassignTask, ReadTask, ConstantsAssumption
  <2>3. r \in Transactions /\ Loaded(r)
    BY <1>0, <2>1, <2>2, LoadsLoaded DEF Operations
  <2>4. r.op = "reassign" /\ Fresh(r) /\ r.task = t /\ r.row = task[t]
    BY DEF Loads, Fresh, Newest, Active, Of
  <2>5. Aimed(r)
    BY <2>4 DEF Aimed, RequestedStates
  <2> QED
    BY <2>2, <2>3, <2>4, <2>5 DEF HandlerStep, Rejecting
<1>4. ASSUME NEW t \in Tasks, ConfirmReassignment(t) PROVE HandlerStep
  <2> DEFINE r == Loads("confirm", t, task[t].intent, {}, task[t])
  <2>1. task[t].intent \in Devices \union {None} /\ Handle(r)
    BY <1>0, <1>4 DEF ConfirmReassignment, ReadTask, TaskRow
  <2>2. ~HasRequirements(t)
    BY <1>4 DEF ConfirmReassignment, Basic, SplitNotReassigned
  <2>3. r \in Transactions /\ Loaded(r)
    BY <1>0, <2>1, <2>2, LoadsLoaded DEF Operations
  <2>4. r.op = "confirm" /\ Fresh(r) /\ r.task = t /\ r.row = task[t]
    BY DEF Loads, Fresh
  <2>5. Aimed(r)
    BY <2>4 DEF Aimed, RequestedStates
  <2> QED
    BY <2>1, <2>3, <2>4, <2>5 DEF HandlerStep, Rejecting
<1>5. ASSUME NEW d \in Devices, SafetyHold(d) PROVE HandlerStep
  <2> DEFINE S == {e \in Executions : /\ exec[e].device = d
                                      /\ exec[e].state \in {"dispatched", "accepted", "running"}}
             r == Loads("hold", None, d, S, NewTask)
  <2>1. S \in SUBSET Executions /\ \A e \in S : exec[e].state # "absent"
    OBVIOUS
  <2>2. r \in Transactions /\ Loaded(r)
    BY <1>0, <2>1, LoadsLoaded DEF Operations
  <2>3. Fresh(r)
    BY <1>0 DEF Fresh, Loads
  <2>4. r.op = "hold" /\ Handle(r) /\ r.touched = S
    BY <1>5 DEF SafetyHold, Loads, Read
  <2>5. Aimed(r)
    BY <2>4 DEF Aimed, RequestedStates
  <2> QED
    BY <2>2, <2>3, <2>4, <2>5 DEF HandlerStep, Rejecting
<1>6. ASSUME NEW e \in Executions, ReportMission(e) PROVE HandlerStep
  <2> DEFINE r == Loads("telemetry", exec[e].task, exec[e].device, {e}, NewTask)
  <2>1. exec[e].state # "absent" /\ Handle(r)
    BY <1>6 DEF ReportMission, Read
  <2>2. exec[e].task \in Tasks /\ exec[e].device \in Devices
    BY <1>0, <2>1 DEF RowsCoherent, NoExec
  <2>3. r \in Transactions /\ Loaded(r)
    BY <1>0, <2>1, <2>2, LoadsLoaded DEF Operations
  <2>4. r.op = "telemetry" /\ Fresh(r)
    BY DEF Loads, Fresh
  <2>5. Aimed(r)
    BY <2>4 DEF Aimed, RequestedStates
  <2> QED
    BY <2>1, <2>3, <2>4, <2>5 DEF HandlerStep, Rejecting
<1>7. ASSUME NEW e \in Executions, RejectStart(e) PROVE HandlerStep
  <2> DEFINE t == exec[e].task
             r == Loads("reject", t, exec[e].device, {e}, task[t])
  <2>1. exec[e].state = "dispatched" /\ Handle(r)
    BY <1>7 DEF RejectStart, ReadTask
  <2>2. t \in Tasks /\ exec[e].device \in Devices
    BY <1>0, <2>1 DEF RowsCoherent, NoExec
  <2>3. r \in Transactions /\ Loaded(r)
    BY <1>0, <2>1, <2>2, LoadsLoaded DEF Operations
  <2>4. r.touched = {e} /\ r.task = t /\ r.row = task[t] /\ r.op = "reject"
    BY DEF Loads
  <2>5. Rejecting(r) /\ Fresh(r)
    BY <1>0, <2>1, <2>4 DEF Rejecting, Fresh, Loads
  <2>6. Aimed(r)
    BY <2>1, <2>2, <2>4 DEF Aimed, RequestedStates
  <2> QED
    BY <2>1, <2>3, <2>5, <2>6 DEF HandlerStep
<1>8. ASSUME NEW d \in Devices, NEW as \in {"ready", "busy"}, ReportDevice(d, as)
      PROVE  IdleStep
  BY <1>0, <1>8 DEF ReportDevice, IdleStep, RowTypes, DeviceStates
<1>9. ASSUME NEW d \in Devices, ReportOffline(d) PROVE IdleStep
  BY <1>0, <1>9 DEF ReportOffline, IdleStep, RowTypes, DeviceStates
<1>10. Rollback => IdleStep
  BY <1>0 DEF Rollback, IdleStep, rows, RowTypes
<1>11. UNCHANGED vars => IdleStep
  BY <1>0 DEF vars, IdleStep, RowTypes
<1> QED
  BY <1>1, <1>2, <1>3, <1>4, <1>5, <1>6, <1>7, <1>8, <1>9, <1>10, <1>11 DEF TaskRequest, Others

LEMMA NextShape ==
  ASSUME ConstantsAssumption, Basic, [Next]_vars
  PROVE  \/ HandlerStep
         \/ \E t \in Tasks : CancelTask(t) \/ Tick(t)
         \/ Commit
         \/ IdleStep
BY RequestShape DEF Next

\* The invariant of the rows and of the pending transaction is inductive.
LEMMA BasicStep ==
  ASSUME ConstantsAssumption, Basic, [Next]_vars
  PROVE  Basic' /\ Evolves
<1>1. ASSUME NEW r \in Transactions, Loaded(r), Handle(r)
      PROVE  Basic' /\ Evolves
  <2>1. CASE Write(r) /\ tx' = tx
    BY <1>1, <2>1, WriteBasic, WriteUnassigned, LoadedKept DEF Basic
  <2>2. CASE tx' = r /\ UNCHANGED rows
    <3>1. (tx \in Transactions /\ Loaded(tx))'
      BY <1>1, <2>2 DEF Loaded, rows, HasRequirements
    <3>2. RowTypes' /\ RowsCoherent' /\ SplitNotReassigned' /\ Evolves
      BY <2>2 DEF Basic, rows, RowTypes, RowsCoherent, SplitNotReassigned, Evolves,
                  HasRequirements
    <3> QED
      BY <3>1, <3>2 DEF Basic
  <2> QED
    BY <1>1, <2>1, <2>2 DEF Handle
<1>2. ASSUME NEW t \in Tasks, CancelTask(t)
      PROVE  Basic' /\ Evolves
  <2>1. RowTypes' /\ RowsCoherent' /\ Evolves /\ tx' = tx
    BY <1>2, CancelBasic DEF Basic, CancelTask
  <2>2. task[t] \in TaskRow
    BY DEF Basic, RowTypes
  <2>3. PICK row : /\ task' = [task EXCEPT ![t] = row]
                   /\ row.status \in {"cancelled", "cancel_requested"}
    <3>1. CASE Active(t) = {}
      BY <1>2, <2>2, <3>1, FinalizedType DEF CancelTask, Basic, RowTypes
    <3>2. CASE Active(t) # {}
      BY <1>2, <2>2, <3>2 DEF CancelTask, Basic, RowTypes, TaskRow
    <3> QED
      BY <3>1, <3>2
  <2>4. SplitNotReassigned'
    BY <2>3 DEF Basic, SplitNotReassigned, RowTypes, HasRequirements
  <2> QED
    BY <2>1, <2>4, LoadedKept DEF Basic
<1>3. ASSUME NEW t \in Tasks, Tick(t)
      PROVE  Basic' /\ Evolves
  <2>1. RowTypes' /\ RowsCoherent' /\ Evolves /\ tx' = tx
    BY <1>3, TickBasic DEF Basic, Tick
  <2>2. task[t] \in TaskRow
    BY DEF Basic, RowTypes
  <2>3. PICK d : task' = [task EXCEPT ![t] = [@ EXCEPT !.status = "assigned",
                                                       !.device = d,
                                                       !.intent = None]]
    BY <1>3 DEF Tick
  <2>4. SplitNotReassigned'
    BY <2>2, <2>3 DEF Basic, SplitNotReassigned, RowTypes, HasRequirements, TaskRow
  <2> QED
    BY <2>1, <2>4, LoadedKept DEF Basic
<1>4. CASE Commit
  BY <1>4, WriteBasic, WriteUnassigned, NoneLoaded DEF Basic, Commit
<1>5. CASE IdleStep
  <2>1. RowTypes' /\ RowsCoherent' /\ SplitNotReassigned' /\ Evolves
    BY <1>5 DEF Basic, IdleStep, RowTypes, RowsCoherent, SplitNotReassigned, Evolves,
                HasRequirements
  <2>2. (tx \in Transactions /\ Loaded(tx))'
    BY <1>5, <2>1, LoadedKept, NoneLoaded DEF Basic, IdleStep
  <2> QED
    BY <2>1, <2>2 DEF Basic
<1> QED
  BY <1>1, <1>2, <1>3, <1>4, <1>5, NextShape DEF HandlerStep

\* It holds initially.
LEMMA BasicInit == ASSUME ConstantsAssumption, Init PROVE Basic
<1>1. RowTypes
  BY DEF Init, RowTypes, ConstantsAssumption, NewTask, NoExec, NoAlloc, TaskRow, TaskStates,
         ExecRow, AllocRow, DeviceStates
<1>2. RowsCoherent
  BY DEF Init, RowsCoherent, Executions
<1>3. SplitNotReassigned
  BY DEF Init, SplitNotReassigned, NewTask
<1>4. tx \in Transactions /\ Loaded(tx)
  BY NoTransactionType DEF Init
<1> QED
  BY <1>1, <1>2, <1>3, <1>4 DEF Basic

\* The invariant holds in every behaviour.
THEOREM BasicInvariance == Spec => []Basic
<1>1. Init => Basic
  BY BasicInit, ConstantsAssumption
<1>2. Basic /\ [Next]_vars => Basic'
  BY BasicStep, ConstantsAssumption
<1> QED
  BY <1>1, <1>2, PTL DEF Spec

\* Every row, and the transaction caught between its reads and its writes, has
\* its type, whichever handlers are deferred.
THEOREM TypeCorrect == Spec => []TypeOK
<1>1. Basic => TypeOK
  BY DEF Basic, RowTypes, TypeOK
<1> QED
  BY <1>1, BasicInvariance, PTL

-----------------------------------------------------------------------------
(***************************************************************************)
(* The partial unique index of mission_executions.                         *)
(***************************************************************************)

\* Executions that keep their device and do not become active keep the index.
LEMMA IndexKept ==
  ASSUME DeviceIndex(exec),
         \A e \in Executions :
           exec'[e].state \in ActiveStates =>
             exec[e].state \in ActiveStates /\ exec'[e].device = exec[e].device
  PROVE  DeviceIndex(exec')
BY DEF DeviceIndex

\* Whatever a handler writes is turned away if it breaks the index.
LEMMA WriteIndex ==
  ASSUME RowTypes, RowsCoherent, DeviceIndex(exec),
         NEW r \in Transactions, Loaded(r), Write(r)
  PROVE  DeviceIndex(exec')
<1>1. CASE WriteReject(r)
  <2>1. ASSUME NEW e \in Executions, exec'[e].state \in ActiveStates
        PROVE  exec[e].state \in ActiveStates /\ exec'[e].device = exec[e].device
    <3>1. CASE e \notin r.touched
      BY <1>1, <2>1, <3>1 DEF WriteReject
    <3>2. CASE e \in r.touched
      <4> DEFINE new == [r.exec[e] EXCEPT !.state = "failed"]
      <4>1. r.exec[e] \in ExecRow /\ exec[e] \in ExecRow
        BY DEF Transactions, RowTypes
      <4>2. new \in ExecRow /\ new.state = "failed"
        BY <4>1 DEF ExecRow, ExecutionStates, TerminalStates
      <4>3. exec'[e] = MergedExec(exec[e], r.exec[e], new)
        BY <1>1, <3>2 DEF WriteReject
      <4> HIDE DEF new
      <4>4. /\ exec'[e].device = exec[e].device
            /\ exec'[e].state \in {exec[e].state, "failed"}
        BY <4>1, <4>2, <4>3, MergedExecType DEF Written
      <4>5. "failed" \notin ActiveStates
        BY DEF ActiveStates, RequestedStates
      <4> QED
        BY <2>1, <4>4, <4>5
    <3> QED
      BY <3>1, <3>2
  <2> QED
    BY <2>1, IndexKept
<1>2. CASE ~WriteReject(r)
  BY <1>2 DEF Write, WritePause, WriteResume, WriteHold, WriteReassign, WriteConfirm,
              WriteTelemetry, RequestExecutions, DispatchDirect
<1> QED
  BY <1>1, <1>2

\* No two active executions share a device, in every interleaving.
THEOREM DeviceIndexInvariance == Spec => []DeviceIndex(exec)
<1>1. Init => DeviceIndex(exec)
  BY DEF Init, DeviceIndex, NoExec, ActiveStates, RequestedStates
<1>2. ASSUME ConstantsAssumption, Basic, DeviceIndex(exec), [Next]_vars
      PROVE  DeviceIndex(exec)'
  <2>1. ASSUME NEW r \in Transactions, Loaded(r), Handle(r)
        PROVE  DeviceIndex(exec')
    BY <1>2, <2>1, WriteIndex DEF Handle, Basic, rows
  <2>2. ASSUME NEW t \in Tasks, CancelTask(t)
        PROVE  DeviceIndex(exec')
    <3>1. ASSUME NEW e \in Executions, exec'[e].state \in ActiveStates
          PROVE  exec[e].state \in ActiveStates /\ exec'[e].device = exec[e].device
      <4>1. CASE exec'[e] = exec[e]
        BY <3>1, <4>1
      <4>2. CASE e \in Active(t) /\ exec'[e] = Requested(exec[e], "cancel_requested")
        <5>1. exec[e] \in ExecRow
          BY <1>2 DEF Basic, RowTypes
        <5> QED
          BY <4>2, <5>1 DEF Active, Requested, ExecRow
      <4> QED
        BY <2>2, <4>1, <4>2 DEF CancelTask
    <3> QED
      BY <1>2, <3>1, IndexKept
  <2>3. ASSUME NEW t \in Tasks, Tick(t)
        PROVE  DeviceIndex(exec')
    <3> DEFINE new == (issued + 1)..(issued + Remaining(t))
    <3>1. PICK place \in [new -> Candidates(t)] :
            /\ \A e, f \in new : e # f => place[e] # place[f]
            /\ exec' = [e \in Executions |->
                          IF e \in new
                            THEN [task |-> t, device |-> place[e],
                                  state |-> "dispatched", ret |-> "none"]
                            ELSE exec[e]]
      BY <2>3 DEF Tick
    <3>2. \A e \in new, f \in Executions :
            exec[f].state \in ActiveStates => exec[f].device # place[e]
      BY <3>1 DEF Candidates, Available, Busy
    <3> HIDE DEF new
    <3>3. \A e \in Executions :
            /\ e \in new => exec'[e].device = place[e]
            /\ e \notin new => exec'[e] = exec[e]
      BY <3>1
    <3> QED
      BY <1>2, <3>1, <3>2, <3>3 DEF DeviceIndex
  <2>4. CASE Commit
    BY <1>2, <2>4, WriteIndex DEF Commit, Basic
  <2>5. CASE IdleStep
    BY <1>2, <2>5 DEF IdleStep
  <2> QED
    BY <1>2, <2>1, <2>2, <2>3, <2>4, <2>5, NextShape DEF HandlerStep
<1> QED
  BY <1>1, <1>2, BasicInvariance, ConstantsAssumption, PTL DEF Spec

\* A robot works on at most one execution, in every interleaving of handlers:
\* the count that the runs check, from the index.
THEOREM OneActiveExecutionPerDevice == Spec => []OneActivePerDevice
<1>1. DeviceIndex(exec) => OneActivePerDevice
  <2> SUFFICES ASSUME DeviceIndex(exec), NEW d \in Devices
               PROVE  Cardinality({e \in Executions : /\ exec[e].device = d
                                                      /\ exec[e].state \in ActiveStates}) <= 1
    BY DEF OneActivePerDevice
  <2> DEFINE A == {e \in Executions : exec[e].device = d /\ exec[e].state \in ActiveStates}
  <2>1. CASE A = {}
    BY <2>1, FS_EmptySet
  <2>2. CASE A # {}
    <3>1. PICK e \in A : TRUE
      BY <2>2
    <3>2. A = {e}
      BY <3>1 DEF DeviceIndex
    <3> QED
      BY <3>2, FS_Singleton
  <2> QED
    BY <2>1, <2>2
<1> QED
  BY <1>1, DeviceIndexInvariance, PTL

-----------------------------------------------------------------------------
(***************************************************************************)
(* A cancelled split task stays cancelled.                                 *)
(*                                                                         *)
(* Two steps could take it away: a rejected start, which sets the task back *)
(* to pending, and the tick.  The tick asks for a pending task.  A rejected *)
(* start needs a dispatched execution, and a cancelled task has none: while *)
(* one is dispatched its allocation is live, and neither telemetry nor the *)
(* cancel request closes a task with a live allocation.                    *)
(***************************************************************************)
CancelCoherent ==
  /\ \A e \in Executions :
       (/\ e <= issued
        /\ HasRequirements(exec[e].task)
        /\ exec[e].state = "dispatched") => alloc[e].state \in ActiveStates
  /\ \A e \in Executions :
       (/\ e <= issued
        /\ HasRequirements(exec[e].task)
        /\ task[exec[e].task].status = "cancelled") => exec[e].state # "dispatched"
  /\ \A t \in Tasks :
       HasRequirements(t) /\ task[t].stamped => task[t].status = "cancelled"

\* Cancelled split tasks stay cancelled in this step.
CancelFinal ==
  \A t \in Tasks : HasRequirements(t) /\ task[t].status = "cancelled"
                     => task'[t].status = "cancelled"

\* A step that leaves the split tasks alone, and at most makes a request of
\* their allocations.
LEMMA QuietForCancellation ==
  ASSUME RowTypes, RowsCoherent, CancelCoherent, Evolves,
         \A t \in Tasks : HasRequirements(t) => /\ task'[t].status = task[t].status
                                                /\ task'[t].stamped = task[t].stamped,
         \A e \in Executions :
           e <= issued => alloc'[e].state \in {alloc[e].state} \union RequestedStates,
         \A e \in Executions :
           e <= issued' => e <= issued \/ ~HasRequirements(exec'[e].task)
  PROVE  CancelCoherent' /\ CancelFinal
<1>1. ASSUME NEW e \in Executions, e <= issued', HasRequirements(exec'[e].task)
      PROVE  /\ e <= issued /\ exec'[e].task = exec[e].task /\ exec[e].task \in Tasks
             /\ exec'[e].state = "dispatched" => exec[e].state = "dispatched"
  BY <1>1 DEF Evolves, RowsCoherent
<1>2. RequestedStates \subseteq ActiveStates
  BY DEF ActiveStates
<1>3. CancelCoherent'
  BY <1>1, <1>2 DEF CancelCoherent, HasRequirements
<1>4. CancelFinal
  BY DEF CancelFinal
<1> QED
  BY <1>3, <1>4

\* A control request is quiet for the cancellation.
LEMMA RequestAllocationsState ==
  ASSUME RowTypes, NEW r \in Transactions, NEW request \in RequestedStates,
         RequestAllocations(r, request), NEW e \in Executions
  PROVE  alloc'[e].state \in {alloc[e].state} \union RequestedStates
<1>1. CASE ~(e \in r.touched /\ r.alloc[e].state # "none")
  BY <1>1 DEF RequestAllocations
<1>2. CASE e \in r.touched /\ r.alloc[e].state # "none"
  <2> DEFINE new == [r.alloc[e] EXCEPT !.state = request]
  <2>1. r.alloc[e] \in AllocRow /\ alloc[e] \in AllocRow
    BY DEF Transactions, RowTypes
  <2>2. new \in AllocRow /\ new.state = request
    BY <2>1 DEF AllocRow, ExecutionStates, ActiveStates
  <2>3. alloc'[e] = MergedAlloc(alloc[e], r.alloc[e], new)
    BY <1>2 DEF RequestAllocations
  <2> HIDE DEF new
  <2>4. alloc'[e].state = Written(alloc[e].state, r.alloc[e].state, new.state)
    BY <2>1, <2>2, <2>3, MergedAllocType
  <2> QED
    BY <2>2, <2>4 DEF Written
<1> QED
  BY <1>1, <1>2

\* A rejected start of a dispatched execution: its task was not cancelled.
LEMMA RejectCancel ==
  ASSUME RowTypes, RowsCoherent, CancelCoherent, Evolves, NEW r \in Transactions,
         Loaded(r), Rejecting(r), r.op = "reject", WriteReject(r)
  PROVE  CancelCoherent' /\ CancelFinal
<1> DEFINE new == [r.row EXCEPT !.status = "pending", !.device = None]
<1>1. r.row \in TaskRow
  BY DEF Transactions
<1>2. new \in TaskRow /\ new.status = "pending"
  BY <1>1 DEF TaskRow, TaskStates
<1>3. task' = [task EXCEPT ![r.task] = MergedTask(@, r.row, new)]
      /\ alloc' = alloc /\ issued' = issued
  BY DEF WriteReject
<1> HIDE DEF new
<1>4. ASSUME NEW t \in Tasks
      PROVE  /\ task'[t].status \in {task[t].status, "pending"}
             /\ task'[t].stamped = task[t].stamped
             /\ t # r.task => task'[t] = task[t]
  BY <1>1, <1>2, <1>3, MergedTaskType DEF RowTypes, Written
<1>5. HasRequirements(r.task) => task[r.task].status # "cancelled"
  <2>1. PICK e \in r.touched : exec[e].state = "dispatched" /\ exec[e].task = r.task
    BY DEF Rejecting
  <2>2. e \in Executions /\ e <= issued
    BY DEF Loaded, Transactions
  <2> QED
    BY <2>1, <2>2 DEF CancelCoherent
<1>6. ASSUME NEW e \in Executions, e <= issued
      PROVE  /\ exec'[e].task = exec[e].task /\ exec[e].task \in Tasks
             /\ exec'[e].state = "dispatched" => exec[e].state = "dispatched"
  BY <1>6 DEF Evolves, RowsCoherent
<1>7. CancelFinal
  BY <1>4, <1>5 DEF CancelFinal
<1>8. CancelCoherent'
  BY <1>3, <1>4, <1>5, <1>6 DEF CancelCoherent, HasRequirements
<1> QED
  BY <1>7, <1>8

\* Telemetry: a report is aggregated over the allocations, so a task with a
\* dispatched execution is never closed by it.
LEMMA TelemetryCancel ==
  ASSUME RowTypes, RowsCoherent, CancelCoherent, Evolves,
         NEW r \in Transactions, Loaded(r), r.op = "telemetry",
         NEW reported \in ReportedStates, NEW done \in {0, 1},
         NEW as \in {"ready", "busy"}, WriteTelemetry(r, reported, done, as)
  PROVE  CancelCoherent' /\ CancelFinal
<1>1. PICK e \in r.touched :
        LET x     == r.exec[e]
            a     == r.alloc[e]
            state == Resolved(x, reported)
            seen  == [a EXCEPT !.state = state, !.done = done]
        IN /\ exec' = [exec EXCEPT ![e] = MergedExec(@, x, [x EXCEPT !.state = state])]
           /\ IF a.state # "none"
                THEN /\ alloc' = [alloc EXCEPT ![e] = MergedAlloc(@, a, seen)]
                     /\ task' = [task EXCEPT ![r.task] =
                                   Aggregated(r.task, @, [alloc EXCEPT ![e] = seen])]
                ELSE /\ task' = [task EXCEPT ![r.task] =
                                   Projected(@, state, Active(r.task) \ {e})]
                     /\ UNCHANGED alloc
           /\ UNCHANGED issued
  BY DEF WriteTelemetry
<1> DEFINE x     == r.exec[e]
           a     == r.alloc[e]
           state == Resolved(x, reported)
           seen  == [a EXCEPT !.state = state, !.done = done]
           moved == [x EXCEPT !.state = state]
           av    == [alloc EXCEPT ![e] = seen]
<1>2. /\ e \in Executions /\ e <= issued /\ x \in ExecRow /\ a \in AllocRow
      /\ x.state # "dispatched" => exec[e].state # "dispatched"
      /\ (a.state # "none") <=> HasRequirements(exec[e].task)
      /\ r.task = exec[e].task
  BY DEF Transactions, Loaded
<1>3. state \in ExecutionStates /\ state # "dispatched"
  BY <1>2, ResolvedType
<1>4. moved \in ExecRow /\ moved.state = state
  BY <1>2, <1>3 DEF ExecRow
<1>5. seen \in AllocRow /\ seen.state = state
  BY <1>2, <1>3 DEF AllocRow
<1> HIDE DEF x, a, state, seen, moved
<1>6. exec' = [exec EXCEPT ![e] = MergedExec(@, x, moved)] /\ issued' = issued
  BY <1>1 DEF x, state, moved
<1>7. /\ a.state # "none"
           => /\ alloc' = [alloc EXCEPT ![e] = MergedAlloc(@, a, seen)]
              /\ task' = [task EXCEPT ![r.task] = Aggregated(r.task, @, av)]
      /\ a.state = "none"
           => /\ alloc' = alloc
              /\ \E new : task' = [task EXCEPT ![r.task] = new]
  BY <1>1 DEF x, a, state, seen
<1>8. exec'[e].state = Written(exec[e].state, x.state, state)
  <2>1. exec[e] \in ExecRow /\ exec'[e] = MergedExec(exec[e], x, moved)
    BY <1>2, <1>6 DEF RowTypes
  <2> QED
    BY <1>2, <1>4, <2>1, MergedExecType
<1>9. exec'[e].state # "dispatched"
  BY <1>2, <1>3, <1>8 DEF Written
<1>10. ASSUME NEW f \in Executions, f <= issued
       PROVE  /\ exec'[f].task = exec[f].task /\ exec[f].task \in Tasks
              /\ exec'[f].state = "dispatched" => f # e /\ exec[f].state = "dispatched"
              /\ f # e => alloc'[f] = alloc[f] /\ exec'[f] = exec[f]
  BY <1>2, <1>6, <1>7, <1>9, <1>10 DEF Evolves, RowsCoherent, RowTypes
<1>11. CASE a.state = "none"
  <2>1. \A t \in Tasks : HasRequirements(t) => task'[t] = task[t]
    BY <1>2, <1>7, <1>11 DEF RowTypes
  <2> QED
    BY <1>6, <1>7, <1>11, <2>1, QuietForCancellation
<1>12. CASE a.state # "none"
  <2> DEFINE t == r.task
             row == task[t]
  <2>1. t \in Tasks /\ row \in TaskRow /\ HasRequirements(t)
    BY <1>2, <1>12 DEF RowTypes, RowsCoherent
  <2>2. task' = [task EXCEPT ![t] = Aggregated(t, row, av)]
    BY <1>7, <1>12, <2>1 DEF RowTypes
  <2>3. \A u \in Tasks : u # t => task'[u] = task[u]
    BY <2>2 DEF RowTypes
  <2>4. task'[t] = Aggregated(t, row, av)
    BY <2>1, <2>2 DEF RowTypes
  <2>5. /\ row.status = "cancelled" => task'[t].status = "cancelled"
        /\ task'[t].stamped => task'[t].status = "cancelled"
        /\ task'[t].status = "cancelled" =>
             row.status = "cancelled" \/ row.stamped \/ Live(t, av) = {}
    BY <2>1, <2>4 DEF Aggregated, Finalized, TaskRow
  <2>6. ASSUME NEW f \in Executions, f <= issued, exec[f].task = t,
               Live(t, av) = {}, f # e
        PROVE  exec[f].state # "dispatched"
    <3>1. av[f] = alloc[f]
      BY <2>6 DEF RowTypes
    <3>2. f \in Of(t)
      BY <2>6 DEF Of
    <3>3. alloc[f].state \notin ActiveStates
      BY <2>6, <3>1, <3>2 DEF Live
    <3> QED
      BY <2>1, <2>6, <3>3 DEF CancelCoherent
  <2>7. CancelFinal
    BY <2>3, <2>5 DEF CancelFinal
  <2>8. ASSUME NEW f \in Executions, f <= issued, HasRequirements(exec[f].task),
               task'[exec[f].task].status = "cancelled"
        PROVE  exec'[f].state # "dispatched"
    <3>1. CASE f = e
      BY <1>9, <3>1
    <3>2. CASE f # e /\ exec[f].task = t
      BY <1>10, <2>1, <2>5, <2>6, <2>8, <3>2 DEF CancelCoherent
    <3>3. CASE f # e /\ exec[f].task # t
      BY <1>10, <2>3, <2>8, <3>3 DEF CancelCoherent
    <3> QED
      BY <3>1, <3>2, <3>3
  <2>9. \A u \in Tasks : HasRequirements(u) /\ task'[u].stamped
                           => task'[u].status = "cancelled"
    BY <2>3, <2>5 DEF CancelCoherent
  <2>10. \A f \in Executions :
           (/\ f <= issued
            /\ HasRequirements(exec[f].task)
            /\ exec'[f].state = "dispatched") => alloc'[f].state \in ActiveStates
    BY <1>10 DEF CancelCoherent
  <2>11. CancelCoherent'
    BY <1>6, <1>10, <2>8, <2>9, <2>10 DEF CancelCoherent, HasRequirements
  <2> QED
    BY <2>7, <2>11
<1> QED
  BY <1>11, <1>12

\* Whatever a handler writes, provided no rejection is late.
LEMMA WriteCancel ==
  ASSUME ConstantsAssumption, RowTypes, RowsCoherent, CancelCoherent,
         NEW r \in Transactions, Loaded(r), Rejecting(r), Write(r)
  PROVE  CancelCoherent' /\ CancelFinal
<1>1. RowTypes' /\ RowsCoherent' /\ Evolves
  BY WriteBasic
<1>2. ASSUME task' = task \/ RewriteParams(r), issued' = issued,
             NEW request \in RequestedStates, RequestAllocations(r, request) \/ alloc' = alloc
      PROVE  CancelCoherent' /\ CancelFinal
  <2>1. \A e \in Executions : alloc'[e].state \in {alloc[e].state} \union RequestedStates
    BY <1>2, RequestAllocationsState
  <2> QED
    BY <1>1, <1>2, <2>1, RewriteParamsBasic, QuietForCancellation
<1>3. CASE WritePause(r)
  <2>1. "pause_requested" \in RequestedStates
    BY DEF RequestedStates
  <2> QED
    BY <1>2, <1>3, <2>1 DEF WritePause
<1>4. CASE WriteResume(r)
  <2>1. "resume_requested" \in RequestedStates
    BY DEF RequestedStates
  <2> QED
    BY <1>2, <1>4, <2>1 DEF WriteResume
<1>5. CASE WriteHold(r)
  <2>1. "pause_requested" \in RequestedStates
    BY DEF RequestedStates
  <2> QED
    BY <1>2, <1>5, <2>1 DEF WriteHold
<1>6. CASE r.op = "reject" /\ WriteReject(r)
  BY <1>1, <1>6, RejectCancel
<1>7. ASSUME r.op \in {"reassign", "confirm"}, DispatchDirect(r)
      PROVE  CancelCoherent' /\ CancelFinal
  <2>1. ~HasRequirements(r.task) /\ r.task \in Tasks
    BY <1>7 DEF Loaded
  <2>2. \A t \in Tasks : HasRequirements(t) => task'[t] = task[t]
    BY <1>7, <2>1 DEF DispatchDirect, RowTypes
  <2>3. \A e \in Executions : e <= issued' => e <= issued \/ ~HasRequirements(exec'[e].task)
    <3>1. issued \in Nat /\ issued' = issued + 1
      BY <1>7 DEF DispatchDirect, RowTypes
    <3>2. ASSUME NEW e \in Executions, e <= issued', ~(e <= issued)
          PROVE  ~HasRequirements(exec'[e].task)
      <4>1. e = issued + 1
        BY <3>1, <3>2 DEF Executions
      <4>2. exec'[e].task = r.task
        BY <1>7, <4>1 DEF DispatchDirect, RowTypes
      <4> QED
        BY <2>1, <4>2
    <3> QED
      BY <3>2
  <2>4. alloc' = alloc
    BY <1>7 DEF DispatchDirect
  <2> QED
    BY <1>1, <2>2, <2>3, <2>4, QuietForCancellation
<1>8. CASE /\ \/ r.op = "reassign" /\ WriteReassign(r)
              \/ r.op = "confirm" /\ WriteConfirm(r)
           /\ ~DispatchDirect(r)
  <2>1. ~HasRequirements(r.task)
    BY <1>8 DEF Loaded
  <2>2. PICK new : task' = [task EXCEPT ![r.task] = new] /\ alloc' = alloc /\ issued' = issued
    BY <1>8 DEF WriteReassign, WriteConfirm
  <2>3. \A t \in Tasks : HasRequirements(t) => task'[t] = task[t]
    BY <2>1, <2>2 DEF RowTypes
  <2> QED
    BY <1>1, <2>2, <2>3, QuietForCancellation
<1>9. CASE /\ r.op = "telemetry"
           /\ \E reported \in ReportedStates, done \in {0, 1}, as \in {"ready", "busy"} :
                WriteTelemetry(r, reported, done, as)
  BY <1>1, <1>9, TelemetryCancel
<1>10. CASE r.op \in {"reassign", "confirm"} /\ DispatchDirect(r)
  BY <1>7, <1>10
<1>11. \/ WritePause(r) \/ WriteResume(r) \/ WriteHold(r)
       \/ r.op = "reject" /\ WriteReject(r)
       \/ r.op = "reassign" /\ WriteReassign(r)
       \/ r.op = "confirm" /\ WriteConfirm(r)
       \/ /\ r.op = "telemetry"
          /\ \E reported \in ReportedStates, done \in {0, 1}, as \in {"ready", "busy"} :
               WriteTelemetry(r, reported, done, as)
  BY DEF Write
<1> QED
  BY <1>3, <1>4, <1>5, <1>6, <1>8, <1>9, <1>10, <1>11

\* A cancel request closes a task that has no active execution.
LEMMA CancelTaskCancel ==
  ASSUME RowTypes, RowsCoherent, CancelCoherent, NEW t \in Tasks, CancelTask(t)
  PROVE  CancelCoherent' /\ CancelFinal
<1>1. Evolves
  BY CancelBasic
<1>2. ASSUME NEW e \in Executions, e <= issued
      PROVE  /\ exec'[e].task = exec[e].task /\ exec[e].task \in Tasks
             /\ exec'[e].state = "dispatched" => exec[e].state = "dispatched"
  BY <1>1, <1>2 DEF Evolves, RowsCoherent
<1>3. task[t] \in TaskRow /\ task[t].status # "cancelled" /\ issued' = issued
  BY DEF CancelTask, RowTypes
<1>4. CASE Active(t) = {}
  <2>1. /\ task' = [task EXCEPT ![t] = Finalized(@)]
        /\ \A e \in Executions : e \notin Of(t) => alloc'[e] = alloc[e]
    BY <1>4 DEF CancelTask, Live
  <2>2. task'[t].status = "cancelled" /\ \A u \in Tasks : u # t => task'[u] = task[u]
    BY <1>3, <2>1, FinalizedType DEF RowTypes
  <2>3. \A e \in Executions : exec[e].task = t => exec[e].state # "dispatched"
    BY <1>4 DEF Active, Of, ActiveStates
  <2>4. \A e \in Executions : exec[e].task # t => alloc'[e] = alloc[e]
    BY <2>1 DEF Of
  <2>5. CancelFinal
    BY <2>2 DEF CancelFinal
  <2>6. CancelCoherent'
    BY <1>2, <1>3, <2>2, <2>3, <2>4 DEF CancelCoherent, HasRequirements
  <2> QED
    BY <2>5, <2>6
<1>5. CASE Active(t) # {}
  <2>1. /\ task' = [task EXCEPT ![t] = [@ EXCEPT !.status = "cancel_requested"]]
        /\ \A e \in Executions :
             alloc'[e] = alloc[e] \/ alloc'[e] = [alloc[e] EXCEPT !.state = "cancel_requested"]
    BY <1>5 DEF CancelTask
  <2>2. /\ task'[t].status = "cancel_requested" /\ task'[t].stamped = task[t].stamped
        /\ \A u \in Tasks : u # t => task'[u] = task[u]
    BY <1>3, <2>1 DEF RowTypes, TaskRow
  <2>3. \A e \in Executions : alloc'[e].state \in {alloc[e].state, "cancel_requested"}
    BY <2>1 DEF RowTypes, AllocRow
  <2>4. "cancel_requested" \in ActiveStates
    BY DEF ActiveStates, RequestedStates
  <2>5. CancelFinal
    BY <1>3, <2>2 DEF CancelFinal
  <2>6. CancelCoherent'
    BY <1>2, <1>3, <2>2, <2>3, <2>4 DEF CancelCoherent, HasRequirements
  <2> QED
    BY <2>5, <2>6
<1> QED
  BY <1>4, <1>5

\* A tick takes pending tasks only, and gives its executions live allocations.
LEMMA TickCancel ==
  ASSUME ConstantsAssumption, RowTypes, RowsCoherent, CancelCoherent,
         NEW t \in Tasks, Tick(t)
  PROVE  CancelCoherent' /\ CancelFinal
<1> DEFINE new == (issued + 1)..(issued + Remaining(t))
<1>1. RowTypes' /\ RowsCoherent' /\ Evolves
  BY TickBasic
<1>2. PICK place \in [new -> Candidates(t)] :
        /\ exec' = [e \in Executions |->
                      IF e \in new
                        THEN [task |-> t, device |-> place[e],
                              state |-> "dispatched", ret |-> "none"]
                        ELSE exec[e]]
        /\ alloc' = [e \in Executions |->
                       IF e \in new THEN [state |-> "dispatched", done |-> 0]
                                    ELSE alloc[e]]
        /\ task' = [task EXCEPT ![t] = [@ EXCEPT !.status = "assigned",
                                                 !.device = place[issued + 1],
                                                 !.intent = None]]
  BY DEF Tick
<1>3. task[t] \in TaskRow /\ task[t].status = "pending" /\ ~task[t].stamped
  BY DEF Tick, Plannable, RowTypes
<1> HIDE DEF new
<1>4. /\ task'[t].status = "assigned" /\ task'[t].stamped = task[t].stamped
      /\ \A u \in Tasks : u # t => task'[u] = task[u]
  BY <1>2, <1>3 DEF RowTypes, TaskRow
<1>5. \A e \in Executions :
        \/ exec'[e].task = t /\ alloc'[e].state = "dispatched"
        \/ exec'[e] = exec[e] /\ alloc'[e] = alloc[e]
  BY <1>2
<1>6. \A e \in Executions :
        e <= issued' /\ exec'[e] = exec[e] => e <= issued
  BY <1>1 DEF RowsCoherent, NoExec
<1>7. \A e \in Executions : e <= issued' => exec'[e].task \in Tasks
  BY <1>1 DEF RowsCoherent
<1>8. "dispatched" \in ActiveStates
  BY DEF ActiveStates
<1>9. CancelFinal
  BY <1>3, <1>4 DEF CancelFinal
<1>10. CancelCoherent'
  BY <1>3, <1>4, <1>5, <1>6, <1>7, <1>8 DEF CancelCoherent, HasRequirements
<1> QED
  BY <1>9, <1>10

(***************************************************************************)
(* The theorem: unless a failed ACK of mission_start may be caught between *)
(* its reads and its writes, no interleaving of the other handlers brings  *)
(* a cancelled split task back.                                            *)
(***************************************************************************)
NoLateRejection == CancelCoherent /\ tx.op # "reject"

LEMMA CancelStep ==
  ASSUME ConstantsAssumption, "reject" \notin Deferred,
         Basic, NoLateRejection, [Next]_vars
  PROVE  NoLateRejection' /\ CancelFinal
<1>1. ASSUME NEW r \in Transactions, Loaded(r), Rejecting(r), Handle(r)
      PROVE  NoLateRejection' /\ CancelFinal
  <2>1. CASE Write(r) /\ tx' = tx
    BY <1>1, <2>1, WriteCancel DEF Basic, NoLateRejection
  <2>2. CASE r.op \in Deferred /\ tx' = r /\ UNCHANGED rows
    <3>1. CancelCoherent'
      BY <2>2 DEF NoLateRejection, CancelCoherent, rows, HasRequirements
    <3>2. CancelFinal
      BY <2>2 DEF CancelFinal, rows
    <3> QED
      BY <2>2, <3>1, <3>2 DEF NoLateRejection
  <2> QED
    BY <1>1, <2>1, <2>2 DEF Handle
<1>2. ASSUME NEW t \in Tasks, CancelTask(t)
      PROVE  NoLateRejection' /\ CancelFinal
  BY <1>2, CancelTaskCancel DEF Basic, NoLateRejection, CancelTask
<1>3. ASSUME NEW t \in Tasks, Tick(t)
      PROVE  NoLateRejection' /\ CancelFinal
  BY <1>3, TickCancel DEF Basic, NoLateRejection, Tick
<1>4. CASE Commit
  <2>1. Write(tx) /\ tx' = NoTransaction /\ Rejecting(tx)
    BY <1>4 DEF Commit, NoLateRejection, Rejecting
  <2>2. NoTransaction.op # "reject"
    BY DEF NoTransaction
  <2> QED
    BY <2>1, <2>2, WriteCancel DEF Basic, NoLateRejection
<1>5. CASE IdleStep
  <2>1. CancelCoherent'
    BY <1>5 DEF IdleStep, NoLateRejection, CancelCoherent, HasRequirements
  <2>2. tx'.op # "reject"
    BY <1>5 DEF IdleStep, NoLateRejection, NoTransaction
  <2> QED
    BY <1>5, <2>1, <2>2 DEF IdleStep, NoLateRejection, CancelFinal
<1> QED
  BY <1>1, <1>2, <1>3, <1>4, <1>5, NextShape DEF HandlerStep

THEOREM SplitCancellation ==
  ASSUME "reject" \notin Deferred
  PROVE  Spec => SplitCancellationIsFinal
<1>1. Init => NoLateRejection
  BY DEF Init, NoLateRejection, CancelCoherent, NoExec, NewTask, NoTransaction
<1>2. ConstantsAssumption /\ Basic /\ NoLateRejection /\ [Next]_vars => NoLateRejection'
  BY CancelStep
<1>3. ConstantsAssumption /\ Basic /\ NoLateRejection /\ [Next]_vars
        => [\A t \in Tasks : HasRequirements(t) => CancelledTaskIsFinal(t)]_vars
  BY CancelStep DEF CancelFinal, CancelledTaskIsFinal
<1> QED
  BY <1>1, <1>2, <1>3, BasicInvariance, ConstantsAssumption, PTL
     DEF Spec, SplitCancellationIsFinal

-----------------------------------------------------------------------------
(***************************************************************************)
(* A closed split task has stopped, when every handler runs alone.         *)
(*                                                                         *)
(* An active execution of a split task has a live allocation, so a task    *)
(* whose allocations have all ended has no active execution either.  The   *)
(* converse fails: a rejected start leaves a live allocation behind.       *)
(***************************************************************************)
StopCoherent ==
  /\ \A e \in Executions :
       (/\ e <= issued
        /\ HasRequirements(exec[e].task)
        /\ exec[e].state \in ActiveStates) => alloc[e].state \in ActiveStates
  /\ \A e \in Executions :
       (/\ e <= issued
        /\ HasRequirements(exec[e].task)
        /\ task[exec[e].task].status \in {"cancelled", "completed"})
          => alloc[e].state \notin ActiveStates

\* A step that leaves the split tasks alone, makes no execution active, and
\* keeps live the allocations of the executions that stay active.
LEMMA QuietForStop ==
  ASSUME RowTypes, RowsCoherent, StopCoherent, Evolves,
         \A t \in Tasks : HasRequirements(t) => task'[t].status = task[t].status,
         \A e \in Executions :
           e <= issued /\ exec'[e].state \in ActiveStates => exec[e].state \in ActiveStates,
         \A e \in Executions :
           e <= issued => \/ alloc'[e].state = alloc[e].state
                          \/ exec[e].state \in ActiveStates /\ alloc'[e].state \in ActiveStates,
         \A e \in Executions :
           e <= issued' => e <= issued \/ ~HasRequirements(exec'[e].task)
  PROVE  StopCoherent'
<1>1. ASSUME NEW e \in Executions, e <= issued', HasRequirements(exec'[e].task)
      PROVE  e <= issued /\ exec'[e].task = exec[e].task /\ exec[e].task \in Tasks
  BY <1>1 DEF Evolves, RowsCoherent
<1> QED
  BY <1>1 DEF StopCoherent, HasRequirements

\* A control request of active executions.
LEMMA RequestStop ==
  ASSUME RowTypes, RowsCoherent, StopCoherent, Evolves,
         NEW r \in Transactions, Loaded(r), Fresh(r), r.op # "telemetry",
         NEW request \in RequestedStates, RequestExecutions(r, request),
         RequestAllocations(r, request) \/ alloc' = alloc,
         \A t \in Tasks : HasRequirements(t) => task'[t].status = task[t].status,
         issued' = issued
  PROVE  StopCoherent'
<1>1. ASSUME NEW e \in Executions, e <= issued, exec'[e].state \in ActiveStates
      PROVE  exec[e].state \in ActiveStates
  BY <1>1 DEF Fresh, RequestExecutions
<1>2. ASSUME NEW e \in Executions, e <= issued
      PROVE  \/ alloc'[e].state = alloc[e].state
             \/ exec[e].state \in ActiveStates /\ alloc'[e].state \in ActiveStates
  <2>1. CASE e \in r.touched /\ RequestAllocations(r, request)
    <3>1. alloc'[e].state \in {alloc[e].state} \union RequestedStates
      BY <2>1, RequestAllocationsState
    <3> QED
      BY <2>1, <3>1 DEF Fresh, ActiveStates
  <2>2. CASE e \notin r.touched \/ alloc' = alloc
    BY <2>2 DEF RequestAllocations
  <2> QED
    BY <2>1, <2>2
<1> QED
  BY <1>1, <1>2, QuietForStop

\* A rejected start: the task is pending, the execution has failed.
LEMMA RejectStop ==
  ASSUME RowTypes, RowsCoherent, StopCoherent, Evolves,
         NEW r \in Transactions, Loaded(r), Fresh(r), r.op = "reject", WriteReject(r)
  PROVE  StopCoherent'
<1> DEFINE new == [r.row EXCEPT !.status = "pending", !.device = None]
<1>1. r.row \in TaskRow
  BY DEF Transactions
<1>2. new \in TaskRow /\ new.status = "pending"
  BY <1>1 DEF TaskRow, TaskStates
<1>3. task' = [task EXCEPT ![r.task] = MergedTask(@, r.row, new)]
      /\ alloc' = alloc /\ issued' = issued
  BY DEF WriteReject
<1> HIDE DEF new
<1>4. ASSUME NEW t \in Tasks
      PROVE  task'[t].status \in {task[t].status, "pending"}
  BY <1>1, <1>2, <1>3, MergedTaskType DEF RowTypes, Written
<1>5. ASSUME NEW e \in Executions, exec'[e].state \in ActiveStates
      PROVE  exec[e].state \in ActiveStates
  BY <1>5 DEF Fresh, WriteReject
<1>6. ASSUME NEW e \in Executions, e <= issued
      PROVE  exec'[e].task = exec[e].task /\ exec[e].task \in Tasks
  BY <1>6 DEF Evolves, RowsCoherent
<1> QED
  BY <1>3, <1>4, <1>5, <1>6 DEF StopCoherent, HasRequirements

\* A report: the task is closed only when the aggregated allocations have all
\* ended, and the reported execution has the state of its allocation.
LEMMA TelemetryStop ==
  ASSUME RowTypes, RowsCoherent, CancelCoherent, StopCoherent, Evolves,
         NEW r \in Transactions, Loaded(r), Fresh(r), r.op = "telemetry",
         NEW reported \in ReportedStates, NEW done \in {0, 1},
         NEW as \in {"ready", "busy"}, WriteTelemetry(r, reported, done, as)
  PROVE  StopCoherent'
<1>1. PICK e \in r.touched :
        LET x     == r.exec[e]
            a     == r.alloc[e]
            state == Resolved(x, reported)
            seen  == [a EXCEPT !.state = state, !.done = done]
        IN /\ Accepts(x, reported)
           /\ exec' = [exec EXCEPT ![e] = MergedExec(@, x, [x EXCEPT !.state = state])]
           /\ IF a.state # "none"
                THEN /\ alloc' = [alloc EXCEPT ![e] = MergedAlloc(@, a, seen)]
                     /\ task' = [task EXCEPT ![r.task] =
                                   Aggregated(r.task, @, [alloc EXCEPT ![e] = seen])]
                ELSE /\ task' = [task EXCEPT ![r.task] =
                                   Projected(@, state, Active(r.task) \ {e})]
                     /\ UNCHANGED alloc
           /\ UNCHANGED issued
  BY DEF WriteTelemetry
<1> DEFINE x     == exec[e]
           a     == alloc[e]
           state == Resolved(x, reported)
           seen  == [a EXCEPT !.state = state, !.done = done]
           moved == [x EXCEPT !.state = state]
           av    == [alloc EXCEPT ![e] = seen]
           t     == r.task
<1>2. /\ e \in Executions /\ e <= issued /\ x \in ExecRow /\ a \in AllocRow
      /\ x.state # "absent" /\ r.exec[e] = x /\ r.alloc[e] = a
      /\ (a.state # "none") <=> HasRequirements(t)
      /\ t = x.task /\ t \in Tasks /\ task[t] \in TaskRow
  BY DEF Transactions, Loaded, Fresh, RowTypes, RowsCoherent
<1>3. moved \in ExecRow /\ moved.state = state /\ state \in ExecutionStates
  BY <1>2, ResolvedType DEF ExecRow
<1>4. seen \in AllocRow /\ seen.state = state
  BY <1>2, <1>3 DEF AllocRow
<1>5. x.state \notin ActiveStates => state \notin ActiveStates
  <2>1. state \in Allowed(x.state)
    BY <1>1, <1>2 DEF Accepts
  <2>2. ASSUME x.state \notin ActiveStates
        PROVE  x.state \in TerminalStates
    BY <1>2, <2>2 DEF ExecRow, ExecutionStates
  <2>3. ASSUME x.state \in TerminalStates
        PROVE  Allowed(x.state) = {x.state}
    BY <2>3 DEF Allowed, TerminalStates
  <2> QED
    BY <2>1, <2>2, <2>3
<1> HIDE DEF state, seen, moved
<1>6. exec' = [exec EXCEPT ![e] = MergedExec(@, x, moved)] /\ issued' = issued
  BY <1>1, <1>2 DEF state, moved
<1>7. /\ a.state # "none"
           => /\ alloc' = [alloc EXCEPT ![e] = MergedAlloc(@, a, seen)]
              /\ task' = [task EXCEPT ![t] = Aggregated(t, @, av)]
      /\ a.state = "none"
           => /\ alloc' = alloc
              /\ \E new : task' = [task EXCEPT ![t] = new]
  BY <1>1, <1>2 DEF state, seen
<1>8. exec'[e].state = state
  <2>1. exec'[e] = MergedExec(x, x, moved)
    BY <1>2, <1>6 DEF RowTypes
  <2> QED
    BY <1>2, <1>3, <2>1, MergedExecType DEF Written
<1>9. ASSUME NEW f \in Executions, f <= issued, f # e
      PROVE  exec'[f] = exec[f] /\ alloc'[f] = alloc[f] /\ exec[f].task \in Tasks
  BY <1>6, <1>7, <1>9 DEF RowTypes, RowsCoherent
<1>10. exec'[e].task = t
  BY <1>2 DEF Evolves
<1>11. CASE a.state = "none"
  <2>1. \A u \in Tasks : HasRequirements(u) => task'[u] = task[u]
    BY <1>2, <1>7, <1>11 DEF RowTypes
  <2>2. ASSUME NEW f \in Executions, f <= issued, exec'[f].state \in ActiveStates
        PROVE  exec[f].state \in ActiveStates
    BY <1>5, <1>8, <1>9, <2>2
  <2> QED
    BY <1>6, <1>7, <1>11, <2>1, <2>2, QuietForStop
<1>12. CASE a.state # "none"
  <2>1. HasRequirements(t)
    BY <1>2, <1>12
  <2>2. alloc'[e].state = state
    <3>1. alloc'[e] = MergedAlloc(a, a, seen)
      BY <1>2, <1>7, <1>12 DEF RowTypes
    <3> QED
      BY <1>2, <1>4, <3>1, MergedAllocType DEF Written
  <2>3. /\ task'[t] = Aggregated(t, task[t], av)
        /\ \A u \in Tasks : u # t => task'[u] = task[u]
    BY <1>2, <1>7, <1>12 DEF RowTypes
  <2>4. \A f \in Executions : f <= issued => av[f].state = alloc'[f].state
    BY <1>2, <1>4, <1>9, <2>2 DEF RowTypes
  <2>5. task'[t].status \in {"cancelled", "completed"} =>
          task[t].status = "cancelled" \/ Live(t, av) = {}
    <3>1. task[t].stamped => task[t].status = "cancelled"
      BY <1>2, <2>1 DEF CancelCoherent
    <3> QED
      BY <1>2, <2>3, <3>1 DEF Aggregated, Finalized, TaskRow
  <2>6. ASSUME NEW f \in Executions, f <= issued, exec[f].task = t,
               task'[t].status \in {"cancelled", "completed"}
        PROVE  alloc'[f].state \notin ActiveStates
    <3>1. CASE Live(t, av) = {}
      <4>1. f \in Of(t)
        BY <2>6 DEF Of
      <4> QED
        BY <2>4, <2>6, <3>1, <4>1 DEF Live
    <3>2. CASE task[t].status = "cancelled"
      <4>1. alloc[f].state \notin ActiveStates /\ a.state \notin ActiveStates
        BY <1>2, <2>1, <2>6, <3>2 DEF StopCoherent
      <4>2. x.state \notin ActiveStates
        BY <1>2, <2>1, <4>1 DEF StopCoherent
      <4> QED
        BY <1>5, <1>9, <2>2, <2>6, <4>1, <4>2
    <3> QED
      BY <2>5, <2>6, <3>1, <3>2
  <2>7. ASSUME NEW f \in Executions, f <= issued, HasRequirements(exec[f].task),
               exec'[f].state \in ActiveStates
        PROVE  alloc'[f].state \in ActiveStates
    BY <1>8, <1>9, <2>2, <2>7 DEF StopCoherent
  <2>8. ASSUME NEW f \in Executions, f <= issued, HasRequirements(exec[f].task),
               task'[exec[f].task].status \in {"cancelled", "completed"}
        PROVE  alloc'[f].state \notin ActiveStates
    <3>1. CASE exec[f].task = t
      BY <2>6, <2>8, <3>1
    <3>2. CASE exec[f].task # t
      BY <1>2, <1>9, <2>3, <2>8, <3>2 DEF StopCoherent
    <3> QED
      BY <3>1, <3>2
  <2>9. \A f \in Executions : f <= issued => exec'[f].task = exec[f].task
    BY <1>2, <1>9, <1>10
  <2> QED
    BY <1>6, <2>7, <2>8, <2>9 DEF StopCoherent, HasRequirements
<1> QED
  BY <1>11, <1>12

\* Whatever a handler that runs alone writes.
LEMMA WriteStop ==
  ASSUME ConstantsAssumption, RowTypes, RowsCoherent, CancelCoherent, StopCoherent,
         NEW r \in Transactions, Loaded(r), Fresh(r), Write(r)
  PROVE  StopCoherent'
<1>1. RowTypes' /\ RowsCoherent' /\ Evolves
  BY WriteBasic
<1>2. CASE r.op = "pause" /\ WritePause(r)
  <2>1. "pause_requested" \in RequestedStates
    BY DEF RequestedStates
  <2> QED
    BY <1>1, <1>2, <2>1, RewriteParamsBasic, RequestStop DEF WritePause
<1>3. CASE r.op = "resume" /\ WriteResume(r)
  <2>1. "resume_requested" \in RequestedStates
    BY DEF RequestedStates
  <2> QED
    BY <1>1, <1>3, <2>1, RewriteParamsBasic, RequestStop DEF WriteResume
<1>4. CASE r.op = "hold" /\ WriteHold(r)
  <2>1. "pause_requested" \in RequestedStates
    BY DEF RequestedStates
  <2> QED
    BY <1>1, <1>4, <2>1, RequestStop DEF WriteHold
<1>5. CASE r.op = "reject" /\ WriteReject(r)
  BY <1>1, <1>5, RejectStop
<1>6. ASSUME r.op \in {"reassign", "confirm"}, DispatchDirect(r)
      PROVE  StopCoherent'
  <2>1. ~HasRequirements(r.task) /\ r.task \in Tasks
    BY <1>6 DEF Loaded
  <2>2. \A t \in Tasks : HasRequirements(t) => task'[t] = task[t]
    BY <1>6, <2>1 DEF DispatchDirect, RowTypes
  <2>3. issued \in Nat /\ issued' = issued + 1 /\ alloc' = alloc
    BY <1>6 DEF DispatchDirect, RowTypes
  <2>4. \A e \in Executions : e <= issued => exec'[e] = exec[e]
    BY <1>6, <2>3 DEF DispatchDirect, RowTypes
  <2>5. ASSUME NEW e \in Executions, e <= issued', ~(e <= issued)
        PROVE  ~HasRequirements(exec'[e].task)
    <3>1. e = issued + 1
      BY <2>3, <2>5 DEF Executions
    <3>2. exec'[e].task = r.task
      BY <1>6, <3>1 DEF DispatchDirect, RowTypes
    <3> QED
      BY <2>1, <3>2
  <2> QED
    BY <1>1, <2>2, <2>3, <2>4, <2>5, QuietForStop
<1>7. CASE r.op = "reassign" /\ WriteReassign(r) /\ ~DispatchDirect(r)
  <2>1. ~HasRequirements(r.task)
    BY <1>7 DEF Loaded
  <2>2. PICK new : /\ RequestExecutions(r, "cancel_requested")
                   /\ task' = [task EXCEPT ![r.task] = new]
                   /\ alloc' = alloc /\ issued' = issued
    BY <1>7 DEF WriteReassign
  <2>3. \A t \in Tasks : HasRequirements(t) => task'[t] = task[t]
    BY <2>1, <2>2 DEF RowTypes
  <2>4. "cancel_requested" \in RequestedStates
    BY DEF RequestedStates
  <2> QED
    BY <1>1, <1>7, <2>2, <2>3, <2>4, RequestStop
<1>8. CASE /\ r.op = "telemetry"
           /\ \E reported \in ReportedStates, done \in {0, 1}, as \in {"ready", "busy"} :
                WriteTelemetry(r, reported, done, as)
  BY <1>1, <1>8, TelemetryStop
<1>9. CASE r.op = "confirm" /\ WriteConfirm(r) /\ ~DispatchDirect(r)
  <2>1. ~HasRequirements(r.task)
    BY <1>9 DEF Loaded
  <2>2. PICK new : /\ task' = [task EXCEPT ![r.task] = new]
                   /\ UNCHANGED <<exec, alloc, issued>>
    BY <1>9 DEF WriteConfirm
  <2>3. \A t \in Tasks : HasRequirements(t) => task'[t] = task[t]
    BY <2>1, <2>2 DEF RowTypes
  <2> QED
    BY <1>1, <2>2, <2>3, QuietForStop
<1> QED
  BY <1>2, <1>3, <1>4, <1>5, <1>6, <1>7, <1>8, <1>9 DEF Write

\* A cancel request closes a task only when nothing of it is active, and then
\* ends what is still reserved.
LEMMA CancelTaskStop ==
  ASSUME RowTypes, RowsCoherent, StopCoherent, NEW t \in Tasks, CancelTask(t)
  PROVE  StopCoherent'
<1>1. ASSUME NEW e \in Executions, e <= issued
      PROVE  exec'[e].task = exec[e].task /\ exec[e].task \in Tasks
  BY <1>1, CancelBasic DEF Evolves, RowsCoherent
<1>2. task[t] \in TaskRow /\ issued' = issued
  BY DEF CancelTask, RowTypes
<1>3. CASE Active(t) = {}
  <2>1. /\ exec' = exec
        /\ \A e \in Executions :
             /\ exec[e].task # t => alloc'[e] = alloc[e]
             /\ exec[e].task = t => exec[e].state \notin ActiveStates
    BY <1>3 DEF CancelTask, Live, Active, Of
  <2>2. ASSUME NEW e \in Executions, exec[e].task = t
        PROVE  alloc'[e].state \notin ActiveStates
    <3>1. CASE e \in Live(t, alloc)
      <4>1. alloc'[e] = [alloc[e] EXCEPT !.state = "cancelled"]
        BY <1>3, <3>1 DEF CancelTask
      <4> QED
        BY <4>1 DEF RowTypes, AllocRow, ActiveStates, RequestedStates
    <3>2. CASE e \notin Live(t, alloc)
      BY <1>3, <2>2, <3>2 DEF CancelTask, Live, Of
    <3> QED
      BY <3>1, <3>2
  <2>3. \A u \in Tasks : u # t => task'[u] = task[u]
    BY <1>3 DEF CancelTask, RowTypes
  <2> QED
    BY <1>1, <1>2, <2>1, <2>2, <2>3 DEF StopCoherent, HasRequirements
<1>4. CASE Active(t) # {}
  <2>1. /\ task'[t].status = "cancel_requested"
        /\ \A u \in Tasks : u # t => task'[u] = task[u]
    BY <1>2, <1>4 DEF CancelTask, RowTypes, TaskRow
  <2>2. ASSUME NEW e \in Executions, e \in Active(t)
        PROVE  /\ exec[e].task = t
               /\ alloc[e].state # "none" => alloc'[e].state \in ActiveStates
    BY <1>4, <2>2 DEF CancelTask, RowTypes, AllocRow, ActiveStates, RequestedStates, Active, Of
  <2>3. ASSUME NEW e \in Executions, e \notin Active(t)
        PROVE  exec'[e] = exec[e] /\ alloc'[e] = alloc[e]
    BY <1>4, <2>3 DEF CancelTask
  <2>4. ASSUME NEW e \in Executions, e <= issued, HasRequirements(exec[e].task),
               exec'[e].state \in ActiveStates
        PROVE  alloc'[e].state \in ActiveStates
    BY <2>2, <2>3, <2>4 DEF StopCoherent, RowsCoherent
  <2>5. ASSUME NEW e \in Executions, e <= issued, HasRequirements(exec[e].task),
               task'[exec[e].task].status \in {"cancelled", "completed"}
        PROVE  alloc'[e].state \notin ActiveStates
    BY <1>1, <2>1, <2>2, <2>3, <2>5 DEF StopCoherent
  <2> QED
    BY <1>1, <1>2, <2>4, <2>5 DEF StopCoherent, HasRequirements
<1> QED
  BY <1>3, <1>4

\* A tick takes pending tasks only, and gives its executions live allocations.
LEMMA TickStop ==
  ASSUME ConstantsAssumption, RowTypes, RowsCoherent, StopCoherent,
         NEW t \in Tasks, Tick(t)
  PROVE  StopCoherent'
<1> DEFINE new == (issued + 1)..(issued + Remaining(t))
<1>1. RowTypes' /\ RowsCoherent' /\ Evolves
  BY TickBasic
<1>2. PICK place \in [new -> Candidates(t)] :
        /\ exec' = [e \in Executions |->
                      IF e \in new
                        THEN [task |-> t, device |-> place[e],
                              state |-> "dispatched", ret |-> "none"]
                        ELSE exec[e]]
        /\ alloc' = [e \in Executions |->
                       IF e \in new THEN [state |-> "dispatched", done |-> 0]
                                    ELSE alloc[e]]
        /\ task' = [task EXCEPT ![t] = [@ EXCEPT !.status = "assigned",
                                                 !.device = place[issued + 1],
                                                 !.intent = None]]
  BY DEF Tick
<1> HIDE DEF new
<1>3. /\ task'[t].status = "assigned"
      /\ \A u \in Tasks : u # t => task'[u] = task[u]
  BY <1>2 DEF RowTypes, TaskRow
<1>4. \A e \in Executions :
        \/ exec'[e].task = t /\ alloc'[e].state = "dispatched"
        \/ exec'[e] = exec[e] /\ alloc'[e] = alloc[e]
  BY <1>2
<1>5. \A e \in Executions :
        e <= issued' => exec'[e].task \in Tasks /\ (exec'[e] = exec[e] => e <= issued)
  BY <1>1 DEF RowsCoherent, NoExec
<1>6. "dispatched" \in ActiveStates
  BY DEF ActiveStates
<1> QED
  BY <1>3, <1>4, <1>5, <1>6 DEF StopCoherent, HasRequirements

\* With no deferred handler there is never a pending transaction.
Undisturbed == StopCoherent /\ tx = NoTransaction

LEMMA StopStep ==
  ASSUME ConstantsAssumption, Deferred = {},
         Basic, NoLateRejection, Undisturbed, [Next]_vars
  PROVE  Undisturbed'
<1>1. ASSUME NEW r \in Transactions, Loaded(r), Fresh(r), Handle(r)
      PROVE  Undisturbed'
  BY <1>1, WriteStop DEF Basic, NoLateRejection, Undisturbed, Handle
<1>2. ASSUME NEW t \in Tasks, CancelTask(t)
      PROVE  Undisturbed'
  BY <1>2, CancelTaskStop DEF Basic, Undisturbed, CancelTask
<1>3. ASSUME NEW t \in Tasks, Tick(t)
      PROVE  Undisturbed'
  BY <1>3, TickStop DEF Basic, Undisturbed, Tick
<1>4. CASE Commit
  BY <1>4 DEF Commit, Undisturbed, NoTransaction, Write, WritePause, WriteResume,
              WriteHold, WriteReject, WriteReassign
<1>5. CASE IdleStep
  BY <1>5 DEF IdleStep, Undisturbed, StopCoherent, HasRequirements
<1> QED
  BY <1>1, <1>2, <1>3, <1>4, <1>5, NextShape DEF HandlerStep

\* The invariant of the rows when every handler runs alone.
LEMMA AloneInvariance ==
  ASSUME Deferred = {}
  PROVE  Spec => [](Basic /\ NoLateRejection /\ Undisturbed)
<1>1. Init => NoLateRejection /\ Undisturbed
  <2> SUFFICES ASSUME Init PROVE NoLateRejection /\ Undisturbed
    OBVIOUS
  <2>1. \A e \in Executions : ~(e <= issued)
    BY ConstantsAssumption DEF Init, Executions, ConstantsAssumption
  <2>2. \A t \in Tasks : task[t].stamped = FALSE
    BY DEF Init, NewTask
  <2>3. tx = NoTransaction /\ tx.op = "none"
    BY DEF Init, NoTransaction
  <2> QED
    BY <2>1, <2>2, <2>3 DEF NoLateRejection, CancelCoherent, Undisturbed, StopCoherent
<1>2. ConstantsAssumption /\ Basic /\ NoLateRejection /\ Undisturbed /\ [Next]_vars
        => NoLateRejection' /\ Undisturbed'
  BY CancelStep, StopStep
<1> QED
  BY <1>1, <1>2, BasicInvariance, ConstantsAssumption, PTL DEF Spec

(***************************************************************************)
(* The theorem: when every handler runs alone, a split task that is        *)
(* cancelled or completed occupies no robot and reserves no work.          *)
(***************************************************************************)
THEOREM ClosedTasksStopped ==
  ASSUME Deferred = {}
  PROVE  Spec => []ClosedTasksAreStopped
<1>1. Basic /\ Undisturbed => ClosedTasksAreStopped
  <2> SUFFICES ASSUME Basic, Undisturbed, NEW t \in Tasks, HasRequirements(t),
                      task[t].status \in {"cancelled", "completed"},
                      NEW e \in Of(t)
               PROVE  exec[e].state \notin ActiveStates /\ alloc[e].state \notin ActiveStates
    BY DEF ClosedTasksAreStopped, Active, Live
  <2>1. e \in Executions /\ exec[e].task = t
    BY DEF Of
  <2>2. CASE e <= issued
    BY <2>1, <2>2 DEF Undisturbed, StopCoherent
  <2>3. CASE ~(e <= issued)
    BY <2>1, <2>3 DEF Basic, RowsCoherent, NoExec, NoAlloc, ActiveStates, RequestedStates
  <2> QED
    BY <2>2, <2>3
<1> QED
  BY <1>1, AloneInvariance, PTL

=============================================================================
