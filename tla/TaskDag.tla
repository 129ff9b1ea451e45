------------------------------- MODULE TaskDag -------------------------------
(***************************************************************************)
(* MissionControl with tasks that come and go and depend on each other.    *)
(* A task is created with the tasks it depends on, and may be deleted      *)
(* until it is first dispatched.  Every pass of the scheduler rebuilds its *)
(* graph of tasks from the rows, lists the nodes that are ready, and then  *)
(* goes through that list task by task, while requests and reports go on.  *)
(***************************************************************************)
EXTENDS MissionControl

CONSTANT Dependencies   \* the tasks each task is created to wait for

ASSUME DependenciesAssumption == Dependencies \in [Tasks -> SUBSET Tasks]

VARIABLES
  life,    \* of each task: "new", "creating", "stored" or "gone"
  ready    \* nodes that the pass has listed as ready and not yet taken up

dagVars == <<task, exec, alloc, device, issued, tx, life, ready>>

Stored   == {t \in Tasks : life[t] = "stored"}
Creating == {t \in Tasks : life[t] = "creating"}

(***************************************************************************)
(* Creation and deletion.                                                  *)
(***************************************************************************)

\* create_task reads the rows of the dependencies and locks none of them.
BeginCreate(t) ==
  /\ life[t] = "new"
  /\ Dependencies[t] \subseteq Stored
  /\ life' = [life EXCEPT ![t] = "creating"]
  /\ UNCHANGED <<vars, ready>>

\* It commits, or is rolled back.
EndCreate(t) ==
  /\ life[t] = "creating"
  /\ \E end \in {"stored", "gone"} : life' = [life EXCEPT ![t] = end]
  /\ UNCHANGED <<vars, ready>>

\* delete_task holds the row of the task; a task that is still being created
\* does not show as a dependent.
Delete(t) ==
  /\ t \in Stored
  /\ task[t].status = "pending"
  /\ Of(t) = {}
  /\ \A u \in Stored : t \notin Dependencies[u]
  /\ life' = [life EXCEPT ![t] = "gone"]
  /\ UNCHANGED <<vars, ready>>

(***************************************************************************)
(* A pass of the scheduler.                                                *)
(***************************************************************************)
SchedulerTaskStates ==
  {"pending", "assigned", "running", "paused", "reassign_pending", "failed"}

\* The rows that _sync_task_dag loads.
InScope(t) ==
  \/ task[t].status = "completed"
  \/ task[t].status \in SchedulerTaskStates /\ ~task[t].stamped

\* Variant: a dependency that is not in the graph does not count.
NoneUnfinished(t, nodes) ==
  \A d \in Dependencies[t] : d \in nodes => task[d].status = "completed"

\* _all_deps_completed
AllCompleted(t, nodes) ==
  \A d \in Dependencies[t] : d \in nodes /\ task[d].status = "completed"

\* _sync_task_dag and get_ready_tasks; create_task adds its node before it
\* commits.
BeginPass ==
  /\ \E added \in SUBSET Creating :
       LET nodes == {t \in Stored : InScope(t)} \union added
       IN ready' = {t \in nodes : task[t].status = "pending" /\ AllCompleted(t, nodes)}
  /\ UNCHANGED <<vars, life>>

\* _tick takes up the next node and dispatches its task.
TakeUp(t) ==
  /\ t \in ready \intersect Stored
  /\ Tick(t)
  /\ ready' = ready \ {t}
  /\ UNCHANGED life

\* Or it finds no such pending task, its planned start not reached, or too few
\* robots.
PassOver(t) ==
  /\ t \in ready
  /\ ready' = ready \ {t}
  /\ UNCHANGED <<vars, life>>

DagInit ==
  /\ Init
  /\ life = [t \in Tasks |-> "new"]
  /\ ready = {}

DagNext ==
  \/ \E t \in Tasks : \/ BeginCreate(t)
                      \/ EndCreate(t)
                      \/ Delete(t)
                      \/ TakeUp(t)
                      \/ PassOver(t)
  \/ BeginPass
  \/ /\ \/ \E t \in Stored : TaskRequest(t)
        \/ Others
     /\ UNCHANGED <<life, ready>>

DagSpec == DagInit /\ [][DagNext]_dagVars

-----------------------------------------------------------------------------
(***************************************************************************)
(* Properties.                                                             *)
(***************************************************************************)

\* No robot is given work of a split task before the tasks it depends on are
\* completed, however old the list of the pass is, and whatever was cancelled,
\* deleted or reported since (docs, decision 138: only a pending task whose
\* dependencies are met may be planned and dispatched).
DependenciesFirst ==
  \A t \in Tasks :
    HasRequirements(t) /\ Of(t) # {} =>
      \A d \in Dependencies[t] :
        HasRequirements(d) => life[d] = "stored" /\ task[d].status = "completed"

=============================================================================
