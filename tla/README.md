# Verification of the robot fleet platform

TLA+ models of a platform that controls a fleet of construction robots: its
backend (`src/backend/app`) and the parts of its web clients (`src/frontend`)
that keep state of their own. They are checked with TLC on small instances, and
what matters most is proved with TLAPS for all instances. Paths below are relative to `src/`; a source line is written
`file:line`. Every definition that models code is listed with its lines under
`map` in `PROJECT.json`; what is hard to test in this code is listed there under
`hazards`, with the properties that speak of it.

1. [The system](#1-the-system)
2. [Modules](#2-modules)
3. [Runs](#3-runs)
4. [Fairness](#4-fairness)
5. [Proofs](#5-proofs)
6. [What the checks found](#6-what-the-checks-found)
7. [What is not modelled](#7-what-is-not-modelled)
8. [Plan](#8-plan)

## 1. The system

The platform is a FastAPI server over PostgreSQL (SQLAlchemy, asyncio) and Redis.
Robots are connected by *device gateways*, programs outside this repository that
speak HTTP to the server (`docs/DEVICE_GATEWAY_API.md`): they poll commands,
acknowledge them and report telemetry. Operators use two web clients (O&M and
PM). A scheduler task inside the server makes a pass every second or so.

One rule shapes the design: *a command is a request; only telemetry moves a
mission*. The platform marks what it asked for (`pause_requested`,
`cancel_requested`, ...) and waits until the robot says that it happened.

| Component | Source | State | Operations | Interacts with |
|---|---|---|---|---|
| Mission control | `backend/app/api/tasks.py`, `services/fleet_commands.py`, `scheduler/engine.py` | `tasks`, `mission_executions`, `task_resource_allocations` | dispatch, reassign, confirm reassignment, pause, resume, cancel, safety hold, rejected start, mission report | command queue (every request queues a command), planner (what to dispatch), telemetry (what happened) |
| Device command queue | `services/fleet_commands.py`, `api/devices.py` | `device_commands` | queue, poll, acknowledge | mission control, emergency stop; the gateway |
| Emergency stop latch | `services/runtime.py`, `api/estop.py`, `api/devices.py` | `estop_active` in memory, `safety_states` row, a Redis key, stop and release commands | trigger, recover, restore at start, top up on poll | scheduler (reads the latch once per pass), command queue |
| Telemetry intake | `api/devices.py`, `services/device_connectivity.py` | `devices` (status, heartbeat, boot, sequence, planned offline) | register, report, offline report | mission control, alert engine |
| Resource planner | `scheduler/resource_planner.py`, `matching.py`, `market.py`, `scheduling.py` | none (reads rows, writes a plan) | plan a task | mission control |
| Task dependency graph | `scheduler/dag.py`, `engine.py`, `api/tasks.py` | the scheduler's graph, rebuilt from rows in every pass | create and delete tasks, rebuild, list what is ready, dispatch in that order | mission control |
| Alert engine | `services/alert_engine.py`, `api/alerts.py` | `alerts`, rule table | evaluate, acknowledge, resolve | telemetry (input), mission control (holds) |
| Websocket fan-out | `ws/*`, `core/redis.py` | channels of each connection | accept, subscribe, unsubscribe, fan out | every component publishes; browsers only |
| Map, point cloud, device map | `api/map.py`, `api/pointcloud.py`, `api/device_map.py` | map rows, revision, point chunks | edit, replace, synchronise | devices fetch it |
| Authentication, setup | `api/auth.py`, `core/security.py` | users, tokens | log in, first set-up | every route |
| Reporting, cameras, scripts, operations | `api/dashboard.py`, `reports.py`, ... | their own rows | read models, single-row edits | read only |
| PM web client | `frontend/apps/pm`, `packages/api-client` | session, socket, store | log in and out, connect, subscribe, fetch, apply pushes | REST, websocket fan-out |
| O&M web client | `frontend/apps/om` | map editor: mode, grid, drafts, lists | draw, undo, preview, save, delete, refresh | map API; other operators through change events |
| Deployment manager | `manager/*.py`, `deploy/*` | release directories, processes | install, upgrade, roll back | host |

What is hard here, and what makes each part correct:

- **Mission control.** Nine handlers write the same three tables in transactions
  of their own at READ COMMITTED. Some lock the task row, most do not, and the
  ORM writes back the attributes a handler changed relative to what *it* read.
  Correct means: a robot has one active execution; work is neither given out
  twice nor forgotten; a task is closed only when its robots have stopped; a
  confirmed end is final; an operator's request is not erased by a report of the
  state the robot was in before.
- **Command queue.** Delivery is at least once over a lossy network, in order
  of priority, and a command that exists under an idempotency key is not queued
  again. Correct means: the robot gets the start before a control of the same
  mission; a request stays in the queue until the robot has obeyed; what the
  platform believes to have ended has ended.
- **Emergency stop.** Three copies of the latch, one of them set before the
  transaction that stores it; requests that fail half-way, crashes, a Redis that
  forgets. Correct means: what an operator was told stays true until somebody
  asks for the opposite, across restarts; a stop reaches the robot, and a robot
  that heard of it stays held.
- **Telemetry intake.** Repeated, reordered and racing reports. Correct means:
  a report counts once, and an old one does not replace a newer one of its boot.
- **Planner.** Quantities, capacities, greedy choice. Correct means: the plan
  covers exactly what remains, within each device's capacity.
- **PM client.** Sockets that fail, timers, logins and logouts cross; snapshots
  and pushes reach the store by different ways in any order. Correct means: one
  connection that is served its channels, nothing listed twice, and in the end
  the state of the site on the screen.
- **Map editor.** An operator draws on a lattice that previews, other operators
  and late answers change, and goes on drawing while a save is under way. Correct
  means: a draft never mixes lattices, a region is saved as a partition of what
  was selected, nothing is saved twice or over another object.
- **Dependency graph.** Dependencies are checked when a task is created and used
  much later, from a list that ages while tasks come and go. Correct means: no
  task starts before what it depends on is done.
- **Alerts.** Decided on a snapshot, while other requests resolve and acknowledge
  alerts. Correct means: once it is settled whether a rule is violated there is
  an alert exactly if it is, and a hold for every violation of a hold rule.

## 2. Modules

| Module | What it is |
|---|---|
| `ExecutionStates` | the life cycle of one execution: states, transition table, standing requests (`fleet_commands.py:372-406`) |
| `MissionControl` | tasks, executions, allocations and every handler that moves them |
| `MCMissionControl` | instances of `MissionControl` |
| `Cancellation` | what the platform promises of a cancellation (abstract) |
| `MissionControlProofs` | theorems about `MissionControl` |
| `MissionAloneProofs` | theorems about `MissionControl` whose handlers run alone, and about `TaskDag` |
| `TaskDag` | `MissionControl` with tasks that are created, deleted and depend on each other |
| `MCTaskDag` | an instance of `TaskDag` |
| `CommandDelivery` | one device's command queue, its gateway and its robot |
| `MCCommandDelivery` | instances of `CommandDelivery` |
| `CommandDeliveryProofs` | theorems about `CommandDelivery` |
| `StopLatch` | what the platform promises of the emergency stop (abstract) |
| `EmergencyStop` | the latch: requests in progress, memory, row, Redis, crashes |
| `StopDelivery` | `EmergencyStop` with the commands and polls of one device |
| `MCStopDelivery` | instances of `StopDelivery` |
| `EmergencyStopProofs` | theorems about `EmergencyStop` and `StopDelivery` |
| `TelemetryIntake` | reports of one device, expired heartbeats, alerts and their acknowledgement |
| `MCTelemetryIntake` | instances of `TelemetryIntake` |
| `TelemetryIntakeProofs` | theorems about `TelemetryIntake` |
| `LiveView` | a tab of the PM client, its websocket and the gateway that feeds it |
| `MCLiveView` | instances of `LiveView` |
| `LiveViewProofs` | theorems about `LiveView` |
| `VoxelGeometry` | the grid of the map editor and the union of drags, as functions |
| `VoxelGeometryProofs` | a theorem about the union of drags |
| `MapEditor` | the map editor of the O&M client, with the server's map |
| `MCMapEditor` | instances of `MapEditor` |
| `MapEditorProofs` | theorems about `MapEditor` |

`MissionControl` and `CommandDelivery` share `ExecutionStates`. They look at the
same executions from two sides. `MissionControl` has all tasks and devices and
the transactions, and lets a gateway report anything, which covers whatever
the command queue may lead a robot to do. `CommandDelivery` has one device with
its commands and robot, and lets operators request anything, which covers
whatever tasks they act through.

### MissionControl

| Variable | Code |
|---|---|
| `task` | `tasks`: status, device, `params.pending_reassignment` (`intent`), `cancelled_at` set (`stamped`), and the requirement's `completed_qty` (`done`) |
| `exec` | `mission_executions` in order of creation: task, device, state, and `result.control_return_state` (`ret`) |
| `alloc` | the allocation of each execution that has one: state and finished quantity |
| `device` | what a device last said of itself: `ready` (idle), `parked` (idle, reported offline), `busy` (any other status) |
| `issued` | executions created so far |
| `tx` | a transaction caught between its reads and its writes |

| Action | Handler |
|---|---|
| `Tick` | `engine.py:130 _tick`, with `plan_task_resources` and `dispatch_mission` |
| `ConfirmReassignment` | `engine.py:334 _dispatch_confirmed_reassignments` |
| `SafetyHold` | `engine.py:440 _evaluate_safety` |
| `PauseTask`, `ResumeTask`, `ReassignTask`, `CancelTask` | `tasks.py:642, 696, 510, 748` |
| `ReportMission` | `devices.py:576 report_gateway_telemetry`, `fleet_commands.py:344 apply_execution_telemetry` |
| `RejectStart` | `devices.py:887 acknowledge_gateway_command`, failed `mission_start` |
| `ReportDevice`, `ReportOffline` | `devices.py:599, 686` |
| `Commit`, `Rollback` | `core/database.py:35 get_db` |

**Transactions.** A handler that takes no row lock before it reads is two steps:
`Handle` either writes at once, or stores in `tx` what was read, and `Commit`
writes later. `MergedExec`, `MergedAlloc` and `MergedTask` are the ORM's rule: an
attribute is written only if the handler changed it relative to what it loaded
(so a value that another transaction committed in between survives, or is
overwritten, exactly as in the code). The partial unique index
`uq_mission_executions_active_device` is the guard `DeviceIndex`. `CancelTask`
locks the task first and `Tick` holds it through its writes; both run alone. One
transaction at a time is pending: a handler races any sequence of others, but two
slow handlers do not race each other. `Deferred` names the handlers that may be
slow.

**The promise of a cancellation.** `cancel_task` calls itself a "durable,
telemetry-confirmed cancellation" (`tasks.py:753`). `Cancellation` says what an
operator may take that for: a task is `open`, `requested` or `confirmed`, and a
robot works on it or not. Once requested, no robot begins to work on it; it is
confirmed only when none does, and nothing takes it back. `Promise` maps a split
task to it by its status and by whether it has an active execution
(`CancellationStage`). Direct tasks are left out of the mapping: `reassign_task`
takes a cancelled one (`tasks.py:598`, under `hazards`).

**Abstractions.**
- *Work units.* A unit is what one device delivers in a planning window. Then a
  plan that suffices gives each remaining unit a device of its own, an allocation
  finishes 0 or 1 unit, and a task requires `Required[t]` units; 0 means the task
  has no resource requirement (a *direct* task, dispatched by reassignment, since
  the tick plans nothing for it). Fractions are the planner's, and not modelled.
- *The gateway* may report any state of an execution at any time. It is assumed
  to state the finished quantity with a terminal state only and to repeat it
  unchanged, as the protocol asks.
- `ret` is kept while a request is pending and forgotten with it; nothing reads
  it otherwise.
- `Required` is constant; editing a task's requirements during a mission is not
  modelled. `params.pending_controls` is never read by the code and is left out.
- A heartbeat timeout is a `ReportDevice` to `busy`: the scheduler treats both
  as unavailable.
- The scheduler's reassignment loop is one step per task. In the code one
  transaction covers all tasks of a pass (`engine.py:356`, listed as a hazard).
- Tasks, devices and requirements exist from the start and are not deleted;
  `TaskDag` adds the creation and deletion of tasks.

### TaskDag

`TaskDag` extends `MissionControl`: requests reach stored tasks only, and the tick
takes its tasks from the list of a pass instead of choosing freely.

| Variable | Code |
|---|---|
| `life` | of each task: not yet, in an open transaction of `create_task`, a row of `tasks`, or deleted (or its creation rolled back) |
| `ready` | what is left of the list that `for node in self.dag.get_ready_tasks()` (`engine.py:135`) goes through |

| Action | Code |
|---|---|
| `BeginCreate`, `EndCreate` | `tasks.py:290 create_task`: the rows of the dependencies read without a lock; commit or rollback |
| `Delete` | `tasks.py:854 delete_task` |
| `BeginPass` | `engine.py:74 _sync_task_dag`, `dag.py:94 get_ready_tasks` |
| `TakeUp` | `engine.py:136-244`: the node's task is dispatched (`Tick`) |
| `PassOver` | `engine.py:147-190`: it is not |

Two details of the code are kept because the property could depend on them.
`create_task` adds its node to the graph before its transaction commits
(`tasks.py:432`), so a pass may list, and count among the dependencies, tasks that
are not stored and may never be (`added` in `BeginPass`). And a dependency that
is no node of the graph blocks its dependents (`dag.py:115`), which is why
a cancelled predecessor, whose row is not loaded, never lets its successor run.

Abstractions: loading the rows and listing what is ready is one step; a task that
is added or deleted in between is either not listed or passed over. A pass may
be cut short by an error, so the next may begin at any time. Planned starts and
missing capacity are `PassOver`, which may always happen. A task's dependencies
are constant (`Dependencies`), as no route edits them; they name stored tasks, so
a cycle cannot be created.

### CommandDelivery

| Variable | Code |
|---|---|
| `exec` | the device's execution rows: state and `control_return_state` |
| `cmd` | `device_commands` by idempotency key: status, mission, priority, creation order |
| `queued` | number of commands created (the order of `created_at`) |
| `response` | a poll response on its way to, or being worked off by, the gateway |
| `outcome` | what the gateway did with each command (its persistent record) |
| `robot` | what the robot really does about each mission |
| `report` | a telemetry request on its way |

| Action | Handler |
|---|---|
| `Dispatch` | `fleet_commands.py:166 dispatch_mission`: execution and `mission_start` at the task's priority, any of `Priorities` |
| `Pause`, `Resume`, `Cancel`, `SafetyHold` | as above, with `queue_command` (`fleet_commands.py:95`) and `_mission_control_priority` (`tasks.py:55`) |
| `Poll` | `devices.py:835 pull_gateway_commands` |
| `Acknowledge` | `devices.py:887 acknowledge_gateway_command` |
| `Receive` | `fleet_commands.py:344 apply_execution_telemetry`, accepted or answered 409 |
| `Handle` (`Obey`, `Obeys`, `Refuses`), `Work`, `Stop`, `Send` | the gateway and the robot: external |
| `LoseResponse`, `LoseReport` | the network, or a gateway that fails while it works off a response: external |

The gateway and the robot are not in the repository. What they are assumed to do
is what `docs/DEVICE_GATEWAY_API.md` asks: each command is handled once and its
outcome kept (line 345); an acknowledgement is repeated until it is answered
(line 360); the robot may refuse any mission; it reports the state it is in, and
while it is stopping it says that it runs. A control obeys its precondition:
a robot that does not know the mission fails the command.

`ControlPriority` is the priority of a control: that of the start while the
execution is still `dispatched`, so that the order of creation decides, and 90
otherwise. `Overtakable` and `Overtaken` name the one way in which that is not
enough: the task is less urgent than 90 (its default is 50), and a pause or a hold
takes the execution out of `dispatched` while the start waits; a cancellation
after it gets 90, overtakes the start and is refused by a robot that does not know
the mission. The properties exempt this case and no other (section 6).

Abstractions: transactions are atomic here (their races are `MissionControl`'s);
a device gets its missions one after the other (`Dispatch` does not look at the
device's reported status, so it allows more than the scheduler does); one poll
response and one report are on their way at a time; `expires_at` is left out, as
no caller sets it; so are the redelivery interval, which only spares audit
events, and the commands that do not belong to a mission.

### EmergencyStop and StopDelivery

| Variable | Code |
|---|---|
| `up`, `crashes` | the backend process, and how often it crashed |
| `mem` | `RuntimeContext.estop_active` |
| `row` | the `safety_states` row: there, active, cycle |
| `redis` | the cycle of the state under `ESTOP_STATE_KEY`, or none |
| `req` | trigger and recovery requests in progress: how far, what they read |
| `triggers` | cycles begun |
| `said` | what operators know: `on` or `off` since an answer, `unsure` since a request |
| `log` | keys of the device's stop and release commands, in order of commit |
| `poll` | the gateway's poll: between the two awaits, or answered |
| `held`, `done` | the robot's safe stop; commands it has handled |
| `heard` | the robot took an answer that was asked for during the answered stop |

| Action | Code |
|---|---|
| `BeginTrigger`, `BeginRecover` | `runtime.py:63`, `106` up to the first await |
| `Load`, `CommitTrigger`, `CommitRecover` | the transaction: `runtime.py:75-94`, `110-126` |
| `StoreState`, `Answer` | `runtime.py:96`, `127`, then the notices and the answer |
| `Fail` | an exception at any await, or a lost answer |
| `Crash`, `Restart`, `LoseRedis` | the process; `runtime.py:42`, `145`; Redis |
| `ReadLatch`, `PollCommands` | `devices.py:841-842`; `843-875` with `_ensure_global_estop_command` (295) |
| `LosePoll`, `Handle` | network and gateway: external |

Handlers are tasks of one event loop; each await is a step boundary, and the row
is read without a lock (`seen`), so that an UPDATE writes the attributes that
differ from what was read. A second INSERT of the row is refused. A poll names a
cycle by the time it began and a trigger by its id, so a cycle has two stop
commands (`topup` and `estop` in `Keys`), against the docstring at
`devices.py:300`.

`StopLatch` is the abstract specification: one latch and what was said of it.
`EmergencyStop` implements it (`LatchIsDurable`) under the mapping `latch <-
Latched`: the latch of the running process, or, while it is down, the one its
next start restores. `said` becomes `on` or `off` with the answer of a request
that no request for the opposite overlapped (`alone`), `unsure` with the next
request for the opposite. That is the weakest promise an operator can use; it is
not kept by construction, since `Latched` depends on three copies that change in
separate steps.

Abstractions: one device; commands are ordered by commit, which is the order of
`created_at` unless two transactions that overlap are created in one order and
committed in the other; a command that was handled is not handled again, whether
acknowledged or not, so acknowledgements and the retry of a failed stop command
(`devices.py:326`) are left out; the first 20 stop commands of `devices.py:305`
are all of them; alert rows and notices are left out. The gateway does what
`docs/DEVICE_GATEWAY_API.md` asks: it polls one request at a time, holds the robot
while `global_estop_active` is set, and works off the list in order.

### TelemetryIntake

| Variable | Code |
|---|---|
| `row` | `devices`: heartbeat (recent or expired), `offline_reported_at` set, `health`, and which report the columns of the last telemetry come from (`shows`); `met` of that report |
| `events` | `device_events`: the reports stored, 0 for the planned offline report |
| `alerts` | `alerts`: by key (`Rules`) and number, the status |
| `req` | requests of the gateway between reading the row and committing: what they will write, and the newer reports of their boot stored meanwhile (`met`) |
| `pass` | the scheduler's pass: how far, the violations of the states it read, the alerts it read |
| `ack` | the alert an operator's request has read as open |
| `failures` | counted for its bound |

| Action | Code |
|---|---|
| `BeginTelemetry`, `CommitTelemetry` | `devices.py:576 report_gateway_telemetry` |
| `BeginOffline`, `CommitOffline` | `devices.py:686 report_gateway_offline` |
| `Fail` | the unique constraint of `device_events`, another error, a crash: `database.py:41` |
| `Expire` | `device_connectivity.py:30` |
| `BeginPass`, `ProjectExpiry` | `engine.py:111 _sync_device_connectivity` |
| `ReadStates`, `ReadAlerts`, `Evaluate`, `PassFails` | `engine.py:483`, `alert_engine.py:69-104`, `engine.py:107` |
| `ReadAlert`, `Acknowledge`, `AcknowledgeFails` | `alerts.py:49-63` |

`met` is a history variable: no guard and no assignment depends on it. It lets
`NewestOfBoot` tell a report that was overtaken while it was under way, which the
code's comparison cannot see, from one that came late, which it refuses.

Abstractions: the rules for lost heartbeats and faults stand for the five: the
first is the only one whose alerts a request resolves too, the second depends on
the health column that passes and requests write; the others differ in when they
are violated. `offline_reported_at` and `health` are written only if the request
changed what it had read, as the ORM does. Requests that read the same are one
member of `req`: they have the same `event_id`, so one of them commits. An
offline report reads the alerts it resolves a moment before its commit; it is
allowed to miss any of them. A resolved alert's number is used again, except while
an acknowledgement refers to it. A report does not state `connection` itself
(`devices.py:614` would let it). Registration, which also brings the device on
line, is left out, and so are battery, position and metrics, which are written
like what `shows` stands for.

### LiveView

| Variable | Code |
|---|---|
| `alive`, `fleet`, `tasks`, `gone` | the server: in reach, a version of the devices' state, the tasks, deleted ids |
| `session`, `token`, `mounts` | `App.tsx` and `authStore.ts`: login page, check, or dashboard; the stored token |
| `client`, `current`, `timers`, `attempts` | `WSClient`: the singleton, its `ws`, timers set, `reconnectAttempts` |
| `sock` | a socket's two ends: state, valid token, its Redis listener (starting, on, ended), channels, controls and messages on their way |
| `fetch` | a GET of each mount: asked, answered, applied |
| `view` | `pmStore.ts`: devices and tasks |

| Action | Code |
|---|---|
| `Login`, `Logout`, `Checked`, `CheckFailed`, `Reload` | `authStore.ts`, `App.tsx`; with `Mount`, the effect of `useWebSocket.ts:11` |
| `TimerFires`, `Accept`, `Refuse`, `Cut`, `Deliver` | `client.ts:35-82`; `router.py:43-61` |
| `Listen`, `ListenerEnds`, `HandleControl`, `Broadcast` | `router.py:62-95` |
| `PublishFleet`, `PublishFails`, `CreateTask`, `DeleteTask` | `engine.py:106`, `devices.py:453`, `tasks.py:402`, `878` |
| `AnswerFetch`, `ApplyFetch`, `LoseFetch` | `rest/client.ts:65`, `useWebSocket.ts:15-16` |

The listener is a task of its own (`_redis_subscriber`). When subscribing or
listening raises because Redis fails, it ends (`ListenerEnds`), while
`websocket_endpoint`, which never looks at it, keeps the socket open. Nothing
starts it again: the open connection is `Deaf` until it is closed. A publication
that fails is swallowed or caught (`PublishFails`): the server has news that no
socket gets before the next pass.

Abstractions: two channels stand for six, `devices` for those that carry all of
their state and `tasks` for those that carry changes; there is one handler per
channel; the answer of the form's own POST or DELETE is left out; an event comes
with the commit of what it tells (in the code a moment before); a token does not
expire; a network that fails is a server out of reach (`StopServer`, `Cut`); the two
sockets are all that can exist at once, as `OneConnection` shows.
`closeWSClient` has no caller.

### VoxelGeometry and MapEditor

`VoxelGeometry` has no state. Lengths are whole base voxels of 0.05 m: the server
refuses other extents (`map.py:90`), and the origin, on which nothing depends but
the lattice, is moved in such steps by the grid form; a place is a triple over three axes.
`UnionVolumes` is `createRegionSelectionUnion` with its key, its index (rounded,
scaled by 10^6) and its grouping by size. The scans of sorted rows are stated by
what they find: maximal stretches of neighbouring indexes, joined with the equal
ones beside them. The reference it is checked against (`IsPartition`) speaks of
base voxels only.

| Variable | Code |
|---|---|
| `isOpen`, `mode`, `gridConfig`, `selectedEntity`, `draft` | `mapEditorStore.ts` |
| `drag` | the refs of `VoxelGridSelector` (`Scene3D.tsx:572-574`), with the grid they were taken on |
| `shown`, `saving`, `savingGrid` | `MapEditorPanel.tsx`: the lists, the request of a form, the grid that was sent |
| `reads` | answers to `getSceneConfig` on their way to panel, scene or save |
| `objects`, `serverGrid`, `lastId`, `lost` | the server's map; ids whose creation was not answered |
| `clicks`, `changes` | counted for their bounds |

| Action | Code |
|---|---|
| `Open`, `Close`, `SetMode`, `Select`, `Preview`, `BeginPathGeometryEdit`, `Undo`, `Clear` | the panel's buttons with the store's operations |
| `PointerDown`, `PointerMove`, `PointerUp` | `Scene3D.tsx:582-617` |
| `Save`, `Delete`, `Commit`, `SaveAnswered`, `SaveFails` | `MapEditorPanel.tsx:188-351`: pressed, committed by the server, answered, failed |
| `SaveGrid`, `CommitGrid`, `GridSaved`, `GridSaveFails`, `OthersSaveGrid` | `MapEditorPanel.tsx:166-186`, and another operator's |
| `ReadScene`, `Refreshed`, `RefreshFails` | `MapEditorPanel.tsx:85-103`, `Scene3D.tsx:652-664` |

Abstractions: an object is the clicks it was drawn from (`Strokes`), each with
the road it was meant for (ghosts of the model); names, colours, types and widths
are left out, and so are the early returns about them; the layer and the height
of a click are chosen with it, in the range their setters leave; a scene may be
read at any time, as change events come from anybody; equal answers on their way
count once.

## 3. Runs

| Run | Instance | Checks | Shows |
|---|---|---|---|
| `split` | `TaskDag` with a task of 2 units and a task of 1 unit that depends on it, 2 interchangeable devices, 3 executions, handlers alone | `TypeOK`, `ClosedTasksAreStopped`, `NoUnitGivenTwice`, `DependenciesFirst`, `SplitCompletionIsFinal`, `CancellationIsKept` | a split task is closed only when all its robots stopped; nothing is planned twice, also when a unit fails and is replanned; a dependent task gets no robot before its turn; cancellation implements `Cancellation` |
| `direct` | a direct task, 2 devices, 3 executions, handlers alone | `OpenTasksHaveAUnit`, `TerminalIsFinal`, `CancelRequestStands`, `IntentIsDurable` | a task shown as under way or cancelling has a robot that can move it; ends are final; neither a cancellation request nor a reassignment's target is lost |
| `races` | a split and a direct task on 1 device, 2 executions, pause, resume, hold, reassign and confirm may be slow; reports and rejected starts run alone | `OneActivePerDevice`, `SplitCancellationIsFinal` | no interleaving of these gives a robot two executions or reopens a cancelled split task |
| `delivery` | 1 mission of priority 50 or 90, any pauses, resumes, cancellations | `TypeOK`, `StartBeforeControl`, `CancelIsUnderway`, `CancelIsAnswered` | a control follows its start; a cancellation is never lost, and is answered; but for a cancellation that overtakes the start of a less urgent mission after a pause |
| `missions` | 2 missions of a device, of priority 50 or 95, holds | `StoppedMeansStopped`, `OneMissionAtATime` | the platform's belief that a mission ended never runs ahead of the robot |
| `stopped_robot` | 1 operator, 1 stop, any recoveries, 1 crash, Redis losing its state at any time | `TypeOK`, `LatchIsDurable`, `HeldUnderStop`, `StopReachesRobot` | an answer holds across the restart; a robot that heard of the stop stays held; an answered stop reaches it |
| `intake` | 3 reports of 2 boots, 1 offline report, 2 requests at once, 1 failed pass, 2 alerts per rule | `TypeOK`, `CountsOnce`, `NewestOfBoot`, `AlertsConverge` | reports count once; the newest of a boot stays unless an older one was under way when it was stored; alerts end up where the rules are |
| `live` | 1 task, 1 change of the fleet, 2 mounts, 2 attempts, 3 GETs at once, queues of 1 | `TypeOK`, `OneConnection`, `ChannelsServed`, `ListedOnce`, `DevicesConverge` | never two connections; channels served once controls are handled; nothing listed twice; devices heal, unless the client gave up or its listener ended |
| `editor` | a road of 2 cells, 2 clicks, 1 drag, 4 objects, 1 scene on its way, 2 changes | `TypeOK`, `DraftsOnLattice`, `SavedOnce`, `StrokesAsMeant` | drawings survive whatever arrives, or are dropped whole |
| `drawing` | 3 grids with cut cells, any 2 drags on them | `UnionIsPartition` | the volumes saved are a partition of the selection |
| `reassign_early` | a direct task, 2 devices | refutes `OneRobotPerDirectTask` | [section 6](#6-what-the-checks-found) |
| `second_pause` | 1 mission, pauses and resumes | refutes `PauseIsUnderway` | |

**Bounds.** `MaxExecutions` (executions created in a behaviour) is 3 where a unit
must fail and be replanned next to a running one, 2 where a device must be fought
over, and 1 where one execution shows the matter. Two devices are enough for two
robots on one task, two tasks for two tasks on one robot, or for one that waits
for the other: in `split` three executions let the first task complete and the
second begin, or a unit of the first fail and be replanned; a chain of three
tasks shows nothing more, since readiness looks at direct predecessors only. Every
task is created and deleted once. There is no bound on
reports, pauses, holds or cancellations: their state is finite. `MaxMissions` is
1 where the order of commands of a mission matters, 2 where missions follow each
other; `Requests` names the kinds of request a run makes, and does not bound how
many are made. `Priorities` are 50, the default of a task, which is below that of a
control (90), and one that is not below it. The runs of these two modules set `CHECK_DEADLOCK FALSE`: when
every mission has ended and the executions are used up, the system may stop.

`stopped_robot`: one stop and one crash are enough for a crash in any state of a
request, for a late poll, and for a recovery that meets the state of a stop that
failed half-way. Two overlapping handlers, which the code also allows, make 0.9
million states without a crash and 1.9 million with one; both were run by hand
with the same result (`HeldUnderStop`, `StopReachesRobot`), and the proofs cover
any number of handlers, stops and crashes. `intake`: two reports of a boot and one
of the next let a late report meet both a newer one of its own boot and one of
another; the second has a fault and the others do not, so a fault comes and goes;
two requests at once let a repetition, another report, the offline report or an
acknowledgement overlap a report; two alerts per rule are a resolved one that is acknowledged late and its successor. One
failed pass shows what it leaves behind, a projection without an evaluation.
Heartbeats expire and alerts are acknowledged without bound. `live`: two sockets exist at most
because `OneConnection` holds; two mounts are a logout and a login; two attempts
let the client give up; a queue of one message lets a push and a snapshot cross,
since snapshots travel apart from pushes; with three GETs at once one of the first
mount may still be under way at the second. `editor`: two clicks make a road, or a
region and its repetition; the second change is the save or the grid that comes
in between. `drawing`: the grids have a cut last column, a cut last layer, and
the same map with two multipliers, so that index scales of different size meet;
two drags are enough for one to overlap, cross, touch or be cut differently from
another. Unions of more drags are not enumerated; `VolumesPartition` covers them.

`TerminalIsFinal`, `CancelRequestStands` and `IntentIsDurable` are checked of
handlers that run alone. With slow ones they fail (section 6, and `tasks.py:674`
under `hazards`).

## 4. Fairness

`MissionControl` and `TaskDag` have none: their properties are safety. In `CommandDelivery`
(`Fairness`) only `CancelIsAnswered` needs it:

- the gateway polls (`WF Poll`), handles what it receives (`SF Handle(k)`), repeats
  acknowledgements (`WF Acknowledge(k)`) and reports (`SF Send(m)`) for ever: the
  protocol obliges it (`docs/DEVICE_GATEWAY_API.md:340-362`);
- a report that is sent again and again is received at some time (`SF Receive`)
  and a command returned again and again is handled: the network loses
  messages, but not all of them;
- a robot told to stop stops (`WF Stop(m)`).

Operators, safety rules, the scheduler and the robot's own progress are under no
obligation. `CancelIsAnswered` excuses a mission the robot refused, because the
code does too: a failed acknowledgement of `mission_start` is ignored when a
request is already pending (`devices.py:924`), and nothing then ends the
execution.

In `StopDelivery` only `StopReachesRobot` needs fairness: the process is started
again (`WF`, the host's service manager), the gateway begins a poll whenever it
has none (`WF ReadLatch`), and polls that are tried again and again get through
at some time (`SF PollCommands`, `SF Handle`). Operators owe nothing.

In `LiveView` only `DevicesConverge` does: a timer fires, an open connection or a
refused one is noticed and controls are handled, a message sent arrives, a GET
that was answered is applied (`WF` each), and the scheduler makes its passes
(`WF PublishFleet`: `engine.py:96` loops for ever and catches its errors) and
reaches Redis again and again. The server may stop and start as it likes, users
may come and go, publications and GETs may fail, and an error of Redis may end a
listener at any time; the property supposes that server and dashboard stay in the
end, and excuses a client that used up its attempts (`GaveUp`) and a connection
that is open while its listener has ended (`Deaf`). The second is not a matter of
fairness: nothing in the code notices it (section 6).

In `TelemetryIntake` only `AlertsConverge` does: the scheduler takes the next step
of its pass (`WF Pass`), for ever (`engine.py:97-109`). One pass of a behaviour
may fail (`MaxFailures`); if all of them failed nothing would be evaluated.
Gateways owe nothing: the property supposes that it is settled in the end
whether a rule is violated.

`MapEditor` has none.

## 5. Proofs

All theorems hold for any finite sets of tasks and devices, any requirements and
bounds (`ConstantsAssumption`), any dependencies (`DependenciesAssumption`), any number of missions, any
priorities and any requests (`DeliveryAssumption`), any set of request handlers and any number of stops and
crashes (`StopAssumption`), any number of mounts, attempts and messages
(`LiveAssumption`), any reports whose sequence increases within a boot, and any
number of requests at once, alerts and failing passes (`IntakeAssumption`), any
grids whose extents and display cells are positive (`GridAssumption`) and any
numbers of clicks, drags, objects and answers on their way (`EditorAssumption`).
Every safety invariant and every action property that a passing run checks is
the subject of a theorem.

**MissionControlProofs.**

| Theorem | States | Further assumption |
|---|---|---|
| `TypeCorrect` | `TypeOK` | |
| `OneActiveExecutionPerDevice` | `OneActivePerDevice`, in every interleaving | |
| `SplitCancellation` | `SplitCancellationIsFinal` | rejected starts are not slow |
| `ClosedTasksStopped` | `ClosedTasksAreStopped` | handlers run alone (`Deferred = {}`) |
| `BasicInvariance`, `DeviceIndexInvariance` | the invariants they rest on | |

`TypeOK` is not inductive: that a merged row has its type depends on what the
pending transaction loaded. `Basic` adds that every created execution has a task,
a device and, exactly when its task has requirements, an allocation
(`RowsCoherent`); that a split task is never waiting for reassignment
(`SplitNotReassigned`); and that the rows a transaction holds existed, and that
none of them has gone back to `dispatched` since (`Loaded`). `SplitCancellation`
adds that a dispatched execution has a live allocation and that a cancelled split
task has no dispatched execution a robot could still reject (`CancelCoherent`), and
that no slow rejection is pending (`NoLateRejection`). The assumption is needed: a rejection that read the
task before a cancellation was confirmed sets it back to `pending`
(`devices.py:935`). `ClosedTasksStopped` adds that an execution occupies a device
only while its allocation is reserved, and that a closed task has no reserved
allocation (`StopCoherent`).

**MissionAloneProofs.** All but `DagRunsMissionControl` suppose that handlers run
alone (`Deferred = {}`); what slow handlers break is told in section 6. The last
two are about `TaskDag`, for any relation of dependency.

| Theorem | States |
|---|---|
| `TerminalExecutions` | `TerminalIsFinal` |
| `CancelRequests` | `CancelRequestStands` |
| `IntentRemembered` | `IntentIsDurable` |
| `OpenTasks` | `OpenTasksHaveAUnit` |
| `UnitsGivenOnce` | `NoUnitGivenTwice` |
| `SplitCompletion` | `SplitCompletionIsFinal` |
| `CancellationKept` | `CancellationIsKept`: split tasks implement `Cancellation` |
| `DagRunsMissionControl` | `DagSpec => Spec`: `TaskDag` implements `MissionControl` |
| `DependenciesAreFirst` | `DependenciesFirst` |

The proofs share four descriptions of a step, each proved once for every handler.
`Steered` and `Moves` say how one execution may move, `Placed` how one task may,
and `Reports` what a report writes when nothing came between its reads and its
writes: it moves one execution along the table of `ExecutionStates`, its
allocation with it, and recomputes the task from what is then stored. The first
three theorems and `OpenTasks` follow from them case by case.
`NoUnitGivenTwice` is not inductive. `WorkCoherent` adds that the quantity done
of a task is what its allocations say, and that a completed task has all of it.
A tick gives out no more than required, done and reserved leave over; a report
turns a reserved unit into a finished or a free one; and a request sets no unit
free. `SplitCompletion` uses the same account: a repeated report of a completed
task recomputes it to the same quantity. For the cancellation, `RequestCoherent`
adds that a task whose cancellation is requested has no execution still in
`dispatched`, which a robot could refuse and so send the task back to planning;
with it nothing restarts in such a task, and `ClosedTasksAreStopped` gives that a
confirmed one has stopped. Every step then is, for every split task at once, one
of the moves of `Cancellation` (`CancellationAdvances`).

Through `DagRunsMissionControl` the theorems about `MissionControl` hold in
`TaskDag`. For `DependenciesFirst`, `DagInv` says that whatever is listed as ready stays ready (`Met`),
however long ago the list was made. Four facts carry it: a completed split task
has done all it requires (`WorkCoherent`), so it has executions, so it is
stored and never one that is still being created; it cannot be deleted, since it
is not pending; no step takes its completion back (`SplitCompletion`); and only
taking up a listed node gives a robot work of a split task (`QuietDag`).

**CommandDeliveryProofs.**

| Theorem | States |
|---|---|
| `TypesHold` | `TypeOK` |
| `EndedMissionsAreStopped` | `StoppedMeansStopped` |
| `NoRobotSharesItself` | `OneMissionAtATime` |
| `ControlsFollowStarts` | `StartBeforeControl` |
| `CancellationsAreKept` | `CancelIsUnderway` |
| `SafeInvariance` | the invariant they rest on |

None has a further assumption; in particular tasks may have any priorities. The
argument goes along the way of a command. `Rows`: a mission
has an execution exactly when its start was queued, and one execution is active
at a time. `Answers`: a command is handled after it was queued, and closed with
the outcome of the gateway after it was handled. `Truth`: the robot knows a
mission only once its start was handled, has refused it if the start failed, and
has stopped working on whatever is reported, or recorded, as ended. These three
give `StoppedMeansStopped`; with it a working robot's mission has an active
execution, and there is one. `Started`: while the start of a mission is not
handled nothing was reported of it, so its execution is `dispatched` or waits for
a pause or a cancellation, and a pause was then requested at the start's own
priority (`AskedEarly`). `Queued`: so a control comes after its start in the order
of polls, or it is a cancellation that may overtake it (`Follows`). `Handed`: the
same holds in a poll response and in the robot's hands, because the gateway works
off a response in order and a poll returns every open command; a cancellation
that comes first meets a robot that does not know the mission, and fails. A robot
that was handed any other cancellation does not work on the mission any more,
which gives `CancelIsUnderway`. TLC checked `Ordered`, the conjunction, of a
mission with all kinds of request and priorities 50, 90 and 95.

**EmergencyStopProofs.**

| Theorem | States |
|---|---|
| `DurableLatch` | `LatchIsDurable`: `EmergencyStop` implements `StopLatch` |
| `DeliveryTypes` | `TypeOK`, of which `LatchTypes` is the part about the latch |
| `RobotsStayHeld` | `HeldUnderStop` |
| `DeliveryRunsTheLatch` | `StopDelivery` implements `EmergencyStop` |
| `LatchInvariance`, `RobotInvariance` | the invariants they rest on |

`LatchIsDurable` needs to know why a restart restores what was said. `LatchInv`
says: while a request is alone, memory has what it asks for and every other
request asks for the same; once it has committed, so has the row, and before the
answer of a recovery Redis has no state (`Undisturbed`); after the answer memory,
row and, for `off`, Redis still are as they were answered, and no request for the
opposite is in progress (`AnsweredOn`, `AnsweredOff`). A restart while `said` is `on` therefore
finds an active row, and while it is `off` neither row nor Redis. That every
step of `EmergencyStop` is then a step of `StopLatch` or a stutter is shown
action by action (`LatchStepsKeepThePromise`). `RobotInv` adds, for one device:
a poll asked for during an answered stop carries the flag, and a robot that took
such an answer is held and has no older answer still to come; without that it
could be released by a list from before the stop.

**LiveViewProofs.**

| Theorem | States |
|---|---|
| `LiveViewTyped` | `TypeOK` |
| `OneConnectionAlways` | `OneConnection` |
| `ChannelsServedAlways` | `ChannelsServed` |
| `ListedOnceAlways` | `ListedOnce` |

The list of tasks is a sequence. That it has no task twice is kept because a task
that is listed is not added again (`AddTask`), a snapshot lists each task of the
server once (`ListsDistinct`, also of snapshots on their way), and a filter keeps
the order of what it leaves (`FilterFacts`). What the filter returns is shown
without induction over the list: were there a place where it goes wrong, there
would be a least one (`Smallest`), and one step of the recursive function
excludes that.

`WSInv` has three parts besides types. A socket that exists is the one the client
refers to, and no timer is set beside it (`SocketIsCurrent`): the client opens a
socket only from a timer or at its start, and sets a timer only for a socket that
ended. Only an open socket is sent controls (`ControlsOfOpen`). While a dashboard
is shown every channel of its open socket *settles* (`OpenSettles`): it is
subscribed and no unsubscription is on its way, or a subscription is on its way
and no unsubscription behind it. A logout and a login that cross leave that
intact, since the undo of the old mount is sent before the subscriptions of the
new one.

**TelemetryIntakeProofs.**

| Theorem | States |
|---|---|
| `TypeCorrect` | `TypeOK` |
| `ReportsCountOnce` | `CountsOnce` |
| `NewestOfBootAlways` | `NewestOfBoot` |

`CountsOnce` follows from the types, step by step. `NewestOfBoot` needs to know what
a comparison made when a request began is still worth when it commits, while any
other reports begin, commit and fail. `Met`: whatever newer report of its boot is
stored by then was stored while the request was under way, since the comparison
refuses it otherwise; and a report that was stored meanwhile itself is refused by
the constraint.

**VoxelGeometryProofs.**

| Theorem | States |
|---|---|
| `VolumesPartition` | for every grid and any list of drags within it (`Drawing`), `IsPartition` and `Inside` hold of `UnionVolumes` |

The run `drawing` compares the union with `IsPartition` for two drags on three
grids; the theorem is about every grid, also with cut cells at both of its upper
ends, and any number of drags. The argument has four parts.

- The stretches of a finite set of indexes contain every index of it once
  (`StretchOf`, `StretchUnique`), so the cuboids of a group contain every index
  triple of the group once (`CuboidOf`, `CuboidUnique`).
- Voxels of a group have the same size. On each axis either the group lies along
  the lattice, and neighbouring indexes mean adjacent places (`Spaced`), or the
  size is that of the cut last cell and all its voxels are at the same place
  (`Cut`). Hence the box that `Volume` spans between two corners has exactly the
  base voxels of the group's voxels in the cuboid (`VolumeCovers`,
  `VolumeFilled`).
- The cells along a drag are cells of the grid (`DragSpans`, `SpanCells`), and the
  index, although rounded, moves by the scale from cell to cell (`IndexShift`).
- Voxels of several drags either have the same corners, and then the last one
  stays, or have no base voxel in common (`VoxelsCover`, `VoxelsApart`).

The hypothesis `Drawing` (the drags start, end and rise on one lattice) is not
free: it is what the map editor has to guarantee.

**MapEditorProofs.**

| Theorem | States |
|---|---|
| `EditorTyped` | `TypeOK` |
| `DraftsOnLatticeAlways` | `DraftsOnLattice` |
| `SavedOnceAlways` | `SavedOnce` |
| `StrokesAsMeantAlways` | `StrokesAsMeant` |
| `UnionIsPartitionAlways` | `UnionIsPartition` |

None of the five is inductive. `EditorInv` is, and TLC checked it at larger
bounds than those of the run before it was proved.

- `StoreTypes`, `ServerTypes`, `RequestTypes`, `RoadEnds`: the records of the
  draft and of each request under way, which request has an id, and that the two
  ends of a road differ.
- `OnLattice`, `Heights`: a region remembers the grid its drag began on, a drag the
  grid it is on; everything else drawn is on the grid displayed. A change of
  lattice clears the drafts but not a drag, which is why `UnionIsPartition` speaks
  of regions all of whose drags began on the grid displayed. With `Heights` such
  a draft is a `Drawing`, and `VolumesPartition` applies.
- `Meant`, `ClicksApart`: what is drawn as new was clicked for no road, and while
  there is any nothing is selected; the new ends of a road were clicked for it; no
  click is in two things.
- `Owned`, `Undelivered`, `CreationMeant`, `UpdateMeant`: where copies of the same
  stroke may be while requests and answers are on their way. A copy of an object
  anywhere (server, list, answer, update) has strokes meant for it or for none; no
  new stroke is in two objects, unless the answer to a creation was lost; what is
  still drawn is in no object, unless its creation was lost or is about to be
  answered, and then it is in the request (`Refreshing`: the draft is cleared
  before the list is).

`SavedOnce`, and `StoredAsMeant` of `StrokesAsMeant`, follow from `Owned` and the
two parts about requests; `SentAsMeant` from `Meant`.

**Only model-checked**: liveness (`CancelIsAnswered`, `StopReachesRobot`,
`DevicesConverge`, `AlertsConverge`), which the provers do not reach, as they do
not reach ENABLED. Induction over data is out of their reach too; where a proof
needs one over numbers it takes the least counterexample (`Smallest`).

## 6. What the checks found

Each is a disagreement between the code and what the repository says of it. The
run named produces a behaviour.

1. `reassign_early`: the scheduler dispatches a reassigned task without waiting
   for the old robot's cancellation (`engine.py:338`), against its own docstring.
2. `second_pause`: the idempotency key of a pause names only the execution
   (`tasks.py:669`), so the second pause of an execution queues nothing.

The models produce these behaviours too when their constants allow it; no run is
kept for them. Their hazards are listed at their lines.

3. A refused `mission_start` leaves its allocation reserved (`devices.py:926`), so
   the task returns to `pending` and is never planned, against
   `docs/DEVICE_GATEWAY_API.md:421`. Instance: `split` with one unit and one device,
   `PendingIsPlannable`.
4. A report that waits for the task lock writes from an execution it read before
   (`fleet_commands.py:360`) and erases a cancellation request, against the
   comment at line 372. Instance: `Deferred = {"telemetry"}`, `CancelRequestStands`.
5. A slow pause writes back the whole `params` column (`tasks.py:680`) and erases a
   reassignment's target, which line 552 of `fleet_commands.py` calls durable.
   Instance: `direct` with `Deferred = {"pause"}`, `IntentIsDurable`.
6. With the default priority a pause takes the execution out of `dispatched`, and a
   cancellation after it no longer inherits the start's priority (`tasks.py:63`):
   the robot is handed the cancellation first, refuses it and then begins the
   mission, against the docstring at line 61 ("Preserve FIFO order when
   controlling an execution not yet started"). Instance: `delivery`,
   `StartBeforeControl` without its exemption (`Overtaken`). That this is the only
   way is what `StartBeforeControl` says and `ControlsFollowStarts` proves.
7. A drag during which a scene with another lattice arrives mixes two lattices
   (`Scene3D.tsx:607`); its volumes may overlap those of the next drag, against
   `voxelSelection.ts:223`. Instance: `WholeDrags` replaced by all drags.
8. `MapEditorPanel.tsx:247`: saving the settings of a region of several volumes
   gives all of them the height of the first, also when only the name changed,
   against the decision record (`docs/设计决策记录.md:83`). Read, not modelled.
9. Two stop commands per cycle (`devices.py:279`), against the docstring at line
   300. It is the reason for the key `topup` of `StopDelivery`.
10. Two different reports of a boot that overlap both pass the comparison of their
    sequence (`devices.py:595`), and the older may be written last, against
    `docs/DEVICE_GATEWAY_API.md:154`. Instance: `intake`, `NewestOfBoot` without its
    exemption (`met`). A late report of an old boot is accepted after those of the
    new one, which no document excludes.
11. An evaluation of states read before a planned offline report raises a lost
    heartbeat alert after it (`alert_engine.py:84`), against the decision record
    (`docs/设计决策记录.md:40`); the next pass resolves it. An acknowledgement can
    take a resolved alert back to `ack` (`alerts.py:58`) and leave two active
    alerts of one key; `evaluate` resolves them one after the other. Both happen
    within `intake`; `AlertsConverge` shows that they heal.
12. The offline report resolves the lost heartbeat alert without publishing it
    (`devices.py:732`), and `evaluate` never mentions that alert again: clients, which
    only merge pushes, show it open until the page is loaded, against the comment at
    line 723. Read, not modelled.
13. A task may be deleted while another one that depends on it is being created,
    although both routes check for it (`tasks.py:297`, `869`): neither sees the
    other's transaction. The new task waits for ever (`dependency_missing`).
    Within `split`; `DependenciesFirst` shows that it is not dispatched either.
14. A road keeps the geometry that the list shows when only its attributes are
    saved (`MapEditorPanel.tsx:285`). If the list is outdated, because another
    change was committed and not yet read, the old geometry is sent and stored
    back. `StoredAsMeant` therefore allows an object to get strokes that were its
    own before; a version of the property without this failed in `editor` at
    larger bounds.
15. `reassign_task` dispatches a pending direct task whatever it depends on
    (`tasks.py:572`), against the decision record (`docs/设计决策记录.md:138`);
    `DependenciesFirst` is therefore stated of tasks with requirements.
16. An error of Redis ends the listener of a connection (`ws/router.py:81-95`:
    only `CancelledError` is caught, and the endpoint never looks at the task),
    while its socket stays open: the client sees no close, does not reconnect and
    does not give up, and the screen stays as it is although server, dashboard and
    socket are up, against `CODEBUDDY.md:132`. Instance: `live`, `DevicesConverge`
    without its exemption (`Deaf`). Only a lost connection, which makes the client
    reconnect, or a reload of the page ends it.

## 7. What is not modelled

- **Planner**: `MissionControl` takes what it needs of it as an input, a plan in
  whole units. Quantities, capacities and the greedy choice are not modelled.
- **Waiting states and derived schedules** (`engine.py:246-332`): why a task waits
  is shown to users and read by nothing; planned starts only delay a dispatch.
- **Telemetry and alerts beyond `TelemetryIntake`**: registration, metrics and
  maintenance reminders, and the geometry of the restricted regions and collision
  rules, which is arithmetic on reals.
- **v2 mission phases** (`fleet_commands.py:406-470`) and the
  **update of tasks** on the server.
- **Scheduler passes during a stop** (`engine.py:104`): `StopDelivery` has no
  dispatch; the robot is held by the flag of its polls whatever is dispatched.
- **Map geometry beyond the editor, point clouds, device maps**: arithmetic on
  reals and file transfer.
- **Authentication, reporting, cameras, scripts, application wiring**: checks,
  read models and single-row edits without a protocol of their own.
- **The rest of the web clients**: rendering, charts, forms and single requests. A
  form validates its fields and sends one request, which is an action of the
  server's modules; components that only draw have no step to model. Token expiry
  (`rest/client.ts:82`) is left out: an answer 401 that arrives late also clears a
  newer token.
- **Vendored code and prototypes**: `前端样式参考/.../three.module.js` (53 044 of
  the repository's 59 672 lines of JavaScript and TypeScript) is a copy of the
  three.js library beside static style pages; the platform does not load it. The
  share of mapped JavaScript is small for this reason; most of what is modelled
  is Python.
- **Deployment manager, report builders**: processes and files on the host.

## 8. Plan

The order is that of importance for the people near the robots.

1. *Done:* mission control, `TaskDag` and command delivery, the promise of a
   cancellation with its refinement; the emergency stop with its refinement; the
   telemetry intake and the alerts; the live view; the map editor and its
   geometry. All of them with proofs of the safety properties their runs check.
2. Theorems about slow handlers: which of them each theorem of
   `MissionAloneProofs` bears, in place of `Deferred = {}`.
3. `ResourcePlanner` as functions: coverage and capacity of a plan, against
   reference definitions over bounded inputs.
4. `MissionPhase`: the v2 phases of an execution, as a refinement of
   `ExecutionStates`' life cycle.
5. `Cancellation` implemented by `CommandDelivery` for one mission, down to the
   robot that stops.
