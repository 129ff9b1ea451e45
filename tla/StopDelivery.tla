---------------------------- MODULE StopDelivery ----------------------------
(***************************************************************************)
(* The emergency stop on its way to one robot: the latch (EmergencyStop),  *)
(* the stop and release commands its handlers queue for the device, and    *)
(* the polls that carry the latch and the commands to the gateway.         *)
(*                                                                         *)
(* The gateway is not part of the repository: it polls one request at a    *)
(* time and does what docs/DEVICE_GATEWAY_API.md asks of it.  A command it *)
(* has handled it skips, so acknowledgements (CommandDelivery) are left    *)
(* out: an answer holds the commands that are new to the robot.            *)
(***************************************************************************)
EXTENDS EmergencyStop, Sequences, Functions

VARIABLES
  log,    \* keys of the safety commands of the device, oldest first
  poll,   \* the poll of the gateway
  held,   \* the robot keeps its safe stop
  done,   \* keys of the commands the robot has handled
  heard   \* the robot took an answer asked for since said is "on"

robotVars == <<held, done>>
vars == <<latchVars, log, poll, held, done, heard>>

(***************************************************************************)
(* Idempotency keys.  trigger_estop names a cycle by its id.  A poll names *)
(* it by the time it was triggered, hence a key of its own, or "runtime"   *)
(* when Redis has no state (NoCycle).  A release names the cycle of the    *)
(* row, or "global" when it has none.                                      *)
(***************************************************************************)
StopKeys == ({"estop"} \X Cycles) \union ({"topup"} \X (Cycles \union {NoCycle}))
Keys     == StopKeys \union ({"release"} \X (Cycles \union {NoCycle}))

PollRow == [pc: {"idle", "read", "answered"}, flag: BOOLEAN,
            cycle: Cycles \union {NoCycle}, keys: SUBSET Keys, fresh: BOOLEAN]
NoPoll  == [pc |-> "idle", flag |-> FALSE, cycle |-> NoCycle, keys |-> {},
            fresh |-> FALSE]

\* queue_command: a key that exists already is not queued again.
Queue(k) == log' = IF k \in Range(log) THEN log ELSE Append(log, k)

Init ==
  /\ LatchInit
  /\ log = <<>> /\ poll = NoPoll /\ held = FALSE /\ done = {} /\ heard = FALSE

(***************************************************************************)
(* The steps of the latch, with the commands their transactions queue.     *)
(***************************************************************************)
Trigger(h) ==
  \/ BeginTrigger(h) /\ UNCHANGED <<log, poll, robotVars, heard>>
  \/ /\ CommitTrigger(h)
     /\ Queue(<<"estop", req[h].cycle>>)
     /\ UNCHANGED <<poll, robotVars, heard>>

Recover(h) ==
  \/ /\ BeginRecover(h)
     /\ heard' = FALSE
     /\ UNCHANGED <<log, poll, robotVars>>
  \/ /\ CommitRecover(h)
     /\ Queue(<<"release", req[h].seen.cycle>>)
     /\ UNCHANGED <<poll, robotVars, heard>>

Proceed(h) ==
  /\ Load(h) \/ StoreState(h) \/ Answer(h) \/ Fail(h)
  /\ UNCHANGED <<log, poll, robotVars, heard>>

CrashPolled ==
  /\ Crash
  /\ poll' = IF poll.pc = "read" THEN NoPoll ELSE poll
  /\ UNCHANGED <<log, robotVars, heard>>

Recovered == (Restart \/ LoseRedis) /\ UNCHANGED <<log, poll, robotVars, heard>>

(***************************************************************************)
(* The device.                                                             *)
(***************************************************************************)
\* Variant: without a state in Redis there is no stop.
ReadFlagFromRedis(c) == mem /\ c # NoCycle

\* _global_estop_state: the memory decides, Redis only names the cycle.
ReadFlag(c) == mem

\* The first half of pull_gateway_commands; Redis may be out of reach.
ReadLatch ==
  /\ up /\ poll.pc = "idle"
  /\ \E c \in {redis, NoCycle} :
       poll' = [NoPoll EXCEPT !.pc = "read", !.flag = ReadFlag(c), !.cycle = c,
                              !.fresh = (said = "on")]
  /\ UNCHANGED <<latchVars, log, robotVars, heard>>

\* Variant: the queued stop is answered but not stored.
PollUnstored ==
  /\ up /\ poll.pc = "read"
  /\ poll' = [poll EXCEPT !.pc = "answered", !.cycle = NoCycle,
       !.keys = (Range(log) \ done)
                  \union (IF poll.flag THEN {<<"topup", poll.cycle>>} ELSE {})]
  /\ UNCHANGED <<latchVars, log, robotVars, heard>>

\* Variant: a poll that cannot name the cycle raises.
PollNamed ==
  /\ up /\ poll.pc = "read"
  /\ poll.flag => poll.cycle # NoCycle
  /\ IF poll.flag THEN Queue(<<"topup", poll.cycle>>) ELSE UNCHANGED log
  /\ poll' = [poll EXCEPT !.pc = "answered", !.cycle = NoCycle, !.keys = Range(log') \ done]
  /\ UNCHANGED <<latchVars, robotVars, heard>>

\* _ensure_global_estop_command, then the list of commands.
PollCommands ==
  /\ up /\ poll.pc = "read"
  /\ IF poll.flag THEN Queue(<<"topup", poll.cycle>>) ELSE UNCHANGED log
  /\ poll' = [poll EXCEPT !.pc = "answered", !.cycle = NoCycle, !.keys = Range(log') \ done]
  /\ UNCHANGED <<latchVars, robotVars, heard>>

\* An exception, a timeout of the gateway, or a lost response.
LosePoll ==
  /\ poll.pc # "idle"
  /\ poll' = NoPoll
  /\ UNCHANGED <<latchVars, log, robotVars, heard>>

Newest(keys) ==
  CHOOSE k \in keys : \E i \in DOMAIN log :
    /\ log[i] = k
    /\ \A j \in DOMAIN log : j > i => log[j] \notin keys

\* While the flag is set the robot holds, whatever else is in the list; else
\* new commands are obeyed in order.
Handle ==
  /\ poll.pc = "answered"
  /\ IF poll.flag
       THEN held' = TRUE /\ done' = done \union (poll.keys \intersect StopKeys)
       ELSE /\ held' = IF poll.keys = {} THEN held ELSE Newest(poll.keys) \in StopKeys
            /\ done' = done \union poll.keys
  /\ heard' = (heard \/ (poll.fresh /\ said = "on"))
  /\ poll' = NoPoll
  /\ UNCHANGED <<latchVars, log>>

Next ==
  \/ \E h \in Handlers : Trigger(h) \/ Recover(h) \/ Proceed(h)
  \/ CrashPolled \/ Recovered
  \/ ReadLatch \/ PollCommands \/ LosePoll \/ Handle

\* The process is started again, and the gateway never stops polling: an
\* answer gets through every so often.
Fairness ==
  /\ WF_vars(Recovered /\ up') /\ WF_vars(ReadLatch)
  /\ SF_vars(PollCommands) /\ SF_vars(Handle)

Spec == Init /\ [][Next]_vars /\ Fairness

(***************************************************************************)
(* Properties.                                                             *)
(***************************************************************************)
\* Types of the queue, the poll and the robot.
TypeOK ==
  /\ LatchTypeOK
  /\ log \in Seq(Keys) /\ poll \in PollRow
  /\ held \in BOOLEAN /\ done \in SUBSET Keys /\ heard \in BOOLEAN
  /\ done \subseteq Range(log)

\* The answers of polls (DEVICE_GATEWAY_API.md, global_estop_active): a robot
\* that took an answer asked for during an answered stop is held as long as the
\* stop is, even if commands of earlier cycles are still in the queue.
HeldUnderStop == said = "on" /\ heard => held

\* A stop whose trigger was answered reaches the robot, although polls fail,
\* answers get lost and the process is restarted.
StopReachesRobot == said = "on" ~> (held \/ said # "on")
=============================================================================
