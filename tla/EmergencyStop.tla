---------------------------- MODULE EmergencyStop ----------------------------
(***************************************************************************)
(* The latch of the global emergency stop: in the memory of the one        *)
(* backend process, in the safety_states row and in Redis.                 *)
(*                                                                         *)
(* Trigger and recovery requests are handlers of one event loop: each      *)
(* await is a point where another handler or a crash may come in between,  *)
(* and each may end in an exception.  The commands the handlers queue for  *)
(* the devices are in StopDelivery, which extends this module.             *)
(***************************************************************************)
EXTENDS Integers

CONSTANTS
  Handlers,   \* bound: requests that may be in progress at once
  MaxCycles,  \* bound: stops triggered in a behaviour
  MaxCrashes  \* bound: crashes of the backend in a behaviour

ASSUME StopAssumption == MaxCycles \in Nat /\ MaxCrashes \in Nat

VARIABLES
  up,        \* the backend process runs
  mem,       \* RuntimeContext.estop_active
  row,       \* the safety_states row "global"
  redis,     \* the cycle of the active state kept in Redis, or NoCycle
  req,       \* trigger and recovery requests in progress
  triggers,  \* number of stop cycles begun
  crashes,   \* number of crashes
  said       \* what the operators know of the latch

latchVars == <<up, mem, row, redis, req, triggers, crashes, said>>

NoCycle == 0
Cycles  == 1..MaxCycles

Row     == [there: BOOLEAN, active: BOOLEAN, cycle: Cycles \union {NoCycle}]
NoRow   == [there |-> FALSE, active |-> FALSE, cycle |-> NoCycle]
Request == [kind: {"on", "off"}, pc: {"idle", "load", "commit", "redis", "notify"},
            cycle: Cycles \union {NoCycle}, seen: Row, alone: BOOLEAN]
NoRequest == [kind |-> "off", pc |-> "idle", cycle |-> NoCycle, seen |-> NoRow,
              alone |-> FALSE]

LatchInit ==
  /\ up = TRUE /\ mem = FALSE /\ row = NoRow /\ redis = NoCycle
  /\ req = [h \in Handlers |-> NoRequest]
  /\ triggers = 0 /\ crashes = 0 /\ said = "off"

(***************************************************************************)
(* Requests of the operators.                                              *)
(***************************************************************************)
InProgress(kind) == {h \in Handlers : req[h].pc # "idle" /\ req[h].kind = kind}
Opposite(kind)   == IF kind = "on" THEN "off" ELSE "on"

\* Up to the first await.  The answer will count as knowledge only when no
\* request for the opposite was in progress with this one.
Begin(h, kind, cycle) ==
  /\ up /\ req[h].pc = "idle"
  /\ mem' = (kind = "on")
  /\ req' = [g \in Handlers |->
       IF g = h
         THEN [kind |-> kind, pc |-> "load", cycle |-> cycle, seen |-> NoRow,
               alone |-> InProgress(Opposite(kind)) = {}]
         ELSE [req[g] EXCEPT !.alone = @ /\ req[g].kind = kind]]
  /\ said' = IF said = kind THEN said ELSE "unsure"
  /\ UNCHANGED <<up, row, redis, crashes>>

BeginTrigger(h) ==
  /\ triggers < MaxCycles
  /\ triggers' = triggers + 1
  /\ Begin(h, "on", triggers + 1)

BeginRecover(h) == Begin(h, "off", NoCycle) /\ UNCHANGED triggers

\* The first read of the transaction, without a lock.
Load(h) ==
  /\ req[h].pc = "load"
  /\ req' = [req EXCEPT ![h] = [@ EXCEPT !.pc = "commit", !.seen = row]]
  /\ UNCHANGED <<up, mem, row, redis, triggers, crashes, said>>

\* Variant: only the state in Redis is switched on.
StoppedCycleOnly(h) == [row EXCEPT !.there = TRUE, !.cycle = req[h].cycle]

\* The UPDATE holds the attributes that differ from the row that was read.
StoppedRow(h) ==
  [there  |-> TRUE,
   active |-> IF req[h].seen.active THEN row.active ELSE TRUE,
   cycle  |-> req[h].cycle]

\* A row that was not there is inserted, and a second insert is refused.
CommitTrigger(h) ==
  /\ req[h].pc = "commit" /\ req[h].kind = "on"
  /\ row.there => req[h].seen.there
  /\ row' = StoppedRow(h)
  /\ req' = [req EXCEPT ![h] = [@ EXCEPT !.pc = "redis", !.seen = NoRow]]
  /\ UNCHANGED <<up, mem, redis, triggers, crashes, said>>

CommitRecover(h) ==
  /\ req[h].pc = "commit" /\ req[h].kind = "off"
  /\ row' = IF req[h].seen.active THEN [row EXCEPT !.active = FALSE] ELSE row
  /\ req' = [req EXCEPT ![h] = [@ EXCEPT !.pc = "redis", !.seen = NoRow]]
  /\ UNCHANGED <<up, mem, redis, triggers, crashes, said>>

\* A trigger sets the state, a recovery deletes it.
StoreState(h) ==
  /\ req[h].pc = "redis"
  /\ redis' = req[h].cycle
  /\ req' = [req EXCEPT ![h].pc = "notify"]
  /\ UNCHANGED <<up, mem, row, triggers, crashes, said>>

\* Notices and the alert are out; the operator gets the answer.
Answer(h) ==
  /\ req[h].pc = "notify"
  /\ req' = [req EXCEPT ![h] = NoRequest]
  /\ said' = IF req[h].alone THEN req[h].kind ELSE said
  /\ UNCHANGED <<up, mem, row, redis, triggers, crashes>>

\* An await raises (database, Redis), or the answer is lost.
Fail(h) ==
  /\ req[h].pc # "idle"
  /\ req' = [req EXCEPT ![h] = NoRequest]
  /\ UNCHANGED <<up, mem, row, redis, triggers, crashes, said>>

(***************************************************************************)
(* The backend process and Redis.                                          *)
(***************************************************************************)
Crash ==
  /\ up /\ crashes < MaxCrashes
  /\ up' = FALSE /\ mem' = FALSE
  /\ crashes' = crashes + 1
  /\ req' = [h \in Handlers |-> NoRequest]
  /\ UNCHANGED <<row, redis, triggers, said>>

\* Variant: the state in Redis is all that is restored.
RestoredFromRedis == redis # NoCycle

\* _restore_estop_state
Restored == row.active \/ redis # NoCycle

\* RuntimeContext.start, before the scheduler and the first request.
Restart ==
  /\ ~up
  /\ up' = TRUE /\ mem' = Restored
  /\ UNCHANGED <<row, redis, req, triggers, crashes, said>>

LoseRedis ==
  /\ redis' = NoCycle
  /\ UNCHANGED <<up, mem, row, req, triggers, crashes, said>>

LatchNext ==
  \/ \E h \in Handlers :
       \/ BeginTrigger(h) \/ BeginRecover(h) \/ Load(h) \/ CommitTrigger(h)
       \/ CommitRecover(h) \/ StoreState(h) \/ Answer(h) \/ Fail(h)
  \/ Crash \/ Restart \/ LoseRedis

LatchSpec == LatchInit /\ [][LatchNext]_latchVars

(***************************************************************************)
(* Properties.                                                             *)
(***************************************************************************)
\* Types, checked as a part of StopDelivery's; a process that is down keeps no
\* latch in memory and no request, only triggers have a cycle, and an active row
\* names the cycle that its release commands will be keyed by.
LatchTypeOK ==
  /\ up \in BOOLEAN /\ mem \in BOOLEAN /\ row \in Row
  /\ redis \in Cycles \union {NoCycle}
  /\ req \in [Handlers -> Request]
  /\ triggers \in 0..MaxCycles /\ crashes \in 0..MaxCrashes
  /\ said \in {"on", "off", "unsure"}
  /\ ~up => mem = FALSE /\ \A h \in Handlers : req[h] = NoRequest
  /\ \A h \in Handlers : req[h].kind = "on" <=> req[h].cycle # NoCycle
  /\ row.active => row.there /\ row.cycle # NoCycle

\* The latch: that of the running process, or the one the next start restores.
Latched == IF up THEN mem ELSE row.active \/ redis # NoCycle

Promise == INSTANCE StopLatch WITH latch <- Latched, said <- said

\* The durable latch (models.py SafetyState, trigger_estop, recover_estop): an
\* answered stop or recovery holds, whatever crashes, restarts, failed requests
\* and losses of Redis follow, until somebody asks for the opposite.
LatchIsDurable == Promise!Spec
=============================================================================
