------------------------- MODULE EmergencyStopProofs -------------------------
(***************************************************************************)
(* Proofs about the emergency stop: its types, the invariant that ties the *)
(* requests in progress to the stored latch, the refinement of StopLatch,  *)
(* and the hold of a robot that polls.                                     *)
(***************************************************************************)
EXTENDS StopDelivery, TLAPS

USE DEF NoCycle

(***************************************************************************)
(* The latch.                                                              *)
(***************************************************************************)
\* A request that ran without an opposite one: nobody else is about to undo
\* it, and what it has stored so far is still there.
Undisturbed(h) ==
  req[h].pc # "idle" /\ req[h].alone =>
    /\ \A g \in Handlers : req[g].pc # "idle" => req[g].kind = req[h].kind
    /\ req[h].kind = "on" =>
         /\ mem
         /\ req[h].pc = "commit" /\ req[h].seen.active => row.active
         /\ req[h].pc \in {"redis", "notify"} => row.active
    /\ req[h].kind = "off" =>
         /\ ~mem
         /\ req[h].pc = "commit" /\ ~req[h].seen.active => ~row.active
         /\ req[h].pc \in {"redis", "notify"} => ~row.active
         /\ req[h].pc = "notify" => redis = NoCycle

\* What was answered last is stored, and no request is about to change it.
AnsweredOn ==
  said = "on" =>
    /\ \A g \in Handlers : req[g].pc # "idle" => req[g].kind = "on"
    /\ row.active /\ (up => mem)

AnsweredOff ==
  said = "off" =>
    /\ \A g \in Handlers : req[g].pc # "idle" => req[g].kind = "off"
    /\ ~row.active /\ ~mem /\ redis = NoCycle

LatchInv ==
  /\ LatchTypeOK
  /\ \A h \in Handlers : Undisturbed(h)
  /\ AnsweredOn /\ AnsweredOff

LEMMA RowTypes == NoRow \in Row /\ NoRequest \in Request
BY DEF NoRow, NoRequest, Row, Request

LEMMA LatchInitially == LatchInit => LatchInv
<1> SUFFICES ASSUME LatchInit PROVE LatchInv
  OBVIOUS
<1>1. 0 \in 0..MaxCycles /\ 0 \in 0..MaxCrashes
  BY StopAssumption
<1>2. LatchTypeOK
  BY <1>1, RowTypes DEF LatchInit, LatchTypeOK, NoRow, NoRequest
<1> QED
  BY <1>2 DEF LatchInit, LatchInv, Undisturbed, AnsweredOn, AnsweredOff,
               NoRequest, NoRow

KindsFit == \A h \in Handlers : req[h].kind = "on" <=> req[h].cycle # NoCycle

LEMMA RunningIsUp ==
  ASSUME LatchTypeOK, NEW h \in Handlers, req[h].pc # "idle"
  PROVE  up
BY DEF LatchTypeOK, NoRequest

\* One step of the type invariant, for each action of the latch.
LEMMA LatchTypesKept ==
  ASSUME LatchTypeOK, [LatchNext]_latchVars
  PROVE  LatchTypeOK'
<1> USE RowTypes, StopAssumption
<1>1. ASSUME NEW h \in Handlers, BeginTrigger(h) PROVE LatchTypeOK'
  <2>1. triggers + 1 \in Cycles
    BY <1>1 DEF BeginTrigger, LatchTypeOK, Cycles
  <2>2. req' \in [Handlers -> Request]
    BY <1>1, <2>1 DEF BeginTrigger, Begin, LatchTypeOK, Request
  <2> QED
    BY <1>1, <2>1, <2>2 DEF BeginTrigger, Begin, LatchTypeOK, Cycles
<1>2. ASSUME NEW h \in Handlers, BeginRecover(h) PROVE LatchTypeOK'
  <2>1. req' \in [Handlers -> Request]
    BY <1>2 DEF BeginRecover, Begin, LatchTypeOK, Request
  <2> QED
    BY <1>2, <2>1 DEF BeginRecover, Begin, LatchTypeOK
<1>3. ASSUME NEW h \in Handlers, Load(h) PROVE LatchTypeOK'
  <2>1. req' \in [Handlers -> Request]
    BY <1>3 DEF Load, LatchTypeOK, Request
  <2>2. up
    BY <1>3, RunningIsUp DEF Load
  <2>4. KindsFit'
    BY <1>3, <2>1 DEF Load, LatchTypeOK, KindsFit
  <2> QED
    BY <1>3, <2>1, <2>2, <2>4 DEF Load, LatchTypeOK, KindsFit
<1>4. ASSUME NEW h \in Handlers, CommitTrigger(h) PROVE LatchTypeOK'
  <2>1. req' \in [Handlers -> Request] /\ req[h] \in Request
    BY <1>4 DEF CommitTrigger, LatchTypeOK, Request
  <2>2. up
    BY <1>4, RunningIsUp DEF CommitTrigger
  <2>4. KindsFit'
    BY <1>4, <2>1 DEF CommitTrigger, LatchTypeOK, KindsFit
  <2>3. row' \in Row /\ row'.there /\ row'.cycle # NoCycle
    BY <1>4, <2>1 DEF CommitTrigger, StoppedRow, LatchTypeOK, Row, Request
  <2> QED
    BY <1>4, <2>1, <2>2, <2>3, <2>4 DEF CommitTrigger, LatchTypeOK, KindsFit
<1>5. ASSUME NEW h \in Handlers, CommitRecover(h) PROVE LatchTypeOK'
  <2>1. req' \in [Handlers -> Request] /\ req[h] \in Request
    BY <1>5 DEF CommitRecover, LatchTypeOK, Request
  <2>2. up
    BY <1>5, RunningIsUp DEF CommitRecover
  <2>4. KindsFit'
    BY <1>5, <2>1 DEF CommitRecover, LatchTypeOK, KindsFit
  <2>3. row' \in Row /\ (row'.active => row'.there /\ row'.cycle # NoCycle)
    BY <1>5, <2>1 DEF CommitRecover, LatchTypeOK, Row
  <2> QED
    BY <1>5, <2>1, <2>2, <2>3, <2>4 DEF CommitRecover, LatchTypeOK, KindsFit
<1>6. ASSUME NEW h \in Handlers, StoreState(h) PROVE LatchTypeOK'
  <2>1. req' \in [Handlers -> Request] /\ req[h] \in Request
    BY <1>6 DEF StoreState, LatchTypeOK, Request
  <2>2. up
    BY <1>6, RunningIsUp DEF StoreState
  <2>4. KindsFit'
    BY <1>6, <2>1 DEF StoreState, LatchTypeOK, KindsFit
  <2>3. redis' \in Cycles \union {NoCycle}
    BY <1>6, <2>1 DEF StoreState, Request
  <2> QED
    BY <1>6, <2>1, <2>2, <2>3, <2>4 DEF StoreState, LatchTypeOK, KindsFit
<1>7. ASSUME NEW h \in Handlers, Answer(h) \/ Fail(h) PROVE LatchTypeOK'
  <2>1. req' \in [Handlers -> Request] /\ req[h] \in Request
    BY <1>7 DEF Answer, Fail, LatchTypeOK
  <2>2. up
    BY <1>7, RunningIsUp DEF Answer, Fail
  <2>4. KindsFit'
    BY <1>7, <2>1 DEF Answer, Fail, LatchTypeOK, KindsFit, NoRequest
  <2>3. said' \in {"on", "off", "unsure"}
    BY <1>7, <2>1 DEF Answer, Fail, LatchTypeOK, Request
  <2> QED
    BY <1>7, <2>1, <2>2, <2>3, <2>4 DEF Answer, Fail, LatchTypeOK, KindsFit
<1>8. CASE Crash
  <2>1. req' \in [Handlers -> Request] /\ \A h \in Handlers : req'[h] = NoRequest
    BY <1>8 DEF Crash
  <2>2. crashes' \in 0..MaxCrashes
    BY <1>8 DEF Crash, LatchTypeOK
  <2> QED
    BY <1>8, <2>1, <2>2 DEF Crash, LatchTypeOK, NoRequest
<1>10. CASE Restart \/ LoseRedis
  BY <1>10 DEF Restart, LoseRedis, Restored, LatchTypeOK
<1>9. CASE UNCHANGED latchVars
  BY <1>9 DEF latchVars, LatchTypeOK
<1> QED
  BY <1>1, <1>2, <1>3, <1>4, <1>5, <1>6, <1>7, <1>8, <1>9, <1>10 DEF LatchNext

(***************************************************************************)
(* The invariant of the latch.                                             *)
(***************************************************************************)
LEMMA LatchInvKept ==
  ASSUME LatchInv, [LatchNext]_latchVars
  PROVE  LatchInv'
<1>0. LatchTypeOK /\ LatchTypeOK'
  BY LatchTypesKept DEF LatchInv
<1>1. ASSUME NEW h \in Handlers, NEW kind \in {"on", "off"},
             NEW cycle, Begin(h, kind, cycle)
      PROVE  LatchInv'
  <2>1. \A g \in Handlers : req'[g].pc # "idle" /\ req'[g].alone
          => \A f \in Handlers : req'[f].pc # "idle" => req'[f].kind = req'[g].kind
    BY <1>0, <1>1 DEF Begin, LatchInv, Undisturbed, InProgress, Opposite, LatchTypeOK, Request
  <2>4. mem' <=> kind = "on"
    BY <1>1 DEF Begin
  <2>5. \A g \in Handlers :
          IF g = h THEN req'[g].kind = kind /\ req'[g].pc = "load"
                   ELSE /\ req'[g].kind = req[g].kind /\ req'[g].pc = req[g].pc
                        /\ req'[g].seen = req[g].seen
                        /\ req'[g].alone => req[g].alone /\ req[g].kind = kind
    BY <1>0, <1>1 DEF Begin, LatchTypeOK, Request
  <2>2. ASSUME NEW g \in Handlers PROVE Undisturbed(g)'
    <3>1. CASE g = h
      BY <1>1, <2>1, <2>4, <2>5, <3>1 DEF Undisturbed
    <3>2. CASE g # h
      BY <1>0, <1>1, <2>1, <2>4, <2>5, <3>2 DEF Begin, LatchInv, Undisturbed
    <3> QED
      BY <3>1, <3>2
  <2>3. AnsweredOn' /\ AnsweredOff'
    BY <1>0, <1>1 DEF Begin, LatchInv, AnsweredOn, AnsweredOff, LatchTypeOK, Request
  <2> QED
    BY <1>0, <2>2, <2>3 DEF LatchInv
<1>2. ASSUME NEW h \in Handlers, Load(h) PROVE LatchInv'
  <2>3. \A g \in Handlers :
          /\ req'[g].kind = req[g].kind /\ req'[g].alone = req[g].alone
          /\ IF g = h THEN req'[g].pc = "commit" /\ req'[g].seen = row
                      ELSE req'[g].pc = req[g].pc /\ req'[g].seen = req[g].seen
    BY <1>0, <1>2 DEF Load, LatchTypeOK, Request
  <2>4. Undisturbed(h)'
    BY <1>0, <1>2, <2>3 DEF Load, LatchInv, Undisturbed
  <2>5. ASSUME NEW g \in Handlers, g # h PROVE Undisturbed(g)'
    BY <1>0, <1>2, <2>3, <2>5 DEF Load, LatchInv, Undisturbed
  <2>1. \A g \in Handlers : Undisturbed(g)'
    BY <2>4, <2>5
  <2>2. AnsweredOn' /\ AnsweredOff'
    BY <1>0, <1>2 DEF Load, LatchInv, AnsweredOn, AnsweredOff, LatchTypeOK
  <2> QED
    BY <1>0, <2>1, <2>2 DEF LatchInv
<1>3. ASSUME NEW h \in Handlers, CommitTrigger(h) PROVE LatchInv'
  <2>3. row'.active <=> (req[h].seen.active => row.active)
    BY <1>0, <1>3 DEF CommitTrigger, StoppedRow, LatchTypeOK, Row, Request
  <2>4. \A g \in Handlers :
          /\ req'[g].kind = req[g].kind /\ req'[g].alone = req[g].alone
          /\ IF g = h THEN req'[g].pc = "redis"
                      ELSE req'[g].pc = req[g].pc /\ req'[g].seen = req[g].seen
    BY <1>0, <1>3 DEF CommitTrigger, LatchTypeOK, Request
  <2>5. Undisturbed(h)'
    BY <1>0, <1>3, <2>3, <2>4 DEF CommitTrigger, LatchInv, Undisturbed
  <2>6. ASSUME NEW g \in Handlers, g # h PROVE Undisturbed(g)'
    BY <1>0, <1>3, <2>3, <2>4, <2>6 DEF CommitTrigger, LatchInv, Undisturbed
  <2>1. \A g \in Handlers : Undisturbed(g)'
    BY <2>5, <2>6
  <2>2. AnsweredOn' /\ AnsweredOff'
    BY <1>0, <1>3 DEF CommitTrigger, StoppedRow, LatchInv, AnsweredOn, AnsweredOff, LatchTypeOK
  <2> QED
    BY <1>0, <2>1, <2>2 DEF LatchInv
<1>4. ASSUME NEW h \in Handlers, CommitRecover(h) PROVE LatchInv'
  <2>3. row'.active <=> (row.active /\ ~req[h].seen.active)
    BY <1>0, <1>4 DEF CommitRecover, LatchTypeOK, Row, Request
  <2>4. \A g \in Handlers :
          /\ req'[g].kind = req[g].kind /\ req'[g].alone = req[g].alone
          /\ IF g = h THEN req'[g].pc = "redis"
                      ELSE req'[g].pc = req[g].pc /\ req'[g].seen = req[g].seen
    BY <1>0, <1>4 DEF CommitRecover, LatchTypeOK, Request
  <2>5. Undisturbed(h)'
    BY <1>0, <1>4, <2>3, <2>4 DEF CommitRecover, LatchInv, Undisturbed, LatchTypeOK, Request, Row
  <2>6. ASSUME NEW g \in Handlers, g # h PROVE Undisturbed(g)'
    BY <1>0, <1>4, <2>3, <2>4, <2>6 DEF CommitRecover, LatchInv, Undisturbed, LatchTypeOK, Request, Row
  <2>1. \A g \in Handlers : Undisturbed(g)'
    BY <2>5, <2>6
  <2>2. AnsweredOn' /\ AnsweredOff'
    BY <1>0, <1>4 DEF CommitRecover, LatchInv, AnsweredOn, AnsweredOff, LatchTypeOK, Row
  <2> QED
    BY <1>0, <2>1, <2>2 DEF LatchInv
<1>5. ASSUME NEW h \in Handlers, StoreState(h) PROVE LatchInv'
  <2>1. \A g \in Handlers : Undisturbed(g)'
    BY <1>0, <1>5 DEF StoreState, LatchInv, Undisturbed, LatchTypeOK, Request
  <2>2. AnsweredOn' /\ AnsweredOff'
    BY <1>0, <1>5 DEF StoreState, LatchInv, AnsweredOn, AnsweredOff, LatchTypeOK, Request
  <2> QED
    BY <1>0, <2>1, <2>2 DEF LatchInv
<1>6. ASSUME NEW h \in Handlers, Answer(h) \/ Fail(h) PROVE LatchInv'
  <2>1. \A g \in Handlers : Undisturbed(g)'
    BY <1>0, <1>6 DEF Answer, Fail, LatchInv, Undisturbed, LatchTypeOK, NoRequest
  <2>2. AnsweredOn' /\ AnsweredOff'
    BY <1>0, <1>6 DEF Answer, Fail, LatchInv, Undisturbed, AnsweredOn, AnsweredOff,
                      LatchTypeOK, NoRequest, Request
  <2> QED
    BY <1>0, <2>1, <2>2 DEF LatchInv
<1>7. CASE Crash
  BY <1>0, <1>7 DEF Crash, LatchInv, Undisturbed, AnsweredOn, AnsweredOff, NoRequest
<1>8. CASE Restart
  <2>1. \A g \in Handlers : req[g].pc = "idle"
    BY <1>0, <1>8 DEF Restart, LatchTypeOK, NoRequest
  <2> QED
    BY <1>0, <1>8, <2>1 DEF Restart, Restored, LatchInv, Undisturbed, AnsweredOn, AnsweredOff
<1>9. CASE LoseRedis
  BY <1>0, <1>9 DEF LoseRedis, LatchInv, Undisturbed, AnsweredOn, AnsweredOff
<1>10. CASE UNCHANGED latchVars
  BY <1>0, <1>10 DEF latchVars, LatchInv, Undisturbed, AnsweredOn, AnsweredOff
<1> QED
  BY <1>1, <1>2, <1>3, <1>4, <1>5, <1>6, <1>7, <1>8, <1>9, <1>10
     DEF LatchNext, BeginTrigger, BeginRecover

\* The inductive invariant of the latch holds in every reachable state.
THEOREM LatchInvariance == LatchSpec => []LatchInv
<1>1. LatchInit => LatchInv
  BY LatchInitially
<1>2. LatchInv /\ [LatchNext]_latchVars => LatchInv'
  BY LatchInvKept
<1> QED
  BY <1>1, <1>2, PTL DEF LatchSpec

(***************************************************************************)
(* The refinement of StopLatch.                                            *)
(***************************************************************************)
\* Every step of the latch is a step of the promise, or none.
LEMMA LatchStepsKeepThePromise ==
  ASSUME LatchInv, LatchInv', [LatchNext]_latchVars
  PROVE  [Promise!Next]_<<Latched, said>>
<1>0. Latched \in BOOLEAN /\ Latched' \in BOOLEAN
  BY DEF Latched, LatchInv, LatchTypeOK, Row
<1>1. ASSUME NEW h \in Handlers, NEW kind \in {"on", "off"},
             NEW cycle, Begin(h, kind, cycle)
      PROVE  Promise!Ask \/ UNCHANGED <<Latched, said>>
  <2>1. CASE said = kind
    BY <1>1, <2>1 DEF Begin, Latched, LatchInv, AnsweredOn, AnsweredOff, LatchTypeOK
  <2>2. CASE said # kind
    BY <1>0, <1>1, <2>2 DEF Begin, Promise!Ask
  <2> QED
    BY <2>1, <2>2
<1>2. ASSUME NEW h \in Handlers, Answer(h)
      PROVE  Promise!Answer \/ UNCHANGED <<Latched, said>>
  <2>1. UNCHANGED Latched
    BY <1>2 DEF Answer, Latched
  <2>2. CASE ~req[h].alone
    BY <1>2, <2>1, <2>2 DEF Answer
  <2>3. CASE req[h].alone
    <3>1. up
      BY <1>2, RunningIsUp DEF Answer, LatchInv
    <3>2. said' = Promise!Word(Latched)
      BY <1>2, <2>3, <3>1 DEF Answer, LatchInv, Undisturbed, LatchTypeOK, Request, Latched,
                              Promise!Word
    <3> QED
      BY <2>1, <3>2 DEF Promise!Answer
  <2> QED
    BY <2>2, <2>3
<1>3. ASSUME NEW h \in Handlers, Load(h) \/ Fail(h) \/ CommitTrigger(h)
                                 \/ CommitRecover(h) \/ StoreState(h)
      PROVE  UNCHANGED <<Latched, said>>
  <2>1. up
    BY <1>3, RunningIsUp DEF Load, Fail, CommitTrigger, CommitRecover, StoreState, LatchInv
  <2> QED
    BY <1>3, <2>1 DEF Load, Fail, CommitTrigger, CommitRecover, StoreState, Latched
<1>4. CASE Crash \/ Restart \/ LoseRedis
  <2>1. UNCHANGED said
    BY <1>4 DEF Crash, Restart, LoseRedis
  <2>2. CASE said = "unsure"
    BY <1>0, <2>1, <2>2 DEF Promise!Settle, Promise!Next
  <2>3. CASE said = "on"
    <3>1. Latched /\ Latched'
      BY <1>4, <2>1, <2>3 DEF Crash, Restart, LoseRedis, Restored, Latched, LatchInv, AnsweredOn
    <3> QED
      BY <1>0, <2>1, <3>1
  <2>4. CASE said = "off"
    <3>1. ~Latched /\ ~Latched'
      BY <1>4, <2>1, <2>4 DEF Crash, Restart, LoseRedis, Restored, Latched, LatchInv, AnsweredOff
    <3> QED
      BY <1>0, <2>1, <3>1
  <2> QED
    BY <2>2, <2>3, <2>4 DEF LatchInv, LatchTypeOK
<1>5. CASE UNCHANGED latchVars
  BY <1>5 DEF latchVars, Latched
<1> QED
  BY <1>1, <1>2, <1>3, <1>4, <1>5
     DEF LatchNext, BeginTrigger, BeginRecover, Promise!Next

\* The latch of memory, row and Redis implements the promise of StopLatch.
THEOREM DurableLatch == LatchSpec => LatchIsDurable
<1>1. LatchInit => Promise!Init
  BY DEF LatchInit, Promise!Init, Latched
<1>2. LatchInv /\ LatchInv' /\ [LatchNext]_latchVars => [Promise!Next]_<<Latched, said>>
  BY LatchStepsKeepThePromise
<1> QED
  BY <1>1, <1>2, LatchInvariance, PTL DEF LatchSpec, LatchIsDurable, Promise!Spec

\* The types of the latch, for any number of handlers, cycles and crashes.
THEOREM LatchTypes == LatchSpec => []LatchTypeOK
<1>1. LatchInv => LatchTypeOK
  BY DEF LatchInv
<1> QED
  BY <1>1, LatchInvariance, PTL

(***************************************************************************)
(* The robot.                                                              *)
(***************************************************************************)
\* An answer lists commands of the log; one asked for during an answered stop
\* carries the flag, and a robot that took one has no older answer to come.
RobotInv ==
  /\ log \in Seq(Keys) /\ poll \in PollRow
  /\ held \in BOOLEAN /\ done \in SUBSET Keys /\ heard \in BOOLEAN
  /\ done \subseteq Range(log) /\ poll.keys \subseteq Range(log)
  /\ poll.fresh => poll.flag
  /\ heard => held /\ said = "on" /\ (poll.pc # "idle" => poll.fresh)

LEMMA QueueExtends ==
  ASSUME NEW k \in Keys, log \in Seq(Keys), Queue(k)
  PROVE  /\ log' \in Seq(Keys) /\ Range(log) \subseteq Range(log')
         /\ Range(log') \subseteq Range(log) \union {k}
<1>1. CASE k \in Range(log)
  BY <1>1 DEF Queue
<1>2. CASE k \notin Range(log)
  <2>1. log' = Append(log, k)
    BY <1>2 DEF Queue
  <2>2. log' \in Seq(Keys) /\ Len(log') = Len(log) + 1 /\ log'[Len(log) + 1] = k
    BY <2>1
  <2>3. \A i \in 1..Len(log) : log'[i] = log[i]
    BY <2>1
  <2>4. DOMAIN log = 1..Len(log) /\ DOMAIN log' = 1..(Len(log) + 1) /\ Len(log) \in Nat
    BY <2>2
  <2> QED
    BY <2>2, <2>3, <2>4 DEF Range
<1> QED
  BY <1>1, <1>2

LEMMA PollTypes == NoPoll \in PollRow
BY DEF NoPoll, PollRow

LEMMA RobotInitially == Init => RobotInv
<1> SUFFICES ASSUME Init PROVE RobotInv
  OBVIOUS
<1>1. log \in Seq(Keys) /\ poll \in PollRow
  BY PollTypes DEF Init
<1>2. poll.keys = {} /\ poll.fresh = FALSE
  BY DEF Init, NoPoll
<1> QED
  BY <1>1, <1>2 DEF Init, RobotInv

LEMMA RobotInvKept ==
  ASSUME LatchInv, RobotInv, [Next]_vars
  PROVE  RobotInv'
<1> USE DEF robotVars
<1>1. ASSUME NEW h \in Handlers, BeginTrigger(h), UNCHANGED <<log, poll, robotVars, heard>>
      PROVE  RobotInv'
  BY <1>1 DEF BeginTrigger, Begin, RobotInv
<1>2. ASSUME NEW h \in Handlers, BeginRecover(h), heard' = FALSE,
             UNCHANGED <<log, poll, robotVars>>
      PROVE  RobotInv'
  BY <1>2 DEF RobotInv
<1>3. ASSUME NEW h \in Handlers, NEW k \in Keys, Queue(k), UNCHANGED said,
             UNCHANGED <<poll, robotVars, heard>>
      PROVE  RobotInv'
  BY <1>3, QueueExtends DEF RobotInv
<1>4. ASSUME NEW h \in Handlers, CommitTrigger(h)
      PROVE  <<"estop", req[h].cycle>> \in Keys /\ UNCHANGED said
  <2>1. req[h] \in Request /\ req[h].cycle # NoCycle
    BY <1>4 DEF CommitTrigger, LatchInv, LatchTypeOK
  <2> QED
    BY <1>4, <2>1 DEF CommitTrigger, Request, Keys, StopKeys
<1>5. ASSUME NEW h \in Handlers, CommitRecover(h)
      PROVE  <<"release", req[h].seen.cycle>> \in Keys /\ UNCHANGED said
  <2>1. req[h] \in Request
    BY <1>5 DEF CommitRecover, LatchInv, LatchTypeOK
  <2> QED
    BY <1>5, <2>1 DEF CommitRecover, Request, Row, Keys
<1>6. ASSUME NEW h \in Handlers, Proceed(h) PROVE RobotInv'
  <2>1. heard => said' = "on"
    BY <1>6 DEF Proceed, Load, StoreState, Answer, Fail, RobotInv, LatchInv, AnsweredOn,
                LatchTypeOK, NoRequest
  <2> QED
    BY <1>6, <2>1 DEF Proceed, RobotInv
<1>7. CASE CrashPolled
  BY <1>7, PollTypes DEF CrashPolled, Crash, RobotInv, NoPoll
<1>8. CASE Recovered
  BY <1>8 DEF Recovered, Restart, LoseRedis, RobotInv
<1>9. CASE ReadLatch
  <2>1. PICK c \in {redis, NoCycle} :
          poll' = [NoPoll EXCEPT !.pc = "read", !.flag = ReadFlag(c), !.cycle = c,
                                 !.fresh = (said = "on")]
    BY <1>9 DEF ReadLatch
  <2>2. poll' \in PollRow /\ poll'.keys = {} /\ poll'.pc = "read"
    BY <2>1 DEF ReadFlag, NoPoll, PollRow, LatchInv, LatchTypeOK
  <2>3. poll'.fresh <=> said = "on"
    BY <2>1 DEF NoPoll
  <2>4. poll'.flag <=> mem
    BY <2>1 DEF NoPoll, ReadFlag
  <2>5. said = "on" => mem
    BY <1>9 DEF ReadLatch, LatchInv, AnsweredOn
  <2> QED
    BY <1>9, <2>2, <2>3, <2>4, <2>5 DEF ReadLatch, latchVars, RobotInv
<1>10. CASE PollCommands
  <2>1. <<"topup", poll.cycle>> \in Keys
    BY DEF RobotInv, PollRow, Keys, StopKeys
  <2>2. /\ log' \in Seq(Keys) /\ Range(log) \subseteq Range(log')
        /\ Range(log') \subseteq Keys
    <3>1. Range(log) \subseteq Keys
      BY DEF RobotInv, Range
    <3> QED
      BY <1>10, <2>1, <3>1, QueueExtends DEF PollCommands, RobotInv
  <2>3. /\ poll' \in PollRow /\ poll'.keys \subseteq Range(log')
        /\ poll'.fresh = poll.fresh /\ poll'.flag = poll.flag
    BY <1>10, <2>2 DEF PollCommands, RobotInv, PollRow
  <2> QED
    BY <1>10, <2>2, <2>3 DEF PollCommands, latchVars, RobotInv
<1>11. CASE LosePoll
  BY <1>11, PollTypes DEF LosePoll, latchVars, RobotInv, NoPoll
<1>12. CASE Handle
  <2>1. done' \in SUBSET Keys /\ done' \subseteq Range(log')
    BY <1>12 DEF Handle, RobotInv, PollRow
  <2>2. held' \in BOOLEAN /\ heard' \in BOOLEAN
    <3>1. CASE poll.flag
      BY <1>12, <3>1 DEF Handle, RobotInv
    <3>2. CASE ~poll.flag
      <4>1. held' = IF poll.keys = {} THEN held ELSE Newest(poll.keys) \in StopKeys
        BY <1>12, <3>2 DEF Handle
      <4>2. CASE poll.keys = {}
        BY <1>12, <4>1, <4>2 DEF Handle, RobotInv
      <4>3. CASE poll.keys # {}
        <5> DEFINE stop == Newest(poll.keys) \in StopKeys
        <5>1. stop \in BOOLEAN
          OBVIOUS
        <5> HIDE DEF stop
        <5>2. held' \in BOOLEAN
          <6>1. held' = stop
            BY <4>1, <4>3 DEF stop
          <6> QED
            BY <5>1, <6>1
        <5> QED
          BY <1>12, <5>2 DEF Handle
      <4> QED
        BY <4>2, <4>3
    <3> QED
      BY <3>1, <3>2
  <2>3. heard' => poll.fresh /\ said = "on" /\ held'
    BY <1>12 DEF Handle, RobotInv
  <2> QED
    BY <1>12, <2>1, <2>2, <2>3, PollTypes DEF Handle, latchVars, RobotInv, NoPoll
<1>13. CASE UNCHANGED vars
  BY <1>13 DEF vars, latchVars, RobotInv
<1> QED
  BY <1>1, <1>2, <1>3, <1>4, <1>5, <1>6, <1>7, <1>8, <1>9, <1>10, <1>11, <1>12, <1>13
     DEF Next, Trigger, Recover

\* Every step of the composition is a step of the latch, or none.
LEMMA DeliveryStepsAreLatchSteps ==
  ASSUME [Next]_vars PROVE [LatchNext]_latchVars
BY DEF Next, vars, Trigger, Recover, Proceed, CrashPolled, Recovered, ReadLatch, PollCommands,
       LosePoll, Handle, LatchNext

\* The composition runs the latch: what is proved of it holds here.
THEOREM DeliveryRunsTheLatch == Spec => LatchSpec
<1>1. Init => LatchInit
  BY DEF Init
<1>2. [Next]_vars => [LatchNext]_latchVars
  BY DeliveryStepsAreLatchSteps
<1> QED
  BY <1>1, <1>2, PTL DEF Spec, LatchSpec

\* The invariant that ties the robot's hold to the answers on their way.
THEOREM RobotInvariance == Spec => []RobotInv
<1>1. Init => RobotInv
  BY RobotInitially
<1>2. LatchInv /\ RobotInv /\ [Next]_vars => RobotInv'
  BY RobotInvKept
<1> QED
  BY <1>1, <1>2, DeliveryRunsTheLatch, LatchInvariance, PTL DEF Spec

\* The types of queue, poll and robot, for any handlers, cycles and crashes.
THEOREM DeliveryTypes == Spec => []TypeOK
<1>1. RobotInv /\ LatchTypeOK => TypeOK
  BY DEF RobotInv, TypeOK
<1> QED
  BY <1>1, RobotInvariance, DeliveryRunsTheLatch, LatchTypes, PTL

\* A robot that took an answer asked for during an answered stop stays held.
THEOREM RobotsStayHeld == Spec => []HeldUnderStop
<1>1. RobotInv => HeldUnderStop
  BY DEF RobotInv, HeldUnderStop
<1> QED
  BY <1>1, RobotInvariance, PTL
=============================================================================
