----------------------- MODULE TelemetryIntakeProofs -----------------------
(***************************************************************************)
(* Proofs about the requests of the gateway: a report counts once, and the *)
(* device shows the newest of the boot it shows, but for reports that were *)
(* under way together.                                                     *)
(***************************************************************************)
EXTENDS TelemetryIntake, FiniteSetTheorems, TLAPS

USE IntakeAssumption DEF Offline

(***************************************************************************)
(* Types.                                                                  *)
(***************************************************************************)
RequestRow == [event: Numbers \union {Offline}, health: Health \union {None}, online: BOOLEAN,
               met: SUBSET Numbers]

\* TypeOK; the requests in progress are finitely many, and a pass that is about to
\* write the health has it.
TypeInv == TypeOK /\ IsFiniteSet(req) /\ (pass.pc = "sync" => pass.health \in Health)

\* What a request begins with keeps the types.
LEMMA BeginKeepsTypes ==
  ASSUME TypeInv, NEW r \in RequestRow, Begin(r)
  PROVE  req' \subseteq RequestRow /\ IsFiniteSet(req') /\ Cardinality(req') <= MaxRequests
<1>1. IsFiniteSet(req) /\ req \subseteq RequestRow /\ Cardinality(req) \in Nat
  BY FS_CardinalityType DEF TypeInv, TypeOK, RequestRow
<1>2. Cardinality(req) < MaxRequests
  BY <1>1 DEF Begin, Busy
<1>3. /\ IsFiniteSet(req \union {r})
      /\ Cardinality(req \union {r}) \in {Cardinality(req), Cardinality(req) + 1}
  BY <1>1, FS_AddElement
<1> QED
  BY <1>1, <1>2, <1>3 DEF Begin

\* And so does its end.
LEMMA EndKeepsTypes ==
  ASSUME TypeInv, NEW r \in req
  PROVE  LET rest == req \ {r}
         IN  rest \subseteq RequestRow /\ IsFiniteSet(rest) /\ Cardinality(rest) <= MaxRequests
<1>1. IsFiniteSet(req) /\ req \subseteq RequestRow /\ Cardinality(req) <= MaxRequests
  BY DEF TypeInv, TypeOK, RequestRow
<1>2. /\ IsFiniteSet(req \ {r}) /\ Cardinality(req \ {r}) = Cardinality(req) - 1
  BY <1>1, FS_RemoveElement
<1>3. Cardinality(req) \in Nat
  BY <1>1, FS_CardinalityType
<1> QED
  BY <1>1, <1>2, <1>3

\* What is under way while a report is stored.
LEMMA MeetsTypes ==
  ASSUME TypeInv, NEW q \in RequestRow, NEW e \in Numbers
  PROVE  /\ Meets(q, e) \in RequestRow
         /\ Meets(q, e).event = q.event
         /\ q.met \subseteq Meets(q, e).met
         /\ q.event # Offline /\ Newer(e, q.event) => e \in Meets(q, e).met
BY DEF Meets, RequestRow

\* What the robot samples.
LEMMA ReportTypes ==
  ASSUME NEW i \in Numbers
  PROVE  Reports[i] \in [boot: Nat, sequence: Nat, task: {"ok", "fail"}]
<1> DEFINE R == [boot: Nat, sequence: Nat, task: {"ok", "fail"}]
<1>1. Reports \in Seq(R)
  OBVIOUS
<1> HIDE DEF R
<1>2. Reports[i] \in R
  BY <1>1 DEF Numbers
<1> QED
  BY <1>2 DEF R

\* The health a request or a pass works out.
LEMMA HealthTypes ==
  ASSUME TypeInv
  PROVE  /\ \A health \in Health : Changed(health) \in Health \union {None}
         /\ \A health \in Health \union {None} : Written(health) \in Health
         /\ ConnectionHealth \in {"ok", "fail", "planned_offline"}
  BY DEF TypeInv, TypeOK, Changed, Written, ConnectionHealth

\* Every step of the requests keeps the types.
LEMMA RequestTypes ==
  ASSUME TypeInv, Request
  PROVE  TypeInv'
<1>1. CASE BeginOffline
  <2> DEFINE health == [row.health EXCEPT !.connection = "planned_offline"]
             r == [event |-> Offline, health |-> Changed(health), online |-> FALSE,
                   met |-> {}]
  <2>1. health \in Health
    BY DEF TypeInv, TypeOK, Health
  <2>2. r \in RequestRow
    BY <2>1, HealthTypes DEF RequestRow
  <2>3. Begin(r)
    BY <1>1 DEF BeginOffline
  <2> HIDE DEF r
  <2>4. req' \subseteq RequestRow /\ IsFiniteSet(req') /\ Cardinality(req') <= MaxRequests
    BY <2>2, <2>3, BeginKeepsTypes
  <2> QED
    BY <1>1, <2>4 DEF BeginOffline, TypeInv, TypeOK, RequestRow
<1>2. ASSUME NEW i \in Numbers, BeginTelemetry(i) PROVE TypeInv'
  <2> DEFINE health == [connection |-> "ok", task |-> Reports[i].task]
             r == [event |-> i, health |-> Changed(health), online |-> row.offline,
                   met |-> {}]
  <2>1. Reports[i] \in [boot: Nat, sequence: Nat, task: {"ok", "fail"}]
    BY ReportTypes
  <2>2. health \in Health
    BY <2>1 DEF Health
  <2>3. r \in RequestRow
    BY <2>2, HealthTypes DEF RequestRow, TypeInv, TypeOK
  <2>4. Begin(r)
    BY <1>2 DEF BeginTelemetry
  <2> HIDE DEF r
  <2>5. req' \subseteq RequestRow /\ IsFiniteSet(req') /\ Cardinality(req') <= MaxRequests
    BY <2>3, <2>4, BeginKeepsTypes
  <2> QED
    BY <1>2, <2>5 DEF BeginTelemetry, TypeInv, TypeOK, RequestRow
<1>3. ASSUME NEW r \in req, CommitTelemetry(r) PROVE TypeInv'
  <2> DEFINE rest == req \ {r}
  <2>2. r \in RequestRow /\ r.event \in Numbers
    BY <1>3 DEF TypeInv, TypeOK, RequestRow, CommitTelemetry
  <2>e. rest \subseteq RequestRow /\ IsFiniteSet(rest) /\ Cardinality(rest) <= MaxRequests
    BY EndKeepsTypes
  <2>m. req' = {Meets(q, r.event) : q \in rest}
    BY <1>3 DEF CommitTelemetry
  <2> HIDE DEF rest
  <2>f. IsFiniteSet(req') /\ Cardinality(req') <= Cardinality(rest)
    <3> DEFINE f == [q \in rest |-> Meets(q, r.event)]
    <3>1. f \in Surjection(rest, req')
      BY <2>m DEF Surjection
    <3> HIDE DEF f
    <3> QED
      BY <2>e, <3>1, FS_Surjection
  <2>1. req' \subseteq RequestRow /\ IsFiniteSet(req') /\ Cardinality(req') <= MaxRequests
    <3>1. req' \subseteq RequestRow
      BY <2>2, <2>e, <2>m, MeetsTypes
    <3>2. Cardinality(rest) \in Nat /\ Cardinality(req') \in Nat
      BY <2>e, <2>f, FS_CardinalityType
    <3> QED
      BY <2>e, <2>f, <3>1, <3>2
  <2>3. Written(r.health) \in Health
    BY <2>2, HealthTypes DEF RequestRow
  <2>4. row' \in [beat: {"recent", "expired"}, offline: BOOLEAN, shows: 0..Len(Reports),
                  met: SUBSET Numbers, health: Health]
    BY <1>3, <2>2, <2>3 DEF CommitTelemetry, TypeInv, TypeOK, RequestRow, Numbers
  <2>5. events' \subseteq Numbers \union {Offline} /\ row'.shows \in events'
    BY <1>3, <2>2 DEF CommitTelemetry, Stored, TypeInv, TypeOK
  <2> QED
    BY <1>3, <2>1, <2>4, <2>5 DEF CommitTelemetry, TypeInv, TypeOK, RequestRow
<1>4. ASSUME NEW r \in req, CommitOffline(r) PROVE TypeInv'
  <2>1. req' \subseteq RequestRow /\ IsFiniteSet(req') /\ Cardinality(req') <= MaxRequests
    BY <1>4, EndKeepsTypes DEF CommitOffline
  <2>2. r.health \in Health \union {None}
    BY <1>4 DEF TypeInv, TypeOK
  <2>3. Written(r.health) \in Health
    BY <2>2, HealthTypes
  <2>4. row' \in [beat: {"recent", "expired"}, offline: BOOLEAN, shows: 0..Len(Reports),
                  met: SUBSET Numbers, health: Health] /\ row'.shows = row.shows
    BY <1>4, <2>3 DEF CommitOffline, TypeInv, TypeOK
  <2>5. events' \subseteq Numbers \union {Offline} /\ events \subseteq events'
    BY <1>4 DEF CommitOffline, Stored, TypeInv, TypeOK
  <2>6. alerts' \in [Rows -> {"open", "ack", "resolved"}]
    BY <1>4 DEF CommitOffline, TypeInv, TypeOK
  <2> QED
    BY <1>4, <2>1, <2>4, <2>5, <2>6 DEF CommitOffline, TypeInv, TypeOK, RequestRow
<1>5. ASSUME NEW r \in req, Fail(r) PROVE TypeInv'
  BY <1>5, EndKeepsTypes DEF Fail, TypeInv, TypeOK, RequestRow
<1> QED
  BY <1>1, <1>2, <1>3, <1>4, <1>5 DEF Request

\* And every other step.
LEMMA OtherTypes ==
  ASSUME TypeInv, \/ Expire \/ Pass \/ PassFails \/ Acknowledge \/ AcknowledgeFails
                  \/ \E a \in Rows : ReadAlert(a)
  PROVE  TypeInv'
<1>1. CASE Expire
  BY <1>1 DEF Expire, TypeInv, TypeOK
<1>2. CASE BeginPass
  BY <1>2, HealthTypes DEF BeginPass, NoPass, TypeInv, TypeOK, Health
<1>3. CASE ProjectExpiry
  BY <1>3 DEF ProjectExpiry, NoPass, TypeInv, TypeOK
<1>4. CASE ReadStates
  BY <1>4 DEF ReadStates, NoPass, TypeInv, TypeOK
<1>5. CASE ReadAlerts
  BY <1>5 DEF ReadAlerts, TypeInv, TypeOK
<1>6. CASE Evaluate
  BY <1>6 DEF Evaluate, NoPass, TypeInv, TypeOK
<1>7. CASE PassFails
  BY <1>7 DEF PassFails, NoPass, TypeInv, TypeOK
<1>8. ASSUME NEW a \in Rows, ReadAlert(a) PROVE TypeInv'
  BY <1>8 DEF ReadAlert, TypeInv, TypeOK
<1>9. CASE Acknowledge
  BY <1>9 DEF Acknowledge, TypeInv, TypeOK
<1>10. CASE AcknowledgeFails
  BY <1>10 DEF AcknowledgeFails, TypeInv, TypeOK
<1> QED
  BY <1>1, <1>2, <1>3, <1>4, <1>5, <1>6, <1>7, <1>8, <1>9, <1>10 DEF Pass

\* TypeInv is inductive.
LEMMA TypesPreserved == TypeInv /\ [Next]_vars => TypeInv'
<1> SUFFICES ASSUME TypeInv, [Next]_vars PROVE TypeInv'
  OBVIOUS
<1>1. CASE Next
  BY <1>1, RequestTypes, OtherTypes DEF Next
<1>2. CASE UNCHANGED vars
  BY <1>2 DEF vars, TypeInv, TypeOK
<1> QED
  BY <1>1, <1>2

LEMMA TypesAlways == Spec => []TypeInv
<1>1. Init => TypeInv
  BY FS_EmptySet DEF Init, TypeInv, TypeOK, NoPass, Health
<1> QED
  BY <1>1, TypesPreserved, PTL DEF Spec

\* The types hold, and the report the device shows is one that was recorded.
THEOREM TypeCorrect == Spec => []TypeOK
<1>1. TypeInv => TypeOK
  BY DEF TypeInv
<1> QED
  BY <1>1, TypesAlways, PTL

(***************************************************************************)
(* CountsOnce.                                                             *)
(***************************************************************************)
\* What only a new report may do to the device.
Unmoved ==
  /\ row'.shows = row.shows /\ row'.offline = row.offline
  /\ row'.beat = "recent" => row.beat = "recent"

\* Recording an event that was not known changes the events.
LEMMA StoredIsNew == ASSUME NEW e, Stored(e) PROVE events' # events
  BY DEF Stored

LEMMA RowOfStep ==
  ASSUME TypeInv, [Next]_vars
  PROVE  events' # events \/ Unmoved
<1>1. ASSUME NEW r \in req, CommitTelemetry(r) PROVE events' # events
  BY <1>1, StoredIsNew DEF CommitTelemetry
<1>2. ASSUME NEW r \in req, CommitOffline(r) PROVE events' # events
  BY <1>2, StoredIsNew DEF CommitOffline
<1>3. CASE Expire
  BY <1>3 DEF Expire, Unmoved, TypeInv, TypeOK
<1>4. CASE ProjectExpiry
  BY <1>4 DEF ProjectExpiry, Unmoved, TypeInv, TypeOK
<1>5. CASE UNCHANGED row
  BY <1>5 DEF Unmoved
<1>6. ASSUME \/ BeginOffline \/ \E i \in Numbers : BeginTelemetry(i)
             \/ \E r \in req : Fail(r)
      PROVE  UNCHANGED row
  BY <1>6 DEF BeginOffline, BeginTelemetry, Fail
<1>7. ASSUME \/ BeginPass \/ ReadStates \/ ReadAlerts \/ Evaluate \/ PassFails
             \/ Acknowledge \/ AcknowledgeFails \/ \E a \in Rows : ReadAlert(a)
      PROVE  UNCHANGED row
  BY <1>7 DEF BeginPass, ReadStates, ReadAlerts, Evaluate, PassFails, Acknowledge,
              AcknowledgeFails, ReadAlert
<1>8. CASE UNCHANGED vars
  BY <1>5, <1>8 DEF vars
<1> QED
  BY <1>1, <1>2, <1>3, <1>4, <1>5, <1>6, <1>7, <1>8 DEF Next, Request, Pass

\* For every number of requests and passes at once, in every order: only a report
\* that was not known moves the device, revives its heartbeat or takes it off or
\* back on line.
THEOREM ReportsCountOnce == Spec => CountsOnce
<1>1. TypeInv /\ [Next]_vars
        => [\/ events' # events
            \/ /\ row'.shows = row.shows /\ row'.offline = row.offline
               /\ row'.beat = "recent" => row.beat = "recent"]_vars
  BY RowOfStep DEF Unmoved
<1> QED
  BY <1>1, TypesAlways, PTL DEF Spec, CountsOnce

(***************************************************************************)
(* NewestOfBoot.                                                           *)
(***************************************************************************)
\* A report that is under way and not recorded has met every later report of its
\* boot that is.
Met ==
  \A r \in req : r.event \in Numbers \ events =>
    \A j \in events \ {Offline} : Newer(j, r.event) => j \in r.met

SequenceInv == TypeInv /\ Met /\ NewestOfBoot

\* A step that adds neither requests nor reports.
LEMMA SequenceFrame ==
  ASSUME SequenceInv, TypeInv', req' \subseteq req,
         events' \ {Offline} = events \ {Offline},
         row'.shows = row.shows, row'.met = row.met
  PROVE  SequenceInv'
<1>1. Numbers \ events' = Numbers \ events
  BY DEF Numbers
<1>2. \A j, i : Newer(j, i) <=> Newer(j, i)'
  BY DEF Newer
<1>3. Met'
  BY <1>1, <1>2 DEF SequenceInv, Met
<1>4. NewestOfBoot'
  BY <1>2 DEF SequenceInv, NewestOfBoot
<1> QED
  BY <1>3, <1>4 DEF SequenceInv

LEMMA SequencePreserved ==
  ASSUME SequenceInv, [Next]_vars
  PROVE  SequenceInv'
<1>0. TypeInv /\ TypeInv'
  BY TypesPreserved DEF SequenceInv
<1>n. \A j, i : Newer(j, i) <=> Newer(j, i)'
  BY DEF Newer
<1>1. ASSUME NEW i \in Numbers, BeginTelemetry(i) PROVE SequenceInv'
  <2>1. PICK r : r.event = i /\ Begin(r)
    BY <1>1 DEF BeginTelemetry
  <2>2. req' = req \union {r} /\ UNCHANGED <<row, events>>
    BY <1>1, <2>1 DEF BeginTelemetry, Begin
  \* Nothing later is recorded when it begins.
  <2>3. ASSUME NEW j \in events \ {Offline} PROVE ~Newer(j, i)
    <3>1. j \in Numbers
      BY <1>0, <2>3 DEF TypeInv, TypeOK
    <3>2. Reports[j].boot = Reports[i].boot => Reports[j].sequence < Reports[i].sequence
      BY <1>1, <2>3 DEF BeginTelemetry, Follows
    <3> QED
      BY <3>1, <3>2, ReportTypes DEF Newer
  <2>4. Met'
    BY <1>n, <2>1, <2>2, <2>3 DEF Met, SequenceInv
  <2>5. NewestOfBoot'
    BY <1>n, <2>2 DEF NewestOfBoot, SequenceInv
  <2> QED
    BY <1>0, <2>4, <2>5 DEF SequenceInv
<1>2. CASE BeginOffline
  <2>1. PICK r : r.event = Offline /\ Begin(r)
    BY <1>2 DEF BeginOffline
  <2>2. req' = req \union {r} /\ UNCHANGED <<row, events>>
    BY <1>2, <2>1 DEF BeginOffline, Begin
  <2>3. Met'
    BY <1>n, <2>1, <2>2 DEF Met, SequenceInv, Numbers
  <2>4. NewestOfBoot'
    BY <1>n, <2>2 DEF NewestOfBoot, SequenceInv
  <2> QED
    BY <1>0, <2>3, <2>4 DEF SequenceInv
<1>3. ASSUME NEW r \in req, CommitTelemetry(r) PROVE SequenceInv'
  <2>1. /\ r.event \in Numbers \ events /\ events' = events \union {r.event}
        /\ row'.shows = r.event /\ row'.met = r.met
        /\ req' = {Meets(q, r.event) : q \in req \ {r}}
    BY <1>0, <1>3 DEF CommitTelemetry, Stored, TypeInv, TypeOK
  <2>2. ~Newer(r.event, r.event)
    BY <2>1, ReportTypes DEF Newer
  \* It has met what is later than it; and what is under way meets it.
  <2>3. NewestOfBoot'
    BY <1>n, <2>1, <2>2 DEF SequenceInv, Met, NewestOfBoot
  <2>4. ASSUME NEW q \in req, Meets(q, r.event).event \in Numbers \ events',
               NEW j \in events' \ {Offline}, Newer(j, Meets(q, r.event).event)
        PROVE  j \in Meets(q, r.event).met
    <3>1. q \in RequestRow
      BY <1>0 DEF TypeInv, TypeOK, RequestRow
    <3>2. /\ Meets(q, r.event).event = q.event /\ q.met \subseteq Meets(q, r.event).met
          /\ q.event # Offline /\ Newer(r.event, q.event) => r.event \in Meets(q, r.event).met
      BY <1>0, <2>1, <3>1, MeetsTypes
    <3>3. q.event \in Numbers \ events /\ q.event # Offline
      BY <2>1, <2>4, <3>2 DEF Numbers
    <3>4. CASE j = r.event
      BY <2>4, <3>2, <3>3, <3>4
    <3>5. CASE j \in events
      BY <2>4, <3>2, <3>3, <3>5 DEF SequenceInv, Met
    <3> QED
      BY <2>1, <3>4, <3>5
  <2>5. Met'
    BY <1>n, <2>1, <2>4 DEF Met
  <2> QED
    BY <1>0, <2>3, <2>5 DEF SequenceInv
<1>4. ASSUME NEW r \in req, CommitOffline(r) PROVE SequenceInv'
  <2>1. req' \subseteq req /\ events' \ {Offline} = events \ {Offline}
    BY <1>4 DEF CommitOffline, Stored
  <2>2. row'.shows = row.shows /\ row'.met = row.met
    BY <1>0, <1>4 DEF CommitOffline, TypeInv, TypeOK
  <2> QED
    BY <1>0, <2>1, <2>2, SequenceFrame
<1>5. ASSUME NEW r \in req, Fail(r) PROVE SequenceInv'
  BY <1>0, <1>5, SequenceFrame DEF Fail
<1>6. CASE Expire \/ ProjectExpiry
  <2>1. UNCHANGED <<req, events>> /\ row'.shows = row.shows /\ row'.met = row.met
    BY <1>0, <1>6 DEF Expire, ProjectExpiry, TypeInv, TypeOK
  <2> QED
    BY <1>0, <2>1, SequenceFrame
<1>7. CASE UNCHANGED <<row, events, req>>
  BY <1>0, <1>7, SequenceFrame
<1>8. ASSUME \/ BeginPass \/ ReadStates \/ ReadAlerts \/ Evaluate \/ PassFails
             \/ Acknowledge \/ AcknowledgeFails \/ \E a \in Rows : ReadAlert(a)
      PROVE  UNCHANGED <<row, events, req>>
  BY <1>8 DEF BeginPass, ReadStates, ReadAlerts, Evaluate, PassFails, Acknowledge,
              AcknowledgeFails, ReadAlert
<1>9. CASE UNCHANGED vars
  BY <1>7, <1>9 DEF vars
<1> QED
  BY <1>1, <1>2, <1>3, <1>4, <1>5, <1>6, <1>7, <1>8, <1>9 DEF Next, Request, Pass

\* For any number of reports under way at once, repeated, racing and failing: the
\* device shows a report older than one of its boot that was accepted only if the
\* newer one was stored while the older was under way.
THEOREM NewestOfBootAlways == Spec => []NewestOfBoot
<1>1. Init => SequenceInv
  BY FS_EmptySet DEF Init, SequenceInv, Met, NewestOfBoot, TypeInv, TypeOK, NoPass, Health
<1>2. SequenceInv /\ [Next]_vars => SequenceInv'
  BY SequencePreserved
<1>3. SequenceInv => NewestOfBoot
  BY DEF SequenceInv
<1> QED
  BY <1>1, <1>2, <1>3, PTL DEF Spec
=============================================================================
