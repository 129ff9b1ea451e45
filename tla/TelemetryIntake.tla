-------------------------- MODULE TelemetryIntake --------------------------
(***************************************************************************)
(* What a robot reports of itself and what the platform makes of it: the   *)
(* telemetry and offline requests of its gateway, the passes in which the  *)
(* scheduler projects expired heartbeats and evaluates the alert rules,    *)
(* and the acknowledgement of alerts by operators.                         *)
(*                                                                         *)
(* One device.  A request is one transaction that reads the device's row   *)
(* when it begins and writes, when it commits, the columns it changed; the *)
(* health column is written whole.  Of the columns that telemetry brings,  *)
(* "shows" remembers which report they come from.  Requests that read the  *)
(* same are one: of those with an event_id at most one commits.  The "met" *)
(* of a request, and of the row, is a history: no step depends on it.  Two *)
(* rules stand for the five: lost heartbeat and fault; the others have the *)
(* same life cycle.                                                        *)
(***************************************************************************)
EXTENDS Integers, Sequences, FiniteSets

CONSTANTS
  Reports,     \* bound: what the robot samples, in order: boot, sequence, task health
  MaxRequests, \* bound: requests of gateway and operators the server works on at once
  MaxAlerts,   \* bound: alerts of a rule that still matter
  MaxFailures, \* bound: passes that fail
  None

\* Telemetry reports, by their place in what the robot sampled.
Numbers == 1..Len(Reports)

ASSUME IntakeAssumption ==
  /\ Reports \in Seq([boot: Nat, sequence: Nat, task: {"ok", "fail"}])
  /\ \A i, j \in Numbers :
       i < j /\ Reports[i].boot = Reports[j].boot => Reports[i].sequence < Reports[j].sequence
  /\ MaxRequests \in Nat /\ MaxAlerts \in Nat /\ MaxFailures \in Nat

VARIABLES
  row,     \* the device
  events,  \* device_events: the reports that were stored
  alerts,  \* the alerts
  req,     \* requests of the gateway in progress
  pass,    \* the scheduler's pass
  ack,     \* the alert an operator's request is about to acknowledge
  failures \* counted for its bound

vars == <<row, events, alerts, req, pass, ack, failures>>

Offline  == 0                   \* the report that the robot goes offline
Rules    == {"device_offline", "device_fault"}
Rows     == Rules \X (1..MaxAlerts)  \* alert_key, and a number for the id
NoPass   == [pc |-> "idle", health |-> None, current |-> {}, active |-> {}]

Init ==
  /\ events = {}
  /\ row = [beat |-> "recent", offline |-> FALSE, shows |-> 0, met |-> {},
            health |-> [connection |-> "ok", task |-> "ok"]]
  /\ alerts = [a \in Rows |-> "resolved"]
  /\ req = {} /\ pass = NoPass /\ ack = None /\ failures = 0

(***************************************************************************)
(* Requests of the gateway, which repeats a report until it is answered.   *)
(***************************************************************************)
\* connection_health
ConnectionHealth ==
  IF row.offline THEN "planned_offline" ELSE IF row.beat = "recent" THEN "ok" ELSE "fail"

\* A column is written when it differs from what was read.
Changed(health) == IF health # row.health THEN health ELSE None
Written(health) == IF health # None THEN health ELSE row.health

\* Variant: the report is taken over but not recorded.
Unrecorded(e) == e \notin events /\ UNCHANGED events

\* Variant: the event is added whether it is there or not.
StoredAgain(e) == events' = events \union {e}

\* uq_device_events_device_event_id
Stored(e) == e \notin events /\ events' = events \union {e}

\* Variant: compared with what the row shows.
FollowsShown(i) ==
  row.shows # 0 /\ Reports[row.shows].boot = Reports[i].boot
    => Reports[row.shows].sequence < Reports[i].sequence

\* _last_sequence
Follows(i) ==
  \A j \in events \ {Offline} :
    Reports[j].boot = Reports[i].boot => Reports[j].sequence < Reports[i].sequence

\* Requests in progress, for their bound.
Busy == Cardinality(req) + (IF ack = None THEN 0 ELSE 1)

Begin(r) == Busy < MaxRequests /\ req' = req \union {r}

\* report_gateway_telemetry up to its commit; a duplicate is answered at once,
\* an old sequence refused.
BeginTelemetry(i) ==
  LET health == [connection |-> "ok", task |-> Reports[i].task] IN
  /\ i \notin events /\ Follows(i)
  /\ Begin([event |-> i, health |-> Changed(health), online |-> row.offline,
            met |-> {}])
  /\ UNCHANGED <<row, events, alerts, pass, ack, failures>>

\* j is a later report of the boot of i.
Newer(j, i) ==
  Reports[j].boot = Reports[i].boot /\ Reports[j].sequence > Reports[i].sequence

\* History: e was stored while an older report of its boot was under way.
Meets(q, e) ==
  IF q.event # Offline /\ Newer(e, q.event) THEN [q EXCEPT !.met = @ \union {e}] ELSE q

CommitTelemetry(r) ==
  /\ r.event # Offline /\ Stored(r.event)
  /\ row' = [beat |-> "recent", offline |-> row.offline /\ ~r.online, shows |-> r.event,
             met |-> r.met, health |-> Written(r.health)]
  /\ req' = {Meets(q, r.event) : q \in req \ {r}}
  /\ UNCHANGED <<alerts, pass, ack, failures>>

\* Variant: whatever its status.
ActiveOrOver(a) == alerts[a] \in {"open", "ack", "resolved"}

Active(a) == alerts[a] \in {"open", "ack"}

\* active_offline_alerts
LossAlerts == {a \in Rows : a[1] = "device_offline" /\ Active(a)}

\* report_gateway_offline up to its commit.
BeginOffline ==
  LET health == [row.health EXCEPT !.connection = "planned_offline"] IN
  /\ Offline \notin events
  /\ Begin([event |-> Offline, health |-> Changed(health), online |-> FALSE, met |-> {}])
  /\ UNCHANGED <<row, events, alerts, pass, ack, failures>>

\* The alerts it resolves were read a moment before: one raised since is missed.
CommitOffline(r) ==
  /\ r.event = Offline /\ Stored(Offline)
  /\ row' = [row EXCEPT !.offline = TRUE, !.health = Written(r.health)]
  /\ \E read \in SUBSET LossAlerts :
       alerts' = [a \in Rows |-> IF a \in read THEN "resolved" ELSE alerts[a]]
  /\ req' = req \ {r}
  /\ UNCHANGED <<pass, ack, failures>>

\* The unique constraint, another error, or a crash.
Fail(r) ==
  /\ req' = req \ {r}
  /\ UNCHANGED <<row, events, alerts, pass, ack, failures>>

\* gateway_offline_after_seconds without a report.
Expire ==
  /\ row.beat = "recent" /\ row' = [row EXCEPT !.beat = "expired"]
  /\ UNCHANGED <<events, alerts, req, pass, ack, failures>>

(***************************************************************************)
(* A pass of the scheduler (_loop): each of its parts is a transaction of  *)
(* its own.                                                                *)
(***************************************************************************)
\* _sync_device_connectivity reads the devices.
BeginPass ==
  /\ pass.pc = "idle"
  /\ pass' = IF row.health.connection = ConnectionHealth
               THEN [NoPass EXCEPT !.pc = "synced"]
               ELSE [NoPass EXCEPT !.pc = "sync",
                       !.health = [row.health EXCEPT !.connection = ConnectionHealth]]
  /\ UNCHANGED <<row, events, alerts, req, ack, failures>>

\* And writes their health.
ProjectExpiry ==
  /\ pass.pc = "sync"
  /\ row' = [row EXCEPT !.health = pass.health]
  /\ pass' = [NoPass EXCEPT !.pc = "synced"]
  /\ UNCHANGED <<events, alerts, req, ack, failures>>

\* derive_violations
Violated(rule) ==
  CASE rule = "device_offline" -> row.beat = "expired" /\ ~row.offline
    [] rule = "device_fault"   -> row.health.task = "fail"

\* _get_fleet_states
ReadStates ==
  /\ pass.pc = "synced"
  /\ pass' = [NoPass EXCEPT !.pc = "states", !.current = {rule \in Rules : Violated(rule)}]
  /\ UNCHANGED <<row, events, alerts, req, ack, failures>>

\* active_by_key: of two alerts with a key the last one read is kept.
ReadAlerts ==
  /\ pass.pc = "states"
  /\ \E kept \in SUBSET {a \in Rows : Active(a)} :
       /\ \A a \in Rows : Active(a) => \E b \in kept : b[1] = a[1]
       /\ \A a, b \in kept : a[1] = b[1] => a = b
       /\ pass' = [pass EXCEPT !.pc = "alerts", !.active = kept]
  /\ UNCHANGED <<row, events, alerts, req, ack, failures>>

\* A resolved alert is of no more use, unless a request still refers to it.
Unused(rule) ==
  {n \in 1..MaxAlerts : alerts[<<rule, n>>] = "resolved" /\ <<rule, n>> # ack}

\* The row a new alert gets; which one does not matter.
New(rule) == <<rule, CHOOSE n \in Unused(rule) : \A m \in Unused(rule) : n <= m>>

\* AlertEngine.evaluate
Evaluate ==
  LET known  == {a[1] : a \in pass.active}
      raised == {New(rule) : rule \in pass.current \ known}
      ended  == {a \in pass.active : a[1] \notin pass.current} IN
  /\ pass.pc = "alerts"
  /\ \A rule \in pass.current \ known : Unused(rule) # {}
  /\ alerts' = [a \in Rows |-> IF a \in raised THEN "open"
                              ELSE IF a \in ended THEN "resolved" ELSE alerts[a]]
  /\ pass' = NoPass
  /\ UNCHANGED <<row, events, req, ack, failures>>

\* Errors are logged, and the next pass begins anew.
PassFails ==
  /\ pass.pc # "idle" /\ failures < MaxFailures
  /\ pass' = NoPass /\ failures' = failures + 1
  /\ UNCHANGED <<row, events, alerts, req, ack>>

(***************************************************************************)
(* acknowledge_alert: the status is read without a lock.                   *)
(***************************************************************************)
ReadAlert(a) ==
  /\ ack = None /\ Busy < MaxRequests
  /\ alerts[a] = "open"
  /\ ack' = a
  /\ UNCHANGED <<row, events, alerts, req, pass, failures>>

Acknowledge ==
  /\ ack # None
  /\ alerts' = [alerts EXCEPT ![ack] = "ack"] /\ ack' = None
  /\ UNCHANGED <<row, events, req, pass, failures>>

AcknowledgeFails ==
  /\ ack # None /\ ack' = None
  /\ UNCHANGED <<row, events, alerts, req, pass, failures>>

(***************************************************************************)
(* The specification.                                                      *)
(***************************************************************************)
Request ==
  \/ BeginOffline \/ \E i \in Numbers : BeginTelemetry(i)
  \/ \E r \in req : CommitTelemetry(r) \/ CommitOffline(r) \/ Fail(r)

Pass == BeginPass \/ ProjectExpiry \/ ReadStates \/ ReadAlerts \/ Evaluate

Next ==
  \/ Request \/ Expire \/ Pass \/ PassFails
  \/ \E a \in Rows : ReadAlert(a)
  \/ Acknowledge \/ AcknowledgeFails

\* _loop: passes go on for ever.  Gateways and operators are under no obligation.
Spec == Init /\ [][Next]_vars /\ WF_vars(Pass)

(***************************************************************************)
(* Properties.                                                             *)
(***************************************************************************)
Health == [connection: {"ok", "fail", "planned_offline"}, task: {"ok", "fail"}]

\* Types; the row shows a report that was stored.
TypeOK ==
  /\ row \in [beat: {"recent", "expired"}, offline: BOOLEAN, shows: 0..Len(Reports),
              met: SUBSET Numbers, health: Health]
  /\ events \subseteq Numbers \union {Offline}
  /\ row.shows # 0 => row.shows \in events
  /\ alerts \in [Rows -> {"open", "ack", "resolved"}]
  /\ req \subseteq [event: Numbers \union {Offline}, health: Health \union {None},
                   online: BOOLEAN, met: SUBSET Numbers]
  /\ Cardinality(req) <= MaxRequests
  /\ pass \in [pc: {"idle", "sync", "synced", "states", "alerts"},
               health: Health \union {None}, current: SUBSET Rules, active: SUBSET Rows]
  /\ ack \in Rows \union {None} /\ failures \in 0..MaxFailures

\* report_gateway_telemetry and report_gateway_offline: whatever a robot said
\* counts once, however often it is repeated and however slowly an earlier
\* attempt is still worked on; nothing revives its heartbeat, takes it off or
\* back on line or moves it but a report that was not known.
CountsOnce ==
  [][\/ events' # events
     \/ /\ row'.shows = row.shows /\ row'.offline = row.offline
        /\ row'.beat = "recent" => row.beat = "recent"]_vars

\* _last_sequence, and the rule of the gateway interface that the sequence
\* increases within a boot: however reports are repeated, lost or late, those of
\* an earlier boot among them, the row shows a report older than one of its boot
\* that was accepted only if the newer one was stored while the older was under
\* way: the sequence is compared without a lock, and never again at the commit.
NewestOfBoot ==
  row.shows # 0 =>
    \A j \in events \ {Offline} : Newer(j, row.shows) => j \in row.met

Raised(rule) == \E a \in Rows : a[1] = rule /\ alerts[a] # "resolved"

\* evaluate: once it is settled whether a rule is violated there is an alert, open
\* or acknowledged, exactly if it is, although passes work on states that are no
\* more, requests resolve alerts beside them and acknowledgements come late.
AlertsConverge ==
  \A rule \in Rules : /\ <>[]Violated(rule) => <>[]Raised(rule)
                      /\ <>[]~Violated(rule) => <>[]~Raised(rule)
=============================================================================
