------------------------------ MODULE LiveView ------------------------------
(***************************************************************************)
(* A browser tab of the PM client: its session, the WSClient with its      *)
(* reconnections, the gateway that feeds it, and the store that snapshots  *)
(* (REST) and pushes (websocket) are written to.                           *)
(*                                                                         *)
(* Two of the channels stand for all: "devices" carries the whole fleet on *)
(* every pass of the scheduler, "tasks" one change at a time.  The server  *)
(* is reduced to what it publishes: a version of the fleet's state and the *)
(* list of tasks.                                                          *)
(***************************************************************************)
EXTENDS Integers, Sequences, FiniteSets, Functions

CONSTANTS
  Tasks,         \* bound: task ids
  MaxReconnect,  \* WSClient.maxReconnect
  MaxVersions,   \* bound: changes of the fleet
  MaxMounts,     \* bound: times the dashboard is opened
  MaxFetches,    \* bound: GET requests under way at once
  MaxQueue       \* bound: messages on their way to a socket

ASSUME LiveAssumption ==
  /\ MaxReconnect \in Nat /\ MaxVersions \in Nat /\ MaxMounts \in Nat
  /\ MaxFetches \in Nat /\ MaxQueue \in Nat

VARIABLES
  alive,     \* the backend runs
  fleet,     \* version of the devices' state
  tasks,     \* the tasks in the database, in order
  gone,      \* ids of deleted tasks
  session,   \* what App shows: "out", "checking" or "in" (the dashboard)
  token,     \* is there a token in the local storage?
  mounts,    \* number of times the dashboard was mounted
  client,    \* the WSClient singleton exists
  current,   \* the socket WSClient.ws refers to
  timers,    \* reconnection timers that will fire
  attempts,  \* WSClient.reconnectAttempts
  sock,      \* the sockets, both ends
  fetch,     \* the GET requests of each mount
  view       \* the store: version of the fleet, list of tasks

serverVars == <<alive, fleet, tasks, gone>>
pageVars   == <<session, token, mounts>>
wsVars     == <<client, current, timers, attempts, sock>>
dataVars   == <<fetch, view>>
vars == <<alive, fleet, tasks, gone, session, token, mounts, client, current, timers,
          attempts, sock, fetch, view>>

Channels == {"devices", "tasks"}
Sockets  == {1, 2}
NoSocket == 0
Mounts   == 1..MaxMounts

Messages == ({"devices"} \X (0..MaxVersions)) \union ({"created", "deleted"} \X Tasks)
Controls == {"subscribe", "unsubscribe"} \X Channels
Free     == [st |-> "free", good |-> FALSE, feed |-> "starting", sub |-> {},
             ctl |-> <<>>, out |-> <<>>]
NotAsked == [st |-> "none", fleet |-> 0, tasks |-> <<>>]

Live     == {s \in Sockets : sock[s].st # "free"}
Unused   == CHOOSE s \in Sockets : sock[s].st = "free"
EmptyView == [fleet |-> 0, tasks |-> <<>>]

\* Nothing connects any more and no timer is left.
GaveUp == client /\ timers = 0 /\ Live = {}

\* The connection is open and nothing listens for it any more.
Deaf ==
  current # NoSocket /\ sock[current].st = "open" /\ sock[current].feed = "ended"

Init ==
  /\ alive = TRUE /\ fleet = 0 /\ tasks = <<>> /\ gone = {}
  /\ session = "out" /\ token = FALSE /\ mounts = 0
  /\ client = FALSE /\ current = NoSocket /\ timers = 0 /\ attempts = 0
  /\ sock = [s \in Sockets |-> Free]
  /\ fetch = [g \in Mounts \X Channels |-> NotAsked]
  /\ view = EmptyView

(***************************************************************************)
(* The store.                                                              *)
(***************************************************************************)
\* Variant: a task is appended without a look at the list.
AddAnyTask(list, t) == Append(list, t)

AddTask(list, t)    == IF t \in Range(list) THEN list ELSE Append(list, t)

\* removeTask: the filter, position by position.
RemoveTask(list, t) ==
  LET kept[n \in 0..Len(list)] ==
        IF n = 0 THEN <<>>
        ELSE IF list[n] = t THEN kept[n - 1] ELSE Append(kept[n - 1], list[n])
  IN kept[Len(list)]

\* onmessage and the handlers of useWebSocket.
Pushed(v, m) ==
  CASE m[1] = "devices" -> [v EXCEPT !.fleet = m[2]]
    [] m[1] = "created" -> [v EXCEPT !.tasks = AddTask(@, m[2])]
    [] m[1] = "deleted" -> [v EXCEPT !.tasks = RemoveTask(@, m[2])]

(***************************************************************************)
(* WSClient.                                                               *)
(***************************************************************************)
\* connect(): a socket for all channels of the constructor, with the token of
\* this moment.
Connected(s) == [sock EXCEPT ![s] = [Free EXCEPT !.st = "connecting", !.good = token]]

\* subscribe and its undo send a control only over an open socket.
Sent(type) ==
  IF current # NoSocket /\ sock[current].st = "open"
    THEN [sock EXCEPT ![current].ctl = @ \o <<<<type, "devices">>, <<type, "tasks">>>>]
    ELSE sock

\* Variant: one attempt too many.
ReconnectOnceMore ==
  IF attempts > MaxReconnect
    THEN UNCHANGED <<timers, attempts>>
    ELSE timers' = timers + 1 /\ attempts' = attempts + 1

\* scheduleReconnect
Reconnect ==
  IF attempts >= MaxReconnect
    THEN UNCHANGED <<timers, attempts>>
    ELSE timers' = timers + 1 /\ attempts' = attempts + 1

\* onopen
Opened(s) == attempts' = 0

\* Variant: an error schedules a reconnection, and so does the close after it.
CloseAfterError(s) ==
  /\ sock' = [sock EXCEPT ![s] = Free]
  /\ timers' = timers + 2 /\ attempts' = attempts + 1

\* onclose
Close(s) == sock' = [sock EXCEPT ![s] = Free] /\ Reconnect

TimerFires ==
  /\ timers > 0 /\ Live # Sockets
  /\ timers' = timers - 1
  /\ sock' = Connected(Unused) /\ current' = Unused
  /\ UNCHANGED <<serverVars, pageVars, dataVars, client, attempts>>

Accept(s) ==
  /\ sock[s].st = "connecting" /\ alive /\ sock[s].good
  /\ sock' = [sock EXCEPT ![s].st = "open", ![s].sub = Channels]
  /\ Opened(s)
  /\ UNCHANGED <<serverVars, pageVars, dataVars, client, current, timers>>

\* No server, or websocket_endpoint closes: no valid token.
Refuse(s) ==
  /\ sock[s].st = "connecting" /\ ~(alive /\ sock[s].good)
  /\ Close(s)
  /\ UNCHANGED <<serverVars, pageVars, dataVars, client, current>>

\* The connection of a server that stopped, or was out of reach for a while.
Cut(s) ==
  /\ sock[s].st = "open" /\ ~alive
  /\ Close(s)
  /\ UNCHANGED <<serverVars, pageVars, dataVars, client, current>>

Deliver(s) ==
  /\ sock[s].out # <<>>
  /\ sock' = [sock EXCEPT ![s].out = Tail(@)]
  /\ view' = IF session = "in" THEN Pushed(view, Head(sock[s].out)) ELSE view
  /\ UNCHANGED <<serverVars, pageVars, client, current, timers, attempts,
                 fetch>>

(***************************************************************************)
(* The gateway (ws/router.py) and what the backend publishes.              *)
(***************************************************************************)
\* _redis_subscriber: what is published before is not seen.
Listen(s) ==
  /\ sock[s].st = "open" /\ sock[s].feed = "starting"
  /\ sock' = [sock EXCEPT ![s].feed = "on"]
  /\ UNCHANGED <<serverVars, pageVars, dataVars, client, current, timers, attempts>>

\* subscribe or listen raises when Redis fails: the listener's task ends, and
\* websocket_endpoint, which does not wait for it, keeps the socket open.
ListenerEnds(s) ==
  /\ sock[s].st = "open" /\ sock[s].feed # "ended"
  /\ sock' = [sock EXCEPT ![s].feed = "ended"]
  /\ UNCHANGED <<serverVars, pageVars, dataVars, client, current, timers, attempts>>

\* Variant: a socket's channels only get fewer.
SubscriptionsNarrowed(sub, control) ==
  IF control[1] = "subscribe" THEN sub ELSE sub \ {control[2]}

Subscriptions(sub, control) ==
  IF control[1] = "subscribe" THEN sub \union {control[2]} ELSE sub \ {control[2]}

HandleControl(s) ==
  /\ sock[s].ctl # <<>>
  /\ sock' = [sock EXCEPT ![s].sub = Subscriptions(@, Head(sock[s].ctl)),
                          ![s].ctl = Tail(@)]
  /\ UNCHANGED <<serverVars, pageVars, dataVars, client, current, timers, attempts>>

Broadcast(channel, message) ==
  LET heard == {s \in Sockets : sock[s].feed = "on" /\ channel \in sock[s].sub} IN
  /\ \A s \in heard : Len(sock[s].out) < MaxQueue
  /\ sock' = [s \in Sockets |->
       IF s \in heard THEN [sock[s] EXCEPT !.out = Append(@, message)] ELSE sock[s]]

\* Variant: a pass publishes only news.
PublishNews ==
  /\ alive
  /\ fleet' = fleet + 1 /\ fleet' <= MaxVersions
  /\ Broadcast("devices", <<"devices", fleet'>>)
  /\ UNCHANGED <<alive, tasks, gone, pageVars, dataVars, client, current, timers,
                 attempts>>

\* A pass of the scheduler, with or without news.
PublishFleet ==
  /\ alive
  /\ fleet' \in {fleet, fleet + 1} /\ fleet' <= MaxVersions
  /\ Broadcast("devices", <<"devices", fleet'>>)
  /\ UNCHANGED <<alive, tasks, gone, pageVars, dataVars, client, current, timers,
                 attempts>>

\* The devices changed and Redis failed: the error is swallowed.
PublishFails ==
  /\ alive
  /\ fleet' = fleet + 1 /\ fleet' <= MaxVersions
  /\ UNCHANGED <<alive, tasks, gone, pageVars, wsVars, dataVars>>

CreateTask(t) ==
  /\ alive /\ t \notin Range(tasks) \union gone
  /\ tasks' = Append(tasks, t)
  /\ Broadcast("tasks", <<"created", t>>)
  /\ UNCHANGED <<alive, fleet, gone, pageVars, dataVars, client, current, timers, attempts>>

DeleteTask(t) ==
  /\ alive /\ t \in Range(tasks)
  /\ tasks' = RemoveTask(tasks, t) /\ gone' = gone \union {t}
  /\ Broadcast("tasks", <<"deleted", t>>)
  /\ UNCHANGED <<alive, fleet, pageVars, dataVars, client, current, timers, attempts>>

StopServer ==
  /\ alive /\ alive' = FALSE
  /\ UNCHANGED <<fleet, tasks, gone, pageVars, wsVars, dataVars>>

StartServer ==
  /\ ~alive /\ alive' = TRUE
  /\ UNCHANGED <<fleet, tasks, gone, pageVars, wsVars, dataVars>>

(***************************************************************************)
(* The page.                                                               *)
(***************************************************************************)
\* The effect of useWebSocket: snapshots are asked for, the singleton is
\* created or found, and its handlers are set.
Mount ==
  /\ mounts < MaxMounts
  /\ Cardinality({g \in Mounts \X Channels : fetch[g].st # "none"}) + 2 <= MaxFetches
  /\ mounts' = mounts + 1
  /\ fetch' = [g \in Mounts \X Channels |->
       IF g[1] = mounts + 1 THEN [NotAsked EXCEPT !.st = "asked"] ELSE fetch[g]]
  /\ session' = "in" /\ token' = TRUE /\ client' = TRUE
  /\ UNCHANGED <<serverVars, timers, attempts, view>>

Login ==
  /\ session = "out" /\ alive
  /\ Mount
  /\ IF client
       THEN sock' = Sent("subscribe") /\ UNCHANGED current
       ELSE /\ sock' = [sock EXCEPT
                 ![Unused] = [Free EXCEPT !.st = "connecting", !.good = TRUE]]
            /\ current' = Unused

\* The token goes, the dashboard is unmounted; the singleton stays.
Logout ==
  /\ session = "in"
  /\ session' = "out" /\ token' = FALSE
  /\ sock' = Sent("unsubscribe")
  /\ UNCHANGED <<serverVars, mounts, dataVars, client, current, timers, attempts>>

\* The page is loaded again: nothing is left but the token.
Reload ==
  /\ session' = IF token THEN "checking" ELSE "out"
  /\ client' = FALSE /\ current' = NoSocket /\ timers' = 0 /\ attempts' = 0
  /\ sock' = [s \in Sockets |-> Free]
  /\ fetch' = [g \in Mounts \X Channels |-> NotAsked]
  /\ view' = EmptyView
  /\ UNCHANGED <<serverVars, token, mounts>>

\* checkAuth: the dashboard, or any error and the login page.
Checked ==
  /\ session = "checking" /\ alive
  /\ Mount
  /\ sock' = Connected(Unused) /\ current' = Unused

CheckFailed ==
  /\ session = "checking"
  /\ session' = "out" /\ token' = FALSE
  /\ UNCHANGED <<serverVars, mounts, wsVars, dataVars>>

\* A GET is answered with the state of this moment, and applied when the
\* answer arrives, whatever was pushed meanwhile.
AnswerFetch(g) ==
  /\ fetch[g].st = "asked" /\ alive
  /\ fetch' = [fetch EXCEPT ![g] =
       [st |-> "answered", fleet |-> IF g[2] = "devices" THEN fleet ELSE 0,
        tasks |-> IF g[2] = "tasks" THEN tasks ELSE <<>>]]
  /\ UNCHANGED <<serverVars, pageVars, wsVars, view>>

ApplyFetch(g) ==
  /\ fetch[g].st = "answered"
  /\ view' = IF g[2] = "devices" THEN [view EXCEPT !.fleet = fetch[g].fleet]
                                 ELSE [view EXCEPT !.tasks = fetch[g].tasks]
  /\ fetch' = [fetch EXCEPT ![g] = NotAsked]
  /\ UNCHANGED <<serverVars, pageVars, wsVars>>

LoseFetch(g) ==
  /\ fetch[g].st # "none"
  /\ fetch' = [fetch EXCEPT ![g] = NotAsked]
  /\ UNCHANGED <<serverVars, pageVars, wsVars, view>>

(***************************************************************************)
(* The specification.                                                      *)
(***************************************************************************)
SocketStep(s) ==
  \/ Accept(s) \/ Refuse(s) \/ Cut(s) \/ Listen(s) \/ ListenerEnds(s)
  \/ HandleControl(s) \/ Deliver(s)

FetchStep(g) == AnswerFetch(g) \/ ApplyFetch(g) \/ LoseFetch(g)

Next ==
  \/ TimerFires \/ \E s \in Sockets : SocketStep(s)
  \/ PublishFleet \/ PublishFails \/ StopServer \/ StartServer
  \/ \E t \in Tasks : CreateTask(t) \/ DeleteTask(t)
  \/ Login \/ Logout \/ Reload \/ Checked \/ CheckFailed
  \/ \E g \in Mounts \X Channels : FetchStep(g)

\* Timers fire, connections are answered, what was sent arrives, and the
\* scheduler makes its passes, which reach Redis again and again.  Users, the
\* server's stops, errors of Redis, lost connections and REST answers may come
\* or not.
Fairness ==
  /\ WF_vars(TimerFires) /\ WF_vars(PublishFleet)
  /\ WF_vars(\E s \in Sockets :
       Accept(s) \/ Refuse(s) \/ Cut(s) \/ Listen(s) \/ HandleControl(s))
  /\ WF_vars(\E s \in Sockets : Deliver(s))
  /\ WF_vars(\E g \in Mounts \X Channels : ApplyFetch(g))

Spec == Init /\ [][Next]_vars /\ Fairness

(***************************************************************************)
(* Properties.                                                             *)
(***************************************************************************)
SocketRow == [st: {"free", "connecting", "open"}, good: BOOLEAN,
              feed: {"starting", "on", "ended"}, sub: SUBSET Channels,
              ctl: Seq(Controls), out: Seq(Messages)]
FetchRow  == [st: {"none", "asked", "answered"}, fleet: 0..MaxVersions, tasks: Seq(Tasks)]

\* Types; the client refers to a socket only once it exists.
TypeOK ==
  /\ alive \in BOOLEAN /\ fleet \in 0..MaxVersions
  /\ tasks \in Seq(Tasks) /\ gone \in SUBSET Tasks
  /\ session \in {"out", "checking", "in"} /\ token \in BOOLEAN /\ mounts \in 0..MaxMounts
  /\ client \in BOOLEAN /\ current \in Sockets \union {NoSocket}
  /\ timers \in Nat /\ attempts \in 0..MaxReconnect
  /\ sock \in [Sockets -> SocketRow] /\ fetch \in [Mounts \X Channels -> FetchRow]
  /\ view \in [fleet: 0..MaxVersions, tasks: Seq(Tasks)]
  /\ current # NoSocket => client
  /\ session = "in" => token /\ client

\* scheduleReconnect and getWSClient: however connections fail and users come
\* and go, the tab has one connection or is about to make one, never two that
\* would both feed the store.
OneConnection == Cardinality(Live) + timers <= 1

\* subscribe, its undo and the gateway's set: once the controls on their way are
\* handled, an open socket of a dashboard is served every channel that has a
\* handler, although logouts, logins and reconnections cross.
ChannelsServed ==
  session = "in" /\ current \in Live /\ sock[current].st = "open" /\ sock[current].ctl = <<>>
    => sock[current].sub = Channels

\* addTask (pmStore.ts:57): a task that reaches the store by snapshots and by
\* pushes, in any order, is listed once.
ListedOnce == Cardinality(Range(view.tasks)) = Len(view.tasks)

\* CODEBUDDY.md:132, the screen shows what happens on site: while server and
\* dashboard stay, the devices shown are in the end those of the server, even
\* after a late snapshot and after publications that failed, unless the client
\* used up its attempts to reconnect, or an error of Redis ended the listener of
\* its open connection, which nothing notices.
DevicesConverge ==
  <>[](alive /\ session = "in") => <>[](view.fleet = fleet) \/ <>[]GaveUp \/ <>[]Deaf
=============================================================================
