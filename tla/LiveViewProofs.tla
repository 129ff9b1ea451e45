--------------------------- MODULE LiveViewProofs ---------------------------
(***************************************************************************)
(* Proofs about the connection of a tab: it has one socket or one timer at *)
(* most, and an open socket of a dashboard is served every channel.        *)
(***************************************************************************)
EXTENDS LiveView, FiniteSetTheorems, TLAPS

USE DEF Sockets, NoSocket, Channels

\* The part of the types the connection depends on.
WSTypes ==
  /\ fleet \in 0..MaxVersions
  /\ session \in {"out", "checking", "in"} /\ token \in BOOLEAN /\ client \in BOOLEAN
  /\ current \in Sockets \union {NoSocket}
  /\ timers \in {0, 1}
  /\ sock \in [Sockets -> SocketRow]

\* A socket that exists is the one the client refers to, and no timer is set
\* beside it; a page that was only loaded has neither.
SocketIsCurrent ==
  /\ \A s \in Sockets : sock[s].st # "free" => s = current /\ client /\ timers = 0
  /\ ~client => timers = 0
  /\ session = "in" => client
  /\ session = "checking" => ~client

\* Only an open socket is sent controls.
ControlsOfOpen == \A s \in Sockets : sock[s].st # "open" => sock[s].ctl = <<>>

\* Once the controls on their way are handled the channel is subscribed to: it
\* is now and none of them ends it, or one asks for it and none after ends it.
Settles(row, c) ==
  \/ c \in row.sub /\ \A i \in DOMAIN row.ctl : row.ctl[i] # <<"unsubscribe", c>>
  \/ \E i \in DOMAIN row.ctl :
       /\ row.ctl[i] = <<"subscribe", c>>
       /\ \A j \in DOMAIN row.ctl : j > i => row.ctl[j] # <<"unsubscribe", c>>

OpenSettles ==
  session = "in" =>
    \A s \in Sockets : sock[s].st = "open" => \A c \in Channels : Settles(sock[s], c)

WSInv == WSTypes /\ SocketIsCurrent /\ ControlsOfOpen /\ OpenSettles

(***************************************************************************)
(* Sequences of controls.                                                  *)
(***************************************************************************)
\* The two controls Sent appends.
LEMMA BothControls ==
  ASSUME NEW type \in {"subscribe", "unsubscribe"}
  PROVE  LET both == <<<<type, "devices">>, <<type, "tasks">>>> IN
         /\ both \in Seq(Controls) /\ Len(both) = 2
         /\ both[1] = <<type, "devices">> /\ both[2] = <<type, "tasks">>
<1> DEFINE both == <<<<type, "devices">>, <<type, "tasks">>>>
<1>1. <<type, "devices">> \in Controls /\ <<type, "tasks">> \in Controls
  BY DEF Controls
<1>2. both \in Seq(Controls)
  BY <1>1
<1> QED
  BY <1>2

\* After the subscriptions of a login nothing ends a channel.
LEMMA SubscribedSettles ==
  ASSUME NEW row, row.ctl \in Seq(Controls), NEW c \in Channels,
         NEW new, new.ctl = row.ctl \o <<<<"subscribe", "devices">>, <<"subscribe", "tasks">>>>
  PROVE  Settles(new, c)
<1> DEFINE n == Len(row.ctl)
           both == <<<<"subscribe", "devices">>, <<"subscribe", "tasks">>>>
<1>1. both \in Seq(Controls) /\ Len(both) = 2
      /\ both[1] = <<"subscribe", "devices">> /\ both[2] = <<"subscribe", "tasks">>
  BY BothControls
<1>2. new.ctl = row.ctl \o both
  OBVIOUS
<1> HIDE DEF both
<1>3. n \in Nat /\ DOMAIN new.ctl = 1..(n + 2)
  BY <1>1, <1>2
<1>4. new.ctl[n + 1] = both[1] /\ new.ctl[n + 2] = both[2]
  BY <1>1, <1>2
<1> HIDE DEF n
<1>5. CASE c = "devices"
  <2>1. \A j \in DOMAIN new.ctl : j > n + 1 => new.ctl[j] = <<"subscribe", "tasks">>
    BY <1>1, <1>3, <1>4
  <2>2. \A j \in DOMAIN new.ctl : j > n + 1 => new.ctl[j] # <<"unsubscribe", c>>
    BY <2>1
  <2>3. n + 1 \in DOMAIN new.ctl
    BY <1>3
  <2>4. new.ctl[n + 1] = <<"subscribe", c>>
    BY <1>1, <1>4, <1>5
  <2> QED
    BY <2>2, <2>3, <2>4 DEF Settles
<1>6. CASE c = "tasks"
  <2>1. \A j \in DOMAIN new.ctl : ~(j > n + 2)
    BY <1>3
  <2>2. n + 2 \in DOMAIN new.ctl
    BY <1>3
  <2>3. new.ctl[n + 2] = <<"subscribe", c>>
    BY <1>1, <1>4, <1>6
  <2> QED
    BY <2>1, <2>2, <2>3 DEF Settles
<1> QED
  BY <1>5, <1>6

\* The gateway handles the first control.
LEMMA HandledSettles ==
  ASSUME NEW row, row.ctl \in Seq(Controls), row.ctl # <<>>, row.sub \in SUBSET Channels,
         NEW c \in Channels, Settles(row, c),
         NEW new, new.ctl = Tail(row.ctl), new.sub = Subscriptions(row.sub, Head(row.ctl))
  PROVE  Settles(new, c)
<1> DEFINE n == Len(row.ctl)
<1>1. n \in Nat /\ n >= 1 /\ DOMAIN row.ctl = 1..n /\ DOMAIN new.ctl = 1..(n - 1)
  OBVIOUS
<1>2. \A i \in DOMAIN new.ctl : i + 1 \in DOMAIN row.ctl /\ new.ctl[i] = row.ctl[i + 1]
  BY <1>1
<1>3. Head(row.ctl) = row.ctl[1] /\ 1 \in DOMAIN row.ctl
  BY <1>1
<1> HIDE DEF n
<1>4. row.ctl[1] \in Controls
  BY <1>3
<1>5. CASE c \in row.sub /\ \A i \in DOMAIN row.ctl : row.ctl[i] # <<"unsubscribe", c>>
  <2>1. c \in new.sub
    BY <1>3, <1>4, <1>5 DEF Subscriptions, Controls
  <2> QED
    BY <1>2, <1>5, <2>1 DEF Settles
<1>6. CASE \E i \in DOMAIN row.ctl :
             /\ row.ctl[i] = <<"subscribe", c>>
             /\ \A j \in DOMAIN row.ctl : j > i => row.ctl[j] # <<"unsubscribe", c>>
  <2>1. PICK i \in DOMAIN row.ctl :
               /\ row.ctl[i] = <<"subscribe", c>>
               /\ \A j \in DOMAIN row.ctl : j > i => row.ctl[j] # <<"unsubscribe", c>>
    BY <1>6
  <2>2. CASE i = 1
    <3>1. c \in new.sub
      BY <1>3, <2>1, <2>2 DEF Subscriptions
    <3>2. \A j \in DOMAIN new.ctl : new.ctl[j] # <<"unsubscribe", c>>
      BY <1>1, <1>2, <2>1, <2>2
    <3> QED
      BY <3>1, <3>2 DEF Settles
  <2>3. CASE i # 1
    <3>1. i - 1 \in DOMAIN new.ctl /\ new.ctl[i - 1] = <<"subscribe", c>>
      BY <1>1, <1>2, <2>1, <2>3
    <3>2. \A j \in DOMAIN new.ctl : j > i - 1 => new.ctl[j] # <<"unsubscribe", c>>
      <4> SUFFICES ASSUME NEW j \in DOMAIN new.ctl, j > i - 1
                   PROVE  new.ctl[j] # <<"unsubscribe", c>>
        OBVIOUS
      <4>1. i \in Int /\ j \in Int
        BY <1>1
      <4>2. j + 1 > i
        BY <4>1
      <4> QED
        BY <1>2, <2>1, <4>2
    <3> QED
      BY <3>1, <3>2 DEF Settles
  <2> QED
    BY <2>2, <2>3
<1> QED
  BY <1>5, <1>6 DEF Settles

\* Only the subscriptions and the controls count.
LEMMA SameSettles ==
  ASSUME NEW row, NEW c, Settles(row, c), NEW new, new.sub = row.sub, new.ctl = row.ctl
  PROVE  Settles(new, c)
BY DEF Settles

(***************************************************************************)
(* The invariant.                                                          *)
(***************************************************************************)
LEMMA FreeRow ==
  /\ Free \in SocketRow /\ Free.st = "free" /\ Free.ctl = <<>>
  /\ \A good \in BOOLEAN :
       [Free EXCEPT !.st = "connecting", !.good = good] \in SocketRow
<1>1. <<>> \in Seq(Controls) /\ <<>> \in Seq(Messages)
  OBVIOUS
<1>2. {} \in SUBSET Channels
  OBVIOUS
<1>3. Free \in SocketRow
  BY <1>1, <1>2 DEF Free, SocketRow
<1>4. ASSUME NEW good \in BOOLEAN
      PROVE  [Free EXCEPT !.st = "connecting", !.good = good] \in SocketRow
  BY <1>3 DEF SocketRow
<1> QED
  BY <1>3, <1>4 DEF Free

LEMMA WSInitially == Init => WSInv
<1> SUFFICES ASSUME Init PROVE WSInv
  OBVIOUS
<1>1. 0 \in 0..MaxVersions
  BY LiveAssumption
<1> QED
  BY <1>1, FreeRow
  DEF Init, WSInv, WSTypes, SocketIsCurrent, ControlsOfOpen, OpenSettles, NoSocket

\* Without a timer and without a socket there is a free place for one.
LEMMA UnusedIsFree ==
  ASSUME \E s \in Sockets : sock[s].st = "free"
  PROVE  Unused \in Sockets /\ sock[Unused].st = "free"
BY DEF Unused

\* A new socket where there was none.
LEMMA ConnectKeeps ==
  ASSUME WSInv, Live = {}, client', session' \in {"in", "out"}, timers' = 0,
         token' \in BOOLEAN, fleet' = fleet,
         NEW good \in BOOLEAN,
         sock' = [sock EXCEPT ![Unused] = [Free EXCEPT !.st = "connecting", !.good = good]],
         current' = Unused, client' \in BOOLEAN
  PROVE  WSInv'
<1>1. \A s \in Sockets : sock[s].st = "free"
  BY DEF Live
<1>2. Unused \in Sockets
  BY <1>1, UnusedIsFree
<1> DEFINE new == [Free EXCEPT !.st = "connecting", !.good = good]
<1>3. new \in SocketRow /\ new.st = "connecting" /\ new.ctl = <<>>
  BY FreeRow DEF Free
<1> HIDE DEF new
<1>4. sock \in [Sockets -> SocketRow]
  BY DEF WSInv, WSTypes
<1>5. \A s \in Sockets : sock'[s] = IF s = Unused THEN new ELSE sock[s]
  BY <1>4 DEF new
<1>6. sock' \in [Sockets -> SocketRow]
  BY <1>2, <1>3, <1>4 DEF new
<1>7. WSTypes'
  BY <1>2, <1>6 DEF WSInv, WSTypes
<1>8. SocketIsCurrent'
  BY <1>1, <1>5 DEF SocketIsCurrent
<1>9. ControlsOfOpen'
  BY <1>1, <1>3, <1>5 DEF ControlsOfOpen, WSInv
<1>10. OpenSettles'
  BY <1>1, <1>3, <1>5 DEF OpenSettles
<1> QED
  BY <1>7, <1>8, <1>9, <1>10 DEF WSInv

\* A connection that fails or ends: its place is free, and a timer may be set.
LEMMA CloseKeeps ==
  ASSUME WSInv, NEW s \in Sockets, sock[s].st # "free", Close(s),
         UNCHANGED <<serverVars, pageVars, dataVars, client, current>>
  PROVE  WSInv'
<1>1. timers = 0 /\ timers' \in {0, 1}
  BY DEF WSInv, WSTypes, SocketIsCurrent, Close, Reconnect
<1>2. sock \in [Sockets -> SocketRow]
  BY DEF WSInv, WSTypes
<1>3. \A q \in Sockets : sock'[q].st = "free" /\ sock'[q].ctl = <<>>
  BY <1>2, FreeRow DEF WSInv, SocketIsCurrent, ControlsOfOpen, Close
<1>4. sock' \in [Sockets -> SocketRow]
  BY <1>2, FreeRow DEF Close
<1>5. client
  BY DEF WSInv, SocketIsCurrent
<1> QED
  BY <1>1, <1>3, <1>4, <1>5
  DEF WSInv, WSTypes, SocketIsCurrent, ControlsOfOpen, OpenSettles, serverVars, pageVars

\* Controls sent to the current socket, if it is open.
LEMMA SentKeeps ==
  ASSUME WSInv, NEW type \in {"subscribe", "unsubscribe"}, sock' = Sent(type)
  PROVE  /\ sock' \in [Sockets -> SocketRow]
         /\ \A s \in Sockets : sock'[s].st = sock[s].st
         /\ \A s \in Sockets : sock'[s].st # "open" => sock'[s].ctl = <<>>
         /\ \A s \in Sockets : sock'[s].st = "open" =>
              sock'[s].ctl = sock[s].ctl \o <<<<type, "devices">>, <<type, "tasks">>>>
<1> DEFINE both == <<<<type, "devices">>, <<type, "tasks">>>>
<1>1. both \in Seq(Controls)
  BY BothControls
<1>2. sock \in [Sockets -> SocketRow]
  BY DEF WSInv, WSTypes
<1>3. \A s \in Sockets : sock[s].ctl \o both \in Seq(Controls)
  BY <1>1, <1>2 DEF SocketRow
<1> HIDE DEF both
<1>4. CASE current # NoSocket /\ sock[current].st = "open"
  <2>1. current \in Sockets
    BY <1>4 DEF WSInv, WSTypes
  <2>2. sock' = [sock EXCEPT ![current].ctl = @ \o both]
    BY <1>4 DEF Sent, both
  <2>3. sock' = [sock EXCEPT ![current] = [sock[current] EXCEPT !.ctl = sock[current].ctl \o both]]
    BY <1>2, <2>1, <2>2
  <2>4. [sock[current] EXCEPT !.ctl = sock[current].ctl \o both] \in SocketRow
    BY <1>2, <1>3, <2>1 DEF SocketRow
  <2>5. sock' \in [Sockets -> SocketRow]
    BY <1>2, <2>1, <2>3, <2>4
  <2>6. \A s \in Sockets : s # current => sock'[s] = sock[s] /\ sock[s].st = "free"
    BY <1>2, <2>1, <2>3 DEF WSInv, SocketIsCurrent
  <2>7. sock'[current].st = sock[current].st /\ sock'[current].ctl = sock[current].ctl \o both
    BY <1>2, <2>1, <2>3 DEF SocketRow
  <2> QED
    BY <1>4, <2>1, <2>5, <2>6, <2>7 DEF WSInv, ControlsOfOpen, both
<1>5. CASE ~(current # NoSocket /\ sock[current].st = "open")
  <2>1. sock' = sock
    BY <1>5 DEF Sent
  <2>2. \A s \in Sockets : sock[s].st # "open"
    BY <1>5 DEF WSInv, SocketIsCurrent
  <2> QED
    BY <1>2, <2>1, <2>2 DEF WSInv, ControlsOfOpen
<1> QED
  BY <1>4, <1>5

\* Nothing the connection depends on changes.
LEMMA Unrelated ==
  ASSUME WSInv, fleet' \in 0..MaxVersions, UNCHANGED <<session, token, wsVars>>
  PROVE  WSInv'
<1> USE DEF WSInv, wsVars
<1>1. WSTypes'
  BY DEF WSTypes
<1>2. SocketIsCurrent'
  BY DEF SocketIsCurrent
<1>3. ControlsOfOpen'
  BY DEF ControlsOfOpen
<1>4. ASSUME session' = "in", NEW s \in Sockets, sock'[s].st = "open", NEW c \in Channels
      PROVE  Settles(sock'[s], c)
  BY <1>4, SameSettles DEF OpenSettles
<1>5. OpenSettles'
  BY <1>4 DEF OpenSettles, Settles
<1> QED
  BY <1>1, <1>2, <1>3, <1>5

\* Nothing but the flags of one socket and the messages to sockets changes.
LEMMA OnlyMessages ==
  ASSUME WSInv, fleet' \in 0..MaxVersions, UNCHANGED <<session, token, client, current, timers>>,
         sock' \in [Sockets -> SocketRow],
         \A s \in Sockets : /\ sock'[s].st = sock[s].st /\ sock'[s].sub = sock[s].sub
                            /\ sock'[s].ctl = sock[s].ctl
  PROVE  WSInv'
<1> USE DEF WSInv
<1>1. WSTypes'
  BY DEF WSTypes
<1>2. SocketIsCurrent'
  BY DEF SocketIsCurrent
<1>3. ControlsOfOpen'
  BY DEF ControlsOfOpen
<1>4. ASSUME session' = "in", NEW s \in Sockets, sock'[s].st = "open", NEW c \in Channels
      PROVE  Settles(sock'[s], c)
  BY <1>4, SameSettles DEF OpenSettles
<1>5. OpenSettles'
  BY <1>4 DEF OpenSettles, Settles
<1> QED
  BY <1>1, <1>2, <1>3, <1>5

\* What is published lengthens queues, and nothing else of a socket.
LEMMA BroadcastKeeps ==
  ASSUME WSInv, NEW channel, NEW message \in Messages, Broadcast(channel, message),
         fleet' \in 0..MaxVersions, UNCHANGED <<session, token, client, current, timers>>
  PROVE  WSInv'
<1> DEFINE heard == {s \in Sockets : sock[s].feed = "on" /\ channel \in sock[s].sub}
           New(s) == IF s \in heard THEN [sock[s] EXCEPT !.out = Append(@, message)]
                                    ELSE sock[s]
<1>1. sock \in [Sockets -> SocketRow]
  BY DEF WSInv, WSTypes
<1>2. sock' = [s \in Sockets |-> New(s)]
  BY DEF Broadcast
<1>3. ASSUME NEW s \in Sockets
      PROVE  /\ New(s) \in SocketRow /\ New(s).st = sock[s].st
             /\ New(s).sub = sock[s].sub /\ New(s).ctl = sock[s].ctl
  <2>1. Append(sock[s].out, message) \in Seq(Messages)
    BY <1>1 DEF SocketRow
  <2> QED
    BY <1>1, <2>1 DEF SocketRow
<1> HIDE DEF New
<1> QED
  BY <1>2, <1>3, OnlyMessages

\* A socket's own steps: it opens, fails, ends, is fed, and hands over what
\* was sent in either direction.
LEMMA SocketStepKeeps ==
  ASSUME WSInv, NEW s \in Sockets, SocketStep(s)
  PROVE  WSInv'
<1>1. sock \in [Sockets -> SocketRow]
  BY DEF WSInv, WSTypes
<1>2. CASE Accept(s)
  <2>1. sock' = [sock EXCEPT ![s] = [sock[s] EXCEPT !.st = "open", !.sub = Channels]]
    BY <1>1, <1>2 DEF Accept
  <2>2. [sock[s] EXCEPT !.st = "open", !.sub = Channels] \in SocketRow
    BY <1>1 DEF SocketRow
  <2>3. sock' \in [Sockets -> SocketRow]
    BY <1>1, <2>1, <2>2
  <2>4. /\ sock[s].ctl = <<>> /\ sock[s].st # "free"
        /\ \A q \in Sockets : q # s => sock[q].st = "free"
    BY <1>2 DEF Accept, WSInv, ControlsOfOpen, SocketIsCurrent
  <2>5. sock'[s].st = "open" /\ sock'[s].sub = Channels /\ sock'[s].ctl = <<>>
    BY <1>1, <2>1, <2>4 DEF SocketRow
  <2>6. \A q \in Sockets : q # s => sock'[q] = sock[q]
    BY <1>1, <2>1
  <2>7. ASSUME NEW c \in Channels PROVE Settles(sock'[s], c)
    <3>1. c \in sock'[s].sub /\ DOMAIN sock'[s].ctl = {}
      BY <2>5
    <3> QED
      BY <3>1 DEF Settles
  <2>8. \A q \in Sockets : sock'[q].st = "open" => q = s
    BY <2>4, <2>6
  <2>9. OpenSettles'
    BY <2>7, <2>8 DEF OpenSettles, Settles
  <2> USE <1>2 DEF Accept, WSInv, serverVars, pageVars
  <2>10. WSTypes'
    BY <2>3 DEF WSTypes
  <2>11. SocketIsCurrent'
    BY <2>4, <2>6 DEF SocketIsCurrent
  <2>12. ControlsOfOpen'
    BY <2>5, <2>6 DEF ControlsOfOpen
  <2> QED
    BY <2>9, <2>10, <2>11, <2>12
<1>3. CASE Refuse(s)
  BY <1>3, CloseKeeps DEF Refuse
<1>4. CASE Cut(s)
  BY <1>4, CloseKeeps DEF Cut
<1>5. CASE Listen(s) \/ ListenerEnds(s)
  <2>1. PICK state \in {"on", "ended"} :
               sock' = [sock EXCEPT ![s] = [sock[s] EXCEPT !.feed = state]]
    BY <1>1, <1>5 DEF Listen, ListenerEnds
  <2>2. [sock[s] EXCEPT !.feed = state] \in SocketRow
    BY <1>1 DEF SocketRow
  <2>3. sock' \in [Sockets -> SocketRow]
    BY <1>1, <2>1, <2>2
  <2>4. \A q \in Sockets : /\ sock'[q].st = sock[q].st /\ sock'[q].sub = sock[q].sub
                           /\ sock'[q].ctl = sock[q].ctl
    BY <1>1, <2>1 DEF SocketRow
  <2>5. fleet' \in 0..MaxVersions /\ UNCHANGED <<session, token, client, current, timers>>
    BY <1>5 DEF Listen, ListenerEnds, WSInv, WSTypes, serverVars, pageVars
  <2> QED
    BY <2>3, <2>4, <2>5, OnlyMessages
<1>6. CASE HandleControl(s)
  <2> DEFINE new == [sock[s] EXCEPT !.sub = Subscriptions(sock[s].sub, Head(sock[s].ctl)),
                                    !.ctl = Tail(sock[s].ctl)]
  <2>1. sock' = [sock EXCEPT ![s] = new]
    BY <1>1, <1>6 DEF HandleControl
  <2>2. sock[s].ctl \in Seq(Controls) /\ sock[s].ctl # <<>> /\ sock[s].sub \in SUBSET Channels
    BY <1>1, <1>6 DEF HandleControl, SocketRow
  <2>3. Head(sock[s].ctl) \in Controls /\ Tail(sock[s].ctl) \in Seq(Controls)
    BY <2>2
  <2>4. Subscriptions(sock[s].sub, Head(sock[s].ctl)) \in SUBSET Channels
    BY <2>2, <2>3 DEF Subscriptions, Controls
  <2>5. /\ new \in SocketRow /\ new.st = sock[s].st /\ new.ctl = Tail(sock[s].ctl)
        /\ new.sub = Subscriptions(sock[s].sub, Head(sock[s].ctl))
    BY <1>1, <2>3, <2>4 DEF SocketRow
  <2> HIDE DEF new
  <2>6. sock'[s] = new /\ \A q \in Sockets : q # s => sock'[q] = sock[q]
    BY <1>1, <2>1
  <2>7. sock[s].st = "open"
    BY <2>2 DEF WSInv, ControlsOfOpen
  <2>8. UNCHANGED <<fleet, session, token, client, current, timers>>
    BY <1>6 DEF HandleControl, serverVars, pageVars
  <2>9. WSTypes'
    BY <1>1, <2>1, <2>5, <2>8 DEF WSInv, WSTypes
  <2>10. SocketIsCurrent'
    BY <2>5, <2>6, <2>8 DEF WSInv, SocketIsCurrent
  <2>11. ControlsOfOpen'
    BY <2>5, <2>6, <2>7 DEF WSInv, ControlsOfOpen
  <2>12. ASSUME session = "in", NEW c \in Channels PROVE Settles(new, c)
    BY <2>2, <2>5, <2>7, <2>12, HandledSettles DEF WSInv, OpenSettles
  <2>13. ASSUME session' = "in", NEW q \in Sockets, sock'[q].st = "open", NEW c \in Channels
         PROVE  Settles(sock'[q], c)
    <3>1. q = s
      BY <2>5, <2>6, <2>7, <2>13 DEF WSInv, SocketIsCurrent
    <3> QED
      BY <2>6, <2>8, <2>12, <2>13, <3>1
  <2>14. OpenSettles'
    BY <2>13 DEF OpenSettles, Settles
  <2> QED
    BY <2>9, <2>10, <2>11, <2>14 DEF WSInv
<1>7. CASE Deliver(s)
  <2>1. sock' = [sock EXCEPT ![s] = [sock[s] EXCEPT !.out = Tail(sock[s].out)]]
    BY <1>1, <1>7 DEF Deliver
  <2>2. Tail(sock[s].out) \in Seq(Messages)
    BY <1>1, <1>7 DEF Deliver, SocketRow
  <2>3. [sock[s] EXCEPT !.out = Tail(sock[s].out)] \in SocketRow
    BY <1>1, <2>2 DEF SocketRow
  <2>4. sock' \in [Sockets -> SocketRow]
    BY <1>1, <2>1, <2>3
  <2>5. \A q \in Sockets : /\ sock'[q].st = sock[q].st /\ sock'[q].sub = sock[q].sub
                           /\ sock'[q].ctl = sock[q].ctl
    BY <1>1, <2>1 DEF SocketRow
  <2>6. fleet' \in 0..MaxVersions /\ UNCHANGED <<session, token, client, current, timers>>
    BY <1>7 DEF Deliver, WSInv, WSTypes, serverVars, pageVars
  <2> QED
    BY <2>4, <2>5, <2>6, OnlyMessages
<1> QED
  BY <1>2, <1>3, <1>4, <1>5, <1>6, <1>7 DEF SocketStep

\* Every step keeps the invariant.
LEMMA WSKept == WSInv /\ [Next]_vars => WSInv'
<1> SUFFICES ASSUME WSInv, [Next]_vars PROVE WSInv'
  OBVIOUS
<1>1. /\ sock \in [Sockets -> SocketRow] /\ fleet \in 0..MaxVersions
      /\ timers \in {0, 1} /\ client \in BOOLEAN /\ token \in BOOLEAN
  BY DEF WSInv, WSTypes
<1>2. CASE TimerFires
  <2>1. timers = 1 /\ timers' = 0 /\ client
    BY <1>1, <1>2 DEF TimerFires, WSInv, SocketIsCurrent
  <2>2. Live = {}
    BY <2>1 DEF Live, WSInv, SocketIsCurrent
  <2>3. session \in {"in", "out"}
    BY <2>1 DEF WSInv, WSTypes, SocketIsCurrent
  <2> QED
    BY <1>1, <1>2, <2>1, <2>2, <2>3, ConnectKeeps
    DEF TimerFires, Connected, serverVars, pageVars
<1>3. CASE \E s \in Sockets : SocketStep(s)
  BY <1>3, SocketStepKeeps
<1>4. CASE PublishFleet
  <2>1. fleet' \in 0..MaxVersions
    BY <1>1, <1>4, LiveAssumption DEF PublishFleet
  <2>2. <<"devices", fleet'>> \in Messages
    BY <2>1 DEF Messages
  <2> QED
    BY <1>4, <2>1, <2>2, BroadcastKeeps DEF PublishFleet, pageVars
<1>5. CASE PublishFails \/ StopServer \/ StartServer
  <2>1. fleet' \in 0..MaxVersions /\ UNCHANGED <<session, token, wsVars>>
    BY <1>1, <1>5, LiveAssumption DEF PublishFails, StopServer, StartServer, pageVars
  <2> QED
    BY <2>1, Unrelated
<1>6. ASSUME NEW t \in Tasks, CreateTask(t) \/ DeleteTask(t) PROVE WSInv'
  <2>1. <<"created", t>> \in Messages /\ <<"deleted", t>> \in Messages
    BY DEF Messages
  <2>2. fleet' \in 0..MaxVersions /\ UNCHANGED <<session, token, client, current, timers>>
    BY <1>1, <1>6 DEF CreateTask, DeleteTask, pageVars
  <2> QED
    BY <1>6, <2>1, <2>2, BroadcastKeeps DEF CreateTask, DeleteTask
<1>7. CASE Login
  <2>1. /\ session' = "in" /\ token' = TRUE /\ client' = TRUE
        /\ fleet' = fleet /\ timers' = timers
    BY <1>7 DEF Login, Mount, serverVars
  <2>2. CASE client
    <3>1. sock' = Sent("subscribe") /\ current' = current
      BY <1>7, <2>2 DEF Login
    <3>2. /\ sock' \in [Sockets -> SocketRow]
          /\ \A s \in Sockets : sock'[s].st = sock[s].st
          /\ \A s \in Sockets : sock'[s].st # "open" => sock'[s].ctl = <<>>
          /\ \A s \in Sockets : sock'[s].st = "open" =>
               sock'[s].ctl = sock[s].ctl
                 \o <<<<"subscribe", "devices">>, <<"subscribe", "tasks">>>>
      BY <3>1, SentKeeps
    <3>3. ASSUME NEW s \in Sockets, sock'[s].st = "open", NEW c \in Channels
          PROVE  Settles(sock'[s], c)
      <4>1. sock[s].ctl \in Seq(Controls)
        BY <1>1 DEF SocketRow
      <4> QED
        BY <3>2, <3>3, <4>1, SubscribedSettles
    <3>4. WSTypes'
      BY <2>1, <3>1, <3>2 DEF WSInv, WSTypes
    <3>5. SocketIsCurrent'
      BY <2>1, <2>2, <3>1, <3>2 DEF WSInv, SocketIsCurrent
    <3>6. ControlsOfOpen'
      BY <3>2 DEF ControlsOfOpen
    <3>7. OpenSettles'
      BY <3>3 DEF OpenSettles, Settles
    <3> QED
      BY <3>4, <3>5, <3>6, <3>7 DEF WSInv
  <2>3. CASE ~client
    <3>1. Live = {} /\ timers = 0
      BY <2>3 DEF Live, WSInv, SocketIsCurrent
    <3>2. /\ sock' = [sock EXCEPT ![Unused] = [Free EXCEPT !.st = "connecting", !.good = TRUE]]
          /\ current' = Unused
      BY <1>7, <2>3 DEF Login
    <3> QED
      BY <2>1, <3>1, <3>2, ConnectKeeps
  <2> QED
    BY <2>2, <2>3
<1>8. CASE Logout
  <2>1. /\ session' = "out" /\ token' = FALSE /\ sock' = Sent("unsubscribe")
        /\ UNCHANGED <<fleet, client, current, timers>>
    BY <1>8 DEF Logout, serverVars
  <2>2. /\ sock' \in [Sockets -> SocketRow]
        /\ \A s \in Sockets : sock'[s].st = sock[s].st
        /\ \A s \in Sockets : sock'[s].st # "open" => sock'[s].ctl = <<>>
    BY <2>1, SentKeeps
  <2>3. WSTypes'
    BY <2>1, <2>2 DEF WSInv, WSTypes
  <2>4. SocketIsCurrent'
    BY <2>1, <2>2 DEF WSInv, SocketIsCurrent
  <2>5. ControlsOfOpen'
    BY <2>2 DEF ControlsOfOpen
  <2>6. OpenSettles'
    BY <2>1 DEF OpenSettles
  <2> QED
    BY <2>3, <2>4, <2>5, <2>6 DEF WSInv
<1>9. CASE Reload
  <2>1. /\ session' \in {"checking", "out"} /\ client' = FALSE /\ current' = NoSocket
        /\ timers' = 0 /\ token' = token /\ fleet' = fleet
        /\ sock' = [s \in Sockets |-> Free]
    BY <1>9 DEF Reload, serverVars
  <2>2. WSTypes'
    BY <1>1, <2>1, FreeRow DEF WSTypes
  <2>3. SocketIsCurrent' /\ ControlsOfOpen'
    BY <2>1, FreeRow DEF SocketIsCurrent, ControlsOfOpen
  <2>4. OpenSettles'
    BY <2>1 DEF OpenSettles
  <2> QED
    BY <2>2, <2>3, <2>4 DEF WSInv
<1>10. CASE Checked
  <2>1. Live = {} /\ timers = 0
    BY <1>10 DEF Checked, Live, WSInv, SocketIsCurrent
  <2>2. /\ session' = "in" /\ token' = TRUE /\ client' = TRUE
        /\ fleet' = fleet /\ timers' = timers
        /\ sock' = [sock EXCEPT ![Unused] = [Free EXCEPT !.st = "connecting", !.good = token]]
        /\ current' = Unused
    BY <1>10 DEF Checked, Mount, Connected, serverVars
  <2> QED
    BY <1>1, <2>1, <2>2, ConnectKeeps
<1>11. CASE CheckFailed
  <2>1. /\ session' = "out" /\ token' = FALSE
        /\ UNCHANGED <<fleet, client, current, timers, sock>>
    BY <1>11 DEF CheckFailed, serverVars, wsVars
  <2>2. WSTypes' /\ SocketIsCurrent' /\ ControlsOfOpen'
    BY <2>1 DEF WSInv, WSTypes, SocketIsCurrent, ControlsOfOpen
  <2>3. OpenSettles'
    BY <2>1 DEF OpenSettles
  <2> QED
    BY <2>2, <2>3 DEF WSInv
<1>12. CASE \E g \in Mounts \X Channels : FetchStep(g)
  <2>1. fleet' \in 0..MaxVersions /\ UNCHANGED <<session, token, wsVars>>
    BY <1>1, <1>12 DEF FetchStep, AnswerFetch, ApplyFetch, LoseFetch, serverVars, pageVars
  <2> QED
    BY <2>1, Unrelated
<1>13. CASE UNCHANGED vars
  BY <1>1, <1>13, Unrelated DEF vars, wsVars
<1> QED
  BY <1>2, <1>3, <1>4, <1>5, <1>6, <1>7, <1>8, <1>9, <1>10, <1>11, <1>12, <1>13 DEF Next

(***************************************************************************)
(* The theorems.                                                           *)
(***************************************************************************)
LEMMA WSInvariant == Spec => []WSInv
<1> QED
  BY WSInitially, WSKept, PTL DEF Spec

\* WSClient.connect, scheduleReconnect and getWSClient: whatever fails, however
\* often users come and go, the tab has one connection or one timer at most.
THEOREM OneConnectionAlways == Spec => []OneConnection
<1>1. WSInv => OneConnection
  <2> SUFFICES ASSUME WSInv PROVE OneConnection
    OBVIOUS
  <2>1. timers \in {0, 1}
    BY DEF WSInv, WSTypes
  <2>2. CASE Live = {}
    BY <2>1, <2>2, FS_EmptySet DEF OneConnection
  <2>3. CASE Live # {}
    <3>1. Live = {current} /\ timers = 0
      BY <2>3 DEF Live, WSInv, SocketIsCurrent
    <3>2. Cardinality({current}) = 1
      BY FS_Singleton
    <3> QED
      BY <3>1, <3>2 DEF OneConnection
  <2> QED
    BY <2>2, <2>3
<1> QED
  BY <1>1, WSInvariant, PTL

\* subscribe, its undo and websocket_endpoint: whatever logouts, logins and
\* reconnections cross, a dashboard's open socket that has no control on its way
\* is served every channel.
THEOREM ChannelsServedAlways == Spec => []ChannelsServed
<1>1. WSInv => ChannelsServed
  <2> SUFFICES ASSUME WSInv, session = "in", current \in Live, sock[current].st = "open",
                      sock[current].ctl = <<>>
               PROVE  sock[current].sub = Channels
    BY DEF ChannelsServed
  <2>1. current \in Sockets
    BY DEF Live
  <2>2. \A c \in Channels : Settles(sock[current], c)
    BY <2>1 DEF WSInv, OpenSettles
  <2>3. \A c \in Channels : c \in sock[current].sub
    BY <2>2 DEF Settles
  <2>4. sock[current].sub \in SUBSET Channels
    BY <2>1 DEF WSInv, WSTypes, SocketRow
  <2> QED
    BY <2>3, <2>4
<1> QED
  BY <1>1, WSInvariant, PTL

(***************************************************************************)
(* The lists of tasks: what addTask and removeTask do to one, and why the  *)
(* filter of removeTask is defined at all.                                 *)
(***************************************************************************)
\* Every set of numbers has a smallest one: the set of the numbers below a
\* member is finite, and the sets of a finite set are well-founded.
LEMMA Smallest ==
  ASSUME NEW S \in SUBSET Nat, S # {}
  PROVE  \E n \in S : \A m \in S : n <= m
<1> DEFINE Below(n) == {k \in Nat : k < n}
           T == {Below(n) : n \in S}
<1>1. \A n \in S : Below(n) \in FiniteSubsetsOf(Nat)
  <2> SUFFICES ASSUME NEW n \in S PROVE IsFiniteSet(Below(n)) /\ Below(n) \in SUBSET Nat
    BY DEF FiniteSubsetsOf
  <2>1. \A k \in Below(n) : k <= n
    OBVIOUS
  <2>2. Below(n) \in SUBSET Nat
    OBVIOUS
  <2> HIDE DEF Below
  <2> QED
    BY <2>1, <2>2, FS_BoundedSetOfNaturals
<1>2. T \subseteq FiniteSubsetsOf(Nat) /\ T # {}
  BY <1>1
<1>3. PICK x \in T : \A y \in T : ~(<<y, x>> \in StrictSubsetOrdering(Nat))
  <2> HIDE DEF T
  <2> QED
    BY <1>2, FS_StrictSubsetOrderingWellFounded, WFMin
<1>4. PICK n \in S : x = Below(n)
  BY <1>3
<1>5. ASSUME NEW m \in S, m < n PROVE FALSE
  <2>1. Below(m) \subseteq Below(n) /\ m \in Below(n) /\ m \notin Below(m)
    BY <1>5
  <2>2. <<Below(m), Below(n)>> \in StrictSubsetOrdering(Nat)
    <3> Below(m) \in SUBSET Nat /\ Below(n) \in SUBSET Nat
      OBVIOUS
    <3> HIDE DEF Below
    <3> QED
      BY <2>1 DEF StrictSubsetOrdering
  <2> QED
    BY <2>2, <1>3, <1>4
<1> QED
  BY <1>5
Distinct(list) == \A i, j \in DOMAIN list : list[i] = list[j] => i = j

\* One step of the filter.
Filtered(list, t, kept, n) ==
  IF n = 0 THEN <<>>
  ELSE IF list[n] = t THEN kept[n - 1] ELSE Append(kept[n - 1], list[n])

\* The filter is well-defined: there is a function of the positions that
\* satisfies its equation.
LEMMA FilterExists ==
  ASSUME NEW list \in Seq(Tasks), NEW t
  PROVE  \E kept : kept = [n \in 0..Len(list) |-> Filtered(list, t, kept, n)]
<1> DEFINE Is(g, m) == g = [n \in 0..m |-> Filtered(list, t, g, n)]
           Undefined == {m \in Nat : ~ \E g : Is(g, m)}
<1>1. ASSUME NEW m \in Undefined, \A k \in Undefined : m <= k PROVE FALSE
  <2>1. CASE m = 0
    <3> DEFINE g == [n \in 0..0 |-> <<>>]
    <3>1. g = [n \in 0..m |-> Filtered(list, t, g, n)]
      BY <2>1 DEF Filtered
    <3> QED
      BY <3>1, <1>1
  <2>2. CASE m # 0
    <3>1. m - 1 \in Nat /\ m - 1 \notin Undefined
      BY <2>2, <1>1
    <3>2. PICK g : Is(g, m - 1)
      BY <3>1
    <3> DEFINE h == [n \in 0..m |-> IF n = m THEN Filtered(list, t, g, m) ELSE g[n]]
    <3>3. ASSUME NEW n \in 0..m PROVE h[n] = Filtered(list, t, h, n)
      <4>1. n # 0 => n - 1 \in 0..m /\ n - 1 # m /\ h[n - 1] = g[n - 1]
        OBVIOUS
      <4>2. n # m => g[n] = Filtered(list, t, g, n)
        BY <3>2
      <4> QED
        BY <4>1, <4>2 DEF Filtered
    <3>4. Is(h, m)
      BY <3>3
    <3> QED
      BY <3>4, <1>1
  <2> QED
    BY <2>1, <2>2
<1>2. Undefined = {}
  <2> SUFFICES ASSUME Undefined # {} PROVE FALSE
    OBVIOUS
  <2>1. Undefined \in SUBSET Nat
    OBVIOUS
  <2> HIDE DEF Undefined
  <2> QED
    BY <2>1, <1>1, Smallest
<1> QED
  BY <1>2

\* The filter returns tasks of the list, once each if the list has them once.
LEMMA FilterFacts ==
  ASSUME NEW list \in Seq(Tasks), NEW t
  PROVE  /\ RemoveTask(list, t) \in Seq(Tasks)
         /\ Distinct(list) => Distinct(RemoveTask(list, t))
<1> DEFINE kept == CHOOSE g : g = [n \in 0..Len(list) |-> Filtered(list, t, g, n)]
<1>1. kept = [n \in 0..Len(list) |-> Filtered(list, t, kept, n)]
  BY FilterExists
<1>2. RemoveTask(list, t) = kept[Len(list)]
  BY DEF RemoveTask, Filtered
<1> HIDE DEF kept
<1> DEFINE Holds(n) ==
      /\ kept[n] \in Seq(Tasks)
      /\ \A j \in DOMAIN kept[n] : \E i \in 1..n : kept[n][j] = list[i]
      /\ Distinct(list) => Distinct(kept[n])
    Wrong == {n \in 0..Len(list) : ~Holds(n)}
<1>3. ASSUME NEW n \in Wrong, \A k \in Wrong : n <= k PROVE FALSE
  <2>1. n \in 0..Len(list)
    OBVIOUS
  <2>2. CASE n = 0
    <3>1. kept[n] = <<>>
      BY <1>1, <2>1, <2>2 DEF Filtered
    <3>2. Holds(n)
      BY <3>1 DEF Distinct
    <3> QED
      BY <3>2
  <2>3. CASE n # 0
    <3>1. n - 1 \in 0..Len(list) /\ Holds(n - 1)
      <4>1. n - 1 \in 0..Len(list) /\ ~(n <= n - 1)
        BY <2>3, <2>1
      <4> QED
        BY <4>1, <1>3
    <3>2. CASE list[n] = t
      <4>1. kept[n] = kept[n - 1]
        BY <1>1, <2>1, <2>3, <3>2 DEF Filtered
      <4>2. 1..(n - 1) \subseteq 1..n
        BY <2>1
      <4>3. Holds(n)
        BY <3>1, <4>1, <4>2
      <4> QED
        BY <4>3
    <3>3. CASE list[n] # t
      <4> DEFINE s == kept[n - 1]
      <4>1. kept[n] = Append(s, list[n])
        BY <1>1, <2>1, <2>3, <3>3 DEF Filtered
      <4>2. list[n] \in Tasks /\ n \in 1..n /\ 1..(n - 1) \subseteq 1..n /\ n \notin 1..(n - 1)
        BY <2>1, <2>3
      <4>3. s \in Seq(Tasks)
        BY <3>1
      <4>4. \A j \in DOMAIN s : \E i \in 1..(n - 1) : s[j] = list[i]
        BY <3>1
      <4>5. Distinct(list) => Distinct(s)
        BY <3>1
      <4> HIDE DEF s
      <4>6. /\ kept[n] \in Seq(Tasks) /\ Len(kept[n]) = Len(s) + 1
            /\ \A j \in 1..Len(s) : kept[n][j] = s[j]
            /\ kept[n][Len(s) + 1] = list[n]
            /\ DOMAIN s = 1..Len(s) /\ DOMAIN kept[n] = 1..(Len(s) + 1)
        BY <4>1, <4>2, <4>3
      <4>7. \A j \in DOMAIN kept[n] : j \in DOMAIN s \/ j = Len(s) + 1
        BY <4>6, <4>3
      <4>8. \A j \in DOMAIN kept[n] : \E i \in 1..n : kept[n][j] = list[i]
        BY <4>2, <4>4, <4>6, <4>7
      <4>9. ASSUME Distinct(list), NEW j \in DOMAIN s PROVE kept[n][j] # list[n]
        <5>1. PICK i \in 1..(n - 1) : s[j] = list[i]
          BY <4>4
        <5>2. i \in DOMAIN list /\ n \in DOMAIN list /\ i # n
          BY <2>1, <2>3
        <5> QED
          BY <4>6, <5>1, <5>2, <4>9 DEF Distinct
      <4>10. Distinct(list) => Distinct(kept[n])
        BY <4>5, <4>6, <4>7, <4>9 DEF Distinct
      <4> QED
        BY <4>6, <4>8, <4>10
    <3> QED
      BY <3>2, <3>3
  <2> QED
    BY <2>2, <2>3
<1>4. Wrong = {}
  <2> SUFFICES ASSUME Wrong # {} PROVE FALSE
    OBVIOUS
  <2>1. Wrong \in SUBSET Nat
    OBVIOUS
  <2> HIDE DEF Wrong
  <2> QED
    BY <2>1, <1>3, Smallest
<1>5. Len(list) \in 0..Len(list)
  OBVIOUS
<1> QED
  BY <1>2, <1>4, <1>5

\* addTask appends what is not there yet.
LEMMA AppendKeepsDistinct ==
  ASSUME NEW list \in Seq(Tasks), Distinct(list), NEW t \in Tasks, t \notin Range(list)
  PROVE  Append(list, t) \in Seq(Tasks) /\ Distinct(Append(list, t))
<1>1. /\ Append(list, t) \in Seq(Tasks) /\ Len(Append(list, t)) = Len(list) + 1
      /\ \A i \in 1..Len(list) : Append(list, t)[i] = list[i] /\ list[i] # t
      /\ Append(list, t)[Len(list) + 1] = t
  BY DEF Range
<1>2. \A i \in DOMAIN Append(list, t) : i \in 1..Len(list) \/ i = Len(list) + 1
  BY <1>1
<1> QED
  BY <1>1, <1>2 DEF Distinct

\* A list without repetitions is as long as the set of its members is large.
LEMMA DistinctIsOnce ==
  ASSUME NEW list \in Seq(Tasks), Distinct(list)
  PROVE  Cardinality(Range(list)) = Len(list)
<1> DEFINE n == Len(list)
<1>1. n \in Nat /\ list \in [1..n -> Range(list)] /\ DOMAIN list = 1..n
  BY DEF Range
<1>2. list \in Injection(1..n, Range(list)) /\ list \in Surjection(1..n, Range(list))
  BY <1>1 DEF Distinct, Range, Injection, IsInjective, Surjection
<1>3. IsFiniteSet(1..n) /\ Cardinality(1..n) = n
  BY <1>1, FS_Interval
<1>4. ExistsBijection(1..n, Range(list))
  BY <1>2 DEF ExistsBijection, Bijection
<1> QED
  BY <1>3, <1>4, FS_Bijection

(***************************************************************************)
(* What the page and the server know: the types of the rest of the state,  *)
(* and that no list of tasks, on the server, on its way or in the store,   *)
(* has one twice.                                                          *)
(***************************************************************************)
PageTypes ==
  /\ alive \in BOOLEAN /\ mounts \in 0..MaxMounts /\ attempts \in 0..MaxReconnect
  /\ current # NoSocket => client
  /\ session = "in" => token

TaskList(list) == list \in Seq(Tasks) /\ Distinct(list)

ListsDistinct ==
  /\ gone \in SUBSET Tasks /\ TaskList(tasks)
  /\ fetch \in [Mounts \X Channels -> FetchRow]
  /\ \A g \in Mounts \X Channels : TaskList(fetch[g].tasks)
  /\ view \in [fleet: 0..MaxVersions, tasks: Seq(Tasks)] /\ TaskList(view.tasks)

LEMMA EmptyList == TaskList(<<>>)
BY DEF TaskList, Distinct

LEMMA NoRequest == NotAsked \in FetchRow /\ NotAsked.tasks = <<>>
<1>1. 0 \in 0..MaxVersions /\ <<>> \in Seq(Tasks)
  BY LiveAssumption
<1> QED
  BY <1>1 DEF NotAsked, FetchRow

LEMMA DataInitially == Init => PageTypes /\ ListsDistinct
<1> SUFFICES ASSUME Init PROVE PageTypes /\ ListsDistinct
  OBVIOUS
<1>1. PageTypes
  BY LiveAssumption DEF Init, PageTypes
<1>2. 0 \in 0..MaxVersions /\ <<>> \in Seq(Tasks)
  BY LiveAssumption
<1>3. view \in [fleet: 0..MaxVersions, tasks: Seq(Tasks)] /\ view.tasks = <<>>
  BY <1>2 DEF Init, EmptyView
<1>4. \A g \in Mounts \X Channels : fetch[g] \in FetchRow /\ fetch[g].tasks = <<>>
  BY NoRequest DEF Init
<1>5. fetch \in [Mounts \X Channels -> FetchRow]
  BY <1>4 DEF Init
<1>6. gone \in SUBSET Tasks /\ tasks = <<>>
  BY DEF Init
<1> QED
  BY <1>1, <1>3, <1>4, <1>5, <1>6, EmptyList DEF ListsDistinct

\* A push leaves a list without repetitions.
LEMMA PushedKeeps ==
  ASSUME NEW v \in [fleet: 0..MaxVersions, tasks: Seq(Tasks)], TaskList(v.tasks),
         NEW m \in Messages
  PROVE  /\ Pushed(v, m) \in [fleet: 0..MaxVersions, tasks: Seq(Tasks)]
         /\ TaskList(Pushed(v, m).tasks)
<1>1. CASE m[1] = "devices"
  <2>1. m[2] \in 0..MaxVersions
    BY <1>1 DEF Messages
  <2>2. Pushed(v, m) = [v EXCEPT !.fleet = m[2]]
    BY <1>1 DEF Pushed
  <2> QED
    BY <2>1, <2>2
<1>2. CASE m[1] = "created"
  <2>1. m[2] \in Tasks
    BY <1>2 DEF Messages
  <2>2. TaskList(AddTask(v.tasks, m[2]))
    BY <2>1, AppendKeepsDistinct DEF AddTask, TaskList
  <2>3. Pushed(v, m) = [v EXCEPT !.tasks = AddTask(v.tasks, m[2])]
    BY <1>2 DEF Pushed
  <2> QED
    BY <2>2, <2>3 DEF TaskList
<1>3. CASE m[1] = "deleted"
  <2>1. TaskList(RemoveTask(v.tasks, m[2]))
    BY FilterFacts DEF TaskList
  <2>2. Pushed(v, m) = [v EXCEPT !.tasks = RemoveTask(v.tasks, m[2])]
    BY <1>3 DEF Pushed
  <2> QED
    BY <2>1, <2>2 DEF TaskList
<1> QED
  BY <1>1, <1>2, <1>3 DEF Messages

LEMMA PageTypesKept == PageTypes /\ WSInv /\ [Next]_vars => PageTypes'
<1> SUFFICES ASSUME PageTypes, WSInv, [Next]_vars PROVE PageTypes'
  OBVIOUS
<1> USE DEF PageTypes
<1>1. CASE TimerFires
  BY <1>1 DEF TimerFires, serverVars, pageVars, WSInv, SocketIsCurrent
<1>2. ASSUME NEW s \in Sockets, SocketStep(s) PROVE PageTypes'
  <2>1. CASE Accept(s)
    BY <2>1, LiveAssumption DEF Accept, Opened, serverVars, pageVars
  <2>2. CASE Refuse(s) \/ Cut(s)
    BY <2>2, LiveAssumption DEF Refuse, Cut, Close, Reconnect, serverVars, pageVars
  <2>3. CASE Listen(s) \/ ListenerEnds(s) \/ HandleControl(s) \/ Deliver(s)
    BY <2>3 DEF Listen, ListenerEnds, HandleControl, Deliver, serverVars, pageVars
  <2> QED
    BY <1>2, <2>1, <2>2, <2>3 DEF SocketStep
<1>3. CASE PublishFleet \/ PublishFails \/ StopServer \/ StartServer
  BY <1>3 DEF PublishFleet, PublishFails, StopServer, StartServer, pageVars, wsVars
<1>4. CASE \E t \in Tasks : CreateTask(t) \/ DeleteTask(t)
  BY <1>4 DEF CreateTask, DeleteTask, pageVars
<1>5. CASE Login \/ Checked
  BY <1>5, LiveAssumption DEF Login, Checked, Mount, serverVars
<1>6. CASE Logout \/ Reload \/ CheckFailed
  BY <1>6, LiveAssumption DEF Logout, Reload, CheckFailed, serverVars, wsVars
<1>7. CASE \E g \in Mounts \X Channels : FetchStep(g)
  BY <1>7 DEF FetchStep, AnswerFetch, ApplyFetch, LoseFetch, serverVars, pageVars, wsVars
<1>8. CASE UNCHANGED vars
  BY <1>8 DEF vars
<1> QED
  BY <1>1, <1>2, <1>3, <1>4, <1>5, <1>6, <1>7, <1>8 DEF Next

LEMMA ListsKept == ListsDistinct /\ WSInv /\ [Next]_vars => ListsDistinct'
<1> SUFFICES ASSUME ListsDistinct, WSInv, [Next]_vars PROVE ListsDistinct'
  OBVIOUS
<1>1. ASSUME UNCHANGED <<tasks, gone, fetch, view>> PROVE ListsDistinct'
  BY <1>1 DEF ListsDistinct, TaskList
<1>2. ASSUME NEW s \in Sockets, SocketStep(s) PROVE ListsDistinct'
  <2>1. CASE Deliver(s)
    <3>1. sock[s].out \in Seq(Messages) /\ sock[s].out # <<>>
      BY <2>1 DEF Deliver, WSInv, WSTypes, SocketRow
    <3>2. Head(sock[s].out) \in Messages
      BY <3>1
    <3>3. view' \in {view, Pushed(view, Head(sock[s].out))}
      BY <2>1 DEF Deliver
    <3>4. UNCHANGED <<tasks, gone, fetch>>
      BY <2>1 DEF Deliver, serverVars
    <3> QED
      BY <3>2, <3>3, <3>4, PushedKeeps DEF ListsDistinct, TaskList
  <2>2. CASE ~Deliver(s)
    BY <1>1, <1>2, <2>2
    DEF SocketStep, Accept, Refuse, Cut, Listen, ListenerEnds, HandleControl,
        serverVars, dataVars
  <2> QED
    BY <2>1, <2>2
<1>3. ASSUME NEW t \in Tasks, CreateTask(t) \/ DeleteTask(t) PROVE ListsDistinct'
  <2>1. UNCHANGED <<fetch, view>> /\ gone' \in SUBSET Tasks
    BY <1>3 DEF CreateTask, DeleteTask, dataVars, ListsDistinct
  <2>2. TaskList(tasks')
    BY <1>3, AppendKeepsDistinct, FilterFacts DEF CreateTask, DeleteTask, ListsDistinct, TaskList
  <2> QED
    BY <2>1, <2>2 DEF ListsDistinct, TaskList
<1>4. CASE Login \/ Checked
  <2> DEFINE New(g) == IF g[1] = mounts + 1 THEN [NotAsked EXCEPT !.st = "asked"] ELSE fetch[g]
  <2>1. UNCHANGED <<tasks, gone, view>> /\ fetch' = [g \in Mounts \X Channels |-> New(g)]
    BY <1>4 DEF Login, Checked, Mount, serverVars
  <2>2. \A g \in Mounts \X Channels : New(g) \in FetchRow /\ TaskList(New(g).tasks)
    BY NoRequest, EmptyList DEF ListsDistinct, FetchRow
  <2> HIDE DEF New
  <2> QED
    BY <2>1, <2>2 DEF ListsDistinct, TaskList
<1>5. CASE Reload
  <2>1. /\ UNCHANGED <<tasks, gone>> /\ view' = EmptyView
        /\ fetch' = [g \in Mounts \X Channels |-> NotAsked]
    BY <1>5 DEF Reload, serverVars
  <2>2. EmptyView \in [fleet: 0..MaxVersions, tasks: Seq(Tasks)] /\ TaskList(EmptyView.tasks)
    BY EmptyList, LiveAssumption DEF EmptyView, TaskList
  <2> QED
    BY <2>1, <2>2, NoRequest, EmptyList DEF ListsDistinct, TaskList
<1>6. ASSUME NEW g \in Mounts \X Channels, FetchStep(g) PROVE ListsDistinct'
  <2>1. UNCHANGED <<tasks, gone>>
    BY <1>6 DEF FetchStep, AnswerFetch, ApplyFetch, LoseFetch, serverVars
  <2>2. CASE AnswerFetch(g)
    <3> DEFINE row == [st |-> "answered", fleet |-> IF g[2] = "devices" THEN fleet ELSE 0,
                       tasks |-> IF g[2] = "tasks" THEN tasks ELSE <<>>]
    <3>1. fetch' = [fetch EXCEPT ![g] = row] /\ view' = view
      BY <2>2 DEF AnswerFetch
    <3>2. row \in FetchRow /\ TaskList(row.tasks)
      BY EmptyList, LiveAssumption DEF FetchRow, ListsDistinct, TaskList, WSInv, WSTypes
    <3> HIDE DEF row
    <3> QED
      BY <2>1, <3>1, <3>2 DEF ListsDistinct, TaskList
  <2>3. CASE ApplyFetch(g)
    <3>1. fetch' = [fetch EXCEPT ![g] = NotAsked]
      BY <2>3 DEF ApplyFetch
    <3>2. fetch[g] \in FetchRow /\ TaskList(fetch[g].tasks)
      BY DEF ListsDistinct
    <3>3. view' \in [fleet: 0..MaxVersions, tasks: Seq(Tasks)] /\ TaskList(view'.tasks)
      BY <2>3, <3>2 DEF ApplyFetch, ListsDistinct, FetchRow
    <3> QED
      BY <2>1, <3>1, <3>3, NoRequest, EmptyList DEF ListsDistinct, TaskList
  <2>4. CASE LoseFetch(g)
    <3>1. fetch' = [fetch EXCEPT ![g] = NotAsked] /\ view' = view
      BY <2>4 DEF LoseFetch
    <3> QED
      BY <2>1, <3>1, NoRequest, EmptyList DEF ListsDistinct, TaskList
  <2> QED
    BY <1>6, <2>2, <2>3, <2>4 DEF FetchStep
<1>7. CASE \/ TimerFires \/ PublishFleet \/ PublishFails \/ StopServer \/ StartServer
           \/ Logout \/ CheckFailed
  BY <1>1, <1>7
  DEF TimerFires, PublishFleet, PublishFails, StopServer, StartServer, Logout, CheckFailed,
      serverVars, dataVars
<1>8. CASE UNCHANGED vars
  BY <1>1, <1>8 DEF vars
<1> QED
  BY <1>2, <1>3, <1>4, <1>5, <1>6, <1>7, <1>8 DEF Next

LEMMA DataInvariant == Spec => [](PageTypes /\ ListsDistinct)
<1> QED
  BY DataInitially, PageTypesKept, ListsKept, WSInvariant, PTL DEF Spec

\* Types: sockets, requests and store stay well formed, the client counts no
\* more attempts than it has, and refers to a socket only while it exists.
THEOREM LiveViewTyped == Spec => []TypeOK
<1>1. WSInv /\ PageTypes /\ ListsDistinct => TypeOK
  BY DEF TypeOK, WSInv, WSTypes, SocketIsCurrent, PageTypes, ListsDistinct, TaskList
<1> QED
  BY <1>1, WSInvariant, DataInvariant, PTL

\* addTask, setTasks and removeTask of the store: a task that arrives by
\* snapshots and by pushes, in any order and any number of times, is listed once.
THEOREM ListedOnceAlways == Spec => []ListedOnce
<1>1. ListsDistinct => ListedOnce
  BY DistinctIsOnce DEF ListsDistinct, TaskList, ListedOnce
<1> QED
  BY <1>1, DataInvariant, PTL
=============================================================================
