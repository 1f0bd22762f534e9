------------------------------ MODULE LiveMap -------------------------------
(***************************************************************************)
(* The parents' live-map sockets on top of Rides: tracking.consumers'      *)
(* VanPositionConsumer lets a socket in while the child's ride is active   *)
(* and puts it in the group of the route's van; the webhook's ride_ended   *)
(* message, sent to that group, makes the server close it.                 *)
(*                                                                         *)
(* One process serves everything, so a restart loses sockets and requests  *)
(* together, while groups live on in Redis.  connect() is a coroutine: the *)
(* webhook's threads and the other sockets run between its awaits.  A      *)
(* consumer handles one event at a time, those of its channel only after   *)
(* connect() has returned; until then they wait in the channel, which      *)
(* drops what comes when it is full.  Sockets refused before any look at a *)
(* ride (codes 4001 and 4002) touch nothing and are left out; so are the   *)
(* positions a socket shows, which PositionFeed models, daphne's timeout   *)
(* of a day, and the buffer that channels_redis keeps inside the process,  *)
(* which drops the oldest message.                                         *)
(***************************************************************************)
EXTENDS Rides

CONSTANTS Socket,     \* the websocket connections that parents open
          Capacity    \* messages a channel holds, 100 in channels_redis

ASSUME CapacityOK == Capacity \in Nat

VARIABLES sock,       \* the state of each connection's consumer
          member,     \* the channel layer's groups: the sockets of each van's
          inbox       \* the messages that wait in each socket's channel

liveVars == <<sock, member, inbox>>
allVars == <<vars, liveVars>>

SocketStage == {"new", "checked", "joined", "open", "closed", "hungup", "gone", "lost"}

Consumer == [stage : SocketStage, child : Child \cup {None},
             route : Route \cup {None}, van : Van \cup {None}]

Fresh == [stage |-> "new", child |-> None, route |-> None, van |-> None]

RideEnded(r) == [type |-> "ride_ended", route |-> r]
PositionUpdate == [type |-> "van_position_update", route |-> None]
Message == {RideEnded(r) : r \in Route} \cup {PositionUpdate}

\* channel_layer.group_send: every member's channel that is not full gets m.
GroupSend(v, m) ==
  inbox' = [s \in Socket |-> IF s \in member[v] /\ Len(inbox[s]) < Capacity
                               THEN Append(inbox[s], m) ELSE inbox[s]]

LiveInit ==
  /\ Init
  /\ sock = [s \in Socket |-> Fresh]
  /\ member = [v \in Van |-> {}]
  /\ inbox = [s \in Socket |-> <<>>]

-----------------------------------------------------------------------------
\* connect(), from await to await.

SetStage(s, stage) == sock' = [sock EXCEPT ![s].stage = stage]

\* The van whose group goes with route r, read through child.route.
VanOfSameKey(r) == r
VanOf(r) == routeVan[r]

\* get_child_for_parent and is_ride_active; 4003 when it says no.
Connect(s, c) ==
  /\ sock[s].stage = "new"
  /\ IF IsRideActive(child[c])
       THEN sock' = [sock EXCEPT ![s] = [stage |-> "checked", child |-> c,
                       route |-> child[c].route, van |-> VanOf(child[c].route)]]
       ELSE SetStage(s, "gone")
  /\ UNCHANGED <<vars, member, inbox>>

\* group_add.
GroupAddForgotten(v, s) == UNCHANGED member
GroupAdd(v, s) == member' = [member EXCEPT ![v] = @ \cup {s}]
Join(s) ==
  /\ sock[s].stage = "checked"
  /\ SetStage(s, "joined")
  /\ GroupAdd(sock[s].van, s)
  /\ UNCHANGED <<vars, inbox>>

\* accept() and the end of connect().
Accept(s) ==
  /\ sock[s].stage = "joined"
  /\ SetStage(s, "open")
  /\ UNCHANGED <<vars, member, inbox>>

-----------------------------------------------------------------------------
\* The handlers of an accepted socket, also run while a close is under way.

Accepted(s) == sock[s].stage \in {"open", "closed", "hungup"}

\* ride_ended closes the socket if the route is its own; a position is passed on.
EndsAny(s, m) == m.type = "ride_ended"
EndsNever(s, m) == FALSE
Ends(s, m) == m = RideEnded(sock[s].route)
Handle(s) ==
  /\ Accepted(s)
  /\ inbox[s] # <<>>
  /\ inbox' = [inbox EXCEPT ![s] = Tail(@)]
  /\ IF Ends(s, Head(inbox[s])) /\ sock[s].stage = "open"
       THEN SetStage(s, "closed")
       ELSE UNCHANGED sock
  /\ UNCHANGED <<vars, member>>

\* The parent closes the page, or the connection breaks.
HangUp(s) ==
  /\ sock[s].stage = "open"
  /\ SetStage(s, "hungup")
  /\ UNCHANGED <<vars, member, inbox>>

\* disconnect(): group_discard, and the channel is given up.
GroupDiscardForgotten(v, s) == UNCHANGED member
GroupDiscard(v, s) == member' = [member EXCEPT ![v] = @ \ {s}]
Disconnect(s) ==
  /\ sock[s].stage \in {"closed", "hungup"}
  /\ SetStage(s, "gone")
  /\ GroupDiscard(sock[s].van, s)
  /\ inbox' = [inbox EXCEPT ![s] = <<>>]
  /\ UNCHANGED vars

-----------------------------------------------------------------------------
\* The webhooks and the rest of the process.

\* GymSend of Rides, with the group it sends to: child.route.van_id, read now.
SendRideEnded(h) ==
  /\ GymSend(h)
  /\ LET r == run[h].cur.row.route IN GroupSend(VanOf(r), RideEnded(r))
  /\ UNCHANGED <<sock, member>>

\* traccar_position broadcasts a fix of van v.
Broadcast(v) ==
  /\ \E s \in member[v] : Len(inbox[s]) < Capacity
  /\ GroupSend(v, PositionUpdate)
  /\ UNCHANGED <<vars, sock, member>>

RestartAll ==
  /\ Restart
  /\ sock' = [s \in Socket |-> IF sock[s].stage \in {"new", "gone"} THEN sock[s]
                               ELSE [sock[s] EXCEPT !.stage = "lost"]]
  /\ inbox' = [s \in Socket |-> <<>>]
  /\ UNCHANGED member

RideStep(h) ==
  \/ \E v \in Van, f \in Fence, kind \in {"ENTER", "EXIT"} : Receive(h, v, f, kind)
  \/ Serve(h)
  \/ Fail(h)

ConsumerStep(s) == Join(s) \/ Accept(s) \/ Handle(s) \/ Disconnect(s)

LiveNext ==
  \/ (Tick \/ Staff) /\ UNCHANGED liveVars
  \/ \E h \in Handler : RideStep(h) /\ UNCHANGED liveVars
  \/ \E h \in Handler : SendRideEnded(h)
  \/ RestartAll
  \/ \E v \in Van : Broadcast(v)
  \/ \E s \in Socket : ConsumerStep(s) \/ HangUp(s) \/ \E c \in Child : Connect(s, c)

LiveSpec == LiveInit /\ [][LiveNext]_allVars

\* Time passes, requests are served, and a consumer's coroutine gets to run; whether
\* parents connect or hang up, and whether vans arrive or report, is left open.
LiveFairSpec ==
  /\ LiveSpec
  /\ WF_allVars(Tick /\ UNCHANGED liveVars)
  /\ \A h \in Handler : WF_allVars((Serve(h) /\ UNCHANGED liveVars) \/ SendRideEnded(h))
  /\ \A s \in Socket : WF_allVars(ConsumerStep(s))

-----------------------------------------------------------------------------
LiveTypeOK ==
  /\ TypeOK
  /\ sock \in [Socket -> Consumer]
  /\ member \in [Van -> SUBSET Socket]
  /\ \A s \in Socket : inbox[s] \in Seq(Message) /\ Len(inbox[s]) <= Capacity

\* A socket is in the group of the van it was let in for from group_add to
\* group_discard, on every path through connect, close, hang-up and restart, and in no
\* other group.  Only a restart leaves dead channels behind in Redis.
MembershipFollowsSocket ==
  \A s \in Socket, v \in Van :
    /\ sock[s].stage \in {"joined", "open", "closed", "hungup"} /\ sock[s].van = v
         => s \in member[v]
    /\ s \in member[v]
         => sock[s].van = v /\ sock[s].stage \notin {"new", "checked", "gone"}

\* When the gym arrival ends a child's ride, every socket that watches this child and
\* has joined is sent the message that closes it, unless its channel is full: the group
\* and the route that the webhook computes are those the consumer captured when it
\* connected (no route or child is given to another van or route meanwhile).
EndReachesWatchers ==
  [][\A h \in Handler, s \in Socket :
       SendRideEnded(h) /\ sock[s].child = run[h].cur.id
         /\ sock[s].stage \in {"joined", "open"} /\ Len(inbox[s]) < Capacity
       => \E k \in DOMAIN inbox'[s] : inbox'[s][k] = RideEnded(sock[s].route)]_allVars

\* A ride_ended that waits for a socket closes it, whatever positions are queued before
\* it and however the socket's own connect() is still under way.
QueuedEndCloses ==
  \A s \in Socket :
    (sock[s].stage \in {"joined", "open"}
       /\ \E k \in DOMAIN inbox[s] : inbox[s][k] = RideEnded(sock[s].route))
    ~> sock[s].stage \notin {"joined", "open"}

\* consumers.py:126: the message "should only close the socket watching the specific
\* route that just ended - not other children sharing the same van".
OnlyEndedRoutesClose ==
  \A s \in Socket : sock[s].stage = "closed" =>
    \E n \in notices : n.about = "gym" /\ n.route = sock[s].route

\* README.md:25: "when a ride ends the server closes their socket rather than trusting
\* the client to disconnect".
EndedRideCloses ==
  \A s \in Socket :
    (sock[s].stage = "open" /\ ~child[sock[s].child].active) ~> sock[s].stage # "open"

\* tracking/services.py:6: if the gym's webhook is lost, "a parent doesn't keep map
\* access forever": an open socket does not stay open for the rest of the day, after
\* which daphne would close any.
AccessEnds ==
  \A s \in Socket : sock[s].stage = "open" ~> sock[s].stage # "open"
=============================================================================
