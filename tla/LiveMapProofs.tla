---------------------------- MODULE LiveMapProofs ----------------------------
(***************************************************************************)
(* Theorems about LiveMap for every number of sockets, children, routes    *)
(* and requests, every capacity of the channels and every bound of Rides.  *)
(***************************************************************************)
EXTENDS LiveMap, RidesProofs, SequenceTheorems

\* The sockets read what Rides writes and write none of it.
LEMMA LiveStepIsRideStep == [LiveNext]_allVars => [Next]_vars
<1> SUFFICES ASSUME [LiveNext]_allVars PROVE [Next]_vars
  OBVIOUS
<1>1. ASSUME NEW h \in Handler, RideStep(h) \/ SendRideEnded(h) PROVE Next
  BY <1>1 DEF RideStep, SendRideEnded, Next, Webhook, Proceed
<1>2. ASSUME NEW s \in Socket, ConsumerStep(s) \/ HangUp(s) \/ \E c \in Child : Connect(s, c)
      PROVE  UNCHANGED vars
  BY <1>2 DEF ConsumerStep, HangUp, Connect, Join, Accept, Handle, Disconnect
<1>3. ASSUME NEW v \in Van, Broadcast(v) PROVE UNCHANGED vars
  BY <1>3 DEF Broadcast
<1>4. RestartAll => Next
  BY DEF RestartAll, Next
<1>5. CASE UNCHANGED allVars
  BY <1>5 DEF allVars
<1> QED
  BY <1>1, <1>2, <1>3, <1>4, <1>5 DEF LiveNext, Next

\* Every behaviour of the live map is one of Rides: what is proved of the rides, their
\* notices and their gate stands with any number of parents watching.
THEOREM LiveMapImplementsRides == LiveSpec => Spec
<1>1. LiveInit => Init
  BY DEF LiveInit
<1> QED
  BY <1>1, LiveStepIsRideStep, PTL DEF LiveSpec, Spec

-----------------------------------------------------------------------------
\* Channels.

Queued(q) == {q[k] : k \in 1..Len(q)}

LEMMA QueueSteps ==
  ASSUME NEW q \in Seq(Message)
  PROVE  /\ \A m \in Message : /\ Append(q, m) \in Seq(Message)
                               /\ Len(Append(q, m)) = Len(q) + 1
                               /\ Queued(Append(q, m)) = Queued(q) \cup {m}
         /\ q # <<>> => /\ Tail(q) \in Seq(Message) /\ Len(Tail(q)) <= Len(q)
                        /\ Queued(Tail(q)) \subseteq Queued(q) /\ Head(q) \in Queued(q)
         /\ Queued(q) = {q[k] : k \in DOMAIN q} /\ Len(q) \in Nat /\ Queued(q) \subseteq Message
<1>0. Len(q) \in Nat /\ DOMAIN q = 1..Len(q) /\ q \in [1..Len(q) -> Message]
  BY LenProperties
<1>1. ASSUME NEW m \in Message
      PROVE  /\ Append(q, m) \in Seq(Message) /\ Len(Append(q, m)) = Len(q) + 1
             /\ Queued(Append(q, m)) = Queued(q) \cup {m}
  <2>1. /\ Append(q, m) \in Seq(Message) /\ Len(Append(q, m)) = Len(q) + 1
        /\ \A i \in 1..Len(q) : Append(q, m)[i] = q[i]
        /\ Append(q, m)[Len(q) + 1] = m
    BY AppendProperties
  <2>2. 1..Len(Append(q, m)) = (1..Len(q)) \cup {Len(q) + 1}
    BY <1>0, <2>1
  <2> QED
    BY <2>1, <2>2 DEF Queued
<1>2. ASSUME q # <<>>
      PROVE  /\ Tail(q) \in Seq(Message) /\ Len(Tail(q)) <= Len(q)
             /\ Queued(Tail(q)) \subseteq Queued(q) /\ Head(q) \in Queued(q)
  <2>1. /\ Tail(q) \in Seq(Message) /\ Len(Tail(q)) = Len(q) - 1
        /\ \A i \in 1..Len(Tail(q)) : Tail(q)[i] = q[i + 1]
    BY <1>2, HeadTailProperties
  <2>2. \A i \in 1..Len(Tail(q)) : i + 1 \in 1..Len(q)
    BY <1>0, <2>1
  <2>3. Head(q) = q[1] /\ 1 \in 1..Len(q)
    BY <1>0, <1>2, EmptySeq
  <2> QED
    BY <1>0, <2>1, <2>2, <2>3 DEF Queued
<1> QED
  BY <1>0, <1>1, <1>2 DEF Queued

\* What a group_send leaves in a channel: what was there, and m at most.
LEMMA GroupSendQueues ==
  ASSUME inbox \in [Socket -> Seq(Message)], \A s \in Socket : Len(inbox[s]) <= Capacity,
         NEW v \in Van, NEW m \in Message, GroupSend(v, m)
  PROVE  /\ inbox' \in [Socket -> Seq(Message)]
         /\ \A s \in Socket : /\ Len(inbox'[s]) <= Capacity
                              /\ Queued(inbox'[s]) \subseteq Queued(inbox[s]) \cup {m}
                              /\ s \in member[v] /\ Len(inbox[s]) < Capacity => m \in Queued(inbox'[s])
<1>1. \A s \in Socket : inbox'[s] = IF s \in member[v] /\ Len(inbox[s]) < Capacity
                                      THEN Append(inbox[s], m) ELSE inbox[s]
  BY DEF GroupSend
<1>2. \A s \in Socket :
        /\ inbox'[s] \in Seq(Message) /\ Len(inbox'[s]) <= Capacity
        /\ Queued(inbox'[s]) \subseteq Queued(inbox[s]) \cup {m}
        /\ s \in member[v] /\ Len(inbox[s]) < Capacity => m \in Queued(inbox'[s])
  <2> SUFFICES ASSUME NEW s \in Socket
               PROVE  /\ inbox'[s] \in Seq(Message) /\ Len(inbox'[s]) <= Capacity
                      /\ Queued(inbox'[s]) \subseteq Queued(inbox[s]) \cup {m}
                      /\ s \in member[v] /\ Len(inbox[s]) < Capacity => m \in Queued(inbox'[s])
    OBVIOUS
  <2>1. /\ Append(inbox[s], m) \in Seq(Message) /\ Len(Append(inbox[s], m)) = Len(inbox[s]) + 1
        /\ Queued(Append(inbox[s], m)) = Queued(inbox[s]) \cup {m} /\ Len(inbox[s]) \in Nat
    BY QueueSteps
  <2>2. CASE s \in member[v] /\ Len(inbox[s]) < Capacity
    <3>1. inbox'[s] = Append(inbox[s], m)
      BY <1>1, <2>2
    <3>2. Len(inbox[s]) + 1 <= Capacity
      BY <2>1, <2>2, CapacityOK
    <3> QED
      BY <2>1, <3>1, <3>2
  <2>3. CASE ~(s \in member[v] /\ Len(inbox[s]) < Capacity)
    BY <1>1, <2>3
  <2> QED
    BY <2>2, <2>3
<1> QED
  BY <1>2 DEF GroupSend

-----------------------------------------------------------------------------
\* The consumers' types and their membership of groups.

Watches(c) == c.stage \in {"checked", "joined", "open", "closed", "hungup"}

InGroup(c) == c.stage \in {"joined", "open", "closed", "hungup"}

Admitted(c) == Watches(c) => c.child \in Child /\ c.route \in Route /\ c.van \in Van

LiveInv ==
  /\ TypeInv
  /\ sock \in [Socket -> Consumer]
  /\ member \in [Van -> SUBSET Socket]
  /\ inbox \in [Socket -> Seq(Message)]
  /\ \A s \in Socket : Len(inbox[s]) <= Capacity
  /\ \A s \in Socket : Admitted(sock[s])
  /\ MembershipFollowsSocket

LEMMA InitLive == LiveInit => LiveInv
<1> SUFFICES ASSUME LiveInit PROVE LiveInv
  OBVIOUS
<1>1. TypeInv
  BY TypeInvInit DEF LiveInit
<1>2. \A s \in Socket : inbox[s] = <<>> /\ sock[s].stage = "new" /\ \A v \in Van : s \notin member[v]
  BY DEF LiveInit, Fresh
<1>3. inbox \in [Socket -> Seq(Message)] /\ Len(<<>>) = 0
  BY EmptySeq DEF LiveInit
<1>4. sock \in [Socket -> Consumer] /\ member \in [Van -> SUBSET Socket]
  BY DEF LiveInit, Fresh, Consumer, SocketStage
<1> QED
  BY <1>1, <1>2, <1>3, <1>4, CapacityOK DEF LiveInv, Admitted, Watches, MembershipFollowsSocket

\* A step of one socket, whose consumer becomes c.
LEMMA SocketInv ==
  ASSUME LiveInv, TypeInv', NEW s \in Socket, NEW c \in Consumer, Admitted(c),
         sock' = [sock EXCEPT ![s] = c],
         member' \in [Van -> SUBSET Socket],
         \A v \in Van, o \in Socket \ {s} : o \in member'[v] <=> o \in member[v],
         \A v \in Van : /\ InGroup(c) /\ c.van = v => s \in member'[v]
                        /\ s \in member'[v] => c.van = v /\ c.stage \notin {"new", "checked", "gone"},
         inbox' \in [Socket -> Seq(Message)],
         \A o \in Socket : Len(inbox'[o]) <= Capacity
  PROVE  LiveInv'
<1>1. sock' \in [Socket -> Consumer] /\ \A o \in Socket : sock'[o] = IF o = s THEN c ELSE sock[o]
  BY DEF LiveInv
<1>2. \A o \in Socket : Admitted(sock[o])'
  BY <1>1 DEF LiveInv, Admitted, Watches
<1>3. MembershipFollowsSocket'
  BY <1>1 DEF LiveInv, MembershipFollowsSocket, InGroup
<1> QED
  BY <1>1, <1>2, <1>3 DEF LiveInv

\* connect() up to each await, the handlers, and disconnect().
LEMMA ConsumerInv ==
  ASSUME LiveInv, TypeInv', NEW s \in Socket,
         ConsumerStep(s) \/ HangUp(s) \/ \E c \in Child : Connect(s, c)
  PROVE  LiveInv'
<1>0. /\ sock \in [Socket -> Consumer] /\ sock[s] \in Consumer /\ Admitted(sock[s])
      /\ member \in [Van -> SUBSET Socket] /\ inbox \in [Socket -> Seq(Message)]
      /\ \A o \in Socket : Len(inbox[o]) <= Capacity
      /\ \A v \in Van : /\ InGroup(sock[s]) /\ sock[s].van = v => s \in member[v]
                        /\ s \in member[v] =>
                             sock[s].van = v /\ sock[s].stage \notin {"new", "checked", "gone"}
  BY DEF LiveInv, MembershipFollowsSocket, InGroup
<1>1. \A stage \in SocketStage :
        LET c == [sock[s] EXCEPT !.stage = stage]
        IN /\ [sock EXCEPT ![s].stage = stage] = [sock EXCEPT ![s] = c] /\ c \in Consumer
           /\ c.stage = stage /\ c.child = sock[s].child /\ c.route = sock[s].route
           /\ c.van = sock[s].van
  BY <1>0 DEF Consumer
<1>2. ASSUME NEW c \in Child, Connect(s, c) PROVE LiveInv'
  <2>1. sock[s].stage = "new" /\ UNCHANGED <<member, inbox>> /\ \A v \in Van : s \notin member[v]
    BY <1>0, <1>2 DEF Connect
  <2>2. CASE IsRideActive(child[c])
    <3> DEFINE k == [stage |-> "checked", child |-> c, route |-> child[c].route,
                     van |-> VanOf(child[c].route)]
    <3>1. child[c].route \in Route /\ VanOf(child[c].route) \in Van
      BY DEF LiveInv, TypeInv, TypeOK, Row, VanOf
    <3>2. k \in Consumer /\ Admitted(k) /\ ~InGroup(k)
      BY <3>1 DEF Consumer, SocketStage, Admitted, Watches, InGroup
    <3>3. sock' = [sock EXCEPT ![s] = k]
      BY <1>2, <2>2 DEF Connect
    <3> HIDE DEF k
    <3> QED
      BY <1>0, <2>1, <3>2, <3>3, SocketInv
  <2>3. CASE ~IsRideActive(child[c])
    <3> DEFINE k == [sock[s] EXCEPT !.stage = "gone"]
    <3>1. sock' = [sock EXCEPT ![s] = k] /\ k \in Consumer /\ k.stage = "gone"
      BY <1>1, <1>2, <2>3 DEF Connect, SetStage, SocketStage
    <3> HIDE DEF k
    <3> QED
      BY <1>0, <2>1, <3>1, SocketInv DEF Admitted, Watches, InGroup
  <2> QED
    BY <2>2, <2>3
<1>3. CASE Join(s)
  <2> DEFINE k == [sock[s] EXCEPT !.stage = "joined"]
  <2>1. /\ sock' = [sock EXCEPT ![s] = k] /\ k \in Consumer /\ k.stage = "joined"
        /\ k.child = sock[s].child /\ k.route = sock[s].route /\ k.van = sock[s].van
    BY <1>1, <1>3 DEF Join, SetStage, SocketStage
  <2>2. /\ sock[s].van \in Van /\ Admitted(k) /\ inbox' = inbox
        /\ \A v \in Van : s \notin member[v]
        /\ member' = [member EXCEPT ![sock[s].van] = @ \cup {s}]
    BY <1>0, <1>3, <2>1 DEF Join, GroupAdd, Admitted, Watches
  <2>3. /\ member' \in [Van -> SUBSET Socket]
        /\ \A v \in Van : member'[v] = IF v = k.van THEN member[v] \cup {s} ELSE member[v]
    BY <1>0, <2>1, <2>2
  <2> HIDE DEF k
  <2> QED
    BY <1>0, <2>1, <2>2, <2>3, SocketInv
<1>4. CASE Accept(s) \/ HangUp(s)
  <2>1. PICK stage \in {"open", "hungup"} : SetStage(s, stage)
    BY <1>4 DEF Accept, HangUp
  <2> DEFINE k == [sock[s] EXCEPT !.stage = stage]
  <2>2. /\ sock' = [sock EXCEPT ![s] = k] /\ k \in Consumer /\ k.stage = stage
        /\ k.child = sock[s].child /\ k.route = sock[s].route /\ k.van = sock[s].van
    BY <1>1, <2>1 DEF SetStage, SocketStage
  <2> HIDE DEF k
  <2>3. Admitted(k) /\ InGroup(sock[s]) /\ InGroup(k) /\ UNCHANGED <<member, inbox>>
    BY <1>0, <1>4, <2>2 DEF Admitted, Watches, InGroup, Accept, HangUp
  <2> QED
    BY <1>0, <2>2, <2>3, SocketInv
<1>5. CASE Handle(s)
  <2>1. /\ inbox[s] # <<>> /\ inbox' = [inbox EXCEPT ![s] = Tail(inbox[s])] /\ UNCHANGED member
    BY <1>5 DEF Handle
  <2>2. Tail(inbox[s]) \in Seq(Message) /\ Len(Tail(inbox[s])) <= Capacity
    BY <1>0, <2>1, QueueSteps, CapacityOK
  <2>3. inbox' \in [Socket -> Seq(Message)] /\ \A o \in Socket : Len(inbox'[o]) <= Capacity
    BY <1>0, <2>1, <2>2
  <2>4. CASE Ends(s, Head(inbox[s])) /\ sock[s].stage = "open"
    <3> DEFINE k == [sock[s] EXCEPT !.stage = "closed"]
    <3>1. /\ sock' = [sock EXCEPT ![s] = k] /\ k \in Consumer /\ k.stage = "closed"
          /\ k.child = sock[s].child /\ k.route = sock[s].route /\ k.van = sock[s].van
      BY <1>1, <1>5, <2>4 DEF Handle, SetStage, SocketStage
    <3> HIDE DEF k
    <3>2. Admitted(k) /\ InGroup(sock[s]) /\ InGroup(k)
      BY <1>0, <2>4, <3>1 DEF Admitted, Watches, InGroup
    <3> QED
      BY <1>0, <2>1, <2>3, <3>1, <3>2, SocketInv
  <2>5. CASE ~(Ends(s, Head(inbox[s])) /\ sock[s].stage = "open")
    <3>1. sock' = sock
      BY <1>5, <2>5 DEF Handle
    <3>2. sock' = [sock EXCEPT ![s] = sock[s]]
      BY <1>0, <3>1
    <3> QED
      BY <1>0, <2>1, <2>3, <3>2, SocketInv
  <2> QED
    BY <2>4, <2>5
<1>6. CASE Disconnect(s)
  <2> DEFINE k == [sock[s] EXCEPT !.stage = "gone"]
  <2>1. /\ sock' = [sock EXCEPT ![s] = k] /\ k \in Consumer /\ k.stage = "gone"
    BY <1>1, <1>6 DEF Disconnect, SetStage, SocketStage
  <2>2. member' = [member EXCEPT ![sock[s].van] = @ \ {s}] /\ sock[s].van \in Van
        /\ inbox' = [inbox EXCEPT ![s] = <<>>]
    BY <1>0, <1>6 DEF Disconnect, GroupDiscard, Admitted, Watches
  <2>3. /\ member' \in [Van -> SUBSET Socket]
        /\ \A v \in Van : member'[v] = IF v = sock[s].van THEN member[v] \ {s} ELSE member[v]
    BY <1>0, <2>2
  <2>4. inbox' \in [Socket -> Seq(Message)] /\ \A o \in Socket : Len(inbox'[o]) <= Capacity
    <3>1. <<>> \in Seq(Message) /\ Len(<<>>) = 0
      BY EmptySeq
    <3> QED
      BY <1>0, <2>2, <3>1, CapacityOK
  <2>5. \A v \in Van : s \notin member'[v]
    BY <1>0, <2>3
  <2> HIDE DEF k
  <2>6. Admitted(k) /\ ~InGroup(k)
    BY <2>1 DEF Admitted, Watches, InGroup
  <2>7. \A v \in Van, o \in Socket \ {s} : o \in member'[v] <=> o \in member[v]
    BY <2>3
  <2> QED
    BY <2>1, <2>3, <2>4, <2>5, <2>6, <2>7, SocketInv
<1> QED
  BY <1>2, <1>3, <1>4, <1>5, <1>6 DEF ConsumerStep

LEMMA StepLive == LiveInv /\ [LiveNext]_allVars => LiveInv'
<1> SUFFICES ASSUME LiveInv, [LiveNext]_allVars PROVE LiveInv'
  OBVIOUS
<1>1. TypeInv'
  BY LiveStepIsRideStep, TypeInvInductive DEF LiveInv
<1>2. ASSUME UNCHANGED <<sock, member>>, inbox' \in [Socket -> Seq(Message)],
             \A s \in Socket : Len(inbox'[s]) <= Capacity
      PROVE  LiveInv'
  BY <1>1, <1>2 DEF LiveInv, Admitted, Watches, MembershipFollowsSocket
<1>3. ASSUME UNCHANGED liveVars PROVE LiveInv'
  BY <1>2, <1>3 DEF liveVars, LiveInv
<1>4. ASSUME NEW v \in Van, NEW m \in Message, GroupSend(v, m), UNCHANGED <<sock, member>>
      PROVE  LiveInv'
  <2>1. inbox' \in [Socket -> Seq(Message)] /\ \A s \in Socket : Len(inbox'[s]) <= Capacity
    BY <1>4, GroupSendQueues DEF LiveInv
  <2> QED
    BY <1>2, <1>4, <2>1
<1>5. ASSUME NEW h \in Handler, SendRideEnded(h) PROVE LiveInv'
  <2> DEFINE r == run[h].cur.row.route
  <2>1. r \in Route
    BY <1>5 DEF LiveInv, TypeInv, Underway, HoldsCopy, SendRideEnded, GymSend, Instance, Row
  <2>2. VanOf(r) \in Van /\ RideEnded(r) \in Message
    BY <2>1 DEF VanOf, Message, LiveInv, TypeInv, TypeOK
  <2>3. GroupSend(VanOf(r), RideEnded(r)) /\ UNCHANGED <<sock, member>>
    BY <1>5 DEF SendRideEnded
  <2> QED
    BY <1>4, <2>2, <2>3
<1>6. ASSUME NEW v \in Van, Broadcast(v) PROVE LiveInv'
  BY <1>4, <1>6 DEF Broadcast, Message
<1>7. CASE RestartAll
  <2>1. /\ \A s \in Socket : sock'[s] = IF sock[s].stage \in {"new", "gone"} THEN sock[s]
                                        ELSE [sock[s] EXCEPT !.stage = "lost"]
        /\ sock' = [s \in Socket |-> sock'[s]]
        /\ inbox' = [s \in Socket |-> <<>>] /\ member' = member
    BY <1>7 DEF RestartAll
  <2>2. \A s \in Socket :
          /\ sock'[s] \in Consumer /\ sock'[s].van = sock[s].van
          /\ sock'[s].stage = IF sock[s].stage \in {"new", "gone"} THEN sock[s].stage ELSE "lost"
    BY <2>1 DEF LiveInv, Consumer, SocketStage
  <2>3. sock' \in [Socket -> Consumer]
    BY <2>1, <2>2
  <2>4. inbox' \in [Socket -> Seq(Message)] /\ \A s \in Socket : Len(inbox'[s]) <= Capacity
    <3>1. <<>> \in Seq(Message) /\ Len(<<>>) = 0
      BY EmptySeq
    <3> QED
      BY <2>1, <3>1, CapacityOK
  <2>5. \A s \in Socket : Admitted(sock[s])'
    BY <2>2 DEF Admitted, Watches
  <2>6. MembershipFollowsSocket'
    BY <2>1, <2>2 DEF LiveInv, MembershipFollowsSocket
  <2> QED
    BY <1>1, <2>1, <2>3, <2>4, <2>5, <2>6 DEF LiveInv
<1>8. CASE UNCHANGED allVars
  BY <1>3, <1>8 DEF allVars
<1> QED
  BY <1>1, <1>3, <1>5, <1>6, <1>7, <1>8, ConsumerInv DEF LiveNext

\* Every variable of the live map keeps its type, and no channel overflows.
THEOREM LiveTypes == LiveSpec => []LiveTypeOK
<1>1. LiveInv => LiveTypeOK
  BY DEF LiveInv, TypeInv, LiveTypeOK
<1> QED
  BY <1>1, InitLive, StepLive, PTL DEF LiveSpec

\* group_add and group_discard pair up on every path of a consumer, restarts included.
THEOREM MembershipFollows == LiveSpec => []MembershipFollowsSocket
<1>1. LiveInv => MembershipFollowsSocket
  BY DEF LiveInv
<1> QED
  BY <1>1, InitLive, StepLive, PTL DEF LiveSpec
-----------------------------------------------------------------------------
(***************************************************************************)
(* What closes a socket.  A ride_ended in a channel, and a request that is *)
(* about to send one, have a notice of the gym arrival behind them.        *)
(***************************************************************************)
Noticed(r) == \E n \in notices : n.about = "gym" /\ n.route = r

EndTold(q) == q.stage \in {"gymSave", "gymSend"} => Noticed(q.cur.row.route)

EndInv ==
  /\ \A h \in Handler : EndTold(run[h])
  /\ \A s \in Socket : \A m \in Queued(inbox[s]) : m.type = "ride_ended" => Noticed(m.route)
  /\ \A s \in Socket : sock[s].stage = "closed" => Noticed(sock[s].route)

LEMMA GotoStep ==
  ASSUME TypeInv, NEW h \in Handler, NEW q, Goto(h, q)
  PROVE  \A k \in Handler : run'[k] = IF k = h THEN q ELSE run[k]
BY DEF Goto, TypeInv, TypeOK

LEMMA NoticedStays == [Next]_vars => \A r : Noticed(r) => Noticed(r)'
BY NoticesGrow DEF Noticed

\* Each step of a request, by what it makes of it.
LEMMA ProceedTells ==
  ASSUME TypeInv, NEW h \in Handler, Proceed(h), EndTold(run[h])
  PROVE  \E q : Goto(h, q) /\ EndTold(q)'
<1> DEFINE R == run[h]
<1>0. R \in Request
  BY DEF TypeInv, TypeOK
<1>1. ASSUME NEW q, Goto(h, q), q.stage \notin {"gymSave", "gymSend"}
      PROVE  \E p : Goto(h, p) /\ EndTold(p)'
  BY <1>1 DEF EndTold
<1>2. CASE SchoolQuery(h)
  <2> DEFINE q == [R EXCEPT !.stage = "school", !.at = now, !.todo = SchoolCandidates(R.fence)]
  <2>1. Goto(h, q) /\ q.stage = "school"
    BY <1>0, <1>2 DEF SchoolQuery, Request
  <2> HIDE DEF q
  <2> QED
    BY <1>1, <2>1
<1>3. CASE SchoolSkip(h)
  <2>1. PICK i \in R.todo : Goto(h, [R EXCEPT !.todo = @ \ {i}])
    BY <1>3 DEF SchoolSkip
  <2>2. [R EXCEPT !.todo = @ \ {i}].stage = "school"
    BY <1>0, <1>3 DEF SchoolSkip, Request
  <2> QED
    BY <1>1, <2>1, <2>2
<1>4. CASE SchoolScheduleGone(h) \/ Respond(h)
  <2>1. Goto(h, Idle) /\ Idle.stage = "idle"
    BY <1>4 DEF SchoolScheduleGone, Respond, Idle
  <2> QED
    BY <1>1, <2>1
<1>5. CASE SchoolNotify(h)
  <2>1. PICK i \in R.todo : Goto(h, [R EXCEPT !.stage = "schoolSave", !.todo = @ \ {i}, !.cur = i])
    BY <1>5 DEF SchoolNotify
  <2>2. [R EXCEPT !.stage = "schoolSave", !.todo = @ \ {i}, !.cur = i].stage = "schoolSave"
    BY <1>0 DEF Request
  <2> QED
    BY <1>1, <2>1, <2>2
<1>6. CASE SchoolSave(h) \/ GymSend(h)
  <2>1. PICK stage \in {"school", "gym"} : Goto(h, [R EXCEPT !.stage = stage, !.cur = None])
    BY <1>6 DEF SchoolSave, GymSend
  <2>2. [R EXCEPT !.stage = stage, !.cur = None].stage = stage
    BY <1>0 DEF Request
  <2> QED
    BY <1>1, <2>1, <2>2
<1>7. CASE GymQuery(h)
  <2> DEFINE q == [R EXCEPT !.stage = "gym", !.todo = GymCandidates(R.fence)]
  <2>1. Goto(h, q) /\ q.stage = "gym"
    BY <1>0, <1>7 DEF GymQuery, Request
  <2> HIDE DEF q
  <2> QED
    BY <1>1, <2>1
<1>8. CASE GymNotify(h)
  <2>1. PICK i \in R.todo :
          /\ notices' = notices \cup {NoticeTo(i, "gym", R)}
          /\ Goto(h, [R EXCEPT !.stage = "gymSave", !.todo = @ \ {i}, !.cur = i])
    BY <1>8 DEF GymNotify, NotifyParent
  <2>2. PICK q : q = [R EXCEPT !.stage = "gymSave", !.todo = @ \ {i}, !.cur = i]
    OBVIOUS
  <2>3. q.cur = i /\ Goto(h, q)
    BY <1>0, <2>1, <2>2 DEF Request
  <2>4. NoticeTo(i, "gym", R).about = "gym" /\ NoticeTo(i, "gym", R).route = i.row.route
    BY DEF NoticeTo
  <2>5. EndTold(q)'
    BY <2>1, <2>3, <2>4 DEF EndTold, Noticed
  <2> QED
    BY <2>3, <2>5
<1>9. CASE GymSave(h)
  <2>1. PICK q : q = [R EXCEPT !.stage = "gymSend"]
    OBVIOUS
  <2>2. Goto(h, q) /\ q.cur = R.cur /\ notices' = notices /\ R.stage = "gymSave"
    BY <1>0, <1>9, <2>1 DEF GymSave, Request
  <2>3. EndTold(q)'
    BY <2>2 DEF EndTold, Noticed
  <2> QED
    BY <2>2, <2>3
<1> QED
  BY <1>2, <1>3, <1>4, <1>5, <1>6, <1>7, <1>8, <1>9 DEF Proceed, Serve

LEMMA RequestsTell ==
  ASSUME TypeInv, \A h \in Handler : EndTold(run[h]), [Next]_vars
  PROVE  \A h \in Handler : EndTold(run[h])'
<1>1. ASSUME NEW h \in Handler, NEW q, Goto(h, q), EndTold(q)'
      PROVE  \A k \in Handler : EndTold(run[k])'
  <2> SUFFICES ASSUME NEW k \in Handler PROVE EndTold(run[k])'
    OBVIOUS
  <2>1. run'[k] = q \/ run'[k] = run[k]
    BY <1>1, GotoStep
  <2> QED
    BY <1>1, <2>1, NoticedStays DEF EndTold, Noticed
<1>2. Idle.stage = "idle"
  BY DEF Idle
<1>3. EndTold(Idle)'
  BY <1>2 DEF EndTold
<1>4. ASSUME NEW h \in Handler, Proceed(h) PROVE \A k \in Handler : EndTold(run[k])'
  <2>1. PICK q : Goto(h, q) /\ EndTold(q)'
    BY <1>4, ProceedTells
  <2> QED
    BY <1>1, <2>1
<1>5. ASSUME NEW h \in Handler, Fail(h) PROVE \A k \in Handler : EndTold(run[k])'
  BY <1>1, <1>3, <1>5 DEF Fail
<1>6. ASSUME UNCHANGED run PROVE \A k \in Handler : EndTold(run[k])'
  BY <1>6, NoticedStays DEF EndTold, Noticed
<1>7. ASSUME NEW h \in Handler, NEW v \in Van, NEW f \in Fence, NEW kind \in {"ENTER", "EXIT"},
             Receive(h, v, f, kind)
      PROVE  \A k \in Handler : EndTold(run[k])'
  <2> DEFINE q == [Idle EXCEPT !.stage = "received", !.van = v, !.fence = f]
  <2>1. q.stage = "received"
    BY DEF Idle
  <2>2. Goto(h, q) \/ UNCHANGED run
    BY <1>7 DEF Receive
  <2> HIDE DEF q
  <2>3. EndTold(q)'
    BY <2>1 DEF EndTold
  <2> QED
    BY <1>1, <1>6, <2>2, <2>3
<1>8. CASE Restart
  <2>1. \A k \in Handler : run'[k] = Idle
    BY <1>8 DEF Restart
  <2> QED
    BY <1>2, <2>1 DEF EndTold
<1>9. CASE Tick \/ Staff \/ UNCHANGED vars
  BY <1>6, <1>9 DEF Tick, Staff, EditRead, EditSave, SetSchedule, MoveRoute, vars
<1> QED
  BY <1>4, <1>5, <1>7, <1>8, <1>9 DEF Next, Webhook

LEMMA StepEnd == LiveInv /\ EndInv /\ [LiveNext]_allVars => EndInv'
<1> SUFFICES ASSUME LiveInv, EndInv, [LiveNext]_allVars PROVE EndInv'
  OBVIOUS
<1>0. /\ sock \in [Socket -> Consumer] /\ inbox \in [Socket -> Seq(Message)]
      /\ \A s \in Socket : Len(inbox[s]) <= Capacity
  BY DEF LiveInv
<1>1. \A h \in Handler : EndTold(run[h])'
  BY LiveStepIsRideStep, RequestsTell DEF LiveInv, EndInv
<1>2. \A r : Noticed(r) => Noticed(r)'
  BY LiveStepIsRideStep, NoticedStays
<1>3. ASSUME \A s \in Socket : \A m \in Queued(inbox'[s]) : m.type = "ride_ended" =>
               m \in Queued(inbox[s]) \/ Noticed(m.route),
             \A s \in Socket : sock'[s].stage = "closed" =>
               \/ Noticed(sock'[s].route)
               \/ sock[s].stage = "closed" /\ sock'[s].route = sock[s].route
      PROVE  EndInv'
  <2>1. \A s \in Socket : \A m \in Queued(inbox'[s]) : m.type = "ride_ended" => Noticed(m.route)'
    BY <1>2, <1>3 DEF EndInv
  <2>2. \A s \in Socket : sock'[s].stage = "closed" => Noticed(sock'[s].route)
    BY <1>3 DEF EndInv
  <2>3. notices \subseteq notices'
    BY LiveStepIsRideStep, NoticesGrow
  <2> QED
    BY <1>1, <2>1, <2>2, <2>3 DEF EndInv, Noticed
<1>4. ASSUME UNCHANGED sock,
             \A s \in Socket : \A m \in Queued(inbox'[s]) : m.type = "ride_ended" =>
               m \in Queued(inbox[s]) \/ Noticed(m.route)
      PROVE  EndInv'
  BY <1>3, <1>4
<1>5. ASSUME UNCHANGED liveVars PROVE EndInv'
  BY <1>4, <1>5 DEF liveVars
<1>6. ASSUME NEW h \in Handler, SendRideEnded(h) PROVE EndInv'
  <2> DEFINE r == run[h].cur.row.route
  <2>1. r \in Route /\ Noticed(r)
    BY <1>6 DEF LiveInv, TypeInv, Underway, HoldsCopy, SendRideEnded, GymSend, Instance, Row,
                EndInv, EndTold
  <2>2. VanOf(r) \in Van /\ RideEnded(r) \in Message /\ RideEnded(r).route = r
    BY <2>1 DEF VanOf, Message, RideEnded, LiveInv, TypeInv, TypeOK
  <2>3. GroupSend(VanOf(r), RideEnded(r)) /\ UNCHANGED sock
    BY <1>6 DEF SendRideEnded
  <2> HIDE DEF r
  <2>4. \A s \in Socket : Queued(inbox'[s]) \subseteq Queued(inbox[s]) \cup {RideEnded(r)}
    BY <1>0, <2>2, <2>3, GroupSendQueues
  <2> QED
    BY <1>4, <2>1, <2>2, <2>3, <2>4
<1>7. ASSUME NEW v \in Van, Broadcast(v) PROVE EndInv'
  <2>1. GroupSend(v, PositionUpdate) /\ UNCHANGED sock /\ PositionUpdate \in Message
        /\ PositionUpdate.type # "ride_ended"
    BY <1>7 DEF Broadcast, Message, PositionUpdate
  <2>2. \A s \in Socket : Queued(inbox'[s]) \subseteq Queued(inbox[s]) \cup {PositionUpdate}
    BY <1>0, <2>1, GroupSendQueues
  <2> QED
    BY <1>4, <2>1, <2>2
<1>8. CASE RestartAll
  <2>1. \A s \in Socket : Queued(inbox'[s]) = {}
    BY <1>8, EmptySeq DEF RestartAll, Queued
  <2>2. \A s \in Socket : sock'[s].stage # "closed"
    BY <1>0, <1>8 DEF RestartAll, Consumer
  <2> QED
    BY <1>3, <2>1, <2>2
<1>9. ASSUME NEW s \in Socket, ConsumerStep(s) \/ HangUp(s) \/ \E c \in Child : Connect(s, c)
      PROVE  EndInv'
  <2>1. CASE Handle(s)
    <3>1. /\ inbox[s] # <<>> /\ inbox' = [inbox EXCEPT ![s] = Tail(inbox[s])]
          /\ \/ sock' = sock
             \/ Ends(s, Head(inbox[s])) /\ sock' = [sock EXCEPT ![s].stage = "closed"]
      <4>1. CASE Ends(s, Head(inbox[s])) /\ sock[s].stage = "open"
        BY <2>1, <4>1 DEF Handle, SetStage
      <4>2. CASE ~(Ends(s, Head(inbox[s])) /\ sock[s].stage = "open")
        BY <2>1, <4>2 DEF Handle
      <4> QED
        BY <4>1, <4>2
    <3>2. Queued(Tail(inbox[s])) \subseteq Queued(inbox[s]) /\ Head(inbox[s]) \in Queued(inbox[s])
      BY <1>0, <3>1, QueueSteps
    <3>3. \A o \in Socket : Queued(inbox'[o]) \subseteq Queued(inbox[o])
      BY <1>0, <3>1, <3>2
    <3>4. Ends(s, Head(inbox[s])) => Noticed(sock[s].route)
      BY <3>2 DEF Ends, RideEnded, EndInv
    <3>5. \A o \in Socket : sock'[o].stage = "closed" =>
            \/ Noticed(sock'[o].route)
            \/ sock[o].stage = "closed" /\ sock'[o].route = sock[o].route
      <4>1. CASE sock' = sock
        BY <4>1
      <4>2. CASE Ends(s, Head(inbox[s])) /\ sock' = [sock EXCEPT ![s].stage = "closed"]
        <5>1. /\ sock'[s].route = sock[s].route
              /\ \A o \in Socket \ {s} : sock'[o] = sock[o]
          BY <1>0, <4>2 DEF Consumer
        <5> QED
          BY <3>4, <4>2, <5>1
      <4> QED
        BY <3>1, <4>1, <4>2
    <3> QED
      BY <1>3, <3>3, <3>5
  <2>2. CASE Join(s) \/ Accept(s) \/ HangUp(s) \/ \E c \in Child : Connect(s, c)
    <3>1. inbox' = inbox
      BY <2>2 DEF Join, Accept, HangUp, Connect
    <3>2. \A o \in Socket : sock'[o].stage = "closed" => sock'[o] = sock[o]
      BY <1>0, <2>2 DEF Join, Accept, HangUp, Connect, SetStage, Consumer
    <3> QED
      BY <1>3, <3>1, <3>2
  <2>3. CASE Disconnect(s)
    <3>1. \A o \in Socket : inbox'[o] = IF o = s THEN <<>> ELSE inbox[o]
      BY <1>0, <2>3 DEF Disconnect
    <3>2. Queued(<<>>) = {}
      BY EmptySeq DEF Queued
    <3>3. \A o \in Socket : sock'[o].stage = "closed" => sock'[o] = sock[o]
      BY <1>0, <2>3 DEF Disconnect, SetStage, Consumer
    <3> QED
      BY <1>3, <3>1, <3>2, <3>3
  <2> QED
    BY <1>9, <2>1, <2>2, <2>3 DEF ConsumerStep
<1>10. CASE UNCHANGED allVars
  BY <1>5, <1>10 DEF allVars
<1> QED
  BY <1>5, <1>6, <1>7, <1>8, <1>9, <1>10 DEF LiveNext

LEMMA InitEnd == LiveInit => EndInv
<1> SUFFICES ASSUME LiveInit PROVE EndInv
  OBVIOUS
<1>1. \A h \in Handler : run[h].stage = "idle"
  BY DEF LiveInit, Init, Idle
<1>2. \A s \in Socket : sock[s].stage = "new" /\ inbox[s] = <<>>
  BY DEF LiveInit, Fresh
<1>3. Queued(<<>>) = {}
  BY EmptySeq DEF Queued
<1> QED
  BY <1>1, <1>2, <1>3 DEF EndInv, EndTold

\* A socket is closed by the server only when a gym arrival has ended a ride of its own route,
\* whatever other children's rides of the same van end meanwhile.
THEOREM OnlyEndedClose == LiveSpec => []OnlyEndedRoutesClose
<1>1. EndInv => OnlyEndedRoutesClose
  BY DEF EndInv, Noticed, OnlyEndedRoutesClose
<1> QED
  BY <1>1, InitLive, StepLive, InitEnd, StepEnd, PTL DEF LiveSpec
-----------------------------------------------------------------------------
(***************************************************************************)
(* Whom the end of a ride reaches.  Without the staff's edits, the copies  *)
(* of rows that requests hold and the attributes that consumers captured   *)
(* agree with the tables, however old they are: the saves of the webhooks  *)
(* leave the route as it is.                                               *)
(***************************************************************************)
CopyRoute(i) == i.row.route = child[i.id].route

FixedRoutes(q) ==
  /\ \A i \in q.todo : CopyRoute(i)
  /\ HoldsCopy(q) => CopyRoute(q.cur)

Captured(c) == c.route = child[c.child].route /\ c.van = routeVan[c.route]

RouteInv ==
  /\ \A h \in Handler : FixedRoutes(run[h])
  /\ \A s \in Socket : Watches(sock[s]) => Captured(sock[s])

\* FixedRoutes(q), with the types that q's copies have.
SoundCopies(q) ==
  /\ HoldsCopy(q) => q.cur \in Instance /\ CopyRoute(q.cur)
  /\ \A i \in q.todo : i \in Instance /\ CopyRoute(i)

RoutesKept ==
  /\ routeVan' = routeVan
  /\ child' \in [Child -> Row]
  /\ \A c \in Child : child'[c].route = child[c].route

\* Every row the webhook saves goes back with the route it has.
LEMMA ProceedKeepsRoutes ==
  ASSUME TypeInv, TypeInv', NEW h \in Handler, Proceed(h), FixedRoutes(run[h])
  PROVE  RoutesKept /\ \E q : Goto(h, q) /\ SoundCopies(q)
<1> DEFINE R == run[h]
           Reads == {Read(c) : c \in Child}
           Sound == RoutesKept /\ \E q : Goto(h, q) /\ SoundCopies(q)
<1> HIDE DEF Reads, Sound
<1>0. /\ R \in Request /\ R.todo \subseteq Instance /\ child \in [Child -> Row]
      /\ child' \in [Child -> Row]
      /\ HoldsCopy(R) => R.cur \in Instance
      /\ \A i \in Instance : i.id \in Child /\ i.row \in Row
  BY DEF TypeInv, TypeOK, Underway, Request, Instance
<1>1. ASSUME NEW q, Goto(h, q), UNCHANGED <<child, routeVan>>,
             \/ ~HoldsCopy(q)
             \/ q.cur \in R.todo
             \/ HoldsCopy(R) /\ q.cur = R.cur,
             q.todo \subseteq R.todo \cup Reads
      PROVE  Sound
  <2>1. RoutesKept
    BY <1>0, <1>1 DEF RoutesKept
  <2>2. \A i \in Reads : i \in Instance /\ CopyRoute(i)
    BY ReadIsInstance DEF Read, CopyRoute, Reads
  <2>3. \A i \in q.todo : i \in Instance /\ CopyRoute(i)
    BY <1>0, <1>1, <2>2 DEF FixedRoutes
  <2>4. HoldsCopy(q) => q.cur \in Instance /\ CopyRoute(q.cur)
    BY <1>0, <1>1 DEF FixedRoutes
  <2> QED
    BY <1>1, <2>1, <2>3, <2>4 DEF Sound, SoundCopies
<1>2. CASE SchoolQuery(h)
  <2>1. PICK q : q = [R EXCEPT !.stage = "school", !.at = now, !.todo = SchoolCandidates(R.fence)]
    OBVIOUS
  <2>2. /\ Goto(h, q) /\ q.stage = "school" /\ q.todo = SchoolCandidates(R.fence)
        /\ UNCHANGED <<child, routeVan>>
    BY <1>0, <1>2, <2>1 DEF SchoolQuery, Request
  <2>3. SchoolCandidates(R.fence) \subseteq Reads
    BY DEF Reads, SchoolCandidates
  <2>4. ~HoldsCopy(q)
    BY <2>2 DEF HoldsCopy
  <2> QED
    BY <1>1, <2>2, <2>3, <2>4 DEF Sound
<1>3. CASE SchoolSkip(h)
  <2>1. PICK i \in R.todo : Goto(h, [R EXCEPT !.todo = @ \ {i}])
    BY <1>3 DEF SchoolSkip
  <2>2. PICK q : q = [R EXCEPT !.todo = @ \ {i}]
    OBVIOUS
  <2>3. Goto(h, q) /\ q.stage = "school" /\ q.todo \subseteq R.todo /\ UNCHANGED <<child, routeVan>>
    BY <1>0, <1>3, <2>1, <2>2 DEF SchoolSkip, Request
  <2>4. ~HoldsCopy(q)
    BY <2>3 DEF HoldsCopy
  <2> QED
    BY <1>1, <2>3, <2>4 DEF Sound
<1>4. CASE SchoolScheduleGone(h) \/ Respond(h)
  <2>1. PICK q : q = Idle
    OBVIOUS
  <2>2. Goto(h, q) /\ ~HoldsCopy(q) /\ q.todo = {} /\ UNCHANGED <<child, routeVan>>
    BY <1>4, <2>1 DEF SchoolScheduleGone, Respond, Idle, HoldsCopy
  <2> QED
    BY <1>1, <2>2 DEF Sound
<1>5. CASE SchoolNotify(h) \/ GymNotify(h)
  <2>1. PICK i \in R.todo, stage \in {"schoolSave", "gymSave"} :
          Goto(h, [R EXCEPT !.stage = stage, !.todo = @ \ {i}, !.cur = i])
    BY <1>5 DEF SchoolNotify, GymNotify
  <2>2. PICK q : q = [R EXCEPT !.stage = stage, !.todo = @ \ {i}, !.cur = i]
    OBVIOUS
  <2>3. Goto(h, q) /\ q.cur = i /\ q.todo \subseteq R.todo /\ UNCHANGED <<child, routeVan>>
    BY <1>0, <1>5, <2>1, <2>2 DEF SchoolNotify, GymNotify, Request
  <2> QED
    BY <1>1, <2>3 DEF Sound
<1>6. CASE GymQuery(h)
  <2>1. PICK q : q = [R EXCEPT !.stage = "gym", !.todo = GymCandidates(R.fence)]
    OBVIOUS
  <2>2. /\ Goto(h, q) /\ q.stage = "gym" /\ q.todo = GymCandidates(R.fence)
        /\ UNCHANGED <<child, routeVan>>
    BY <1>0, <1>6, <2>1 DEF GymQuery, Request
  <2>3. GymCandidates(R.fence) \subseteq Reads
    BY DEF Reads, GymCandidates
  <2>4. ~HoldsCopy(q)
    BY <2>2 DEF HoldsCopy
  <2> QED
    BY <1>1, <2>2, <2>3, <2>4 DEF Sound
<1>7. CASE GymSend(h)
  <2>1. PICK q : q = [R EXCEPT !.stage = "gym", !.cur = None]
    OBVIOUS
  <2>2. Goto(h, q) /\ q.stage = "gym" /\ q.todo = R.todo /\ UNCHANGED <<child, routeVan>>
    BY <1>0, <1>7, <2>1 DEF GymSend, Request
  <2>3. ~HoldsCopy(q)
    BY <2>2 DEF HoldsCopy
  <2> QED
    BY <1>1, <2>2, <2>3 DEF Sound
<1>8. ASSUME NEW q, Goto(h, q), NEW row \in Row, row.route = R.cur.row.route, HoldsCopy(R),
             child' = [child EXCEPT ![R.cur.id] = row], UNCHANGED routeVan,
             q.cur = R.cur \/ ~HoldsCopy(q), q.todo = R.todo
      PROVE  Sound
  <2>1. CopyRoute(R.cur) /\ R.cur \in Instance
    BY <1>0, <1>8 DEF FixedRoutes
  <2>2. RoutesKept
    BY <1>0, <1>8, <2>1 DEF RoutesKept, CopyRoute
  <2> QED
    BY <1>0, <1>8, <2>1, <2>2 DEF FixedRoutes, Sound, SoundCopies
<1>9. CASE SchoolSave(h)
  <2>1. PICK q : q = [R EXCEPT !.stage = "school", !.cur = None]
    OBVIOUS
  <2>2. /\ Goto(h, q) /\ q.stage = "school" /\ q.todo = R.todo /\ UNCHANGED routeVan
        /\ child' = [child EXCEPT ![R.cur.id] = StartRide(R.cur.row, R.at)]
        /\ R.stage = "schoolSave"
    BY <1>0, <1>9, <2>1 DEF SchoolSave, Request
  <2>3. HoldsCopy(R) /\ ~HoldsCopy(q)
    BY <2>2 DEF HoldsCopy
  <2>4. R.cur.row \in Row /\ R.at \in Time
    <3>1. R.cur \in Instance
      BY <1>0, <2>3
    <3>2. R.at \in Time
      BY <1>0 DEF Request
    <3> QED
      BY <1>0, <3>1, <3>2
  <2>5. StartRide(R.cur.row, R.at) \in Row /\ StartRide(R.cur.row, R.at).route = R.cur.row.route
    BY <2>4 DEF StartRide, Row
  <2> QED
    BY <1>8, <2>2, <2>3, <2>5 DEF Sound
<1>10. CASE GymSave(h)
  <2>1. PICK q : q = [R EXCEPT !.stage = "gymSend"]
    OBVIOUS
  <2>2. /\ Goto(h, q) /\ q.cur = R.cur /\ q.todo = R.todo /\ UNCHANGED routeVan
        /\ child' = [child EXCEPT ![R.cur.id] = EndRide(R.cur.row)] /\ R.stage = "gymSave"
    BY <1>0, <1>10, <2>1 DEF GymSave, Request
  <2>3. HoldsCopy(R)
    BY <2>2 DEF HoldsCopy
  <2>4. R.cur.row \in Row /\ R.at \in Time
    <3>1. R.cur \in Instance
      BY <1>0, <2>3
    <3>2. R.at \in Time
      BY <1>0 DEF Request
    <3> QED
      BY <1>0, <3>1, <3>2
  <2>5. EndRide(R.cur.row) \in Row /\ EndRide(R.cur.row).route = R.cur.row.route
    BY <2>4 DEF EndRide, Row
  <2> QED
    BY <1>8, <2>2, <2>3, <2>5 DEF Sound
<1> QED
  BY <1>2, <1>3, <1>4, <1>5, <1>6, <1>7, <1>9, <1>10 DEF Proceed, Serve, Sound

LEMMA RideKeepsRoutes ==
  ASSUME Editor = {}, TypeInv, \A h \in Handler : FixedRoutes(run[h]), [Next]_vars
  PROVE  RoutesKept /\ \A h \in Handler : FixedRoutes(run[h])'
<1>0. TypeInv' /\ child \in [Child -> Row] /\ child' \in [Child -> Row]
  BY TypeInvInductive DEF TypeInv, TypeOK
<1>1. \A i \in Instance : RoutesKept /\ CopyRoute(i) => CopyRoute(i)'
  BY DEF CopyRoute, RoutesKept, Instance
<1>2. \A h \in Handler : /\ run[h].todo \subseteq Instance
                         /\ HoldsCopy(run[h]) => run[h].cur \in Instance
  BY DEF TypeInv, TypeOK, Underway, Request
<1>3. ASSUME NEW h \in Handler, NEW q, Goto(h, q), RoutesKept,
             SoundCopies(q)
      PROVE  \A k \in Handler : FixedRoutes(run[k])'
  <2> SUFFICES ASSUME NEW k \in Handler PROVE FixedRoutes(run[k])'
    OBVIOUS
  <2>1. run'[k] = q \/ run'[k] = run[k]
    BY <1>3, GotoStep
  <2>2. /\ \A i \in run'[k].todo : i \in Instance /\ CopyRoute(i)
        /\ HoldsCopy(run'[k]) => run'[k].cur \in Instance /\ CopyRoute(run'[k].cur)
    BY <1>2, <1>3, <2>1 DEF FixedRoutes, SoundCopies
  <2>3. \A i \in run'[k].todo : CopyRoute(i)'
    BY <1>1, <1>3, <2>2
  <2>4. HoldsCopy(run'[k]) => CopyRoute(run[k].cur)'
    <3> SUFFICES ASSUME NEW i \in Instance, i = run'[k].cur, CopyRoute(i)
                 PROVE  CopyRoute(run[k].cur)'
      BY <2>2
    <3> QED
      BY <1>1, <1>3 DEF CopyRoute
  <2> QED
    BY <2>3, <2>4 DEF FixedRoutes, HoldsCopy
<1>4. ASSUME UNCHANGED <<run, child, routeVan>>
      PROVE  RoutesKept /\ \A h \in Handler : FixedRoutes(run[h])'
  BY <1>0, <1>4 DEF RoutesKept, FixedRoutes, CopyRoute, HoldsCopy
<1>5. ASSUME NEW h \in Handler, Proceed(h)
      PROVE  RoutesKept /\ \A k \in Handler : FixedRoutes(run[k])'
  <2>1. RoutesKept /\ \E q : Goto(h, q) /\ SoundCopies(q)
    BY <1>0, <1>5, ProceedKeepsRoutes
  <2> QED
    BY <1>3, <2>1
<1>6. ~HoldsCopy(Idle) /\ Idle.todo = {} /\ SoundCopies(Idle)
  BY DEF Idle, HoldsCopy, SoundCopies
<1>7. ASSUME NEW h \in Handler, Fail(h)
      PROVE  RoutesKept /\ \A k \in Handler : FixedRoutes(run[k])'
  <2>1. RoutesKept /\ Goto(h, Idle)
    BY <1>0, <1>7 DEF Fail, RoutesKept
  <2> QED
    BY <1>3, <1>6, <2>1
<1>8. ASSUME NEW h \in Handler, NEW v \in Van, NEW f \in Fence, NEW kind \in {"ENTER", "EXIT"},
             Receive(h, v, f, kind)
      PROVE  RoutesKept /\ \A k \in Handler : FixedRoutes(run[k])'
  <2>1. PICK q : q = [Idle EXCEPT !.stage = "received", !.van = v, !.fence = f]
    OBVIOUS
  <2>2. SoundCopies(q)
    BY <2>1 DEF Idle, HoldsCopy, SoundCopies
  <2>3. Goto(h, q) \/ UNCHANGED run
    BY <1>8, <2>1 DEF Receive
  <2>4. RoutesKept /\ UNCHANGED <<child, routeVan>>
    BY <1>0, <1>8 DEF Receive, RoutesKept
  <2> QED
    BY <1>3, <1>4, <2>2, <2>3, <2>4
<1>9. CASE Restart
  <2>1. RoutesKept /\ \A k \in Handler : run'[k] = Idle
    BY <1>0, <1>9 DEF Restart, RoutesKept
  <2> QED
    BY <1>6, <2>1 DEF FixedRoutes, HoldsCopy
<1>10. CASE Staff
  BY <1>4, <1>10 DEF Staff, EditRead, EditSave, SetSchedule, MoveRoute
<1>11. CASE Tick \/ UNCHANGED vars
  BY <1>4, <1>11 DEF Tick, vars
<1> QED
  BY <1>5, <1>7, <1>8, <1>9, <1>10, <1>11 DEF Next, Webhook

LEMMA StepRoute == Editor = {} /\ LiveInv /\ RouteInv /\ [LiveNext]_allVars => RouteInv'
<1> SUFFICES ASSUME Editor = {}, LiveInv, RouteInv, [LiveNext]_allVars PROVE RouteInv'
  OBVIOUS
<1>0. sock \in [Socket -> Consumer] /\ \A s \in Socket : Admitted(sock[s])
  BY DEF LiveInv
<1>1. RoutesKept /\ \A h \in Handler : FixedRoutes(run[h])'
  BY LiveStepIsRideStep, RideKeepsRoutes DEF LiveInv, RouteInv
<1>2. ASSUME \A s \in Socket :
               \/ ~Watches(sock'[s])
               \/ /\ Watches(sock[s]) /\ sock'[s].child = sock[s].child
                  /\ sock'[s].route = sock[s].route /\ sock'[s].van = sock[s].van
               \/ sock'[s].child \in Child /\ Captured(sock'[s])
      PROVE  RouteInv'
  <2>1. ASSUME NEW s \in Socket, Watches(sock'[s])
        PROVE  /\ sock'[s].child \in Child /\ sock'[s].route = child[sock'[s].child].route
               /\ sock'[s].van = routeVan[sock'[s].route]
    BY <1>0, <1>2, <2>1 DEF RouteInv, Captured, Admitted
  <2>2. \A s \in Socket : Watches(sock'[s]) =>
          /\ sock'[s].route = child'[sock'[s].child].route
          /\ sock'[s].van = routeVan'[sock'[s].route]
    BY <1>1, <2>1 DEF RoutesKept
  <2> QED
    BY <1>1, <2>2 DEF RouteInv, Captured, Watches
<1>3. ASSUME UNCHANGED sock PROVE RouteInv'
  BY <1>0, <1>2, <1>3 DEF Watches
<1>4. ASSUME NEW s \in Socket, NEW c \in Child, Connect(s, c) PROVE RouteInv'
  <2>1. CASE IsRideActive(child[c])
    <3>1. /\ sock'[s] = [stage |-> "checked", child |-> c, route |-> child[c].route,
                         van |-> VanOf(child[c].route)]
          /\ \A o \in Socket \ {s} : sock'[o] = sock[o]
      BY <1>0, <1>4, <2>1 DEF Connect
    <3>2. sock'[s].child \in Child /\ Captured(sock'[s])
      BY <3>1 DEF Captured, VanOf
    <3> QED
      BY <1>2, <3>1, <3>2
  <2>2. CASE ~IsRideActive(child[c])
    <3>1. sock'[s].stage = "gone" /\ \A o \in Socket \ {s} : sock'[o] = sock[o]
      BY <1>0, <1>4, <2>2 DEF Connect, SetStage, Consumer
    <3> QED
      BY <1>2, <3>1 DEF Watches
  <2> QED
    BY <2>1, <2>2
<1>5. ASSUME NEW s \in Socket, ConsumerStep(s) \/ HangUp(s) PROVE RouteInv'
  <2>1. sock' = sock \/ \E stage : SetStage(s, stage) /\ Watches(sock[s])
    BY <1>5 DEF ConsumerStep, HangUp, Join, Accept, Handle, Disconnect, Watches
  <2>2. CASE \E stage : SetStage(s, stage) /\ Watches(sock[s])
    <3>1. \A o \in Socket : /\ o # s => sock'[o] = sock[o]
                            /\ sock'[o].child = sock[o].child /\ sock'[o].route = sock[o].route
                            /\ sock'[o].van = sock[o].van
      BY <1>0, <2>2 DEF SetStage, Consumer
    <3> QED
      BY <1>2, <2>2, <3>1
  <2> QED
    BY <1>3, <2>1, <2>2
<1>6. CASE RestartAll
  <2>1. \A s \in Socket : sock'[s].stage \in {"new", "gone", "lost"}
    BY <1>0, <1>6 DEF RestartAll, Consumer
  <2> QED
    BY <1>2, <2>1 DEF Watches
<1>7. ASSUME NEW h \in Handler, SendRideEnded(h) PROVE RouteInv'
  BY <1>3, <1>7 DEF SendRideEnded
<1>8. ASSUME NEW v \in Van, Broadcast(v) PROVE RouteInv'
  BY <1>3, <1>8 DEF Broadcast
<1> QED
  BY <1>3, <1>4, <1>5, <1>6, <1>7, <1>8 DEF LiveNext, liveVars, allVars

LEMMA InitRoute == LiveInit => RouteInv
<1> SUFFICES ASSUME LiveInit PROVE RouteInv
  OBVIOUS
<1>1. \A h \in Handler : run[h].stage = "idle" /\ run[h].todo = {}
  BY DEF LiveInit, Init, Idle
<1>2. \A s \in Socket : sock[s].stage = "new"
  BY DEF LiveInit, Fresh
<1> QED
  BY <1>1, <1>2 DEF RouteInv, FixedRoutes, HoldsCopy, Watches

\* Where the staff edit nothing, the end of a ride reaches every socket that watches the
\* child: the group the webhook computes from its old copy is the one the consumer joined
\* with what it captured when it connected, and the message names the consumer's route.
THEOREM EndReaches == Editor = {} => (LiveSpec => EndReachesWatchers)
<1> SUFFICES ASSUME Editor = {} PROVE LiveSpec => EndReachesWatchers
  OBVIOUS
<1>1. LiveInv /\ RouteInv /\ [LiveNext]_allVars =>
        [\A h \in Handler, s \in Socket :
           SendRideEnded(h) /\ sock[s].child = run[h].cur.id
             /\ sock[s].stage \in {"joined", "open"} /\ Len(inbox[s]) < Capacity
           => \E k \in DOMAIN inbox'[s] : inbox'[s][k] = RideEnded(sock[s].route)]_allVars
  <2> SUFFICES ASSUME LiveInv, RouteInv, NEW h \in Handler, NEW s \in Socket, SendRideEnded(h),
                      sock[s].child = run[h].cur.id, sock[s].stage \in {"joined", "open"},
                      Len(inbox[s]) < Capacity
               PROVE  \E k \in DOMAIN inbox'[s] : inbox'[s][k] = RideEnded(sock[s].route)
    OBVIOUS
  <2> DEFINE r == run[h].cur.row.route
  <2>1. HoldsCopy(run[h]) /\ run[h].cur \in Instance
    BY DEF SendRideEnded, GymSend, HoldsCopy, LiveInv, TypeInv, Underway
  <2>2. r = sock[s].route /\ r \in Route /\ sock[s].van = routeVan[r] /\ sock[s].van \in Van
    BY <2>1 DEF RouteInv, FixedRoutes, CopyRoute, Captured, Watches, Instance, Row,
                LiveInv, Admitted
  <2>3. s \in member[VanOf(r)] /\ VanOf(r) \in Van
    BY <2>2 DEF LiveInv, MembershipFollowsSocket, VanOf
  <2>4. GroupSend(VanOf(r), RideEnded(r)) /\ RideEnded(r) \in Message
    BY <2>2 DEF SendRideEnded, Message
  <2> HIDE DEF r
  <2>5. inbox'[s] \in Seq(Message) /\ RideEnded(r) \in Queued(inbox'[s])
    BY <2>3, <2>4, GroupSendQueues DEF LiveInv
  <2>6. RideEnded(r) \in {inbox'[s][k] : k \in DOMAIN inbox'[s]}
    BY <2>5, QueueSteps
  <2> QED
    BY <2>2, <2>6
<1>2. Editor = {} /\ LiveInv /\ RouteInv /\ [LiveNext]_allVars => RouteInv'
  BY StepRoute
<1> QED
  BY <1>1, <1>2, InitLive, StepLive, InitRoute, PTL DEF LiveSpec, EndReachesWatchers
=============================================================================
