---------------------------- MODULE RidesProofs -----------------------------
(***************************************************************************)
(* Theorems about Rides for every set of children, threads, staff requests *)
(* and fences, and every value of the bounds.                              *)
(***************************************************************************)
EXTENDS Rides, TLAPS

(***************************************************************************)
(* Type correctness.  TypeOK is not inductive: a notice carries the van of *)
(* the request that sends it, and a save the copy it writes, so a request  *)
(* must be known to hold them by then.                                     *)
(***************************************************************************)
HoldsCopy(q) == q.stage \in {"schoolSave", "gymSave", "gymSend"}

Underway(q) ==
  /\ q.stage # "idle" => q.van \in Van /\ q.fence \in Fence
  /\ HoldsCopy(q) => q.cur \in Instance

TypeInv == TypeOK /\ \A h \in Handler : Underway(run[h])

\* Only what a thread's own step makes of its request has to be looked at.
LEMMA RequestStep ==
  ASSUME TypeInv, NEW h \in Handler, NEW q \in Request, Underway(q), Goto(h, q)
  PROVE  /\ run' \in [Handler -> Request]
         /\ \A k \in Handler : Underway(run'[k])
<1>1. run' = [run EXCEPT ![h] = q]
  BY DEF Goto
<1>2. run \in [Handler -> Request] /\ \A k \in Handler : Underway(run[k])
  BY DEF TypeInv, TypeOK
<1>3. \A k \in Handler : run'[k] = IF k = h THEN q ELSE run[k]
  BY <1>1, <1>2
<1> QED
  BY <1>1, <1>2, <1>3

LEMMA ReadIsInstance ==
  ASSUME TypeInv
  PROVE  \A c \in Child : Read(c) \in Instance
BY DEF TypeInv, TypeOK, Read, Instance

LEMMA IdleIsRequest == Idle \in Request /\ Underway(Idle)
BY ConstantsOK DEF Idle, Request, Stage, Time, Underway, HoldsCopy

\* What a received request does next keeps the types.
LEMMA ProceedTypes ==
  ASSUME TypeInv, NEW h \in Handler, Proceed(h)
  PROVE  TypeInv'
<1> DEFINE R == run[h]
<1> USE ConstantsOK DEF Time
<1>0. R \in Request /\ Underway(R) /\ R.todo \subseteq Instance
  BY DEF TypeInv, TypeOK, Request
<1>1. CASE SchoolQuery(h)
  <2> DEFINE q == [R EXCEPT !.stage = "school", !.at = now,
                            !.todo = SchoolCandidates(R.fence)]
  <2>1. SchoolCandidates(R.fence) \subseteq Instance
    BY ReadIsInstance DEF SchoolCandidates
  <2>2. q \in Request /\ Underway(q)
    BY <1>0, <1>1, <2>1 DEF Request, Stage, Underway, HoldsCopy, SchoolQuery, TypeInv, TypeOK
  <2>3. Goto(h, q)
    BY <1>1 DEF SchoolQuery
  <2> HIDE DEF q
  <2> QED
    BY <1>1, <2>2, <2>3, RequestStep DEF SchoolQuery, TypeInv, TypeOK
<1>2. CASE SchoolSkip(h)
  <2>1. PICK i \in R.todo : Goto(h, [R EXCEPT !.todo = @ \ {i}])
    BY <1>2 DEF SchoolSkip
  <2> DEFINE q == [R EXCEPT !.todo = @ \ {i}]
  <2>2. q \in Request /\ Underway(q)
    BY <1>0 DEF Request, Underway, HoldsCopy
  <2>3. Goto(h, q)
    BY <2>1
  <2> HIDE DEF q
  <2> QED
    BY <1>2, <2>2, <2>3, RequestStep DEF SchoolSkip, TypeInv, TypeOK
<1>3. CASE SchoolScheduleGone(h) \/ Respond(h)
  BY <1>3, IdleIsRequest, RequestStep DEF SchoolScheduleGone, Respond, TypeInv, TypeOK
<1>4. CASE SchoolNotify(h)
  <2>1. PICK i \in R.todo :
          /\ notices' = notices \cup {NoticeTo(i, "school", R)}
          /\ Goto(h, [R EXCEPT !.stage = "schoolSave", !.todo = @ \ {i}, !.cur = i])
    BY <1>4 DEF SchoolNotify, NotifyParent
  <2> DEFINE q == [R EXCEPT !.stage = "schoolSave", !.todo = @ \ {i}, !.cur = i]
  <2>2. q \in Request /\ Underway(q)
    BY <1>0, <1>4 DEF Request, Stage, Underway, HoldsCopy, SchoolNotify
  <2>3. Goto(h, q)
    BY <2>1
  <2>4. NoticeTo(i, "school", R) \in Notice
    BY <1>0, <1>4 DEF NoticeTo, Notice, Instance, Row, Request, Underway, HoldsCopy, SchoolNotify
  <2> HIDE DEF q
  <2> QED
    BY <1>4, <2>1, <2>2, <2>3, <2>4, RequestStep DEF SchoolNotify, NotifyParent, TypeInv, TypeOK
<1>5. CASE SchoolSave(h)
  <2> DEFINE q == [R EXCEPT !.stage = "school", !.cur = None]
  <2>1. q \in Request /\ Underway(q)
    BY <1>0, <1>5 DEF Request, Stage, Underway, HoldsCopy, SchoolSave
  <2>2. Goto(h, q)
    BY <1>5 DEF SchoolSave
  <2>3. R.cur.id \in Child /\ StartRide(R.cur.row, R.at) \in Row
    BY <1>0, <1>5 DEF Request, Underway, HoldsCopy, SchoolSave, StartRide, Instance, Row
  <2>4. child' \in [Child -> Row]
    BY <1>5, <2>3 DEF SchoolSave, TypeInv, TypeOK
  <2> HIDE DEF q
  <2> QED
    BY <1>5, <2>1, <2>2, <2>4, RequestStep DEF SchoolSave, TypeInv, TypeOK
<1>6. CASE GymQuery(h)
  <2> DEFINE q == [R EXCEPT !.stage = "gym", !.todo = GymCandidates(R.fence)]
  <2>1. GymCandidates(R.fence) \subseteq Instance
    BY ReadIsInstance DEF GymCandidates
  <2>2. q \in Request /\ Underway(q)
    BY <1>0, <1>6, <2>1 DEF Request, Stage, Underway, HoldsCopy, GymQuery
  <2>3. Goto(h, q)
    BY <1>6 DEF GymQuery
  <2> HIDE DEF q
  <2> QED
    BY <1>6, <2>2, <2>3, RequestStep DEF GymQuery, TypeInv, TypeOK
<1>7. CASE GymNotify(h)
  <2>1. PICK i \in R.todo :
          /\ notices' = notices \cup {NoticeTo(i, "gym", R)}
          /\ Goto(h, [R EXCEPT !.stage = "gymSave", !.todo = @ \ {i}, !.cur = i])
    BY <1>7 DEF GymNotify, NotifyParent
  <2> DEFINE q == [R EXCEPT !.stage = "gymSave", !.todo = @ \ {i}, !.cur = i]
  <2>2. q \in Request /\ Underway(q)
    BY <1>0, <1>7 DEF Request, Stage, Underway, HoldsCopy, GymNotify
  <2>3. Goto(h, q)
    BY <2>1
  <2>4. NoticeTo(i, "gym", R) \in Notice
    BY <1>0, <1>7 DEF NoticeTo, Notice, Instance, Row, Request, Underway, HoldsCopy, GymNotify
  <2> HIDE DEF q
  <2> QED
    BY <1>7, <2>1, <2>2, <2>3, <2>4, RequestStep DEF GymNotify, NotifyParent, TypeInv, TypeOK
<1>8. CASE GymSave(h)
  <2> DEFINE q == [R EXCEPT !.stage = "gymSend"]
  <2>1. q \in Request /\ Underway(q)
    BY <1>0, <1>8 DEF Request, Stage, Underway, HoldsCopy, GymSave
  <2>2. Goto(h, q)
    BY <1>8 DEF GymSave
  <2>3. R.cur.id \in Child /\ EndRide(R.cur.row) \in Row
    BY <1>0, <1>8 DEF Request, Underway, HoldsCopy, GymSave, EndRide, Instance, Row
  <2>4. child' \in [Child -> Row]
    BY <1>8, <2>3 DEF GymSave, TypeInv, TypeOK
  <2> HIDE DEF q
  <2> QED
    BY <1>8, <2>1, <2>2, <2>4, RequestStep DEF GymSave, TypeInv, TypeOK
<1>9. CASE GymSend(h)
  <2> DEFINE q == [R EXCEPT !.stage = "gym", !.cur = None]
  <2>1. q \in Request /\ Underway(q)
    BY <1>0, <1>9 DEF Request, Stage, Underway, HoldsCopy, GymSend
  <2>2. Goto(h, q)
    BY <1>9 DEF GymSend
  <2> HIDE DEF q
  <2> QED
    BY <1>9, <2>1, <2>2, RequestStep DEF GymSend, TypeInv, TypeOK
<1> QED
  BY <1>1, <1>2, <1>3, <1>4, <1>5, <1>6, <1>7, <1>8, <1>9 DEF Proceed, Serve

LEMMA TypeInvInductive == TypeInv /\ [Next]_vars => TypeInv'
<1> SUFFICES ASSUME TypeInv, [Next]_vars PROVE TypeInv'
  OBVIOUS
<1> USE ConstantsOK DEF Time
<1>1. CASE Tick
  BY <1>1 DEF Tick, TypeInv, TypeOK
<1>2. ASSUME NEW h \in Handler, NEW v \in Van, NEW f \in Fence,
             NEW kind \in {"ENTER", "EXIT"}, Receive(h, v, f, kind)
      PROVE  TypeInv'
  <2> DEFINE q == [Idle EXCEPT !.stage = "received", !.van = v, !.fence = f]
  <2>1. q \in Request /\ Underway(q)
    BY IdleIsRequest DEF Request, Stage, Underway, HoldsCopy
  <2>2. run' \in [Handler -> Request] /\ \A k \in Handler : Underway(run'[k])
    <3>1. CASE kind = "ENTER"
      <4>1. Goto(h, q)
        BY <1>2, <3>1 DEF Receive
      <4> HIDE DEF q
      <4> QED
        BY <4>1, <2>1, RequestStep
    <3>2. CASE kind # "ENTER"
      BY <1>2, <3>2 DEF Receive, TypeInv, TypeOK
    <3> QED
      BY <3>1, <3>2
  <2>3. arrivals' \in Seq([van : Van, fence : Fence, kind : {"ENTER", "EXIT"}])
    BY <1>2 DEF Receive, TypeInv, TypeOK
  <2> QED
    BY <1>2, <2>2, <2>3 DEF Receive, TypeInv, TypeOK
<1>3. ASSUME NEW h \in Handler, Proceed(h) PROVE TypeInv'
  BY <1>3, ProceedTypes
<1>4. ASSUME NEW h \in Handler, Fail(h) PROVE TypeInv'
  BY <1>4, IdleIsRequest, RequestStep DEF Fail, TypeInv, TypeOK
<1>5. ASSUME NEW e \in Editor, EditRead(e) PROVE TypeInv'
  BY <1>5, ReadIsInstance DEF EditRead, TypeInv, TypeOK
<1>6. ASSUME NEW e \in Editor, EditSave(e) PROVE TypeInv'
  <2>1. PICK r \in Route, b \in BOOLEAN :
          child' = [child EXCEPT ![edit[e].id] =
                      [edit[e].row EXCEPT !.route = r, !.active = b]]
    BY <1>6 DEF EditSave
  <2>2. edit[e] \in Instance
    BY <1>6 DEF EditSave, TypeInv, TypeOK
  <2>3. child' \in [Child -> Row]
    BY <2>1, <2>2 DEF Instance, Row, TypeInv, TypeOK
  <2> QED
    BY <1>6, <2>3 DEF EditSave, TypeInv, TypeOK
<1>7. ASSUME NEW c \in Child, NEW t \in PickupTime \cup {None}, SetSchedule(c, t)
      PROVE  TypeInv'
  BY <1>7 DEF SetSchedule, TypeInv, TypeOK
<1>8. ASSUME NEW r \in Route, NEW v \in Van, MoveRoute(r, v) PROVE TypeInv'
  BY <1>8 DEF MoveRoute, TypeInv, TypeOK
<1>9. CASE Restart
  BY <1>9, IdleIsRequest DEF Restart, TypeInv, TypeOK
<1>10. CASE UNCHANGED vars
  BY <1>10 DEF vars, TypeInv, TypeOK
<1> QED
  BY <1>1, <1>2, <1>3, <1>4, <1>5, <1>6, <1>7, <1>8, <1>9, <1>10 DEF Next, Webhook, Staff

LEMMA TypeInvInit == Init => TypeInv
<1> SUFFICES ASSUME Init PROVE TypeInv
  OBVIOUS
<1>1. child \in [Child -> Row]
  BY DEF Init, Row
<1>2. run \in [Handler -> Request] /\ \A h \in Handler : Underway(run[h])
  BY IdleIsRequest DEF Init
<1>3. now \in Time /\ faults \in Nat
  BY ConstantsOK DEF Init, Time
<1> QED
  BY <1>1, <1>2, <1>3 DEF Init, TypeInv, TypeOK

\* Every variable keeps to its type, the copies of rows that threads hold included.
THEOREM TypeCorrect == Spec => []TypeOK
<1>1. TypeInv => TypeOK
  BY DEF TypeInv
<1> QED
  BY <1>1, TypeInvInit, TypeInvInductive, PTL DEF Spec

-----------------------------------------------------------------------------
(***************************************************************************)
(* A start that a row carries was announced.  The rows alone are not       *)
(* inductive: threads and staff write copies back, so the same must hold   *)
(* of every copy in flight, and a request about to save a new start must   *)
(* have announced it.                                                      *)
(***************************************************************************)
CopyAnnounced(i) == i.row.start # None => Announced(i.id, i.row.start)

RequestAnnounced(q) ==
  /\ \A i \in q.todo : CopyAnnounced(i)
  /\ HoldsCopy(q) => CopyAnnounced(q.cur)
  /\ q.stage = "schoolSave" => Announced(q.cur.id, q.at)

AnnouncedInv ==
  /\ StartsWereAnnounced
  /\ \A h \in Handler : RequestAnnounced(run[h])
  /\ \A e \in Editor : edit[e] # None => CopyAnnounced(edit[e])

\* Calls of notify_parent are not taken back.
LEMMA NoticesGrow == [Next]_vars => notices \subseteq notices'
BY DEF Next, vars, Tick, Webhook, Receive, Proceed, Serve, SchoolQuery, SchoolSkip,
       SchoolScheduleGone, SchoolNotify, NotifyParent, SchoolSave, GymQuery, GymNotify, GymSave,
       GymSend, Respond, Fail, Staff, EditRead, EditSave, SetSchedule, MoveRoute,
       Restart

LEMMA AnnouncedStays ==
  ASSUME notices \subseteq notices'
  PROVE  /\ \A c, t : Announced(c, t) => Announced(c, t)'
         /\ \A i : CopyAnnounced(i) => CopyAnnounced(i)'
         /\ \A q : RequestAnnounced(q) => RequestAnnounced(q)'
<1>1. \A c, t : Announced(c, t) => Announced(c, t)'
  BY DEF Announced
<1>2. \A i : CopyAnnounced(i) => CopyAnnounced(i)'
  BY <1>1 DEF CopyAnnounced
<1>3. \A q : RequestAnnounced(q) => RequestAnnounced(q)'
  BY <1>1, <1>2 DEF RequestAnnounced, HoldsCopy
<1> QED
  BY <1>1, <1>2, <1>3

\* A step of a thread keeps the invariant if it does so for its own request and the rows.
LEMMA AnnouncedStep ==
  ASSUME TypeInv, AnnouncedInv, [Next]_vars,
         NEW h \in Handler, NEW q, Goto(h, q), UNCHANGED edit,
         RequestAnnounced(q)', StartsWereAnnounced'
  PROVE  AnnouncedInv'
<1>1. \A k \in Handler : run'[k] = IF k = h THEN q ELSE run[k]
  BY DEF Goto, TypeInv, TypeOK
<1>2. \A k \in Handler : RequestAnnounced(run[k])'
  <2> SUFFICES ASSUME NEW k \in Handler PROVE RequestAnnounced(run[k])'
    OBVIOUS
  <2>1. CASE k = h
    BY <1>1, <2>1 DEF RequestAnnounced, CopyAnnounced, Announced
  <2>2. CASE k # h
    <3>1. RequestAnnounced(run[k])
      BY DEF AnnouncedInv
    <3> DEFINE p == run[k]
    <3>2. run'[k] = p
      BY <1>1, <2>2
    <3>3. notices \subseteq notices'
      BY NoticesGrow
    <3> QED
      BY <3>1, <3>2, <3>3 DEF RequestAnnounced, CopyAnnounced, Announced
  <2> QED
    BY <2>1, <2>2
<1>3. \A e \in Editor : edit'[e] # None => CopyAnnounced(edit[e])'
  BY NoticesGrow, AnnouncedStays DEF AnnouncedInv, CopyAnnounced, Announced
<1> QED
  BY <1>2, <1>3 DEF AnnouncedInv

\* Where the rows stay as they are, so does what the property says of them.
LEMMA RowsUntouched ==
  ASSUME AnnouncedInv, [Next]_vars, UNCHANGED child
  PROVE  StartsWereAnnounced'
BY NoticesGrow DEF AnnouncedInv, StartsWereAnnounced, Announced

\* What a received request does next: told before saved, and only copies it read.
LEMMA ProceedAnnounced ==
  ASSUME TypeInv, AnnouncedInv, NEW h \in Handler, Proceed(h)
  PROVE  AnnouncedInv'
<1>1. [Next]_vars
  BY DEF Next, Webhook
<1>2. PICK R : R = run[h]
  OBVIOUS
<1>3. R \in Request /\ R.todo \subseteq Instance /\ Underway(R)
  BY <1>2 DEF TypeInv, TypeOK, Request
<1>4. RequestAnnounced(R)
  BY <1>2 DEF AnnouncedInv
<1>5. RequestAnnounced(R)'
  BY <1>1, <1>4, NoticesGrow, AnnouncedStays
<1>6. \A c \in Child : CopyAnnounced(Read(c))
  BY DEF AnnouncedInv, StartsWereAnnounced, CopyAnnounced, Read
<1>7. CASE SchoolQuery(h)
  <2>1. PICK q : q = [R EXCEPT !.stage = "school", !.at = now,
                               !.todo = SchoolCandidates(R.fence)]
    OBVIOUS
  <2>2. \A i \in q.todo : CopyAnnounced(i)
    BY <1>3, <1>6, <2>1 DEF SchoolCandidates, Request
  <2>3. RequestAnnounced(q)'
    BY <1>3, <1>5, <1>7, <2>1, <2>2, <1>1, NoticesGrow, AnnouncedStays
       DEF RequestAnnounced, HoldsCopy, Request
  <2> QED
    BY <1>1, <1>2, <1>7, <2>1, <2>3, AnnouncedStep, RowsUntouched DEF SchoolQuery
<1>8. CASE SchoolSkip(h)
  <2>1. PICK i \in R.todo : Goto(h, [R EXCEPT !.todo = @ \ {i}])
    BY <1>2, <1>8 DEF SchoolSkip
  <2>2. PICK q : q = [R EXCEPT !.todo = @ \ {i}]
    OBVIOUS
  <2>3. RequestAnnounced(q)'
    BY <1>3, <1>5, <2>2 DEF RequestAnnounced, HoldsCopy, Request
  <2> QED
    BY <1>1, <1>8, <2>1, <2>2, <2>3, AnnouncedStep, RowsUntouched DEF SchoolSkip
<1>9. CASE SchoolScheduleGone(h) \/ Respond(h)
  <2>1. RequestAnnounced(Idle)'
    BY DEF RequestAnnounced, HoldsCopy, Idle
  <2> QED
    BY <1>1, <1>9, <2>1, AnnouncedStep, RowsUntouched DEF SchoolScheduleGone, Respond
<1>10. CASE SchoolNotify(h)
  <2>1. PICK i \in R.todo :
          /\ notices' = notices \cup {NoticeTo(i, "school", R)}
          /\ Goto(h, [R EXCEPT !.stage = "schoolSave", !.todo = @ \ {i}, !.cur = i])
    BY <1>2, <1>10 DEF SchoolNotify, NotifyParent
  <2>2. PICK q : q = [R EXCEPT !.stage = "schoolSave", !.todo = @ \ {i}, !.cur = i]
    OBVIOUS
  <2>3. Announced(i.id, R.at)'
    <3> DEFINE n == NoticeTo(i, "school", R)
    <3>1. n.child = i.id /\ n.about = "school" /\ n.at = R.at
      BY DEF NoticeTo
    <3>2. n \in notices'
      BY <2>1
    <3> HIDE DEF n
    <3> QED
      BY <3>1, <3>2 DEF Announced
  <2>4. RequestAnnounced(q)'
    BY <1>3, <1>5, <2>2, <2>3 DEF RequestAnnounced, HoldsCopy, Request
  <2> QED
    BY <1>1, <1>10, <2>1, <2>2, <2>4, AnnouncedStep, RowsUntouched DEF SchoolNotify, NotifyParent
<1>11. CASE SchoolSave(h)
  <2>1. PICK q : q = [R EXCEPT !.stage = "school", !.cur = None]
    OBVIOUS
  <2>2. RequestAnnounced(q)'
    BY <1>3, <1>5, <2>1 DEF RequestAnnounced, HoldsCopy, Request
  <2>3. Announced(R.cur.id, R.at) /\ R.cur \in Instance
    BY <1>2, <1>3, <1>4, <1>11 DEF SchoolSave, RequestAnnounced, Underway, HoldsCopy
  <2>4. child' = [child EXCEPT ![R.cur.id] = StartRide(R.cur.row, R.at)]
    BY <1>2, <1>11 DEF SchoolSave
  <2>5. \A c \in Child : child'[c].start = IF c = R.cur.id THEN R.at ELSE child[c].start
    BY <2>3, <2>4 DEF StartRide, Instance, Row, TypeInv, TypeOK
  <2>6. StartsWereAnnounced'
    BY <1>11, <2>3, <2>5 DEF SchoolSave, StartsWereAnnounced, AnnouncedInv, Announced
  <2> QED
    BY <1>1, <1>2, <1>11, <2>1, <2>2, <2>6, AnnouncedStep DEF SchoolSave
<1>12. CASE GymQuery(h)
  <2>1. PICK q : q = [R EXCEPT !.stage = "gym", !.todo = GymCandidates(R.fence)]
    OBVIOUS
  <2>2. \A i \in q.todo : CopyAnnounced(i)
    BY <1>3, <1>6, <2>1 DEF GymCandidates, Request
  <2>3. RequestAnnounced(q)'
    BY <1>3, <1>5, <2>1, <2>2, <1>1, NoticesGrow, AnnouncedStays
       DEF RequestAnnounced, HoldsCopy, Request
  <2> QED
    BY <1>1, <1>2, <1>12, <2>1, <2>3, AnnouncedStep, RowsUntouched DEF GymQuery
<1>13. CASE GymNotify(h)
  <2>1. PICK i \in R.todo :
          Goto(h, [R EXCEPT !.stage = "gymSave", !.todo = @ \ {i}, !.cur = i])
    BY <1>2, <1>13 DEF GymNotify, NotifyParent
  <2>2. PICK q : q = [R EXCEPT !.stage = "gymSave", !.todo = @ \ {i}, !.cur = i]
    OBVIOUS
  <2>3. RequestAnnounced(q)'
    BY <1>3, <1>5, <2>2 DEF RequestAnnounced, HoldsCopy, Request
  <2> QED
    BY <1>1, <1>13, <2>1, <2>2, <2>3, AnnouncedStep, RowsUntouched DEF GymNotify, NotifyParent
<1>14. CASE GymSave(h)
  <2>1. PICK q : q = [R EXCEPT !.stage = "gymSend"]
    OBVIOUS
  <2>2. RequestAnnounced(q)'
    BY <1>2, <1>3, <1>5, <1>14, <2>1 DEF GymSave, RequestAnnounced, HoldsCopy, Request
  <2>3. CopyAnnounced(R.cur)
    BY <1>2, <1>4, <1>14 DEF GymSave, RequestAnnounced, HoldsCopy
  <2>4. R.cur \in Instance
    BY <1>2, <1>3, <1>14 DEF GymSave, Underway, HoldsCopy
  <2>5. child' = [child EXCEPT ![R.cur.id] = EndRide(R.cur.row)]
    BY <1>2, <1>14 DEF GymSave
  <2>6. \A c \in Child : child'[c].start = IF c = R.cur.id THEN R.cur.row.start
                                                          ELSE child[c].start
    BY <2>4, <2>5 DEF EndRide, Instance, Row, TypeInv, TypeOK
  <2>7. StartsWereAnnounced'
    BY <1>14, <2>3, <2>6 DEF GymSave, StartsWereAnnounced, AnnouncedInv, Announced,
                             CopyAnnounced
  <2> QED
    BY <1>1, <1>2, <1>14, <2>1, <2>2, <2>7, AnnouncedStep DEF GymSave
<1>15. CASE GymSend(h)
  <2>1. PICK q : q = [R EXCEPT !.stage = "gym", !.cur = None]
    OBVIOUS
  <2>2. RequestAnnounced(q)'
    BY <1>3, <1>5, <2>1 DEF RequestAnnounced, HoldsCopy, Request
  <2> QED
    BY <1>1, <1>2, <1>15, <2>1, <2>2, AnnouncedStep, RowsUntouched DEF GymSend
<1> QED
  BY <1>7, <1>8, <1>9, <1>10, <1>11, <1>12, <1>13, <1>14, <1>15 DEF Proceed, Serve

LEMMA AnnouncedInductive == TypeInv /\ AnnouncedInv /\ [Next]_vars => AnnouncedInv'
<1> SUFFICES ASSUME TypeInv, AnnouncedInv, [Next]_vars PROVE AnnouncedInv'
  OBVIOUS
\* Steps that leave requests, copies and rows alone.
<1>1. ASSUME UNCHANGED <<child, run, edit>> PROVE AnnouncedInv'
  <2>1. StartsWereAnnounced'
    BY <1>1, RowsUntouched
  <2>2. \A h \in Handler : RequestAnnounced(run[h])'
    BY <1>1, NoticesGrow
       DEF AnnouncedInv, RequestAnnounced, HoldsCopy, CopyAnnounced, Announced
  <2>3. \A e \in Editor : edit'[e] # None => CopyAnnounced(edit[e])'
    BY <1>1, NoticesGrow DEF AnnouncedInv, CopyAnnounced, Announced
  <2> QED
    BY <2>1, <2>2, <2>3 DEF AnnouncedInv
<1>2. ASSUME NEW h \in Handler, NEW v \in Van, NEW f \in Fence,
             NEW kind \in {"ENTER", "EXIT"}, Receive(h, v, f, kind)
      PROVE  AnnouncedInv'
  <2>1. CASE kind = "ENTER"
    <3>1. PICK q : q = [Idle EXCEPT !.stage = "received", !.van = v, !.fence = f]
      OBVIOUS
    <3>2. q.todo = {} /\ q.stage = "received"
      BY <3>1, IdleIsRequest DEF Idle
    <3>3. RequestAnnounced(q)'
      BY <3>2 DEF RequestAnnounced, HoldsCopy
    <3> QED
      BY <1>2, <2>1, <3>1, <3>3, AnnouncedStep, RowsUntouched DEF Receive
  <2>2. CASE kind # "ENTER"
    BY <1>1, <1>2, <2>2 DEF Receive
  <2> QED
    BY <2>1, <2>2
<1>3. ASSUME NEW h \in Handler, Proceed(h) PROVE AnnouncedInv'
  BY <1>3, ProceedAnnounced
<1>4. RequestAnnounced(Idle)'
  BY DEF RequestAnnounced, HoldsCopy, Idle
<1>5. ASSUME NEW h \in Handler, Fail(h) PROVE AnnouncedInv'
  BY <1>4, <1>5, AnnouncedStep, RowsUntouched DEF Fail
<1>6. ASSUME NEW e \in Editor, EditRead(e) PROVE AnnouncedInv'
  <2>1. PICK c \in Child : edit' = [edit EXCEPT ![e] = Read(c)]
    BY <1>6 DEF EditRead
  <2>2. CopyAnnounced(Read(c))
    BY DEF AnnouncedInv, StartsWereAnnounced, CopyAnnounced, Read
  <2>3. \A d \in Editor : edit'[d] = IF d = e THEN Read(c) ELSE edit[d]
    BY <2>1 DEF TypeInv, TypeOK
  <2> QED
    BY <1>6, <2>2, <2>3
       DEF EditRead, AnnouncedInv, StartsWereAnnounced, RequestAnnounced, HoldsCopy,
           CopyAnnounced, Announced, Read
<1>7. ASSUME NEW e \in Editor, EditSave(e) PROVE AnnouncedInv'
  <2>1. PICK r \in Route, b \in BOOLEAN :
          child' = [child EXCEPT ![edit[e].id] =
                      [edit[e].row EXCEPT !.route = r, !.active = b]]
    BY <1>7 DEF EditSave
  <2>2. edit[e] \in Instance /\ CopyAnnounced(edit[e])
    BY <1>7 DEF EditSave, TypeInv, TypeOK, AnnouncedInv
  <2>3. \A c \in Child : child'[c].start = IF c = edit[e].id THEN edit[e].row.start
                                                            ELSE child[c].start
    BY <2>1, <2>2 DEF Instance, Row, TypeInv, TypeOK
  <2>4. StartsWereAnnounced'
    BY <1>7, <2>2, <2>3
       DEF EditSave, StartsWereAnnounced, AnnouncedInv, Announced, CopyAnnounced
  <2>5. \A h \in Handler : RequestAnnounced(run[h])'
    BY <1>7 DEF EditSave, AnnouncedInv, RequestAnnounced, HoldsCopy, CopyAnnounced,
                Announced
  <2>6. \A d \in Editor : edit'[d] # None => edit'[d] = edit[d]
    BY <1>7 DEF EditSave, TypeInv, TypeOK
  <2>7. \A d \in Editor : edit'[d] # None => CopyAnnounced(edit[d])'
    BY <1>7, <2>6 DEF EditSave, AnnouncedInv, CopyAnnounced, Announced
  <2> QED
    BY <2>4, <2>5, <2>7 DEF AnnouncedInv
<1>8. CASE Restart
  <2>1. StartsWereAnnounced'
    BY <1>8, RowsUntouched DEF Restart
  <2> QED
    BY <1>4, <1>8, <2>1 DEF Restart, AnnouncedInv
<1>9. CASE Tick \/ UNCHANGED vars
  BY <1>1, <1>9 DEF Tick, vars
<1>10. ASSUME NEW c \in Child, NEW t \in PickupTime \cup {None}, SetSchedule(c, t)
       PROVE  AnnouncedInv'
  BY <1>1, <1>10 DEF SetSchedule
<1>11. ASSUME NEW r \in Route, NEW v \in Van, MoveRoute(r, v) PROVE AnnouncedInv'
  BY <1>1, <1>11 DEF MoveRoute
<1> QED
  BY <1>2, <1>3, <1>5, <1>6, <1>7, <1>8, <1>9, <1>10, <1>11 DEF Next, Webhook, Staff

LEMMA AnnouncedInit == Init => AnnouncedInv
<1> SUFFICES ASSUME Init PROVE AnnouncedInv
  OBVIOUS
<1>1. \A c \in Child : child[c].start = None
  BY DEF Init
<1>2. RequestAnnounced(Idle)
  BY DEF RequestAnnounced, HoldsCopy, Idle
<1> QED
  BY <1>1, <1>2 DEF Init, AnnouncedInv, StartsWereAnnounced

\* In every reachable state, with any number of concurrent, failing and restarted
\* requests of the webhook, the operators and the admin: a start in a row is the time
\* of a pickup the parent was told of.
THEOREM StartsAnnounced == Spec => []StartsWereAnnounced
<1>1. AnnouncedInv => StartsWereAnnounced
  BY DEF AnnouncedInv
<1> QED
  BY <1>1, TypeInvInit, AnnouncedInit, TypeInvInductive, AnnouncedInductive, PTL DEF Spec

-----------------------------------------------------------------------------
(***************************************************************************)
(* Rides implements RideGate: a notice about the school is Tell, a save is *)
(* Open or Shut of one gate, and every other step stutters.                *)
(***************************************************************************)
LEMMA ToldIsAnnounced == \A c, t : <<c, t>> \in Told <=> Announced(c, t)
BY DEF Told, Announced

\* A save sets one gate by the row it writes.
LEMMA SaveSetsGate ==
  ASSUME TypeInv, NEW c \in Child, NEW row,
         child' = [child EXCEPT ![c] = row], UNCHANGED notices
  PROVE  /\ GateOf' = [GateOf EXCEPT ![c] = RowGate(row)]
         /\ UNCHANGED Told
<1>1. \A d \in Child : child'[d] = IF d = c THEN row ELSE child[d]
  BY DEF TypeInv, TypeOK
<1>2. GateOf' = [GateOf EXCEPT ![c] = RowGate(row)]
  <2> DEFINE G == [d \in Child |-> IF d = c THEN RowGate(row) ELSE RowGate(child[d])]
  <2>1. GateOf' = [d \in Child |-> RowGate(child'[d])]
    BY DEF GateOf, RowGate
  <2>2. \A d \in Child : RowGate(child'[d]) = G[d]
    BY <1>1
  <2>3. GateOf' = G
    BY <2>1, <2>2
  <2>4. G = [GateOf EXCEPT ![c] = RowGate(row)]
    BY DEF GateOf
  <2> QED
    BY <2>3, <2>4
<1> QED
  BY <1>2 DEF Told

\* A row that is written back opens its gate only for a start that was announced.
LEMMA SaveIsGateStep ==
  ASSUME TypeInv, NEW i \in Instance, CopyAnnounced(i),
         child' = [child EXCEPT ![i.id] = i.row], UNCHANGED notices
  PROVE  Gate!Next
<1>1. i.id \in Child /\ i.row \in Row
  BY DEF Instance
<1>2. GateOf' = [GateOf EXCEPT ![i.id] = RowGate(i.row)] /\ UNCHANGED Told
  BY <1>1, SaveSetsGate
<1>3. CASE RowGate(i.row) = None
  BY <1>1, <1>2, <1>3 DEF Gate!Next, Gate!Shut
<1>4. CASE RowGate(i.row) # None
  <2>1. RowGate(i.row) = i.row.start /\ i.row.start \in Time
    BY <1>1, <1>4 DEF RowGate, Row
  <2>2. <<i.id, i.row.start>> \in Told
    BY <1>4, <2>1, ToldIsAnnounced DEF CopyAnnounced
  <2>3. Gate!Open(i.id, i.row.start)
    BY <1>2, <2>1, <2>2 DEF Gate!Open
  <2> QED
    BY <1>1, <2>1, <2>3 DEF Gate!Next
<1> QED
  BY <1>3, <1>4

LEMMA GateStutters ==
  ASSUME UNCHANGED <<child, notices>>
  PROVE  UNCHANGED Gate!vars
BY DEF Gate!vars, GateOf, RowGate, Told

LEMMA StepImplementsGate ==
  TypeInv /\ AnnouncedInv /\ [Next]_vars => [Gate!Next]_(Gate!vars)
<1> SUFFICES ASSUME TypeInv, AnnouncedInv, [Next]_vars PROVE [Gate!Next]_(Gate!vars)
  OBVIOUS
<1>1. ASSUME NEW h \in Handler, SchoolNotify(h) PROVE Gate!Next
  <2>1. PICK i \in run[h].todo : notices' = notices \cup {NoticeTo(i, "school", run[h])}
    BY <1>1 DEF SchoolNotify, NotifyParent
  <2>2. i.id \in Child /\ run[h].at \in Time
    BY DEF TypeInv, TypeOK, Request, Instance
  <2>3. Told' = Told \cup {<<i.id, run[h].at>>}
    <3> DEFINE n == NoticeTo(i, "school", run[h])
    <3>1. n.child = i.id /\ n.about = "school" /\ n.at = run[h].at
      BY DEF NoticeTo
    <3>2. notices' = notices \cup {n}
      BY <2>1
    <3> HIDE DEF n
    <3> QED
      BY <3>1, <3>2 DEF Told
  <2>4. UNCHANGED GateOf
    BY <1>1 DEF SchoolNotify, NotifyParent, GateOf, RowGate
  <2>5. Gate!Tell(i.id, run[h].at)
    BY <2>3, <2>4 DEF Gate!Tell
  <2> QED
    BY <2>2, <2>5 DEF Gate!Next
<1>2. ASSUME NEW h \in Handler, GymNotify(h) PROVE UNCHANGED Gate!vars
  <2>1. PICK i \in run[h].todo : notices' = notices \cup {NoticeTo(i, "gym", run[h])}
    BY <1>2 DEF GymNotify, NotifyParent
  <2>2. UNCHANGED Told
    BY <2>1 DEF Told, NoticeTo
  <2>3. UNCHANGED GateOf
    BY <1>2 DEF GymNotify, NotifyParent, GateOf, RowGate
  <2> QED
    BY <2>2, <2>3 DEF Gate!vars
<1>3. ASSUME NEW h \in Handler, SchoolSave(h) PROVE Gate!Next
  <2>1. run[h].cur \in Instance /\ run[h].at \in Time
    BY <1>3 DEF SchoolSave, TypeInv, TypeOK, Request, Underway, HoldsCopy
  <2>2. PICK i : i = [id |-> run[h].cur.id, row |-> StartRide(run[h].cur.row, run[h].at)]
    OBVIOUS
  <2>3. i \in Instance /\ i.row.start = run[h].at /\ i.id = run[h].cur.id
    BY <2>1, <2>2 DEF StartRide, Instance, Row
  <2>4. CopyAnnounced(i)
    BY <1>3, <2>3 DEF SchoolSave, AnnouncedInv, RequestAnnounced, CopyAnnounced
  <2>5. child' = [child EXCEPT ![i.id] = i.row] /\ UNCHANGED notices
    BY <1>3, <2>2 DEF SchoolSave
  <2> QED
    BY <2>3, <2>4, <2>5, SaveIsGateStep
<1>4. ASSUME NEW h \in Handler, GymSave(h) PROVE Gate!Next
  <2>1. run[h].cur \in Instance /\ CopyAnnounced(run[h].cur)
    BY <1>4 DEF GymSave, TypeInv, TypeOK, Underway, HoldsCopy, AnnouncedInv,
                RequestAnnounced
  <2>2. PICK i : i = [id |-> run[h].cur.id, row |-> EndRide(run[h].cur.row)]
    OBVIOUS
  <2>3. i \in Instance /\ i.row.start = run[h].cur.row.start /\ i.id = run[h].cur.id
    BY <2>1, <2>2 DEF EndRide, Instance, Row
  <2>4. CopyAnnounced(i)
    BY <2>1, <2>3 DEF CopyAnnounced
  <2>5. child' = [child EXCEPT ![i.id] = i.row] /\ UNCHANGED notices
    BY <1>4, <2>2 DEF GymSave
  <2> QED
    BY <2>3, <2>4, <2>5, SaveIsGateStep
<1>5. ASSUME NEW e \in Editor, EditSave(e) PROVE Gate!Next
  <2>1. edit[e] \in Instance /\ CopyAnnounced(edit[e])
    BY <1>5 DEF EditSave, TypeInv, TypeOK, AnnouncedInv
  <2>2. PICK r \in Route, b \in BOOLEAN :
          child' = [child EXCEPT ![edit[e].id] =
                      [edit[e].row EXCEPT !.route = r, !.active = b]]
    BY <1>5 DEF EditSave
  <2>3. PICK i : i = [id |-> edit[e].id,
                      row |-> [edit[e].row EXCEPT !.route = r, !.active = b]]
    OBVIOUS
  <2>4. i \in Instance /\ i.row.start = edit[e].row.start /\ i.id = edit[e].id
    BY <2>1, <2>3 DEF Instance, Row
  <2>5. CopyAnnounced(i)
    BY <2>1, <2>4 DEF CopyAnnounced
  <2>6. child' = [child EXCEPT ![i.id] = i.row] /\ UNCHANGED notices
    BY <1>5, <2>2, <2>3 DEF EditSave
  <2> QED
    BY <2>4, <2>5, <2>6, SaveIsGateStep
<1>6. ASSUME NEW h \in Handler, Proceed(h) PROVE [Gate!Next]_(Gate!vars)
  BY <1>1, <1>2, <1>3, <1>4, <1>6, GateStutters
     DEF Proceed, Serve, SchoolQuery, SchoolSkip, SchoolScheduleGone, GymQuery, GymSend, Respond
<1>7. ASSUME NEW h \in Handler, Webhook(h) PROVE [Gate!Next]_(Gate!vars)
  BY <1>6, <1>7, GateStutters DEF Webhook, Receive, Fail
<1>8. CASE Staff
  BY <1>5, <1>8, GateStutters DEF Staff, EditRead, SetSchedule, MoveRoute
<1>9. CASE Tick \/ Restart \/ UNCHANGED vars
  BY <1>9, GateStutters DEF Tick, Restart, vars
<1> QED
  BY <1>7, <1>8, <1>9 DEF Next

\* The webhook, the staff's edits, failures and restarts, in any interleaving, show a
\* parent only gates that RideGate allows: none opens for a pickup not announced.
THEOREM RidesImplementRideGate == Spec => ImplementsRideGate
<1>1. Init => Gate!Init
  <2> SUFFICES ASSUME Init PROVE Gate!Init
    OBVIOUS
  <2>1. \A c \in Child : child[c].active = FALSE
    BY DEF Init
  <2>2. GateOf = [c \in Child |-> None]
    BY <2>1 DEF GateOf, RowGate
  <2>3. Told = {}
    BY DEF Init, Told
  <2> QED
    BY <2>2, <2>3 DEF Gate!Init
<1> QED
  BY <1>1, TypeInvInit, AnnouncedInit, TypeInvInductive, AnnouncedInductive,
     StepImplementsGate, PTL DEF Spec, ImplementsRideGate, Gate!Spec

-----------------------------------------------------------------------------
(***************************************************************************)
(* A notice about the school follows an arrival at the school of the       *)
(* child's route.  A request is at the fence that was recorded for it, and *)
(* the copies it works on in the school loop are of routes from there.     *)
(***************************************************************************)
Entered(v, f) ==
  \E k \in DOMAIN arrivals : arrivals[k] = [van |-> v, fence |-> f, kind |-> "ENTER"]

RequestArrived(q) ==
  /\ q.stage # "idle" => Entered(q.van, q.fence)
  /\ q.stage \in {"school", "schoolSave"} =>
       \A i \in q.todo : Origin[i.row.route] = q.fence

ArrivalInv ==
  /\ SchoolNoticesHaveAnArrival
  /\ \A h \in Handler : RequestArrived(run[h])

\* The table of arrivals is only appended to.
LEMMA EnteredStays ==
  ASSUME TypeInv, [Next]_vars
  PROVE  \A v, f : Entered(v, f) => Entered(v, f)'
<1>1. CASE UNCHANGED arrivals
  BY <1>1 DEF Entered
<1>2. CASE \E x : arrivals' = Append(arrivals, x)
  <2>1. PICK x : arrivals' = Append(arrivals, x)
    BY <1>2
  <2>2. \A k \in DOMAIN arrivals : k \in DOMAIN arrivals' /\ arrivals'[k] = arrivals[k]
    BY <2>1 DEF TypeInv, TypeOK
  <2> QED
    BY <2>2 DEF Entered
<1> QED
  BY <1>1, <1>2
     DEF Next, vars, Tick, Webhook, Receive, Proceed, Serve, SchoolQuery, SchoolSkip,
         SchoolScheduleGone, SchoolNotify, NotifyParent, SchoolSave, GymQuery, GymNotify, GymSave,
         GymSend, Respond, Fail, Staff, EditRead, EditSave, SetSchedule, MoveRoute,
         Restart

LEMMA ArrivalStep ==
  ASSUME TypeInv, ArrivalInv, [Next]_vars, NEW h \in Handler, NEW q, Goto(h, q),
         RequestArrived(q)', SchoolNoticesHaveAnArrival'
  PROVE  ArrivalInv'
<1>1. \A k \in Handler : run'[k] = IF k = h THEN q ELSE run[k]
  BY DEF Goto, TypeInv, TypeOK
<1>2. \A v, f : Entered(v, f) => Entered(v, f)'
  BY EnteredStays
<1>3. ASSUME NEW k \in Handler PROVE RequestArrived(run[k])'
  BY <1>1, <1>2 DEF ArrivalInv, RequestArrived
<1> QED
  BY <1>3 DEF ArrivalInv

LEMMA NoNewSchoolNotice ==
  ASSUME TypeInv, ArrivalInv, [Next]_vars,
         \A n \in notices' : n.about = "school" => n \in notices
  PROVE  SchoolNoticesHaveAnArrival'
<1>1. \A v, f : Entered(v, f) => Entered(v, f)'
  BY EnteredStays
<1> QED
  BY <1>1 DEF ArrivalInv, SchoolNoticesHaveAnArrival, Entered

LEMMA ArrivalInductive == TypeInv /\ ArrivalInv /\ [Next]_vars => ArrivalInv'
<1> SUFFICES ASSUME TypeInv, ArrivalInv, [Next]_vars PROVE ArrivalInv'
  OBVIOUS
<1>1. \A v, f : Entered(v, f) => Entered(v, f)'
  BY EnteredStays
<1>2. ASSUME UNCHANGED <<run, notices>> PROVE ArrivalInv'
  <2>1. SchoolNoticesHaveAnArrival'
    BY <1>2, NoNewSchoolNotice
  <2>2. \A h \in Handler : RequestArrived(run[h])'
    BY <1>1, <1>2 DEF ArrivalInv, RequestArrived
  <2> QED
    BY <2>1, <2>2 DEF ArrivalInv
<1>3. RequestArrived(Idle)'
  BY DEF RequestArrived, Idle
<1>4. ASSUME NEW h \in Handler, NEW v \in Van, NEW f \in Fence,
             NEW kind \in {"ENTER", "EXIT"}, Receive(h, v, f, kind)
      PROVE  ArrivalInv'
  <2>1. SchoolNoticesHaveAnArrival'
    BY <1>4, NoNewSchoolNotice DEF Receive
  <2>2. CASE kind = "ENTER"
    <3>1. PICK q : q = [Idle EXCEPT !.stage = "received", !.van = v, !.fence = f]
      OBVIOUS
    <3>2. q.stage = "received" /\ q.van = v /\ q.fence = f
      BY <3>1, IdleIsRequest DEF Request
    <3>3. arrivals' = Append(arrivals, [van |-> v, fence |-> f, kind |-> "ENTER"])
      BY <1>4, <2>2 DEF Receive
    <3>4. Entered(v, f)'
      <4>1. Len(arrivals) + 1 \in DOMAIN arrivals'
        BY <3>3 DEF TypeInv, TypeOK
      <4>2. arrivals'[Len(arrivals) + 1] = [van |-> v, fence |-> f, kind |-> "ENTER"]
        BY <3>3 DEF TypeInv, TypeOK
      <4> QED
        BY <4>1, <4>2 DEF Entered
    <3>5. RequestArrived(q)'
      BY <3>2, <3>4 DEF RequestArrived
    <3> QED
      BY <1>4, <2>1, <2>2, <3>1, <3>5, ArrivalStep DEF Receive
  <2>3. CASE kind # "ENTER"
    <3>1. UNCHANGED <<run, notices>>
      BY <1>4, <2>3 DEF Receive
    <3> QED
      BY <1>2, <3>1
  <2> QED
    BY <2>2, <2>3
<1>5. ASSUME NEW h \in Handler, Proceed(h) PROVE ArrivalInv'
  <2>1. PICK R : R = run[h]
    OBVIOUS
  <2>2. R \in Request /\ Underway(R) /\ RequestArrived(R)
    BY <2>1 DEF TypeInv, TypeOK, ArrivalInv
  <2>3. RequestArrived(R)'
    BY <1>1, <2>2 DEF RequestArrived
  <2>4. CASE SchoolQuery(h)
    <3>1. PICK q : q = [R EXCEPT !.stage = "school", !.at = now,
                                 !.todo = SchoolCandidates(R.fence)]
      OBVIOUS
    <3>2. \A i \in SchoolCandidates(R.fence) : Origin[i.row.route] = R.fence
      BY DEF SchoolCandidates, Read
    <3>3. Entered(R.van, R.fence)'
      BY <2>1, <2>4, <1>1, <2>2 DEF SchoolQuery, RequestArrived
    <3>4. RequestArrived(q)'
      BY <2>2, <3>1, <3>2, <3>3 DEF RequestArrived, Request
    <3> QED
      BY <2>1, <2>4, <3>1, <3>4, ArrivalStep, NoNewSchoolNotice DEF SchoolQuery
  <2>5. CASE SchoolSkip(h)
    <3>1. PICK i \in R.todo : Goto(h, [R EXCEPT !.todo = @ \ {i}])
      BY <2>1, <2>5 DEF SchoolSkip
    <3>2. PICK q : q = [R EXCEPT !.todo = @ \ {i}]
      OBVIOUS
    <3>3. RequestArrived(q)'
      BY <2>2, <2>3, <3>2 DEF RequestArrived, Request
    <3> QED
      BY <2>5, <3>1, <3>2, <3>3, ArrivalStep, NoNewSchoolNotice DEF SchoolSkip
  <2>6. CASE SchoolScheduleGone(h) \/ Respond(h)
    BY <1>3, <2>6, ArrivalStep, NoNewSchoolNotice DEF SchoolScheduleGone, Respond
  <2>7. CASE SchoolNotify(h)
    <3>1. PICK i \in R.todo :
            /\ notices' = notices \cup {NoticeTo(i, "school", R)}
            /\ Goto(h, [R EXCEPT !.stage = "schoolSave", !.todo = @ \ {i}, !.cur = i])
      BY <2>1, <2>7 DEF SchoolNotify, NotifyParent
    <3>2. PICK q : q = [R EXCEPT !.stage = "schoolSave", !.todo = @ \ {i}, !.cur = i]
      OBVIOUS
    <3>3. R.stage = "school"
      BY <2>1, <2>7 DEF SchoolNotify, NotifyParent
    <3>4. RequestArrived(q)'
      BY <2>2, <2>3, <3>2, <3>3 DEF RequestArrived, Request
    <3>5. SchoolNoticesHaveAnArrival'
      <4> DEFINE n == NoticeTo(i, "school", R)
      <4>1. n.van = R.van /\ n.route = i.row.route
        BY DEF NoticeTo
      <4>2. Origin[n.route] = R.fence /\ Entered(R.van, R.fence)
        BY <2>2, <3>1, <3>3, <4>1 DEF RequestArrived
      <4>3. notices' = notices \cup {n} /\ UNCHANGED arrivals
        BY <3>1, <2>7 DEF SchoolNotify, NotifyParent
      <4> HIDE DEF n
      <4> QED
        BY <4>1, <4>2, <4>3 DEF SchoolNoticesHaveAnArrival, ArrivalInv, Entered
    <3> QED
      BY <3>1, <3>2, <3>4, <3>5, ArrivalStep
  <2>8. CASE SchoolSave(h)
    <3>1. PICK q : q = [R EXCEPT !.stage = "school", !.cur = None]
      OBVIOUS
    <3>2. R.stage = "schoolSave"
      BY <2>1, <2>8 DEF SchoolSave
    <3>3. RequestArrived(q)'
      BY <2>2, <2>3, <3>1, <3>2 DEF RequestArrived, Request
    <3> QED
      BY <2>1, <2>8, <3>1, <3>3, ArrivalStep, NoNewSchoolNotice DEF SchoolSave
  <2>9. ASSUME NEW q, q.stage \notin {"school", "schoolSave"}, R.stage # "idle",
               q.van = R.van, q.fence = R.fence
        PROVE  RequestArrived(q)'
    BY <2>3, <2>9 DEF RequestArrived
  <2>10. CASE GymQuery(h)
    <3>1. PICK q : q = [R EXCEPT !.stage = "gym", !.todo = GymCandidates(R.fence)]
      OBVIOUS
    <3>2. RequestArrived(q)'
      BY <2>1, <2>2, <2>9, <2>10, <3>1 DEF GymQuery, Request
    <3> QED
      BY <2>1, <2>10, <3>1, <3>2, ArrivalStep, NoNewSchoolNotice DEF GymQuery
  <2>11. CASE GymNotify(h)
    <3>1. PICK i \in R.todo :
            /\ notices' = notices \cup {NoticeTo(i, "gym", R)}
            /\ Goto(h, [R EXCEPT !.stage = "gymSave", !.todo = @ \ {i}, !.cur = i])
      BY <2>1, <2>11 DEF GymNotify, NotifyParent
    <3>2. PICK q : q = [R EXCEPT !.stage = "gymSave", !.todo = @ \ {i}, !.cur = i]
      OBVIOUS
    <3>3. RequestArrived(q)'
      BY <2>1, <2>2, <2>9, <2>11, <3>2 DEF GymNotify, NotifyParent, Request
    <3>4. \A n \in notices' : n.about = "school" => n \in notices
      BY <3>1 DEF NoticeTo
    <3> QED
      BY <3>1, <3>2, <3>3, <3>4, ArrivalStep, NoNewSchoolNotice
  <2>12. CASE GymSave(h)
    <3>1. PICK q : q = [R EXCEPT !.stage = "gymSend"]
      OBVIOUS
    <3>2. RequestArrived(q)'
      BY <2>1, <2>2, <2>9, <2>12, <3>1 DEF GymSave, Request
    <3> QED
      BY <2>1, <2>12, <3>1, <3>2, ArrivalStep, NoNewSchoolNotice DEF GymSave
  <2>13. CASE GymSend(h)
    <3>1. PICK q : q = [R EXCEPT !.stage = "gym", !.cur = None]
      OBVIOUS
    <3>2. RequestArrived(q)'
      BY <2>1, <2>2, <2>9, <2>13, <3>1 DEF GymSend, Request
    <3> QED
      BY <2>1, <2>13, <3>1, <3>2, ArrivalStep, NoNewSchoolNotice DEF GymSend
  <2> QED
    BY <1>5, <2>4, <2>5, <2>6, <2>7, <2>8, <2>10, <2>11, <2>12, <2>13 DEF Proceed, Serve
<1>6. ASSUME NEW h \in Handler, Fail(h) PROVE ArrivalInv'
  BY <1>3, <1>6, ArrivalStep, NoNewSchoolNotice DEF Fail
<1>7. CASE Restart
  BY <1>3, <1>7, NoNewSchoolNotice DEF Restart, ArrivalInv
<1>8. CASE Staff \/ Tick \/ UNCHANGED vars
  BY <1>2, <1>8 DEF Staff, EditRead, EditSave, SetSchedule, MoveRoute, Tick, vars
<1> QED
  BY <1>4, <1>5, <1>6, <1>7, <1>8 DEF Next, Webhook

\* Whatever the concurrent requests, no parent is told of a van at the school unless
\* the arrival of that van at the school of the child's route is on record.
THEOREM SchoolNoticesFollowArrivals == Spec => []SchoolNoticesHaveAnArrival
<1>1. Init => ArrivalInv
  BY DEF Init, ArrivalInv, SchoolNoticesHaveAnArrival, RequestArrived, Idle
<1>2. ArrivalInv => SchoolNoticesHaveAnArrival
  BY DEF ArrivalInv
<1> QED
  BY <1>1, <1>2, TypeInvInit, TypeInvInductive, ArrivalInductive, PTL DEF Spec
-----------------------------------------------------------------------------
(***************************************************************************)
(* Who is told at the gym.  An active ride, in a row or in any copy of     *)
(* one, is that of a child whose parent was told of a pickup; the          *)
(* candidates of the gym branch are active.  An admin's form may tick      *)
(* active_ride by hand, so this is about the other staff only.             *)
(***************************************************************************)
PickedUp(c) == \E t \in Time : Announced(c, t)

CopyPicked(i) == i.row.active => PickedUp(i.id)

RequestPicked(q) ==
  /\ \A i \in q.todo : CopyPicked(i)
  /\ HoldsCopy(q) => CopyPicked(q.cur)
  /\ q.stage = "schoolSave" => PickedUp(q.cur.id)
  /\ q.stage \in {"gym", "gymSave", "gymSend"} => \A i \in q.todo : i.row.active

PickedInv ==
  /\ GymNoticesFollowSchoolNotices
  /\ \A c \in Child : child[c].active => PickedUp(c)
  /\ \A h \in Handler : RequestPicked(run[h])
  /\ \A e \in Editor : edit[e] # None => CopyPicked(edit[e])

LEMMA PickedStays ==
  ASSUME notices \subseteq notices'
  PROVE  /\ \A c : PickedUp(c) => PickedUp(c)'
         /\ \A i : CopyPicked(i) => CopyPicked(i)'
         /\ \A q : RequestPicked(q) => RequestPicked(q)'
<1>1. \A c : PickedUp(c) => PickedUp(c)'
  BY AnnouncedStays DEF PickedUp, Announced
<1>2. \A i : CopyPicked(i) => CopyPicked(i)'
  BY <1>1 DEF CopyPicked
<1>3. \A q : RequestPicked(q) => RequestPicked(q)'
  BY <1>1, <1>2 DEF RequestPicked, HoldsCopy
<1> QED
  BY <1>1, <1>2, <1>3

\* What a step of request h must show: of its own copies, of the rows, of a new notice.
LEMMA PickedStep ==
  ASSUME TypeInv, PickedInv, [Next]_vars, NEW h \in Handler, NEW q, Goto(h, q), UNCHANGED edit,
         RequestPicked(q)',
         \A c \in Child : child'[c].active => child[c].active \/ PickedUp(c),
         \A n \in notices' \ notices : n.about = "gym" => PickedUp(n.child)
  PROVE  PickedInv'
<1>1. \A k \in Handler : run'[k] = IF k = h THEN q ELSE run[k]
  BY DEF Goto, TypeInv, TypeOK
<1>2. notices \subseteq notices'
  BY NoticesGrow
<1>3. ASSUME NEW k \in Handler PROVE RequestPicked(run[k])'
  <2>1. PICK p : p = run'[k]
    OBVIOUS
  <2>2. p = q \/ p = run[k]
    BY <1>1, <2>1
  <2>3. RequestPicked(p)'
    BY <1>2, <2>2, PickedStays DEF PickedInv
  <2> QED
    BY <2>1, <2>3 DEF RequestPicked, CopyPicked, PickedUp, Announced, HoldsCopy
<1>4. \A c \in Child : child'[c].active => PickedUp(c)'
  BY <1>2, PickedStays DEF PickedInv
<1>5. \A e \in Editor : edit'[e] # None => CopyPicked(edit[e])'
  <2> SUFFICES ASSUME NEW e \in Editor, NEW i, i = edit[e], i # None PROVE CopyPicked(edit[e])'
    OBVIOUS
  <2>1. CopyPicked(i)'
    BY <1>2, PickedStays DEF PickedInv
  <2> QED
    BY <2>1 DEF CopyPicked, PickedUp, Announced
<1>6. GymNoticesFollowSchoolNotices'
  <2> SUFFICES ASSUME NEW n \in notices', n.about = "gym" PROVE PickedUp(n.child)'
    BY DEF GymNoticesFollowSchoolNotices, PickedUp
  <2>1. PickedUp(n.child)
    BY DEF PickedInv, GymNoticesFollowSchoolNotices, PickedUp
  <2> QED
    BY <1>2, <2>1, PickedStays
<1> QED
  BY <1>3, <1>4, <1>5, <1>6 DEF PickedInv

LEMMA ProceedPicked ==
  ASSUME TypeInv, PickedInv, NEW h \in Handler, Proceed(h)
  PROVE  PickedInv'
<1> DEFINE R == run[h]
<1>0. /\ R \in Request /\ R.todo \subseteq Instance /\ RequestPicked(R) /\ [Next]_vars
      /\ child \in [Child -> Row] /\ now \in Time
      /\ HoldsCopy(R) => R.cur \in Instance
      /\ \A c \in Child : CopyPicked(Read(c)) /\ Read(c).row = child[c]
  BY DEF TypeInv, TypeOK, PickedInv, Request, Underway, Next, Webhook, CopyPicked, Read
<1>1. notices \subseteq notices'
  BY <1>0, NoticesGrow
\* A step that writes no row and sends nothing.
<1>2. ASSUME NEW q, Goto(h, q), UNCHANGED <<child, notices, edit>>, RequestPicked(q)
      PROVE  PickedInv'
  BY <1>0, <1>1, <1>2, PickedStep, PickedStays
<1>3. CASE SchoolQuery(h)
  <2>1. PICK q : q = [R EXCEPT !.stage = "school", !.at = now, !.todo = SchoolCandidates(R.fence)]
    OBVIOUS
  <2>2. Goto(h, q) /\ q.stage = "school" /\ q.todo = SchoolCandidates(R.fence)
        /\ UNCHANGED <<child, notices, edit>>
    BY <1>0, <1>3, <2>1 DEF SchoolQuery, Request
  <2>3. \A i \in q.todo : CopyPicked(i)
    BY <1>0, <2>2 DEF SchoolCandidates
  <2>4. RequestPicked(q)
    BY <2>2, <2>3 DEF RequestPicked, HoldsCopy
  <2> QED
    BY <1>2, <2>2, <2>4
<1>4. CASE SchoolSkip(h)
  <2>1. PICK i \in R.todo : Goto(h, [R EXCEPT !.todo = @ \ {i}])
    BY <1>4 DEF SchoolSkip
  <2>2. PICK q : q = [R EXCEPT !.todo = @ \ {i}]
    OBVIOUS
  <2>3. Goto(h, q) /\ q.stage = "school" /\ q.todo \subseteq R.todo
        /\ UNCHANGED <<child, notices, edit>>
    BY <1>0, <1>4, <2>1, <2>2 DEF SchoolSkip, Request
  <2>4. RequestPicked(q)
    BY <1>0, <2>3 DEF RequestPicked, HoldsCopy
  <2> QED
    BY <1>2, <2>3, <2>4
<1>5. CASE SchoolScheduleGone(h) \/ Respond(h)
  <2>1. Goto(h, Idle) /\ UNCHANGED <<child, notices, edit>>
    BY <1>5 DEF SchoolScheduleGone, Respond
  <2>2. RequestPicked(Idle)
    BY DEF Idle, RequestPicked, HoldsCopy
  <2> QED
    BY <1>2, <2>1, <2>2
<1>6. CASE SchoolNotify(h)
  <2>1. PICK i \in R.todo :
          /\ notices' = notices \cup {NoticeTo(i, "school", R)}
          /\ Goto(h, [R EXCEPT !.stage = "schoolSave", !.todo = @ \ {i}, !.cur = i])
    BY <1>6 DEF SchoolNotify, NotifyParent
  <2>2. PICK q : q = [R EXCEPT !.stage = "schoolSave", !.todo = @ \ {i}, !.cur = i]
    OBVIOUS
  <2>3. /\ Goto(h, q) /\ q.stage = "schoolSave" /\ q.cur = i /\ q.todo \subseteq R.todo
        /\ UNCHANGED <<child, edit>>
    BY <1>0, <1>6, <2>1, <2>2 DEF SchoolNotify, Request
  <2> DEFINE n == NoticeTo(i, "school", R)
  <2>4. n.about = "school" /\ n.child = i.id /\ n.at = R.at /\ R.at \in Time
    BY <1>0 DEF NoticeTo, Request
  <2>5. PickedUp(i.id)'
    BY <2>1, <2>4 DEF PickedUp, Announced
  <2>6. \A j \in q.todo : CopyPicked(j)'
    BY <1>0, <1>1, <2>3, PickedStays DEF RequestPicked
  <2>7. RequestPicked(q)'
    BY <2>3, <2>5, <2>6 DEF RequestPicked, HoldsCopy, CopyPicked
  <2> QED
    BY <1>0, <2>1, <2>3, <2>4, <2>7, PickedStep
<1>7. CASE SchoolSave(h)
  <2>1. PICK q : q = [R EXCEPT !.stage = "school", !.cur = None]
    OBVIOUS
  <2>2. /\ Goto(h, q) /\ q.stage = "school" /\ q.todo = R.todo /\ R.stage = "schoolSave"
        /\ child' = [child EXCEPT ![R.cur.id] = StartRide(R.cur.row, R.at)]
        /\ UNCHANGED <<notices, edit>>
    BY <1>0, <1>7, <2>1 DEF SchoolSave, Request
  <2>3. RequestPicked(q) /\ PickedUp(R.cur.id)
    BY <1>0, <2>2 DEF RequestPicked, HoldsCopy
  <2>4. \A c \in Child : child'[c].active => child[c].active \/ PickedUp(c)
    BY <1>0, <2>2, <2>3
  <2> QED
    BY <1>0, <1>1, <2>2, <2>3, <2>4, PickedStep, PickedStays
<1>8. CASE GymQuery(h)
  <2>1. PICK q : q = [R EXCEPT !.stage = "gym", !.todo = GymCandidates(R.fence)]
    OBVIOUS
  <2>2. Goto(h, q) /\ q.stage = "gym" /\ q.todo = GymCandidates(R.fence)
        /\ UNCHANGED <<child, notices, edit>>
    BY <1>0, <1>8, <2>1 DEF GymQuery, Request
  <2>3. \A i \in q.todo : CopyPicked(i) /\ i.row.active
    BY <1>0, <2>2 DEF GymCandidates
  <2>4. RequestPicked(q)
    BY <2>2, <2>3 DEF RequestPicked, HoldsCopy
  <2> QED
    BY <1>2, <2>2, <2>4
<1>9. CASE GymNotify(h)
  <2>1. PICK i \in R.todo :
          /\ notices' = notices \cup {NoticeTo(i, "gym", R)}
          /\ Goto(h, [R EXCEPT !.stage = "gymSave", !.todo = @ \ {i}, !.cur = i])
    BY <1>9 DEF GymNotify, NotifyParent
  <2>2. PICK q : q = [R EXCEPT !.stage = "gymSave", !.todo = @ \ {i}, !.cur = i]
    OBVIOUS
  <2>3. /\ Goto(h, q) /\ q.stage = "gymSave" /\ q.cur = i /\ q.todo \subseteq R.todo
        /\ UNCHANGED <<child, edit>> /\ R.stage = "gym"
    BY <1>0, <1>9, <2>1, <2>2 DEF GymNotify, Request
  <2>4. RequestPicked(q) /\ PickedUp(i.id)
    BY <1>0, <2>3 DEF RequestPicked, HoldsCopy, CopyPicked
  <2>5. NoticeTo(i, "gym", R).child = i.id
    BY DEF NoticeTo
  <2> QED
    BY <1>0, <1>1, <2>1, <2>3, <2>4, <2>5, PickedStep, PickedStays
<1>10. CASE GymSave(h)
  <2>1. PICK q : q = [R EXCEPT !.stage = "gymSend"]
    OBVIOUS
  <2>2. /\ Goto(h, q) /\ q.stage = "gymSend" /\ q.todo = R.todo /\ q.cur = R.cur
        /\ R.stage = "gymSave"
        /\ child' = [child EXCEPT ![R.cur.id] = EndRide(R.cur.row)]
        /\ UNCHANGED <<notices, edit>>
    BY <1>0, <1>10, <2>1 DEF GymSave, Request
  <2>3. RequestPicked(q) /\ HoldsCopy(R)
    BY <1>0, <2>2 DEF RequestPicked, HoldsCopy
  <2>4. R.cur.row \in Row
    BY <1>0, <2>3 DEF Instance
  <2>5. EndRide(R.cur.row).active = FALSE
    BY <2>4 DEF EndRide, Row
  <2>6. \A c \in Child : child'[c].active => child[c].active \/ PickedUp(c)
    BY <1>0, <2>2, <2>5
  <2> QED
    BY <1>0, <1>1, <2>2, <2>3, <2>6, PickedStep, PickedStays
<1>11. CASE GymSend(h)
  <2>1. PICK q : q = [R EXCEPT !.stage = "gym", !.cur = None]
    OBVIOUS
  <2>2. /\ Goto(h, q) /\ q.stage = "gym" /\ q.todo = R.todo /\ R.stage = "gymSend"
        /\ UNCHANGED <<child, notices, edit>>
    BY <1>0, <1>11, <2>1 DEF GymSend, Request
  <2>3. RequestPicked(q)
    BY <1>0, <2>2 DEF RequestPicked, HoldsCopy
  <2> QED
    BY <1>2, <2>2, <2>3
<1> QED
  BY <1>3, <1>4, <1>5, <1>6, <1>7, <1>8, <1>9, <1>10, <1>11 DEF Proceed, Serve

LEMMA PickedInductive == Admin = {} /\ TypeInv /\ PickedInv /\ [Next]_vars => PickedInv'
<1> SUFFICES ASSUME Admin = {}, TypeInv, PickedInv, [Next]_vars PROVE PickedInv'
  OBVIOUS
<1>0. /\ child \in [Child -> Row] /\ edit \in [Editor -> Instance \cup {None}]
      /\ \A c \in Child : CopyPicked(Read(c))
      /\ RequestPicked(Idle)
  BY DEF TypeInv, TypeOK, PickedInv, CopyPicked, Read, RequestPicked, HoldsCopy, Idle
<1>1. ASSUME NEW h \in Handler, Fail(h) PROVE PickedInv'
  <2>1. Goto(h, Idle) /\ UNCHANGED <<child, notices, edit>>
    BY <1>1 DEF Fail
  <2>2. RequestPicked(Idle)'
    BY DEF RequestPicked, HoldsCopy, Idle
  <2> QED
    BY <2>1, <2>2, PickedStep
<1>2. ASSUME NEW h \in Handler, NEW v \in Van, NEW f \in Fence, NEW kind \in {"ENTER", "EXIT"},
             Receive(h, v, f, kind)
      PROVE  PickedInv'
  <2>1. PICK q : q = [Idle EXCEPT !.stage = "received", !.van = v, !.fence = f]
    OBVIOUS
  <2>2. RequestPicked(q)'
    BY <2>1 DEF RequestPicked, HoldsCopy, Idle
  <2>3. UNCHANGED <<child, notices, edit>> /\ (Goto(h, q) \/ UNCHANGED run)
    BY <1>2, <2>1 DEF Receive
  <2>4. CASE UNCHANGED run
    BY <2>3, <2>4 DEF PickedInv, GymNoticesFollowSchoolNotices, RequestPicked, CopyPicked,
                      PickedUp, Announced, HoldsCopy
  <2> QED
    BY <2>2, <2>3, <2>4, PickedStep
<1>3. ASSUME UNCHANGED <<notices, run>>,
             \A c \in Child : child'[c].active => PickedUp(c),
             \A e \in Editor : edit'[e] # None => CopyPicked(edit'[e])
      PROVE  PickedInv'
  BY <1>3 DEF PickedInv, GymNoticesFollowSchoolNotices, RequestPicked, CopyPicked, PickedUp,
              Announced, HoldsCopy
<1>4. ASSUME UNCHANGED <<notices, run, child, edit>> PROVE PickedInv'
  BY <1>3, <1>4 DEF PickedInv
<1>5. ASSUME NEW e \in Editor, EditRead(e) PROVE PickedInv'
  <2>1. PICK c \in Child : edit' = [edit EXCEPT ![e] = Read(c)]
    BY <1>5 DEF EditRead
  <2>2. \A d \in Editor : edit'[d] = IF d = e THEN Read(c) ELSE edit[d]
    BY <1>0, <2>1
  <2>3. \A d \in Editor : edit'[d] # None => CopyPicked(edit'[d])
    BY <1>0, <2>2 DEF PickedInv
  <2> QED
    BY <1>3, <1>5, <2>3 DEF EditRead, PickedInv
<1>6. ASSUME NEW e \in Editor, EditSave(e) PROVE PickedInv'
  <2>1. edit[e] \in Instance /\ CopyPicked(edit[e])
    BY <1>0, <1>6 DEF EditSave, PickedInv
  <2>2. PICK r \in Route, b \in BOOLEAN :
          /\ b = edit[e].row.active
          /\ child' = [child EXCEPT ![edit[e].id] = [edit[e].row EXCEPT !.route = r, !.active = b]]
    BY <1>6 DEF EditSave
  <2>3. [edit[e].row EXCEPT !.route = r, !.active = b].active = b
    BY <2>1 DEF Instance, Row
  <2>4. \A c \in Child : child'[c].active => PickedUp(c)
    BY <1>0, <2>1, <2>2, <2>3 DEF PickedInv, CopyPicked, Instance
  <2>5. \A d \in Editor : edit'[d] # None => edit'[d] = edit[d]
    BY <1>0, <1>6 DEF EditSave
  <2> QED
    BY <1>3, <1>6, <2>4, <2>5 DEF EditSave, PickedInv
<1>7. CASE Restart
  <2>1. /\ \A h \in Handler : run'[h] = Idle
        /\ \A e \in Editor : edit'[e] = None
        /\ UNCHANGED <<child, notices>>
    BY <1>7 DEF Restart
  <2>2. \A h \in Handler : RequestPicked(run[h])'
    BY <2>1 DEF RequestPicked, HoldsCopy, Idle
  <2> QED
    BY <2>1, <2>2 DEF PickedInv, GymNoticesFollowSchoolNotices, PickedUp, Announced
<1>8. CASE Tick \/ UNCHANGED vars
  BY <1>4, <1>8 DEF Tick, vars
<1>9. ASSUME NEW c \in Child, NEW t \in PickupTime \cup {None}, SetSchedule(c, t) PROVE PickedInv'
  BY <1>4, <1>9 DEF SetSchedule
<1>10. ASSUME NEW r \in Route, NEW v \in Van, MoveRoute(r, v) PROVE PickedInv'
  BY <1>4, <1>10 DEF MoveRoute
<1> QED
  BY <1>1, <1>2, <1>5, <1>6, <1>7, <1>8, <1>9, <1>10, ProceedPicked DEF Next, Webhook, Staff

LEMMA PickedInit == Init => PickedInv
<1> SUFFICES ASSUME Init PROVE PickedInv
  OBVIOUS
<1>1. \A c \in Child : child[c].active = FALSE
  BY DEF Init
<1>2. \A h \in Handler : RequestPicked(run[h])
  BY DEF Init, Idle, RequestPicked, HoldsCopy
<1> QED
  BY <1>1, <1>2 DEF Init, PickedInv, GymNoticesFollowSchoolNotices

\* Nobody hears of an arrival at the gym who was not told of a pickup: true of every
\* interleaving of webhooks and PATCHes, as long as no admin ticks active_ride by hand.
THEOREM GymNoticesFollow == Admin = {} => (Spec => []GymNoticesFollowSchoolNotices)
<1> SUFFICES ASSUME Admin = {} PROVE Spec => []GymNoticesFollowSchoolNotices
  OBVIOUS
<1>1. PickedInv => GymNoticesFollowSchoolNotices
  BY DEF PickedInv
<1>2. TypeInv /\ PickedInv /\ [Next]_vars => PickedInv'
  BY PickedInductive
<1> QED
  BY <1>1, <1>2, TypeInvInit, TypeInvInductive, PickedInit, PTL DEF Spec
=============================================================================
