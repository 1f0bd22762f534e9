------------------------------- MODULE Rides --------------------------------
(***************************************************************************)
(* The life of a child's ride: tracking.views.arrival_webhook starts it    *)
(* when the van enters the school's fence and ends it at the gym's,        *)
(* tracking.services.is_ride_active says whether it opens the live map,    *)
(* and operators edit the same rows while the webhook works on them.       *)
(*                                                                         *)
(* The webhook is a synchronous view: every request runs in a thread of    *)
(* its own, in autocommit mode, so requests interleave between any two     *)
(* database or broker calls.  Each action below is one such call together  *)
(* with the pure code around it.  A queryset is evaluated once, when its   *)
(* loop starts: the loop works on copies of the rows, and Child.save()     *)
(* writes every column of a copy back, whatever the row has become.        *)
(*                                                                         *)
(* One day is modelled, in ticks: schedule[c] is the pickup time of the    *)
(* day's weekday, None when the child has no schedule row for it.          *)
(* Requests with a wrong secret, an unreadable body, another event type,   *)
(* an unknown device or an unknown fence change nothing and are left out.  *)
(***************************************************************************)
EXTENDS Naturals, Sequences, FiniteSets

CONSTANTS Child, Van, Route, Fence,
          Handler,        \* threads that serve webhook requests
          Editor,         \* requests of the staff that edit a child's row
          Admin,          \* those of them made in the Django admin
          Origin,         \* the school fence of each route
          Destination,    \* the gym fence of each route
          PickupTime,     \* the times a schedule row may hold
          Buffer,         \* tolerance around a pickup time, 15 minutes
          MaxDuration,    \* ACTIVE_RIDE_MAX_DURATION, 6 hours
          None,           \* SQL NULL, and Python's None
          MaxTime,        \* bound on the clock
          MaxArrivals,    \* bound on the webhook requests served
          MaxFaults       \* bound on exceptions and restarts

ASSUME ConstantsOK ==
  /\ None \notin Nat \cup Van \cup Fence
  /\ Admin \subseteq Editor
  /\ Origin \in [Route -> Fence]
  /\ Destination \in [Route -> Fence]
  /\ PickupTime \subseteq Nat
  /\ {Buffer, MaxDuration, MaxTime, MaxArrivals, MaxFaults} \subseteq Nat

VARIABLES now,       \* the server's clock
          child,     \* the columns of accounts.Child rows that rides use
          schedule,  \* today's ChildSchedule.pickup_hour of each child
          routeVan,  \* Route.van
          arrivals,  \* the ArrivalEvent table, in insertion order
          notices,   \* every call of notify_parent made so far
          run,       \* the state of each webhook request
          edit,      \* the copy of a row that each staff request works on
          faults

vars == <<now, child, schedule, routeVan, arrivals, notices, run, edit, faults>>

-----------------------------------------------------------------------------
\* Rows, copies of rows, and requests.

Time == 0..MaxTime

Row == [route : Route, active : BOOLEAN, start : Time \cup {None}]

\* A model instance in a thread's memory: the key and the columns it read.
Instance == [id : Child, row : Row]

Read(c) == [id |-> c, row |-> child[c]]

Stage == {"idle", "received", "school", "schoolSave", "gym", "gymSave", "gymSend"}

Request == [stage : Stage, van : Van \cup {None}, fence : Fence \cup {None},
            at : Time, todo : SUBSET Instance, cur : Instance \cup {None}]

Idle == [stage |-> "idle", van |-> None, fence |-> None,
         at |-> 0, todo |-> {}, cur |-> None]

Notice == [child : Child, about : {"school", "gym"}, at : Time, route : Route, van : Van]

\* tracking.services.is_ride_active.
IsRideActiveUncapped(row) == row.active /\ row.start # None
IsRideActive(row) ==
  /\ row.active
  /\ row.start # None
  /\ now <= row.start + MaxDuration

\* abs(now - scheduled_dt) <= BUFFER, at time t.
InPickupWindow(c, t) ==
  /\ schedule[c] # None
  /\ t <= schedule[c] + Buffer
  /\ schedule[c] <= t + Buffer

\* The two candidate queries.  Neither looks at the van that arrived.
SchoolCandidatesAnyFence(f) == {Read(c) : c \in {d \in Child : schedule[d] # None}}
SchoolCandidates(f) ==
  {Read(c) : c \in {d \in Child : Origin[child[d].route] = f /\ schedule[d] # None}}

GymCandidatesWholeRoute(f) ==
  {Read(c) : c \in {d \in Child : Destination[child[d].route] = f}}
GymCandidates(f) ==
  {Read(c) : c \in {d \in Child : Destination[child[d].route] = f /\ child[d].active}}

\* What the loops do to the copy that is saved.
StartRideLateClock(row, t) == [row EXCEPT !.active = TRUE, !.start = now]
StartRide(row, t) == [row EXCEPT !.active = TRUE, !.start = t]

EndRideNull(row) == [row EXCEPT !.active = None]
EndRide(row) == [row EXCEPT !.active = FALSE]

NoticeTo(i, about, r) ==
  [child |-> i.id, about |-> about, at |-> r.at, route |-> i.row.route, van |-> r.van]

\* notify_parent: the task is queued at once, as no transaction is open.
NotifyNobody(n) == UNCHANGED notices
NotifyParent(n) == notices' = notices \cup {n}

-----------------------------------------------------------------------------
Init ==
  /\ now = 0
  /\ child \in [Child -> [route : Route, active : {FALSE}, start : {None}]]
  /\ schedule \in [Child -> PickupTime \cup {None}]
  /\ routeVan \in [Route -> Van]
  /\ arrivals = <<>>
  /\ notices = {}
  /\ run = [h \in Handler |-> Idle]
  /\ edit = [e \in Editor |-> None]
  /\ faults = 0

Tick ==
  /\ now < MaxTime
  /\ now' = now + 1
  /\ UNCHANGED <<child, schedule, routeVan, arrivals, notices, run, edit, faults>>

-----------------------------------------------------------------------------
\* arrival_webhook, one action per database or broker call.

Goto(h, r) == run' = [run EXCEPT ![h] = r]

\* ArrivalEvent.objects.create; only an ENTER goes on.
Receive(h, v, f, kind) ==
  /\ run[h].stage = "idle"
  /\ Len(arrivals) < MaxArrivals
  /\ arrivals' = Append(arrivals, [van |-> v, fence |-> f, kind |-> kind])
  /\ IF kind = "ENTER"
       THEN Goto(h, [Idle EXCEPT !.stage = "received", !.van = v, !.fence = f])
       ELSE UNCHANGED run
  /\ UNCHANGED <<now, child, schedule, routeVan, notices, edit, faults>>

\* now = timezone.now() and the evaluation of the school queryset.
SchoolQuery(h) ==
  /\ run[h].stage = "received"
  /\ Goto(h, [run[h] EXCEPT !.stage = "school", !.at = now,
                            !.todo = SchoolCandidates(run[h].fence)])
  /\ UNCHANGED <<now, child, schedule, routeVan, arrivals, notices, edit, faults>>

\* The schedule row is read again: outside the window the child is passed over.
SchoolSkip(h) ==
  /\ run[h].stage = "school"
  /\ \E i \in run[h].todo :
       /\ schedule[i.id] # None
       /\ ~InPickupWindow(i.id, run[h].at)
       /\ Goto(h, [run[h] EXCEPT !.todo = @ \ {i}])
  /\ UNCHANGED <<now, child, schedule, routeVan, arrivals, notices, edit, faults>>

\* schedule.first() found nothing: AttributeError, the request ends here.
SchoolScheduleGone(h) ==
  /\ run[h].stage = "school"
  /\ \E i \in run[h].todo : schedule[i.id] = None
  /\ Goto(h, Idle)
  /\ UNCHANGED <<now, child, schedule, routeVan, arrivals, notices, edit, faults>>

\* Inside the window: the parent is told first.
SchoolNotify(h) ==
  /\ run[h].stage = "school"
  /\ \E i \in run[h].todo :
       /\ InPickupWindow(i.id, run[h].at)
       /\ NotifyParent(NoticeTo(i, "school", run[h]))
       /\ Goto(h, [run[h] EXCEPT !.stage = "schoolSave", !.todo = @ \ {i}, !.cur = i])
  /\ UNCHANGED <<now, child, schedule, routeVan, arrivals, edit, faults>>

\* ... and the row is saved after.
SchoolSave(h) ==
  /\ run[h].stage = "schoolSave"
  /\ LET i == run[h].cur IN
       child' = [child EXCEPT ![i.id] = StartRide(i.row, run[h].at)]
  /\ Goto(h, [run[h] EXCEPT !.stage = "school", !.cur = None])
  /\ UNCHANGED <<now, schedule, routeVan, arrivals, notices, edit, faults>>

GymQuery(h) ==
  /\ run[h].stage = "school"
  /\ run[h].todo = {}
  /\ Goto(h, [run[h] EXCEPT !.stage = "gym", !.todo = GymCandidates(run[h].fence)])
  /\ UNCHANGED <<now, child, schedule, routeVan, arrivals, notices, edit, faults>>

GymNotify(h) ==
  /\ run[h].stage = "gym"
  /\ \E i \in run[h].todo :
       /\ NotifyParent(NoticeTo(i, "gym", run[h]))
       /\ Goto(h, [run[h] EXCEPT !.stage = "gymSave", !.todo = @ \ {i}, !.cur = i])
  /\ UNCHANGED <<now, child, schedule, routeVan, arrivals, edit, faults>>

GymSave(h) ==
  /\ run[h].stage = "gymSave"
  /\ LET i == run[h].cur IN
       child' = [child EXCEPT ![i.id] = EndRide(i.row)]
  /\ Goto(h, [run[h] EXCEPT !.stage = "gymSend"])
  /\ UNCHANGED <<now, schedule, routeVan, arrivals, notices, edit, faults>>

\* group_send of ride_ended: to whom it goes is LiveMap's matter.
GymSend(h) ==
  /\ run[h].stage = "gymSend"
  /\ Goto(h, [run[h] EXCEPT !.stage = "gym", !.cur = None])
  /\ UNCHANGED <<now, child, schedule, routeVan, arrivals, notices, edit, faults>>

Respond(h) ==
  /\ run[h].stage = "gym"
  /\ run[h].todo = {}
  /\ Goto(h, Idle)
  /\ UNCHANGED <<now, child, schedule, routeVan, arrivals, notices, edit, faults>>

\* An exception of the database, the broker or the channel layer: what was done stays.
Fail(h) ==
  /\ run[h].stage # "idle"
  /\ faults < MaxFaults
  /\ faults' = faults + 1
  /\ Goto(h, Idle)
  /\ UNCHANGED <<now, child, schedule, routeVan, arrivals, notices, edit>>

-----------------------------------------------------------------------------
\* The staff's requests on the same tables.

\* ChildViewSet.update or the admin's change form: the row is read ...
EditRead(e) ==
  /\ edit[e] = None
  /\ \E c \in Child : edit' = [edit EXCEPT ![e] = Read(c)]
  /\ UNCHANGED <<now, child, schedule, routeVan, arrivals, notices, run, faults>>

\* ... and later written back whole, with another route; the admin's form also
\* carries the active_ride box (a start time typed in by hand there is left out).
EditSave(e) ==
  /\ edit[e] # None
  /\ \E r \in Route, b \in BOOLEAN :
       /\ e \notin Admin => b = edit[e].row.active
       /\ child' = [child EXCEPT ![edit[e].id] =
                      [edit[e].row EXCEPT !.route = r, !.active = b]]
  /\ edit' = [edit EXCEPT ![e] = None]
  /\ UNCHANGED <<now, schedule, routeVan, arrivals, notices, run, faults>>

\* ChildScheduleViewSet: today's row is created, changed or deleted.
SetSchedule(c, t) ==
  /\ Editor # {}
  /\ schedule[c] # t
  /\ schedule' = [schedule EXCEPT ![c] = t]
  /\ UNCHANGED <<now, child, routeVan, arrivals, notices, run, edit, faults>>

\* RouteViewSet.perform_update gives the route to another van.
MoveRoute(r, v) ==
  /\ Editor # {}
  /\ routeVan[r] # v
  /\ routeVan' = [routeVan EXCEPT ![r] = v]
  /\ UNCHANGED <<now, child, schedule, arrivals, notices, run, edit, faults>>

\* The one process that serves everything restarts: requests are lost, rows are not.
Restart ==
  /\ faults < MaxFaults
  /\ faults' = faults + 1
  /\ run' = [h \in Handler |-> Idle]
  /\ edit' = [e \in Editor |-> None]
  /\ UNCHANGED <<now, child, schedule, routeVan, arrivals, notices>>
-----------------------------------------------------------------------------
\* The rest of a request that was received, whatever it takes.
Serve(h) ==
  \/ SchoolQuery(h) \/ SchoolSkip(h) \/ SchoolScheduleGone(h)
  \/ SchoolNotify(h) \/ SchoolSave(h)
  \/ GymQuery(h) \/ GymNotify(h) \/ GymSave(h) \/ Respond(h)

Proceed(h) == Serve(h) \/ GymSend(h)

Webhook(h) ==
  \/ \E v \in Van, f \in Fence, kind \in {"ENTER", "EXIT"} : Receive(h, v, f, kind)
  \/ Proceed(h)
  \/ Fail(h)

Staff ==
  \/ \E e \in Editor : EditRead(e) \/ EditSave(e)
  \/ \E c \in Child, t \in PickupTime \cup {None} : SetSchedule(c, t)
  \/ \E r \in Route, v \in Van : MoveRoute(r, v)

Next == Tick \/ (\E h \in Handler : Webhook(h)) \/ Staff \/ Restart

Spec == Init /\ [][Next]_vars

\* Time passes, and a thread that serves a request is scheduled until it answers.
FairSpec == Spec /\ WF_vars(Tick) /\ \A h \in Handler : WF_vars(Proceed(h))

-----------------------------------------------------------------------------
TypeOK ==
  /\ now \in Time
  /\ child \in [Child -> Row]
  /\ schedule \in [Child -> PickupTime \cup {None}]
  /\ routeVan \in [Route -> Van]
  /\ arrivals \in Seq([van : Van, fence : Fence, kind : {"ENTER", "EXIT"}])
  /\ notices \subseteq Notice
  /\ run \in [Handler -> Request]
  /\ edit \in [Editor -> Instance \cup {None}]
  /\ faults \in Nat

Announced(c, t) == \E n \in notices : n.child = c /\ n.about = "school" /\ n.at = t

\* A ride never opens the map on a parent who was not told of it: the start a
\* row carries is the time of a pickup the parent was told of.  The webhook
\* tells before it saves, in another step; whole copies of rows, some of them
\* old, are written back by requests that run at the same time or fail halfway.
StartsWereAnnounced ==
  \A c \in Child : child[c].start # None => Announced(c, child[c].start)

\* "The van has arrived to the school" goes to a parent only after a van was
\* recorded entering the school of the child's route, whatever requests of
\* other fences are served at the same time and whatever route the staff give
\* the child meanwhile.
SchoolNoticesHaveAnArrival ==
  \A n \in notices : n.about = "school" =>
    \E k \in DOMAIN arrivals :
      arrivals[k] = [van |-> n.van, fence |-> Origin[n.route], kind |-> "ENTER"]

\* "Van has arrived to Ginas Gymnastics" goes only to a parent who was told of
\* a pickup before: without the active_ride filter of the gym branch the whole
\* route gets it, picked up or not (the staff do not tick active_ride by hand).
GymNoticesFollowSchoolNotices ==
  \A n \in notices : n.about = "gym" => \E t \in Time : Announced(n.child, t)

\* However many gym arrivals are lost or fail, no child stays watchable: the
\* six hours of is_ride_active run out on every ride.
RidesExpire == \A c \in Child : IsRideActive(child[c]) ~> ~IsRideActive(child[c])

\* The van of the child's route entered the school of that route.
PickedUpOwn(v, c) ==
  \E n \in notices : n.about = "school" /\ n.child = c /\ n.van = v /\ routeVan[n.route] = v

\* tracking/views.py:166: without the active_ride filter every child routed to the gym
\* would be told of its arrival, "even if the van never picked them up".  So where two
\* vans are on the road, each with the children of its own route, the gym arrival of one
\* is not told to the parents of the other's.
OnlyOwnVanTellsArrival ==
  \A n \in notices, v \in Van, d \in Child :
    n.about = "gym" /\ PickedUpOwn(v, n.child) /\ PickedUpOwn(n.van, d) => n.van = v

\* accounts/serializers.py:38: the ride's columns are read-only to the API, an
\* operator's PATCH of a child leaves them as they are.
PatchLeavesRideAlone ==
  [][\A e \in Editor \ Admin : EditSave(e) =>
       LET c == edit[e].id IN
         child'[c].active = child[c].active /\ child'[c].start = child[c].start]_vars

\* The gates of RideGate, as the tables show them.
RowGate(row) == IF row.active THEN row.start ELSE None
GateOf == [c \in Child |-> RowGate(child[c])]
Told == {<<n.child, n.at>> : n \in {m \in notices : m.about = "school"}}
Gate == INSTANCE RideGate WITH Time <- Time, told <- Told, gate <- GateOf
ImplementsRideGate == Gate!Spec
=============================================================================
