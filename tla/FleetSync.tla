----------------------------- MODULE FleetSync ------------------------------
(***************************************************************************)
(* The links between vans' trackers and zones in Traccar, which decide     *)
(* what arrivals the webhook hears of: fleet.views' RouteViewSet keeps     *)
(* them in step with the routes (_sync_van_geofences), GeoFenceViewSet     *)
(* makes and deletes the zones.                                            *)
(*                                                                         *)
(* Each action is one query or one HTTP call.  Creating and updating a     *)
(* route run in a transaction around the calls, of isolation READ          *)
(* COMMITTED: a request sees its own row and the committed ones of others. *)
(* Foreign keys are checked at commit.  A call may fail before or after it *)
(* took effect; the database rolls back then, Traccar does not.            *)
(*                                                                         *)
(* Zones stand for their ids in Traccar, which are never given twice.      *)
(* Refused requests change nothing and are left out, so are the circles,   *)
(* names and types of zones and the creation and deletion of vans.         *)
(***************************************************************************)
EXTENDS Naturals, Sequences, FiniteSets

CONSTANTS Van, Route,
          Device,       \* the trackers, by IMEI
          School, Gym,  \* the zones that fences of either type may get
          Handmade,     \* zones drawn in Traccar itself
          Operator,     \* operators, each with one request at a time
          MaxRequests,  \* bound on the requests made
          MaxFaults,    \* bound on failures and on exchanged trackers
          None

ASSUME FleetConstantsOK ==
  /\ School \cap Gym = {}
  /\ Handmade \cap (School \cup Gym) = {}
  /\ {MaxRequests, MaxFaults} \subseteq Nat
  /\ None \notin [van : Van, origin : School, destination : Gym]

VARIABLES routes,    \* the committed rows of fleet.Route
          fences,    \* the rows of fleet.GeoFence, by traccar_id
          device,    \* Van.tracker_imei
          zones,     \* the zones that exist in Traccar
          used,      \* the ids that Traccar has given
          linked,    \* Traccar's permissions: the zones linked to each device
          op,        \* the state of each operator's request
          revived,   \* the zones whose fence was deleted and then saved again
          unsynced,  \* the vans whose links may be off, and what made them so
          crossed,   \* the requests during which another one synced one of their vans
          requests,  \* how many there were so far
          faults

tables == <<routes, fences, device>>
traccar == <<zones, used, linked>>
ghosts == <<revived, unsynced, crossed>>  \* what no code keeps
bounds == <<requests, faults>>

vars == <<tables, traccar, op, ghosts, bounds>>

Zone == School \cup Gym \cup Handmade

\* Route.clean.
Row == [van : Van, origin : School, destination : Gym]

Kind == {"create", "update", "destroy"}

\* Why a van's links may differ from what its routes need: a request that is under way
\* or has failed, two at the same time, another tracker.
Cause == Kind \cup {"crossed", "imei"}

\* A van to sync, with the IMEI that was read with it.
Target == [van : Van, device : Device]

Stage == {"idle", "read", "sync", "list", "managed", "change", "posted", "patched",
          "dropped"}

Op == [stage : Stage, kind : Kind \cup {None}, route : Route \cup {None},
       row : Row \cup {None}, todo : Seq(Target), targets : SUBSET Target,
       wanted : SUBSET Zone, found : SUBSET Zone,
       link : SUBSET Zone, unlink : SUBSET Zone, zone : Zone \cup {None}]

Idle == [stage |-> "idle", kind |-> None, route |-> None, row |-> None, todo |-> <<>>,
         targets |-> {}, wanted |-> {}, found |-> {}, link |-> {}, unlink |-> {}, zone |-> None]

NewRequest == requests < MaxRequests /\ requests' = requests + 1
Fault == faults < MaxFaults /\ faults' = faults + 1

Goto(o, request) == op' = [op EXCEPT ![o] = request]

InSync(o) == op[o].stage \in {"sync", "list", "managed", "change"}
InTransaction(o) == InSync(o) /\ op[o].kind # "destroy"

\* The routes as a request sees them.
Sees(o) == [r \in Route |-> IF InTransaction(o) /\ op[o].route = r THEN op[o].row
                                                                     ELSE routes[r]]

ZonesOf(row) == {row.origin, row.destination}
WantedByVanId(rows, v) ==
  UNION {{rows[r].van, rows[r].destination} :
           r \in {q \in Route : rows[q] # None /\ rows[q].van = v}}
Wanted(rows, v) ==
  UNION {ZonesOf(rows[r]) : r \in {q \in Route : rows[q] # None /\ rows[q].van = v}}

\* The vans that a change of a route from row old to row new syncs, in this order.
TargetOf(v) == [van |-> v, device |-> device[v]]
TargetsNewOnly(old, new) == <<TargetOf(new.van)>>
Targets(old, new) ==
  IF new.van = old.van THEN <<TargetOf(new.van)>>
                       ELSE <<TargetOf(new.van), TargetOf(old.van)>>

\* The links to make and to remove.
ToLink(found, wanted) == wanted \ found
ToUnlinkAll(found, managed, wanted) == found \ wanted
ToUnlinkNothing(found, managed, wanted) == {}
ToUnlink(found, managed, wanted) == (found \cap managed) \ wanted

\* A fleet whose routes are all linked.
Init ==
  /\ fences \in SUBSET (School \cup Gym)
  /\ routes \in {rows \in [Route -> Row \cup {None}] :
                  \A r \in Route : rows[r] # None => ZonesOf(rows[r]) \subseteq fences}
  /\ device \in {d \in [Van -> Device] : \A v, w \in Van : d[v] = d[w] => v = w}
  /\ zones = Handmade \cup fences
  /\ used = zones
  /\ linked = [d \in Device |->
                 Handmade \cup UNION {Wanted(routes, v) : v \in {w \in Van : device[w] = d}}]
  /\ op = [o \in Operator |-> Idle]
  /\ revived = {}
  /\ unsynced = {}
  /\ crossed = {}
  /\ requests = 0
  /\ faults = 0

-----------------------------------------------------------------------------
\* RouteViewSet: the request up to its write of the row.

\* The vans whose needs a request changes: those it syncs, and the van that the row is
\* given to now, which need not be the one that the request read.
Touches(request) ==
  {v \in Van : \/ \E t \in request.targets : t.van = v
               \/ \E r \in Route : r = request.route /\ routes[r] # None /\ routes[r].van = v}

Trackers(request) == {t.device : t \in request.targets}

\* The vans that have got a tracker which the request syncs for another van.
Exposed(request) ==
  {v \in Van : device[v] \in Trackers(request) /\ TargetOf(v) \notin request.targets}

Cross(request, other) ==
  \/ Touches(request) \cap Touches(other) # {}
  \/ Trackers(request) \cap Trackers(other) # {}

Begin(o, request) ==
  LET others == {p \in Operator \ {o} : InSync(p) /\ Cross(op[p], request)} IN
  /\ Goto(o, request)
  /\ crossed' = IF others = {} THEN crossed \ {o} ELSE crossed \cup others \cup {o}
  /\ unsynced' = unsynced \cup (Touches(request) \X {request.kind})
       \cup (Exposed(request) \X {"imei"})
       \cup (Touches(request) \X {c \in {"crossed"} : others # {}})

\* perform_create: the row gets a new id.
Create(o, r, row) ==
  /\ op[o].stage = "idle"
  /\ NewRequest
  /\ routes[r] = None
  /\ \A p \in Operator : op[p].route # r
  /\ ZonesOf(row) \subseteq fences
  /\ Begin(o, [Idle EXCEPT !.stage = "sync", !.kind = "create", !.route = r, !.row = row,
                           !.todo = <<TargetOf(row.van)>>, !.targets = {TargetOf(row.van)}])
  /\ UNCHANGED <<tables, traccar, revived, faults>>

\* get_object and, for an update, the validated data: a copy with another row.
UpdateRead(o, r, row) ==
  /\ op[o].stage = "idle"
  /\ NewRequest
  /\ routes[r] # None
  /\ Goto(o, [Idle EXCEPT !.stage = "read", !.kind = "update", !.route = r, !.row = row,
                          !.todo = Targets(routes[r], row),
                          !.targets = {TargetOf(routes[r].van), TargetOf(row.van)}])
  /\ UNCHANGED <<tables, traccar, ghosts, faults>>

DestroyRead(o, r) ==
  /\ op[o].stage = "idle"
  /\ NewRequest
  /\ routes[r] # None
  /\ LET v == routes[r].van IN
       Goto(o, [Idle EXCEPT !.stage = "read", !.kind = "destroy", !.route = r,
                            !.todo = <<TargetOf(v)>>, !.targets = {TargetOf(v)}])
  /\ UNCHANGED <<tables, traccar, ghosts, faults>>

\* A row that another transaction has written is locked until that one ends.
Unlocked(o) ==
  \A p \in Operator \ {o} : ~(InTransaction(p) /\ op[p].route = op[o].route)

Save(o) ==
  /\ op[o].stage = "read" /\ op[o].kind = "update"
  /\ Unlocked(o)
  /\ ZonesOf(op[o].row) \subseteq fences
  /\ Begin(o, [op[o] EXCEPT !.stage = "sync"])
  /\ UNCHANGED <<tables, traccar, revived, bounds>>

\* full_clean misses a fence that was deleted after the validation.
SaveRefused(o) ==
  /\ op[o].stage = "read" /\ op[o].kind = "update"
  /\ ~(ZonesOf(op[o].row) \subseteq fences)
  /\ Goto(o, Idle)
  /\ UNCHANGED <<tables, traccar, ghosts, bounds>>

\* instance.delete(), which commits by itself.
Delete(o) ==
  /\ op[o].stage = "read" /\ op[o].kind = "destroy"
  /\ Unlocked(o)
  /\ routes' = [routes EXCEPT ![op[o].route] = None]
  /\ Begin(o, [op[o] EXCEPT !.stage = "sync"])
  /\ UNCHANGED <<fences, device, traccar, revived, bounds>>

-----------------------------------------------------------------------------
\* _sync_van_geofences, for the first of the vans to sync.

Current(o) == Head(op[o].todo)

\* get_device_id, and the query of the routes.
QueryRoutes(o) ==
  /\ op[o].stage = "sync"
  /\ Goto(o, [op[o] EXCEPT !.stage = "list", !.wanted = Wanted(Sees(o), Current(o).van)])
  /\ UNCHANGED <<tables, traccar, ghosts, bounds>>

\* list_device_geofence_ids.
ListLinks(o) ==
  /\ op[o].stage = "list"
  /\ Goto(o, [op[o] EXCEPT !.stage = "managed", !.found = linked[Current(o).device]])
  /\ UNCHANGED <<tables, traccar, ghosts, bounds>>

\* The query of the fences.
QueryFences(o) ==
  /\ op[o].stage = "managed"
  /\ Goto(o, [op[o] EXCEPT !.stage = "change", !.wanted = {}, !.found = {},
                !.link = ToLink(op[o].found, op[o].wanted),
                !.unlink = ToUnlink(op[o].found, fences, op[o].wanted)])
  /\ UNCHANGED <<tables, traccar, ghosts, bounds>>

\* POST of a permission; the 400 for a zone that is gone is taken for success.
PostLink(d, z) == linked' = [linked EXCEPT ![d] = @ \cup ({z} \cap zones)]
DeleteLink(d, z) == linked' = [linked EXCEPT ![d] = @ \ {z}]

Link(o, z) ==
  /\ op[o].stage = "change"
  /\ z \in op[o].link
  /\ PostLink(Current(o).device, z)
  /\ Goto(o, [op[o] EXCEPT !.link = @ \ {z}])
  /\ UNCHANGED <<tables, zones, used, ghosts, bounds>>

Unlink(o, z) ==
  /\ op[o].stage = "change"
  /\ op[o].link = {}
  /\ z \in op[o].unlink
  /\ DeleteLink(Current(o).device, z)
  /\ Goto(o, [op[o] EXCEPT !.unlink = @ \ {z}])
  /\ UNCHANGED <<tables, zones, used, ghosts, bounds>>

Changed(o) == op[o].stage = "change" /\ op[o].link = {} /\ op[o].unlink = {}

NextVan(o) ==
  /\ Changed(o)
  /\ Len(op[o].todo) > 1
  /\ Goto(o, [op[o] EXCEPT !.stage = "sync", !.todo = Tail(@)])
  /\ UNCHANGED <<tables, traccar, ghosts, bounds>>

\* The vans whose present trackers the request has synced.
Healed(o) == {v \in Van : TargetOf(v) \in op[o].targets}

\* Foreign keys hold of the row that the transaction wrote.
Committable(o) == InTransaction(o) => ZonesOf(op[o].row) \subseteq fences

\* The end of the request, with the commit of its transaction.
Finish(o) ==
  /\ Changed(o)
  /\ Len(op[o].todo) = 1
  /\ Committable(o)
  /\ routes' = Sees(o)
  /\ unsynced' = {m \in unsynced : o \in crossed \/ m[1] \notin Healed(o)}
  /\ Goto(o, Idle)
  /\ UNCHANGED <<fences, device, traccar, revived, crossed, bounds>>

\* What a failed request leaves in the table.
NotRolledBack(o) == Sees(o)
RolledBack(o) == routes

\* TraccarAPIError, or any other exception: the row's transaction is rolled back.
Fail(o) ==
  /\ InSync(o)
  /\ routes' = RolledBack(o)
  /\ Goto(o, Idle)
  /\ Fault
  /\ UNCHANGED <<fences, device, traccar, ghosts, requests>>

\* The same, when the call that failed did take effect.
AnswerLost(o) ==
  /\ op[o].stage = "change"
  /\ \/ \E z \in op[o].link : PostLink(Current(o).device, z)
     \/ op[o].link = {} /\ \E z \in op[o].unlink : DeleteLink(Current(o).device, z)
  /\ routes' = RolledBack(o)
  /\ Goto(o, Idle)
  /\ Fault
  /\ UNCHANGED <<fences, device, zones, used, ghosts, requests>>

\* IntegrityError: a fence of the row went while the transaction was open.
CommitRefused(o) ==
  /\ Changed(o)
  /\ Len(op[o].todo) = 1
  /\ ~Committable(o)
  /\ routes' = RolledBack(o)
  /\ Goto(o, Idle)
  /\ UNCHANGED <<fences, device, traccar, ghosts, bounds>>

-----------------------------------------------------------------------------
\* GeoFenceViewSet.

\* perform_create: the zone first ...
PostZone(o, z) ==
  /\ op[o].stage = "idle"
  /\ NewRequest
  /\ z \notin used
  /\ zones' = zones \cup {z}
  /\ used' = used \cup {z}
  /\ Goto(o, [Idle EXCEPT !.stage = "posted", !.zone = z])
  /\ UNCHANGED <<tables, linked, ghosts, faults>>

\* ... and then the row.
SaveFence(o) ==
  /\ op[o].stage = "posted"
  /\ fences' = fences \cup {op[o].zone}
  /\ Goto(o, Idle)
  /\ UNCHANGED <<routes, device, traccar, ghosts, bounds>>

\* perform_update reads the fence, may move its circle in Traccar, and saves the copy,
\* which inserts a row that is gone by then.
PatchFence(o, z) ==
  /\ op[o].stage = "idle"
  /\ NewRequest
  /\ z \in fences
  /\ Goto(o, [Idle EXCEPT !.stage = "patched", !.zone = z])
  /\ UNCHANGED <<tables, traccar, ghosts, faults>>

SavePatch(o) ==
  /\ op[o].stage = "patched"
  /\ fences' = fences \cup {op[o].zone}
  /\ revived' = revived \cup ({op[o].zone} \ fences)
  /\ Goto(o, Idle)
  /\ UNCHANGED <<routes, device, traccar, unsynced, crossed, bounds>>

\* perform_destroy: the row first, if no route uses it ...
DropRowForgotten(z) == UNCHANGED fences
DropRow(z) == fences' = fences \ {z}
DropFence(o, z) ==
  /\ op[o].stage = "idle"
  /\ NewRequest
  /\ z \in fences
  /\ \A r \in Route : routes[r] # None => z \notin ZonesOf(routes[r])
  /\ DropRow(z)
  /\ Goto(o, [Idle EXCEPT !.stage = "dropped", !.zone = z])
  /\ UNCHANGED <<routes, device, traccar, ghosts, faults>>

\* ... and then the zone, with its links, at best effort.
DeleteZone(o) ==
  /\ op[o].stage = "dropped"
  /\ zones' = zones \ {op[o].zone}
  /\ linked' = [d \in Device |-> linked[d] \ {op[o].zone}]
  /\ Goto(o, Idle)
  /\ UNCHANGED <<tables, used, ghosts, bounds>>

\* An exception after the first half of any of these: the second is left out.
FenceFails(o) ==
  /\ op[o].stage \in {"posted", "patched", "dropped"}
  /\ Goto(o, Idle)
  /\ Fault
  /\ UNCHANGED <<tables, traccar, ghosts, requests>>

\* VanViewSet.update with another tracker_imei: no sync follows.
ChangeImei(v, d) ==
  /\ \A w \in Van : device[w] # d
  /\ device' = [device EXCEPT ![v] = d]
  /\ unsynced' = unsynced \cup {<<v, "imei">>}
  /\ Fault
  /\ UNCHANGED <<routes, fences, traccar, op, revived, crossed, requests>>

-----------------------------------------------------------------------------
RouteRequest(o) ==
  \/ \E r \in Route, row \in Row : Create(o, r, row) \/ UpdateRead(o, r, row)
  \/ \E r \in Route : DestroyRead(o, r)
  \/ Save(o) \/ SaveRefused(o) \/ Delete(o)

Sync(o) ==
  \/ QueryRoutes(o) \/ ListLinks(o) \/ QueryFences(o)
  \/ \E z \in Zone : Link(o, z) \/ Unlink(o, z)
  \/ NextVan(o) \/ Finish(o) \/ CommitRefused(o) \/ Fail(o) \/ AnswerLost(o)

FenceRequest(o) ==
  \/ \E z \in School \cup Gym : PostZone(o, z) \/ PatchFence(o, z) \/ DropFence(o, z)
  \/ SaveFence(o) \/ SavePatch(o) \/ DeleteZone(o) \/ FenceFails(o)

Next ==
  \/ \E o \in Operator : RouteRequest(o) \/ Sync(o) \/ FenceRequest(o)
  \/ \E v \in Van, d \in Device : ChangeImei(v, d)

Spec == Init /\ [][Next]_vars

-----------------------------------------------------------------------------
TypeOK ==
  /\ routes \in [Route -> Row \cup {None}]
  /\ fences \subseteq School \cup Gym
  /\ device \in [Van -> Device]
  /\ zones \subseteq Zone
  /\ used \subseteq Zone
  /\ linked \in [Device -> SUBSET Zone]
  /\ op \in [Operator -> Op]
  /\ revived \subseteq Zone
  /\ unsynced \subseteq Van \X Cause
  /\ crossed \subseteq Operator
  /\ requests \in 0..MaxRequests
  /\ faults \in 0..MaxFaults

\* traccar_id of a fence is a zone that exists, and that a route can be linked to,
\* whatever calls fail: a fence is made after its zone and goes before it, and never
\* while a route still uses it.  The exception is a fence whose deletion an update of it
\* overlapped: its row comes back without the zone.
RowsHaveZones ==
  /\ fences \subseteq zones \cup revived
  /\ \A r \in Route : routes[r] # None => ZonesOf(routes[r]) \subseteq fences

\* fleet/views.py:26 "Only zones we manage (GeoFence rows) are ever unlinked": a link
\* that someone made in Traccar to a zone of their own outlives every sync.
HandmadeLinksStay ==
  [][\A d \in Device : linked[d] \cap Handmade \subseteq linked'[d]]_vars

\* fleet/views.py:21 "exactly the zones its routes use": once the last request that
\* changed a van's routes has got through, its tracker is linked to those zones and to
\* no other that we manage, whatever earlier requests left undone half-way.
LinksFollowRoutes ==
  \A v \in Van : (\A c \in Cause : <<v, c>> \notin unsynced) =>
    (linked[device[v]] \cap fences) \ revived = Wanted(routes, v) \ revived

\* fleet/views.py:60 on creating: "a route whose zones aren't linked to the van's
\* tracker would silently never fire arrival events".  Creations and deletions never
\* leave such a route, however they fail; updates that fail, and IMEI changes, may.
CreatedRoutesAreLinked ==
  \A v \in Van : {<<v, "update">>, <<v, "crossed">>, <<v, "imei">>} \cap unsynced = {} =>
    Wanted(routes, v) \ revived \subseteq linked[device[v]]

\* The same of all routes on which no request is at work: "Atomic so a Traccar failure
\* rolls the route back", which perform_update is as well.
RoutesAreLinked ==
  \A v \in Van : (\A o \in Operator : v \notin Touches(op[o])) =>
    Wanted(routes, v) \subseteq linked[device[v]]

\* fleet/views.py:25 "deleting one route must not unlink a zone another route still needs".
DeletionKeepsNeededZones ==
  [][\A o \in Operator, z \in Zone : Unlink(o, z) /\ op[o].kind = "destroy" =>
       z \notin Wanted(routes, Current(o).van)]_vars

\* The promise of VanLinks: how far a van's links can be trusted is what unsynced says.
NeedsOf == [v \in Van |-> Wanted(routes, v) \ revived]
LinksOf == [v \in Van |-> (linked[device[v]] \cap fences) \ revived]
TrustOf ==
  [v \in Van |->
     IF \A c \in Cause : <<v, c>> \notin unsynced THEN "exact"
     ELSE IF \A c \in {"update", "crossed", "imei"} : <<v, c>> \notin unsynced THEN "covers"
     ELSE "none"]
Promise == INSTANCE VanLinks WITH needs <- NeedsOf, links <- LinksOf, trust <- TrustOf

\* No step of any request, however requests overlap and fail, changes the needs or the
\* links of a van that it has not cast doubt on before, and only a sync that gets through
\* takes doubt away, with the links it leaves right.
ImplementsVanLinks == Promise!Spec
=============================================================================
