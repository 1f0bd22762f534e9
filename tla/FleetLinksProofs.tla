-------------------------- MODULE FleetLinksProofs --------------------------
(***************************************************************************)
(* That the links of a tracker are right whenever nothing casts doubt on   *)
(* them, for every fleet, any number of operators and every value of the   *)
(* bounds: FleetSync's LinksFollowRoutes and CreatedRoutesAreLinked, and   *)
(* that FleetSync implements VanLinks.                                     *)
(*                                                                         *)
(* A sync reads the routes, the links and the fences in three queries and  *)
(* then changes one link at a time.  What it has read stays true as long   *)
(* as no other request crosses it.  So the invariant says                  *)
(*   - that requests which share a van or a tracker are known to cross     *)
(*     (Kept), and that unsynced marks their vans in time (Marks);         *)
(*   - of each request under way what it has read and what remains for it  *)
(*     to do (Working, Exact);                                             *)
(*   - and of each van without marks that its links are right (Links).     *)
(* Links are compared on live zones, whose fence was never deleted.  A     *)
(* zone becomes live by SaveFence when no link or request can know of it   *)
(* (Fresh).                                                                *)
(***************************************************************************)
EXTENDS FleetSyncProofs

-----------------------------------------------------------------------------
\* What a request is made of.

Vans(o) == {t.van : t \in op[o].targets}

\* The van that the row of an open transaction had, whose links the commit changes the needs of.
OldVan(o) == {v \in Van : InTransaction(o) /\ routes[op[o].route] # None /\ routes[op[o].route].van = v}

\* The vans of a request differ, and so do their trackers.  It syncs one van or two; the
\* van to which its row belongs is one of them.
Shape(q) == q.stage \in RouteStage =>
  /\ q.kind \in Kind /\ q.route \in Route
  /\ Len(q.todo) \in {1, 2} /\ Head(q.todo) \in q.targets
  /\ Len(q.todo) = 2 => q.targets = {Head(q.todo), q.todo[2]}
  /\ q.stage = "read" /\ Len(q.todo) = 1 => q.targets = {Head(q.todo)}
  /\ \A t, u \in q.targets : t # u => t.van # u.van /\ t.device # u.device
  /\ q.kind # "destroy" => q.row \in Row /\ \E t \in q.targets : t.van = q.row.van
  /\ q.kind = "create" => Len(q.todo) = 1 /\ q.targets = {Head(q.todo)}

Shaped == \A o \in Operator : Shape(op[o])

OneTracker == \A v, w \in Van : device[v] = device[w] => v = w

-----------------------------------------------------------------------------
\* The steps, by what they do to the request.

Frame(o) == \A p \in Operator : p # o => op'[p] = op[p]

\* It goes on with the same vans and the same row.
Carries(o) ==
  /\ op'[o].kind = op[o].kind /\ op'[o].route = op[o].route
  /\ op'[o].row = op[o].row /\ op'[o].targets = op[o].targets

LEMMA Moves ==
  ASSUME TypeInv, NEW o \in Operator, NEW q, Goto(o, q)
  PROVE  Frame(o) /\ op'[o] = q
BY DEF Goto, Frame, TypeInv, TypeOK

Needs(o) == Wanted(Sees(o), Current(o).van)

LEMMA QueriedRoutes ==
  ASSUME TypeInv, NEW o \in Operator, QueryRoutes(o)
  PROVE  /\ Frame(o) /\ Carries(o) /\ op[o].stage = "sync" /\ op'[o].stage = "list"
         /\ op'[o].todo = op[o].todo /\ op'[o].wanted = Needs(o)
         /\ op'[o].found = op[o].found /\ op'[o].link = op[o].link
         /\ UNCHANGED <<tables, traccar, ghosts>>
<1>1. op[o] \in Op
  BY DEF TypeInv, TypeOK
<1>2. PICK q : Goto(o, q) /\ q = [op[o] EXCEPT !.stage = "list", !.wanted = Needs(o)]
  BY DEF QueryRoutes, Needs
<1>3. Frame(o) /\ op'[o] = q
  BY <1>2, Moves
<1> QED
  BY <1>1, <1>2, <1>3 DEF QueryRoutes, Op, Carries

LEMMA ListedLinks ==
  ASSUME TypeInv, NEW o \in Operator, ListLinks(o)
  PROVE  /\ Frame(o) /\ Carries(o) /\ op[o].stage = "list" /\ op'[o].stage = "managed"
         /\ op'[o].todo = op[o].todo /\ op'[o].found = linked[Current(o).device]
         /\ op'[o].wanted = op[o].wanted /\ op'[o].link = op[o].link
         /\ UNCHANGED <<tables, traccar, ghosts>>
<1>1. op[o] \in Op
  BY DEF TypeInv, TypeOK
<1>2. PICK q : Goto(o, q) /\ q = [op[o] EXCEPT !.stage = "managed", !.found = linked[Current(o).device]]
  BY DEF ListLinks
<1>3. Frame(o) /\ op'[o] = q
  BY <1>2, Moves
<1> QED
  BY <1>1, <1>2, <1>3 DEF ListLinks, Op, Carries

LEMMA QueriedFences ==
  ASSUME TypeInv, NEW o \in Operator, QueryFences(o)
  PROVE  /\ Frame(o) /\ Carries(o) /\ op[o].stage = "managed" /\ op'[o].stage = "change"
         /\ op'[o].todo = op[o].todo /\ op'[o].wanted = {} /\ op'[o].found = {}
         /\ op'[o].link = op[o].wanted \ op[o].found
         /\ op'[o].unlink = (op[o].found \cap fences) \ op[o].wanted
         /\ UNCHANGED <<tables, traccar, ghosts>>
<1>1. op[o] \in Op
  BY DEF TypeInv, TypeOK
<1> DEFINE l == ToLink(op[o].found, op[o].wanted)
           u == ToUnlink(op[o].found, fences, op[o].wanted)
<1>2. PICK q : /\ Goto(o, q)
               /\ q = [op[o] EXCEPT !.stage = "change", !.wanted = {}, !.found = {}, !.link = l, !.unlink = u]
  BY DEF QueryFences
<1>3. Frame(o) /\ op'[o] = q
  BY <1>2, Moves
<1>4. l = op[o].wanted \ op[o].found /\ u = (op[o].found \cap fences) \ op[o].wanted
  BY DEF ToLink, ToUnlink
<1> HIDE DEF l, u
<1>5. /\ q.stage = "change" /\ q.wanted = {} /\ q.found = {} /\ q.link = l /\ q.unlink = u
      /\ q.todo = op[o].todo /\ q.kind = op[o].kind /\ q.route = op[o].route
      /\ q.row = op[o].row /\ q.targets = op[o].targets
  BY <1>1, <1>2 DEF Op
<1> QED
  BY <1>3, <1>4, <1>5 DEF QueryFences, Carries

LEMMA Linked ==
  ASSUME TypeInv, NEW o \in Operator, NEW z \in Zone, Link(o, z)
  PROVE  /\ Frame(o) /\ Carries(o) /\ op[o].stage = "change" /\ op'[o].stage = "change"
         /\ op'[o].todo = op[o].todo /\ z \in op[o].link
         /\ op'[o].wanted = op[o].wanted /\ op'[o].found = op[o].found
         /\ op'[o].link = op[o].link \ {z} /\ op'[o].unlink = op[o].unlink
         /\ UNCHANGED <<tables, zones, used, ghosts>> /\ PostLink(Current(o).device, z)
<1>1. op[o] \in Op
  BY DEF TypeInv, TypeOK
<1>2. PICK q : Goto(o, q) /\ q = [op[o] EXCEPT !.link = @ \ {z}]
  BY DEF Link
<1>3. Frame(o) /\ op'[o] = q
  BY <1>2, Moves
<1> QED
  BY <1>1, <1>2, <1>3 DEF Link, Op, Carries

LEMMA Unlinked ==
  ASSUME TypeInv, NEW o \in Operator, NEW z \in Zone, Unlink(o, z)
  PROVE  /\ Frame(o) /\ Carries(o) /\ op[o].stage = "change" /\ op'[o].stage = "change"
         /\ op'[o].todo = op[o].todo /\ z \in op[o].unlink
         /\ op'[o].wanted = op[o].wanted /\ op'[o].found = op[o].found
         /\ op'[o].link = op[o].link /\ op'[o].unlink = op[o].unlink \ {z}
         /\ UNCHANGED <<tables, zones, used, ghosts>> /\ DeleteLink(Current(o).device, z)
<1>1. op[o] \in Op
  BY DEF TypeInv, TypeOK
<1>2. PICK q : Goto(o, q) /\ q = [op[o] EXCEPT !.unlink = @ \ {z}]
  BY DEF Unlink
<1>3. Frame(o) /\ op'[o] = q
  BY <1>2, Moves
<1> QED
  BY <1>1, <1>2, <1>3 DEF Unlink, Op, Carries

LEMMA NextVanTaken ==
  ASSUME TypeInv, Shaped, NEW o \in Operator, NextVan(o)
  PROVE  /\ Frame(o) /\ Carries(o) /\ Changed(o) /\ op'[o].stage = "sync"
         /\ Len(op[o].todo) = 2 /\ op'[o].todo = Tail(op[o].todo)
         /\ Len(op'[o].todo) = 1 /\ Head(op'[o].todo) = op[o].todo[2]
         /\ op[o].targets = {Head(op[o].todo), op[o].todo[2]}
         /\ op'[o].wanted = op[o].wanted /\ op'[o].found = op[o].found /\ op'[o].link = op[o].link
         /\ UNCHANGED <<tables, traccar, ghosts>>
<1>1. op[o] \in Op /\ op[o].todo \in Seq(Target)
  BY DEF TypeInv, TypeOK, Op
<1>2. PICK q : Goto(o, q) /\ q = [op[o] EXCEPT !.stage = "sync", !.todo = Tail(@)]
  BY DEF NextVan
<1>3. Frame(o) /\ op'[o] = q
  BY <1>2, Moves
<1>4. op[o].stage \in RouteStage /\ Len(op[o].todo) > 1
  BY DEF NextVan, Changed, RouteStage
<1>5. Len(op[o].todo) = 2 /\ op[o].targets = {Head(op[o].todo), op[o].todo[2]}
  <2>1. /\ Len(op[o].todo) \in {1, 2}
        /\ Len(op[o].todo) = 2 => op[o].targets = {Head(op[o].todo), op[o].todo[2]}
    BY <1>4 DEF Shaped, Shape
  <2> QED
    BY <1>1, <1>4, <2>1
<1>6. /\ q.stage = "sync" /\ q.todo = Tail(op[o].todo) /\ q.kind = op[o].kind /\ q.route = op[o].route
      /\ q.row = op[o].row /\ q.targets = op[o].targets
      /\ q.wanted = op[o].wanted /\ q.found = op[o].found /\ q.link = op[o].link
  BY <1>1, <1>2 DEF Op
<1>7. Len(Tail(op[o].todo)) = 1 /\ Head(Tail(op[o].todo)) = op[o].todo[2]
  BY <1>1, <1>5
<1> QED
  BY <1>3, <1>5, <1>6, <1>7 DEF NextVan, Carries

\* The ends of a request.
Ended(o) == Frame(o) /\ op'[o] = Idle

LEMMA Ends ==
  ASSUME TypeInv, NEW o \in Operator, Goto(o, Idle)
  PROVE  /\ Ended(o) /\ ~InSync(o)' /\ op'[o].stage = "idle"
         /\ op'[o].wanted = {} /\ op'[o].found = {} /\ op'[o].link = {}
BY Moves DEF Ended, Idle, InSync

-----------------------------------------------------------------------------
\* The shape of requests.

LEMMA ShapeKept ==
  ASSUME TypeInv, Shaped, NEW o \in Operator, op[o].stage \in RouteStage, Frame(o), Carries(o),
         op'[o].stage \in RouteStage \ {"read"}, op'[o].todo = op[o].todo
  PROVE  Shaped'
BY DEF Shaped, Shape, Frame, Carries

LEMMA IdleShape ==
  ASSUME Shaped, NEW o \in Operator, Frame(o), op'[o].stage \notin RouteStage
  PROVE  Shaped'
BY DEF Shaped, Shape, Frame

LEMMA ShapeOfRouteRequest ==
  ASSUME TypeInv, OneTracker, Shaped, NEW o \in Operator, RouteRequest(o)
  PROVE  Shaped'
<1>1. ASSUME NEW q, Goto(o, q), Shape(q) PROVE Shaped'
  BY <1>1, Moves DEF Shaped, Frame
<1>2. ASSUME NEW r \in Route, NEW row \in Row, Create(o, r, row) PROVE Shaped'
  <2>1. PICK q : /\ Goto(o, q)
                 /\ q = [Idle EXCEPT !.stage = "sync", !.kind = "create", !.route = r, !.row = row,
                           !.todo = <<TargetOf(row.van)>>, !.targets = {TargetOf(row.van)}]
    BY <1>2 DEF Create, Begin
  <2>2. /\ q.stage = "sync" /\ q.kind = "create" /\ q.route = r /\ q.row = row
        /\ q.todo = <<TargetOf(row.van)>> /\ q.targets = {TargetOf(row.van)}
    BY <2>1 DEF Idle
  <2>3. TargetOf(row.van).van = row.van
    BY DEF TargetOf
  <2>4. Shape(q)
    BY <2>2, <2>3 DEF Shape, Kind
  <2> QED
    BY <1>1, <2>1, <2>4
<1>3. ASSUME NEW r \in Route, NEW row \in Row, UpdateRead(o, r, row) PROVE Shaped'
  <2> DEFINE new == TargetOf(row.van)
             old == TargetOf(routes[r].van)
  <2>1. PICK q : /\ Goto(o, q)
                 /\ q = [Idle EXCEPT !.stage = "read", !.kind = "update", !.route = r, !.row = row,
                          !.todo = Targets(routes[r], row), !.targets = {old, new}]
    BY <1>3 DEF UpdateRead
  <2>2. /\ q.stage = "read" /\ q.kind = "update" /\ q.route = r /\ q.row = row
        /\ q.todo = Targets(routes[r], row) /\ q.targets = {old, new}
    BY <2>1 DEF Idle
  <2>3. row.van \in Van /\ routes[r].van \in Van
    BY <1>3 DEF UpdateRead, TypeInv, TypeOK, Row
  <2>4. /\ new.van = row.van /\ old.van = routes[r].van
        /\ new.device = device[row.van] /\ old.device = device[routes[r].van]
    BY DEF TargetOf
  <2>5. row.van = routes[r].van => q.todo = <<new>> /\ old = new
    BY <2>2 DEF Targets
  <2>6. row.van # routes[r].van => q.todo = <<new, old>> /\ old.device # new.device
    BY <2>2, <2>3, <2>4 DEF Targets, OneTracker
  <2> HIDE DEF new, old
  <2>7. CASE row.van = routes[r].van
    <3>1. Len(q.todo) = 1 /\ Head(q.todo) = new /\ q.targets = {new}
      BY <2>2, <2>5, <2>7
    <3>2. Shape(q)
      BY <2>2, <2>4, <3>1 DEF Shape, Kind
    <3> QED
      BY <1>1, <2>1, <3>2
  <2>8. CASE row.van # routes[r].van
    <3>1. Len(q.todo) = 2 /\ Head(q.todo) = new /\ q.todo[2] = old
      BY <2>6, <2>8
    <3>2. Shape(q)
      BY <2>2, <2>4, <2>6, <2>8, <3>1 DEF Shape, Kind
    <3> QED
      BY <1>1, <2>1, <3>2
  <2> QED
    BY <2>7, <2>8
<1>4. ASSUME NEW r \in Route, DestroyRead(o, r) PROVE Shaped'
  <2>1. PICK q : /\ Goto(o, q)
                 /\ q = [Idle EXCEPT !.stage = "read", !.kind = "destroy", !.route = r,
                           !.todo = <<TargetOf(routes[r].van)>>, !.targets = {TargetOf(routes[r].van)}]
    BY <1>4 DEF DestroyRead
  <2>2. /\ q.stage = "read" /\ q.kind = "destroy" /\ q.route = r
        /\ q.todo = <<TargetOf(routes[r].van)>> /\ q.targets = {TargetOf(routes[r].van)}
    BY <2>1 DEF Idle
  <2>3. Shape(q)
    BY <2>2 DEF Shape, Kind
  <2> QED
    BY <1>1, <2>1, <2>3
<1>5. CASE Save(o) \/ Delete(o)
  <2>1. PICK q : Goto(o, q) /\ q = [op[o] EXCEPT !.stage = "sync"]
    BY <1>5 DEF Save, Delete, Begin
  <2>2. op[o] \in Op /\ op[o].stage = "read"
    BY <1>5 DEF Save, Delete, TypeInv, TypeOK
  <2>3. op'[o].stage = "sync" /\ op'[o].todo = op[o].todo /\ Carries(o) /\ Frame(o)
    BY <2>1, <2>2, Moves DEF Op, Carries
  <2> QED
    BY <2>2, <2>3, ShapeKept DEF RouteStage
<1>6. CASE SaveRefused(o)
  BY <1>6, Ends, IdleShape DEF SaveRefused, Ended, RouteStage
<1> QED
  BY <1>2, <1>3, <1>4, <1>5, <1>6 DEF RouteRequest

LEMMA ShapeOfSync ==
  ASSUME TypeInv, Shaped, NEW o \in Operator, Sync(o)
  PROVE  Shaped'
<1>1. CASE QueryRoutes(o) \/ ListLinks(o) \/ QueryFences(o) \/ \E z \in Zone : Link(o, z) \/ Unlink(o, z)
  BY <1>1, QueriedRoutes, ListedLinks, QueriedFences, Linked, Unlinked, ShapeKept DEF RouteStage
<1>2. CASE NextVan(o)
  <2>1. op[o].stage = "change"
    BY <1>2 DEF NextVan, Changed
  <2>2. /\ op[o].stage \in RouteStage /\ op'[o].stage = "sync" /\ Carries(o)
        /\ Len(op[o].todo) = 2 /\ Len(op'[o].todo) = 1 /\ Head(op'[o].todo) \in op[o].targets
        /\ op[o].targets = {Head(op[o].todo), op[o].todo[2]}
    BY <1>2, <2>1, NextVanTaken DEF RouteStage
  <2>3. Shape(op[o])
    BY DEF Shaped
  <2>4. op[o].kind # "create"
    BY <2>2, <2>3 DEF Shape
  <2>5. Shape(op'[o])
    BY <2>2, <2>3, <2>4 DEF Shape, Carries
  <2> QED
    BY <1>2, <2>5, NextVanTaken DEF Shaped, Frame
<1>3. CASE Finish(o) \/ CommitRefused(o) \/ Fail(o) \/ AnswerLost(o)
  BY <1>3, Ends, IdleShape DEF Finish, CommitRefused, Fail, AnswerLost, Ended, RouteStage
<1> QED
  BY <1>1, <1>2, <1>3 DEF Sync

LEMMA ShapeStep ==
  ASSUME TypeInv, OneTracker, Shaped, [Next]_vars
  PROVE  OneTracker' /\ Shaped'
<1>1. ASSUME NEW o \in Operator, FenceRequest(o) PROVE Shaped'
  <2>1. CASE SaveFence(o) \/ SavePatch(o) \/ DeleteZone(o) \/ FenceFails(o)
    BY <2>1, Ends, IdleShape DEF SaveFence, SavePatch, DeleteZone, FenceFails, Ended, RouteStage
  <2>2. ASSUME NEW z, PostZone(o, z) \/ PatchFence(o, z) \/ DropFence(o, z) PROVE Shaped'
    <3>1. PICK s \in FenceStage : Goto(o, [Idle EXCEPT !.stage = s, !.zone = z])
      BY <2>2 DEF PostZone, PatchFence, DropFence, FenceStage
    <3>2. Frame(o) /\ op'[o] = [Idle EXCEPT !.stage = s, !.zone = z]
      BY <3>1, Moves
    <3>3. op'[o].stage = s
      BY <3>2 DEF Idle
    <3> QED
      BY <3>2, <3>3, IdleShape DEF FenceStage, RouteStage
  <2> QED
    BY <1>1, <2>1, <2>2 DEF FenceRequest
<1>2. ASSUME NEW v \in Van, NEW d \in Device, ChangeImei(v, d) PROVE OneTracker' /\ Shaped'
  <2>1. op' = op
    BY <1>2 DEF ChangeImei
  <2>2. \A w \in Van : device'[w] = IF w = v THEN d ELSE device[w]
    BY <1>2 DEF ChangeImei, TypeInv, TypeOK
  <2>3. \A w \in Van : device[w] # d
    BY <1>2 DEF ChangeImei
  <2> QED
    BY <2>1, <2>2, <2>3 DEF OneTracker, Shaped
<1>3. CASE UNCHANGED vars
  BY <1>3 DEF vars, tables, OneTracker, Shaped
<1>4. ASSUME NEW o \in Operator, RouteRequest(o) \/ Sync(o) \/ FenceRequest(o) PROVE device' = device
  BY <1>4 DEF RouteRequest, Create, UpdateRead, DestroyRead, Save, SaveRefused, Delete,
     Sync, QueryRoutes, ListLinks, QueryFences, Link, Unlink, NextVan, Finish,
     CommitRefused, Fail, AnswerLost, FenceRequest, PostZone, PatchFence, DropFence,
     SaveFence, SavePatch, DeleteZone, FenceFails, tables
<1>5. device' = device => OneTracker'
  BY DEF OneTracker
<1> QED
  BY <1>1, <1>2, <1>3, <1>4, <1>5, ShapeOfRouteRequest, ShapeOfSync DEF Next

-----------------------------------------------------------------------------
\* Most steps leave the rows, the trackers and the ghosts alone, and go on with a sync or
\* end up in none.
Continues(o) == InSync(o) /\ InSync(o)' /\ Carries(o)
Leaves(o) == ~InSync(o)' /\ op'[o].wanted = {} /\ op'[o].found = {} /\ op'[o].link = {}

Rests(o) == Frame(o) /\ Leaves(o) /\ UNCHANGED <<routes, device, unsynced, crossed>>

LEMMA SyncContinues ==
  ASSUME TypeInv, Shaped, NEW o \in Operator,
         QueryRoutes(o) \/ ListLinks(o) \/ QueryFences(o) \/ NextVan(o)
           \/ \E z \in Zone : Link(o, z) \/ Unlink(o, z)
  PROVE  /\ Frame(o) /\ Continues(o)
         /\ UNCHANGED <<routes, fences, device, used, revived, unsynced, crossed>>
<1>1. CASE QueryRoutes(o) \/ ListLinks(o) \/ QueryFences(o)
  BY <1>1, QueriedRoutes, ListedLinks, QueriedFences DEF Continues, InSync, tables, traccar, ghosts
<1>2. CASE NextVan(o)
  BY <1>2, NextVanTaken DEF Continues, Changed, InSync, tables, traccar, ghosts
<1>3. CASE \E z \in Zone : Link(o, z) \/ Unlink(o, z)
  BY <1>3, Linked, Unlinked DEF Continues, InSync, tables, ghosts
<1> QED
  BY <1>1, <1>2, <1>3

LEMMA RequestRests ==
  ASSUME TypeInv, NEW o \in Operator,
         \/ \E r \in Route : DestroyRead(o, r) \/ \E row \in Row : UpdateRead(o, r, row)
         \/ SaveRefused(o) \/ CommitRefused(o) \/ Fail(o) \/ AnswerLost(o)
         \/ FenceRequest(o)
  PROVE  Rests(o)
<1>1. ASSUME Goto(o, Idle) PROVE Frame(o) /\ Leaves(o)
  BY <1>1, Ends DEF Ended, Leaves
<1>2. ASSUME NEW q, Goto(o, q), q.stage \in {"read", "posted", "patched", "dropped"},
             q.wanted = {}, q.found = {}, q.link = {}
      PROVE  Frame(o) /\ Leaves(o)
  BY <1>2, Moves DEF Leaves, InSync
<1>3. ASSUME NEW r \in Route, DestroyRead(o, r) PROVE Rests(o)
  <2>1. Frame(o) /\ Leaves(o)
    BY <1>2, <1>3 DEF DestroyRead, Idle
  <2> QED
    BY <1>3, <2>1 DEF DestroyRead, Rests, tables, ghosts
<1>4. ASSUME NEW r \in Route, NEW row \in Row, UpdateRead(o, r, row) PROVE Rests(o)
  <2>1. Frame(o) /\ Leaves(o)
    BY <1>2, <1>4 DEF UpdateRead, Idle
  <2> QED
    BY <1>4, <2>1 DEF UpdateRead, Rests, tables, ghosts
<1>5. CASE SaveRefused(o) \/ CommitRefused(o) \/ Fail(o) \/ AnswerLost(o)
  BY <1>1, <1>5 DEF SaveRefused, CommitRefused, Fail, AnswerLost, RolledBack, Rests, tables, ghosts
<1>6. CASE FenceRequest(o)
  <2>1. CASE SaveFence(o) \/ SavePatch(o) \/ DeleteZone(o) \/ FenceFails(o)
    BY <1>1, <2>1 DEF SaveFence, SavePatch, DeleteZone, FenceFails, Rests, tables, ghosts
  <2>2. ASSUME NEW z, PostZone(o, z) \/ PatchFence(o, z) \/ DropFence(o, z) PROVE Rests(o)
    <3>1. PICK s \in FenceStage : Goto(o, [Idle EXCEPT !.stage = s, !.zone = z])
      BY <2>2 DEF PostZone, PatchFence, DropFence, FenceStage
    <3>2. Frame(o) /\ Leaves(o)
      BY <1>2, <3>1 DEF Idle, FenceStage
    <3> QED
      BY <2>2, <3>2 DEF PostZone, PatchFence, DropFence, Rests, tables, ghosts
  <2> QED
    BY <1>6, <2>1, <2>2 DEF FenceRequest
<1> QED
  BY <1>3, <1>4, <1>5, <1>6

LEMMA Finished ==
  ASSUME TypeInv, NEW o \in Operator, Finish(o)
  PROVE  /\ Frame(o) /\ Leaves(o) /\ InSync(o) /\ routes' = Sees(o)
         /\ UNCHANGED <<fences, device, traccar, revived, crossed>>
BY Ends DEF Finish, Changed, InSync, Ended, Leaves

\* A request that starts to sync, with what Begin is given.
LEMMA Started ==
  ASSUME TypeInv, Shaped, NEW o \in Operator,
         Save(o) \/ Delete(o) \/ \E r \in Route, row \in Row : Create(o, r, row)
  PROVE  /\ \E q : Begin(o, q) /\ op'[o] = q
         /\ Frame(o) /\ ~InSync(o) /\ InSync(o)' /\ op'[o].stage = "sync" /\ op'[o].route \in Route
         /\ Len(op'[o].todo) = 1 => op'[o].targets = {Head(op'[o].todo)}
         /\ op'[o].wanted \subseteq op[o].wanted /\ op'[o].found \subseteq op[o].found
         /\ op'[o].link \subseteq op[o].link
         /\ UNCHANGED <<fences, device, traccar, revived>>
         /\ IF op'[o].kind = "destroy"
            THEN routes' = [routes EXCEPT ![op'[o].route] = None]
            ELSE routes' = routes /\ ZonesOf(op'[o].row) \subseteq fences
         /\ op'[o].kind = "create" =>
              /\ routes[op'[o].route] = None
              /\ \A t \in op'[o].targets : t = TargetOf(t.van)
         /\ \A p \in Operator \ {o} : ~(InTransaction(p) /\ op[p].route = op'[o].route)
<1>0. op[o] \in Op
  BY DEF TypeInv, TypeOK
<1>1. ASSUME NEW r \in Route, NEW row \in Row, Create(o, r, row)
      PROVE  /\ \E q : Begin(o, q) /\ op'[o] = q
             /\ Frame(o) /\ op'[o].stage = "sync" /\ op'[o].todo = <<TargetOf(row.van)>>
             /\ op'[o].targets = {TargetOf(row.van)}
             /\ op'[o].wanted = {} /\ op'[o].found = {} /\ op'[o].link = {}
             /\ op'[o].kind = "create" /\ op'[o].route = r /\ op'[o].row = row
             /\ op[o].stage = "idle"
  <2>1. PICK q : /\ Begin(o, q)
                 /\ q = [Idle EXCEPT !.stage = "sync", !.kind = "create", !.route = r, !.row = row,
                           !.todo = <<TargetOf(row.van)>>, !.targets = {TargetOf(row.van)}]
    BY <1>1 DEF Create
  <2>2. Frame(o) /\ op'[o] = q
    BY <2>1, Moves DEF Begin
  <2>3. /\ q.stage = "sync" /\ q.todo = <<TargetOf(row.van)>> /\ q.targets = {TargetOf(row.van)}
        /\ q.wanted = {} /\ q.found = {} /\ q.link = {} /\ q.kind = "create" /\ q.route = r /\ q.row = row
    BY <2>1 DEF Idle
  <2> QED
    BY <1>1, <2>1, <2>2, <2>3 DEF Create
<1>2. ASSUME NEW r \in Route, NEW row \in Row, Create(o, r, row)
      PROVE  /\ Head(op'[o].todo) = TargetOf(row.van) /\ TargetOf(row.van) = TargetOf(TargetOf(row.van).van)
             /\ ~InSync(o) /\ InSync(o)'
             /\ UNCHANGED <<fences, device, traccar, revived, routes>>
             /\ ZonesOf(row) \subseteq fences /\ routes[r] = None
             /\ \A p \in Operator : op[p].route # r
  <2>1. Head(op'[o].todo) = TargetOf(row.van) /\ TargetOf(row.van) = TargetOf(TargetOf(row.van).van)
    BY <1>1, <1>2 DEF TargetOf
  <2>2. ~InSync(o) /\ InSync(o)'
    BY <1>1, <1>2 DEF InSync
  <2> QED
    BY <1>2, <2>1, <2>2 DEF Create, tables
<1>3. CASE \E r \in Route, row \in Row : Create(o, r, row)
  <2>1. PICK r \in Route, row \in Row : Create(o, r, row)
    BY <1>3
  <2> QED
    BY <1>1, <1>2, <2>1
<1>4. CASE Save(o) \/ Delete(o)
  <2>1. PICK q : Begin(o, q) /\ q = [op[o] EXCEPT !.stage = "sync"]
    BY <1>4 DEF Save, Delete
  <2>2. Frame(o) /\ op'[o] = q
    BY <2>1, Moves DEF Begin
  <2>3. /\ q.stage = "sync" /\ q.todo = op[o].todo /\ q.targets = op[o].targets /\ q.wanted = op[o].wanted
        /\ q.found = op[o].found /\ q.link = op[o].link /\ q.kind = op[o].kind /\ q.route = op[o].route
        /\ q.row = op[o].row
    BY <1>0, <2>1 DEF Op
  <2>4. op[o].stage = "read" /\ Unlocked(o) /\ op[o].kind = IF Save(o) THEN "update" ELSE "destroy"
    BY <1>4 DEF Save, Delete
  <2>5. op[o].route \in Route /\ (Len(op[o].todo) = 1 => op[o].targets = {Head(op[o].todo)})
    BY <2>4 DEF Shaped, Shape, RouteStage
  <2>6. ~InSync(o) /\ InSync(o)'
    BY <2>2, <2>3, <2>4 DEF InSync
  <2>7. \A p \in Operator \ {o} : ~(InTransaction(p) /\ op[p].route = op'[o].route)
    BY <2>2, <2>3, <2>4 DEF Unlocked
  <2>8. /\ UNCHANGED <<fences, device, traccar, revived>>
        /\ IF op'[o].kind = "destroy"
           THEN routes' = [routes EXCEPT ![op'[o].route] = None]
           ELSE routes' = routes /\ ZonesOf(op'[o].row) \subseteq fences
    <3>1. CASE Save(o)
      <4>1. op'[o].kind = "update" /\ op'[o].row = op[o].row
        BY <2>2, <2>3, <2>4, <3>1
      <4> QED
        BY <3>1, <4>1 DEF Save, tables
    <3>2. CASE Delete(o)
      <4>1. op'[o].kind = "destroy" /\ op'[o].route = op[o].route
        BY <2>2, <2>3, <3>2 DEF Delete
      <4> QED
        BY <3>2, <4>1 DEF Delete
    <3> QED
      BY <1>4, <3>1, <3>2
  <2>9. op'[o].kind # "create"
    BY <2>2, <2>3, <2>4
  <2> QED
    BY <2>1, <2>2, <2>3, <2>5, <2>6, <2>7, <2>8, <2>9
<1> QED
  BY <1>3, <1>4

-----------------------------------------------------------------------------
\* Rows.  A row that a transaction has written is its own until it ends.

Locked ==
  /\ \A o \in Operator : InTransaction(o) /\ op[o].kind = "create" => routes[op[o].route] = None
  /\ \A o, p \in Operator : o # p /\ InTransaction(o) /\ InTransaction(p) => op[o].route # op[p].route

LEMMA LockedStep ==
  ASSUME TypeInv, Shaped, Locked, [Next]_vars
  PROVE  Locked'
<1>0. routes \in [Route -> Row \cup {None}] /\ \A o \in Operator : InSync(o) => op[o].route \in Route
  BY DEF TypeInv, TypeOK, Shaped, Shape, InSync, RouteStage
<1>1. ASSUME NEW o \in Operator, Frame(o), Continues(o) \/ Leaves(o), routes' = routes PROVE Locked'
  <2>1. \A p \in Operator : InTransaction(p)' =>
           InTransaction(p) /\ op'[p].route = op[p].route /\ op'[p].kind = op[p].kind
    BY <1>1 DEF Frame, Continues, Leaves, Carries, InTransaction, InSync
  <2> QED
    BY <1>1, <2>1 DEF Locked
<1>2. ASSUME NEW o \in Operator, Finish(o) PROVE Locked'
  <2>1. \A p \in Operator : InTransaction(p)' => p # o /\ InTransaction(p) /\ op'[p] = op[p]
    BY <1>2, Finished DEF Frame, Leaves, InTransaction, InSync
  <2>2. \A p \in Operator \ {o} : InTransaction(p) => routes'[op[p].route] = routes[op[p].route]
    BY <1>0, <1>2, Finished DEF Sees, Locked, InTransaction
  <2> QED
    BY <2>1, <2>2 DEF Locked
<1>3. ASSUME NEW o \in Operator, Save(o) \/ Delete(o) \/ \E r \in Route, row \in Row : Create(o, r, row)
      PROVE  Locked'
  <2>1. Frame(o) /\ \A p \in Operator : p # o /\ InTransaction(p)' => InTransaction(p)
    BY <1>3, Started DEF Frame, InTransaction, InSync
  <2>2. \A p \in Operator \ {o} : ~(InTransaction(p) /\ op[p].route = op'[o].route)
    BY <1>3, Started
  <2>3. \A r \in Route : routes'[r] = routes[r] \/ routes'[r] = None
    BY <1>0, <1>3, Started
  <2>4. op'[o].kind = "create" => routes[op'[o].route] = None /\ op'[o].route \in Route
    BY <1>3, Started
  <2>5. \A p \in Operator : InTransaction(p) => op[p].route \in Route
    BY <1>0 DEF InTransaction
  <2>6. \A p \in Operator : InTransaction(p)' /\ op'[p].kind = "create" => routes'[op'[p].route] = None
    BY <2>1, <2>3, <2>4, <2>5 DEF Locked, Frame
  <2>7. \A p, s \in Operator : p # s /\ InTransaction(p)' /\ InTransaction(s)' => op'[p].route # op'[s].route
    BY <2>1, <2>2 DEF Locked, Frame
  <2> QED
    BY <2>6, <2>7 DEF Locked
<1>4. CASE UNCHANGED vars \/ \E v \in Van, d \in Device : ChangeImei(v, d)
  BY <1>4 DEF ChangeImei, vars, tables, Locked, InTransaction, InSync
<1>5. ASSUME NEW o \in Operator, RouteRequest(o) PROVE Locked'
  <2>1. CASE SaveRefused(o) \/ \E r \in Route : DestroyRead(o, r) \/ \E row \in Row : UpdateRead(o, r, row)
    <3>1. Rests(o)
      BY <2>1, RequestRests
    <3> QED
      BY <1>1, <3>1 DEF Rests
  <2> QED
    BY <1>3, <1>5, <2>1 DEF RouteRequest
<1>6. ASSUME NEW o \in Operator, Sync(o) PROVE Locked'
  <2>1. CASE CommitRefused(o) \/ Fail(o) \/ AnswerLost(o)
    BY <1>1, <2>1, RequestRests DEF Rests
  <2>2. CASE QueryRoutes(o) \/ ListLinks(o) \/ QueryFences(o) \/ NextVan(o)
               \/ \E z \in Zone : Link(o, z) \/ Unlink(o, z)
    BY <1>1, <2>2, SyncContinues
  <2> QED
    BY <1>2, <1>6, <2>1, <2>2 DEF Sync
<1>7. ASSUME NEW o \in Operator, FenceRequest(o) PROVE Locked'
  BY <1>1, <1>7, RequestRests DEF Rests
<1> QED
  BY <1>4, <1>5, <1>6, <1>7 DEF Next

-----------------------------------------------------------------------------
(***************************************************************************)
(* Zones that no fence has yet, because nobody made them or because their  *)
(* fence is still to be saved: no device is linked to them and no request  *)
(* has read of them, so that a new fence does not make any link missing or *)
(* superfluous.                                                            *)
(***************************************************************************)
Unheard == {z \in Zone : z \notin used \/ \E o \in Operator : op[o].stage = "posted" /\ op[o].zone = z}

Fresh ==
  \A z \in Unheard :
    /\ \A d \in Device : z \notin linked[d]
    /\ \A o \in Operator : /\ z \notin op[o].wanted /\ z \notin op[o].found /\ z \notin op[o].link
                           /\ InTransaction(o) => z \notin ZonesOf(op[o].row)

LEMMA UnheardHasNoFence ==
  ASSUME ZoneInv, NEW z \in Unheard
  PROVE  z \notin fences
BY DEF ZoneInv, Unheard

\* Routes have fences, and so has the row of a transaction when it is written.
LEMMA UnheardNotWanted ==
  ASSUME ZoneInv, RoutesFenced, Fresh, NEW z \in Unheard, NEW o \in Operator, NEW v
  PROVE  z \notin Wanted(routes, v) /\ z \notin Wanted(Sees(o), v)
<1>1. \A r \in Route : routes[r] # None => z \notin ZonesOf(routes[r])
  BY UnheardHasNoFence DEF RoutesFenced
<1>2. \A r \in Route : Sees(o)[r] # None => z \notin ZonesOf(Sees(o)[r])
  BY <1>1 DEF Fresh, Sees
<1> QED
  BY <1>1, <1>2 DEF Wanted

LEMMA UnheardShrinks ==
  ASSUME TypeInv, NEW o \in Operator, Frame(o), used \subseteq used',
         op'[o].stage = "posted" => op'[o].zone \notin used
  PROVE  Unheard' \subseteq Unheard
BY DEF Frame, Unheard

LEMMA FreshStep ==
  ASSUME TypeInv, Shaped, ZoneInv, RoutesFenced, Fresh, [Next]_vars
  PROVE  Unheard' \subseteq Unheard /\ Fresh'
<1>0. op \in [Operator -> Op] /\ linked \in [Device -> SUBSET Zone]
  BY DEF TypeInv, TypeOK
<1>1. ASSUME NEW o \in Operator, Frame(o), used \subseteq used',
             op'[o].stage = "posted" => op'[o].zone \notin used,
             \A d \in Device : linked'[d] \subseteq linked[d] \cup op[o].link,
             \A z \in Unheard : /\ z \notin op'[o].wanted /\ z \notin op'[o].found /\ z \notin op'[o].link
                                /\ InTransaction(o)' => z \notin ZonesOf(op'[o].row)
      PROVE  Unheard' \subseteq Unheard /\ Fresh'
  <2>1. Unheard' \subseteq Unheard
    BY <1>1, UnheardShrinks
  <2>2. \A p \in Operator : p # o => op'[p] = op[p] /\ (InTransaction(p)' <=> InTransaction(p))
    BY <1>1 DEF Frame, InTransaction, InSync
  <2>3. \A z \in Unheard : \A d \in Device : z \notin linked'[d]
    BY <1>1 DEF Fresh
  <2> QED
    BY <1>1, <2>1, <2>2, <2>3 DEF Fresh
<1>2. ASSUME NEW o \in Operator, Frame(o), Leaves(o), used \subseteq used',
             op'[o].stage = "posted" => op'[o].zone \notin used,
             \A d \in Device : linked'[d] \subseteq linked[d] \cup op[o].link
      PROVE  Unheard' \subseteq Unheard /\ Fresh'
  BY <1>1, <1>2 DEF Leaves, InTransaction
<1>3. ASSUME NEW o \in Operator, NEW d \in Device, NEW z \in op[o].link, PostLink(d, z)
      PROVE  \A e \in Device : linked'[e] \subseteq linked[e] \cup op[o].link
  BY <1>0, <1>3 DEF PostLink
<1>4. ASSUME NEW d \in Device, NEW z, DeleteLink(d, z)
      PROVE  \A e \in Device : linked'[e] \subseteq linked[e]
  BY <1>0, <1>4 DEF DeleteLink
<1>5. ASSUME NEW o \in Operator, op[o].stage \in {"sync", "list", "managed", "change"}
      PROVE  Current(o).device \in Device
  BY <1>5, HeadType DEF RouteStage, Target
<1>6. ASSUME NEW o \in Operator, RouteRequest(o) PROVE Unheard' \subseteq Unheard /\ Fresh'
  <2>1. CASE Save(o) \/ Delete(o) \/ \E r \in Route, row \in Row : Create(o, r, row)
    <3>1. /\ Frame(o) /\ op'[o].stage = "sync" /\ UNCHANGED <<used, linked>>
          /\ op'[o].wanted \subseteq op[o].wanted /\ op'[o].found \subseteq op[o].found
          /\ op'[o].link \subseteq op[o].link
      BY <2>1, Started DEF traccar
    <3>2. op'[o].kind # "destroy" => ZonesOf(op'[o].row) \subseteq fences
      BY <2>1, Started
    <3>3. \A z \in Unheard : InTransaction(o)' => z \notin ZonesOf(op'[o].row)
      BY <3>2, UnheardHasNoFence DEF InTransaction
    <3>4. \A z \in Unheard : z \notin op'[o].wanted /\ z \notin op'[o].found /\ z \notin op'[o].link
      BY <3>1 DEF Fresh
    <3> QED
      BY <1>1, <3>1, <3>3, <3>4
  <2>2. CASE SaveRefused(o) \/ \E r \in Route : DestroyRead(o, r) \/ \E row \in Row : UpdateRead(o, r, row)
    <3>1. Rests(o) /\ UNCHANGED <<used, linked>>
      BY <2>2, RequestRests DEF SaveRefused, DestroyRead, UpdateRead, traccar
    <3>2. op'[o].stage # "posted"
      <4>1. ASSUME NEW q, Goto(o, q), q.stage # "posted" PROVE op'[o].stage # "posted"
        BY <4>1, Moves
      <4>2. ASSUME NEW r \in Route, DestroyRead(o, r) PROVE op'[o].stage # "posted"
        BY <4>1, <4>2 DEF DestroyRead, Idle
      <4>3. ASSUME NEW r \in Route, NEW row \in Row, UpdateRead(o, r, row) PROVE op'[o].stage # "posted"
        BY <4>1, <4>3 DEF UpdateRead, Idle
      <4>4. SaveRefused(o) => op'[o].stage # "posted"
        BY Ends DEF SaveRefused
      <4> QED
        BY <2>2, <4>2, <4>3, <4>4
    <3> QED
      BY <1>2, <3>1, <3>2 DEF Rests
  <2> QED
    BY <1>6, <2>1, <2>2 DEF RouteRequest
<1>7. ASSUME NEW o \in Operator, Sync(o) PROVE Unheard' \subseteq Unheard /\ Fresh'
  <2>1. ASSUME Frame(o), Continues(o), used' = used,
               \A d \in Device : linked'[d] \subseteq linked[d] \cup op[o].link,
               \A z \in Unheard : z \notin op'[o].wanted /\ z \notin op'[o].found /\ z \notin op'[o].link
        PROVE  Unheard' \subseteq Unheard /\ Fresh'
    <3>1. op'[o].stage # "posted"
      BY <2>1 DEF Continues, InSync
    <3>2. \A z \in Unheard : InTransaction(o)' => z \notin ZonesOf(op'[o].row)
      BY <2>1 DEF Fresh, Continues, Carries, InTransaction
    <3> QED
      BY <1>1, <2>1, <3>1, <3>2
  <2>2. CASE QueryRoutes(o)
    BY <2>1, <2>2, SyncContinues, QueriedRoutes, UnheardNotWanted DEF Fresh, Needs, traccar
  <2>3. CASE ListLinks(o)
    <3>1. Current(o).device \in Device
      BY <1>5, <2>3 DEF ListLinks
    <3> QED
      BY <2>1, <2>3, <3>1, SyncContinues, ListedLinks DEF Fresh, traccar
  <2>4. CASE QueryFences(o)
    BY <2>1, <2>4, SyncContinues, QueriedFences DEF Fresh, traccar
  <2>5. CASE NextVan(o)
    BY <2>1, <2>5, SyncContinues, NextVanTaken DEF Fresh, traccar
  <2>6. ASSUME NEW z \in Zone, Link(o, z) PROVE Unheard' \subseteq Unheard /\ Fresh'
    <3>1. Current(o).device \in Device
      BY <1>5, <2>6 DEF Link
    <3>2. \A d \in Device : linked'[d] \subseteq linked[d] \cup op[o].link
      BY <1>3, <2>6, <3>1, Linked
    <3> QED
      BY <2>1, <2>6, <3>2, SyncContinues, Linked DEF Fresh
  <2>7. ASSUME NEW z \in Zone, Unlink(o, z) PROVE Unheard' \subseteq Unheard /\ Fresh'
    <3>1. Current(o).device \in Device
      BY <1>5, <2>7 DEF Unlink
    <3>2. \A d \in Device : linked'[d] \subseteq linked[d] \cup op[o].link
      BY <1>4, <2>7, <3>1, Unlinked
    <3> QED
      BY <2>1, <2>7, <3>2, SyncContinues, Unlinked DEF Fresh
  <2>8. CASE CommitRefused(o) \/ Fail(o) \/ AnswerLost(o) \/ Finish(o)
    <3>1. Frame(o) /\ Leaves(o) /\ used' = used /\ Goto(o, Idle)
      BY <2>8, RequestRests, Finished
      DEF Rests, CommitRefused, Fail, AnswerLost, Finish, traccar
    <3>2. op'[o].stage # "posted"
      BY <3>1, Ends
    <3>3. \A d \in Device : linked'[d] \subseteq linked[d] \cup op[o].link
      <4>1. CASE AnswerLost(o)
        <5>1. Current(o).device \in Device
          BY <1>5, <4>1 DEF AnswerLost
        <5> QED
          BY <1>3, <1>4, <4>1, <5>1 DEF AnswerLost
      <4>2. CASE ~AnswerLost(o)
        BY <2>8, <4>2 DEF CommitRefused, Fail, Finish, traccar
      <4> QED
        BY <4>1, <4>2
    <3> QED
      BY <1>2, <3>1, <3>2, <3>3
  <2> QED
    BY <1>7, <2>2, <2>3, <2>4, <2>5, <2>6, <2>7, <2>8 DEF Sync
<1>8. ASSUME NEW o \in Operator, FenceRequest(o) PROVE Unheard' \subseteq Unheard /\ Fresh'
  <2>1. Rests(o)
    BY <1>8, RequestRests
  <2>2. used \subseteq used' /\ \A d \in Device : linked'[d] \subseteq linked[d]
    BY <1>8 DEF FenceRequest, PostZone, PatchFence, DropFence, SaveFence, SavePatch, DeleteZone,
       FenceFails, traccar
  <2>3. op'[o].stage = "posted" => op'[o].zone \notin used
    <3>1. CASE SaveFence(o) \/ SavePatch(o) \/ DeleteZone(o) \/ FenceFails(o)
      <4>1. op'[o].stage = "idle"
        BY <3>1, Ends DEF SaveFence, SavePatch, DeleteZone, FenceFails
      <4> QED
        BY <4>1
    <3>2. ASSUME NEW z, PostZone(o, z) PROVE op'[o].zone = z /\ z \notin used
      BY <1>0, <3>2 DEF PostZone, Goto, Idle
    <3>3. ASSUME NEW z, PatchFence(o, z) \/ DropFence(o, z) PROVE op'[o].stage # "posted"
      BY <1>0, <3>3 DEF PatchFence, DropFence, Goto, Idle
    <3> QED
      BY <1>8, <3>1, <3>2, <3>3 DEF FenceRequest
  <2> QED
    BY <1>2, <2>1, <2>2, <2>3 DEF Rests
<1>9. CASE UNCHANGED vars \/ \E v \in Van, d \in Device : ChangeImei(v, d)
  BY <1>9 DEF ChangeImei, vars, tables, traccar, Unheard, Fresh, InTransaction, InSync
<1> QED
  BY <1>6, <1>7, <1>8, <1>9 DEF Next

-----------------------------------------------------------------------------
\* What routes need of a van depends on its own routes only.

LEMMA WantedZone ==
  ASSUME NEW rows, NEW v, NEW z
  PROVE  z \in Wanted(rows, v) <=>
           \E r \in Route : rows[r] # None /\ rows[r].van = v /\ z \in ZonesOf(rows[r])
BY DEF Wanted

LEMMA WantedLocal ==
  ASSUME NEW rows, NEW others, NEW v,
         \A r \in Route : rows[r] # others[r] =>
            /\ rows[r] # None => rows[r].van # v
            /\ others[r] # None => others[r].van # v
  PROVE  Wanted(rows, v) = Wanted(others, v)
<1>1. ASSUME NEW z PROVE z \in Wanted(rows, v) <=> z \in Wanted(others, v)
  BY WantedZone
<1> QED
  BY <1>1

\* A change of one row matters to the vans it had and gets.
LEMMA RowChange ==
  ASSUME NEW r \in Route, \A s \in Route \ {r} : routes'[s] = routes[s],
         NEW C, routes[r] # None => routes[r].van \in C, routes'[r] # None => routes'[r].van \in C
  PROVE  /\ \A v : v \notin C => Wanted(routes', v) = Wanted(routes, v)
         /\ \A p \in Operator : (op'[p] = op[p] /\ ~(InTransaction(p) /\ op[p].route = r)) =>
              /\ (InTransaction(p) => op[p].route \in Route) => OldVan(p)' = OldVan(p)
              /\ \A v : v \notin C => Wanted(Sees(p), v)' = Wanted(Sees(p), v)
<1>1. \A v : v \notin C => Wanted(routes', v) = Wanted(routes, v)
  BY WantedLocal
<1>2. ASSUME NEW p \in Operator, op'[p] = op[p], ~(InTransaction(p) /\ op[p].route = r)
      PROVE  /\ InTransaction(p)' <=> InTransaction(p)
             /\ (InTransaction(p) => op[p].route \in Route) => OldVan(p)' = OldVan(p)
             /\ \A v : v \notin C => Wanted(Sees(p), v)' = Wanted(Sees(p), v)
  <2>1. InTransaction(p)' <=> InTransaction(p)
    BY <1>2 DEF InTransaction, InSync
  <2>2. \A s \in Route : Sees(p)'[s] # Sees(p)[s] =>
          s = r /\ Sees(p)'[s] = routes'[r] /\ Sees(p)[s] = routes[r]
    BY <1>2, <2>1 DEF Sees
  <2>3. ASSUME NEW v, v \notin C PROVE Wanted(Sees(p), v)' = Wanted(Sees(p), v)
    <3>1. Wanted(Sees(p)', v) = Wanted(Sees(p), v)
      BY <2>2, <2>3, WantedLocal
    <3> QED
      BY <3>1 DEF Wanted
  <2>4. InTransaction(p) /\ op[p].route \in Route => OldVan(p)' = OldVan(p)
    BY <1>2, <2>1 DEF OldVan
  <2>5. ~InTransaction(p) => OldVan(p)' = OldVan(p)
    BY <1>2, <2>1 DEF OldVan
  <2> QED
    BY <2>1, <2>3, <2>4, <2>5
<1> QED
  BY <1>1, <1>2

-----------------------------------------------------------------------------
(***************************************************************************)
(* The invariant.  unsynced and crossed say which links to doubt; what has *)
(* to be shown is that they say so in time, and not for longer than needed.*)
(***************************************************************************)
Live == fences \ revived

\* A request that no other has crossed shares no van and no tracker with another.
Apart(o, p) ==
  /\ Vans(o) \cap (Vans(p) \cup OldVan(p)) = {}
  /\ Trackers(op[o]) \cap Trackers(op[p]) = {}

Kept == \A o, p \in Operator : o # p /\ InSync(o) /\ InSync(p) /\ o \notin crossed => Apart(o, p)

\* While a request is under way, the vans it works on are marked, those that its trackers
\* have gone to as well, and those that two requests change the needs of.
Marked(o) ==
  /\ \A v \in Vans(o) \cup OldVan(o) : <<v, op[o].kind>> \in unsynced
  /\ \A v \in Van, t \in op[o].targets : device[v] = t.device /\ v # t.van => <<v, "imei">> \in unsynced
  /\ op[o].kind = "create" => \A t \in op[o].targets :
       /\ device[t.van] # t.device => <<t.van, "imei">> \in unsynced
       /\ o \in crossed => <<t.van, "imei">> \in unsynced \/ <<t.van, "crossed">> \in unsynced

MarkedBoth(o, p) == \A v \in Vans(o) \cap (Vans(p) \cup OldVan(p)) : <<v, "crossed">> \in unsynced

Marks ==
  \A o \in Operator : InSync(o) =>
    /\ Marked(o)
    /\ \A p \in Operator : o # p /\ InSync(p) => MarkedBoth(o, p)

\* The trackers that a request has done.
Done(o) == IF Len(op[o].todo) = 1 THEN op[o].targets \ {Current(o)} ELSE {}

\* What a request has read of the routes is still so, what it does is what they need ...
Working(o) ==
  /\ op[o].stage \in {"list", "managed"} => op[o].wanted = Needs(o)
  /\ op[o].stage = "change" => op[o].link \subseteq Needs(o) /\ op[o].unlink \cap Needs(o) = {}

\* ... and if no other crosses it, the same holds of what it has read of the links, and
\* what remains to be done brings the links in line with the routes.
Exact(o) ==
  /\ op[o].stage = "managed" => op[o].found \cap Live = linked[Current(o).device] \cap Live
  /\ op[o].stage = "change" =>
       /\ linked[Current(o).device] \cap Live \subseteq Needs(o) \cup op[o].unlink
       /\ Needs(o) \cap Live \subseteq linked[Current(o).device] \cup op[o].link
  /\ \A t \in Done(o) : linked[t.device] \cap Live = Wanted(Sees(o), t.van) \cap Live

Works ==
  \A o \in Operator : InSync(o) =>
    /\ (o \notin crossed \/ <<Current(o).van, "crossed">> \notin unsynced) => Working(o)
    /\ o \notin crossed => Exact(o)

Clean(v) == \A c \in Cause : <<v, c>> \notin unsynced
Sound(v) ==
  <<v, "update">> \notin unsynced /\ <<v, "crossed">> \notin unsynced /\ <<v, "imei">> \notin unsynced

Links ==
  \A v \in Van :
    /\ Clean(v) => linked[device[v]] \cap Live = Wanted(routes, v) \cap Live
    /\ Sound(v) => Wanted(routes, v) \cap Live \subseteq linked[device[v]]

Base == TypeInv /\ ZoneInv /\ RoutesFenced /\ OneTracker /\ Shaped /\ Locked /\ Fresh

LEMMA BaseStep == Base /\ [Next]_vars => Base'
BY StepTypes, StepKeepsZones, ShapeStep, LockedStep, FreshStep DEF Base

\* What Shape says of a request that syncs.
LEMMA SyncShape ==
  ASSUME TypeInv, Shaped, NEW o \in Operator, InSync(o)
  PROVE  /\ op[o].kind \in Kind /\ op[o].route \in Route
         /\ Current(o) \in op[o].targets /\ Current(o).van \in Vans(o)
         /\ Current(o).device \in Trackers(op[o]) /\ Current(o).device \in Device
         /\ op[o].targets \subseteq Target /\ Vans(o) \subseteq Van
         /\ \A t, u \in op[o].targets : t # u => t.van # u.van /\ t.device # u.device
         /\ op[o].kind # "destroy" => op[o].row \in Row /\ op[o].row.van \in Vans(o)
         /\ op[o].kind = "create" => op[o].targets = {Current(o)}
         /\ OldVan(o) \subseteq Van
         /\ Vans(o) \cup OldVan(o) \subseteq Touches(op[o])
<1>1. op[o].stage \in RouteStage /\ op[o] \in Op
  BY DEF InSync, RouteStage, TypeInv, TypeOK
<1>2. Shape(op[o])
  BY DEF Shaped
<1>3. op[o].targets \subseteq Target
  BY <1>1 DEF Op
<1>4. Current(o) \in op[o].targets
  BY <1>1, <1>2 DEF Shape, Current
<1>5. Current(o).van \in Vans(o) /\ Current(o).device \in Trackers(op[o]) /\ Current(o).device \in Device
  BY <1>3, <1>4 DEF Vans, Trackers, Target
<1>6. Vans(o) \subseteq Van
  BY <1>3 DEF Vans, Target
<1>7. op[o].kind # "destroy" => op[o].row \in Row /\ op[o].row.van \in Vans(o)
  BY <1>1, <1>2 DEF Shape, Vans
<1>8. op[o].kind = "create" => op[o].targets = {Current(o)}
  BY <1>1, <1>2 DEF Shape, Current
<1>9. /\ op[o].kind \in Kind /\ op[o].route \in Route
      /\ \A t, u \in op[o].targets : t # u => t.van # u.van /\ t.device # u.device
  BY <1>1, <1>2 DEF Shape
<1>10. OldVan(o) \subseteq Van /\ Vans(o) \cup OldVan(o) \subseteq Touches(op[o])
  BY <1>6, <1>9 DEF OldVan, Touches, Vans
<1> QED
  BY <1>3, <1>4, <1>5, <1>6, <1>7, <1>8, <1>9, <1>10

-----------------------------------------------------------------------------
\* A request that starts to sync: whom it crosses is found out in time.
LEMMA StartKeeps ==
  ASSUME Base, Base', Kept, Marks, Works, Links, NEW o \in Operator,
         Save(o) \/ Delete(o) \/ \E r \in Route, row \in Row : Create(o, r, row)
  PROVE  Kept' /\ Marks' /\ Works' /\ Links'
<1> USE DEF Base
<1>1. PICK q : Begin(o, q) /\ op'[o] = q
  BY Started
<1> DEFINE others == {p \in Operator \ {o} : InSync(p) /\ Cross(op[p], q)}
\* What Begin sets.
<1>2. crossed' = IF others = {} THEN crossed \ {o} ELSE crossed \cup others \cup {o}
  BY <1>1 DEF Begin
<1>3. /\ \A m \in unsynced : m \in unsynced'
      /\ \A v \in Touches(q) : <<v, q.kind>> \in unsynced'
      /\ \A v \in Exposed(q) : <<v, "imei">> \in unsynced'
      /\ others # {} => \A v \in Touches(q) : <<v, "crossed">> \in unsynced'
  BY <1>1 DEF Begin
<1>4. /\ Frame(o) /\ ~InSync(o) /\ InSync(o)' /\ q.stage = "sync" /\ q.route \in Route
      /\ Len(q.todo) = 1 => q.targets = {Head(q.todo)}
      /\ UNCHANGED <<fences, device, traccar, revived>>
      /\ IF q.kind = "destroy" THEN routes' = [routes EXCEPT ![q.route] = None] ELSE routes' = routes
      /\ q.kind = "create" => routes[q.route] = None /\ \A t \in q.targets : t = TargetOf(t.van)
      /\ \A p \in Operator \ {o} : ~(InTransaction(p) /\ op[p].route = q.route)
  BY <1>1, Started
<1>5. routes \in [Route -> Row \cup {None}] /\ device' = device /\ linked' = linked /\ Live' = Live
  BY <1>4 DEF TypeInv, TypeOK, traccar, Live
<1>6. /\ \A s \in Route \ {q.route} : routes'[s] = routes[s]
      /\ routes'[q.route] = routes[q.route] \/ routes'[q.route] = None
  BY <1>4, <1>5
<1>7. routes[q.route] # None => routes[q.route].van \in Touches(q)
  BY <1>4, <1>5 DEF Touches, Row
\* The others, which do not notice.
<1>8. ASSUME NEW p \in Operator, p # o
      PROVE  /\ op'[p] = op[p] /\ (InSync(p)' <=> InSync(p)) /\ Vans(p)' = Vans(p)
             /\ InSync(p) => OldVan(p)' = OldVan(p)
             /\ \A v : v \notin Touches(q) => Wanted(Sees(p), v)' = Wanted(Sees(p), v)
  <2>1. op'[p] = op[p]
    BY <1>4, <1>8 DEF Frame
  <2>2. InTransaction(p) => op[p].route \in Route
    BY SyncShape DEF InTransaction
  <2> QED
    BY <1>4, <1>6, <1>7, <1>8, <2>1, <2>2, RowChange DEF InSync, Vans
<1>9. \A v : v \notin Touches(q) => Wanted(routes', v) = Wanted(routes, v)
  BY <1>4, <1>6, <1>7, RowChange
<1>10. /\ Vans(o)' \cup OldVan(o)' \subseteq Touches(q) /\ Vans(o)' \subseteq Van
       /\ \A t \in q.targets : t.van \in Touches(q) /\ t.van \in Van /\ t.device \in Trackers(q)
       /\ q.kind \in Kind
  <2>1. Vans(o)' \subseteq Van /\ q.kind \in Kind
    BY <1>1, <1>4, SyncShape, StepTypes DEF Shaped, Shape, RouteStage, Vans, Target, Op, TypeInv, TypeOK
  <2>2. Vans(o)' \subseteq Touches(q)
    BY <1>1, <2>1 DEF Touches, Vans
  <2>3. OldVan(o)' \subseteq Touches(q)
    BY <1>1, <1>4 DEF Touches, OldVan, InTransaction
  <2> QED
    BY <1>1, <2>1, <2>2, <2>3 DEF Vans, Trackers
<1>11. ASSUME NEW p \in Operator, p # o, InSync(p), p \notin others
       PROVE  Touches(op[p]) \cap Touches(q) = {} /\ Trackers(op[p]) \cap Trackers(q) = {}
  BY <1>11 DEF Cross
<1>12. \A p \in Operator : p # o /\ InSync(p) =>
         /\ Vans(p) \cup OldVan(p) \subseteq Touches(op[p])
         /\ p \notin crossed' => p \notin crossed /\ p \notin others
  BY <1>2, SyncShape
<1>13. o \notin crossed' <=> others = {}
  BY <1>2
<1> HIDE DEF others
<1>14. Kept'
  <2> SUFFICES ASSUME NEW a \in Operator, NEW b \in Operator, a # b, InSync(a)', InSync(b)', a \notin crossed'
               PROVE  Apart(a, b)'
    BY DEF Kept
  <2>1. CASE a # o /\ b # o
    BY <1>8, <1>12, <2>1 DEF Kept, Apart
  <2>2. CASE a = o
    <3>1. InSync(b) /\ Vans(b)' = Vans(b) /\ OldVan(b)' = OldVan(b) /\ op'[b] = op[b]
      BY <1>8, <2>2
    <3>2. Touches(op[b]) \cap Touches(q) = {} /\ Trackers(op[b]) \cap Trackers(q) = {}
      BY <1>11, <1>13, <2>2, <3>1
    <3> QED
      BY <1>1, <1>10, <1>12, <2>2, <3>1, <3>2 DEF Apart
  <2>3. CASE b = o
    <3>1. InSync(a) /\ Vans(a)' = Vans(a) /\ op'[a] = op[a]
      BY <1>8, <2>3
    <3>2. Touches(op[a]) \cap Touches(q) = {} /\ Trackers(op[a]) \cap Trackers(q) = {}
      BY <1>11, <1>12, <2>3, <3>1
    <3> QED
      BY <1>1, <1>10, <1>12, <2>3, <3>1, <3>2 DEF Apart
  <2> QED
    BY <2>1, <2>2, <2>3
<1>15. Marked(o)'
  <2>1. \A v \in Vans(o)' \cup OldVan(o)' : <<v, q.kind>> \in unsynced'
    BY <1>3, <1>10
  <2>2. ASSUME NEW v \in Van, NEW t \in q.targets, device[v] = t.device, v # t.van
        PROVE  <<v, "imei">> \in unsynced'
    <3>1. TargetOf(v).van = v /\ TargetOf(v).device = t.device
      BY <2>2 DEF TargetOf
    <3>2. TargetOf(v) \notin q.targets
      BY <1>1, <1>4, <2>2, <3>1, SyncShape DEF Shaped, Shape, RouteStage
    <3>3. v \in Exposed(q)
      BY <1>10, <2>2, <3>2 DEF Exposed
    <3> QED
      BY <1>3, <3>3
  <2>3. ASSUME q.kind = "create", NEW t \in q.targets
        PROVE  device[t.van] = t.device /\ (o \in crossed' => <<t.van, "crossed">> \in unsynced')
    <3>1. t = TargetOf(t.van)
      BY <1>4, <2>3
    <3>2. t.device = device[t.van]
      BY <3>1 DEF TargetOf
    <3> QED
      BY <1>3, <1>10, <1>13, <2>3, <3>2
  <2> QED
    BY <1>1, <1>5, <2>1, <2>2, <2>3 DEF Marked
<1>16. ASSUME NEW p \in Operator, p # o, InSync(p) PROVE Marked(p)'
  <2>0. Marked(p) /\ op'[p] = op[p] /\ Vans(p)' = Vans(p) /\ OldVan(p)' = OldVan(p)
    BY <1>8, <1>16 DEF Marks
  <2>1. ASSUME op[p].kind = "create", NEW t \in op[p].targets, p \in crossed'
        PROVE  <<t.van, "imei">> \in unsynced' \/ <<t.van, "crossed">> \in unsynced'
    <3>1. CASE p \in crossed
      BY <1>3, <2>0, <2>1, <3>1 DEF Marked
    <3>2. CASE p \notin crossed
      <4>1. p \in others
        BY <1>2, <1>16, <2>1, <3>2
      <4>2. others # {} /\ Cross(op[p], q)
        BY <4>1 DEF others
      <4>3. op[p].targets = {t} /\ t.van \in Van /\ InTransaction(p)
        BY <1>16, <2>1, SyncShape DEF InTransaction, Vans
      <4>4. Touches(op[p]) = {t.van}
        BY <2>1, <4>3 DEF Touches, Locked
      <4>5. CASE t.van \in Touches(q)
        BY <1>3, <4>2, <4>5
      <4>6. CASE t.van \notin Touches(q)
        <5>1. t.device \in Trackers(q)
          BY <4>2, <4>3, <4>4, <4>6 DEF Cross, Trackers
        <5>2. TargetOf(t.van) \notin q.targets
          BY <1>10, <4>6 DEF TargetOf
        <5>3. device[t.van] = t.device => t.van \in Exposed(q)
          BY <4>3, <5>1, <5>2 DEF Exposed
        <5> QED
          BY <1>3, <2>0, <2>1, <5>3 DEF Marked
      <4> QED
        BY <4>5, <4>6
    <3> QED
      BY <3>1, <3>2
  <2> QED
    BY <1>3, <1>5, <2>0, <2>1 DEF Marked
<1>17. ASSUME NEW a \in Operator, NEW b \in Operator, a # b, InSync(a)', InSync(b)'
       PROVE  MarkedBoth(a, b)'
  <2> SUFFICES ASSUME NEW v \in Vans(a)' \cap (Vans(b)' \cup OldVan(b)')
               PROVE  <<v, "crossed">> \in unsynced'
    BY DEF MarkedBoth
  <2>1. CASE a # o /\ b # o
    BY <1>3, <1>8, <1>17, <2>1 DEF Marks, MarkedBoth
  <2>2. CASE a = o
    <3>1. v \in Touches(q) /\ v \in Touches(op[b]) /\ InSync(b)
      BY <1>8, <1>10, <1>12, <1>17, <2>2
    <3> QED
      BY <1>3, <1>11, <1>17, <2>2, <3>1
  <2>3. CASE b = o
    <3>1. v \in Touches(q) /\ v \in Touches(op[a]) /\ InSync(a)
      BY <1>8, <1>10, <1>12, <1>17, <2>3
    <3> QED
      BY <1>3, <1>11, <1>17, <2>3, <3>1
  <2> QED
    BY <2>1, <2>2, <2>3
<1>18. Marks'
  BY <1>8, <1>15, <1>16, <1>17 DEF Marks
<1>19. Working(o)' /\ Exact(o)'
  <2>1. Done(o)' = {}
    BY <1>1, <1>4 DEF Done, Current
  <2> QED
    BY <1>1, <1>4, <2>1 DEF Working, Exact
<1>20. ASSUME NEW p \in Operator, p # o, InSync(p)
       PROVE  /\ (p \notin crossed \/ <<Current(p).van, "crossed">> \notin unsynced)' => Working(p)'
              /\ p \notin crossed' => Exact(p)'
  <2>0. op'[p] = op[p] /\ Current(p)' = Current(p) /\ Current(p).van \in Vans(p)
    BY <1>8, <1>20, SyncShape DEF Current
  <2>1. ASSUME Current(p).van \notin Touches(q) PROVE Needs(p)' = Needs(p)
    BY <1>8, <1>20, <2>0, <2>1 DEF Needs
  <2>2. ASSUME p \notin crossed' PROVE \A v \in Vans(p) : v \notin Touches(q)
    BY <1>11, <1>12, <1>20, <2>2
  <2>3. ASSUME p \notin crossed' \/ <<Current(p).van, "crossed">> \notin unsynced' PROVE Working(p)'
    <3>1. Current(p).van \notin Touches(q)
      BY <1>3, <1>11, <1>12, <1>20, <2>0, <2>2, <2>3
    <3>2. Working(p)
      BY <1>3, <1>12, <1>20, <2>3 DEF Works
    <3> QED
      BY <2>0, <2>1, <3>1, <3>2 DEF Working
  <2>4. ASSUME p \notin crossed' PROVE Exact(p)'
    <3>1. Exact(p)
      BY <1>12, <1>20, <2>4 DEF Works
    <3>2. Needs(p)' = Needs(p)
      BY <2>0, <2>1, <2>2, <2>4
    <3>3. Done(p)' = Done(p) /\ \A t \in Done(p) : t.van \in Vans(p)
      BY <2>0 DEF Done, Vans
    <3>4. \A t \in Done(p) : Wanted(Sees(p), t.van)' = Wanted(Sees(p), t.van)
      BY <1>8, <1>20, <2>2, <2>4, <3>3
    <3>5. \A t \in Done(p) : linked[t.device] \cap Live = Wanted(Sees(p), t.van)' \cap Live
      BY <3>1, <3>4 DEF Exact
    <3> QED
      BY <1>5, <2>0, <3>1, <3>2, <3>3, <3>5 DEF Exact
  <2> QED
    BY <2>0, <2>3, <2>4
<1>21. Works'
  BY <1>8, <1>19, <1>20 DEF Works
<1>22. Links'
  <2> SUFFICES ASSUME NEW v \in Van
               PROVE  /\ Clean(v)' => linked[device[v]] \cap Live = Wanted(routes', v) \cap Live
                      /\ Sound(v)' => Wanted(routes', v) \cap Live \subseteq linked[device[v]]
    BY <1>5 DEF Links
  <2>1. ASSUME Clean(v)' PROVE linked[device[v]] \cap Live = Wanted(routes', v) \cap Live
    <3>1. Clean(v)
      BY <1>3, <2>1 DEF Clean
    <3>2. v \notin Touches(q)
      BY <1>3, <1>10, <2>1 DEF Clean, Cause
    <3> QED
      BY <1>9, <3>1, <3>2 DEF Links
  <2>2. ASSUME Sound(v)' PROVE Wanted(routes', v) \cap Live \subseteq linked[device[v]]
    <3>1. Sound(v)
      BY <1>3, <2>2 DEF Sound
    <3>2. Wanted(routes', v) \subseteq Wanted(routes, v)
      BY <1>6, WantedZone
    <3> QED
      BY <3>1, <3>2 DEF Links
  <2> QED
    BY <2>1, <2>2
<1> QED
  BY <1>14, <1>18, <1>21, <1>22

-----------------------------------------------------------------------------
\* The end of a request: the marks it takes away are of vans that nobody else works on,
\* and whose links it has brought in line.

\* The links of the trackers that a request is done with.
LEMMA AllDone ==
  ASSUME Base, Works, NEW o \in Operator, Finish(o), o \notin crossed, NEW t \in op[o].targets
  PROVE  linked[t.device] \cap Live = Wanted(Sees(o), t.van) \cap Live
<1>1. InSync(o) /\ op[o].stage = "change" /\ op[o].link = {} /\ op[o].unlink = {} /\ Len(op[o].todo) = 1
  BY DEF Finish, Changed, InSync
<1>2. Exact(o) /\ Working(o)
  BY <1>1 DEF Works
<1>3. CASE t = Current(o)
  <2>1. /\ linked[Current(o).device] \cap Live \subseteq Needs(o)
        /\ Needs(o) \cap Live \subseteq linked[Current(o).device]
    BY <1>1, <1>2 DEF Exact
  <2> QED
    BY <1>3, <2>1 DEF Needs
<1>4. CASE t # Current(o)
  <2>1. t \in Done(o)
    BY <1>1, <1>4 DEF Done
  <2> QED
    BY <1>2, <2>1 DEF Exact
<1> QED
  BY <1>3, <1>4

\* The row that a request commits at its end, if any.
LEMMA CommittedRow ==
  ASSUME Base, NEW o \in Operator, Finish(o)
  PROVE  /\ \A s \in Route \ {op[o].route} : routes'[s] = routes[s]
         /\ ~InTransaction(o) => routes' = routes
         /\ InTransaction(o) =>
              /\ routes[op[o].route] # None => routes[op[o].route].van \in OldVan(o)
              /\ routes'[op[o].route] = op[o].row /\ routes'[op[o].route].van \in Vans(o)
         /\ \A v : v \notin Vans(o) \cup OldVan(o) => Wanted(routes', v) = Wanted(routes, v)
<1> USE DEF Base
<1> DEFINE r == op[o].route
<1>1. InSync(o) /\ routes' = Sees(o)
  BY Finished
<1>2. routes \in [Route -> Row \cup {None}] /\ r \in Route
  BY <1>1, SyncShape DEF TypeInv, TypeOK
<1>3. \A s \in Route : routes'[s] = IF InTransaction(o) /\ r = s THEN op[o].row ELSE routes[s]
  BY <1>1 DEF Sees
<1>4. ~InTransaction(o) => routes' = routes
  BY <1>1, <1>2, <1>3 DEF Sees
<1>5. InTransaction(o) => op[o].row.van \in Vans(o)
  BY <1>1, SyncShape DEF InTransaction
<1>6. InTransaction(o) => (routes[r] # None => routes[r].van \in OldVan(o))
  BY <1>2 DEF OldVan, Row
<1>7. \A v : v \notin Vans(o) \cup OldVan(o) => Wanted(routes', v) = Wanted(routes, v)
  <2>1. CASE InTransaction(o)
    <3> HIDE DEF r
    <3> QED
      BY <1>2, <1>3, <1>5, <1>6, <2>1, RowChange
  <2>2. CASE ~InTransaction(o)
    BY <1>4, <2>2
  <2> QED
    BY <2>1, <2>2
<1> QED
  BY <1>2, <1>3, <1>4, <1>5, <1>6, <1>7

LEMMA FinishKeeps ==
  ASSUME Base, Kept, Marks, Works, Links, NEW o \in Operator, Finish(o)
  PROVE  Kept' /\ Marks' /\ Works' /\ Links'
<1> USE DEF Base
<1> DEFINE C == Vans(o) \cup OldVan(o)
           r == op[o].route
<1>1. /\ Frame(o) /\ ~InSync(o)' /\ InSync(o) /\ routes' = Sees(o)
      /\ UNCHANGED <<device, linked, crossed>> /\ Live' = Live
  BY Finished DEF Leaves, traccar, Live
<1>2. routes \in [Route -> Row \cup {None}] /\ r \in Route
  BY <1>1, SyncShape DEF TypeInv, TypeOK
<1>3. \A v \in Van : \A c : <<v, c>> \in unsynced' <=>
        <<v, c>> \in unsynced /\ (o \in crossed \/ v \notin Healed(o))
  BY DEF Finish
<1>4. \A v \in Healed(o) :
        v \in Van /\ v \in Vans(o) /\ device[v] \in Trackers(op[o]) /\ TargetOf(v) \in op[o].targets
  BY DEF Healed, Vans, Trackers, TargetOf
\* The row that is committed, if any.
<1>5. /\ \A s \in Route \ {r} : routes'[s] = routes[s]
      /\ ~InTransaction(o) => routes' = routes
      /\ InTransaction(o) => /\ routes[r] # None => routes[r].van \in OldVan(o)
                             /\ routes'[r] = op[o].row /\ routes'[r].van \in Vans(o)
  BY CommittedRow
<1> HIDE DEF r
<1>6. \A v : v \notin C => Wanted(routes', v) = Wanted(routes, v)
  BY CommittedRow
<1>7. ASSUME NEW p \in Operator, p # o
      PROVE  /\ op'[p] = op[p] /\ (InSync(p)' <=> InSync(p)) /\ Vans(p)' = Vans(p)
             /\ InSync(p) => OldVan(p)' = OldVan(p)
             /\ \A v : v \notin C => Wanted(Sees(p), v)' = Wanted(Sees(p), v)
  <2>1. op'[p] = op[p]
    BY <1>1, <1>7 DEF Frame
  <2>2. InTransaction(p) => op[p].route \in Route
    BY SyncShape DEF InTransaction
  <2>3. (InSync(p)' <=> InSync(p)) /\ Vans(p)' = Vans(p)
    BY <2>1 DEF InSync, Vans
  <2>4. CASE InTransaction(o)
    <3>1. ~(InTransaction(p) /\ op[p].route = r)
      BY <1>7, <2>4 DEF Locked, r
    <3>2. (routes[r] # None => routes[r].van \in C) /\ (routes'[r] # None => routes'[r].van \in C)
      BY <1>5, <2>4
    <3>3. \A s \in Route \ {r} : routes'[s] = routes[s]
      BY <1>5
    <3> HIDE DEF C
    <3>4. /\ (InTransaction(p) => op[p].route \in Route) => OldVan(p)' = OldVan(p)
          /\ \A v : v \notin C => Wanted(Sees(p), v)' = Wanted(Sees(p), v)
      BY <1>2, <2>1, <3>1, <3>2, <3>3, RowChange
    <3> QED
      BY <2>1, <2>2, <2>3, <3>4
  <2>5. CASE ~InTransaction(o)
    <3>1. (InTransaction(p)' <=> InTransaction(p)) /\ routes' = routes
      BY <1>5, <2>1, <2>5 DEF InTransaction, InSync
    <3>2. OldVan(p)' = OldVan(p)
      BY <2>1, <3>1 DEF OldVan
    <3>3. Sees(p)' = Sees(p)
      BY <2>1, <3>1 DEF Sees
    <3> QED
      BY <2>1, <2>3, <3>2, <3>3 DEF Wanted
  <2> QED
    BY <2>4, <2>5
\* What is healed belongs to nobody else.
<1>8. ASSUME NEW p \in Operator, p # o, InSync(p), NEW v \in Healed(o), o \notin crossed
      PROVE  v \notin Vans(p) \cup OldVan(p) /\ device[v] \notin Trackers(op[p])
  BY <1>1, <1>4, <1>8 DEF Kept, Apart
<1>9. Kept'
  BY <1>1, <1>7 DEF Kept, Apart
<1>10. ASSUME NEW p \in Operator, p # o, InSync(p) PROVE Marked(p)'
  <2>0. /\ Marked(p) /\ op'[p] = op[p] /\ Vans(p)' = Vans(p) /\ OldVan(p)' = OldVan(p)
        /\ Vans(p) \subseteq Van /\ OldVan(p) \subseteq Van
    BY <1>7, <1>10, SyncShape DEF Marks
  <2>1. \A v \in Vans(p) \cup OldVan(p) : <<v, op[p].kind>> \in unsynced'
    BY <1>3, <1>8, <1>10, <2>0 DEF Marked
  <2>2. ASSUME NEW v \in Van, NEW t \in op[p].targets, device[v] = t.device, v # t.van
        PROVE  <<v, "imei">> \in unsynced'
    <3>1. <<v, "imei">> \in unsynced
      BY <2>0, <2>2 DEF Marked
    <3>2. device[v] \in Trackers(op[p])
      BY <2>2 DEF Trackers
    <3> QED
      BY <1>3, <1>8, <1>10, <3>1, <3>2
  <2>3. ASSUME op[p].kind = "create", NEW t \in op[p].targets
        PROVE  /\ device[t.van] # t.device => <<t.van, "imei">> \in unsynced'
               /\ p \in crossed => <<t.van, "imei">> \in unsynced' \/ <<t.van, "crossed">> \in unsynced'
    <3>1. t.van \in Vans(p) /\ t.van \in Van
      BY <2>0 DEF Vans
    <3>2. o \in crossed \/ t.van \notin Healed(o)
      BY <1>8, <1>10, <3>1
    <3> QED
      BY <1>3, <2>0, <2>3, <3>1, <3>2 DEF Marked
  <2> QED
    BY <1>1, <2>0, <2>1, <2>2, <2>3 DEF Marked
<1>11. ASSUME NEW a \in Operator, NEW b \in Operator, a # b, a # o, b # o, InSync(a), InSync(b)
       PROVE  MarkedBoth(a, b)'
  <2>1. \A v \in Vans(a) \cap (Vans(b) \cup OldVan(b)) : <<v, "crossed">> \in unsynced'
    BY <1>3, <1>8, <1>11, SyncShape DEF Marks, MarkedBoth
  <2> QED
    BY <1>7, <1>11, <2>1 DEF MarkedBoth
<1>12. Marks'
  BY <1>1, <1>7, <1>10, <1>11 DEF Marks
<1>13. ASSUME NEW p \in Operator, p # o, InSync(p)
       PROVE  /\ (p \notin crossed \/ <<Current(p).van, "crossed">> \notin unsynced)' => Working(p)'
              /\ p \notin crossed => Exact(p)'
  <2>0. /\ op'[p] = op[p] /\ Current(p)' = Current(p) /\ Current(p).van \in Vans(p)
        /\ Current(p).van \in Van
    BY <1>7, <1>13, SyncShape DEF Current
  <2>1. ASSUME Current(p).van \notin C PROVE Needs(p)' = Needs(p)
    BY <1>7, <1>13, <2>0, <2>1 DEF Needs
  <2>2. ASSUME p \notin crossed PROVE \A v \in Vans(p) : v \notin C
    BY <1>1, <1>13, <2>2 DEF Kept, Apart
  <2>3. ASSUME p \notin crossed \/ <<Current(p).van, "crossed">> \notin unsynced' PROVE Working(p)'
    <3>1. p \notin crossed \/ <<Current(p).van, "crossed">> \notin unsynced
      BY <1>3, <1>8, <1>13, <2>0, <2>3
    <3>2. Working(p)
      BY <1>13, <3>1 DEF Works
    <3>3. Current(p).van \notin C
      <4>1. CASE p \notin crossed
        BY <2>0, <2>2, <4>1
      <4>2. CASE <<Current(p).van, "crossed">> \notin unsynced
        BY <1>1, <1>13, <2>0, <4>2 DEF Marks, MarkedBoth
      <4> QED
        BY <3>1, <4>1, <4>2
    <3> QED
      BY <2>0, <2>1, <3>2, <3>3 DEF Working
  <2>4. ASSUME p \notin crossed PROVE Exact(p)'
    <3>1. Exact(p)
      BY <1>13, <2>4 DEF Works
    <3>2. Needs(p)' = Needs(p)
      BY <2>0, <2>1, <2>2, <2>4
    <3>3. Done(p)' = Done(p) /\ \A t \in Done(p) : t.van \in Vans(p)
      BY <2>0 DEF Done, Vans
    <3>4. \A t \in Done(p) : Wanted(Sees(p), t.van)' = Wanted(Sees(p), t.van)
      BY <1>7, <1>13, <2>2, <2>4, <3>3
    <3>5. \A t \in Done(p) : linked[t.device] \cap Live = Wanted(Sees(p), t.van)' \cap Live
      BY <3>1, <3>4 DEF Exact
    <3> QED
      BY <1>1, <2>0, <3>1, <3>2, <3>3, <3>5 DEF Exact
  <2> QED
    BY <1>1, <2>0, <2>3, <2>4
<1>14. Works'
  BY <1>1, <1>7, <1>13 DEF Works
<1>15. Links'
  <2> SUFFICES ASSUME NEW v \in Van
               PROVE  /\ Clean(v)' => linked[device[v]] \cap Live = Wanted(routes', v) \cap Live
                      /\ Sound(v)' => Wanted(routes', v) \cap Live \subseteq linked[device[v]]
    BY <1>1 DEF Links
  <2>1. CASE o \notin crossed /\ v \in Healed(o)
    <3>1. TargetOf(v) \in op[o].targets /\ TargetOf(v).van = v /\ TargetOf(v).device = device[v]
      BY <1>4, <2>1 DEF TargetOf
    <3>2. linked[device[v]] \cap Live = Wanted(routes', v) \cap Live
      BY <1>1, <2>1, <3>1, AllDone
    <3> QED
      BY <3>2
  <2>2. CASE ~(o \notin crossed /\ v \in Healed(o))
    <3>1. \A c : <<v, c>> \in unsynced' <=> <<v, c>> \in unsynced
      BY <1>3, <2>2
    <3>2. (Clean(v)' => Clean(v)) /\ (Sound(v)' => Sound(v))
      BY <3>1 DEF Clean, Sound
    <3>3. Marked(o) /\ op[o].kind \in Kind
      BY <1>1, SyncShape DEF Marks
    <3>4. Clean(v) => v \notin C
      BY <3>3 DEF Clean, Marked, Cause
    <3>5. Sound(v) /\ v \in C => Wanted(routes', v) = Wanted(routes, v)
      <4> SUFFICES ASSUME Sound(v), v \in C, InTransaction(o) PROVE FALSE
        BY <1>5
      <4>1. op[o].kind = "create"
        BY <3>3 DEF InTransaction, Kind, Sound, Marked
      <4>2. v \in Vans(o)
        BY <4>1 DEF OldVan, Locked
      <4>3. PICK t \in op[o].targets : t.van = v
        BY <4>2 DEF Vans
      <4>4. o \notin crossed /\ device[v] = t.device
        BY <3>3, <4>1, <4>3 DEF Marked, Sound
      <4>5. t = TargetOf(v)
        BY <1>1, <4>3, <4>4, SyncShape DEF TargetOf, Target
      <4> QED
        BY <2>2, <4>4, <4>5 DEF Healed
    <3> QED
      BY <1>6, <3>2, <3>4, <3>5 DEF Links
  <2> QED
    BY <2>1, <2>2
<1> QED
  BY <1>9, <1>12, <1>14, <1>15

-----------------------------------------------------------------------------
\* Another tracker is a cause of doubt from the start.
LEMMA ImeiKeeps ==
  ASSUME Base, Kept, Marks, Works, Links, NEW v \in Van, NEW d \in Device, ChangeImei(v, d)
  PROVE  Kept' /\ Marks' /\ Works' /\ Links'
<1> USE DEF Base
<1>1. /\ UNCHANGED <<routes, op, crossed, linked>> /\ Live' = Live
      /\ \A w \in Van : device'[w] = IF w = v THEN d ELSE device[w]
      /\ unsynced' = unsynced \cup {<<v, "imei">>}
  BY DEF ChangeImei, traccar, Live, TypeInv, TypeOK
<1>2. /\ \A o \in Operator : /\ InSync(o)' <=> InSync(o)
                             /\ Vans(o)' = Vans(o) /\ OldVan(o)' = OldVan(o) /\ Current(o)' = Current(o)
                             /\ Sees(o)' = Sees(o) /\ Done(o)' = Done(o)
  BY <1>1 DEF InSync, Vans, OldVan, InTransaction, Sees, Current, Done
<1>3. Kept'
  BY <1>1, <1>2 DEF Kept, Apart
<1>4. ASSUME NEW o \in Operator, InSync(o) PROVE Marked(o)'
  <2>1. Marked(o) /\ Vans(o) \subseteq Van
    BY <1>4, SyncShape DEF Marks
  <2>2. \A t \in op[o].targets : t.van \in Van
    BY <2>1 DEF Vans
  <2> QED
    BY <1>1, <1>2, <2>1, <2>2 DEF Marked
<1>5. Marks'
  BY <1>1, <1>2, <1>4 DEF Marks, MarkedBoth
<1>6. ASSUME NEW o \in Operator
      PROVE  /\ Needs(o)' = Needs(o) /\ (Working(o)' <=> Working(o))
             /\ \A w : Wanted(Sees(o), w)' = Wanted(Sees(o), w)
  <2>1. Needs(o)' = Needs(o) /\ \A w : Wanted(Sees(o), w)' = Wanted(Sees(o), w)
    BY <1>2 DEF Needs, Wanted
  <2> QED
    BY <1>1, <2>1 DEF Working
<1>7. \A o \in Operator : Exact(o) => Exact(o)'
  BY <1>1, <1>2, <1>6 DEF Exact
<1>8. Works'
  BY <1>1, <1>2, <1>6, <1>7 DEF Works
<1>9. \A w \in Van : (Clean(w)' => Clean(w) /\ w # v) /\ (Sound(w)' => Sound(w) /\ w # v)
  BY <1>1 DEF Clean, Sound, Cause
<1>10. Links'
  BY <1>1, <1>9 DEF Links
<1> QED
  BY <1>3, <1>5, <1>8, <1>10

-----------------------------------------------------------------------------
\* The other steps, which change neither rows nor marks.

Proceeds(o) ==
  \/ QueryRoutes(o) \/ ListLinks(o) \/ QueryFences(o) \/ NextVan(o)
  \/ \E z \in Zone : Link(o, z) \/ Unlink(o, z)

Stops(o) ==
  \/ \E r \in Route : DestroyRead(o, r) \/ \E row \in Row : UpdateRead(o, r, row)
  \/ SaveRefused(o) \/ CommitRefused(o) \/ Fail(o) \/ AnswerLost(o)
  \/ FenceRequest(o)

LEMMA StepCases ==
  ASSUME NEW o \in Operator, RouteRequest(o) \/ Sync(o) \/ FenceRequest(o)
  PROVE  \/ Proceeds(o) \/ Stops(o) \/ Finish(o)
         \/ Save(o) \/ Delete(o) \/ \E r \in Route, row \in Row : Create(o, r, row)
BY DEF RouteRequest, Sync, Proceeds, Stops

\* All that a step may do to the links to live zones of a tracker that it is not about.
Alike(d) == \A z \in Live' : z \in Live \cup Unheard /\ (z \in linked'[d] <=> z \in linked[d])

\* The links that a step of a sync makes or removes are its tracker's, and it removes one
\* that it had decided to remove.
LEMMA LinkEffect ==
  ASSUME Base, NEW o \in Operator, Proceeds(o) \/ Stops(o), NEW d \in Device
  PROVE  \/ Alike(d)
         \/ /\ InSync(o) /\ d = Current(o).device /\ Live' = Live
            /\ \/ linked[d] \subseteq linked'[d]
               \/ op[o].stage = "change" /\ \E z \in op[o].unlink : linked'[d] = linked[d] \ {z}
<1> USE DEF Base
<1> DEFINE Goal == \/ Alike(d)
                   \/ /\ InSync(o) /\ d = Current(o).device /\ Live' = Live
                      /\ \/ linked[d] \subseteq linked'[d]
                         \/ op[o].stage = "change" /\ \E z \in op[o].unlink : linked'[d] = linked[d] \ {z}
<1>0. linked \in [Device -> SUBSET Zone]
  BY DEF TypeInv, TypeOK
<1>1. linked' = linked /\ Live' = Live => Alike(d)
  BY DEF Alike
<1>2. ASSUME InSync(o), NEW z, PostLink(Current(o).device, z), Live' = Live PROVE Goal
  <2>1. linked[d] \subseteq linked'[d] /\ (d # Current(o).device => linked'[d] = linked[d])
    BY <1>0, <1>2 DEF PostLink
  <2> QED
    BY <1>2, <2>1 DEF Alike
<1>3. ASSUME op[o].stage = "change", NEW z \in op[o].unlink, DeleteLink(Current(o).device, z), Live' = Live
      PROVE  Goal
  <2>1. linked'[d] = IF d = Current(o).device THEN linked[d] \ {z} ELSE linked[d]
    BY <1>0, <1>3 DEF DeleteLink
  <2> QED
    BY <1>3, <2>1 DEF Alike, InSync
<1>4. CASE QueryRoutes(o) \/ ListLinks(o) \/ QueryFences(o) \/ NextVan(o) \/ SaveRefused(o)
             \/ CommitRefused(o) \/ Fail(o)
             \/ \E r \in Route : DestroyRead(o, r) \/ \E row \in Row : UpdateRead(o, r, row)
  <2>1. linked' = linked /\ Live' = Live
    BY <1>4 DEF QueryRoutes, ListLinks, QueryFences, NextVan, SaveRefused, CommitRefused, Fail,
       DestroyRead, UpdateRead, tables, traccar, ghosts, Live
  <2> QED
    BY <1>1, <2>1
<1>5. ASSUME NEW z \in Zone, Link(o, z) PROVE Goal
  <2>1. InSync(o) /\ Live' = Live /\ PostLink(Current(o).device, z)
    BY <1>5 DEF Link, InSync, tables, ghosts, Live
  <2> QED
    BY <1>2, <2>1
<1>6. ASSUME NEW z \in Zone, Unlink(o, z) PROVE Goal
  <2>1. op[o].stage = "change" /\ z \in op[o].unlink /\ Live' = Live /\ DeleteLink(Current(o).device, z)
    BY <1>6 DEF Unlink, tables, ghosts, Live
  <2> QED
    BY <1>3, <2>1
<1>7. CASE AnswerLost(o)
  <2>1. op[o].stage = "change" /\ InSync(o) /\ Live' = Live
    BY <1>7 DEF AnswerLost, InSync, ghosts, Live
  <2>2. \/ \E z : PostLink(Current(o).device, z)
        \/ \E z \in op[o].unlink : DeleteLink(Current(o).device, z)
    BY <1>7 DEF AnswerLost
  <2> QED
    BY <1>2, <1>3, <2>1, <2>2
<1>8. CASE FenceRequest(o)
  <2>1. CASE FenceFails(o) \/ \E z \in School \cup Gym : PostZone(o, z) \/ PatchFence(o, z)
    BY <1>1, <2>1 DEF FenceFails, PostZone, PatchFence, tables, traccar, ghosts, Live
  <2>2. ASSUME NEW z, DropFence(o, z) PROVE Goal
    BY <2>2 DEF DropFence, DropRow, traccar, ghosts, Alike, Live
  <2>3. CASE SaveFence(o)
    <3>1. op[o].zone \in Unheard
      BY <2>3 DEF SaveFence, Unheard, TypeInv, TypeOK, Op, Proper, FenceStage, Fenced, Zone
    <3> QED
      BY <2>3, <3>1 DEF SaveFence, traccar, ghosts, Alike, Live
  <2>4. CASE SavePatch(o)
    BY <2>4 DEF SavePatch, traccar, Alike, Live
  <2>5. CASE DeleteZone(o)
    <3>1. op[o].zone \notin Live
      BY <2>5 DEF DeleteZone, ZoneInv, Live
    <3>2. linked'[d] = linked[d] \ {op[o].zone} /\ Live' = Live
      BY <2>5 DEF DeleteZone, tables, ghosts, Live
    <3> QED
      BY <3>1, <3>2 DEF Alike
  <2> QED
    BY <1>8, <2>1, <2>2, <2>3, <2>4, <2>5 DEF FenceRequest
<1> QED
  BY <1>4, <1>5, <1>6, <1>7, <1>8 DEF Proceeds, Stops

LEMMA QuietFrame ==
  ASSUME Base, NEW o \in Operator, Proceeds(o) \/ Stops(o)
  PROVE  Frame(o) /\ (Continues(o) \/ Leaves(o)) /\ UNCHANGED <<routes, device, unsynced, crossed>>
BY SyncContinues, RequestRests DEF Base, Proceeds, Stops, Rests

\* Who syncs goes on with what is his, so the marks are still right.
LEMMA QuietKeepsMarks ==
  ASSUME Base, Kept, Marks, NEW o \in Operator, Proceeds(o) \/ Stops(o)
  PROVE  Kept' /\ Marks'
<1>1. Frame(o) /\ (Continues(o) \/ Leaves(o)) /\ UNCHANGED <<routes, device, unsynced, crossed>>
  BY QuietFrame
<1>2. \A p \in Operator : InSync(p)' =>
        /\ InSync(p) /\ op'[p].targets = op[p].targets /\ op'[p].kind = op[p].kind
        /\ op'[p].route = op[p].route
  BY <1>1 DEF Frame, Continues, Leaves, Carries, InSync
<1>3. \A p \in Operator : InSync(p)' => Vans(p)' = Vans(p) /\ OldVan(p)' = OldVan(p)
  BY <1>1, <1>2 DEF Vans, OldVan, InTransaction
<1>4. Kept'
  BY <1>1, <1>2, <1>3 DEF Kept, Apart, Trackers
<1>5. \A p \in Operator : InSync(p)' => Marked(p)'
  BY <1>1, <1>2, <1>3 DEF Marks, Marked
<1>6. \A a, b \in Operator : a # b /\ InSync(a)' /\ InSync(b)' => MarkedBoth(a, b)'
  BY <1>1, <1>2, <1>3 DEF Marks, MarkedBoth
<1> QED
  BY <1>4, <1>5, <1>6 DEF Marks

\* The requests of the others: what they have read stays right.
LEMMA QuietKeepsOthers ==
  ASSUME Base, Kept, Works, NEW o \in Operator, Proceeds(o) \/ Stops(o),
         NEW p \in Operator, p # o, InSync(p)
  PROVE  /\ (p \notin crossed \/ <<Current(p).van, "crossed">> \notin unsynced)' => Working(p)'
         /\ p \notin crossed' => Exact(p)'
<1> USE DEF Base
<1>1. op'[p] = op[p] /\ routes' = routes /\ unsynced' = unsynced /\ crossed' = crossed
  BY QuietFrame DEF Frame
<1>2. Current(p)' = Current(p) /\ Sees(p)' = Sees(p) /\ Done(p)' = Done(p)
  BY <1>1 DEF Current, Sees, InTransaction, InSync, Done
<1>3. Needs(p)' = Needs(p) /\ \A v : Wanted(Sees(p), v)' = Wanted(Sees(p), v)
  BY <1>2 DEF Needs, Wanted
<1>4. Working(p) => Working(p)'
  BY <1>1, <1>3 DEF Working
<1>5. ASSUME p \notin crossed PROVE Exact(p)'
  <2>0. Exact(p)
    BY <1>5 DEF Works
  <2>1. ASSUME NEW d \in Device, d \in Trackers(op[p]) PROVE Alike(d)
    <3>1. InSync(o) => d # Current(o).device
      BY <1>5, <2>1, SyncShape DEF Kept, Apart
    <3> QED
      BY <3>1, LinkEffect
  <2>2. /\ Current(p).device \in Device /\ Current(p).device \in Trackers(op[p])
        /\ \A t \in Done(p) : t.device \in Device /\ t.device \in Trackers(op[p])
    BY SyncShape DEF Done, Trackers, Target
  <2>3. /\ \A z \in Unheard : /\ z \notin op[p].found
                              /\ \A v : z \notin Wanted(Sees(p), v)
                              /\ \A d \in Device : z \notin linked[d]
    BY UnheardNotWanted DEF Fresh
  <2>4. ASSUME NEW d \in Device, d \in Trackers(op[p]), NEW z \in Live'
        PROVE  /\ z \in linked'[d] <=> z \in linked[d]
               /\ z \in Live \/ (z \in Unheard)
    BY <2>1, <2>4 DEF Alike
  <2>5. op'[p].stage = "managed" => op'[p].found \cap Live' = linked'[Current(p).device] \cap Live'
    BY <1>1, <2>0, <2>2, <2>3, <2>4 DEF Exact
  <2>6. op'[p].stage = "change" =>
          /\ linked'[Current(p).device] \cap Live' \subseteq Needs(p) \cup op[p].unlink
          /\ Needs(p) \cap Live' \subseteq linked'[Current(p).device] \cup op[p].link
    BY <1>1, <2>0, <2>2, <2>3, <2>4 DEF Exact, Needs
  <2>7. ASSUME NEW t \in Done(p)
        PROVE  linked'[t.device] \cap Live' = Wanted(Sees(p), t.van) \cap Live'
    BY <2>0, <2>2, <2>3, <2>4 DEF Exact
  <2> QED
    BY <1>1, <1>2, <1>3, <2>5, <2>6, <2>7 DEF Exact
<1> QED
  BY <1>1, <1>2, <1>4, <1>5 DEF Works

-----------------------------------------------------------------------------
\* The request itself: each of its calls brings the links nearer to what it has read.
LEMMA QuietKeepsOwn ==
  ASSUME Base, Works, NEW o \in Operator, Proceeds(o)
  PROVE  /\ (o \notin crossed \/ <<Current(o).van, "crossed">> \notin unsynced)' => Working(o)'
         /\ o \notin crossed' => Exact(o)'
<1> USE DEF Base
<1> DEFINE d == Current(o).device
<1>0. /\ Frame(o) /\ Continues(o)
      /\ UNCHANGED <<routes, unsynced, crossed>> /\ fences' = fences /\ Live' = Live
  BY SyncContinues DEF Proceeds, Live
<1>1. /\ linked \in [Device -> SUBSET Zone] /\ op[o] \in Op
      /\ op[o].todo \in Seq(Target)
  BY DEF TypeInv, TypeOK, Op
<1>2. /\ d \in Device /\ Current(o) \in op[o].targets /\ op[o].targets \subseteq Target
      /\ \A t \in Done(o) : t.device \in Device /\ t.device # d
  <2>1. \A t, u \in op[o].targets : t # u => t.device # u.device
    BY <1>0, SyncShape DEF Continues
  <2> QED
    BY <1>0, <2>1, SyncShape DEF Continues, Done, Target
<1>3. Live \subseteq zones /\ Live \subseteq fences
  BY DEF ZoneInv, Live
<1>4. Sees(o)' = Sees(o) /\ \A v : Wanted(Sees(o), v)' = Wanted(Sees(o), v)
  <2>1. Sees(o)' = Sees(o)
    BY <1>0 DEF Continues, Carries, Sees, InTransaction
  <2> QED
    BY <2>1 DEF Wanted
<1>5. ASSUME op'[o].todo = op[o].todo
      PROVE  Current(o)' = Current(o) /\ Needs(o)' = Needs(o) /\ Done(o)' = Done(o)
  <2>1. Current(o)' = Current(o)
    BY <1>5 DEF Current
  <2>2. Needs(o)' = Needs(o)
    BY <1>4, <2>1 DEF Needs
  <2>3. Done(o)' = Done(o)
    BY <1>0, <1>5, <2>1 DEF Done, Continues, Carries
  <2> QED
    BY <2>1, <2>2, <2>3
<1>6. o \notin crossed => Working(o) /\ Exact(o)
  BY <1>0 DEF Works, Continues
<1>7. ASSUME op'[o].todo = op[o].todo, Working(o) => Working(o)',
             Working(o) /\ Exact(o) => Exact(o)'
      PROVE  /\ (o \notin crossed \/ <<Current(o).van, "crossed">> \notin unsynced)' => Working(o)'
             /\ o \notin crossed' => Exact(o)'
  BY <1>0, <1>5, <1>6, <1>7 DEF Works, Continues
<1> HIDE DEF d
<1>8. ASSUME linked' = linked, op'[o].todo = op[o].todo
      PROVE  Exact(o) => \A t \in Done(o)' : linked'[t.device] \cap Live' = Wanted(Sees(o), t.van)' \cap Live'
  BY <1>0, <1>4, <1>5, <1>8 DEF Exact
<1>9. CASE QueryRoutes(o)
  <2>1. op'[o].todo = op[o].todo /\ op'[o].stage = "list" /\ op'[o].wanted = Needs(o) /\ linked' = linked
    BY <1>9, QueriedRoutes DEF traccar
  <2>2. Working(o)'
    BY <1>5, <2>1 DEF Working
  <2>3. Exact(o) => Exact(o)'
    BY <1>8, <2>1 DEF Exact
  <2> QED
    BY <1>7, <2>1, <2>2, <2>3
<1>10. CASE ListLinks(o)
  <2>1. /\ op'[o].todo = op[o].todo /\ op[o].stage = "list" /\ op'[o].stage = "managed"
        /\ op'[o].wanted = op[o].wanted /\ op'[o].found = linked[d] /\ linked' = linked
    BY <1>10, ListedLinks DEF traccar, d
  <2>2. Working(o) => Working(o)'
    BY <1>5, <2>1 DEF Working
  <2>3. Exact(o) => Exact(o)'
    BY <1>5, <1>8, <2>1 DEF Exact, d
  <2> QED
    BY <1>7, <2>1, <2>2, <2>3
<1>11. CASE QueryFences(o)
  <2>1. /\ op'[o].todo = op[o].todo /\ op[o].stage = "managed" /\ op'[o].stage = "change"
        /\ op'[o].link = op[o].wanted \ op[o].found
        /\ op'[o].unlink = (op[o].found \cap fences) \ op[o].wanted /\ linked' = linked
    BY <1>11, QueriedFences DEF traccar
  <2>2. Working(o) => op[o].wanted = Needs(o)
    BY <2>1 DEF Working
  <2>3. Working(o) => Working(o)'
    <3>1. Working(o) => op'[o].link \subseteq Needs(o) /\ op'[o].unlink \cap Needs(o) = {}
      BY <2>1, <2>2
    <3> QED
      BY <1>5, <2>1, <3>1 DEF Working
  <2>4. Working(o) /\ Exact(o) => Exact(o)'
    <3> SUFFICES ASSUME Working(o), Exact(o) PROVE Exact(o)'
      OBVIOUS
    <3>1. op[o].found \cap Live = linked[d] \cap Live
      BY <2>1 DEF Exact, d
    <3>2. linked[d] \cap Live \subseteq Needs(o) \cup op'[o].unlink
      BY <1>3, <2>1, <2>2, <3>1
    <3>3. Needs(o) \cap Live \subseteq linked[d] \cup op'[o].link
      BY <2>1, <2>2, <3>1
    <3> QED
      BY <1>0, <1>5, <1>8, <2>1, <3>2, <3>3 DEF Exact, d
  <2> QED
    BY <1>7, <2>1, <2>3, <2>4
<1>12. ASSUME linked' = [linked EXCEPT ![d] = linked'[d]], op'[o].todo = op[o].todo,
              op'[o].stage = "change", op[o].stage = "change", Working(o), Exact(o),
              linked'[d] \cap Live \subseteq Needs(o) \cup op'[o].unlink,
              Needs(o) \cap Live \subseteq linked'[d] \cup op'[o].link
       PROVE  Exact(o)'
  <2>1. \A t \in Done(o) : linked'[t.device] = linked[t.device]
    BY <1>1, <1>2, <1>12
  <2>2. \A t \in Done(o)' : linked'[t.device] \cap Live' = Wanted(Sees(o), t.van)' \cap Live'
    BY <1>0, <1>4, <1>5, <1>12, <2>1 DEF Exact
  <2> QED
    BY <1>0, <1>5, <1>12, <2>2 DEF Exact, d
<1>13. ASSUME NEW z \in Zone, Link(o, z)
       PROVE  /\ (o \notin crossed \/ <<Current(o).van, "crossed">> \notin unsynced)' => Working(o)'
              /\ o \notin crossed' => Exact(o)'
  <2>1. /\ op'[o].todo = op[o].todo /\ op[o].stage = "change" /\ op'[o].stage = "change"
        /\ z \in op[o].link /\ op'[o].link = op[o].link \ {z} /\ op'[o].unlink = op[o].unlink
        /\ PostLink(d, z)
    BY <1>13, Linked DEF d
  <2>2. linked'[d] = linked[d] \cup ({z} \cap zones) /\ linked' = [linked EXCEPT ![d] = linked'[d]]
    BY <1>1, <1>2, <2>1 DEF PostLink
  <2>3. Working(o) => op[o].link \subseteq Needs(o) /\ op[o].unlink \cap Needs(o) = {}
    BY <2>1 DEF Working
  <2>4. Working(o) => Working(o)'
    <3>1. Working(o) => op'[o].link \subseteq Needs(o) /\ op'[o].unlink \cap Needs(o) = {}
      BY <2>1, <2>3
    <3> QED
      BY <1>5, <2>1, <3>1 DEF Working
  <2>5. Working(o) /\ Exact(o) => Exact(o)'
    <3> SUFFICES ASSUME Working(o), Exact(o) PROVE Exact(o)'
      OBVIOUS
    <3>1. /\ linked[d] \cap Live \subseteq Needs(o) \cup op[o].unlink
          /\ Needs(o) \cap Live \subseteq linked[d] \cup op[o].link
      BY <2>1 DEF Exact, d
    <3>2. linked'[d] \cap Live \subseteq Needs(o) \cup op'[o].unlink
      BY <2>1, <2>2, <2>3, <3>1
    <3>3. Needs(o) \cap Live \subseteq linked'[d] \cup op'[o].link
      BY <1>3, <2>1, <2>2, <3>1
    <3> QED
      BY <1>12, <2>1, <2>2, <3>2, <3>3
  <2> QED
    BY <1>7, <2>1, <2>4, <2>5
<1>14. ASSUME NEW z \in Zone, Unlink(o, z)
       PROVE  /\ (o \notin crossed \/ <<Current(o).van, "crossed">> \notin unsynced)' => Working(o)'
              /\ o \notin crossed' => Exact(o)'
  <2>1. /\ op'[o].todo = op[o].todo /\ op[o].stage = "change" /\ op'[o].stage = "change"
        /\ z \in op[o].unlink /\ op'[o].link = op[o].link /\ op'[o].unlink = op[o].unlink \ {z}
        /\ DeleteLink(d, z)
    BY <1>14, Unlinked DEF d
  <2>2. linked'[d] = linked[d] \ {z} /\ linked' = [linked EXCEPT ![d] = linked'[d]]
    BY <1>1, <1>2, <2>1 DEF DeleteLink
  <2>3. Working(o) => op[o].link \subseteq Needs(o) /\ op[o].unlink \cap Needs(o) = {}
    BY <2>1 DEF Working
  <2>4. Working(o) => Working(o)'
    <3>1. Working(o) => op'[o].link \subseteq Needs(o) /\ op'[o].unlink \cap Needs(o) = {}
      BY <2>1, <2>3
    <3> QED
      BY <1>5, <2>1, <3>1 DEF Working
  <2>5. Working(o) /\ Exact(o) => Exact(o)'
    <3> SUFFICES ASSUME Working(o), Exact(o) PROVE Exact(o)'
      OBVIOUS
    <3>1. /\ linked[d] \cap Live \subseteq Needs(o) \cup op[o].unlink
          /\ Needs(o) \cap Live \subseteq linked[d] \cup op[o].link
      BY <2>1 DEF Exact, d
    <3>2. linked'[d] \cap Live \subseteq Needs(o) \cup op'[o].unlink
      BY <2>1, <2>2, <3>1
    <3>3. Needs(o) \cap Live \subseteq linked'[d] \cup op'[o].link
      BY <2>1, <2>2, <2>3, <3>1
    <3> QED
      BY <1>12, <2>1, <2>2, <3>2, <3>3
  <2> QED
    BY <1>7, <2>1, <2>4, <2>5
<1>15. CASE NextVan(o)
  <2>1. /\ op'[o].stage = "sync" /\ Len(op'[o].todo) = 1 /\ Head(op'[o].todo) = op[o].todo[2]
        /\ op[o].targets = {Current(o), op[o].todo[2]} /\ linked' = linked
        /\ op[o].stage = "change" /\ op[o].link = {} /\ op[o].unlink = {}
    BY <1>15, NextVanTaken DEF traccar, Changed, Current
  <2>2. Working(o)'
    BY <2>1 DEF Working
  <2>3. Done(o)' \subseteq {Current(o)}
    BY <1>0, <2>1 DEF Done, Current, Continues, Carries
  <2>4. Exact(o) => Exact(o)'
    <3> SUFFICES ASSUME Exact(o) PROVE Exact(o)'
      OBVIOUS
    <3>1. linked[d] \cap Live = Needs(o) \cap Live
      <4>1. /\ linked[d] \cap Live \subseteq Needs(o) \cup op[o].unlink
            /\ Needs(o) \cap Live \subseteq linked[d] \cup op[o].link
        BY <2>1 DEF Exact, d
      <4> QED
        BY <2>1, <4>1
    <3>2. \A t \in Done(o)' : linked'[t.device] \cap Live' = Wanted(Sees(o), t.van)' \cap Live'
      BY <1>0, <1>4, <2>1, <2>3, <3>1 DEF Needs, d
    <3> QED
      BY <2>1, <3>2 DEF Exact
  <2> QED
    BY <1>0, <1>6, <2>2, <2>4
<1> QED
  BY <1>9, <1>10, <1>11, <1>13, <1>14, <1>15 DEF Proceeds

LEMMA QuietKeepsWorks ==
  ASSUME Base, Kept, Works, NEW o \in Operator, Proceeds(o) \/ Stops(o)
  PROVE  Works'
<1>1. ASSUME NEW p \in Operator, InSync(p)'
      PROVE  /\ (p \notin crossed \/ <<Current(p).van, "crossed">> \notin unsynced)' => Working(p)'
             /\ p \notin crossed' => Exact(p)'
  <2>1. CASE p # o
    <3>1. InSync(p)
      BY <1>1, <2>1, QuietFrame DEF Frame, InSync
    <3> QED
      BY <2>1, <3>1, QuietKeepsOthers
  <2>2. CASE p = o
    <3>1. Proceeds(o)
      <4> SUFFICES ASSUME Stops(o) PROVE FALSE
        OBVIOUS
      <4>1. Rests(o)
        BY RequestRests DEF Stops, Base
      <4> QED
        BY <1>1, <2>2, <4>1 DEF Rests, Leaves
    <3> QED
      BY <2>2, <3>1, QuietKeepsOwn
  <2> QED
    BY <2>1, <2>2
<1> QED
  BY <1>1 DEF Works

\* The links: what a sync does to those of its tracker is right, as far as nothing casts
\* doubt on them.
LEMMA QuietKeepsLinks ==
  ASSUME Base, Marks, Works, Links, NEW o \in Operator, Proceeds(o) \/ Stops(o)
  PROVE  Links'
<1> USE DEF Base
<1>1. routes' = routes /\ device' = device /\ unsynced' = unsynced
  BY QuietFrame
<1> SUFFICES ASSUME NEW v \in Van
             PROVE  /\ Clean(v) => linked'[device[v]] \cap Live' = Wanted(routes, v) \cap Live'
                    /\ Sound(v) => Wanted(routes, v) \cap Live' \subseteq linked'[device[v]]
  BY <1>1 DEF Links, Clean, Sound
<1>2. device[v] \in Device
  BY DEF TypeInv, TypeOK
<1>3. CASE Alike(device[v])
  <2>1. \A z \in Unheard : z \notin linked[device[v]] /\ z \notin Wanted(routes, v)
    BY <1>2, UnheardNotWanted DEF Fresh
  <2>2. \A z \in Live' : /\ z \in linked'[device[v]] <=> z \in linked[device[v]]
                         /\ z \in Live \/ z \in Unheard
    BY <1>3 DEF Alike
  <2> QED
    BY <2>1, <2>2 DEF Links
<1>4. CASE ~Alike(device[v])
  <2> DEFINE d == device[v]
  <2>1. /\ InSync(o) /\ d = Current(o).device /\ Live' = Live
        /\ \/ linked[d] \subseteq linked'[d]
           \/ op[o].stage = "change" /\ \E z \in op[o].unlink : linked'[d] = linked[d] \ {z}
    BY <1>2, <1>4, LinkEffect
  <2>2. Marked(o) /\ Current(o) \in op[o].targets /\ Current(o).van \in Vans(o) /\ op[o].kind \in Kind
    BY <2>1, SyncShape DEF Marks
  <2>3. ~Clean(v)
    BY <2>1, <2>2 DEF Marked, Clean, Cause
  <2>4. ASSUME Sound(v) PROVE Wanted(routes, v) \cap Live \subseteq linked'[d]
    <3>1. v = Current(o).van /\ op[o].kind # "update"
      BY <2>1, <2>2, <2>4 DEF Marked, Sound
    <3>2. Working(o)
      BY <2>1, <2>4, <3>1 DEF Works, Sound
    <3>3. ASSUME NEW z, z \in Wanted(routes, v) PROVE z \in Needs(o)
      <4>1. PICK r \in Route : routes[r] # None /\ routes[r].van = v /\ z \in ZonesOf(routes[r])
        BY <3>3, WantedZone
      <4>2. Sees(o)[r] = routes[r]
        BY <2>2, <3>1, <4>1 DEF Sees, InTransaction, Kind, Locked
      <4> QED
        BY <3>1, <4>1, <4>2, WantedZone DEF Needs
    <3>4. op[o].stage = "change" => \A z \in op[o].unlink : z \notin Wanted(routes, v)
      BY <3>2, <3>3 DEF Working
    <3>5. Wanted(routes, v) \cap Live \subseteq linked[d]
      BY <2>4 DEF Links
    <3> QED
      BY <2>1, <3>4, <3>5
  <2> QED
    BY <2>1, <2>3, <2>4
<1> QED
  BY <1>3, <1>4

-----------------------------------------------------------------------------
LinksInv == Base /\ Kept /\ Marks /\ Works /\ Links

LEMMA InitLinks == Init => LinksInv
<1> SUFFICES ASSUME Init PROVE LinksInv
  OBVIOUS
<1>1. TypeInv /\ ZoneInv /\ RoutesFenced
  BY InitType, InitZones
<1>2. \A o \in Operator : op[o] = Idle
  BY DEF Init
<1>3. /\ \A o \in Operator : ~InSync(o) /\ ~InTransaction(o)
      /\ \A o \in Operator : op[o].stage = "idle" /\ op[o].wanted = {} /\ op[o].found = {} /\ op[o].link = {}
  BY <1>2 DEF Idle, InSync, InTransaction
<1>4. OneTracker /\ Shaped /\ Locked
  <2>1. OneTracker
    BY DEF Init, OneTracker
  <2> QED
    BY <1>3, <2>1 DEF Shaped, Shape, RouteStage, Locked
<1>5. Live = fences /\ fences \cap Handmade = {} /\ used = Handmade \cup fences
  BY FleetConstantsOK DEF Init, Live
<1>6. \A v \in Van : Wanted(routes, v) \subseteq fences
  BY <1>1, WantedZone DEF RoutesFenced
<1>7. Fresh
  <2>1. \A z \in Unheard : z \notin Handmade /\ z \notin fences
    BY <1>3, <1>5 DEF Unheard
  <2>2. \A d \in Device : linked[d] \subseteq Handmade \cup fences
    BY <1>6 DEF Init
  <2> QED
    BY <1>3, <2>1, <2>2 DEF Fresh
<1>8. Links
  <2> SUFFICES ASSUME NEW v \in Van PROVE linked[device[v]] \cap fences = Wanted(routes, v) \cap fences
    BY <1>5 DEF Links
  <2>1. device[v] \in Device
    BY <1>1 DEF TypeInv, TypeOK
  <2>2. {u \in Van : device[u] = device[v]} = {v}
    BY <1>4 DEF OneTracker
  <2>3. linked[device[v]] =
          Handmade \cup UNION {Wanted(routes, w) : w \in {u \in Van : device[u] = device[v]}}
    BY <2>1 DEF Init
  <2>4. linked[device[v]] = Handmade \cup Wanted(routes, v)
    BY <2>2, <2>3
  <2> QED
    BY <1>5, <2>4
<1> QED
  BY <1>1, <1>3, <1>4, <1>7, <1>8 DEF LinksInv, Base, Kept, Marks, Works

LEMMA StutterKeepsLinks ==
  ASSUME Kept, Marks, Works, Links, UNCHANGED vars
  PROVE  Kept' /\ Marks' /\ Works' /\ Links'
<1>1. UNCHANGED <<routes, device, linked, op, unsynced, crossed>> /\ Live' = Live
  BY DEF vars, tables, traccar, ghosts, Live
<1>2. \A o \in Operator : /\ InSync(o)' <=> InSync(o)
                          /\ Vans(o)' = Vans(o) /\ OldVan(o)' = OldVan(o) /\ Current(o)' = Current(o)
                          /\ Sees(o)' = Sees(o) /\ Done(o)' = Done(o)
  BY <1>1 DEF InSync, Vans, OldVan, InTransaction, Sees, Current, Done
<1>3. Kept'
  BY <1>1, <1>2 DEF Kept, Apart
<1>4. Marks'
  BY <1>1, <1>2 DEF Marks, Marked, MarkedBoth
<1>5. \A o \in Operator : Needs(o)' = Needs(o) /\ \A w : Wanted(Sees(o), w)' = Wanted(Sees(o), w)
  BY <1>2 DEF Needs, Wanted
<1>6. \A o \in Operator : (Working(o) => Working(o)') /\ (Exact(o) => Exact(o)')
  BY <1>1, <1>2, <1>5 DEF Working, Exact
<1>7. Works'
  BY <1>1, <1>2, <1>6 DEF Works
<1>8. Links'
  <2>1. \A v \in Van : (Clean(v)' => Clean(v)) /\ (Sound(v)' => Sound(v))
    BY <1>1 DEF Clean, Sound
  <2>2. routes' = routes /\ device' = device /\ linked' = linked
    BY <1>1
  <2> QED
    BY <1>1, <2>1, <2>2 DEF Links
<1> QED
  BY <1>3, <1>4, <1>7, <1>8

LEMMA LinksStep == LinksInv /\ [Next]_vars => LinksInv'
<1> SUFFICES ASSUME LinksInv, [Next]_vars PROVE LinksInv'
  OBVIOUS
<1> USE DEF LinksInv
<1>1. Base'
  BY BaseStep
<1>2. ASSUME NEW o \in Operator, Proceeds(o) \/ Stops(o) PROVE LinksInv'
  BY <1>1, <1>2, QuietKeepsMarks, QuietKeepsWorks, QuietKeepsLinks
<1>3. ASSUME NEW o \in Operator, RouteRequest(o) \/ Sync(o) \/ FenceRequest(o) PROVE LinksInv'
  <2>1. CASE Save(o) \/ Delete(o) \/ \E r \in Route, row \in Row : Create(o, r, row)
    BY <1>1, <2>1, StartKeeps
  <2>2. CASE Finish(o)
    BY <1>1, <2>2, FinishKeeps
  <2> QED
    BY <1>2, <1>3, <2>1, <2>2, StepCases
<1>4. ASSUME NEW v \in Van, NEW d \in Device, ChangeImei(v, d) PROVE LinksInv'
  BY <1>1, <1>4, ImeiKeeps
<1>5. CASE UNCHANGED vars
  BY <1>1, <1>5, StutterKeepsLinks
<1> QED
  BY <1>3, <1>4, <1>5 DEF Next

LEMMA LinksHold == Spec => []LinksInv
BY InitLinks, LinksStep, PTL DEF Spec

\* fleet/views.py:21, "exactly the zones its routes use": once the last request that
\* changed a van's routes has got through with no other in its way, the tracker of the van
\* is linked to those zones and to no other of ours, whatever was left undone before.
THEOREM LinksAreSynced == Spec => []LinksFollowRoutes
<1>1. LinksInv => LinksFollowRoutes
  <2> SUFFICES ASSUME LinksInv, NEW v \in Van, \A c \in Cause : <<v, c>> \notin unsynced
               PROVE  (linked[device[v]] \cap fences) \ revived = Wanted(routes, v) \ revived
    BY DEF LinksFollowRoutes
  <2>1. linked[device[v]] \cap Live = Wanted(routes, v) \cap Live
    BY DEF LinksInv, Links, Clean
  <2>2. Wanted(routes, v) \subseteq fences
    BY WantedZone DEF LinksInv, Base, RoutesFenced
  <2> QED
    BY <2>1, <2>2 DEF Live
<1> QED
  BY <1>1, LinksHold, PTL

\* fleet/views.py:60, "a route whose zones aren't linked to the van's tracker would silently
\* never fire arrival events": creations and deletions, alone or failing at any call, never
\* leave such a route.
THEOREM CreatedLinks == Spec => []CreatedRoutesAreLinked
<1>1. LinksInv => CreatedRoutesAreLinked
  <2> SUFFICES ASSUME LinksInv, NEW v \in Van,
                      {<<v, "update">>, <<v, "crossed">>, <<v, "imei">>} \cap unsynced = {}
               PROVE  Wanted(routes, v) \ revived \subseteq linked[device[v]]
    BY DEF CreatedRoutesAreLinked
  <2>1. Sound(v)
    BY DEF Sound
  <2>2. Wanted(routes, v) \cap Live \subseteq linked[device[v]]
    BY <2>1 DEF LinksInv, Links
  <2>3. Wanted(routes, v) \subseteq fences
    BY WantedZone DEF LinksInv, Base, RoutesFenced
  <2> QED
    BY <2>2, <2>3 DEF Live
<1> QED
  BY <1>1, LinksHold, PTL

-----------------------------------------------------------------------------
\* The promise of VanLinks.

\* A mark goes only with all others of its van.
LEMMA MarksGoTogether ==
  ASSUME Base, [Next]_vars, NEW v \in Van
  PROVE  Clean(v)' \/ \A c : <<v, c>> \in unsynced => <<v, c>> \in unsynced'
<1> USE DEF Base
<1>1. ASSUME NEW o \in Operator, RouteRequest(o) \/ Sync(o) \/ FenceRequest(o)
      PROVE  Clean(v)' \/ \A c : <<v, c>> \in unsynced => <<v, c>> \in unsynced'
  <2>1. CASE Proceeds(o) \/ Stops(o)
    BY <2>1, QuietFrame
  <2>2. CASE Save(o) \/ Delete(o) \/ \E r \in Route, row \in Row : Create(o, r, row)
    <3>1. PICK q : Begin(o, q)
      BY <2>2, Started
    <3> QED
      BY <3>1 DEF Begin
  <2>3. CASE Finish(o)
    BY <2>3 DEF Finish, Clean
  <2> QED
    BY <1>1, <2>1, <2>2, <2>3, StepCases
<1>2. CASE UNCHANGED vars \/ \E w \in Van, d \in Device : ChangeImei(w, d)
  BY <1>2 DEF ChangeImei, vars, ghosts
<1> QED
  BY <1>1, <1>2 DEF Next

\* A change of the rows that matters to a van leaves a mark on it until then or after.
LEMMA CleanNeedsStay ==
  ASSUME LinksInv, [Next]_vars, NEW v \in Van, Clean(v), Clean(v)'
  PROVE  Wanted(routes', v) = Wanted(routes, v)
<1> USE DEF LinksInv
<1>1. CASE routes' = routes
  BY <1>1
<1>2. ASSUME NEW o \in Operator, Finish(o) PROVE Wanted(routes', v) = Wanted(routes, v)
  <2>1. v \notin Vans(o) \cup OldVan(o)
    <3>1. InSync(o) /\ op[o].kind \in Kind
      BY <1>2, Finished, SyncShape DEF Base
    <3> QED
      BY <3>1 DEF Marks, Marked, Clean, Cause
  <2> QED
    BY <1>2, <2>1, CommittedRow
<1>3. ASSUME NEW o \in Operator,
             Save(o) \/ Delete(o) \/ \E r \in Route, row \in Row : Create(o, r, row)
      PROVE  Wanted(routes', v) = Wanted(routes, v)
  <2>1. PICK q : Begin(o, q) /\ op'[o] = q
    BY <1>3, Started DEF Base
  <2>2. q.route \in Route /\ q.kind \in Kind
    <3>1. op'[o].stage = "sync" /\ op'[o].route \in Route
      BY <1>3, Started DEF Base
    <3>2. Shaped'
      BY BaseStep DEF Base
    <3> QED
      BY <2>1, <3>1, <3>2 DEF Shaped, Shape, RouteStage
  <2>3. v \notin Touches(q)
    BY <2>1, <2>2 DEF Begin, Clean, Cause
  <2>4. \A r \in Route : routes'[r] # routes[r] => r = q.route /\ routes'[r] = None
    BY <1>3, <2>1, Started DEF Base, TypeInv, TypeOK
  <2>5. \A r \in Route : r = q.route /\ routes[r] # None => routes[r].van # v
    BY <2>3 DEF Touches
  <2> QED
    BY <2>4, <2>5, WantedLocal
<1>4. ASSUME NEW o \in Operator, Proceeds(o) \/ Stops(o) PROVE routes' = routes
  BY <1>4, QuietFrame
<1>5. CASE UNCHANGED vars \/ \E w \in Van, d \in Device : ChangeImei(w, d)
  BY <1>1, <1>5 DEF ChangeImei, vars, tables
<1> QED
  BY <1>1, <1>2, <1>3, <1>4, <1>5, StepCases DEF Next

\* An update that inserts a fence again does not touch what is needed.
LEMMA RevivedNotNeeded ==
  ASSUME Base, [Next]_vars, NEW v
  PROVE  Wanted(routes, v) \cap revived' = Wanted(routes, v) \cap revived
<1> USE DEF Base
<1>1. Wanted(routes, v) \subseteq fences
  BY WantedZone DEF RoutesFenced
<1>2. CASE revived' = revived
  BY <1>2
<1>3. ASSUME NEW o \in Operator, SavePatch(o)
      PROVE  Wanted(routes, v) \cap revived' = Wanted(routes, v) \cap revived
  BY <1>1, <1>3 DEF SavePatch
<1>4. ASSUME NEW o \in Operator, RouteRequest(o) \/ Sync(o) PROVE revived' = revived
  BY <1>4 DEF RouteRequest, Create, UpdateRead, DestroyRead, Save, SaveRefused, Delete, Sync,
     QueryRoutes, ListLinks, QueryFences, Link, Unlink, NextVan, Finish, CommitRefused, Fail,
     AnswerLost, ghosts
<1>5. ASSUME NEW o \in Operator, FenceRequest(o), ~SavePatch(o) PROVE revived' = revived
  BY <1>5 DEF FenceRequest, PostZone, PatchFence, DropFence, SaveFence, DeleteZone, FenceFails, ghosts
<1>6. CASE UNCHANGED vars \/ \E w \in Van, d \in Device : ChangeImei(w, d)
  BY <1>2, <1>6 DEF ChangeImei, vars, ghosts
<1> QED
  BY <1>2, <1>3, <1>4, <1>5, <1>6 DEF Next

\* What the mapping makes of the marks, and of Links.
Mapped ==
  /\ NeedsOf \in [Van -> SUBSET Zone] /\ LinksOf \in [Van -> SUBSET Zone]
  /\ TrustOf \in [Van -> Promise!Trust]
  /\ \A v \in Van :
       /\ TrustOf[v] = IF Clean(v) THEN "exact" ELSE IF Sound(v) THEN "covers" ELSE "none"
       /\ Clean(v) => LinksOf[v] = NeedsOf[v]
       /\ Sound(v) => NeedsOf[v] \subseteq LinksOf[v]

LEMMA TrustMeans == LinksInv => Mapped
<1> SUFFICES ASSUME LinksInv PROVE Mapped
  OBVIOUS
<1>1. ASSUME NEW v \in Van
      PROVE  /\ TrustOf[v] = IF Clean(v) THEN "exact" ELSE IF Sound(v) THEN "covers" ELSE "none"
             /\ NeedsOf[v] \subseteq Zone /\ LinksOf[v] \subseteq Zone
             /\ Clean(v) => LinksOf[v] = NeedsOf[v]
             /\ Sound(v) => NeedsOf[v] \subseteq LinksOf[v]
  <2>1. TrustOf[v] = IF Clean(v) THEN "exact" ELSE IF Sound(v) THEN "covers" ELSE "none"
    BY DEF TrustOf, Clean, Sound
  <2>2. NeedsOf[v] = Wanted(routes, v) \ revived /\ LinksOf[v] = linked[device[v]] \cap Live
    BY DEF NeedsOf, LinksOf, Live
  <2>3. Wanted(routes, v) \subseteq fences /\ fences \subseteq Zone
    BY WantedZone DEF LinksInv, Base, RoutesFenced, TypeInv, TypeOK, Zone
  <2>4. NeedsOf[v] = Wanted(routes, v) \cap Live /\ Live \subseteq Zone
    BY <2>2, <2>3 DEF Live
  <2> QED
    BY <2>1, <2>2, <2>4 DEF LinksInv, Links
<1>2. /\ NeedsOf \in [Van -> SUBSET Zone] /\ LinksOf \in [Van -> SUBSET Zone]
      /\ TrustOf \in [Van -> Promise!Trust]
  BY <1>1 DEF NeedsOf, LinksOf, TrustOf, Promise!Trust
<1> QED
  BY <1>1, <1>2 DEF Mapped

LEMMA StepKeepsPromise ==
  ASSUME LinksInv, LinksInv', [Next]_vars, NEW v \in Van
  PROVE  Promise!Keep(v) \/ Promise!Cover(v) \/ Promise!Lose(v) \/ Promise!Settle(v)
<1>1. Mapped /\ Mapped'
  BY TrustMeans, PTL
<1>2. /\ TrustOf[v] = IF Clean(v) THEN "exact" ELSE IF Sound(v) THEN "covers" ELSE "none"
      /\ TrustOf'[v] = IF Clean(v)' THEN "exact" ELSE IF Sound(v)' THEN "covers" ELSE "none"
      /\ Clean(v) => LinksOf[v] = NeedsOf[v]
      /\ Clean(v)' => LinksOf'[v] = NeedsOf'[v]
      /\ Sound(v)' => NeedsOf'[v] \subseteq LinksOf'[v]
  BY <1>1 DEF Mapped
<1>3. CASE Clean(v) /\ Clean(v)'
  <2>1. NeedsOf'[v] = NeedsOf[v]
    <3>1. NeedsOf[v] = Wanted(routes, v) \ revived /\ NeedsOf'[v] = Wanted(routes', v) \ revived'
      BY DEF NeedsOf
    <3>2. Wanted(routes', v) = Wanted(routes, v)
      BY <1>3, CleanNeedsStay
    <3>3. Wanted(routes, v) \cap revived' = Wanted(routes, v) \cap revived
      BY RevivedNotNeeded DEF LinksInv
    <3> QED
      BY <3>1, <3>2, <3>3
  <2> QED
    BY <1>2, <1>3, <2>1 DEF Promise!Keep
<1>4. CASE ~Clean(v) /\ Clean(v)'
  BY <1>2, <1>4 DEF Promise!Settle
<1>5. CASE ~Clean(v)' /\ Sound(v)'
  <2>1. Clean(v) \/ Sound(v)
    <3>1. \A c : <<v, c>> \in unsynced => <<v, c>> \in unsynced'
      BY <1>5, MarksGoTogether DEF LinksInv
    <3> QED
      BY <1>5, <3>1 DEF Sound
  <2> QED
    BY <1>2, <1>5, <2>1 DEF Promise!Cover
<1>6. CASE ~Clean(v)' /\ ~Sound(v)'
  BY <1>2, <1>6 DEF Promise!Lose
<1> QED
  BY <1>3, <1>4, <1>5, <1>6

\* The requests, call by call, in any number and overlap and with any failures, implement
\* VanLinks: no van's needs or links change unless doubt has been cast on it first, and
\* doubt goes only when a sync has made its links right.
THEOREM FleetImplementsVanLinks == Spec => ImplementsVanLinks
<1>1. Init /\ LinksInv => Promise!Init
  <2> SUFFICES ASSUME Init, LinksInv PROVE Promise!Init
    OBVIOUS
  <2>1. \A v \in Van : Clean(v)
    BY DEF Init, Clean
  <2>2. Mapped
    BY TrustMeans
  <2>3. TrustOf = [v \in Van |-> "exact"]
    BY <2>1, <2>2 DEF Mapped, TrustOf
  <2>4. LinksOf = NeedsOf /\ NeedsOf \in [Van -> SUBSET Zone]
    BY <2>1, <2>2 DEF Mapped, LinksOf, NeedsOf
  <2> QED
    BY <2>3, <2>4 DEF Promise!Init
<1>2. LinksInv /\ LinksInv' /\ [Next]_vars => [Promise!Next]_(Promise!vars)
  <2> SUFFICES ASSUME LinksInv, LinksInv', [Next]_vars PROVE Promise!Next
    OBVIOUS
  <2>1. \A v \in Van : Promise!Keep(v) \/ Promise!Cover(v) \/ Promise!Lose(v) \/ Promise!Settle(v)
    BY StepKeepsPromise
  <2>2. Mapped'
    BY TrustMeans, PTL
  <2> QED
    BY <2>1, <2>2 DEF Mapped, Promise!Next
<1> QED
  BY <1>1, <1>2, InitLinks, LinksStep, PTL DEF Spec, ImplementsVanLinks, Promise!Spec
=============================================================================
