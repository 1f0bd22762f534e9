-------------------------- MODULE FleetSyncProofs ---------------------------
(***************************************************************************)
(* Theorems about FleetSync for every fleet, any number of operators and   *)
(* every value of the bounds.                                              *)
(***************************************************************************)
EXTENDS FleetSync, TLAPS

Fenced == School \cup Gym

FenceStage == {"posted", "patched", "dropped"}
RouteStage == {"read", "sync", "list", "managed", "change"}

\* What is known of a request by itself: it unlinks, makes and deletes zones of fences,
\* and has a van to sync.
Proper(q) ==
  /\ q.stage \in RouteStage => Len(q.todo) > 0
  /\ q.unlink \subseteq Fenced
  /\ q.stage \in FenceStage => q.zone \in Fenced

TypeInv == TypeOK /\ \A o \in Operator : Proper(op[o])

LEMMA IdleType == Idle \in Op /\ Proper(Idle)
BY DEF Idle, Op, Stage, Proper, FenceStage, RouteStage

LEMMA RequestStep ==
  ASSUME TypeInv, NEW o \in Operator, NEW q \in Op, Proper(q), Goto(o, q)
  PROVE  /\ op' \in [Operator -> Op]
         /\ \A p \in Operator : Proper(op'[p])
         /\ \A p \in Operator : op'[p] = IF p = o THEN q ELSE op[p]
<1>1. op' = [op EXCEPT ![o] = q] /\ op \in [Operator -> Op]
  BY DEF Goto, TypeInv, TypeOK
<1>2. \A p \in Operator : op'[p] = IF p = o THEN q ELSE op[p]
  BY <1>1
<1> QED
  BY <1>1, <1>2 DEF TypeInv

LEMMA TargetType ==
  ASSUME TypeInv, NEW v \in Van
  PROVE  TargetOf(v) \in Target
BY DEF TargetOf, Target, TypeInv, TypeOK

LEMMA SeesType ==
  ASSUME TypeInv, NEW o \in Operator
  PROVE  Sees(o) \in [Route -> Row \cup {None}]
BY DEF Sees, TypeInv, TypeOK, Op

LEMMA WantedType ==
  ASSUME NEW rows \in [Route -> Row \cup {None}], NEW v
  PROVE  Wanted(rows, v) \subseteq Fenced
<1>1. \A row \in Row : ZonesOf(row) \subseteq Fenced
  BY DEF Row, ZonesOf, Fenced
<1> QED
  BY <1>1 DEF Wanted

LEMMA BeginType ==
  ASSUME TypeInv, NEW o \in Operator, NEW q \in Op, Proper(q), q.kind \in Kind, Begin(o, q)
  PROVE  /\ op' \in [Operator -> Op]
         /\ \A p \in Operator : Proper(op'[p])
         /\ unsynced' \subseteq Van \X Cause
         /\ crossed' \subseteq Operator
<1>1. Goto(o, q)
  BY DEF Begin
<1>2. crossed' \subseteq Operator
  BY DEF Begin, TypeInv, TypeOK
<1>3. Touches(q) \subseteq Van /\ Exposed(q) \subseteq Van
  BY DEF Touches, Exposed
<1>4. q.kind \in Cause /\ "imei" \in Cause /\ "crossed" \in Cause
  BY DEF Cause
<1>5. unsynced \subseteq Van \X Cause
  BY DEF TypeInv, TypeOK
<1>6. unsynced' \subseteq Van \X Cause
  BY <1>3, <1>4, <1>5 DEF Begin
<1> QED
  BY <1>1, <1>2, <1>6, RequestStep

LEMMA InitType == Init => TypeInv
<1> SUFFICES ASSUME Init PROVE TypeInv
  OBVIOUS
<1>1. routes \in [Route -> Row \cup {None}] /\ fences \subseteq Fenced /\ device \in [Van -> Device]
  BY DEF Init, Fenced
<1>2. linked \in [Device -> SUBSET Zone]
  <2>1. \A v \in Van : Wanted(routes, v) \subseteq Zone
    BY <1>1, WantedType DEF Fenced, Zone
  <2> QED
    BY <2>1 DEF Init, Zone
<1>3. op \in [Operator -> Op] /\ \A o \in Operator : op[o] = Idle
  BY IdleType DEF Init
<1> QED
  BY <1>1, <1>2, <1>3, IdleType, FleetConstantsOK DEF Init, TypeInv, TypeOK, Fenced, Zone

\* The write of a route's row, and the reads before it.
LEMMA RouteRequestTypes ==
  ASSUME TypeInv, NEW o \in Operator, RouteRequest(o)
  PROVE  TypeInv'
<1>1. CASE \E r \in Route, row \in Row : Create(o, r, row)
  <2>1. PICK r \in Route, row \in Row : Create(o, r, row)
    BY <1>1
  <2> DEFINE q == [Idle EXCEPT !.stage = "sync", !.kind = "create", !.route = r, !.row = row,
                     !.todo = <<TargetOf(row.van)>>, !.targets = {TargetOf(row.van)}]
  <2>2. TargetOf(row.van) \in Target /\ <<TargetOf(row.van)>> \in Seq(Target) /\ Len(<<TargetOf(row.van)>>) > 0
    BY TargetType DEF Row
  <2>3. q \in Op /\ Proper(q) /\ q.kind \in Kind
    BY <2>2 DEF Idle, Op, Stage, Kind, Proper, FenceStage, RouteStage
  <2>4. Begin(o, q)
    BY <2>1 DEF Create
  <2>5. requests' \in 0..MaxRequests
    BY <2>1, FleetConstantsOK DEF Create, NewRequest, TypeInv, TypeOK
  <2> HIDE DEF q
  <2> QED
    BY <2>1, <2>3, <2>4, <2>5, BeginType
    DEF Create, tables, traccar, TypeInv, TypeOK
<1>2. CASE \E r \in Route, row \in Row : UpdateRead(o, r, row)
  <2>1. PICK r \in Route, row \in Row : UpdateRead(o, r, row)
    BY <1>2
  <2> DEFINE q == [Idle EXCEPT !.stage = "read", !.kind = "update", !.route = r, !.row = row,
                     !.todo = Targets(routes[r], row),
                     !.targets = {TargetOf(routes[r].van), TargetOf(row.van)}]
  <2>2. TargetOf(row.van) \in Target /\ TargetOf(routes[r].van) \in Target
    BY <2>1, TargetType DEF Row, UpdateRead, TypeInv, TypeOK
  <2>3. Targets(routes[r], row) \in Seq(Target) /\ Len(Targets(routes[r], row)) > 0
    BY <2>2 DEF Targets
  <2>4. q \in Op /\ Proper(q)
    BY <2>2, <2>3 DEF Idle, Op, Stage, Kind, Proper, FenceStage, RouteStage
  <2>5. Goto(o, q)
    BY <2>1 DEF UpdateRead
  <2>6. requests' \in 0..MaxRequests
    BY <2>1, FleetConstantsOK DEF UpdateRead, NewRequest, TypeInv, TypeOK
  <2> HIDE DEF q
  <2> QED
    BY <2>1, <2>4, <2>5, <2>6, RequestStep
    DEF UpdateRead, tables, traccar, ghosts, TypeInv, TypeOK
<1>3. CASE \E r \in Route : DestroyRead(o, r)
  <2>1. PICK r \in Route : DestroyRead(o, r)
    BY <1>3
  <2> DEFINE q == [Idle EXCEPT !.stage = "read", !.kind = "destroy", !.route = r,
                     !.todo = <<TargetOf(routes[r].van)>>,
                     !.targets = {TargetOf(routes[r].van)}]
  <2>2. /\ TargetOf(routes[r].van) \in Target
        /\ <<TargetOf(routes[r].van)>> \in Seq(Target) /\ Len(<<TargetOf(routes[r].van)>>) > 0
    BY <2>1, TargetType DEF Row, DestroyRead, TypeInv, TypeOK
  <2>3. q \in Op /\ Proper(q)
    BY <2>2 DEF Idle, Op, Stage, Kind, Proper, FenceStage, RouteStage
  <2>4. Goto(o, q)
    BY <2>1 DEF DestroyRead
  <2>5. requests' \in 0..MaxRequests
    BY <2>1, FleetConstantsOK DEF DestroyRead, NewRequest, TypeInv, TypeOK
  <2> HIDE DEF q
  <2> QED
    BY <2>1, <2>3, <2>4, <2>5, RequestStep
    DEF DestroyRead, tables, traccar, ghosts, TypeInv, TypeOK
<1>4. CASE Save(o) \/ Delete(o)
  <2> DEFINE q == [op[o] EXCEPT !.stage = "sync"]
  <2>0. op[o] \in Op /\ Proper(op[o]) /\ op[o].kind \in Kind /\ op[o].stage = "read"
    BY <1>4 DEF TypeInv, TypeOK, Kind, Save, Delete
  <2>1. q \in Op /\ Proper(q) /\ q.kind \in Kind
    BY <2>0 DEF Op, Stage, Proper, FenceStage, RouteStage
  <2>2. Begin(o, q)
    BY <1>4 DEF Save, Delete
  <2>3. routes' \in [Route -> Row \cup {None}]
    BY <1>4 DEF Save, Delete, tables, TypeInv, TypeOK
  <2> HIDE DEF q
  <2> QED
    BY <1>4, <2>1, <2>2, <2>3, BeginType
    DEF Save, Delete, tables, traccar, bounds, TypeInv, TypeOK
<1>5. CASE SaveRefused(o)
  BY <1>5, IdleType, RequestStep
  DEF SaveRefused, tables, traccar, ghosts, bounds, TypeInv, TypeOK
<1> QED
  BY <1>1, <1>2, <1>3, <1>4, <1>5 DEF RouteRequest

LEMMA HeadType ==
  ASSUME TypeInv, NEW o \in Operator, op[o].stage \in RouteStage
  PROVE  Current(o) \in Target
<1>1. op[o].todo \in Seq(Target) /\ Len(op[o].todo) > 0
  BY DEF TypeInv, TypeOK, Op, Proper
<1> QED
  BY <1>1 DEF Current

LEMMA PostLinkType ==
  ASSUME TypeInv, NEW d, NEW z, PostLink(d, z)
  PROVE  linked' \in [Device -> SUBSET Zone]
BY DEF PostLink, TypeInv, TypeOK

LEMMA DeleteLinkType ==
  ASSUME TypeInv, NEW d, NEW z, DeleteLink(d, z)
  PROVE  linked' \in [Device -> SUBSET Zone]
BY DEF DeleteLink, TypeInv, TypeOK

\* The sync's calls, and the ends of a request.
LEMMA SyncTypes ==
  ASSUME TypeInv, NEW o \in Operator, Sync(o)
  PROVE  TypeInv'
<1> USE DEF tables, traccar, ghosts, bounds
<1>0. op[o] \in Op /\ Proper(op[o])
  BY DEF TypeInv, TypeOK
<1>1. CASE QueryRoutes(o)
  <2> DEFINE q == [op[o] EXCEPT !.stage = "list", !.wanted = Wanted(Sees(o), Current(o).van)]
  <2>1. Wanted(Sees(o), Current(o).van) \subseteq Zone
    BY SeesType, WantedType DEF Zone, Fenced
  <2>2. q \in Op /\ Proper(q)
    BY <1>0, <1>1, <2>1 DEF QueryRoutes, Op, Stage, Proper, FenceStage, RouteStage
  <2>3. Goto(o, q)
    BY <1>1 DEF QueryRoutes
  <2> HIDE DEF q
  <2> QED
    BY <1>1, <2>2, <2>3, RequestStep DEF QueryRoutes, TypeInv, TypeOK
<1>2. CASE ListLinks(o)
  <2> DEFINE q == [op[o] EXCEPT !.stage = "managed", !.found = linked[Current(o).device]]
  <2>1. Current(o) \in Target
    BY <1>0, <1>2, HeadType DEF ListLinks, RouteStage
  <2>2. linked[Current(o).device] \subseteq Zone
    BY <2>1 DEF Target, TypeInv, TypeOK
  <2>3. q \in Op /\ Proper(q)
    BY <1>0, <1>2, <2>2 DEF ListLinks, Op, Stage, Proper, FenceStage, RouteStage
  <2>4. Goto(o, q)
    BY <1>2 DEF ListLinks
  <2> HIDE DEF q
  <2> QED
    BY <1>2, <2>3, <2>4, RequestStep DEF ListLinks, TypeInv, TypeOK
<1>3. CASE QueryFences(o)
  <2> DEFINE link == ToLink(op[o].found, op[o].wanted)
             unlink == ToUnlink(op[o].found, fences, op[o].wanted)
             q == [op[o] EXCEPT !.stage = "change", !.wanted = {}, !.found = {},
                                !.link = link, !.unlink = unlink]
  <2>1. op[o].found \subseteq Zone /\ op[o].wanted \subseteq Zone
    BY <1>0 DEF Op
  <2>2. link \subseteq Zone
    BY <2>1 DEF ToLink
  <2>3. unlink \subseteq Zone /\ unlink \subseteq Fenced
    BY <2>1 DEF ToUnlink, TypeInv, TypeOK, Fenced
  <2>4. Goto(o, q)
    BY <1>3 DEF QueryFences
  <2> HIDE DEF link, unlink
  <2>5. q \in Op /\ Proper(q)
    BY <1>0, <1>3, <2>2, <2>3 DEF QueryFences, Op, Stage, Proper, FenceStage, RouteStage
  <2> HIDE DEF q
  <2> QED
    BY <1>3, <2>4, <2>5, RequestStep DEF QueryFences, TypeInv, TypeOK
<1>4. CASE \E z \in Zone : Link(o, z)
  <2>1. PICK z \in Zone : Link(o, z)
    BY <1>4
  <2> DEFINE q == [op[o] EXCEPT !.link = @ \ {z}]
  <2>2. q \in Op /\ Proper(q)
    BY <1>0 DEF Op, Proper
  <2>3. Goto(o, q)
    BY <2>1 DEF Link
  <2>4. linked' \in [Device -> SUBSET Zone]
    BY <2>1, PostLinkType DEF Link
  <2> HIDE DEF q
  <2> QED
    BY <2>1, <2>2, <2>3, <2>4, RequestStep DEF Link, TypeInv, TypeOK
<1>5. CASE \E z \in Zone : Unlink(o, z)
  <2>1. PICK z \in Zone : Unlink(o, z)
    BY <1>5
  <2> DEFINE q == [op[o] EXCEPT !.unlink = @ \ {z}]
  <2>2. q \in Op /\ Proper(q)
    BY <1>0 DEF Op, Proper
  <2>3. Goto(o, q)
    BY <2>1 DEF Unlink
  <2>4. linked' \in [Device -> SUBSET Zone]
    BY <2>1, DeleteLinkType DEF Unlink
  <2> HIDE DEF q
  <2> QED
    BY <2>1, <2>2, <2>3, <2>4, RequestStep DEF Unlink, TypeInv, TypeOK
<1>6. CASE NextVan(o)
  <2> DEFINE q == [op[o] EXCEPT !.stage = "sync", !.todo = Tail(@)]
  <2>1. Tail(op[o].todo) \in Seq(Target) /\ Len(Tail(op[o].todo)) > 0
    BY <1>0, <1>6 DEF NextVan, Op
  <2>2. q \in Op /\ Proper(q)
    BY <1>0, <2>1 DEF Op, Stage, Proper, FenceStage, RouteStage
  <2>3. Goto(o, q)
    BY <1>6 DEF NextVan
  <2> HIDE DEF q
  <2> QED
    BY <1>6, <2>2, <2>3, RequestStep DEF NextVan, TypeInv, TypeOK
<1>7. CASE Finish(o)
  <2>1. routes' \in [Route -> Row \cup {None}]
    BY <1>7, SeesType DEF Finish
  <2> QED
    BY <1>7, <2>1, IdleType, RequestStep DEF Finish, TypeInv, TypeOK
<1>8. CASE Fail(o) \/ CommitRefused(o)
  <2>1. Goto(o, Idle) /\ faults' \in 0..MaxFaults
    BY <1>8, FleetConstantsOK DEF Fail, CommitRefused, Fault, TypeInv, TypeOK
  <2> QED
    BY <1>8, <2>1, IdleType, RequestStep DEF Fail, CommitRefused, RolledBack, TypeInv, TypeOK
<1>9. CASE AnswerLost(o)
  <2>1. Goto(o, Idle) /\ faults' \in 0..MaxFaults
    BY <1>9, FleetConstantsOK DEF AnswerLost, Fault, TypeInv, TypeOK
  <2>2. linked' \in [Device -> SUBSET Zone]
    BY <1>9, PostLinkType, DeleteLinkType DEF AnswerLost
  <2> QED
    BY <1>9, <2>1, <2>2, IdleType, RequestStep DEF AnswerLost, RolledBack, TypeInv, TypeOK
<1> QED
  BY <1>1, <1>2, <1>3, <1>4, <1>5, <1>6, <1>7, <1>8, <1>9 DEF Sync

LEMMA FenceRequestTypes ==
  ASSUME TypeInv, NEW o \in Operator, FenceRequest(o)
  PROVE  TypeInv'
<1> USE DEF tables, traccar, ghosts, bounds
<1>0. op[o] \in Op /\ Proper(op[o])
  BY DEF TypeInv, TypeOK
<1>1. ASSUME NEW z \in Fenced, PostZone(o, z) \/ PatchFence(o, z) \/ DropFence(o, z)
      PROVE  TypeInv'
  <2>1. PICK s \in FenceStage : Goto(o, [Idle EXCEPT !.stage = s, !.zone = z])
    BY <1>1 DEF PostZone, PatchFence, DropFence, FenceStage
  <2> DEFINE q == [Idle EXCEPT !.stage = s, !.zone = z]
  <2>2. q \in Op /\ Proper(q)
    BY <1>1, IdleType DEF Idle, Op, Stage, Zone, Fenced, Proper, FenceStage, RouteStage
  <2>3. Goto(o, q)
    BY <2>1
  <2>4. requests' \in 0..MaxRequests
    BY <1>1, FleetConstantsOK
    DEF PostZone, PatchFence, DropFence, NewRequest, TypeInv, TypeOK
  <2> HIDE DEF q
  <2> QED
    BY <1>1, <2>2, <2>3, <2>4, RequestStep
    DEF PostZone, PatchFence, DropFence, DropRow, Zone, Fenced, TypeInv, TypeOK
<1>2. CASE SaveFence(o) \/ SavePatch(o) \/ DeleteZone(o) \/ FenceFails(o)
  <2>1. Goto(o, Idle) /\ op[o].zone \in Fenced
    BY <1>0, <1>2
    DEF SaveFence, SavePatch, DeleteZone, FenceFails, Proper, FenceStage
  <2>2. faults' \in 0..MaxFaults
    BY <1>2, FleetConstantsOK DEF SaveFence, SavePatch, DeleteZone, FenceFails, Fault, TypeInv, TypeOK
  <2>3. linked' \in [Device -> SUBSET Zone]
    BY <1>2 DEF SaveFence, SavePatch, DeleteZone, FenceFails, TypeInv, TypeOK
  <2>4. fences' \subseteq Fenced /\ revived' \subseteq Zone /\ zones' \subseteq Zone
    BY <1>2, <2>1 DEF SaveFence, SavePatch, DeleteZone, FenceFails,
       Fenced, Zone, TypeInv, TypeOK
  <2> QED
    BY <1>2, <2>1, <2>2, <2>3, <2>4, IdleType, RequestStep
    DEF SaveFence, SavePatch, DeleteZone, FenceFails, Fenced, TypeInv, TypeOK
<1> QED
  BY <1>1, <1>2 DEF FenceRequest, Fenced

LEMMA StepTypes == TypeInv /\ [Next]_vars => TypeInv'
<1> SUFFICES ASSUME TypeInv, [Next]_vars PROVE TypeInv'
  OBVIOUS
<1>1. ASSUME NEW v \in Van, NEW d \in Device, ChangeImei(v, d) PROVE TypeInv'
  <2>1. unsynced' \subseteq Van \X Cause
    BY <1>1 DEF ChangeImei, Cause, TypeInv, TypeOK
  <2> QED
    BY <1>1, <2>1, FleetConstantsOK DEF ChangeImei, Fault, traccar, TypeInv, TypeOK
<1>2. CASE UNCHANGED vars
  BY <1>2 DEF vars, tables, traccar, ghosts, bounds, TypeInv, TypeOK
<1> QED
  BY <1>1, <1>2, RouteRequestTypes, SyncTypes, FenceRequestTypes DEF Next

\* Every variable of FleetSync keeps its type: what a sync computes from stale reads are
\* zones, the vans it has still to sync are vans with trackers.
THEOREM TypeCorrect == Spec => []TypeOK
<1>1. Spec => []TypeInv
  BY InitType, StepTypes, PTL DEF Spec
<1>2. TypeInv => TypeOK
  BY DEF TypeInv
<1> QED
  BY <1>1, <1>2, PTL

-----------------------------------------------------------------------------
\* The zones that a sync unlinks and a deletion deletes are those of fences, and Traccar
\* gave those other ids than the ones drawn by hand.
LEMMA StepKeepsHandmade ==
  ASSUME TypeInv, [Next]_vars
  PROVE  \A d \in Device : linked[d] \cap Handmade \subseteq linked'[d]
<1>1. linked \in [Device -> SUBSET Zone] /\ \A z \in Fenced : z \notin Handmade
  BY FleetConstantsOK DEF TypeInv, TypeOK, Fenced
<1>2. CASE linked' = linked
  BY <1>2
<1>3. ASSUME NEW d, NEW z, PostLink(d, z)
      PROVE  \A e \in Device : linked[e] \subseteq linked'[e]
  BY <1>1, <1>3 DEF PostLink
<1>4. ASSUME NEW d, NEW z \in Fenced, DeleteLink(d, z)
      PROVE  \A e \in Device : linked[e] \cap Handmade \subseteq linked'[e]
  BY <1>1, <1>4 DEF DeleteLink
<1>5. ASSUME NEW o \in Operator, NEW z \in Zone, Unlink(o, z) PROVE z \in Fenced
  BY <1>5 DEF Unlink, TypeInv, Proper
<1>6. ASSUME NEW o \in Operator, AnswerLost(o)
      PROVE  \A e \in Device : linked[e] \cap Handmade \subseteq linked'[e]
  <2>1. op[o].unlink \subseteq Fenced
    BY DEF TypeInv, Proper
  <2> QED
    BY <1>3, <1>4, <1>6, <2>1 DEF AnswerLost
<1>7. ASSUME NEW o \in Operator, DeleteZone(o)
      PROVE  \A e \in Device : linked[e] \cap Handmade \subseteq linked'[e]
  <2>1. op[o].zone \in Fenced
    BY <1>7 DEF DeleteZone, TypeInv, Proper, FenceStage
  <2> QED
    BY <1>1, <1>7, <2>1 DEF DeleteZone
<1>8. ASSUME NEW o \in Operator, RouteRequest(o) PROVE linked' = linked
  BY <1>8 DEF RouteRequest, Create, UpdateRead, DestroyRead, Save, SaveRefused, Delete, traccar
<1>9. ASSUME NEW o \in Operator, Sync(o)
      PROVE  \A e \in Device : linked[e] \cap Handmade \subseteq linked'[e]
  <2>1. CASE \E z \in Zone : Link(o, z)
    BY <1>3, <2>1 DEF Link
  <2>2. CASE \E z \in Zone : Unlink(o, z)
    BY <1>4, <1>5, <2>2 DEF Unlink
  <2>3. CASE QueryRoutes(o) \/ ListLinks(o) \/ QueryFences(o) \/ NextVan(o) \/ Finish(o)
               \/ CommitRefused(o) \/ Fail(o)
    BY <1>2, <2>3
    DEF QueryRoutes, ListLinks, QueryFences, NextVan, Finish, CommitRefused, Fail, traccar
  <2> QED
    BY <1>6, <1>9, <2>1, <2>2, <2>3 DEF Sync
<1>10. ASSUME NEW o \in Operator, FenceRequest(o), ~DeleteZone(o) PROVE linked' = linked
  BY <1>10 DEF FenceRequest, PostZone, PatchFence, DropFence, SaveFence, SavePatch,
     FenceFails, traccar
<1>11. ASSUME NEW v \in Van, NEW d \in Device, ChangeImei(v, d) PROVE linked' = linked
  BY <1>11 DEF ChangeImei, traccar
<1>12. CASE UNCHANGED vars
  BY <1>12 DEF vars, traccar
<1> QED
  BY <1>2, <1>7, <1>8, <1>9, <1>10, <1>11, <1>12 DEF Next

\* A link to a zone of someone's own outlives every request, whatever fails.
THEOREM HandmadeStay == Spec => HandmadeLinksStay
<1>1. Spec => []TypeInv
  BY InitType, StepTypes, PTL DEF Spec
<1>2. TypeInv /\ [Next]_vars =>
        [\A d \in Device : linked[d] \cap Handmade \subseteq linked'[d]]_vars
  BY StepKeepsHandmade
<1> QED
  BY <1>1, <1>2, PTL DEF Spec, HandmadeLinksStay

-----------------------------------------------------------------------------
(***************************************************************************)
(* Rows and zones.  RowsHaveZones is not inductive: a request that made a  *)
(* zone adds its row later, one that dropped a row deletes the zone later. *)
(* What holds between them is that no two requests have the same zone in   *)
(* hand when one of them is making it.                                     *)
(***************************************************************************)
Holds(o) == op[o].stage \in FenceStage

ZoneInv ==
  /\ fences \subseteq used
  /\ fences \subseteq zones \cup revived
  /\ \A o \in Operator : Holds(o) => op[o].zone \in used
  /\ \A o \in Operator : op[o].stage = "posted" =>
       /\ op[o].zone \in zones \ fences
       /\ \A p \in Operator \ {o} : Holds(p) => op[p].zone # op[o].zone
  /\ \A o \in Operator : op[o].stage = "dropped" => op[o].zone \notin fences \ revived

\* A step by which o gets a zone in hand.
Holder(o, stage, z) ==
  \A p \in Operator : IF p = o THEN op'[p].stage = stage /\ op'[p].zone = z
                               ELSE op'[p] = op[p]

RoutesFenced == \A r \in Route : routes[r] # None => ZonesOf(routes[r]) \subseteq fences

\* A request of a route does not touch fences, and its commit checks the row's.
LEMMA RouteStepKeepsZones ==
  ASSUME TypeInv, ZoneInv, RoutesFenced, NEW o \in Operator, RouteRequest(o) \/ Sync(o)
  PROVE  ZoneInv' /\ RoutesFenced'
<1>0. op \in [Operator -> Op] /\ op[o] \in Op
  BY DEF TypeInv, TypeOK
<1>1. PICK q : Goto(o, q) /\ q.stage \notin FenceStage
  <2> DEFINE Leaves == \E q : Goto(o, q) /\ q.stage \notin FenceStage
  <2> SUFFICES Leaves
    OBVIOUS
  <2>1. ASSUME NEW r \in Route, NEW row \in Row, Create(o, r, row) PROVE Leaves
    <3> DEFINE q == [Idle EXCEPT !.stage = "sync", !.kind = "create", !.route = r, !.row = row,
                       !.todo = <<TargetOf(row.van)>>, !.targets = {TargetOf(row.van)}]
    <3>1. Goto(o, q)
      BY <2>1 DEF Create, Begin
    <3>2. q.stage = "sync"
      BY DEF Idle
    <3> QED
      BY <3>1, <3>2 DEF FenceStage
  <2>2. ASSUME NEW r \in Route, NEW row \in Row, UpdateRead(o, r, row) PROVE Leaves
    <3> DEFINE q == [Idle EXCEPT !.stage = "read", !.kind = "update", !.route = r, !.row = row,
                       !.todo = Targets(routes[r], row),
                       !.targets = {TargetOf(routes[r].van), TargetOf(row.van)}]
    <3>1. Goto(o, q)
      BY <2>2 DEF UpdateRead
    <3>2. q.stage = "read"
      BY DEF Idle
    <3> QED
      BY <3>1, <3>2 DEF FenceStage
  <2>3. ASSUME NEW r \in Route, DestroyRead(o, r) PROVE Leaves
    <3> DEFINE q == [Idle EXCEPT !.stage = "read", !.kind = "destroy", !.route = r,
                       !.todo = <<TargetOf(routes[r].van)>>,
                       !.targets = {TargetOf(routes[r].van)}]
    <3>1. Goto(o, q)
      BY <2>3 DEF DestroyRead
    <3>2. q.stage = "read"
      BY DEF Idle
    <3> QED
      BY <3>1, <3>2 DEF FenceStage
  <2>4. CASE Save(o) \/ Delete(o)
    <3> DEFINE q == [op[o] EXCEPT !.stage = "sync"]
    <3>1. Goto(o, q)
      BY <2>4 DEF Save, Delete, Begin
    <3>2. q.stage = "sync"
      BY <1>0 DEF Op
    <3> QED
      BY <3>1, <3>2 DEF FenceStage
  <2>5. CASE QueryRoutes(o) \/ ListLinks(o) \/ QueryFences(o) \/ NextVan(o)
    <3>1. CASE QueryRoutes(o)
      <4> DEFINE q == [op[o] EXCEPT !.stage = "list", !.wanted = Wanted(Sees(o), Current(o).van)]
      <4>1. Goto(o, q)
        BY <3>1 DEF QueryRoutes
      <4>2. q.stage = "list"
        BY <1>0 DEF Op
      <4> QED
        BY <4>1, <4>2 DEF FenceStage
    <3>2. CASE ListLinks(o)
      <4> DEFINE q == [op[o] EXCEPT !.stage = "managed", !.found = linked[Current(o).device]]
      <4>1. Goto(o, q)
        BY <3>2 DEF ListLinks
      <4>2. q.stage = "managed"
        BY <1>0 DEF Op
      <4> QED
        BY <4>1, <4>2 DEF FenceStage
    <3>3. CASE QueryFences(o)
      <4> DEFINE q == [op[o] EXCEPT !.stage = "change", !.wanted = {}, !.found = {},
                         !.link = ToLink(op[o].found, op[o].wanted),
                         !.unlink = ToUnlink(op[o].found, fences, op[o].wanted)]
      <4>1. Goto(o, q)
        BY <3>3 DEF QueryFences
      <4>2. q.stage = "change"
        BY <1>0 DEF Op
      <4> QED
        BY <4>1, <4>2 DEF FenceStage
    <3>4. CASE NextVan(o)
      <4> DEFINE q == [op[o] EXCEPT !.stage = "sync", !.todo = Tail(@)]
      <4>1. Goto(o, q)
        BY <3>4 DEF NextVan
      <4>2. q.stage = "sync"
        BY <1>0 DEF Op
      <4> QED
        BY <4>1, <4>2 DEF FenceStage
    <3> QED
      BY <2>5, <3>1, <3>2, <3>3, <3>4
  <2>6. CASE \E z \in Zone : Link(o, z) \/ Unlink(o, z)
    BY <1>0, <2>6 DEF Link, Unlink, Op, FenceStage
  <2>7. CASE SaveRefused(o) \/ Finish(o) \/ CommitRefused(o) \/ Fail(o) \/ AnswerLost(o)
    BY <2>7 DEF SaveRefused, Finish, CommitRefused, Fail, AnswerLost, Idle, FenceStage
  <2> QED
    BY <2>1, <2>2, <2>3, <2>4, <2>5, <2>6, <2>7 DEF RouteRequest, Sync
<1>2. UNCHANGED <<fences, zones, used, revived>>
  BY DEF RouteRequest, Create, UpdateRead, DestroyRead, Save, SaveRefused, Delete,
     Sync, QueryRoutes, ListLinks, QueryFences, Link, Unlink, NextVan, Finish,
     CommitRefused, Fail, AnswerLost, tables, traccar, ghosts
<1>3. \A p \in Operator : op'[p] = IF p = o THEN q ELSE op[p]
  BY <1>0, <1>1 DEF Goto
<1>4. ZoneInv'
  BY <1>1, <1>2, <1>3 DEF ZoneInv, Holds, FenceStage
<1>5. routes' = routes \/ Finish(o) \/ Delete(o)
  BY DEF RouteRequest, Create, UpdateRead, DestroyRead, Save, SaveRefused,
     Sync, QueryRoutes, ListLinks, QueryFences, Link, Unlink, NextVan,
     CommitRefused, Fail, AnswerLost, RolledBack, tables
<1>6. RoutesFenced'
  <2>1. CASE routes' = routes
    BY <1>2, <2>1 DEF RoutesFenced
  <2>2. CASE Finish(o)
    <3>1. \A r \in Route : routes'[r] = routes[r] \/ (InTransaction(o) /\ routes'[r] = op[o].row)
      BY <2>2 DEF Finish, Sees
    <3> QED
      BY <1>2, <2>2, <3>1 DEF Finish, Committable, RoutesFenced
  <2>3. CASE Delete(o)
    <3>1. \A r \in Route : routes'[r] = routes[r] \/ routes'[r] = None
      BY <2>3 DEF Delete, TypeInv, TypeOK
    <3> QED
      BY <1>2, <3>1 DEF RoutesFenced
  <2> QED
    BY <1>5, <2>1, <2>2, <2>3
<1> QED
  BY <1>4, <1>6

\* A fence gets its zone first and loses it last, whoever else is at work.
LEMMA FenceStepKeepsZones ==
  ASSUME TypeInv, ZoneInv, RoutesFenced, NEW o \in Operator, FenceRequest(o)
  PROVE  ZoneInv' /\ RoutesFenced'
<1> USE DEF tables, traccar, ghosts, ZoneInv, RoutesFenced
<1>0. op \in [Operator -> Op]
  BY DEF TypeInv, TypeOK
<1>1. ASSUME NEW z \in Fenced, PostZone(o, z) PROVE ZoneInv' /\ RoutesFenced'
  <2>1. Holder(o, "posted", z)
    BY <1>0, <1>1 DEF PostZone, Goto, Idle, Holder
  <2>2. /\ zones' = zones \cup {z} /\ used' = used \cup {z} /\ z \notin used
        /\ UNCHANGED <<fences, routes, revived>>
    BY <1>1 DEF PostZone
  <2> QED
    BY <2>1, <2>2 DEF Holder, Holds, FenceStage
<1>2. ASSUME NEW z \in Fenced, PatchFence(o, z) PROVE ZoneInv' /\ RoutesFenced'
  <2>1. Holder(o, "patched", z)
    BY <1>0, <1>2 DEF PatchFence, Goto, Idle, Holder
  <2>2. z \in fences /\ UNCHANGED <<fences, routes, revived, zones, used>>
    BY <1>2 DEF PatchFence
  <2> QED
    BY <2>1, <2>2 DEF Holder, Holds, FenceStage
<1>3. ASSUME NEW z \in Fenced, DropFence(o, z) PROVE ZoneInv' /\ RoutesFenced'
  <2>1. Holder(o, "dropped", z)
    BY <1>0, <1>3 DEF DropFence, Goto, Idle, Holder
  <2>2. /\ z \in fences /\ fences' = fences \ {z}
        /\ UNCHANGED <<routes, revived, zones, used>>
        /\ \A r \in Route : routes[r] # None => z \notin ZonesOf(routes[r])
    BY <1>3 DEF DropFence, DropRow
  <2> QED
    BY <2>1, <2>2 DEF Holder, Holds, FenceStage
<1>4. ASSUME SaveFence(o) \/ SavePatch(o) \/ DeleteZone(o) \/ FenceFails(o)
      PROVE  ZoneInv' /\ RoutesFenced'
  <2>1. Goto(o, Idle) /\ Holds(o) /\ routes' = routes /\ used' = used
    BY <1>4 DEF SaveFence, SavePatch, DeleteZone, FenceFails, Holds, FenceStage
  <2>2. \A p \in Operator : op'[p] = IF p = o THEN Idle ELSE op[p]
    BY <1>0, <2>1 DEF Goto
  <2>3. Idle.stage \notin FenceStage
    BY DEF Idle, FenceStage
  <2>4. CASE SaveFence(o)
    BY <2>1, <2>2, <2>3, <2>4 DEF SaveFence, Holds, FenceStage
  <2>5. CASE SavePatch(o)
    BY <2>1, <2>2, <2>3, <2>5 DEF SavePatch, Holds, FenceStage
  <2>6. CASE DeleteZone(o)
    BY <2>1, <2>2, <2>3, <2>6 DEF DeleteZone, Holds, FenceStage
  <2>7. CASE FenceFails(o)
    BY <2>1, <2>2, <2>3, <2>7 DEF FenceFails, Holds, FenceStage
  <2> QED
    BY <1>4, <2>4, <2>5, <2>6, <2>7
<1> QED
  BY <1>1, <1>2, <1>3, <1>4 DEF FenceRequest, Fenced

LEMMA InitZones == Init => ZoneInv /\ RoutesFenced
<1>1. Init => ZoneInv
  BY DEF Init, ZoneInv, Holds, FenceStage, Idle
<1>2. Init => RoutesFenced
  BY DEF Init, RoutesFenced
<1> QED
  BY <1>1, <1>2

LEMMA StepKeepsZones ==
  ASSUME TypeInv, ZoneInv, RoutesFenced, [Next]_vars
  PROVE  ZoneInv' /\ RoutesFenced'
<1>1. ASSUME NEW v \in Van, NEW d \in Device, ChangeImei(v, d)
      PROVE  ZoneInv' /\ RoutesFenced'
  BY <1>1 DEF ChangeImei, traccar, ZoneInv, RoutesFenced, Holds
<1>2. CASE UNCHANGED vars
  BY <1>2 DEF vars, tables, traccar, ghosts, ZoneInv, RoutesFenced, Holds
<1> QED
  BY <1>1, <1>2, RouteStepKeepsZones, FenceStepKeepsZones DEF Next

\* Whatever calls fail and whatever overlaps, a fence of a route exists, and a fence has
\* its zone unless an update inserted it again.
THEOREM RowsKeepZones == Spec => []RowsHaveZones
<1>1. TypeInv /\ ZoneInv /\ RoutesFenced /\ [Next]_vars => ZoneInv' /\ RoutesFenced'
  BY StepKeepsZones
<1>2. ZoneInv /\ RoutesFenced => RowsHaveZones
  BY DEF ZoneInv, RoutesFenced, RowsHaveZones
<1> QED
  BY <1>1, <1>2, InitZones, InitType, StepTypes, PTL DEF Spec
=============================================================================
