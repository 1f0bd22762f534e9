---------------------------- MODULE PositionFeed ----------------------------
(***************************************************************************)
(* What a live map shows of the vans: tracking.views.traccar_position      *)
(* stores a fix and broadcasts it to the van's group, then to the          *)
(* operators' group; tracking.consumers' connect() joins its group,        *)
(* accepts, and then seeds the map with the last stored fix of each van.   *)
(*                                                                         *)
(* Requests run in threads, consumers as coroutines whose queries run in a *)
(* thread of their own, so each action is one database or channel-layer    *)
(* call.  A channel is a set of fixes: a viewer may get them in any order, *)
(* which allows more than the queue does, and any of them may be dropped,  *)
(* as a full channel does.  Who is let in is the matter of LiveMap.        *)
(***************************************************************************)
EXTENDS Naturals, FiniteSets

CONSTANTS Van, Handler, Viewer,
          DeviceTime,       \* what trackers' clocks may say
          MaxFixes,         \* bound on the fixes stored
          OPERATORS_GROUP,  \* the group of those who watch every van
          None

ASSUME FeedConstantsOK ==
  /\ OPERATORS_GROUP \notin Van
  /\ DeviceTime \subseteq Nat
  /\ MaxFixes \in Nat

VARIABLES vans,       \* the fleet.Van table
          stored,     \* the Position table
          feed,       \* the state of each traccar_position request
          viewer,     \* the state of each consumer
          inbox,      \* the fixes in each viewer's channel
          shown,      \* the fixes sent down each viewer's socket
          lost        \* the sends that failed, and those a full channel dropped

vars == <<vans, stored, feed, viewer, inbox, shown, lost>>

\* A row of Position: its key tells fixes with the same clock apart.
Fix == [id : 1..MaxFixes, van : Van, at : DeviceTime]

Stage == {"new", "looked", "joined", "seeding", "open", "gone"}

\* A van's group has the name of the van here.
Group == Van \cup {OPERATORS_GROUP}

\* unasked: the vans whose last fix is still to be queried; seeds: those found.
Consumer == [stage : Stage, group : Group \cup {None}, seedVans : SUBSET Van,
             unasked : SUBSET Van, seeds : SUBSET Fix]

Newcomer == [stage |-> "new", group |-> None, seedVans |-> {}, unasked |-> {}, seeds |-> {}]

Request == [stage : {"idle", "stored", "half"}, fix : Fix \cup {None}]

Idle == [stage |-> "idle", fix |-> None]

\* A viewer is in its group from group_add to group_discard.
Joined(s) == viewer[s].stage \in {"joined", "seeding", "open"}
Members(g) == {s \in Viewer : Joined(s) /\ viewer[s].group = g}

Init ==
  /\ vans \in SUBSET Van
  /\ stored = {}
  /\ feed = [h \in Handler |-> Idle]
  /\ viewer = [s \in Viewer |-> Newcomer]
  /\ inbox = [s \in Viewer |-> {}]
  /\ shown = [s \in Viewer |-> {}]
  /\ lost = {}

\* VanViewSet.create.
AddVan(v) ==
  /\ v \notin vans
  /\ vans' = vans \cup {v}
  /\ UNCHANGED <<stored, feed, viewer, inbox, shown, lost>>

-----------------------------------------------------------------------------
\* traccar_position.

\* Position.objects.create.  Fixes may come late, so their clocks in any order.
RowUntimed(v, t) == [id |-> Cardinality(stored) + 1, van |-> v, at |-> None]
NewRow(v, t) == [id |-> Cardinality(stored) + 1, van |-> v, at |-> t]
Store(h, v, t) ==
  /\ feed[h] = Idle
  /\ v \in vans
  /\ Cardinality(stored) < MaxFixes
  /\ stored' = stored \cup {NewRow(v, t)}
  /\ feed' = [feed EXCEPT ![h] = [stage |-> "stored", fix |-> NewRow(v, t)]]
  /\ UNCHANGED <<vans, viewer, inbox, shown, lost>>

\* The group the request sends to next: the van's, then the operators'.
NextGroupVanTwice(h) == feed[h].fix.van
NextGroup(h) == IF feed[h].stage = "stored" THEN feed[h].fix.van ELSE OPERATORS_GROUP

\* group_send: every member's channel takes the fix, or drops it.
Send(h) ==
  /\ feed[h].stage # "idle"
  /\ feed' = [feed EXCEPT ![h] = IF @.stage = "stored" THEN [@ EXCEPT !.stage = "half"]
                                                       ELSE Idle]
  /\ LET p == feed[h].fix
         members == Members(NextGroup(h))
     IN \E full \in SUBSET members :
          /\ inbox' = [s \in Viewer |-> IF s \in members \ full THEN inbox[s] \cup {p}
                                                                  ELSE inbox[s]]
          /\ lost' = lost \cup {<<p, s>> : s \in full}
  /\ UNCHANGED <<vans, stored, viewer, shown>>

\* No channel layer, or it raises: what was not sent yet never is.
Unsent(h) == {OPERATORS_GROUP} \cup
             {v \in Van : feed[h].stage = "stored" /\ feed[h].fix.van = v}
SendFails(h) ==
  /\ feed[h].stage # "idle"
  /\ lost' = lost \cup {<<feed[h].fix, s>> : s \in UNION {Members(g) : g \in Unsent(h)}}
  /\ feed' = [feed EXCEPT ![h] = Idle]
  /\ UNCHANGED <<vans, stored, viewer, inbox, shown>>

-----------------------------------------------------------------------------
\* VanPositionConsumer.connect and its handlers.

SetStage(s, stage) == viewer' = [viewer EXCEPT ![s].stage = stage]

\* The vans to seed: get_all_van_ids for an operator, else that of the child's route.
SeedVansAll(g) == vans
SeedVans(g) == IF g = OPERATORS_GROUP THEN vans ELSE {g}
LookUp(s, g) ==
  /\ viewer[s].stage = "new"
  /\ g \in vans \cup {OPERATORS_GROUP}
  /\ viewer' = [viewer EXCEPT ![s] = [stage |-> "looked", group |-> g, seedVans |-> SeedVans(g),
                                      unasked |-> SeedVans(g), seeds |-> {}]]
  /\ UNCHANGED <<vans, stored, feed, inbox, shown, lost>>

GroupAdd(s) ==
  /\ viewer[s].stage = "looked"
  /\ SetStage(s, "joined")
  /\ UNCHANGED <<vans, stored, feed, inbox, shown, lost>>

Accept(s) ==
  /\ viewer[s].stage = "joined"
  /\ SetStage(s, "seeding")
  /\ UNCHANGED <<vans, stored, feed, inbox, shown, lost>>

\* order_by("-device_time").first(): a last fix of van v, if there is any.
LatestAmong(fixes) == {p \in fixes : \A q \in fixes : q.at <= p.at}
LastFix(v) == LatestAmong({p \in stored : p.van = v})

\* One query of the loop of get_seed_positions.
MaySeedBeforeJoin(s) == viewer[s].stage \in {"looked", "seeding"}
MaySeed(s) == viewer[s].stage = "seeding"
SeedQuery(s, v) ==
  /\ MaySeed(s)
  /\ v \in viewer[s].unasked
  /\ \/ LastFix(v) = {} /\ viewer' = [viewer EXCEPT ![s].unasked = @ \ {v}]
     \/ \E p \in LastFix(v) :
          viewer' = [viewer EXCEPT ![s].unasked = @ \ {v}, ![s].seeds = @ \cup {p}]
  /\ UNCHANGED <<vans, stored, feed, inbox, shown, lost>>

\* The seeds are sent, connect() returns.
SeedSend(s) ==
  /\ viewer[s].stage = "seeding"
  /\ viewer[s].unasked = {}
  /\ shown' = [shown EXCEPT ![s] = @ \cup viewer[s].seeds]
  /\ SetStage(s, "open")
  /\ UNCHANGED <<vans, stored, feed, inbox, lost>>

\* van_position_update.
ShowUpdate(s, p) ==
  /\ viewer[s].stage = "open"
  /\ p \in inbox[s]
  /\ inbox' = [inbox EXCEPT ![s] = @ \ {p}]
  /\ shown' = [shown EXCEPT ![s] = @ \cup {p}]
  /\ UNCHANGED <<vans, stored, feed, viewer, lost>>

\* The socket goes, at any point of its life.
Leave(s) ==
  /\ viewer[s].stage \notin {"new", "gone"}
  /\ SetStage(s, "gone")
  /\ inbox' = [inbox EXCEPT ![s] = {}]
  /\ UNCHANGED <<vans, stored, feed, shown, lost>>

-----------------------------------------------------------------------------
ConnectStep(s) ==
  \/ GroupAdd(s) \/ Accept(s)
  \/ (\E v \in Van : SeedQuery(s, v))
  \/ SeedSend(s)

Show(s) == \E p \in stored : ShowUpdate(s, p)

Next ==
  \/ \E v \in Van : AddVan(v)
  \/ \E h \in Handler : (\E v \in Van, t \in DeviceTime : Store(h, v, t))
                          \/ Send(h) \/ SendFails(h)
  \/ \E s \in Viewer : (\E g \in Group : LookUp(s, g))
                          \/ ConnectStep(s) \/ Show(s) \/ Leave(s)

Spec == Init /\ [][Next]_vars

\* Requests are answered, and a consumer's coroutine gets to run.
FairSpec ==
  /\ Spec
  /\ \A h \in Handler : WF_vars(Send(h))
  /\ \A s \in Viewer : WF_vars(ConnectStep(s)) /\ WF_vars(Show(s))

-----------------------------------------------------------------------------
TypeOK ==
  /\ vans \subseteq Van
  /\ stored \subseteq Fix
  /\ feed \in [Handler -> Request]
  /\ viewer \in [Viewer -> Consumer]
  /\ inbox \in [Viewer -> SUBSET Fix]
  /\ shown \in [Viewer -> SUBSET Fix]
  /\ lost \subseteq Fix \X Viewer

\* p is still to be sent to the group that s is in.
Coming(p, s) ==
  \E h \in Handler :
    /\ feed[h].stage # "idle" /\ feed[h].fix = p
    /\ viewer[s].group \in Unsent(h)

\* Something of the same van, not older than p, is in fixes.
NotOlder(p, fixes) == \E q \in fixes : q.van = p.van /\ p.at <= q.at

\* No stored fix falls between the seed and the broadcasts: once the map is seeded,
\* every fix of a van it watches is shown or outdated by one that is shown, waits in
\* the channel, or is still to be sent, unless the send failed or the channel was full.
\* It takes group_add before the query of the seed, and the row before the broadcast.
NoFixFallsBetween ==
  \A s \in Viewer : viewer[s].stage = "open" =>
    \A p \in stored : p.van \in viewer[s].seedVans =>
      \/ NotOlder(p, shown[s])
      \/ p \in inbox[s]
      \/ Coming(p, s)
      \/ <<p, s>> \in lost

\* A parent's socket never carries another van's position, seed or update.
OnlyOwnVanShown ==
  \A s \in Viewer : viewer[s].group \in Van =>
    \A p \in shown[s] \cup inbox[s] : p.van = viewer[s].group

\* A fix that is stored while a map is connecting or open gets onto it, or something
\* newer does, unless a send failed, a channel was full or the viewer left.
FixesGetShown ==
  \A s \in Viewer : \A h \in Handler :
    \A p \in Fix :
      (feed[h].fix = p /\ feed[h].stage = "stored" /\ Joined(s)
         /\ p.van \in viewer[s].seedVans)
      ~> (NotOlder(p, shown[s]) \/ <<p, s>> \in lost \/ viewer[s].stage = "gone")
=============================================================================
