------------------------- MODULE PositionFeedProofs -------------------------
(***************************************************************************)
(* Theorems about PositionFeed for every fleet, any number of requests,    *)
(* viewers and fixes, and every order of the trackers' clocks.             *)
(***************************************************************************)
EXTENDS PositionFeed, FiniteSetTheorems, TLAPS

\* What is known of a consumer c that has been shown the fixes sh, with ib in its channel.
Settled(c, sh, ib) ==
  /\ c.stage = "new" => c.seeds = {} /\ sh = {} /\ ib = {}
  /\ c.stage # "new" => /\ c.group \in Group
                        /\ c.group \in Van => c.seedVans = {c.group}
  /\ c.unasked \subseteq c.seedVans
  /\ c.stage \in {"looked", "joined"} => c.unasked = c.seedVans
  /\ c.stage = "open" => c.unasked = {} /\ c.seeds \subseteq sh
  /\ c.group \in Van => \A p \in sh \cup ib \cup c.seeds : p.van = c.group

\* The fixes of a van have a last one.
HasLast == \A v \in Van : (\E p \in stored : p.van = v) => LastFix(v) # {}

FeedInv ==
  /\ TypeOK
  /\ IsFiniteSet(stored)
  /\ \A h \in Handler : feed[h].stage # "idle" => feed[h].fix \in stored
  /\ \A s \in Viewer : Settled(viewer[s], shown[s], inbox[s])
  /\ HasLast

LEMMA FixTypes ==
  ASSUME FeedInv
  PROVE  /\ \A p \in stored : p \in Fix
         /\ \A p \in Fix : p.van \in Van /\ p.at \in Nat
         /\ OPERATORS_GROUP \notin Van
BY FeedConstantsOK DEF FeedInv, TypeOK, Fix

LEMMA InitFeed == Init => FeedInv
<1> SUFFICES ASSUME Init PROVE FeedInv
  OBVIOUS
<1>1. TypeOK
  BY DEF Init, TypeOK, Idle, Request, Newcomer, Consumer, Stage
<1>2. IsFiniteSet(stored) /\ HasLast
  BY FS_EmptySet DEF Init, HasLast
<1>3. \A h \in Handler : feed[h].stage = "idle"
  BY DEF Init, Idle
<1>4. \A s \in Viewer : Settled(viewer[s], shown[s], inbox[s])
  BY DEF Init, Settled, Newcomer
<1> QED
  BY <1>1, <1>2, <1>3, <1>4 DEF FeedInv

-----------------------------------------------------------------------------
\* Steps of a request.

LEMMA StoreInv ==
  ASSUME FeedInv, NEW h \in Handler, NEW v \in Van, NEW t \in DeviceTime, Store(h, v, t)
  PROVE  FeedInv' /\ NewRow(v, t) \in Fix
<1> DEFINE p == NewRow(v, t)
<1>1. p \in Fix /\ p.van = v /\ p.at = t
  <2>1. Cardinality(stored) \in Nat /\ Cardinality(stored) < MaxFixes /\ MaxFixes \in Nat
    BY FS_CardinalityType, FeedConstantsOK DEF FeedInv, Store
  <2>2. Cardinality(stored) + 1 \in 1..MaxFixes
    BY <2>1
  <2> QED
    BY <2>2 DEF NewRow, Fix
<1>2. /\ stored' = stored \cup {p} /\ feed' = [feed EXCEPT ![h] = [stage |-> "stored", fix |-> p]]
      /\ UNCHANGED <<vans, viewer, inbox, shown, lost>>
  BY DEF Store
<1> HIDE DEF p
<1>3. [stage |-> "stored", fix |-> p] \in Request
  BY <1>1 DEF Request
<1>4. TypeOK'
  BY <1>1, <1>2, <1>3 DEF FeedInv, TypeOK
<1>5. IsFiniteSet(stored')
  BY <1>2, FS_AddElement DEF FeedInv
<1>6. \A g \in Handler : feed'[g].stage # "idle" => feed'[g].fix \in stored'
  BY <1>2 DEF FeedInv, TypeOK
<1>7. ASSUME NEW w \in Van, \E q \in stored' : q.van = w PROVE LastFix(w)' # {}
  <2>1. \A q \in stored' : q \in stored \/ q = p
    BY <1>2
  <2>2. t \in Nat /\ \A q \in stored : q.at \in Nat
    BY FixTypes, FeedConstantsOK
  <2>3. CASE \E q \in stored : q.van = w
    <3>1. PICK q \in stored : q.van = w /\ \A o \in stored : o.van = w => o.at <= q.at
      BY <2>3 DEF FeedInv, HasLast, LastFix, LatestAmong
    <3>2. CASE w = v /\ q.at <= t
      <4>1. \A o \in stored' : o.van = w => o.at <= p.at
        BY <1>1, <2>1, <2>2, <3>1, <3>2
      <4> QED
        BY <1>1, <1>2, <3>2, <4>1 DEF LastFix, LatestAmong
    <3>3. CASE ~(w = v /\ q.at <= t)
      <4>1. \A o \in stored' : o.van = w => o.at <= q.at
        BY <1>1, <2>1, <2>2, <3>1, <3>3
      <4> QED
        BY <1>2, <3>1, <4>1 DEF LastFix, LatestAmong
    <3> QED
      BY <3>2, <3>3
  <2>4. CASE ~(\E q \in stored : q.van = w)
    <3>1. p.van = w /\ \A o \in stored' : o.van = w => o.at <= p.at
      BY <1>1, <1>7, <2>1, <2>2, <2>4
    <3> QED
      BY <1>2, <3>1 DEF LastFix, LatestAmong
  <2> QED
    BY <2>3, <2>4
<1> QED
  BY <1>1, <1>2, <1>4, <1>5, <1>6, <1>7 DEF FeedInv, HasLast, p

\* Only members of the group that is sent to get the fix.
LEMMA SendInv ==
  ASSUME FeedInv, NEW h \in Handler, Send(h)
  PROVE  FeedInv'
<1> DEFINE p == feed[h].fix
           half == [feed[h] EXCEPT !.stage = "half"]
<1>1. /\ feed[h].stage # "idle" /\ p \in stored /\ p \in Fix /\ feed[h] \in Request
      /\ UNCHANGED <<vans, stored, viewer, shown>>
  BY FixTypes DEF Send, FeedInv, TypeOK
<1>2. feed' = [feed EXCEPT ![h] = half] \/ feed' = [feed EXCEPT ![h] = Idle]
  BY DEF Send
<1>3. half \in Request /\ Idle \in Request /\ Idle.stage = "idle" /\ half.fix = p
  BY <1>1 DEF Request, Idle
<1>4. PICK full \in SUBSET Members(NextGroup(h)) :
        /\ inbox' = [s \in Viewer |-> IF s \in Members(NextGroup(h)) \ full THEN inbox[s] \cup {p}
                                                                          ELSE inbox[s]]
        /\ lost' = lost \cup {<<p, s>> : s \in full}
  BY DEF Send
<1> HIDE DEF p, half
<1>5. feed' \in [Handler -> Request]
  BY <1>2, <1>3 DEF FeedInv, TypeOK
<1>6. \A g \in Handler : feed'[g].stage # "idle" => feed'[g].fix \in stored'
  BY <1>1, <1>2, <1>3 DEF FeedInv, TypeOK
<1>7. inbox' \in [Viewer -> SUBSET Fix] /\ lost' \subseteq Fix \X Viewer
  BY <1>1, <1>4 DEF FeedInv, TypeOK, Members
<1>8. ASSUME NEW s \in Viewer PROVE Settled(viewer'[s], shown'[s], inbox'[s])
  <2>1. CASE inbox'[s] = inbox[s]
    BY <1>1, <2>1 DEF FeedInv
  <2>2. CASE s \in Members(NextGroup(h)) /\ inbox'[s] = inbox[s] \cup {p}
    <3>1. viewer[s].stage # "new" /\ viewer[s].group = NextGroup(h)
      BY <2>2 DEF Members, Joined
    <3>2. viewer[s].group \in Van => p.van = viewer[s].group
      BY <3>1, FixTypes DEF NextGroup, p
    <3> QED
      BY <1>1, <2>2, <3>1, <3>2 DEF FeedInv, Settled
  <2> QED
    BY <1>4, <2>1, <2>2
<1> QED
  BY <1>1, <1>5, <1>6, <1>7, <1>8 DEF FeedInv, TypeOK, HasLast, LastFix

LEMMA FailInv ==
  ASSUME FeedInv, NEW h \in Handler, SendFails(h)
  PROVE  FeedInv'
<1>1. /\ feed[h].fix \in Fix /\ feed' = [feed EXCEPT ![h] = Idle]
      /\ lost' = lost \cup {<<feed[h].fix, s>> : s \in UNION {Members(g) : g \in Unsent(h)}}
      /\ UNCHANGED <<vans, stored, viewer, inbox, shown>>
  BY FixTypes DEF SendFails, FeedInv
<1>2. Idle \in Request /\ Idle.stage = "idle"
  BY DEF Idle, Request
<1>3. lost' \subseteq Fix \X Viewer
  BY <1>1 DEF FeedInv, TypeOK, Members
<1>4. TypeOK'
  BY <1>1, <1>2, <1>3 DEF FeedInv, TypeOK
<1>5. \A g \in Handler : feed'[g].stage # "idle" => feed'[g].fix \in stored'
  BY <1>1, <1>2 DEF FeedInv, TypeOK
<1> QED
  BY <1>1, <1>4, <1>5 DEF FeedInv, HasLast, LastFix

-----------------------------------------------------------------------------
\* Steps of a consumer, which leave the requests and the fixes alone.

LEMMA ConsumerInv ==
  ASSUME FeedInv, NEW s \in Viewer, NEW c \in Consumer, viewer' = [viewer EXCEPT ![s] = c],
         shown' \in [Viewer -> SUBSET Fix], inbox' \in [Viewer -> SUBSET Fix],
         \A o \in Viewer \ {s} : shown'[o] = shown[o] /\ inbox'[o] = inbox[o],
         Settled(c, shown'[s], inbox'[s]), UNCHANGED <<vans, stored, feed, lost>>
  PROVE  FeedInv'
<1>1. \A o \in Viewer : viewer'[o] = IF o = s THEN c ELSE viewer[o]
  BY DEF FeedInv, TypeOK
<1>2. \A o \in Viewer : Settled(viewer'[o], shown'[o], inbox'[o])
  BY <1>1 DEF FeedInv
<1>3. TypeOK'
  BY DEF FeedInv, TypeOK
<1> QED
  BY <1>2, <1>3 DEF FeedInv, HasLast, LastFix

LEMMA LookUpInv ==
  ASSUME FeedInv, NEW s \in Viewer, NEW g \in Group, LookUp(s, g)
  PROVE  FeedInv'
<1> DEFINE c == [stage |-> "looked", group |-> g, seedVans |-> SeedVans(g),
                 unasked |-> SeedVans(g), seeds |-> {}]
<1>1. SeedVans(g) \subseteq Van /\ (g \in Van => SeedVans(g) = {g})
  BY FeedConstantsOK DEF SeedVans, Group, FeedInv, TypeOK
<1>2. c \in Consumer
  BY <1>1 DEF Consumer, Stage
<1>3. shown[s] = {} /\ inbox[s] = {}
  BY DEF LookUp, FeedInv, Settled
<1>4. Settled(c, shown[s], inbox[s])
  BY <1>1, <1>3 DEF Settled
<1> QED
  BY <1>2, <1>4, ConsumerInv DEF LookUp, FeedInv, TypeOK

LEMMA SeedQueryInv ==
  ASSUME FeedInv, NEW s \in Viewer, NEW v \in Van, SeedQuery(s, v)
  PROVE  FeedInv'
<1>0. /\ viewer[s] \in Consumer /\ Settled(viewer[s], shown[s], inbox[s])
      /\ viewer[s].stage = "seeding" /\ v \in viewer[s].unasked
      /\ shown' = shown /\ inbox' = inbox /\ UNCHANGED <<vans, stored, feed, lost>>
  BY DEF SeedQuery, MaySeed, FeedInv, TypeOK
<1>1. ASSUME NEW found, found \subseteq LastFix(v),
             viewer' = [viewer EXCEPT ![s] = [viewer[s] EXCEPT !.unasked = @ \ {v},
                                                               !.seeds = @ \cup found]]
      PROVE  FeedInv'
  <2> DEFINE c == [viewer[s] EXCEPT !.unasked = @ \ {v}, !.seeds = @ \cup found]
  <2>1. found \subseteq Fix /\ \A p \in found : p.van = v
    BY <1>1, FixTypes DEF LastFix, LatestAmong
  <2>2. c \in Consumer
    BY <1>0, <2>1 DEF Consumer
  <2>3. viewer[s].group \in Van => v = viewer[s].group
    BY <1>0 DEF Settled
  <2>4. Settled(c, shown[s], inbox[s])
    BY <1>0, <2>1, <2>3 DEF Settled, Consumer
  <2> HIDE DEF c
  <2> QED
    BY <1>0, <1>1, <2>2, <2>4, ConsumerInv DEF c, FeedInv, TypeOK
<1>2. CASE LastFix(v) = {} /\ viewer' = [viewer EXCEPT ![s].unasked = @ \ {v}]
  <2>1. PICK found : found = {}
    OBVIOUS
  <2>2. viewer' = [viewer EXCEPT ![s] = [viewer[s] EXCEPT !.unasked = @ \ {v},
                                                          !.seeds = @ \cup found]]
    BY <1>0, <1>2, <2>1 DEF Consumer, FeedInv, TypeOK
  <2> QED
    BY <1>1, <2>1, <2>2
<1>3. ASSUME NEW p \in LastFix(v),
             viewer' = [viewer EXCEPT ![s].unasked = @ \ {v}, ![s].seeds = @ \cup {p}]
      PROVE  FeedInv'
  <2>1. viewer' = [viewer EXCEPT ![s] = [viewer[s] EXCEPT !.unasked = @ \ {v}, !.seeds = @ \cup {p}]]
    BY <1>0, <1>3 DEF Consumer, FeedInv, TypeOK
  <2> QED
    BY <1>1, <2>1
<1> QED
  BY <1>2, <1>3 DEF SeedQuery

LEMMA ViewerInv ==
  ASSUME FeedInv, NEW s \in Viewer, ConnectStep(s) \/ Show(s) \/ Leave(s)
  PROVE  FeedInv'
<1>0. /\ viewer[s] \in Consumer /\ Settled(viewer[s], shown[s], inbox[s])
      /\ shown[s] \subseteq Fix /\ inbox[s] \subseteq Fix /\ viewer[s].seeds \subseteq Fix
      /\ viewer \in [Viewer -> Consumer]
      /\ shown \in [Viewer -> SUBSET Fix] /\ inbox \in [Viewer -> SUBSET Fix]
  BY DEF FeedInv, TypeOK, Consumer
<1>1. \A stage \in Stage : /\ [viewer[s] EXCEPT !.stage = stage] \in Consumer
                           /\ [viewer EXCEPT ![s].stage = stage]
                                = [viewer EXCEPT ![s] = [viewer[s] EXCEPT !.stage = stage]]
  BY <1>0 DEF Consumer
<1>2. CASE GroupAdd(s)
  <2>1. Settled([viewer[s] EXCEPT !.stage = "joined"], shown[s], inbox[s])
    BY <1>0, <1>2 DEF GroupAdd, Settled, Consumer
  <2> QED
    BY <1>0, <1>1, <1>2, <2>1, ConsumerInv DEF GroupAdd, SetStage, Stage
<1>3. CASE Accept(s)
  <2>1. Settled([viewer[s] EXCEPT !.stage = "seeding"], shown[s], inbox[s])
    BY <1>0, <1>3 DEF Accept, Settled, Consumer
  <2> QED
    BY <1>0, <1>1, <1>3, <2>1, ConsumerInv DEF Accept, SetStage, Stage
<1>4. CASE SeedSend(s)
  <2>1. /\ shown' = [shown EXCEPT ![s] = @ \cup viewer[s].seeds] /\ inbox' = inbox
        /\ viewer' = [viewer EXCEPT ![s] = [viewer[s] EXCEPT !.stage = "open"]]
        /\ viewer[s].stage = "seeding" /\ viewer[s].unasked = {}
        /\ UNCHANGED <<vans, stored, feed, lost>>
    BY <1>1, <1>4 DEF SeedSend, SetStage, Stage
  <2>2. shown' \in [Viewer -> SUBSET Fix]
    BY <1>0, <2>1
  <2>3. shown'[s] = shown[s] \cup viewer[s].seeds /\ \A o \in Viewer \ {s} : shown'[o] = shown[o]
    BY <1>0, <2>1
  <2>4. Settled([viewer[s] EXCEPT !.stage = "open"], shown'[s], inbox'[s])
    BY <1>0, <2>1, <2>3 DEF Settled, Consumer
  <2>5. [viewer[s] EXCEPT !.stage = "open"] \in Consumer
    BY <1>1 DEF Stage
  <2> QED
    BY <1>0, <2>1, <2>2, <2>3, <2>4, <2>5, ConsumerInv
<1>5. ASSUME NEW p \in stored, ShowUpdate(s, p) PROVE FeedInv'
  <2>1. /\ shown' = [shown EXCEPT ![s] = @ \cup {p}] /\ inbox' = [inbox EXCEPT ![s] = @ \ {p}]
        /\ viewer' = viewer /\ p \in inbox[s] /\ viewer[s].stage = "open"
        /\ UNCHANGED <<vans, stored, feed, lost>>
    BY <1>5 DEF ShowUpdate
  <2>2. viewer' = [viewer EXCEPT ![s] = viewer[s]] /\ p \in Fix
    BY <1>0, <2>1
  <2>3. shown' \in [Viewer -> SUBSET Fix] /\ inbox' \in [Viewer -> SUBSET Fix]
    BY <1>0, <2>1, <2>2
  <2>4. /\ shown'[s] = shown[s] \cup {p} /\ inbox'[s] = inbox[s] \ {p}
        /\ \A o \in Viewer \ {s} : shown'[o] = shown[o] /\ inbox'[o] = inbox[o]
    BY <1>0, <2>1
  <2>5. Settled(viewer[s], shown'[s], inbox'[s])
    BY <1>0, <2>1, <2>4 DEF Settled
  <2> QED
    BY <1>0, <2>1, <2>2, <2>3, <2>4, <2>5, ConsumerInv
<1>6. CASE Leave(s)
  <2>1. /\ shown' = shown /\ inbox' = [inbox EXCEPT ![s] = {}]
        /\ viewer' = [viewer EXCEPT ![s] = [viewer[s] EXCEPT !.stage = "gone"]]
        /\ viewer[s].stage # "new" /\ UNCHANGED <<vans, stored, feed, lost>>
    BY <1>1, <1>6 DEF Leave, SetStage, Stage
  <2>2. inbox' \in [Viewer -> SUBSET Fix] /\ inbox'[s] = {}
        /\ \A o \in Viewer \ {s} : inbox'[o] = inbox[o]
    BY <1>0, <2>1
  <2>3. Settled([viewer[s] EXCEPT !.stage = "gone"], shown'[s], inbox'[s])
    BY <1>0, <2>1, <2>2 DEF Settled, Consumer
  <2>4. [viewer[s] EXCEPT !.stage = "gone"] \in Consumer
    BY <1>1 DEF Stage
  <2> QED
    BY <1>0, <2>1, <2>2, <2>3, <2>4, ConsumerInv
<1> QED
  BY <1>2, <1>3, <1>4, <1>5, <1>6, SeedQueryInv DEF ConnectStep, Show

LEMMA StepFeed == FeedInv /\ [Next]_vars => FeedInv'
<1> SUFFICES ASSUME FeedInv, [Next]_vars PROVE FeedInv'
  OBVIOUS
<1>1. ASSUME NEW v \in Van, AddVan(v) PROVE FeedInv'
  BY <1>1 DEF AddVan, FeedInv, TypeOK, HasLast, LastFix
<1>2. CASE UNCHANGED vars
  BY <1>2 DEF vars, FeedInv, TypeOK, HasLast, LastFix
<1> QED
  BY <1>1, <1>2, StoreInv, SendInv, FailInv, LookUpInv, ViewerInv DEF Next

\* Every variable keeps its type; FeedInv says more, of what a consumer has at its stage.
THEOREM TypeCorrect == Spec => []TypeOK
<1>1. FeedInv => TypeOK
  BY DEF FeedInv
<1> QED
  BY <1>1, InitFeed, StepFeed, PTL DEF Spec

\* Neither the seed nor a broadcast brings another van's fix to a parent's socket, in any
\* interleaving of any number of requests and consumers.
THEOREM OwnVanOnly == Spec => []OnlyOwnVanShown
<1>1. FeedInv => OnlyOwnVanShown
  BY DEF FeedInv, Settled, OnlyOwnVanShown
<1> QED
  BY <1>1, InitFeed, StepFeed, PTL DEF Spec

-----------------------------------------------------------------------------
\* Nothing between the seed and the broadcasts.  From group_add on, a viewer has, or will
\* get, what is stored of every van it has asked about.

Has(p, s) ==
  \/ NotOlder(p, shown[s] \cup viewer[s].seeds)
  \/ p \in inbox[s]
  \/ Coming(p, s)
  \/ <<p, s>> \in lost

Covered ==
  \A s \in Viewer : Joined(s) =>
    \A p \in stored : p.van \in viewer[s].seedVans \ viewer[s].unasked => Has(p, s)

\* The van's group and the operators' are the groups of all who watch the van.
LEMMA WatchersGroups ==
  ASSUME FeedInv, NEW s \in Viewer, Joined(s), NEW p \in Fix, p.van \in viewer[s].seedVans
  PROVE  viewer[s].group \in {p.van, OPERATORS_GROUP}
BY DEF FeedInv, Settled, Joined, Group

LEMMA StoreCovers ==
  ASSUME FeedInv, Covered, NEW h \in Handler, NEW v \in Van, NEW t \in DeviceTime, Store(h, v, t)
  PROVE  Covered'
<1> DEFINE n == NewRow(v, t)
<1>1. /\ stored' = stored \cup {n} /\ n \in Fix
      /\ feed' = [feed EXCEPT ![h] = [stage |-> "stored", fix |-> n]]
      /\ feed[h].stage = "idle" /\ UNCHANGED <<vans, viewer, inbox, shown, lost>>
  <2>1. n \in Fix
    BY StoreInv
  <2>2. feed[h].stage = "idle"
    BY DEF Store, Idle
  <2> QED
    BY <2>1, <2>2 DEF Store
<1> HIDE DEF n
<1>2. \A g \in Handler : feed'[g] = IF g = h THEN [stage |-> "stored", fix |-> n] ELSE feed[g]
  BY <1>1 DEF FeedInv, TypeOK
<1> SUFFICES ASSUME NEW s \in Viewer, Joined(s)', NEW p \in stored',
                    p.van \in viewer'[s].seedVans \ viewer'[s].unasked
             PROVE  Has(p, s)'
  BY DEF Covered
<1>3. Joined(s) /\ p.van \in viewer[s].seedVans \ viewer[s].unasked
  BY <1>1 DEF Joined
<1>4. CASE p = n
  <2>1. viewer[s].group \in {n.van, OPERATORS_GROUP}
    BY <1>1, <1>3, <1>4, WatchersGroups
  <2>2. n.van \in Van
    BY <1>1 DEF Fix
  <2>3. feed'[h].stage = "stored" /\ feed'[h].fix = n /\ viewer'[s].group = viewer[s].group
    BY <1>1, <1>2
  <2>4. viewer'[s].group \in Unsent(h)'
    BY <2>1, <2>2, <2>3 DEF Unsent
  <2>5. Coming(p, s)'
    BY <1>4, <2>3, <2>4 DEF Coming
  <2> QED
    BY <2>5 DEF Has
<1>5. CASE p \in stored
  <2>1. Has(p, s)
    BY <1>3, <1>5 DEF Covered
  <2>2. Coming(p, s) => Coming(p, s)'
    BY <1>1, <1>2 DEF Coming, Unsent
  <2> QED
    BY <1>1, <2>1, <2>2 DEF Has, NotOlder
<1> QED
  BY <1>1, <1>4, <1>5

LEMMA SendCovers ==
  ASSUME FeedInv, Covered, NEW h \in Handler, Send(h)
  PROVE  Covered'
<1> DEFINE f == feed[h].fix
           half == [feed[h] EXCEPT !.stage = "half"]
<1>1. /\ UNCHANGED <<vans, stored, viewer, shown>> /\ feed[h].stage \in {"stored", "half"}
      /\ feed[h] \in Request /\ half.fix = f /\ half.stage = "half" /\ Idle.stage = "idle"
      /\ lost \subseteq lost'
  BY DEF Send, FeedInv, TypeOK, Request, Idle
<1>2. \A g \in Handler : feed'[g] = IF g = h THEN (IF feed[h].stage = "stored" THEN half ELSE Idle)
                                            ELSE feed[g]
  BY DEF Send, FeedInv, TypeOK
<1>3. PICK full \in SUBSET Members(NextGroup(h)) :
        /\ inbox' = [s \in Viewer |-> IF s \in Members(NextGroup(h)) \ full THEN inbox[s] \cup {f}
                                                                          ELSE inbox[s]]
        /\ lost' = lost \cup {<<f, s>> : s \in full}
  BY DEF Send
<1> HIDE DEF half, f
<1> SUFFICES ASSUME NEW s \in Viewer, Joined(s)', NEW p \in stored',
                    p.van \in viewer'[s].seedVans \ viewer'[s].unasked
             PROVE  Has(p, s)'
  BY DEF Covered
<1>4. /\ Joined(s) /\ p \in stored /\ p.van \in viewer[s].seedVans \ viewer[s].unasked
      /\ inbox[s] \subseteq inbox'[s]
  BY <1>1, <1>3 DEF Joined
<1>5. Has(p, s)
  BY <1>4 DEF Covered
<1>6. ASSUME NEW g \in Handler, feed[g].stage # "idle", feed[g].fix = p, viewer[s].group \in Unsent(g)
      PROVE  Has(p, s)'
  <2>1. CASE g # h
    <3>1. Coming(p, s)'
      BY <1>1, <1>2, <1>6, <2>1 DEF Coming, Unsent
    <3> QED
      BY <3>1 DEF Has
  <2>2. CASE g = h /\ viewer[s].group = NextGroup(h)
    <3>1. s \in Members(NextGroup(h)) /\ p = f
      BY <1>4, <1>6, <2>2 DEF Members, f
    <3>2. p \in inbox'[s] \/ <<p, s>> \in lost'
      BY <1>3, <3>1
    <3> QED
      BY <3>2 DEF Has
  <2>3. CASE g = h /\ viewer[s].group # NextGroup(h)
    <3>1. feed[h].stage = "stored" /\ viewer[s].group = OPERATORS_GROUP /\ p = f
      BY <1>1, <1>6, <2>3 DEF Unsent, NextGroup, f
    <3>2. Coming(p, s)'
      BY <1>1, <1>2, <3>1 DEF Coming, Unsent
    <3> QED
      BY <3>2 DEF Has
  <2> QED
    BY <2>1, <2>2, <2>3
<1> QED
  BY <1>1, <1>4, <1>5, <1>6 DEF Has, Coming, NotOlder

LEMMA FailCovers ==
  ASSUME FeedInv, Covered, NEW h \in Handler, SendFails(h)
  PROVE  Covered'
<1>1. /\ UNCHANGED <<vans, stored, viewer, inbox, shown>> /\ Idle.stage = "idle"
      /\ lost' = lost \cup {<<feed[h].fix, s>> : s \in UNION {Members(g) : g \in Unsent(h)}}
      /\ \A g \in Handler : feed'[g] = IF g = h THEN Idle ELSE feed[g]
  BY DEF SendFails, FeedInv, TypeOK, Idle
<1> SUFFICES ASSUME NEW s \in Viewer, Joined(s)', NEW p \in stored',
                    p.van \in viewer'[s].seedVans \ viewer'[s].unasked
             PROVE  Has(p, s)'
  BY DEF Covered
<1>2. Joined(s) /\ p \in stored /\ p.van \in viewer[s].seedVans \ viewer[s].unasked
  BY <1>1 DEF Joined
<1>3. Has(p, s)
  BY <1>2 DEF Covered
<1>4. ASSUME NEW g \in Handler, feed[g].stage # "idle", feed[g].fix = p, viewer[s].group \in Unsent(g)
      PROVE  Coming(p, s)' \/ <<p, s>> \in lost'
  <2>1. CASE g # h
    BY <1>1, <1>4, <2>1 DEF Coming, Unsent
  <2>2. CASE g = h
    <3>1. s \in Members(viewer[s].group)
      BY <1>2 DEF Members
    <3> QED
      BY <1>1, <1>4, <2>2, <3>1
  <2> QED
    BY <2>1, <2>2
<1> QED
  BY <1>1, <1>3, <1>4 DEF Has, Coming, NotOlder

\* A consumer's step that loses nothing it had, and asks about no van.
LEMMA KeepsCovered ==
  ASSUME FeedInv, Covered, NEW s \in Viewer, NEW c, viewer' = [viewer EXCEPT ![s] = c],
         UNCHANGED <<stored, feed, lost>>,
         \A o \in Viewer \ {s} : shown'[o] = shown[o] /\ inbox'[o] = inbox[o],
         \/ c.stage \notin {"joined", "seeding", "open"}
         \/ c.seedVans = c.unasked
         \/ /\ Joined(s) /\ c.group = viewer[s].group /\ c.seedVans = viewer[s].seedVans
            /\ \A p \in stored : p.van \in c.seedVans \ c.unasked =>
                 \/ NotOlder(p, shown'[s] \cup c.seeds)
                 \/ /\ p.van \notin viewer[s].unasked
                    /\ inbox[s] \subseteq inbox'[s] \cup shown'[s]
                    /\ shown[s] \cup viewer[s].seeds \subseteq shown'[s] \cup c.seeds
  PROVE  Covered'
<1>1. \A o \in Viewer : viewer'[o] = IF o = s THEN c ELSE viewer[o]
  BY DEF FeedInv, TypeOK
<1> SUFFICES ASSUME NEW o \in Viewer, Joined(o)', NEW p \in stored',
                    p.van \in viewer'[o].seedVans \ viewer'[o].unasked
             PROVE  Has(p, o)'
  BY DEF Covered
<1>2. CASE o # s
  <2>1. Joined(o) /\ p \in stored /\ p.van \in viewer[o].seedVans \ viewer[o].unasked
    BY <1>1, <1>2 DEF Joined
  <2>2. Has(p, o)
    BY <2>1 DEF Covered
  <2> QED
    BY <1>1, <1>2, <2>2 DEF Has, Coming, Unsent, NotOlder
<1>3. CASE o = s
  <2>1. viewer'[s] = c /\ c.stage \in {"joined", "seeding", "open"} /\ p \in stored
        /\ p.van \in c.seedVans \ c.unasked
    BY <1>1, <1>3 DEF Joined
  <2>2. CASE NotOlder(p, shown'[s] \cup c.seeds)
    BY <1>3, <2>1, <2>2 DEF Has, NotOlder
  <2>3. CASE ~NotOlder(p, shown'[s] \cup c.seeds)
    <3>1. /\ Joined(s) /\ c.group = viewer[s].group /\ p.van \in viewer[s].seedVans \ viewer[s].unasked
          /\ inbox[s] \subseteq inbox'[s] \cup shown'[s]
          /\ shown[s] \cup viewer[s].seeds \subseteq shown'[s] \cup c.seeds
      BY <2>1, <2>3
    <3>2. Has(p, s)
      BY <2>1, <3>1 DEF Covered
    <3>3. p \in shown'[s] => NotOlder(p, shown'[s] \cup c.seeds)
      BY <2>1, FixTypes DEF NotOlder
    <3>4. ~NotOlder(p, shown[s] \cup viewer[s].seeds)
      BY <2>3, <3>1 DEF NotOlder
    <3>5. Coming(p, s) => Coming(p, s)'
      BY <2>1, <3>1 DEF Coming, Unsent
    <3> QED
      BY <1>3, <2>3, <3>1, <3>2, <3>3, <3>4, <3>5 DEF Has
  <2> QED
    BY <2>2, <2>3
<1> QED
  BY <1>2, <1>3

\* The seed of v is a stored fix of v that no other is newer than, or v has none.
LEMMA SeedQueryCovers ==
  ASSUME FeedInv, Covered, NEW s \in Viewer, NEW v \in Van, SeedQuery(s, v)
  PROVE  Covered'
<1>1. /\ viewer[s] \in Consumer /\ viewer \in [Viewer -> Consumer] /\ Joined(s)
      /\ UNCHANGED <<vans, stored, feed, inbox, shown, lost>>
  BY DEF FeedInv, TypeOK, SeedQuery, MaySeed, Joined
<1>2. ASSUME NEW found, viewer' = [viewer EXCEPT ![s] = [viewer[s] EXCEPT !.unasked = @ \ {v},
                                                                         !.seeds = @ \cup found]],
             \A p \in stored : p.van = v => NotOlder(p, found)
      PROVE  Covered'
  <2> DEFINE c == [viewer[s] EXCEPT !.unasked = @ \ {v}, !.seeds = @ \cup found]
  <2>1. /\ c.stage = viewer[s].stage /\ c.group = viewer[s].group
        /\ c.seedVans = viewer[s].seedVans
        /\ c.unasked = viewer[s].unasked \ {v} /\ c.seeds = viewer[s].seeds \cup found
    BY <1>1 DEF Consumer
  <2>2. viewer' = [viewer EXCEPT ![s] = c]
    BY <1>2
  <2> HIDE DEF c
  <2>3. ASSUME NEW p \in stored, p.van \in c.seedVans \ c.unasked,
               ~NotOlder(p, shown'[s] \cup c.seeds)
        PROVE  p.van \notin viewer[s].unasked
    <3>1. p.van # v
      BY <1>2, <2>1, <2>3 DEF NotOlder
    <3> QED
      BY <2>1, <2>3, <3>1
  <2>4. /\ inbox[s] \subseteq inbox'[s] \cup shown'[s]
        /\ shown[s] \cup viewer[s].seeds \subseteq shown'[s] \cup c.seeds
    BY <1>1, <2>1
  <2>5. \A o \in Viewer \ {s} : shown'[o] = shown[o] /\ inbox'[o] = inbox[o]
    BY <1>1
  <2> QED
    BY <1>1, <2>1, <2>2, <2>3, <2>4, <2>5, KeepsCovered
<1>3. CASE LastFix(v) = {} /\ viewer' = [viewer EXCEPT ![s].unasked = @ \ {v}]
  <2>1. viewer' = [viewer EXCEPT ![s] = [viewer[s] EXCEPT !.unasked = @ \ {v},
                                                          !.seeds = @ \cup {}]]
    BY <1>1, <1>3 DEF Consumer
  <2>2. \A p \in stored : p.van # v
    BY <1>3 DEF FeedInv, HasLast
  <2> QED
    BY <1>2, <2>1, <2>2
<1>4. ASSUME NEW p \in LastFix(v),
             viewer' = [viewer EXCEPT ![s].unasked = @ \ {v}, ![s].seeds = @ \cup {p}]
      PROVE  Covered'
  <2>1. viewer' = [viewer EXCEPT ![s] = [viewer[s] EXCEPT !.unasked = @ \ {v},
                                                          !.seeds = @ \cup {p}]]
    BY <1>1, <1>4 DEF Consumer
  <2>2. \A q \in stored : q.van = v => NotOlder(q, {p})
    BY <1>4 DEF LastFix, LatestAmong, NotOlder
  <2> QED
    BY <1>2, <2>1, <2>2
<1> QED
  BY <1>3, <1>4 DEF SeedQuery

\* LookUp, and each step of a consumer.
LEMMA ViewerCovers ==
  ASSUME FeedInv, Covered, NEW s \in Viewer,
         (\E g \in Group : LookUp(s, g)) \/ ConnectStep(s) \/ Show(s) \/ Leave(s)
  PROVE  Covered'
<1>0. /\ viewer[s] \in Consumer /\ Settled(viewer[s], shown[s], inbox[s])
      /\ viewer \in [Viewer -> Consumer]
      /\ shown \in [Viewer -> SUBSET Fix] /\ inbox \in [Viewer -> SUBSET Fix]
  BY DEF FeedInv, TypeOK
<1>1. \A stage \in Stage :
        LET c == [viewer[s] EXCEPT !.stage = stage]
        IN /\ [viewer EXCEPT ![s].stage = stage] = [viewer EXCEPT ![s] = c]
           /\ c.stage = stage /\ c.group = viewer[s].group /\ c.seedVans = viewer[s].seedVans
           /\ c.unasked = viewer[s].unasked /\ c.seeds = viewer[s].seeds
  BY <1>0 DEF Consumer
<1>2. ASSUME NEW g \in Group, LookUp(s, g) PROVE Covered'
  <2> DEFINE c == [stage |-> "looked", group |-> g, seedVans |-> SeedVans(g),
                   unasked |-> SeedVans(g), seeds |-> {}]
  <2>1. viewer' = [viewer EXCEPT ![s] = c] /\ c.stage = "looked"
    BY <1>2 DEF LookUp
  <2>2. UNCHANGED <<stored, feed, lost, shown, inbox>>
    BY <1>2 DEF LookUp
  <2> QED
    BY <2>1, <2>2, KeepsCovered
<1>3. CASE GroupAdd(s)
  <2> DEFINE c == [viewer[s] EXCEPT !.stage = "joined"]
  <2>1. viewer' = [viewer EXCEPT ![s] = c] /\ c.seedVans = c.unasked
    BY <1>0, <1>1, <1>3 DEF GroupAdd, SetStage, Stage, Settled
  <2>2. UNCHANGED <<stored, feed, lost, shown, inbox>>
    BY <1>3 DEF GroupAdd
  <2> QED
    BY <2>1, <2>2, KeepsCovered
<1>4. CASE Accept(s)
  <2> DEFINE c == [viewer[s] EXCEPT !.stage = "seeding"]
  <2>1. viewer' = [viewer EXCEPT ![s] = c] /\ c.seedVans = c.unasked
    BY <1>0, <1>1, <1>4 DEF Accept, SetStage, Stage, Settled
  <2>2. UNCHANGED <<stored, feed, lost, shown, inbox>>
    BY <1>4 DEF Accept
  <2> QED
    BY <2>1, <2>2, KeepsCovered
<1>5. CASE SeedSend(s)
  <2> DEFINE c == [viewer[s] EXCEPT !.stage = "open"]
  <2>1. /\ viewer' = [viewer EXCEPT ![s] = c] /\ c.group = viewer[s].group
        /\ c.seedVans = viewer[s].seedVans /\ c.seeds = viewer[s].seeds
        /\ viewer[s].unasked = {}
    BY <1>1, <1>5 DEF SeedSend, SetStage, Stage
  <2>2. UNCHANGED <<stored, feed, lost, inbox>> /\ Joined(s)
    BY <1>5 DEF SeedSend, Joined
  <2>3. /\ shown[s] \subseteq shown'[s]
        /\ \A o \in Viewer \ {s} : shown'[o] = shown[o] /\ inbox'[o] = inbox[o]
    BY <1>0, <1>5 DEF SeedSend
  <2> HIDE DEF c
  <2> QED
    BY <2>1, <2>2, <2>3, KeepsCovered
<1>6. ASSUME NEW p \in stored, ShowUpdate(s, p) PROVE Covered'
  <2>1. viewer' = [viewer EXCEPT ![s] = viewer[s]]
    BY <1>0, <1>6 DEF ShowUpdate
  <2>2. UNCHANGED <<stored, feed, lost>> /\ Joined(s) /\ viewer[s].unasked = {}
    BY <1>0, <1>6 DEF ShowUpdate, Joined, Settled
  <2>3. /\ shown[s] \subseteq shown'[s] /\ inbox[s] \subseteq inbox'[s] \cup shown'[s]
        /\ \A o \in Viewer \ {s} : shown'[o] = shown[o] /\ inbox'[o] = inbox[o]
    BY <1>0, <1>6 DEF ShowUpdate
  <2> QED
    BY <2>1, <2>2, <2>3, KeepsCovered
<1>7. CASE Leave(s)
  <2> DEFINE c == [viewer[s] EXCEPT !.stage = "gone"]
  <2>1. viewer' = [viewer EXCEPT ![s] = c] /\ c.stage = "gone"
    BY <1>1, <1>7 DEF Leave, SetStage, Stage
  <2>2. UNCHANGED <<stored, feed, lost, shown>>
        /\ \A o \in Viewer \ {s} : inbox'[o] = inbox[o]
    BY <1>0, <1>7 DEF Leave
  <2> QED
    BY <2>1, <2>2, KeepsCovered
<1> QED
  BY <1>2, <1>3, <1>4, <1>5, <1>6, <1>7, SeedQueryCovers DEF ConnectStep, Show

LEMMA StepCovers == FeedInv /\ Covered /\ [Next]_vars => Covered'
<1> SUFFICES ASSUME FeedInv, Covered, [Next]_vars PROVE Covered'
  OBVIOUS
<1>1. ASSUME UNCHANGED <<stored, feed, viewer, inbox, shown, lost>> PROVE Covered'
  BY <1>1 DEF Covered, Has, Joined, Coming, Unsent, NotOlder
<1>2. ASSUME NEW v \in Van, AddVan(v) PROVE Covered'
  BY <1>1, <1>2 DEF AddVan
<1>3. CASE UNCHANGED vars
  BY <1>1, <1>3 DEF vars
<1> QED
  BY <1>2, <1>3, StoreCovers, SendCovers, FailCovers, ViewerCovers DEF Next

\* Whatever the interleaving of requests and connecting consumers, a fix of a watched van is
\* shown or outdated by one that is, waits in the channel, is still to be sent, or was lost
\* by a send that failed: group_add comes before the query, the row before the broadcast.
THEOREM NoFixFalls == Spec => []NoFixFallsBetween
<1>1. Init => Covered
  BY DEF Init, Covered
<1>2. FeedInv /\ Covered => NoFixFallsBetween
  <2> SUFFICES ASSUME FeedInv, Covered, NEW s \in Viewer, viewer[s].stage = "open",
                      NEW p \in stored, p.van \in viewer[s].seedVans
               PROVE  \/ NotOlder(p, shown[s]) \/ p \in inbox[s]
                      \/ Coming(p, s) \/ <<p, s>> \in lost
    BY DEF NoFixFallsBetween
  <2>1. viewer[s].unasked = {} /\ shown[s] \cup viewer[s].seeds = shown[s] /\ Joined(s)
    BY DEF FeedInv, Settled, Joined
  <2>2. Has(p, s)
    BY <2>1 DEF Covered
  <2> QED
    BY <2>1, <2>2 DEF Has
<1> QED
  BY <1>1, <1>2, InitFeed, StepFeed, StepCovers, PTL DEF Spec
=============================================================================
