# Verification of the Gina Gymnastics ride tracker

TLA+ specifications of the backend in `src/backend` (Django, Channels, Celery), model-checked
with TLC and, where a statement must hold for every instance, proved with TLAPS.

The program tracks the vans of a gymnastics centre. Traccar posts geofence events and GPS fixes
to two webhooks. A geofence event at a school starts the rides of the children due there, tells
their parents, and opens the live map to them; one at the gym ends the rides and closes the maps.
A fix is stored and pushed to the maps. Operators edit children, schedules, routes and vans.

## 1. Inventory

| Component | Code | State | Operations | Meets |
|---|---|---|---|---|
| Ride lifecycle | `tracking/views.py` `arrival_webhook`, `tracking/services.py` | `Child.active_ride`, `active_ride_start`; `ArrivalEvent` rows | ENTER at a school, ENTER at the gym, EXIT, `is_ride_active` | notifications (calls), sockets (`ride_ended`), staff edits (same rows) |
| Live-map sockets | `tracking/consumers.py` | consumer attributes; Redis groups and channels | `connect`, `disconnect`, `ride_ended`, `van_position_update` | rides (gate), position feed, tickets |
| Position feed | `tracking/views.py` `traccar_position`, `get_seed_positions` | `Position` rows; messages in channels | store and broadcast a fix; seed a new map | sockets |
| Staff edits | `ChildViewSet`, `ChildScheduleViewSet`, `ChildAdmin`, `RouteViewSet` | `Child`, `ChildSchedule`, `Route` rows | read, change, save whole rows | rides |
| Fleet and Traccar | `fleet/views.py`, `fleet/traccar_client.py` | `Van`, `GeoFence`, `Route` rows; links and fences in Traccar | create, update, destroy; sync of links | Traccar (HTTP, may fail half-way) |
| WebSocket tickets | `tracking/middleware.py`, `WebSocketTicketView` | Redis cache, 30 s | issue, redeem | sockets |
| Invites, password reset | `accounts/views.py`, `ParentInvite` | invites; in the cache a reset code and two counters per number | follow a link, resend one, send and verify a code | accounts (rows), notifications |
| Enrollment, accounts | `EnrollParentView`, `ParentViewSet`, `OperatorViewSet`, `MeView`, `ChangePasswordView`, the admin | `User` rows | enroll, edit, change password, deactivate, delete | invites |
| Login (not modelled) | `accounts/backends.py` | none | look a user up by name, e-mail or phone | accounts |
| Notification delivery | `notifications/` | Celery queue | choose the channel, send, retry | rides, invites |
| Read-only views | `ArrivalEventList`, `PositionList`, `trail` | none | one query each | |

What makes it hard:

* **Threads.** Sync views run in a thread per request under the one daphne process, in autocommit
  mode (`ATOMIC_REQUESTS` is not set), so requests interleave between any two database, broker or
  channel-layer calls, and `delay_on_commit` queues at once.
* **Copies of rows.** A queryset is evaluated when its loop starts; `save()` writes all columns of
  the copy back. Webhooks, PATCHes and the admin's form all do this to `Child`.
* **Coroutines.** `connect()` checks the ride, joins a group, accepts and seeds, with an await
  between each two; what comes for its channel meanwhile waits, or is dropped when 100 wait.
* **Failure.** Nothing catches an exception of a call in `arrival_webhook`; the parents are told
  before the row is saved. A restart loses requests and sockets, but neither rows nor Redis groups.
* **Lost, late and duplicated events** of Traccar, and two vans at one gym.

What makes each component correct:

* Rides: a ride starts only as announced and when the van is at the school; it ends at the gym, or
  after six hours; the parents told at the gym are those told at the school.
* Sockets: a socket is in its van's group exactly while it watches; the end of a ride reaches every
  socket that watches it and closes no other.
* Feed: no fix is missed between the seed and the broadcasts; a parent sees only the own van.
* Fleet: the links of a van's tracker are those its routes need, also after failures.
* Accounts: nobody gets a password, or access back, except through a link or the save of a row that
  had it; few share a phone number, unless the admin's form gave it to them; a new parent is told.
* Tickets, links, codes: meant for one use, and used by no more than the requests that overlap; a
  lockout ends.

The hazards, each at its line, are listed in `PROJECT.json`.

## 2. Modules

| Module | What it models | State and code |
|---|---|---|
| `RideGate` | the promise: a gate per child that opens only for a pickup the parent was told of | abstract |
| `Rides` | `arrival_webhook`, `is_ride_active`, and the staff's edits of the same rows | `child` (route, `active_ride`, `active_ride_start`), `schedule`, `routeVan`, `arrivals`, `notices`; `run[h]` is the request that thread `h` serves, `edit[e]` the copy a staff request holds |
| `Accounts` | the user and invite tables, and the requests that write them | `users`, `invites`, `texts` (queued messages); `req[h]` is the request of thread `h`; `opened`, `excused` are history; `mix` bounds the behaviour |
| `ResetCodes` | extends `Accounts`: forgot-password and verify-code over the Redis cache | `code`, `attempts`, `sends` with their time to live; `call[h]`; `guesses` is history |
| `Tickets` | extends `Accounts`: the one-time tickets of the sockets | `ticket`, `redeem[h]`; `admitted` is history |
| `Deliveries` | extends `Accounts`: Celery's tries of each queued message | `task[m]` |
| `Access` | composes the four | |
| `RidesProofs`, `LiveMapProofs`, `PositionFeedProofs`, `FleetSyncProofs`, `FleetLinksProofs`, `AccountsProofs`, `SharingProofs`, `AccessProofs` | theorems; `FleetLinksProofs` is about `FleetSync` too, `SharingProofs` about `Accounts` | |
| `LiveMap` | extends `Rides`: parents' consumers, groups and channels | `sock`, `member`, `inbox` |
| `PositionFeed` | storing, broadcasting and seeding fixes | `vans`, `stored`, `feed[h]`, `viewer[s]`, `inbox`, `shown`, `lost` |
| `VanLinks` | the promise: a van's links are those its routes need, exactly, so far that no arrival is missed, or not at all, and only in doubt may either change | abstract |
| `FleetSync` | routes, fences and trackers in the database against the zones and links in Traccar | `routes`, `fences`, `device`; `zones`, `used`, `linked`; `op[o]` is the request of operator `o` |
| `MC*` | small instances | |

### Rides

One action per database or broker call, with the pure code around it:

| Action | Code (`tracking/views.py`) |
|---|---|
| `Receive` | the `ArrivalEvent` row (113); only an ENTER goes on (117) |
| `SchoolQuery` | `now`, and the school queryset evaluated (121-136) |
| `SchoolSkip`, `SchoolScheduleGone`, `SchoolNotify` | the schedule row read again (139): outside the window, gone (`AttributeError`), or inside it, with `notify_parent` (156) |
| `SchoolSave` | `child.save()` of the copy, started (158) |
| `GymQuery`, `GymNotify`, `GymSave`, `GymSend` | 166-174, 176, 177, 183 |
| `Respond`, `Fail` | 192; an exception anywhere, which leaves what was done |

The order in which a loop takes its children is left open, which allows every order the database
may return. `notify_parent` is one step: its calls are recorded in `notices`, whatever channel
it picks, and also where it returns at once because the parent has no phone number. The
staff's requests are `EditRead` and `EditSave` (a PATCH, or the admin's form that
also carries the `active_ride` box), `SetSchedule` and `MoveRoute`. `Tick` moves the clock,
`Restart` loses all requests.

`RideGate` has two variables, the pickups told and the gates. `Rides` maps to it by
`told <- {<<child, at>>` of the school notices`}` and
`gate[c] <- IF active_ride THEN active_ride_start ELSE None`. The mapping leaves out the six
hours, which are a reading of the gate (`is_ride_active`), not a change of it.

### LiveMap

`LiveMap` EXTENDS `Rides` and adds the consumers to the same steps. `Connect` is the query of
`get_child_for_parent` with `is_ride_active` (the check has no await after the query), `Join` is
`group_add`, `Accept` is `accept()` and the rest of `connect()`, `Handle` one message of the
channel, `Disconnect` is `group_discard`. `SendRideEnded` is `GymSend` with the group it sends to:
the route of the webhook's copy, the van that route has now. `RestartAll` loses sockets and
requests together; Redis groups stay.

### PositionFeed

`Store`, `Send` (twice: the van's group, the operators' group) and `SendFails` are
`traccar_position`; `LookUp`, `GroupAdd`, `Accept`, `SeedQuery` (per van), `SeedSend`, `ShowUpdate`
and `Leave` are the consumer. Channels are sets here: a viewer may take fixes in any order and any
may be dropped, a superset of what the queue does. `lost` remembers failed and dropped sends.

### FleetSync

Traccar computes arrivals only for zones linked to a tracker, so a missing link is an arrival that
nobody hears of. Each query and each HTTP call of `fleet/views.py` is an action:

| Action | Code (`fleet/views.py`) |
|---|---|
| `Create`; `UpdateRead`, `Save`, `SaveRefused`; `DestroyRead`, `Delete` | the write of the row (65, 74, 83) and, for the last two, the read before it |
| `QueryRoutes`, `ListLinks`, `QueryFences` | `wanted`, `linked`, `managed` (30-36) |
| `Link`, `Unlink` | one round of either loop (38-41); the order of a set is left open |
| `NextVan`, `Finish`, `CommitRefused` | the old van's sync (77); the end, with the commit |
| `Fail`, `AnswerLost` | an exception at any point; a call that took effect and raised |
| `PostZone`, `SaveFence`; `PatchFence`, `SavePatch`; `DropFence`, `DeleteZone`; `FenceFails` | `GeoFenceViewSet` (104-138) |
| `ChangeImei` | `VanViewSet` with another `tracker_imei` |

`Sees` is what the isolation level shows: the request's own row while its transaction is open, and
the committed rows of all others. Foreign keys are deferred to the commit (`Committable`), as Django
creates them. `ghosts` record what no code keeps: `unsynced` says of a van which request or change
may have put its links off, `crossed` which requests overlapped, `revived` which fences an
update inserted again after their deletion. They are read by the properties only, except that
`Finish` clears the marks of the vans that an undisturbed request has synced.

`VanLinks` has three variables, each a function of the van: the zones its routes need, the zones its
tracker reports, and how far the one may be taken for the other. `FleetSync` maps to it by what is
committed and what is linked, both without the zones in `revived`, and by `unsynced`: a van without marks
is `"exact"`, one with marks of creations and deletions only is `"covers"`, any other is `"none"`. The
mapping leaves out the requests, their calls, the transactions and the trackers.

### Accounts

One action per query. A request keeps the copy of the row it has read, and `save()` without
`update_fields` writes all of it back, or inserts it again:

| Action | Code (`accounts/views.py`) |
|---|---|
| `EnrollLookup`; `EnrollKnown` or `EnrollNew`; `SendText` | the query for the number (233); the known parent (236); the transaction with parent and invite (236-255); the queue after it (257-266) |
| `ResendRead`, `ResendCreate`, `SendText` | `resend_invite` (192-203) |
| `CreateOperator` | `perform_create` (143-161): with a password, or with a link by text, by mail, or to nobody |
| `PatchRead`; `PatchPhone`, `PatchRest`; `Save` | `ParentViewSet`'s PATCH with the number's validation (`serializers.py:126`) |
| `MePatch`, `ChangePassword`, `FollowLink`; `Save`; `MarkUsed` | `MeView`, `ChangePasswordView`; `SetPasswordView`'s check (300-309), the user's save (310) and `used_at` (311-312) |
| `AdminRead`; `AdminPost`; `Save` | the POST of `admin.py`'s change form: the row is read; role, phone number, e-mail and `is_active` become what the form says, any values, checked against no other account; the whole row is saved with the password that was read |
| `Deactivate`, `Delete`, `Expire`, `Fail` | one column; Django admin's deletion with the invites; 48 hours; an exception anywhere |

Since the form's values are any, it does not matter when the form was opened: the open form holds no
thread, only its POST does. `excused` remembers what the code does not promise anything of: the links of
requests that failed, by stage, the numbers that the admin's form gave to an account, and the
accounts whose role it changed (`Unchecked`).

### ResetCodes, Tickets, Deliveries, Access

`ResetCodes` has one action per cache call of `ForgotPasswordView` (364-380) and
`VerifyResetCodeView` (403-430), for one phone number, since the keys of different numbers do not
meet. `ForgotCount` joins the lookup of the parent with the read of the counter: a change of the table
between the two has the same effect after both. There is one code besides the wrong submission; two
codes that differ would only add submissions of the old one, which are wrong too. `Tick` ages the
entries. `Tickets` has `IssueTicket` (`WebSocketTicketView`), `LookUpTicket` (ticket and user, again
two reads that commute) and `Admit` (deletion, and the user goes into the scope). `Deliveries` tries a
message, may raise before or after the provider took it, gives up after `MaxRetries` retries, or loses
the worker. `AccessNext` interleaves all of them; `VerifyInvite` writes the invite table and
`TextTheCode` the queue, and these are the steps `IssueInvite` and `TextCode` of `Accounts`.

## 3. Runs

| Run | Instance | Shows |
|---|---|---|
| `rides` | 2 requests, 1 child, 2 vans, 2 routes, 2 schools, 1 PATCH at a time, 1 fault, 2 arrivals, 2 ticks | `TypeOK`, `StartsWereAnnounced`, `SchoolNoticesHaveAnArrival`, `GymNoticesFollowSchoolNotices`, `ImplementsRideGate`, `RidesExpire` |
| `rides_wrong_van` | 2 children, 2 vans, 2 routes from different schools to one gym, 3 arrivals | violation of `OnlyOwnVanTellsArrival` |
| `rides_stale_patch` | 1 request, 1 PATCH | violation of `PatchLeavesRideAlone` |
| `livemap` | 1 socket, 2 children, 2 routes of 1 van, channel of 2, 1 fault, 3 arrivals | `LiveTypeOK`, `MembershipFollowsSocket`, `OnlyEndedRoutesClose`, `EndReachesWatchers`, `QueuedEndCloses`, `RidesExpire` |
| `livemap_late_join` | 1 socket, 1 child | violation of `EndedRideCloses` |
| `livemap_lost_end` | 1 socket, 1 child, 1 arrival | violation of `AccessEnds` |
| `position_feed` | 2 requests, 1 viewer (parent or operator), 2 vans, 2 fixes, clocks 1 and 2 | `TypeOK`, `NoFixFallsBetween`, `OnlyOwnVanShown`, `FixesGetShown` |
| `fleet_sync` | 2 operators, 2 requests, 2 faults, 2 vans, 3 trackers, 2 routes, 2 schools, 1 gym, 1 zone drawn by hand | `TypeOK`, `RowsHaveZones`, `LinksFollowRoutes`, `CreatedRoutesAreLinked`, `HandmadeLinksStay`, `ImplementsVanLinks` |
| `fleet_rollback` | 1 operator, 2 requests, 1 fault | violation of `RoutesAreLinked` |
| `fleet_race` | 2 operators, 2 requests, no faults | violation of `DeletionKeepsNeededZones` |
| `access` | 2 threads, 3 accounts, 3 links, 2 phone numbers, 1 e-mail address, 1 password, 1 ticket; 2 wrong guesses, 1 code sent, times to live of 2 and 3 ticks, 1 retry | `AccessTypeOK`, `PasswordsCameByLinks`, `LinksSetFewPasswords`, `FewShareAPhone`, `ParentsGetALink`, `TicketsAdmitFew`, `AccessReturnsByOldCopy`, `LockoutEnds`, `SendingResumes`, `NewParentsAreTold` |
| `reset_cap` | 2 threads, 1 account, the 5 attempts of the settings | violation of `HardCap` |

Why the bounds are enough. Two concurrent requests are the least that interleave, and every
interference on a `Child` row is between two holders of a copy of it, here two webhooks and a
PATCH. Three arrivals make the sequence school, school again or gym, gym, including duplicates and
late events (`livemap`); two suffice where a staff edit is added (`rides`). With `Buffer` 0 a pickup at
tick 0 gives an arrival in and after the window; with `MaxDuration` 0 a ride has run out at the next
tick, so the six hours end before, between and after the steps of a request. The admin's form of a child
is in no run (`Admin` is empty): the theorems of `RidesProofs` have it.
A channel of 2 messages fills. One fault can hit each step. Two fixes with clocks 1 and 2 come in either
order. In `fleet_sync` two requests overlap, or the second repairs what the first left; two vans and
two routes share a zone or not, and a route moves between them; the third tracker is the one a van
is given; two faults let a request fail after a tracker was exchanged, or two in a row. `Init` is any
fleet whose routes are linked, so no requests are spent on getting there. The bounds are the constants
`MaxTime`, `MaxArrivals`, `MaxFaults`, `MaxFixes`, `Capacity` and `MaxRequests`.
In `access` a behaviour calls the endpoints of one of thirteen groups (`MCAccess.Groups`), each with the
endpoints that meet on a row or a key: all together would have too many states. The groups also say how
many links are created, which addresses are entered, and which phone numbers the admin's form is sent with
(`typed`). Three accounts are the old one and two that share a number; the old one may have no number.
Two guesses with two threads are enough for a slow request to write an old count back; a time to live of
two or three ticks runs out before, between and after the calls of a request, and a counter of guesses
(2) sooner than one of codes sent (3). Requests on the accounts that fail are bounded by `excused`: at each
stage, one with the same link. Those with reset codes fail in a group of their own.
Deadlock is not checked: once the bounded number of arrivals, requests or links has been used up, the
bounded models stop. `fleet_sync` uses symmetry over vans, routes, trackers, schools and operators; it
checks safety only.

Fairness. `FairSpec` and `LiveFairSpec` assume that the clock advances, that a thread serving a
request gets to run until it answers (daphne's pool and the calls' own timeouts), and that
a consumer's coroutine gets to run. Nothing is assumed of vans, parents, operators or
failures: no arrival, hang-up or exception is ever forced.
`AccessFairSpec` assumes that time passes, that a request on the accounts once begun goes on, and
that the workers try what is queued. Requests with reset codes are never forced, begun or not:
the lockout must end also when a request hangs for ever, and however many are refused meanwhile.

### Where the code departs from what it says

* `OnlyOwnVanTellsArrival`: the gym branch does not ask which van arrived (`views.py:170`). Two vans
  each pick up the child of their own route; when the first of them enters the gym, the parent of the
  other's child is told of an arrival too, and that ride ends on the road. The comment above that line
  (167-168) gives "even if the van never picked them up" as what the filter is there to prevent: it does so
  for children whom no van has picked up, not for those whom another one has.
* `PatchLeavesRideAlone`: the ride's columns are read-only in the API (`serializers.py:38`), but a
  PATCH saves the whole row it read before.
* `EndedRideCloses`: between `connect()`'s check and `group_add` a ride may end, and the socket
  stays open (README.md:25 says the server closes it). Only daphne's default timeout of a day
  would, which the model of one day does not have.
* `AccessEnds`: when the gym's webhook is lost, the six hours are not applied to open sockets
  (`services.py:6-8` says a parent does not keep access forever). Here too only
  daphne's timeout of a day would.
* `RoutesAreLinked`: the transaction of an update covers the row, not Traccar. When the sync has
  removed a link and fails after that, the old row comes back without it (`views.py:75`), the state
  that the comment at `views.py:60` says the transaction is there to avoid.
* `DeletionKeepsNeededZones`: the deletion of a route and the creation of another at the same van
  overlap; the first one's sync has read the routes before the second one commits and unlinks a zone
  that the new route needs (`views.py:38`), against the docstring at `views.py:25`.
* `HardCap`: the counter of wrong guesses is read (`views.py:409`) and written (416) in two calls. A slow
  request writes an old count back after others have gone on, so a sixth guess is compared, against the "hard
  cap" of 5 at `views.py:392`. Two threads are enough, and the more overlap, the more guesses there are.

What else the docs say of links, codes and access is too strong for any reading in which requests
overlap, and the properties of `access` state what is left of it:

* A link is "single-use" (`views.py:292`) and a code too (391): requests that overlap between check
  and mark each get in. `LinksSetFewPasswords` bounds them by the threads; a request that fails
  after the password leaves the link usable.
* The admin's form gives a phone number to any number of parents, so `FewShareAPhone` speaks of numbers that
  it never set. An operator's account that it makes a parent's has a password without a link, or no
  password and no link: `PasswordsCameByLinks`, `ParentsGetALink` and `NewParentsAreTold` leave it out.
* `deactivate()` and a new password are undone by a whole-row save of a copy read before
  (`AccessReturnsByOldCopy` says that nothing else undoes a deactivation).
* A parent whose enrollment failed before the queue is known afterwards: enrolling again sends no link
  (`views.py:216-218` describes the new parent only), so `ParentsGetALink` has the exception.
* An operator without password, phone number and address gets an invite that nobody is told of
  (`serializers.py:79-82` says one without a password gets a link).
* An invite is "never texted to an existing parent" (`models.py:86`), but `resend_invite` does that.

`OnlyEndedRoutesClose` and `EndReachesWatchers` hold as stated, for routes and children that are not
reassigned during the ride (`livemap` has no editor): otherwise the group the webhook computes need
not be the one the socket joined, which the code does not claim to handle.

## 4. Proofs

`RidesProofs` proves, for every set of children, vans, routes, fences, threads and staff requests
and every value of the bounds, from `ConstantsOK` alone:

| Theorem | Statement | Argument |
|---|---|---|
| `TypeCorrect` | `Spec => []TypeOK` | `TypeInv`: a request past `Receive` holds a van and a fence, and in a save or send stage it holds a copy |
| `StartsAnnounced` | `Spec => []StartsWereAnnounced` | `AnnouncedInv` |
| `RidesImplementRideGate` | `Spec => ImplementsRideGate` | `TypeInv` and `AnnouncedInv`; each save opens or shuts a gate, the rest tells or stutters |
| `SchoolNoticesFollowArrivals` | `Spec => []SchoolNoticesHaveAnArrival` | `ArrivalInv` |
| `GymNoticesFollow` | `Admin = {} => (Spec => []GymNoticesFollowSchoolNotices)` | `PickedInv` |

`StartsWereAnnounced` is not inductive: a save writes the start that a *copy* carries. So
`AnnouncedInv` says of every copy, in the rows, in the candidates of a request, in its current
child and in the staff's hands, that its start was announced, and of a request about to save
a start that the notice for its time was made. Notices only grow (`NoticesGrow`), hence old copies
stay right however late they are written. `ArrivalInv` likewise says that a request under way has
its arrival in the table and that the copies in its school loop have the route whose
school it is; arrivals stay (`EnteredStays`). `PickedInv` says of every active copy that the child's
parent was told of a pickup, and that the copies of the gym loop are active; an admin's form, which
may tick `active_ride`, would break it, hence the assumption.

`LiveMapProofs` proves, from `ConstantsOK` and `CapacityOK`:

| Theorem | Statement | Argument |
|---|---|---|
| `LiveMapImplementsRides` | `LiveSpec => Spec` | a step of a socket writes nothing of `Rides`; all of the above holds with sockets |
| `LiveTypes` | `LiveSpec => []LiveTypeOK` | `LiveInv`: a consumer past the check holds a child, a route and a van |
| `MembershipFollows` | `LiveSpec => []MembershipFollowsSocket` | `LiveInv` |
| `OnlyEndedClose` | `LiveSpec => []OnlyEndedRoutesClose` | `EndInv`: behind a `ride_ended` in a channel, or about to be sent, is a notice of the gym |
| `EndReaches` | `Editor = {} => (LiveSpec => EndReachesWatchers)` | `RouteInv`: what requests and consumers captured agrees with the tables |

`EndReaches` needs that nobody gives the child another route or the route another van. Otherwise the
group that the webhook reads need not be the one the socket has joined, which the code does not
claim to handle. Without editors, the only writes of a route are those of old copies by the webhooks,
and `ProceedKeepsRoutes` shows that they write what is there. `OnlyEndedClose` holds with editors.

`PositionFeedProofs` proves, from `FeedConstantsOK`:

| Theorem | Statement | Argument |
|---|---|---|
| `TypeCorrect` | `Spec => []TypeOK` | `FeedInv`: the table is finite, so the next row's key is in range |
| `OwnVanOnly` | `Spec => []OnlyOwnVanShown` | `FeedInv` |
| `NoFixFalls` | `Spec => []NoFixFallsBetween` | `Covered` |

`NoFixFallsBetween` speaks of open maps only. `Covered` says the same of every viewer from
`group_add` on, with the seeds found so far beside the fixes shown, and for the vans whose last fix has
been queried. A query covers all fixes stored by then (`SeedQueryCovers`, which needs that a
finite table has a last fix, `HasLast`); a fix stored later comes with a broadcast still to be sent
to a group the viewer is already in (`StoreCovers`).

`FleetSyncProofs` proves, for every fleet, any number of operators and every bound, from
`FleetConstantsOK` (schools, gyms and zones drawn by hand are different zones):

| Theorem | Statement | Argument |
|---|---|---|
| `TypeCorrect` | `Spec => []TypeOK` | `TypeInv`: a request that syncs has a van to sync, and names only fences' zones to unlink or delete |
| `RowsKeepZones` | `Spec => []RowsHaveZones` | `TypeInv`, `ZoneInv` and `RoutesFenced` |
| `HandmadeStay` | `Spec => HandmadeLinksStay` | `TypeInv` |

`RowsHaveZones` is not inductive: `SaveFence` adds the row of a zone made earlier and `DeleteZone`
removes the zone of a row dropped earlier. `ZoneInv` adds that a zone just made is there, has no
row, and is in nobody else's hands, and that a zone about to be deleted has no row but a revived one.

`FleetLinksProofs` proves what the syncs are there for, likewise for any fleet, any
number of operators and every bound:

| Theorem | Statement | Argument |
|---|---|---|
| `LinksAreSynced` | `Spec => []LinksFollowRoutes` | `LinksInv` |
| `CreatedLinks` | `Spec => []CreatedRoutesAreLinked` | `LinksInv` |
| `FleetImplementsVanLinks` | `Spec => ImplementsVanLinks` | `LinksInv` before and after a step |

A sync reads the routes, the links and the fences in three queries, then makes one HTTP call per link,
and commits its row at the end. Neither property says anything of that middle, so `LinksInv` does, in
these parts:

* `OneTracker`, `Shaped`, `Locked`: no two vans share a tracker; a request's one or two vans and their
  trackers differ and its row belongs to one of them; no two transactions write one row.
* `Fresh`: a zone that has no fence yet (`Unheard`) is linked nowhere and in nobody's hands. This is why
  `SaveFence` makes no link missing.
* `Kept`, `Marks`: requests that share a van or a tracker are both in `crossed`, unless they do not
  overlap; and the vans they work on bear the marks that the properties ask about. A van that gets
  another's tracker, or whose route is changed under a waiting request, is among them.
* `Works`: of a request under way, what it has read of the routes is still so and what it is about to do
  is what they need (`Working`); and if no other crosses it, what it has read of the links is still so
  too, and its remaining calls bring them in line (`Exact`). `Working` holds of a crossed request as
  well, where no van is shared: then only the trackers are.
* `Links`: of a van without marks, the live links are those needed (`Clean`); of a van without the marks
  of an update, a crossing or an exchanged tracker, no needed link is missing (`Sound`).

Links are compared on `Live` zones, the fences that were never inserted again by an update. Every
action is shown to keep these parts: a request that starts finds out whom it crosses (`StartKeeps`), one
that ends takes away marks of vans that only it works on and whose links `Exact` then says are right
(`FinishKeeps`), a new tracker adds a mark (`ImeiKeeps`); the others change no row and no mark, and at
most the links of the tracker they are about (`LinkEffect`, `QuietKeepsOwn`, `QuietKeepsOthers`,
`QuietKeepsLinks`). The invariant was checked with TLC on the instance of `fleet_sync` before.

For the refinement, `Links` before and after the step gives what a van in either state of trust promises.
What is left is that trust does not come back by half, as a mark goes only with all others of its van
(`MarksGoTogether`), and that a van trusted before and after keeps its needs, hence its links: whatever
changes rows marks the van that had the row and the one that gets it (`CleanNeedsStay`), and an update
that inserts a fence again inserts one that no route needs (`RevivedNotNeeded`).

`AccountsProofs` and `SharingProofs` prove, for any number of accounts, links, threads and endpoints,
from `AccountsConstantsOK` (finitely many threads; `None`, `Gone` and `Unusable` are no values):

| Theorem | Statement | Argument |
|---|---|---|
| `TypeCorrect` | `Spec => []TypeOK` | `TypeInv`: what a request has at its stage, and that its link is its user's |
| `PasswordsByLinks` | `Spec => []PasswordsCameByLinks` | `AccountInv` |
| `LinksForParents` | `Spec => []ParentsGetALink` | `AccountInv` |
| `ReturnsByOldCopy` | `Spec => AccessReturnsByOldCopy` | `Moves` |
| `LinksOpenFewTimes` | `Spec => []LinksSetFewPasswords` | `FewOpened` |
| `FewShare` | `Spec => []FewShareAPhone` | `FewSharers` |

`Moves` lists how a step may move a row (leave it, create, deactivate, delete it, replace it by a copy) and
a copy (keep it, read it afresh, or fill it from the form). Every step is shown to move so once, and the
invariants follow from the list: `AccountInv` says of all copies what the properties say of rows, and that
copies agree on the role unless it was changed by hand, which a row deleted and saved back could otherwise
change.

The two counting invariants work alike. For a link, `Holding("save", i)` are the requests that have
read it and not saved, `Holding("mark", i)` those that have saved and not marked. While the link is
live, the passwords it set are at most the latter; always, passwords and former together are at most
the threads. A new request needs a live link, so its thread is free in the count (`Disjoint`). For
a phone number, `Sharers` are the accounts that have it or whose copies do, `Enrolling` the requests that
have found it free. Where a thread passes a check, the number belongs to nobody but the holders of
copies, and these are threads (`HeldByThreads`). All of this is about numbers that the admin's form never set.

`AccessProofs` proves, with the constants' assumptions of the other modules:

| Theorem | Statement | Argument |
|---|---|---|
| `AccessImplementsAccounts` | `AccessSpec => Spec` | `ResetInv`: a request about to text a code or create an invite has one, or a user |
| `AccessTypes` | `AccessSpec => []AccessTypeOK` | `AccessInv`; for the tries, that a queued task has one left |
| `FewGetIn` | `AccessSpec => []TicketsAdmitFew` | a ticket that has let somebody in is gone from the cache |

By the first, every theorem about `Accounts` holds in `Access`.

Every safety invariant and action property of the passing runs is thus proved. Only model-checked is
liveness (`RidesExpire`, `QueuedEndCloses`, `FixesGetShown`, `LockoutEnds`,
`SendingResumes`, `NewParentsAreTold`), which is out of the prover's reach.

## 5. Not modelled

* Requests rejected before they change anything (wrong secret, unreadable body, unknown device or
  fence), payloads and message texts, and sockets refused with 4001 and 4002.
* Creation and deletion of children in `Rides`, and their rows in `Accounts`.
* Names, usernames, permissions and the preferred channel of an account, and the pages of Django's admin
  that add a user or set a password. With those anybody may have any password, and no property of links
  would stand.
* The login: `FlexibleLoginBackend.authenticate` reads the table once and writes nothing. It compares
  names and addresses ignoring case, and of several accounts that fit takes the literal usernames first, then
  the lower key; there is nothing to say of it beyond that definition.
* The pages of Django's admin for vans, fences and routes (`fleet/admin.py:6-8`). They write rows and never
  call Traccar, so no statement about links or zones survives them.
* Daphne's `websocket_timeout`, by default a day: `LiveMap` is about one day.
* The buffer that channels_redis keeps inside the process, which drops the oldest message when full, a
  `ride_ended` too: in `LiveMap` a full channel drops the new one, as the one in Redis does, and
  `QueuedEndCloses` speaks of the messages in that one.
* Whether a parent has a phone number: without one, `notify_parent` returns and no message is sent.
* Duplicates of a message: `Deliveries` has them, but the code promises nothing of them.
* The hours of the pickup window around midnight: `Rides` has a window of instants.
* A start time typed in by hand in the admin, which the announced start cannot cover.
* The circle, name and type of a fence, and the creation and deletion of vans. A change of a fence's
  type in use is met in `Rides`, where a fence may be the school of one route and the gym of another.
* Several days: `schedule` is the row of one day's weekday.
* Read-only views, permissions, settings, migrations, deployment.

## 6. Plan

Done: all modules of section 2 and the theorems of section 4. Left, in this order:

1. Proofs: an abstract specification of links, codes and passwords that `Access` implements.
2. Children created and deleted under a webhook, as `Accounts` has it for users.
3. The choice of channel in `notify_parent`, and the pickup window in minutes, around midnight and over
   a change of the clocks.
