------------------------------ MODULE VanLinks ------------------------------
(***************************************************************************)
(* What RouteViewSet promises of a van, with the requests, their HTTP      *)
(* calls, the trackers and the fences left out: that the zones its tracker *)
(* reports are those its routes need.  The promise is kept exactly, or so  *)
(* far that no arrival is missed, or not at all.  Only what casts doubt on *)
(* it may change either set, a van that is beyond trust stays so until a   *)
(* sync settles its links, and no other van ever notices.                  *)
(* FleetSync implements it.                                                *)
(***************************************************************************)
CONSTANTS Van, Zone

VARIABLES needs,   \* the zones that the van's routes need
          links,   \* the zones that its tracker reports
          trust    \* how far the one may be taken for the other

vars == <<needs, links, trust>>

Trust == {"exact", "covers", "none"}

Init ==
  /\ needs \in [Van -> SUBSET Zone]
  /\ links = needs
  /\ trust = [v \in Van |-> "exact"]

\* Nothing happens to v.
Keep(v) ==
  /\ trust[v] = "exact" /\ trust'[v] = "exact"
  /\ needs'[v] = needs[v] /\ links'[v] = links[v]

\* A route of v is made or deleted: links may be left over.
Cover(v) ==
  /\ trust[v] # "none" /\ trust'[v] = "covers"
  /\ needs'[v] \subseteq links'[v]

\* A route of v is changed or v gets another tracker, or requests are in each other's way.
Lose(v) == trust'[v] = "none"

\* A sync of v gets through.
Settle(v) ==
  /\ trust[v] # "exact" /\ trust'[v] = "exact"
  /\ links'[v] = needs'[v]

\* A request may concern two vans at once.
Next ==
  /\ needs' \in [Van -> SUBSET Zone]
  /\ links' \in [Van -> SUBSET Zone]
  /\ trust' \in [Van -> Trust]
  /\ \A v \in Van : Keep(v) \/ Cover(v) \/ Lose(v) \/ Settle(v)

Spec == Init /\ [][Next]_vars
=============================================================================
