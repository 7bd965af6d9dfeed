------------------------ MODULE LocationReservation ------------------------
(***************************************************************************)
(* What plan execution promises the robots: a location belongs to one      *)
(* robot at a time.  A robot is given locations that nobody holds, may     *)
(* hold several ahead of it, and gives each back after it has left it.     *)
(***************************************************************************)
CONSTANTS Robots, Locations

VARIABLE holds   \* per robot, the locations that are reserved for it

Disjoint(f) == \A r, s \in Robots : r # s => f[r] \cap f[s] = {}

Init ==
  /\ holds \in [Robots -> SUBSET Locations]
  /\ Disjoint(holds)

\* Locations are handed out, to several robots at once perhaps.
Reserve ==
  /\ holds' \in [Robots -> SUBSET Locations]
  /\ \A r \in Robots : holds[r] \subseteq holds'[r]
  /\ Disjoint(holds')

\* A robot that holds another location leaves one.
Leave(r) ==
  \E l \in holds[r] :
    /\ holds[r] # {l}
    /\ holds' = [holds EXCEPT ![r] = @ \ {l}]

Next == Reserve \/ \E r \in Robots : Leave(r)

Spec == Init /\ [][Next]_holds

\* No two robots hold the same location.
MutualExclusion == Disjoint(holds)

=============================================================================
