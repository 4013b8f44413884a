---------------------------- MODULE MCMultiRegion ----------------------------
(***************************************************************************)
(* Deployments of MultiRegion for TLC.  Each bounds a different part of    *)
(* the coordinator; a run takes a set of them as its initial states.       *)
(***************************************************************************)
EXTENDS MultiRegion

EverywhereAllowed == [q \in Rooms |-> {1, 2, 3}]

Deployment(regions, surroundings, callers, maxOps, maxWall, maxCount) ==
  [regions |-> regions, surroundings |-> surroundings, callers |-> callers,
   maxOps |-> maxOps, maxWall |-> maxWall, maxCount |-> maxCount]

Pulling == {"anti_entropy", "merkle_roots"}

\* Members, both room parts with failing probes, messages in any tree, drifting clocks, sessions,
\* geofences with drifting clocks and with pulls, and a quorum write.
SafetyDeployments ==
  {Deployment({1, 2}, Pulling, {"members"}, 4, 0, 0),
   Deployment({1, 2}, Pulling \cup {"probe_failures"}, {"members", "messages"}, 3, 0, 1),
   Deployment({1, 2}, {"origins", "retractions"}, {"messages"}, 4, 0, 4),
   Deployment({1, 2}, {}, {"messages"}, 3, 2, 2),
   Deployment({1, 2}, {"anti_entropy"}, {"sessions"}, 4, 0, 0),
   Deployment({1, 2}, {}, {"geofences"}, 2, 1, 2),
   Deployment({1, 2}, {"anti_entropy"}, {"geofences"}, 2, 0, 2),
   Deployment({1, 2, 3}, {"health_checks"}, {"config"}, 1, 0, 2)}

ThreeWriters == {Deployment({1, 2, 3}, {}, {"sessions"}, 3, 0, 0)}
===============================================================================
