-------------------------- MODULE MCSessionManager --------------------------
(* Instances of the session managers for model checking. *)
EXTENDS SessionManager

CONSTANTS a, b

AllBlobs == [client : Clients, version : 0 .. MaxVersion, key : {"v1", "v2"}, seal : 1 .. 2]

\* Instance a still seals with v1 but was given both keys; b seals with v2 only.
RotatingSealKey == [i \in Instances |-> IF i = a THEN "v1" ELSE "v2"]
RotatingRing == [i \in Instances |-> IF i = a THEN {"v1", "v2"} ELSE {"v2"}]

Deployment(instances, maxVersion, maxSeals, maxCalls) ==
    [instances |-> instances, maxVersion |-> maxVersion, maxSeals |-> maxSeals, maxCalls |-> maxCalls]

\* An instance that owns its clients, and two that share them.
OneOrTwo == {Deployment({a}, 2, 2, 2), Deployment({a, b}, 0, 1, 1)}
=============================================================================
