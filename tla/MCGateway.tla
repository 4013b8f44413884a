------------------------------ MODULE MCGateway ------------------------------
(***************************************************************************)
(* Deployments of Gateway for TLC.  Each lets something else happen.      *)
(***************************************************************************)
EXTENDS Gateway

CONSTANTS a, b

Deployment(clients, features, maxConns, maxCalls) ==
  [clients |-> clients, features |-> features, maxConns |-> maxConns, maxCalls |-> maxCalls]

\* The session store is shared in some of them and in the process's memory in the others.
GatewayDeployments ==
  {Deployment({a}, {"shutdown", "crash", "locations"}, 2, 2),
   Deployment({a}, {"redis", "crash", "locations"}, 3, 2),
   Deployment({a, b}, {"redis", "shutdown"}, 2, 1),
   Deployment({a}, {"redis", "migrate", "rejects", "crash", "locations"}, 2, 2),
   Deployment({a}, {"redis", "overlap", "migrate"}, 2, 2),
   Deployment({a, b}, {"redis", "refresh"}, 2, 1),
   Deployment({a}, {"jwks", "shutdown", "rejects"}, 2, 1)}
===============================================================================
