---------------------------- MODULE SessionStore ----------------------------
(***************************************************************************)
(* What the session manager asks of its store, a node-redis client or the  *)
(* in-memory stand-in: a map in which every entry lives for TtlMs after    *)
(* its latest set, and a get sees exactly the living entries.              *)
(***************************************************************************)
EXTENDS Naturals

CONSTANTS Clients,    \* the keys "session:<clientId>"
          Blobs,      \* the values: sealed session states
          NoBlob,     \* null
          TtlMs,      \* PX of every set
          MaxTime     \* bound on the clock of a model

ASSUME StoreAssumption == TtlMs \in Nat \ {0} /\ MaxTime \in Nat /\ NoBlob \notin Blobs

VARIABLES now,        \* Date.now()
          live,       \* the entries a get would return, with their expiry
          answer      \* what the latest get returned

storeVars == <<now, live, answer>>

Entry == [value : Blobs, expiresAt : Nat]
NoEntry == [value |-> NoBlob, expiresAt |-> 0]

StoreInit == now = 0 /\ live = [c \in Clients |-> NoEntry] /\ answer = NoBlob

Set(c, blob) ==
    /\ live' = [live EXCEPT ![c] = [value |-> blob, expiresAt |-> now + TtlMs]]
    /\ UNCHANGED <<now, answer>>

Del(c) == live' = [live EXCEPT ![c] = NoEntry] /\ UNCHANGED <<now, answer>>

Get(c) == answer' = live[c].value /\ UNCHANGED <<now, live>>

Clear == live' = [c \in Clients |-> NoEntry] /\ UNCHANGED <<now, answer>>

\* A millisecond passes; entries whose time has come are no longer there.
Tick ==
    /\ now < MaxTime
    /\ now' = now + 1
    /\ live' = [c \in Clients |-> IF live[c].expiresAt > now' THEN live[c] ELSE NoEntry]
    /\ UNCHANGED answer

StoreNext ==
    \/ Tick \/ Clear
    \/ \E c \in Clients : Del(c) \/ Get(c) \/ \E blob \in Blobs : Set(c, blob)

StoreSpec == StoreInit /\ [][StoreNext]_storeVars
=============================================================================
