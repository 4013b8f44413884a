----------------------------- MODULE RateLimiter -----------------------------
(***************************************************************************)
(* The limiters of messages (one second, per client) and of connections    *)
(* (one minute, per address): a Map of timestamp lists. check() trims a    *)
(* list when its first entry is stale, cleanup() trims them all, remove()  *)
(* (cleanup(ip) of the connection limiter) deletes one.                    *)
(***************************************************************************)
EXTENDS Naturals, Sequences

CONSTANTS Keys,        \* client ids, or addresses
          Limit,       \* maxPerSecond, maxPerMinute
          Window,      \* 1000, 60_000
          MaxNow,      \* bound on the clock
          MaxRequests  \* bound on the admitted requests of a client

ASSUME LimiterAssumption ==
    Limit \in Nat /\ Window \in Nat \ {0} /\ MaxNow \in Nat /\ MaxRequests \in Nat

VARIABLES clock,       \* Date.now()
          tracked,     \* the keys of the Map
          windows,     \* client -> its timestamps
          verdict,     \* client -> what its latest check() returned
          log,         \* history: client -> times of all its admitted requests
          removed      \* history: how many of them came before the latest removal

limiterVars == <<clock, tracked, windows, verdict, log, removed>>

LimiterInit ==
    /\ clock = 0
    /\ tracked = {}
    /\ windows = [c \in Keys |-> <<>>]
    /\ verdict = [c \in Keys |-> TRUE]
    /\ log = [c \in Keys |-> <<>>]
    /\ removed = [c \in Keys |-> 0]

\* timestamps.filter(): the stamps of the window, in their order.
Recent(stamps) ==
    LET kept[n \in 0 .. Len(stamps)] ==
            IF n = 0 THEN <<>>
            ELSE IF stamps[n] + Window > clock THEN Append(kept[n - 1], stamps[n]) ELSE kept[n - 1]
    IN  kept[Len(stamps)]

\* Faulty variant: a stale first entry discards the whole list.
TrimmedAll(stamps) == IF stamps # <<>> /\ Head(stamps) + Window <= clock THEN <<>> ELSE stamps

\* Only a stale first entry makes check() filter the list.
Trimmed(stamps) ==
    IF stamps # <<>> /\ Head(stamps) + Window <= clock THEN Recent(stamps) ELSE stamps

Check(c) ==
    LET stamps == Trimmed(windows[c])
        allowed == Len(stamps) < Limit
    IN  /\ allowed => Len(log[c]) < MaxRequests
        /\ tracked' = tracked \cup {c}
        /\ windows' = [windows EXCEPT ![c] = IF allowed THEN Append(stamps, clock) ELSE stamps]
        /\ log' = IF allowed THEN [log EXCEPT ![c] = Append(@, clock)] ELSE log
        /\ verdict' = [verdict EXCEPT ![c] = allowed]
        /\ UNCHANGED <<clock, removed>>

Remove(c) ==
    /\ tracked' = tracked \ {c}
    /\ windows' = [windows EXCEPT ![c] = <<>>]
    /\ removed' = [removed EXCEPT ![c] = Len(log[c])]
    /\ UNCHANGED <<clock, verdict, log>>

Kept(trimmed) == {c \in tracked : trimmed[c] # <<>>}

\* cleanup() of the message limiter.
Cleanup ==
    LET trimmed == [c \in Keys |-> Recent(windows[c])]
    IN  /\ windows' = trimmed
        /\ tracked' = Kept(trimmed)
        /\ UNCHANGED <<clock, verdict, log, removed>>

Elapse ==
    /\ clock < MaxNow
    /\ clock' = clock + 1
    /\ UNCHANGED <<tracked, windows, verdict, log, removed>>

LimiterNext == Elapse \/ Cleanup \/ \E c \in Keys : Check(c) \/ Remove(c)

LimiterSpec == LimiterInit /\ [][LimiterNext]_limiterVars

-----------------------------------------------------------------------------
Since(c) == SubSeq(log[c], removed[c] + 1, Len(log[c]))

Abstract == INSTANCE SlidingWindow
    WITH Clients <- Keys, now <- clock, answer <- verdict, admitted <- [c \in Keys |-> Since(c)]

\* check() admits a request exactly when the sliding window since the removal of the client
\* has room for it, although lists are trimmed only on a stale first entry.
ImplementsWindow == Abstract!WindowSpec
=============================================================================
