---------------------------- MODULE SlidingWindow ----------------------------
(***************************************************************************)
(* What a sliding-window limiter promises: a request is admitted exactly   *)
(* when fewer than Limit requests of its client were admitted in the last  *)
(* Window milliseconds, back to the latest removal of the client.          *)
(***************************************************************************)
EXTENDS Naturals, Sequences, FiniteSets

CONSTANTS Clients, Limit, Window

VARIABLES now,        \* Date.now()
          admitted,   \* client -> times of the requests admitted since its removal
          answer      \* client -> what its latest request was told

WindowInit ==
    /\ now = 0
    /\ admitted = [c \in Clients |-> <<>>]
    /\ answer = [c \in Clients |-> TRUE]

InWindow(c) == {n \in 1 .. Len(admitted[c]) : admitted[c][n] + Window > now}

Request(c) ==
    LET allowed == Cardinality(InWindow(c)) < Limit
    IN  /\ admitted' = IF allowed THEN [admitted EXCEPT ![c] = Append(@, now)] ELSE admitted
        /\ answer' = [answer EXCEPT ![c] = allowed]
        /\ UNCHANGED now

Forget(c) ==
    /\ admitted' = [admitted EXCEPT ![c] = <<>>]
    /\ UNCHANGED <<now, answer>>

Elapse == now' > now /\ UNCHANGED <<admitted, answer>>

WindowNext == Elapse \/ \E c \in Clients : Request(c) \/ Forget(c)

WindowSpec == WindowInit /\ [][WindowNext]_<<now, admitted, answer>>
=============================================================================
