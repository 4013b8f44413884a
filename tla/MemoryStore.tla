----------------------------- MODULE MemoryStore -----------------------------
(***************************************************************************)
(* The in-memory session store: a Map whose entries carry a deletion       *)
(* timer, a lazy expiry test in get() and a periodic sweep. Timers may     *)
(* fire late and are cleared when their entry is replaced or deleted.      *)
(***************************************************************************)
EXTENDS Naturals

CONSTANTS Clients, Blobs, NoBlob, TtlMs, MaxTime

ASSUME MemoryAssumption == TtlMs \in Nat \ {0} /\ MaxTime \in Nat /\ NoBlob \notin Blobs

VARIABLES now, answer,
          entries,    \* _entries, expired ones included; a null value is an absent key
          timers      \* the armed setTimeout calls, with their key and due time

vars == <<now, answer, entries, timers>>

Entry == [value : Blobs, expiresAt : Nat]
NoEntry == [value |-> NoBlob, expiresAt |-> 0]
Absent == {NoEntry}

\* The Map and its timers keep their shapes.
TypeOK ==
    /\ now \in 0 .. MaxTime
    /\ answer \in Blobs \cup {NoBlob}
    /\ entries \in [Clients -> Entry \cup Absent]
    /\ timers \subseteq [key : Clients, due : Nat]

Init == now = 0 /\ answer = NoBlob /\ entries = [c \in Clients |-> NoEntry] /\ timers = {}

\* Faulty variant: set() forgets the timer of the entry it replaces.
ClearedNever(c) == timers

\* clearTimeout(entry.timer): the timer armed together with the entry of c.
Cleared(c) == {t \in timers : t # [key |-> c, due |-> entries[c].expiresAt]}

Expired(c) == entries[c] # NoEntry /\ entries[c].expiresAt <= now

Set(c, blob) ==
    /\ timers' = Cleared(c) \cup {[key |-> c, due |-> now + TtlMs]}
    /\ entries' = [entries EXCEPT ![c] = [value |-> blob, expiresAt |-> now + TtlMs]]
    /\ UNCHANGED <<now, answer>>

Drop(c) ==
    /\ timers' = Cleared(c)
    /\ entries' = [entries EXCEPT ![c] = NoEntry]

\* Faulty variant: get() answers what the Map holds and leaves expiry to the timers.
GetUnchecked(c) ==
    /\ answer' = entries[c].value
    /\ UNCHANGED <<now, entries, timers>>

\* get() does not wait for a late timer: it drops an expired entry itself.
Get(c) ==
    /\ UNCHANGED now
    /\ \/ Expired(c) /\ Drop(c) /\ answer' = NoBlob
       \/ ~Expired(c) /\ answer' = entries[c].value /\ UNCHANGED <<entries, timers>>

Del(c) == Drop(c) /\ UNCHANGED <<now, answer>>

\* The setTimeout callback deletes the key whatever entry it holds by then.
TimerFires(t) ==
    /\ t.due <= now
    /\ timers' = timers \ {t}
    /\ entries' = [entries EXCEPT ![t.key] = NoEntry]
    /\ UNCHANGED <<now, answer>>

Sweep ==
    /\ entries' = [c \in Clients |-> IF Expired(c) THEN NoEntry ELSE entries[c]]
    /\ timers' = {t \in timers : \A c \in Clients : Expired(c) => t \in Cleared(c)}
    /\ UNCHANGED <<now, answer>>

Clear ==
    /\ entries' = [c \in Clients |-> NoEntry]
    /\ timers' = {t \in timers : \A c \in Clients : t \in Cleared(c)}
    /\ UNCHANGED <<now, answer>>

Tick == now < MaxTime /\ now' = now + 1 /\ UNCHANGED <<answer, entries, timers>>

Next ==
    \/ Tick \/ Sweep \/ Clear
    \/ \E t \in timers : TimerFires(t)
    \/ \E c \in Clients : Get(c) \/ Del(c) \/ \E blob \in Blobs : Set(c, blob)

Spec == Init /\ [][Next]_vars

-----------------------------------------------------------------------------
\* What the Map offers: the entries whose time has not come.
Visible == [c \in Clients |-> IF Expired(c) THEN NoEntry ELSE entries[c]]

Store == INSTANCE SessionStore WITH live <- Visible

\* The Map with its timers, lazy checks and sweeps is the store the manager is
\* written for: a session is readable until TtlMs after its latest save and not a
\* moment longer, however late timers fire and however often it is saved again.
ImplementsStore == Store!StoreSpec

\* set(), get(), del(), sweep() and clear() leave one timer per entry and none for a
\* deleted or replaced one, so no callback can delete a session saved after it was armed.
OneTimerPerEntry ==
    timers = {[key |-> c, due |-> entries[c].expiresAt] : c \in {d \in Clients : entries[d] # NoEntry}}
=============================================================================
