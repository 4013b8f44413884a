--------------------------- MODULE SessionManager ---------------------------
(***************************************************************************)
(* Session managers of several gateway instances on one shared store:      *)
(* debounced saves, flushes, direct saves, deletes and loads. An instance  *)
(* sends its commands to the store over one connection, which keeps their  *)
(* order and answers them later; a command can fail.                       *)
(*                                                                         *)
(* A session blob is abstracted to its client, the version of the state it *)
(* seals, the key that sealed it and the number of its seal: every save()  *)
(* draws a fresh IV, so no two blobs are equal.                            *)
(***************************************************************************)
EXTENDS SessionStore, Sequences, FiniteSets, SequencesExt

CONSTANTS Instances,
          Deployments,    \* which instances share the store, and the bounds of the model
          SealKey,        \* instance -> the key _keyId names
          Ring,           \* instance -> the keys of _keys
          DebounceMs,
          MaxVersion      \* no deployment has more state changes

\* A deployment is its instances and bounds on the state changes, on the sealed blobs and
\* on the commands under way from one instance.
ASSUME ManagerAssumption ==
    /\ DebounceMs \in Nat /\ MaxVersion \in Nat
    /\ IsFiniteSet(Clients) /\ IsFiniteSet(Instances)
    /\ \A i \in Instances : SealKey[i] \in Ring[i]
    /\ \A d \in Deployments : /\ d.instances \subseteq Instances /\ d.maxVersion \in 0 .. MaxVersion
                              /\ d.maxSeals \in Nat /\ d.maxCalls \in Nat

VARIABLES deployment,     \* the deployment, for good
          version,        \* instance -> client -> version of the state its provider would return
          pending,        \* instance -> client -> time left of the armed debounce timer, its provider
          calls,          \* instance -> commands on their way to the store
          seals,          \* number of blobs sealed so far
          held,           \* blobs that save() returned to a caller
          outcome,        \* result of the latest load()
          loggedOut,      \* history: clients whose latest request was a successful delete()
          dirty           \* history: instance -> client -> some debounced change no save has picked up

managerVars == <<deployment, version, pending, calls, seals, held, outcome, loggedOut, dirty>>
vars == <<storeVars, managerVars>>

CaptureState == MaxVersion + 1      \* the provider function, as opposed to a fixed version
NoTimer == [left |-> DebounceMs + 1, provider |-> CaptureState]     \* more than any timer has left
Nothing == [blob |-> NoBlob, result |-> "none"]

\* Faulty variant: the state object is taken when the save is scheduled.
ProviderObject(i, c) == version[i][c]

\* The debounced state is a provider function, run when the timer fires.  (server.js never
\* passes the plain state object that debouncedSave() accepts as well.)
Provider(i, c) == CaptureState

Init ==
    /\ StoreInit
    /\ deployment \in Deployments
    /\ version = [i \in Instances |-> [c \in Clients |-> 0]]
    /\ pending = [i \in Instances |-> [c \in Clients |-> NoTimer]]
    /\ calls = [i \in Instances |-> <<>>]
    /\ seals = 0 /\ held = {} /\ outcome = Nothing
    /\ loggedOut = {}
    /\ dirty = [i \in Instances |-> [c \in Clients |-> FALSE]]

-----------------------------------------------------------------------------
\* The newest version of c anywhere; a change makes the next one.
Newest(c) == CHOOSE v \in 0 .. MaxVersion :
    /\ \E i \in Instances : version[i][c] = v
    /\ \A i \in Instances : version[i][c] <= v

\* Room joins, acks and the like change what the provider would capture.
StateChanges(i, c) ==
    /\ Newest(c) < deployment.maxVersion
    /\ version' = [version EXCEPT ![i][c] = Newest(c) + 1]
    /\ UNCHANGED <<storeVars, deployment, pending, calls, seals, held, outcome, loggedOut, dirty>>

\* A new call replaces the timer and the provider of the previous one, as often as it comes:
\* nothing bounds how long a save may be put off.
DebouncedSave(i, c) ==
    /\ pending' = [pending EXCEPT ![i][c] = [left |-> DebounceMs, provider |-> Provider(i, c)]]
    /\ loggedOut' = loggedOut \ {c}
    /\ dirty' = [dirty EXCEPT ![i][c] = TRUE]
    /\ UNCHANGED <<storeVars, deployment, version, calls, seals, held, outcome>>

Captured(i, c) ==
    IF pending[i][c].provider = CaptureState THEN version[i][c] ELSE pending[i][c].provider

Sealed(i, c, v, n) == [client |-> c, version |-> v, key |-> SealKey[i], seal |-> n]

\* The timer callback drops the blob that save() returns; other callers keep it.
SetCall(blob, caller) == [op |-> "set", client |-> blob.client, blob |-> blob, caller |-> caller]

Room(i, n) == Len(calls[i]) + n <= deployment.maxCalls

\* The saves that instance i starts in one turn of its event loop for the clients C, in
\* some order. A state over 16 KB is refused by save(); the error is logged.
StartSaves(i, C, caller) ==
    \E sent \in SetToAllKPermutations(C) :
        /\ seals + Len(sent) <= deployment.maxSeals /\ Room(i, Len(sent))
        /\ seals' = seals + Len(sent)
        /\ calls' = [calls EXCEPT ![i] =
               @ \o [n \in 1 .. Len(sent) |->
                        SetCall(Sealed(i, sent[n], Captured(i, sent[n]), seals + n), caller)]]
        /\ dirty' = [dirty EXCEPT ![i] = [c \in Clients |-> IF c \in C THEN FALSE ELSE @[c]]]

\* _cancelDebounce for every client of a set.
Cancel(i, C) ==
    pending' = [pending EXCEPT ![i] = [c \in Clients |-> IF c \in C THEN NoTimer ELSE @[c]]]

TimerFires(i, c) ==
    /\ pending[i][c].left = 0
    /\ Cancel(i, {c})
    /\ StartSaves(i, {c}, "timer")
    /\ UNCHANGED <<storeVars, deployment, version, held, outcome, loggedOut>>

\* Faulty variant: flush() cancels the timer before it asks whether one is armed.
FlushDropsProvider(i, c) ==
    /\ Cancel(i, {c})
    /\ UNCHANGED <<storeVars, deployment, version, calls, seals, held, outcome, loggedOut, dirty>>

Flush(i, c) ==
    /\ pending[i][c] # NoTimer
    /\ Cancel(i, {c})
    /\ StartSaves(i, {c}, "flush")
    /\ UNCHANGED <<storeVars, deployment, version, held, outcome, loggedOut>>

\* flush() of every pending client, all in one turn.
FlushAll(i) ==
    LET waiting == {c \in Clients : pending[i][c] # NoTimer}
    IN  /\ waiting # {}
        /\ Cancel(i, waiting)
        /\ StartSaves(i, waiting, "flush")
        /\ UNCHANGED <<storeVars, deployment, version, held, outcome, loggedOut>>

\* save() called directly, as a migration and a shutdown do after their flush.
Save(i, c) ==
    /\ seals < deployment.maxSeals /\ Room(i, 1)
    /\ seals' = seals + 1
    /\ calls' = [calls EXCEPT ![i] = Append(@, SetCall(Sealed(i, c, version[i][c], seals + 1), "caller"))]
    /\ loggedOut' = loggedOut \ {c}
    /\ UNCHANGED <<storeVars, deployment, version, pending, held, outcome, dirty>>

\* Faulty variant: delete() leaves the pending save alone.
DeleteKeepsTimer(i, c) ==
    /\ Room(i, 1)
    /\ calls' = [calls EXCEPT ![i] = Append(@, [op |-> "del", client |-> c])]
    /\ loggedOut' = loggedOut \cup {c}
    /\ UNCHANGED <<storeVars, deployment, version, pending, seals, held, outcome, dirty>>

Delete(i, c) ==
    /\ Room(i, 1)
    /\ Cancel(i, {c})
    /\ calls' = [calls EXCEPT ![i] = Append(@, [op |-> "del", client |-> c])]
    /\ loggedOut' = loggedOut \cup {c}
    /\ dirty' = [dirty EXCEPT ![i][c] = FALSE]
    /\ UNCHANGED <<storeVars, deployment, version, seals, held, outcome>>

\* _open tries the key the blob names and then all others; AES-GCM accepts one key only.
Opens(i, blob) == blob.key \in Ring[i]

Load(i, blob) ==
    /\ \/ /\ Opens(i, blob) /\ Room(i, 1)
          /\ calls' = [calls EXCEPT ![i] = Append(@, [op |-> "get", client |-> blob.client, blob |-> blob])]
          /\ UNCHANGED outcome
       \/ /\ ~Opens(i, blob)
          /\ outcome' = [blob |-> blob, result |-> "decrypt_failed"]
          /\ UNCHANGED calls
    /\ UNCHANGED <<storeVars, deployment, version, pending, seals, held, loggedOut, dirty>>

\* The part of close() that concerns timers: pending saves are dropped.
Close(i) ==
    /\ \E c \in Clients : pending[i][c] # NoTimer
    /\ Cancel(i, Clients)
    /\ dirty' = [dirty EXCEPT ![i] = [c \in Clients |-> FALSE]]
    /\ UNCHANGED <<storeVars, deployment, version, calls, seals, held, outcome, loggedOut>>

-----------------------------------------------------------------------------
Answered(i) == calls' = [calls EXCEPT ![i] = Tail(@)]

\* The store executes a set; its answer, if it arrives, makes save() return the blob.
SetExecutes(i) ==
    /\ calls[i] # <<>> /\ Head(calls[i]).op = "set"
    /\ LET call == Head(calls[i])
       IN  /\ Set(call.client, call.blob)
           /\ \/ UNCHANGED held
              \/ call.caller # "timer" /\ held' = held \cup {call.blob}
    /\ Answered(i)
    /\ UNCHANGED <<deployment, version, pending, seals, outcome, loggedOut, dirty>>

DelExecutes(i) ==
    /\ calls[i] # <<>> /\ Head(calls[i]).op = "del"
    /\ LET call == Head(calls[i])
       IN  Del(call.client)
    /\ Answered(i)
    /\ UNCHANGED <<deployment, version, pending, seals, held, outcome, loggedOut, dirty>>

\* load() believes any blob it could open as long as the client has some live entry.
GetExecutes(i) ==
    /\ calls[i] # <<>> /\ Head(calls[i]).op = "get"
    /\ LET call == Head(calls[i])
       IN  /\ Get(call.client)
           /\ outcome' = [blob |-> call.blob,
                          result |-> IF answer' = NoBlob THEN "expired" ELSE "resumed"]
    /\ Answered(i)
    /\ UNCHANGED <<deployment, version, pending, seals, held, loggedOut, dirty>>

\* A command that never reaches the store is rejected: a read counts as expired, a save
\* is logged or thrown, and the caller of delete() learns that it failed.
StoreRejects(i) ==
    /\ calls[i] # <<>>
    /\ LET call == Head(calls[i])
       IN  /\ outcome' = IF call.op = "get" THEN [blob |-> call.blob, result |-> "expired"] ELSE outcome
           /\ loggedOut' = IF call.op = "del" THEN loggedOut \ {call.client} ELSE loggedOut
    /\ Answered(i)
    /\ UNCHANGED <<storeVars, deployment, version, pending, seals, held, dirty>>

\* Timers fire on time in this model: the clock waits for the ones that are due.  MaxTime
\* bounds only the clock by which the store's entries expire; timers run down for ever.
Passes ==
    /\ \A i \in Instances, c \in Clients : pending[i][c].left > 0
    /\ Tick \/ (now = MaxTime /\ UNCHANGED storeVars)
    /\ pending' = [i \in Instances |-> [c \in Clients |->
           IF pending[i][c] = NoTimer THEN NoTimer ELSE [pending[i][c] EXCEPT !.left = @ - 1]]]
    /\ UNCHANGED <<deployment, version, calls, seals, held, outcome, loggedOut, dirty>>

Next ==
    \/ Passes
    \/ \E i \in deployment.instances :
          \/ FlushAll(i) \/ Close(i)
          \/ SetExecutes(i) \/ DelExecutes(i) \/ GetExecutes(i) \/ StoreRejects(i)
          \/ \E blob \in held : Load(i, blob)
          \/ \E c \in Clients :
                \/ StateChanges(i, c) \/ DebouncedSave(i, c) \/ TimerFires(i, c)
                \/ Flush(i, c) \/ Save(i, c) \/ Delete(i, c)

Spec == Init /\ [][Next]_vars

\* setTimeout callbacks run and the clock advances; nothing is assumed of callers or the store.
FairSpec ==
    /\ Spec
    /\ WF_vars(Passes)
    /\ \A i \in Instances, c \in Clients : WF_vars(TimerFires(i, c))

-----------------------------------------------------------------------------
DeletePending(c) == \E i \in Instances : \E n \in 1 .. Len(calls[i]) :
    calls[i][n].op = "del" /\ calls[i][n].client = c

\* After delete() has been answered the client has no stored session until somebody
\* asks for a new save: no debounce timer, flush or save still under way brings it back.
\* (Another instance's timer would; the claim is for an instance that owns its clients.)
DeleteSticks == Cardinality(deployment.instances) = 1 => \A c \in loggedOut : DeletePending(c) \/ live[c] = NoEntry

\* A stored session is never replaced by an older state of the client, however timers,
\* flushes and direct saves of the instance that owns it interleave: the provider runs when
\* the save starts.
StoreNeverRegresses ==
    [][\A c \in Clients : Cardinality(deployment.instances) = 1 /\ live[c] # NoEntry /\ live'[c] # NoEntry
                            => live[c].value.version <= live'[c].value.version]_vars

\* Every debounced change is eventually picked up by a save (or the session is deleted or
\* the manager closed), whatever flushes and further changes cancel and re-arm its timer,
\* unless debouncedSave() is called again and again for ever: the debounce has no longest
\* wait, so only changes that never pause can put off a save for good.
ChangesPickedUp == \A i \in Instances, c \in Clients :
    \/ []<><<DebouncedSave(i, c)>>_vars
    \/ dirty[i][c] ~> ~dirty[i][c]
=============================================================================
