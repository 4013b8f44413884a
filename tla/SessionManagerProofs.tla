------------------------ MODULE SessionManagerProofs ------------------------
(***************************************************************************)
(* Proofs about SessionManager, for any clients, instances, keys, times    *)
(* and bounds: what a delete() removed stays removed, and the store never  *)
(* goes back to an older state of a client.                                *)
(***************************************************************************)
EXTENDS SessionManager, FiniteSetTheorems, SequenceTheorems, WellFoundedInduction, TLAPS

Blob == [client : Clients, version : 0 .. MaxVersion,
         key : {SealKey[i] : i \in Instances}, seal : Nat]

Call == [op : {"set"}, client : Clients, blob : Blob, caller : {"timer", "flush", "caller"}]
        \cup [op : {"del"}, client : Clients]
        \cup [op : {"get"}, client : Clients, blob : Blob]

Types ==
    /\ deployment \in Deployments /\ now \in Nat /\ seals \in Nat
    /\ version \in [Instances -> [Clients -> 0 .. MaxVersion]]
    /\ pending \in [Instances -> [Clients -> [left : Nat, provider : {CaptureState}]]]
    /\ calls \in [Instances -> Seq(Call)]
    /\ held \subseteq Blob /\ loggedOut \subseteq Clients
    /\ live \in [Clients -> {NoEntry} \cup [value : Blob, expiresAt : Nat]]

\* The commands of a client among those under way.
Sets(call, c) == call.op = "set" /\ call.client = c
Deletes(call, c) == call.op = "del" /\ call.client = c

\* A logged out client has no timer, every save of it under way is followed by a delete,
\* and unless a delete is under way the store has no entry of it.
Gone(i, c) ==
    /\ pending[i][c] = NoTimer
    /\ \A n \in 1 .. Len(calls[i]) : Sets(calls[i][n], c) =>
          \E m \in 1 .. Len(calls[i]) : m > n /\ Deletes(calls[i][m], c)
    /\ (\A n \in 1 .. Len(calls[i]) : ~Deletes(calls[i][n], c)) => live[c] = NoEntry

\* Versions grow from the store over the saves under way, in their order, to the client.
Grows(i, c) ==
    /\ \A n \in 1 .. Len(calls[i]) : Sets(calls[i][n], c) =>
          /\ calls[i][n].blob.version <= version[i][c]
          /\ live[c] # NoEntry => live[c].value.version <= calls[i][n].blob.version
    /\ \A m, n \in 1 .. Len(calls[i]) : m < n /\ Sets(calls[i][m], c) /\ Sets(calls[i][n], c) =>
          calls[i][m].blob.version <= calls[i][n].blob.version
    /\ live[c] # NoEntry => live[c].value.version <= version[i][c]

\* For an instance that has its clients to itself.
Owned ==
    \A i \in Instances : deployment.instances = {i} =>
        /\ \A c \in loggedOut : Gone(i, c)
        /\ \A c \in Clients : Grows(i, c)

-----------------------------------------------------------------------------
(* Types. *)

LEMMA Deployed ==
  ASSUME Types
  PROVE  /\ deployment.instances \subseteq Instances /\ deployment.maxVersion \in 0 .. MaxVersion
         /\ IsFiniteSet(Clients) /\ IsFiniteSet(Instances) /\ MaxVersion \in Nat /\ DebounceMs \in Nat
BY ManagerAssumption DEF Types

LEMMA CallTypes ==
  ASSUME NEW call \in Call
  PROVE  /\ call.op \in {"set", "del", "get"} /\ call.client \in Clients
         /\ call.op \in {"set", "get"} => call.blob \in Blob
BY DEF Call

LEMMA BlobTypes ==
  ASSUME NEW blob \in Blob
  PROVE  blob.client \in Clients /\ blob.version \in 0 .. MaxVersion
BY DEF Blob

\* A set of naturals has a least element.
LEMMA LeastNat ==
  ASSUME NEW T, T \subseteq Nat, T # {}
  PROVE  \E x \in T : \A y \in T : x <= y
<1>1. PICK x \in T : \A y \in T : ~ (<<y, x>> \in OpToRel(<, Nat))
  BY NatLessThanWellFounded, WFMin
<1>2. ASSUME NEW y \in T PROVE x <= y
  <2>1. x \in Nat /\ y \in Nat
    OBVIOUS
  <2>2. y < x => <<y, x>> \in OpToRel(<, Nat)
    BY <2>1 DEF OpToRel
  <2>3. ~(y < x)
    BY <1>1, <2>2
  <2> QED BY <2>1, <2>3
<1> QED BY <1>2

\* The newest version exists.
LEMMA NewestIs ==
  ASSUME Types, NEW i \in Instances, NEW c \in Clients
  PROVE  /\ Newest(c) \in 0 .. MaxVersion
         /\ \A j \in Instances : version[j][c] <= Newest(c)
<1> DEFINE B == {k \in Nat : \A j \in Instances : version[j][c] <= k}
<1>1. MaxVersion \in Nat /\ \A j \in Instances : version[j][c] \in 0 .. MaxVersion
  BY Deployed DEF Types
<1>2. MaxVersion \in B /\ B \subseteq Nat
  BY <1>1
<1> HIDE DEF B
<1>3. PICK k \in B : \A y \in B : k <= y
  BY <1>2, LeastNat
<1>4. k \in Nat /\ \A j \in Instances : version[j][c] <= k
  BY <1>3 DEF B
<1>5. \E j \in Instances : version[j][c] = k
  <2>1. SUFFICES ASSUME \A j \in Instances : version[j][c] # k PROVE FALSE
    OBVIOUS
  <2>2. \A j \in Instances : version[j][c] <= k - 1
    BY <1>1, <1>4, <2>1
  <2>3. k - 1 \in Nat
    BY <1>1, <1>4, <2>2
  <2>4. k - 1 \in B
    BY <2>2, <2>3 DEF B
  <2>5. k <= k - 1
    BY <1>3, <2>4
  <2> QED BY <1>4, <2>5
<1>6. k \in 0 .. MaxVersion
  BY <1>1, <1>5
<1>7. \E v \in 0 .. MaxVersion :
        (\E j \in Instances : version[j][c] = v) /\ \A j \in Instances : version[j][c] <= v
  BY <1>4, <1>5, <1>6
<1> QED BY <1>7 DEF Newest

\* The saves of one turn are distinct clients in some order.
LEMMA Ordered ==
  ASSUME NEW C \in SUBSET Clients, IsFiniteSet(Clients), NEW sent \in SetToAllKPermutations(C)
  PROVE  sent \in Seq(C)
<1>1. PICK s \in SUBSET C : sent \in SetToSeqs(s)
  BY DEF SetToAllKPermutations
<1>2. IsFiniteSet(s)
  BY FS_Subset
<1>3. Cardinality(s) \in Nat
  BY <1>2, FS_CardinalityType
<1>4. sent \in [1 .. Cardinality(s) -> s]
  BY <1>1 DEF SetToSeqs
<1>5. sent \in Seq(s)
  BY <1>3, <1>4, SeqDef
<1> QED BY <1>5, SeqMonotonic

\* A save captures the version of the moment.
LEMMA CapturedNow ==
  ASSUME Types, NEW i \in Instances, NEW c \in Clients
  PROVE  Captured(i, c) = version[i][c]
BY DEF Types, Captured

\* A save under way is a well-formed command.
LEMMA SaveCall ==
  ASSUME Types, NEW i \in Instances, NEW c \in Clients, NEW n \in Nat,
         NEW caller \in {"timer", "flush", "caller"}
  PROVE  LET call == SetCall(Sealed(i, c, version[i][c], n), caller)
         IN  /\ call \in Call /\ call.op = "set" /\ call.client = c
             /\ call.blob.version = version[i][c]
<1>1. version[i][c] \in 0 .. MaxVersion
  BY DEF Types
<1>2. Sealed(i, c, version[i][c], n) \in Blob
  BY <1>1 DEF Sealed, Blob
<1> QED BY <1>2 DEF SetCall, Sealed, Call

\* The step appends saves of clients of C, each with the client's current state.
SavesPushed(i, C, more) ==
  /\ calls' = [calls EXCEPT ![i] = @ \o more]
  /\ \A n \in 1 .. Len(more) :
        /\ more[n].op = "set" /\ more[n].client \in C
        /\ more[n].blob.version = version[i][more[n].client]

LEMMA StartSavesEffect ==
  ASSUME Types, NEW i \in Instances, NEW C \in SUBSET Clients,
         NEW caller \in {"timer", "flush", "caller"}, StartSaves(i, C, caller)
  PROVE  /\ seals' \in Nat
         /\ \E more \in Seq(Call) : SavesPushed(i, C, more)
<1>1. PICK sent \in SetToAllKPermutations(C) :
        /\ seals' = seals + Len(sent)
        /\ calls' = [calls EXCEPT ![i] =
               @ \o [n \in 1 .. Len(sent) |->
                        SetCall(Sealed(i, sent[n], Captured(i, sent[n]), seals + n), caller)]]
  BY DEF StartSaves
<1>2. sent \in Seq(C)
  BY Deployed, Ordered
<1>3. Len(sent) \in Nat /\ \A n \in 1 .. Len(sent) : sent[n] \in C
  BY <1>2, LenProperties, ElementOfSeq
<1>4. seals \in Nat
  BY DEF Types
<1> DEFINE more == [n \in 1 .. Len(sent) |->
                        SetCall(Sealed(i, sent[n], Captured(i, sent[n]), seals + n), caller)]
<1>5. ASSUME NEW n \in 1 .. Len(sent)
      PROVE  /\ more[n] \in Call /\ more[n].op = "set" /\ more[n].client = sent[n]
             /\ more[n].blob.version = version[i][sent[n]]
  <2>1. more[n] = SetCall(Sealed(i, sent[n], version[i][sent[n]], seals + n), caller)
    BY <1>3, CapturedNow
  <2>2. seals + n \in Nat /\ sent[n] \in Clients
    BY <1>3, <1>4
  <2> HIDE DEF more
  <2> QED BY <2>1, <2>2, SaveCall
<1>6. more \in Seq(Call) /\ DOMAIN more = 1 .. Len(sent)
  <2>1. \A n \in 1 .. Len(sent) : more[n] \in Call
    BY <1>5
  <2>2. more \in [1 .. Len(sent) -> Call]
    BY <2>1
  <2> QED BY <1>3, <2>2, SeqDef
<1>7. calls' = [calls EXCEPT ![i] = @ \o more]
  BY <1>1
<1> HIDE DEF more
<1>8. Len(more) = Len(sent)
  <2>1. Len(more) \in Nat /\ DOMAIN more = 1 .. Len(more)
    BY <1>6, LenProperties
  <2> QED BY <1>3, <1>6, <2>1
<1>9. seals' \in Nat
  BY <1>1, <1>3, <1>4
<1>10. \A n \in 1 .. Len(more) : /\ more[n].op = "set" /\ more[n].client \in C
                                 /\ more[n].blob.version = version[i][more[n].client]
  BY <1>3, <1>5, <1>8
<1>11. SavesPushed(i, C, more)
  BY <1>7, <1>10 DEF SavesPushed
<1> QED BY <1>6, <1>9, <1>11

-----------------------------------------------------------------------------
(* The commands under way. *)

\* Commands are added at the end.
LEMMA Pushed ==
  ASSUME NEW q \in Seq(Call), NEW more \in Seq(Call)
  PROVE  /\ q \o more \in Seq(Call)
         /\ Len(q) \in Nat /\ Len(more) \in Nat /\ Len(q \o more) = Len(q) + Len(more)
         /\ \A n \in 1 .. Len(q) : (q \o more)[n] = q[n]
         /\ \A n \in 1 .. Len(more) : (q \o more)[Len(q) + n] = more[n]
         /\ \A n \in 1 .. Len(q \o more) : \/ n \in 1 .. Len(q) /\ (q \o more)[n] = q[n]
                                           \/ /\ n - Len(q) \in 1 .. Len(more)
                                              /\ (q \o more)[n] = more[n - Len(q)]
<1> DEFINE r == q \o more
<1>1. /\ r \in Seq(Call) /\ Len(r) = Len(q) + Len(more)
      /\ \A n \in 1 .. Len(q) + Len(more) : r[n] = IF n <= Len(q) THEN q[n] ELSE more[n - Len(q)]
  BY ConcatProperties
<1>2. Len(q) \in Nat /\ Len(more) \in Nat
  BY LenProperties
<1> HIDE DEF r
<1>3. ASSUME NEW n \in 1 .. Len(q) PROVE r[n] = q[n]
  <2>1. n \in 1 .. Len(q) + Len(more) /\ n <= Len(q)
    BY <1>2
  <2> QED BY <1>1, <2>1
<1>4. ASSUME NEW n \in 1 .. Len(more) PROVE r[Len(q) + n] = more[n]
  <2>1. Len(q) + n \in 1 .. Len(q) + Len(more) /\ ~(Len(q) + n <= Len(q)) /\ (Len(q) + n) - Len(q) = n
    BY <1>2
  <2> QED BY <1>1, <2>1
<1>5. ASSUME NEW n \in 1 .. Len(r)
      PROVE  \/ n \in 1 .. Len(q) /\ r[n] = q[n]
             \/ n - Len(q) \in 1 .. Len(more) /\ r[n] = more[n - Len(q)]
  <2>1. CASE n <= Len(q)
    BY <1>1, <1>2, <2>1
  <2>2. CASE ~(n <= Len(q))
    BY <1>1, <1>2, <2>2
  <2> QED BY <2>1, <2>2
<1> QED BY <1>1, <1>2, <1>3, <1>4, <1>5 DEF r

\* One command is a sequence of one.
LEMMA OneCall ==
  ASSUME NEW call \in Call
  PROVE  /\ <<call>> \in Seq(Call) /\ Len(<<call>>) = 1
         /\ \A n \in 1 .. Len(<<call>>) : <<call>>[n] = call
         /\ \A q \in Seq(Call) : Append(q, call) = q \o <<call>>
<1>1. <<call>> \in Seq(Call) /\ Len(<<call>>) = 1 /\ <<call>>[1] = call
  OBVIOUS
<1>2. \A q \in Seq(Call) : Append(q, call) = q \o <<call>>
  BY AppendIsConcat
<1> QED BY <1>1, <1>2

\* Commands added by one instance keep what is said of clients that own it.
LEMMA OwnedPush ==
  ASSUME Types, Owned, NEW k \in deployment.instances, NEW more \in Seq(Call),
         calls' = [calls EXCEPT ![k] = @ \o more],
         UNCHANGED <<deployment, version, live>>,
         \A c \in loggedOut' : pending'[k][c] = NoTimer,
         \A c \in loggedOut' : c \notin loggedOut => Len(more) > 0 /\ Deletes(more[Len(more)], c),
         loggedOut' \subseteq Clients,
         \A n \in 1 .. Len(more) : more[n].op = "set" =>
            more[n].client \notin loggedOut' /\ more[n].blob.version = version[k][more[n].client]
  PROVE  Owned'
<1>1. SUFFICES ASSUME NEW i \in Instances, deployment.instances = {i}
               PROVE  /\ \A c \in loggedOut' : Gone(i, c)'
                      /\ \A c \in Clients : Grows(i, c)'
  BY Zenon DEF Owned
<1>2. k = i
  BY <1>1
<1> DEFINE q == calls[i]
           r == calls'[i]
<1>3. q \in Seq(Call) /\ r = q \o more
  BY <1>2 DEF Types
<1> HIDE DEF q, r
<1>4. /\ r \in Seq(Call) /\ Len(q) \in Nat /\ Len(more) \in Nat /\ Len(r) = Len(q) + Len(more)
      /\ \A n \in 1 .. Len(q) : r[n] = q[n]
      /\ \A n \in 1 .. Len(more) : r[Len(q) + n] = more[n]
      /\ \A n \in 1 .. Len(r) : \/ n \in 1 .. Len(q) /\ r[n] = q[n]
                                \/ n - Len(q) \in 1 .. Len(more) /\ r[n] = more[n - Len(q)]
  BY <1>3, Pushed
<1>5. ASSUME NEW c \in loggedOut' PROVE Gone(i, c)'
  <2>1. c \in Clients /\ pending'[i][c] = NoTimer
    BY <1>2
  <2>2. \A n \in 1 .. Len(more) : ~Sets(more[n], c)
    BY DEF Sets
  <2>3. CASE c \in loggedOut
    <3>1. /\ \A n \in 1 .. Len(q) : Sets(q[n], c) => \E m \in 1 .. Len(q) : m > n /\ Deletes(q[m], c)
          /\ (\A n \in 1 .. Len(q) : ~Deletes(q[n], c)) => live[c] = NoEntry
      BY <1>1, <2>3 DEF Owned, Gone, q
    <3>2. ASSUME NEW n \in 1 .. Len(r), Sets(r[n], c)
          PROVE  \E m \in 1 .. Len(r) : m > n /\ Deletes(r[m], c)
      <4>1. n \in 1 .. Len(q) /\ Sets(q[n], c)
        BY <1>4, <2>2, <3>2
      <4>2. PICK m \in 1 .. Len(q) : m > n /\ Deletes(q[m], c)
        BY <3>1, <4>1
      <4>3. m \in 1 .. Len(r) /\ r[m] = q[m]
        BY <1>4
      <4> QED BY <4>2, <4>3
    <3>3. ASSUME \A n \in 1 .. Len(r) : ~Deletes(r[n], c)
          PROVE  live'[c] = NoEntry
      <4>1. ASSUME NEW n \in 1 .. Len(q) PROVE ~Deletes(q[n], c)
        <5>1. n \in 1 .. Len(r) /\ r[n] = q[n]
          BY <1>4
        <5> QED BY <3>3, <5>1
      <4> QED BY <3>1, <4>1
    <3> QED BY <2>1, <3>2, <3>3 DEF Gone, r
  <2>4. CASE c \notin loggedOut
    <3>1. Len(more) > 0 /\ Deletes(more[Len(more)], c)
      BY <2>4
    <3>2. /\ Len(r) \in 1 .. Len(r) /\ Deletes(r[Len(r)], c)
      <4>1. Len(more) \in 1 .. Len(more)
        BY <1>4, <3>1
      <4>2. r[Len(q) + Len(more)] = more[Len(more)]
        BY <1>4, <4>1
      <4> QED BY <1>4, <3>1, <4>2
    <3>3. ASSUME NEW n \in 1 .. Len(r), Sets(r[n], c)
          PROVE  \E m \in 1 .. Len(r) : m > n /\ Deletes(r[m], c)
      <4>1. n # Len(r)
        BY <3>2, <3>3 DEF Sets, Deletes
      <4>2. Len(r) > n
        BY <1>4, <4>1
      <4> QED BY <3>2, <4>2
    <3> QED BY <2>1, <3>2, <3>3 DEF Gone, r
  <2> QED BY <2>3, <2>4
<1>6. ASSUME NEW c \in Clients PROVE Grows(i, c)'
  <2>1. /\ \A n \in 1 .. Len(q) : Sets(q[n], c) =>
              /\ q[n].blob.version <= version[i][c]
              /\ live[c] # NoEntry => live[c].value.version <= q[n].blob.version
        /\ \A m, n \in 1 .. Len(q) : m < n /\ Sets(q[m], c) /\ Sets(q[n], c) =>
              q[m].blob.version <= q[n].blob.version
        /\ live[c] # NoEntry => live[c].value.version <= version[i][c]
    BY <1>1 DEF Owned, Grows, q
  <2>2. \A n \in 1 .. Len(more) : Sets(more[n], c) => more[n].blob.version = version[i][c]
    BY <1>2 DEF Sets
  <2>3. version[i][c] \in Nat
    BY Deployed DEF Types
  <2>4. ASSUME NEW n \in 1 .. Len(r), Sets(r[n], c)
        PROVE  /\ r[n].blob.version <= version[i][c]
               /\ live[c] # NoEntry => live[c].value.version <= r[n].blob.version
    <3>1. CASE n \in 1 .. Len(q) /\ r[n] = q[n]
      BY <2>1, <2>4, <3>1
    <3>2. CASE n - Len(q) \in 1 .. Len(more) /\ r[n] = more[n - Len(q)]
      BY <2>1, <2>2, <2>3, <2>4, <3>2
    <3> QED BY <1>4, <3>1, <3>2
  <2>5. ASSUME NEW m \in 1 .. Len(r), NEW n \in 1 .. Len(r), m < n, Sets(r[m], c), Sets(r[n], c)
        PROVE  r[m].blob.version <= r[n].blob.version
    <3>1. CASE n \in 1 .. Len(q) /\ r[n] = q[n]
      <4>1. m \in 1 .. Len(q)
        BY <1>4, <2>5, <3>1
      <4>2. r[m] = q[m]
        BY <1>4, <4>1
      <4> QED BY <2>1, <2>5, <3>1, <4>1, <4>2
    <3>2. CASE n - Len(q) \in 1 .. Len(more) /\ r[n] = more[n - Len(q)]
      <4>1. r[n].blob.version = version[i][c]
        BY <2>2, <2>5, <3>2
      <4> QED BY <2>4, <2>5, <4>1
    <3> QED BY <1>4, <3>1, <3>2
  <2>6. live' = live /\ version' = version
    OBVIOUS
  <2> QED BY <2>1, <2>4, <2>5, <2>6 DEF Grows, r
<1> QED BY <1>5, <1>6

\* The first command of an instance has been answered.
LEMMA OwnedTail ==
  ASSUME Types, Owned, NEW k \in deployment.instances, calls[k] # <<>>,
         Answered(k), UNCHANGED <<deployment, version, pending>>,
         loggedOut' \subseteq loggedOut,
         LET call == Head(calls[k])
         IN  \/ live' = live /\ (call.op = "del" => call.client \notin loggedOut')
             \/ /\ call.op = "set"
                /\ live' = [live EXCEPT ![call.client] = [value |-> call.blob, expiresAt |-> now + TtlMs]]
             \/ call.op = "del" /\ live' = [live EXCEPT ![call.client] = NoEntry]
  PROVE  Owned'
<1>1. SUFFICES ASSUME NEW i \in Instances, deployment.instances = {i}
               PROVE  /\ \A c \in loggedOut' : Gone(i, c)'
                      /\ \A c \in Clients : Grows(i, c)'
  BY Zenon DEF Owned
<1>2. k = i
  BY <1>1
<1> DEFINE q == calls[i]
           r == calls'[i]
           h == Head(calls[i])
<1>3. q \in Seq(Call) /\ r = Tail(q) /\ h = Head(q) /\ q # <<>> /\ loggedOut \subseteq Clients
  BY <1>2 DEF Types, Answered
<1>a. \/ live' = live /\ (h.op = "del" => h.client \notin loggedOut')
      \/ h.op = "set" /\ live' = [live EXCEPT ![h.client] = [value |-> h.blob, expiresAt |-> now + TtlMs]]
      \/ h.op = "del" /\ live' = [live EXCEPT ![h.client] = NoEntry]
  BY <1>2
<1> HIDE DEF q, r, h
<1>4. /\ h \in Call /\ h = q[1] /\ r \in Seq(Call) /\ Len(r) = Len(q) - 1 /\ Len(r) \in Nat /\ Len(q) \in Nat
      /\ \A n \in 1 .. Len(r) : r[n] = q[n + 1] /\ n + 1 \in 1 .. Len(q)
      /\ 1 \in 1 .. Len(q)
  <2>1. /\ h \in Call /\ r \in Seq(Call) /\ Len(r) = Len(q) - 1
        /\ \A n \in 1 .. Len(r) : r[n] = q[n + 1]
    BY <1>3, HeadTailProperties
  <2>2. Len(q) \in Nat \ {0} /\ Len(r) \in Nat
    BY <1>3, <2>1, EmptySeq, LenProperties
  <2>3. h = q[1]
    BY <1>3
  <2> QED BY <2>1, <2>2, <2>3
<1>5. ASSUME NEW n \in 1 .. Len(q) PROVE n = 1 \/ (n - 1 \in 1 .. Len(r) /\ r[n - 1] = q[n])
  <2>1. CASE n # 1
    <3>1. n - 1 \in 1 .. Len(r) /\ (n - 1) + 1 = n
      BY <1>4, <2>1
    <3>2. r[n - 1] = q[(n - 1) + 1]
      BY <1>4, <3>1
    <3> QED BY <3>1, <3>2
  <2> QED BY <2>1
<1>6. ASSUME NEW c \in Clients
      PROVE  \/ live'[c] = live[c] /\ ~Sets(h, c) /\ ~Deletes(h, c)
             \/ live'[c] = live[c] /\ ~Deletes(h, c)
             \/ live'[c] = live[c] /\ Deletes(h, c) /\ c \notin loggedOut'
             \/ Sets(h, c) /\ live'[c] # NoEntry /\ live'[c].value = h.blob
             \/ Sets(h, c) /\ live'[c] = NoEntry
             \/ Deletes(h, c) /\ live'[c] = NoEntry
  <2>1. live \in [Clients -> {NoEntry} \cup [value : Blob, expiresAt : Nat]] /\ h.client \in Clients
    BY <1>4, CallTypes DEF Types
  <2>2. CASE live' = live /\ (h.op = "del" => h.client \notin loggedOut')
    BY <2>2 DEF Deletes
  <2>3. CASE h.op = "set" /\ live' = [live EXCEPT ![h.client] = [value |-> h.blob, expiresAt |-> now + TtlMs]]
    <3>1. CASE c = h.client
      <4>1. live'[c] = [value |-> h.blob, expiresAt |-> now + TtlMs]
        BY <2>1, <2>3, <3>1
      <4> QED BY <2>3, <3>1, <4>1 DEF Sets
    <3>2. CASE c # h.client
      BY <2>1, <2>3, <3>2 DEF Sets, Deletes
    <3> QED BY <3>1, <3>2
  <2>4. CASE h.op = "del" /\ live' = [live EXCEPT ![h.client] = NoEntry]
    <3>1. CASE c = h.client
      BY <2>1, <2>4, <3>1 DEF Deletes
    <3>2. CASE c # h.client
      BY <2>1, <2>4, <3>2 DEF Sets, Deletes
    <3> QED BY <3>1, <3>2
  <2> QED BY <1>a, <2>2, <2>3, <2>4
<1>7. ASSUME NEW c \in loggedOut' PROVE Gone(i, c)'
  <2>1. c \in Clients /\ c \in loggedOut
    BY <1>3
  <2>2. /\ pending[i][c] = NoTimer
        /\ \A n \in 1 .. Len(q) : Sets(q[n], c) => \E m \in 1 .. Len(q) : m > n /\ Deletes(q[m], c)
        /\ (\A n \in 1 .. Len(q) : ~Deletes(q[n], c)) => live[c] = NoEntry
    BY <1>1, <2>1 DEF Owned, Gone, q
  <2>3. ASSUME NEW n \in 1 .. Len(r), Sets(r[n], c)
        PROVE  \E m \in 1 .. Len(r) : m > n /\ Deletes(r[m], c)
    <3>1. n + 1 \in 1 .. Len(q) /\ Sets(q[n + 1], c)
      BY <1>4, <2>3
    <3>2. PICK m \in 1 .. Len(q) : m > n + 1 /\ Deletes(q[m], c)
      BY <2>2, <3>1
    <3>3. m # 1 /\ m - 1 > n
      BY <3>2
    <3>4. m - 1 \in 1 .. Len(r) /\ r[m - 1] = q[m]
      BY <1>5, <3>3
    <3> QED BY <3>2, <3>3, <3>4
  <2>4. ASSUME \A n \in 1 .. Len(r) : ~Deletes(r[n], c)
        PROVE  live'[c] = NoEntry
    <3>1. \A n \in 1 .. Len(q) : n # 1 => ~Deletes(q[n], c)
      BY <1>5, <2>4
    <3>2. CASE Deletes(h, c)
      BY <1>6, <2>1, <3>2 DEF Sets, Deletes
    <3>3. CASE ~Deletes(h, c)
      <4>1. \A n \in 1 .. Len(q) : ~Deletes(q[n], c)
        BY <1>4, <3>1, <3>3
      <4>2. live[c] = NoEntry /\ ~Sets(h, c)
        BY <1>4, <2>2, <4>1
      <4> QED BY <1>6, <2>1, <3>3, <4>2
    <3> QED BY <3>2, <3>3
  <2> QED BY <2>2, <2>3, <2>4 DEF Gone, r
<1>8. ASSUME NEW c \in Clients PROVE Grows(i, c)'
  <2>1. /\ \A n \in 1 .. Len(q) : Sets(q[n], c) =>
              /\ q[n].blob.version <= version[i][c]
              /\ live[c] # NoEntry => live[c].value.version <= q[n].blob.version
        /\ \A m, n \in 1 .. Len(q) : m < n /\ Sets(q[m], c) /\ Sets(q[n], c) =>
              q[m].blob.version <= q[n].blob.version
        /\ live[c] # NoEntry => live[c].value.version <= version[i][c]
    BY <1>1 DEF Owned, Grows, q
  <2>2. \/ live'[c] = live[c] \/ live'[c] = NoEntry
        \/ Sets(h, c) /\ live'[c].value = h.blob
    BY <1>6
  <2>3. ASSUME NEW n \in 1 .. Len(r), Sets(r[n], c)
        PROVE  /\ r[n].blob.version <= version[i][c]
               /\ live'[c] # NoEntry => live'[c].value.version <= r[n].blob.version
    <3>1. r[n] = q[n + 1] /\ n + 1 \in 1 .. Len(q) /\ 1 < n + 1
      BY <1>4
    <3>2. Sets(h, c) => h.blob.version <= r[n].blob.version
      BY <1>4, <2>1, <2>3, <3>1
    <3> QED BY <2>1, <2>2, <2>3, <3>1, <3>2
  <2>4. ASSUME NEW m \in 1 .. Len(r), NEW n \in 1 .. Len(r), m < n, Sets(r[m], c), Sets(r[n], c)
        PROVE  r[m].blob.version <= r[n].blob.version
    <3>1. /\ r[n] = q[n + 1] /\ n + 1 \in 1 .. Len(q) /\ m + 1 < n + 1
          /\ r[m] = q[m + 1] /\ m + 1 \in 1 .. Len(q)
      BY <1>4, <2>4
    <3> QED BY <2>1, <2>4, <3>1
  <2>5. live'[c] # NoEntry => live'[c].value.version <= version[i][c]
    <3>1. Sets(h, c) => h.blob.version <= version[i][c]
      BY <1>4, <2>1
    <3> QED BY <2>1, <2>2, <3>1
  <2>6. version' = version
    OBVIOUS
  <2> QED BY <2>3, <2>4, <2>5, <2>6 DEF Grows, r
<1> QED BY <1>7, <1>8

-----------------------------------------------------------------------------
(* The effect of each action. *)

\* Of several instances nothing is said.
LEMMA NotAlone ==
  ASSUME NEW k \in deployment.instances, deployment' = deployment, deployment.instances # {k}
  PROVE  Owned'
<1>1. SUFFICES ASSUME NEW i \in Instances, deployment.instances = {i} PROVE FALSE
  BY Zenon DEF Owned
<1> QED BY <1>1

\* A logged out client of an instance on its own has no timer there.
LEMMA NoTimerLeft ==
  ASSUME Owned, NEW k \in Instances, deployment.instances = {k}, NEW c \in loggedOut
  PROVE  pending[k][c] = NoTimer
BY DEF Owned, Gone

LEMMA Cancelled ==
  ASSUME Types, NEW i \in Instances, NEW C \in SUBSET Clients, Cancel(i, C)
  PROVE  /\ pending' \in [Instances -> [Clients -> [left : Nat, provider : {CaptureState}]]]
         /\ \A c \in Clients : pending'[i][c] = IF c \in C THEN NoTimer ELSE pending[i][c]
<1>1. NoTimer \in [left : Nat, provider : {CaptureState}]
  BY ManagerAssumption DEF NoTimer
<1>2. pending \in [Instances -> [Clients -> [left : Nat, provider : {CaptureState}]]]
  BY DEF Types
<1> DEFINE T == [left : Nat, provider : {CaptureState}]
           row == [c \in Clients |-> IF c \in C THEN NoTimer ELSE pending[i][c]]
<1>3. pending' = [pending EXCEPT ![i] = row]
  BY DEF Cancel
<1> HIDE DEF T
<1>4. row \in [Clients -> T]
  BY <1>1, <1>2 DEF T
<1>5. \A c \in Clients : row[c] = IF c \in C THEN NoTimer ELSE pending[i][c]
  OBVIOUS
<1> HIDE DEF row
<1>6. pending' \in [Instances -> [Clients -> T]] /\ pending'[i] = row
  BY <1>2, <1>3, <1>4 DEF T
<1> QED BY <1>5, <1>6 DEF T

\* The commands stay well formed when some are added or the first is answered.
LEMMA CallsPushed ==
  ASSUME Types, NEW i \in Instances, NEW more \in Seq(Call), calls' = [calls EXCEPT ![i] = @ \o more]
  PROVE  calls' \in [Instances -> Seq(Call)]
<1>1. calls \in [Instances -> Seq(Call)]
  BY DEF Types
<1>2. calls[i] \o more \in Seq(Call)
  BY <1>1, Pushed
<1> QED BY <1>1, <1>2

LEMMA CallsTail ==
  ASSUME Types, NEW i \in Instances, calls[i] # <<>>, Answered(i)
  PROVE  calls' \in [Instances -> Seq(Call)] /\ Head(calls[i]) \in Call
<1>1. calls \in [Instances -> Seq(Call)]
  BY DEF Types
<1>2. Tail(calls[i]) \in Seq(Call) /\ Head(calls[i]) \in Call
  BY <1>1, HeadTailProperties
<1> QED BY <1>1, <1>2 DEF Answered

\* Saves started for clients with an armed timer.
LEMMA SavesKept ==
  ASSUME Types, Owned, NEW i \in deployment.instances, NEW C \in SUBSET Clients,
         NEW caller \in {"timer", "flush", "caller"},
         \A c \in C : pending[i][c] # NoTimer,
         Cancel(i, C), StartSaves(i, C, caller),
         UNCHANGED <<storeVars, deployment, version, held, outcome, loggedOut>>
  PROVE  Types' /\ Owned'
<1>1. i \in Instances
  BY Deployed
<1>0. PICK more \in Seq(Call) : SavesPushed(i, C, more)
  BY <1>1, StartSavesEffect
<1>2. /\ calls' = [calls EXCEPT ![i] = @ \o more]
      /\ \A n \in 1 .. Len(more) :
            /\ more[n].op = "set" /\ more[n].client \in C
            /\ more[n].blob.version = version[i][more[n].client]
  BY <1>0 DEF SavesPushed
<1>3. seals' \in Nat
  BY <1>1, StartSavesEffect
<1>4. calls' \in [Instances -> Seq(Call)]
  BY <1>1, <1>2, CallsPushed
<1>5. /\ pending' \in [Instances -> [Clients -> [left : Nat, provider : {CaptureState}]]]
      /\ \A c \in Clients : pending'[i][c] = IF c \in C THEN NoTimer ELSE pending[i][c]
  BY <1>1, Cancelled
<1>6. Types'
  BY <1>3, <1>4, <1>5 DEF Types, storeVars
<1>7. CASE deployment.instances = {i}
  <2>1. \A c \in loggedOut : c \in Clients /\ pending[i][c] = NoTimer
    BY <1>1, <1>7, NoTimerLeft DEF Types
  <2>2. \A c \in loggedOut' : pending'[i][c] = NoTimer /\ c \in loggedOut
    BY <1>5, <2>1
  <2>3. \A n \in 1 .. Len(more) : more[n].op = "set" =>
            more[n].client \notin loggedOut' /\ more[n].blob.version = version[i][more[n].client]
    BY <1>2, <2>1
  <2>4. UNCHANGED <<deployment, version, live>> /\ loggedOut' \subseteq Clients
    BY <2>1 DEF storeVars
  <2> QED BY <1>2, <1>6, <2>2, <2>3, <2>4, OwnedPush
<1> QED BY <1>6, <1>7, NotAlone

\* An action that adds one command or none, and logs no other client out.
LEMMA OneCallKept ==
  ASSUME Types, Owned, NEW i \in deployment.instances, NEW call \in Call, NEW c \in Clients,
         calls' = [calls EXCEPT ![i] = Append(@, call)],
         call.op = "set" => c = call.client /\ call.blob.version = version[i][c],
         \/ pending' = pending /\ loggedOut' = loggedOut \ {c}
         \/ Cancel(i, {c}) /\ loggedOut' = loggedOut \cup {c} /\ Deletes(call, c)
         \/ pending' = pending /\ loggedOut' = loggedOut /\ call.op = "get",
         seals' \in Nat, UNCHANGED <<storeVars, deployment, version, held>>
  PROVE  Types' /\ Owned'
<1>1. i \in Instances
  BY Deployed
<1>2. <<call>> \in Seq(Call) /\ Len(<<call>>) = 1 /\ \A n \in 1 .. Len(<<call>>) : <<call>>[n] = call
  BY OneCall
<1>3. calls' = [calls EXCEPT ![i] = @ \o <<call>>]
  <2>1. calls[i] \in Seq(Call)
    BY <1>1 DEF Types
  <2>2. Append(calls[i], call) = calls[i] \o <<call>>
    BY <2>1, OneCall
  <2> QED BY <2>2
<1> DEFINE more == <<call>>
<1> HIDE DEF more
<1>4. more \in Seq(Call) /\ Len(more) = 1 /\ calls' = [calls EXCEPT ![i] = @ \o more]
      /\ \A n \in 1 .. Len(more) : more[n] = call
  BY <1>2, <1>3 DEF more
<1>5. calls' \in [Instances -> Seq(Call)]
  BY <1>1, <1>4, CallsPushed
<1>6. {c} \in SUBSET Clients
  OBVIOUS
<1>7. /\ pending' \in [Instances -> [Clients -> [left : Nat, provider : {CaptureState}]]]
      /\ \A d \in Clients : pending'[i][d] = pending[i][d] \/ pending'[i][d] = NoTimer
      /\ c \in loggedOut' => c \in loggedOut \/ pending'[i][c] = NoTimer
  <2>1. CASE pending' = pending /\ (loggedOut' = loggedOut \/ loggedOut' = loggedOut \ {c})
    BY <2>1 DEF Types
  <2>2. CASE Cancel(i, {c})
    BY <1>1, <1>6, <2>2, Cancelled
  <2> QED BY <2>1, <2>2
<1>8. loggedOut' \subseteq Clients /\ live' = live
  BY DEF Types, storeVars
<1>9. Types'
  BY <1>5, <1>7, <1>8 DEF Types, storeVars
<1>10. CASE deployment.instances = {i}
  <2>1. \A d \in loggedOut : d \in Clients /\ pending[i][d] = NoTimer
    BY <1>1, <1>10, NoTimerLeft DEF Types
  <2>2. \A d \in loggedOut' : pending'[i][d] = NoTimer
    BY <1>7, <1>8, <2>1
  <2>3. \A d \in loggedOut' : d \notin loggedOut => Len(more) > 0 /\ Deletes(more[Len(more)], d)
    BY <1>4
  <2>4. ASSUME NEW n \in 1 .. Len(more), more[n].op = "set"
        PROVE  more[n].client \notin loggedOut' /\ more[n].blob.version = version[i][more[n].client]
    <3>1. more[n] = call /\ call.op = "set"
      BY <1>4, <2>4
    <3>2. loggedOut' = loggedOut \ {c}
      BY <3>1 DEF Deletes
    <3> QED BY <3>1, <3>2
  <2>5. UNCHANGED <<deployment, version, live>>
    BY <1>8
  <2> HIDE DEF more
  <2> QED BY <1>4, <1>8, <1>9, <2>2, <2>3, <2>4, <2>5, OwnedPush
<1> QED BY <1>9, <1>10, NotAlone

\* Nothing is sent and nothing is stored.
LEMMA QuietKept ==
  ASSUME Types, Owned, NEW i \in deployment.instances,
         UNCHANGED <<deployment, version, live, calls>>, loggedOut' \subseteq loggedOut,
         \A c \in loggedOut' : pending[i][c] = NoTimer => pending'[i][c] = NoTimer
  PROVE  Owned'
<1>1. SUFFICES ASSUME NEW k \in Instances, deployment.instances = {k}
               PROVE  /\ \A c \in loggedOut' : Gone(k, c)'
                      /\ \A c \in Clients : Grows(k, c)'
  BY Zenon DEF Owned
<1>2. k = i
  BY <1>1
<1>3. ASSUME NEW c \in loggedOut' PROVE Gone(k, c)'
  BY <1>1, <1>2 DEF Owned, Gone
<1>4. ASSUME NEW c \in Clients PROVE Grows(k, c)'
  BY <1>1 DEF Owned, Grows
<1> QED BY <1>3, <1>4

LEMMA StateChangesKept ==
  ASSUME Types, Owned, NEW i \in deployment.instances, NEW c \in Clients, StateChanges(i, c)
  PROVE  Types' /\ Owned'
<1>1. i \in Instances /\ MaxVersion \in Nat /\ deployment.maxVersion \in 0 .. MaxVersion
  BY Deployed
<1> DEFINE top == Newest(c)
<1>2. top \in 0 .. MaxVersion /\ \A j \in Instances : version[j][c] <= top
  BY <1>1, NewestIs
<1>3. top < deployment.maxVersion /\ version' = [version EXCEPT ![i][c] = top + 1]
  BY DEF StateChanges
<1> HIDE DEF top
<1>4. version \in [Instances -> [Clients -> 0 .. MaxVersion]]
  BY DEF Types
<1>5. top + 1 \in 0 .. MaxVersion
  BY <1>1, <1>2, <1>3
<1>6. version' \in [Instances -> [Clients -> 0 .. MaxVersion]]
  BY <1>1, <1>3, <1>4, <1>5
<1>7. \A d \in Clients : version[i][d] <= version'[i][d]
  BY <1>1, <1>2, <1>3, <1>4
<1>8. UNCHANGED <<live, now, answer, deployment, pending, calls, seals, held, outcome, loggedOut, dirty>>
  BY DEF StateChanges, storeVars
<1>9. Types'
  BY <1>6, <1>8 DEF Types
<1>10. SUFFICES ASSUME NEW k \in Instances, deployment.instances = {k}
                PROVE  /\ \A d \in loggedOut' : Gone(k, d)'
                       /\ \A d \in Clients : Grows(k, d)'
  BY <1>8, <1>9, Zenon DEF Owned
<1>11. k = i
  BY <1>10
<1>12. ASSUME NEW d \in loggedOut' PROVE Gone(k, d)'
  BY <1>8, <1>10 DEF Owned, Gone
<1>13. ASSUME NEW d \in Clients PROVE Grows(k, d)'
  <2>1. Grows(k, d)
    BY <1>10 DEF Owned
  <2>2. version[k][d] \in Nat /\ version'[k][d] \in Nat /\ version[k][d] <= version'[k][d]
    BY <1>1, <1>4, <1>6, <1>7, <1>11
  <2>3. ASSUME NEW n \in 1 .. Len(calls[k]), Sets(calls[k][n], d)
        PROVE  calls[k][n].blob.version <= version'[k][d]
    <3>1. calls[k] \in Seq(Call)
      BY DEF Types
    <3>2. calls[k][n] \in Call
      BY <3>1, ElementOfSeq
    <3>3. calls[k][n].blob \in Blob
      BY <2>3, <3>2, CallTypes DEF Sets
    <3>4. calls[k][n].blob.version \in Nat
      BY <1>1, <3>3, BlobTypes
    <3>5. calls[k][n].blob.version <= version[k][d]
      BY <2>1, <2>3 DEF Grows
    <3> QED BY <2>2, <3>4, <3>5
  <2>4. ASSUME live[d] # NoEntry
        PROVE  live[d].value.version <= version'[k][d]
    <3>1. live[d].value \in Blob
      BY <2>4 DEF Types
    <3>2. live[d].value.version \in Nat
      BY <1>1, <3>1, BlobTypes
    <3>3. live[d].value.version <= version[k][d]
      BY <2>1, <2>4 DEF Grows
    <3> QED BY <2>2, <3>2, <3>3
  <2> QED BY <1>8, <2>1, <2>3, <2>4 DEF Grows
<1> QED BY <1>12, <1>13

LEMMA DebouncedSaveKept ==
  ASSUME Types, Owned, NEW i \in deployment.instances, NEW c \in Clients, DebouncedSave(i, c)
  PROVE  Types' /\ Owned'
<1>1. i \in Instances /\ DebounceMs \in Nat /\ now \in Nat
  BY Deployed DEF Types
<1> DEFINE timer == [left |-> DebounceMs, provider |-> CaptureState]
<1>2. timer \in [left : Nat, provider : {CaptureState}]
  BY <1>1
<1>3. /\ pending' = [pending EXCEPT ![i][c] = timer]
      /\ loggedOut' = loggedOut \ {c}
      /\ UNCHANGED <<now, live, answer, deployment, version, calls, seals, held, outcome>>
  BY DEF DebouncedSave, Provider, storeVars
<1> HIDE DEF timer
<1>4. pending \in [Instances -> [Clients -> [left : Nat, provider : {CaptureState}]]]
  BY DEF Types
<1> DEFINE T == [left : Nat, provider : {CaptureState}]
<1> HIDE DEF T
<1>5. pending' \in [Instances -> [Clients -> T]] /\ \A d \in Clients : d # c => pending'[i][d] = pending[i][d]
  BY <1>1, <1>2, <1>3, <1>4 DEF T
<1>6. Types'
  BY <1>3, <1>5 DEF Types, T
<1>7. \A d \in loggedOut' : pending[i][d] = NoTimer => pending'[i][d] = NoTimer
  BY <1>3, <1>5 DEF Types
<1>8. UNCHANGED <<deployment, version, live, calls>> /\ loggedOut' \subseteq loggedOut
  BY <1>3
<1> QED BY <1>6, <1>7, <1>8, QuietKept

LEMMA CloseKept ==
  ASSUME Types, Owned, NEW i \in deployment.instances, Close(i)
  PROVE  Types' /\ Owned'
<1>1. i \in Instances
  BY Deployed
<1>2. /\ Cancel(i, Clients)
      /\ UNCHANGED <<now, live, answer, deployment, version, calls, seals, held, outcome, loggedOut>>
  BY DEF Close, storeVars
<1>3. Clients \in SUBSET Clients
  OBVIOUS
<1>4. /\ pending' \in [Instances -> [Clients -> [left : Nat, provider : {CaptureState}]]]
      /\ \A c \in Clients : pending'[i][c] = NoTimer
  BY <1>1, <1>2, <1>3, Cancelled
<1>5. Types'
  BY <1>2, <1>4 DEF Types
<1>6. \A d \in loggedOut' : pending[i][d] = NoTimer => pending'[i][d] = NoTimer
  BY <1>2, <1>4 DEF Types
<1>7. UNCHANGED <<deployment, version, live, calls>> /\ loggedOut' \subseteq loggedOut
  BY <1>2
<1> QED BY <1>5, <1>6, <1>7, QuietKept

LEMMA TimerFlushKept ==
  ASSUME Types, Owned, NEW i \in deployment.instances, NEW c \in Clients, TimerFires(i, c) \/ Flush(i, c)
  PROVE  Types' /\ Owned'
<1>1. {c} \in SUBSET Clients
  OBVIOUS
<1>2. CASE TimerFires(i, c)
  <2>0. pending[i][c].left = 0 /\ NoTimer.left # 0
    BY <1>2, ManagerAssumption DEF TimerFires, NoTimer
  <2>1. /\ \A d \in {c} : pending[i][d] # NoTimer
        /\ Cancel(i, {c}) /\ StartSaves(i, {c}, "timer")
        /\ UNCHANGED <<storeVars, deployment, version, held, outcome, loggedOut>>
    BY <1>2, <2>0 DEF TimerFires
  <2> QED BY <1>1, <2>1, SavesKept
<1>3. CASE Flush(i, c)
  <2>1. /\ \A d \in {c} : pending[i][d] # NoTimer
        /\ Cancel(i, {c}) /\ StartSaves(i, {c}, "flush")
        /\ UNCHANGED <<storeVars, deployment, version, held, outcome, loggedOut>>
    BY <1>3 DEF Flush
  <2> QED BY <1>1, <2>1, SavesKept
<1> QED BY <1>2, <1>3

LEMMA FlushAllKept ==
  ASSUME Types, Owned, NEW i \in deployment.instances, FlushAll(i)
  PROVE  Types' /\ Owned'
<1> DEFINE waiting == {c \in Clients : pending[i][c] # NoTimer}
<1>1. waiting \in SUBSET Clients /\ \A d \in waiting : pending[i][d] # NoTimer
  OBVIOUS
<1>2. /\ Cancel(i, waiting) /\ StartSaves(i, waiting, "flush")
      /\ UNCHANGED <<storeVars, deployment, version, held, outcome, loggedOut>>
  BY DEF FlushAll
<1> HIDE DEF waiting
<1> QED BY <1>1, <1>2, SavesKept

LEMMA SaveKept ==
  ASSUME Types, Owned, NEW i \in deployment.instances, NEW c \in Clients, Save(i, c)
  PROVE  Types' /\ Owned'
<1>1. i \in Instances /\ seals \in Nat /\ seals + 1 \in Nat
  BY Deployed DEF Types
<1> DEFINE call == SetCall(Sealed(i, c, version[i][c], seals + 1), "caller")
<1>2. call \in Call /\ call.op = "set" /\ call.client = c /\ call.blob.version = version[i][c]
  BY <1>1, SaveCall
<1>3. /\ calls' = [calls EXCEPT ![i] = Append(@, call)]
      /\ seals' = seals + 1 /\ loggedOut' = loggedOut \ {c} /\ pending' = pending
      /\ UNCHANGED <<storeVars, deployment, version, held>>
  BY DEF Save
<1> HIDE DEF call
<1>4. seals' \in Nat
  BY <1>1, <1>3
<1> QED BY <1>2, <1>3, <1>4, OneCallKept

LEMMA DeleteKept ==
  ASSUME Types, Owned, NEW i \in deployment.instances, NEW c \in Clients, Delete(i, c)
  PROVE  Types' /\ Owned'
<1> DEFINE call == [op |-> "del", client |-> c]
<1>1. call \in Call /\ call.op = "del" /\ Deletes(call, c)
  BY DEF Call, Deletes
<1>2. /\ calls' = [calls EXCEPT ![i] = Append(@, call)]
      /\ Cancel(i, {c}) /\ loggedOut' = loggedOut \cup {c}
      /\ UNCHANGED <<storeVars, deployment, version, seals, held>>
  BY DEF Delete
<1> HIDE DEF call
<1>3. seals' \in Nat
  BY <1>2 DEF Types
<1> QED BY <1>1, <1>2, <1>3, OneCallKept

LEMMA LoadKept ==
  ASSUME Types, Owned, NEW i \in deployment.instances, NEW blob \in held, Load(i, blob)
  PROVE  Types' /\ Owned'
<1>1. UNCHANGED <<storeVars, deployment, version, pending, seals, held, loggedOut, dirty>>
  BY DEF Load
<1>2. blob \in Blob /\ blob.client \in Clients
  BY BlobTypes DEF Types
<1>3. seals' \in Nat
  BY <1>1 DEF Types
<1>4. CASE UNCHANGED calls
  <2>1. Types'
    BY <1>1, <1>4 DEF Types, storeVars
  <2>2. UNCHANGED <<deployment, version, live, calls>> /\ loggedOut' \subseteq loggedOut
    BY <1>1, <1>4 DEF storeVars
  <2>3. \A d \in loggedOut' : pending[i][d] = NoTimer => pending'[i][d] = NoTimer
    BY <1>1
  <2> QED BY <2>1, <2>2, <2>3, QuietKept
<1> DEFINE call == [op |-> "get", client |-> blob.client, blob |-> blob]
<1>5. CASE calls' = [calls EXCEPT ![i] = Append(@, call)]
  <2>1. call \in Call /\ call.op = "get"
    BY <1>2 DEF Call
  <2> HIDE DEF call
  <2>2. /\ UNCHANGED <<storeVars, deployment, version, held>>
        /\ pending' = pending /\ loggedOut' = loggedOut
    BY <1>1
  <2> QED BY <1>2, <1>3, <1>5, <2>1, <2>2, OneCallKept
<1> QED BY <1>4, <1>5 DEF Load

LEMMA SetExecutesKept ==
  ASSUME Types, Owned, NEW i \in deployment.instances, SetExecutes(i)
  PROVE  /\ Types' /\ Owned'
         /\ LET call == Head(calls[i])
            IN  /\ calls[i] # <<>> /\ call \in Call /\ call.op = "set"
                /\ live' = [live EXCEPT ![call.client] = [value |-> call.blob, expiresAt |-> now + TtlMs]]
<1>1. i \in Instances
  BY Deployed
<1> DEFINE call == Head(calls[i])
<1>2. /\ calls[i] # <<>> /\ Answered(i) /\ call.op = "set"
      /\ live' = [live EXCEPT ![call.client] = [value |-> call.blob, expiresAt |-> now + TtlMs]]
      /\ now' = now /\ (held' = held \/ held' = held \cup {call.blob})
      /\ UNCHANGED <<deployment, version, pending, seals, loggedOut>>
  BY DEF SetExecutes, Set
<1>3. calls' \in [Instances -> Seq(Call)] /\ call \in Call
  BY <1>1, <1>2, CallsTail
<1>4. loggedOut' \subseteq loggedOut
  BY <1>2
<1>5. Owned'
  BY <1>2, <1>4, OwnedTail
<1>6. Types'
  <2>1. call.client \in Clients /\ call.blob \in Blob
    BY <1>2, <1>3, CallTypes
  <2>2. now + TtlMs \in Nat
    BY StoreAssumption DEF Types
  <2> HIDE DEF call
  <2>3. [value |-> call.blob, expiresAt |-> now + TtlMs] \in [value : Blob, expiresAt : Nat]
    BY <2>1, <2>2
  <2>4. live' \in [Clients -> {NoEntry} \cup [value : Blob, expiresAt : Nat]]
    BY <1>2, <2>1, <2>3 DEF Types
  <2>5. held' \subseteq Blob
    BY <1>2, <2>1 DEF Types
  <2> QED BY <1>2, <1>3, <2>4, <2>5 DEF Types
<1> QED BY <1>2, <1>3, <1>5, <1>6

LEMMA DelExecutesKept ==
  ASSUME Types, Owned, NEW i \in deployment.instances, DelExecutes(i)
  PROVE  /\ Types' /\ Owned'
         /\ \A c \in Clients : live'[c] = live[c] \/ live'[c] = NoEntry
<1>1. i \in Instances
  BY Deployed
<1> DEFINE call == Head(calls[i])
<1>2. /\ calls[i] # <<>> /\ Answered(i) /\ call.op = "del"
      /\ live' = [live EXCEPT ![call.client] = NoEntry]
      /\ UNCHANGED <<now, held, deployment, version, pending, seals, loggedOut>>
  BY DEF DelExecutes, Del
<1>3. calls' \in [Instances -> Seq(Call)] /\ call \in Call
  BY <1>1, <1>2, CallsTail
<1>4. loggedOut' \subseteq loggedOut
  BY <1>2
<1>5. Owned'
  BY <1>2, <1>4, OwnedTail
<1>6. live \in [Clients -> {NoEntry} \cup [value : Blob, expiresAt : Nat]]
  BY DEF Types
<1> HIDE DEF call
<1>7. /\ live' \in [Clients -> {NoEntry} \cup [value : Blob, expiresAt : Nat]]
      /\ \A c \in Clients : live'[c] = live[c] \/ live'[c] = NoEntry
  BY <1>2, <1>6
<1>8. Types'
  BY <1>2, <1>3, <1>7 DEF Types
<1> QED BY <1>5, <1>7, <1>8

LEMMA AnsweredKept ==
  ASSUME Types, Owned, NEW i \in deployment.instances, GetExecutes(i) \/ StoreRejects(i)
  PROVE  Types' /\ Owned' /\ live' = live
<1>1. i \in Instances
  BY Deployed
<1> DEFINE call == Head(calls[i])
<1>2. /\ calls[i] # <<>> /\ Answered(i) /\ loggedOut' \subseteq loggedOut /\ live' = live
      /\ call.op = "del" => call.client \notin loggedOut'
      /\ UNCHANGED <<now, held, deployment, version, pending, seals>>
  <2>1. CASE GetExecutes(i)
    BY <2>1 DEF GetExecutes, Get
  <2>2. CASE StoreRejects(i)
    BY <2>2 DEF StoreRejects, storeVars
  <2> QED BY <2>1, <2>2
<1>3. calls' \in [Instances -> Seq(Call)]
  BY <1>1, <1>2, CallsTail
<1>4. Owned'
  BY <1>2, OwnedTail
<1>5. Types'
  BY <1>2, <1>3 DEF Types
<1> QED BY <1>2, <1>4, <1>5

LEMMA PassesKept ==
  ASSUME Types, Owned, Passes
  PROVE  /\ Types' /\ Owned'
         /\ \A c \in Clients : live'[c] = live[c] \/ live'[c] = NoEntry
<1>1. /\ \/ /\ now' = now + 1
            /\ live' = [c \in Clients |-> IF live[c].expiresAt > now' THEN live[c] ELSE NoEntry]
         \/ UNCHANGED <<now, live>>
      /\ UNCHANGED <<deployment, version, calls, seals, held, loggedOut>>
  BY DEF Passes, Tick, storeVars
<1> DEFINE T == [left : Nat, provider : {CaptureState}]
<1>11. /\ pending' \in [Instances -> [Clients -> T]]
       /\ \A i \in Instances, c \in Clients : pending[i][c] = NoTimer => pending'[i][c] = NoTimer
  <2> DEFINE runs(i, c) == IF pending[i][c] = NoTimer THEN NoTimer ELSE [pending[i][c] EXCEPT !.left = @ - 1]
  <2>1. pending' = [i \in Instances |-> [c \in Clients |-> runs(i, c)]]
    BY DEF Passes
  <2>2. NoTimer \in T
    BY ManagerAssumption DEF NoTimer
  <2>3. ASSUME NEW i \in Instances, NEW c \in Clients PROVE runs(i, c) \in T
    <3>1. pending[i][c] \in T /\ pending[i][c].left > 0
      BY DEF Passes, Types
    <3>2. [pending[i][c] EXCEPT !.left = @ - 1] \in T
      BY <3>1
    <3> QED BY <2>2, <3>2
  <2>4. \A i \in Instances, c \in Clients : pending[i][c] = NoTimer => runs(i, c) = NoTimer
    OBVIOUS
  <2> HIDE DEF T, runs
  <2>5. pending' \in [Instances -> [Clients -> T]]
    BY <2>1, <2>3
  <2>6. \A i \in Instances, c \in Clients : pending'[i][c] = runs(i, c)
    BY <2>1
  <2> QED BY <2>4, <2>5, <2>6
<1> HIDE DEF T
<1>2. live \in [Clients -> {NoEntry} \cup [value : Blob, expiresAt : Nat]]
  BY DEF Types
<1>3. \A c \in Clients : live'[c] = live[c] \/ live'[c] = NoEntry
  BY <1>1
<1>4. live' \in [Clients -> {NoEntry} \cup [value : Blob, expiresAt : Nat]]
  BY <1>1, <1>2
<1>5. Types'
  BY <1>1, <1>11, <1>4 DEF Types, T
<1>6. SUFFICES ASSUME NEW k \in Instances, deployment.instances = {k}
               PROVE  /\ \A c \in loggedOut : Gone(k, c)'
                      /\ \A c \in Clients : Grows(k, c)'
  BY <1>1, <1>3, <1>5, Zenon DEF Owned
<1>7. ASSUME NEW c \in loggedOut PROVE Gone(k, c)'
  <2>1. Gone(k, c) /\ c \in Clients
    BY <1>6 DEF Owned, Types
  <2>2. pending'[k][c] = NoTimer
    BY <1>11, <2>1 DEF Gone
  <2> QED BY <1>1, <1>3, <2>1, <2>2 DEF Gone
<1>8. ASSUME NEW c \in Clients PROVE Grows(k, c)'
  <2>1. Grows(k, c)
    BY <1>6 DEF Owned
  <2> QED BY <1>1, <1>3, <2>1 DEF Grows
<1> QED BY <1>7, <1>8

-----------------------------------------------------------------------------
(* The invariant and the theorems. *)

LEMMA InitOwned == Init => Types /\ Owned
<1> SUFFICES ASSUME Init PROVE Types /\ Owned
  OBVIOUS
<1>1. MaxVersion \in Nat /\ 0 \in 0 .. MaxVersion
  BY ManagerAssumption
<1>2. NoTimer \in [left : Nat, provider : {CaptureState}]
  BY ManagerAssumption DEF NoTimer
<1>3. <<>> \in Seq(Call) /\ Len(<<>>) = 0
  OBVIOUS
<1>4. pending = [i \in Instances |-> [c \in Clients |-> NoTimer]]
  BY DEF Init
<1> DEFINE T == [left : Nat, provider : {CaptureState}]
<1> HIDE DEF T
<1>5. pending \in [Instances -> [Clients -> T]]
  BY <1>2, <1>4 DEF T
<1>6. /\ deployment \in Deployments /\ now \in Nat /\ seals \in Nat /\ held \subseteq Blob
      /\ loggedOut = {}
      /\ version \in [Instances -> [Clients -> 0 .. MaxVersion]]
      /\ calls \in [Instances -> Seq(Call)]
      /\ live \in [Clients -> {NoEntry} \cup [value : Blob, expiresAt : Nat]]
  BY <1>1, <1>3 DEF Init, StoreInit
<1>7. Types
  BY <1>5, <1>6 DEF Types, T
<1>8. ASSUME NEW i \in Instances, NEW c \in Clients PROVE Grows(i, c)
  <2>1. Len(calls[i]) = 0 /\ live[c] = NoEntry
    BY <1>3 DEF Init, StoreInit
  <2> QED BY <2>1 DEF Grows
<1> QED BY <1>6, <1>7, <1>8 DEF Owned

LEMMA NextOwned ==
  ASSUME Types, Owned, [Next]_vars
  PROVE  Types' /\ Owned'
<1>1. CASE UNCHANGED vars
  <2>1. UNCHANGED <<now, live, answer, deployment, version, pending, calls, seals, held, loggedOut>>
    BY <1>1 DEF vars, storeVars, managerVars
  <2>2. Types'
    BY <2>1 DEF Types
  <2>3. Owned'
    BY <2>1 DEF Owned, Gone, Grows
  <2> QED BY <2>2, <2>3
<1>2. CASE Passes
  BY <1>2, PassesKept
<1>3. ASSUME NEW i \in deployment.instances,
             \/ FlushAll(i) \/ Close(i)
             \/ SetExecutes(i) \/ DelExecutes(i) \/ GetExecutes(i) \/ StoreRejects(i)
      PROVE  Types' /\ Owned'
  BY <1>3, FlushAllKept, CloseKept, SetExecutesKept, DelExecutesKept, AnsweredKept, Zenon
<1>4. ASSUME NEW i \in deployment.instances, NEW blob \in held, Load(i, blob)
      PROVE  Types' /\ Owned'
  BY <1>4, LoadKept
<1>5. ASSUME NEW i \in deployment.instances, NEW c \in Clients,
             \/ StateChanges(i, c) \/ DebouncedSave(i, c) \/ TimerFires(i, c)
             \/ Flush(i, c) \/ Save(i, c) \/ Delete(i, c)
      PROVE  Types' /\ Owned'
  BY <1>5, StateChangesKept, DebouncedSaveKept, TimerFlushKept, SaveKept, DeleteKept, Zenon
<1> QED BY <1>1, <1>2, <1>3, <1>4, <1>5, Zenon DEF Next

LEMMA OwnedAlways == Spec => [](Types /\ Owned)
<1>1. Types /\ Owned /\ [Next]_vars => (Types /\ Owned)'
  BY NextOwned
<1> QED BY InitOwned, <1>1, PTL DEF Spec

\* The only instance of a deployment of one.
LEMMA OnlyInstance ==
  ASSUME Types, Cardinality(deployment.instances) = 1
  PROVE  \E i \in Instances : deployment.instances = {i}
<1>1. deployment.instances \subseteq Instances /\ IsFiniteSet(Instances)
  BY Deployed
<1>2. IsFiniteSet(deployment.instances)
  BY <1>1, FS_Subset
<1>3. \E i : deployment.instances = {i}
  BY <1>2, FS_Singleton
<1> QED BY <1>1, <1>3

\* What delete() removed stays removed: on an instance that has its clients to itself, a
\* client whose latest request was a delete() has no stored session once no delete of it is
\* under way, whichever timers, flushes, saves, failures and expiries came before.
THEOREM DeleteAlwaysSticks == Spec => []DeleteSticks
<1>1. ASSUME Types, Owned PROVE DeleteSticks
  <2>1. SUFFICES ASSUME Cardinality(deployment.instances) = 1, NEW c \in loggedOut, ~DeletePending(c)
                 PROVE  live[c] = NoEntry
    BY DEF DeleteSticks
  <2>2. PICK i \in Instances : deployment.instances = {i}
    BY <1>1, <2>1, OnlyInstance
  <2>3. Gone(i, c)
    BY <1>1, <2>2 DEF Owned
  <2>4. \A n \in 1 .. Len(calls[i]) : ~Deletes(calls[i][n], c)
    BY <2>1 DEF DeletePending, Deletes
  <2> QED BY <2>3, <2>4 DEF Gone
<1>2. Types /\ Owned => DeleteSticks
  BY <1>1
<1> QED BY <1>2, OwnedAlways, PTL

\* No step replaces a stored session by an older state of its client, on an instance that
\* has its clients to itself: the saves under way carry versions in the order in which they
\* were started, none older than what is stored.
THEOREM StoreAlwaysAdvances == Spec => StoreNeverRegresses
<1> DEFINE Advances == \A c \in Clients :
        Cardinality(deployment.instances) = 1 /\ live[c] # NoEntry /\ live'[c] # NoEntry
            => live[c].value.version <= live'[c].value.version
<1>1. ASSUME Types, Owned, Next PROVE Advances
  <2>1. SUFFICES ASSUME NEW c \in Clients, Cardinality(deployment.instances) = 1,
                        live[c] # NoEntry, live'[c] # NoEntry
                 PROVE  live[c].value.version <= live'[c].value.version
    OBVIOUS
  <2>2. PICK k \in Instances : deployment.instances = {k}
    BY <1>1, <2>1, OnlyInstance
  <2>3. Grows(k, c)
    BY <1>1, <2>2 DEF Owned
  <2>4. live[c].value.version \in Nat
    <3>1. live[c].value \in Blob
      BY <1>1, <2>1 DEF Types
    <3> QED BY <1>1, <3>1, BlobTypes, Deployed
  <2>5. live'[c] = live[c] => live[c].value.version <= live'[c].value.version
    BY <2>4
  <2>6. CASE Passes
    BY <1>1, <2>1, <2>5, <2>6, PassesKept
  <2>7. ASSUME NEW i \in deployment.instances, SetExecutes(i)
        PROVE  live[c].value.version <= live'[c].value.version
    <3> DEFINE call == Head(calls[i])
    <3>1. /\ calls[i] # <<>> /\ call \in Call /\ call.op = "set"
          /\ live' = [live EXCEPT ![call.client] = [value |-> call.blob, expiresAt |-> now + TtlMs]]
      BY <1>1, <2>7, SetExecutesKept
    <3>2. i = k /\ calls[k] \in Seq(Call) /\ live \in [Clients -> {NoEntry} \cup [value : Blob, expiresAt : Nat]]
      BY <1>1, <2>2 DEF Types
    <3>3. 1 \in 1 .. Len(calls[k]) /\ call = calls[k][1]
      <4>1. Len(calls[k]) \in Nat /\ Len(calls[k]) # 0
        BY <3>1, <3>2, EmptySeq, LenProperties
      <4>2. 1 \in 1 .. Len(calls[k])
        BY <4>1
      <4>3. call = calls[k][1]
        BY <3>2
      <4> QED BY <4>2, <4>3
    <3> HIDE DEF call
    <3>4. CASE call.client = c
      <4>1. Sets(calls[k][1], c)
        BY <3>1, <3>3, <3>4 DEF Sets
      <4>2. live[c].value.version <= call.blob.version
        BY <2>1, <2>3, <3>3, <4>1 DEF Grows
      <4>3. live'[c].value = call.blob
        BY <3>1, <3>2, <3>4
      <4> QED BY <4>2, <4>3
    <3>5. CASE call.client # c
      BY <2>5, <3>1, <3>2, <3>5
    <3> QED BY <3>4, <3>5
  <2>8. ASSUME NEW i \in deployment.instances, DelExecutes(i)
        PROVE  live[c].value.version <= live'[c].value.version
    BY <1>1, <2>1, <2>5, <2>8, DelExecutesKept
  <2>9. ASSUME NEW i \in deployment.instances, GetExecutes(i) \/ StoreRejects(i)
        PROVE  live[c].value.version <= live'[c].value.version
    BY <1>1, <2>5, <2>9, AnsweredKept
  <2>10. ASSUME NEW i \in deployment.instances, FlushAll(i) \/ Close(i)
         PROVE  live[c].value.version <= live'[c].value.version
    BY <2>5, <2>10 DEF FlushAll, Close, storeVars
  <2>11. ASSUME NEW i \in deployment.instances, NEW blob \in held, Load(i, blob)
         PROVE  live[c].value.version <= live'[c].value.version
    BY <2>5, <2>11 DEF Load, storeVars
  <2>12. ASSUME NEW i \in deployment.instances, NEW d \in Clients,
                \/ StateChanges(i, d) \/ DebouncedSave(i, d) \/ TimerFires(i, d)
                \/ Flush(i, d) \/ Save(i, d) \/ Delete(i, d)
         PROVE  live[c].value.version <= live'[c].value.version
    <3>1. live' = live
      BY <2>12 DEF StateChanges, DebouncedSave, TimerFires, Flush, Save, Delete, storeVars
    <3> QED BY <2>5, <3>1
  <2> QED BY <1>1, <2>6, <2>7, <2>8, <2>9, <2>10, <2>11, <2>12, Zenon DEF Next
<1>2. ASSUME Types, Owned, [Next]_vars PROVE [Advances]_vars
  BY <1>1, <1>2
<1>3. (Types /\ Owned) /\ [Next]_vars => [Advances]_vars
  BY <1>2
<1>4. Spec => [][Next]_vars
  BY PTL DEF Spec
<1>5. Spec => [][Advances]_vars
  BY <1>3, <1>4, OwnedAlways, PTL
<1> QED BY <1>5 DEF StoreNeverRegresses

===============================================================================
