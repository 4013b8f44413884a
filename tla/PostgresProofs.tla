--------------------------- MODULE PostgresProofs ---------------------------
(***************************************************************************)
(* Proofs about the PostgreSQL storage adapter. Its write path, for every  *)
(* batch size, buffer limit and number of flushes: no event is lost,       *)
(* doubled or left uncounted, events are inserted in the order of their    *)
(* acceptance, and close() drains. Its compaction, for all bucket sizes,   *)
(* windows and retentions: rows never count an event twice, nothing goes   *)
(* before its retention ends, and an undisturbed run leaves the rows that  *)
(* the in-memory adapter has.                                              *)
(***************************************************************************)
EXTENDS WritePipeline, Compaction, FiniteSetTheorems, SequenceTheorems, TLAPS

Types ==
    /\ healthy \in BOOLEAN /\ flushing \in BOOLEAN /\ timer \in BOOLEAN
    /\ buffer \in Seq(Nat) /\ inserted \in Seq(Nat) /\ lost \subseteq Nat
    /\ dropped \in Nat /\ accepted \in Nat
    /\ flushes \in [Flushes -> [at : {"idle", "init", "insert"}, batch : Seq(Nat)]]
    /\ init \in {"none", "importing", "connecting", "ready", "failed"}
    /\ pool \in {"none", "open", "ended"}
    /\ closing \in {"open", "flushing", "draining", "closed"}

Ascending(s) == \A m, n \in 1 .. Len(s) : m < n => s[m] < s[n]

\* The events of the two sequences, those of the first before those of the second.
Before(s, t) == \A e \in ToSet(s), b \in ToSet(t) : e < b

Held == ToSet(buffer) \cup InFlight \cup ToSet(inserted) \cup lost

\* A flush has a batch only while it inserts it; what is queued is in order, and the
\* events held anywhere are accepted ones.
Conserved ==
    /\ EventsConserved
    /\ \A f \in Flushes : flushes[f].at # "insert" => flushes[f].batch = <<>>
    /\ Ascending(buffer)
    /\ \A f \in Flushes : Ascending(flushes[f].batch)
    /\ Held \subseteq 1 .. accepted

-----------------------------------------------------------------------------
(* Sequences of events. *)

\* ToSet is the set of the elements.
LEMMA Elements ==
  ASSUME NEW s \in Seq(Nat)
  PROVE  /\ Len(s) \in Nat /\ DOMAIN s = 1 .. Len(s)
         /\ \A e : e \in ToSet(s) <=> \E k \in 1 .. Len(s) : e = s[k]
         /\ \A k \in 1 .. Len(s) : s[k] \in Nat /\ s[k] \in ToSet(s)
         /\ ToSet(s) \subseteq Nat
<1>1. Len(s) \in Nat /\ DOMAIN s = 1 .. Len(s) /\ \A k \in 1 .. Len(s) : s[k] \in Nat
  BY LenProperties, ElementOfSeq
<1> QED BY <1>1 DEF ToSet

\* Nothing is in the empty sequence.
LEMMA EmptyElements == ToSet(<<>>) = {} /\ Ascending(<<>>) /\ IsInjective(<<>>)
<1>1. <<>> \in Seq(Nat) /\ Len(<<>>) = 0
  BY EmptySeq
<1>2. 1 .. Len(<<>>) = {} /\ DOMAIN <<>> = {}
  BY <1>1, Elements
<1>3. ToSet(<<>>) = {}
  BY <1>2, Zenon DEF ToSet
<1> QED BY <1>2, <1>3 DEF Ascending, IsInjective

\* An ascending sequence repeats nothing.
LEMMA AscendingInjective ==
  ASSUME NEW s \in Seq(Nat), Ascending(s)
  PROVE  IsInjective(s)
BY Elements DEF Ascending, IsInjective

\* The events of a concatenation.
LEMMA ConcatElements ==
  ASSUME NEW s \in Seq(Nat), NEW t \in Seq(Nat)
  PROVE  /\ s \o t \in Seq(Nat)
         /\ ToSet(s \o t) = ToSet(s) \cup ToSet(t)
         /\ IsInjective(s) /\ IsInjective(t) /\ ToSet(s) \cap ToSet(t) = {} => IsInjective(s \o t)
         /\ Ascending(s) /\ Ascending(t) /\ Before(s, t) => Ascending(s \o t)
<1> DEFINE u == s \o t
<1>1. /\ u \in Seq(Nat) /\ Len(u) = Len(s) + Len(t)
      /\ \A i \in 1 .. Len(s) + Len(t) : u[i] = IF i <= Len(s) THEN s[i] ELSE t[i - Len(s)]
  BY ConcatProperties
<1> HIDE DEF u
<1>n. Len(s) \in Nat /\ Len(t) \in Nat
  BY Elements
<1>2. \A i \in 1 .. Len(s) : i \in 1 .. Len(u) /\ u[i] = s[i]
  BY <1>1, <1>n
<1>3. ASSUME NEW i \in 1 .. Len(t)
      PROVE  i + Len(s) \in 1 .. Len(u) /\ u[i + Len(s)] = t[i]
  <2>1. /\ i + Len(s) \in 1 .. Len(s) + Len(t) /\ ~(i + Len(s) <= Len(s))
        /\ (i + Len(s)) - Len(s) = i
    BY <1>n
  <2> QED BY <1>1, <2>1
<1>4. \A i \in 1 .. Len(u) : \/ i \in 1 .. Len(s) /\ u[i] = s[i]
                             \/ i - Len(s) \in 1 .. Len(t) /\ u[i] = t[i - Len(s)] /\ i > Len(s)
  BY <1>1, <1>n
<1>e. /\ \A e : e \in ToSet(s) <=> \E k \in 1 .. Len(s) : e = s[k]
      /\ \A e : e \in ToSet(t) <=> \E k \in 1 .. Len(t) : e = t[k]
      /\ \A e : e \in ToSet(u) <=> \E k \in 1 .. Len(u) : e = u[k]
      /\ DOMAIN s = 1 .. Len(s) /\ DOMAIN t = 1 .. Len(t) /\ DOMAIN u = 1 .. Len(u)
  BY <1>1, Elements
<1>5. ToSet(u) = ToSet(s) \cup ToSet(t)
  <2>1. ASSUME NEW e \in ToSet(s) PROVE e \in ToSet(u)
    BY <1>1, <1>2, <1>e
  <2>2. ASSUME NEW e \in ToSet(t) PROVE e \in ToSet(u)
    <3>1. PICK i \in 1 .. Len(t) : e = t[i]
      BY <1>e
    <3>2. i + Len(s) \in 1 .. Len(u) /\ u[i + Len(s)] = e
      BY <1>3, <3>1
    <3> QED BY <1>e, <3>2
  <2>3. ASSUME NEW e \in ToSet(u) PROVE e \in ToSet(s) \cup ToSet(t)
    <3>1. PICK i \in 1 .. Len(u) : e = u[i]
      BY <1>e
    <3>2. \/ i \in 1 .. Len(s) /\ u[i] = s[i]
          \/ i - Len(s) \in 1 .. Len(t) /\ u[i] = t[i - Len(s)]
      BY <1>4
    <3> QED BY <1>e, <3>1, <3>2
  <2> QED BY <2>1, <2>2, <2>3
<1>6. ASSUME IsInjective(s), IsInjective(t), ToSet(s) \cap ToSet(t) = {}
      PROVE  IsInjective(u)
  <2>1. SUFFICES ASSUME NEW i \in 1 .. Len(u), NEW j \in 1 .. Len(u), u[i] = u[j]
                 PROVE  i = j
    BY <1>e DEF IsInjective
  <2>2. /\ i \in 1 .. Len(s) => u[i] \in ToSet(s)
        /\ j \in 1 .. Len(s) => u[j] \in ToSet(s)
        /\ i - Len(s) \in 1 .. Len(t) /\ u[i] = t[i - Len(s)] => u[i] \in ToSet(t)
        /\ j - Len(s) \in 1 .. Len(t) /\ u[j] = t[j - Len(s)] => u[j] \in ToSet(t)
    BY <1>2, <1>e
  <2>3. CASE i \in 1 .. Len(s) /\ u[i] = s[i]
    <3>1. j \in 1 .. Len(s) /\ u[j] = s[j]
      BY <1>4, <1>6, <2>1, <2>2, <2>3
    <3> QED BY <1>6, <2>1, <2>3, <3>1, <1>e DEF IsInjective
  <2>4. CASE i - Len(s) \in 1 .. Len(t) /\ u[i] = t[i - Len(s)]
    <3>1. j - Len(s) \in 1 .. Len(t) /\ u[j] = t[j - Len(s)]
      BY <1>4, <1>6, <2>1, <2>2, <2>4
    <3>2. i - Len(s) = j - Len(s)
      BY <1>6, <2>1, <2>4, <3>1, <1>e DEF IsInjective
    <3> QED BY <1>n, <3>2
  <2> QED BY <1>4, <2>3, <2>4
<1>7. ASSUME Ascending(s), Ascending(t), Before(s, t)
      PROVE  Ascending(u)
  <2>1. SUFFICES ASSUME NEW i \in 1 .. Len(u), NEW j \in 1 .. Len(u), i < j
                 PROVE  u[i] < u[j]
    BY DEF Ascending
  <2>2. CASE i \in 1 .. Len(s) /\ j \in 1 .. Len(s)
    BY <1>2, <1>7, <2>1, <2>2 DEF Ascending
  <2>3. CASE i \in 1 .. Len(s) /\ j - Len(s) \in 1 .. Len(t) /\ u[j] = t[j - Len(s)]
    BY <1>2, <1>7, <2>3, <1>e DEF Before
  <2>4. CASE /\ i - Len(s) \in 1 .. Len(t) /\ u[i] = t[i - Len(s)]
             /\ j - Len(s) \in 1 .. Len(t) /\ u[j] = t[j - Len(s)]
    <3>1. i - Len(s) < j - Len(s)
      BY <1>1, <1>n, <2>1
    <3> QED BY <1>7, <2>4, <3>1 DEF Ascending
  <2> QED BY <1>1, <1>4, <1>n, <2>1, <2>2, <2>3, <2>4
<1> QED BY <1>1, <1>5, <1>6, <1>7 DEF u

\* A sequence cut in two.
LEMMA CutElements ==
  ASSUME NEW s \in Seq(Nat), Ascending(s), NEW m \in 0 .. Len(s)
  PROVE  LET front == SubSeq(s, 1, m)
             back == SubSeq(s, m + 1, Len(s))
         IN  /\ front \in Seq(Nat) /\ back \in Seq(Nat)
             /\ Len(front) = m /\ Len(back) = Len(s) - m
             /\ ToSet(s) = ToSet(front) \cup ToSet(back)
             /\ Ascending(front) /\ Ascending(back) /\ Before(front, back)
<1> DEFINE front == SubSeq(s, 1, m)
           back == SubSeq(s, m + 1, Len(s))
<1>n. Len(s) \in Nat /\ m \in Nat /\ m <= Len(s)
  BY Elements
<1>1. front \in Seq(Nat) /\ Len(front) = m /\ \A i \in 1 .. m : front[i] = s[i]
  <2>1. \A i \in 1 .. m : s[i] \in Nat
    BY <1>n, Elements
  <2>2. /\ front \in Seq(Nat)
        /\ Len(front) = IF 1 <= m THEN m - 1 + 1 ELSE 0
        /\ \A i \in 1 .. m - 1 + 1 : front[i] = s[1 + i - 1]
    BY <1>n, <2>1, SubSeqProperties
  <2> QED BY <1>n, <2>2
<1>2. back \in Seq(Nat) /\ Len(back) = Len(s) - m /\ \A i \in 1 .. Len(s) - m : back[i] = s[m + i]
  <2>1. \A i \in m + 1 .. Len(s) : s[i] \in Nat
    BY <1>n, Elements
  <2>2. m + 1 \in Int /\ Len(s) \in Int
    BY <1>n
  <2>3. /\ back \in Seq(Nat)
        /\ Len(back) = IF m + 1 <= Len(s) THEN Len(s) - (m + 1) + 1 ELSE 0
        /\ \A i \in 1 .. Len(s) - (m + 1) + 1 : back[i] = s[m + 1 + i - 1]
    BY <2>1, <2>2, SubSeqProperties
  <2> QED BY <1>n, <2>3
<1> HIDE DEF front, back
<1>e. /\ \A e : e \in ToSet(s) <=> \E k \in 1 .. Len(s) : e = s[k]
      /\ \A e : e \in ToSet(front) <=> \E k \in 1 .. m : e = front[k]
      /\ \A e : e \in ToSet(back) <=> \E k \in 1 .. Len(s) - m : e = back[k]
  <2>1. DOMAIN s = 1 .. Len(s) /\ DOMAIN front = 1 .. m /\ DOMAIN back = 1 .. Len(s) - m
    BY <1>1, <1>2, Elements
  <2> QED BY <2>1 DEF ToSet
<1>3. ToSet(s) = ToSet(front) \cup ToSet(back)
  <2>1. ASSUME NEW e \in ToSet(front) PROVE e \in ToSet(s)
    BY <1>1, <1>n, <1>e
  <2>2. ASSUME NEW e \in ToSet(back) PROVE e \in ToSet(s)
    <3>1. PICK k \in 1 .. Len(s) - m : e = back[k]
      BY <1>e
    <3>2. e = s[m + k] /\ m + k \in 1 .. Len(s)
      BY <1>2, <1>n, <3>1
    <3> QED BY <1>e, <3>2
  <2>3. ASSUME NEW e \in ToSet(s) PROVE e \in ToSet(front) \cup ToSet(back)
    <3>1. PICK k \in 1 .. Len(s) : e = s[k]
      BY <1>e
    <3>2. CASE k <= m
      BY <1>1, <1>n, <3>1, <3>2, <1>e
    <3>3. CASE k > m
      <4>1. k - m \in 1 .. Len(back) /\ back[k - m] = s[k]
        BY <1>2, <1>n, <3>1, <3>3
      <4> QED BY <1>2, <3>1, <4>1, <1>e
    <3> QED BY <1>n, <3>2, <3>3
  <2> QED BY <2>1, <2>2, <2>3
<1>4. Ascending(front) /\ Ascending(back)
  <2>1. ASSUME NEW i \in 1 .. m, NEW j \in 1 .. m, i < j
        PROVE  front[i] < front[j]
    <3>1. i \in 1 .. Len(s) /\ j \in 1 .. Len(s)
      BY <1>n
    <3>2. s[i] < s[j]
      BY <2>1, <3>1 DEF Ascending
    <3> QED BY <1>1, <3>2
  <2>2. ASSUME NEW i \in 1 .. Len(s) - m, NEW j \in 1 .. Len(s) - m, i < j
        PROVE  back[i] < back[j]
    <3>1. m + i \in 1 .. Len(s) /\ m + j \in 1 .. Len(s) /\ m + i < m + j
      BY <1>n, <2>2
    <3>2. s[m + i] < s[m + j]
      BY <3>1 DEF Ascending
    <3> QED BY <1>2, <3>2
  <2> QED BY <1>1, <1>2, <2>1, <2>2 DEF Ascending
<1>5. Before(front, back)
  <2>1. SUFFICES ASSUME NEW e \in ToSet(front), NEW b \in ToSet(back) PROVE e < b
    BY DEF Before
  <2>2. PICK i \in 1 .. m : e = front[i]
    BY <1>e
  <2>3. PICK j \in 1 .. Len(s) - m : b = back[j]
    BY <1>e
  <2>4. i \in 1 .. Len(s) /\ m + j \in 1 .. Len(s) /\ i < m + j
    BY <1>n
  <2>5. s[i] < s[m + j]
    BY <2>4 DEF Ascending
  <2> QED BY <1>1, <1>2, <2>2, <2>3, <2>5
<1> QED BY <1>1, <1>2, <1>3, <1>4, <1>5 DEF front, back

\* An injective sequence has as many elements as places.
LEMMA CountElements ==
  ASSUME NEW s \in Seq(Nat), IsInjective(s)
  PROVE  IsFiniteSet(ToSet(s)) /\ Cardinality(ToSet(s)) = Len(s)
<1>1. Len(s) \in Nat /\ DOMAIN s = 1 .. Len(s) /\ s \in [1 .. Len(s) -> Nat]
  BY LenProperties
<1>2. s \in Bijection(1 .. Len(s), ToSet(s))
  BY <1>1, Elements DEF IsInjective, Bijection, Injection, Surjection
<1>3. IsFiniteSet(1 .. Len(s)) /\ Cardinality(1 .. Len(s)) = Len(s)
  <2>1. 1 \in Int /\ Len(s) \in Int
    BY <1>1
  <2>2. /\ IsFiniteSet(1 .. Len(s))
        /\ Cardinality(1 .. Len(s)) = IF 1 > Len(s) THEN 0 ELSE Len(s) - 1 + 1
    BY <2>1, FS_Interval, Zenon
  <2> QED BY <1>1, <2>2
<1> QED BY <1>2, <1>3, FS_Bijection DEF ExistsBijection

-----------------------------------------------------------------------------
(* Types. *)

\* The batch of a flush, as a set.
LEMMA FlushTypes ==
  ASSUME Types, NEW f \in Flushes
  PROVE  /\ flushes[f].at \in {"idle", "init", "insert"} /\ flushes[f].batch \in Seq(Nat)
         /\ flushes[f] = [at |-> flushes[f].at, batch |-> flushes[f].batch]
BY DEF Types

\* A new entry keeps the type of the calls, and is the only change.
LEMMA NewFlush ==
  ASSUME Types, NEW f \in Flushes,
         NEW at \in {"idle", "init", "insert"}, NEW batch \in Seq(Nat),
         flushes' = [flushes EXCEPT ![f] = [at |-> at, batch |-> batch]]
  PROVE  /\ flushes' \in [Flushes -> [at : {"idle", "init", "insert"}, batch : Seq(Nat)]]
         /\ flushes'[f].at = at /\ flushes'[f].batch = batch
         /\ \A g \in Flushes : g # f => flushes'[g] = flushes[g]
BY DEF Types

\* Waiting for the initialisation changes no batch.
LEMMA FlushWaits ==
  ASSUME Types, NEW f \in Flushes, flushes' = [flushes EXCEPT ![f].at = "init"]
  PROVE  /\ flushes' \in [Flushes -> [at : {"idle", "init", "insert"}, batch : Seq(Nat)]]
         /\ flushes'[f].at = "init"
         /\ \A g \in Flushes : flushes'[g].batch = flushes[g].batch
         /\ \A g \in Flushes : g # f => flushes'[g] = flushes[g]
BY DEF Types

\* The batch taken from the buffer is its front, and what stays is the rest.
LEMMA TakeBatch ==
  ASSUME Types, Ascending(buffer), buffer # <<>>
  PROVE  LET first == FirstBatch(buffer)
             rest == Rest(buffer)
         IN  /\ first \in Seq(Nat) /\ rest \in Seq(Nat)
             /\ first # <<>> /\ Len(rest) <= Len(buffer) /\ Len(rest) \in Nat
             /\ ToSet(buffer) = ToSet(first) \cup ToSet(rest)
             /\ Ascending(first) /\ Ascending(rest) /\ Before(first, rest)
<1> DEFINE n == Len(buffer)
           m == Min({BatchSize, n})
<1>1. n \in Nat \ {0} /\ BatchSize \in Nat \ {0} /\ buffer \in Seq(Nat)
  BY EmptySeq, PipelineAssumption DEF Types
<1>2. m \in {BatchSize, n} /\ m <= BatchSize /\ m <= n
  <2>1. \E x \in {BatchSize, n} : \A y \in {BatchSize, n} : x =< y
    BY <1>1
  <2>2. m \in {BatchSize, n} /\ \A y \in {BatchSize, n} : m =< y
    BY <2>1 DEF Min
  <2> QED BY <2>2
<1>3. m \in 1 .. n /\ m \in 0 .. n
  BY <1>1, <1>2
<1> HIDE DEF m
<1>4. FirstBatch(buffer) = SubSeq(buffer, 1, m)
  BY DEF FirstBatch, m
<1>5. Rest(buffer) = SubSeq(buffer, m + 1, n)
  <2>1. CASE n > BatchSize
    <3>1. m = BatchSize
      BY <1>1, <1>2, <2>1
    <3> QED BY <2>1, <3>1 DEF Rest
  <2>2. CASE ~(n > BatchSize)
    <3>1. m = n
      BY <1>1, <1>2, <2>2
    <3>2. SubSeq(buffer, n + 1, n) = <<>>
      <4>1. n + 1 \in Int /\ n \in Int /\ n < n + 1
        BY <1>1
      <4> QED BY <4>1, SubSeqEmpty
    <3> QED BY <2>2, <3>1, <3>2 DEF Rest
  <2> QED BY <2>1, <2>2
<1>6. LET front == SubSeq(buffer, 1, m)
          back == SubSeq(buffer, m + 1, n)
      IN  /\ front \in Seq(Nat) /\ back \in Seq(Nat)
          /\ Len(front) = m /\ Len(back) = n - m
          /\ ToSet(buffer) = ToSet(front) \cup ToSet(back)
          /\ Ascending(front) /\ Ascending(back) /\ Before(front, back)
  BY <1>1, <1>3, CutElements
<1>7. FirstBatch(buffer) # <<>>
  BY <1>1, <1>3, <1>4, <1>6, EmptySeq
<1>8. Len(Rest(buffer)) <= n /\ Len(Rest(buffer)) \in Nat
  <2>1. Len(Rest(buffer)) = n - m
    BY <1>5, <1>6
  <2> QED BY <1>1, <1>3, <2>1
<1> QED BY <1>4, <1>5, <1>6, <1>7, <1>8

-----------------------------------------------------------------------------
(* No event is in two places. *)

OnePlace ==
    /\ \A f, g \in Flushes : f # g => ToSet(flushes[f].batch) \cap ToSet(flushes[g].batch) = {}
    /\ ToSet(buffer) \cap InFlight = {}
    /\ (ToSet(buffer) \cup InFlight) \cap ToSet(inserted) = {}
    /\ (ToSet(buffer) \cup InFlight \cup ToSet(inserted)) \cap lost = {}

\* Conserved from its parts: an ascending sequence repeats nothing.
LEMMA ConservedParts ==
  ASSUME Types
  PROVE  Conserved <=>
           /\ OnePlace /\ IsInjective(inserted)
           /\ Cardinality(Held) + dropped = accepted /\ Len(buffer) <= MaxBufferSize
           /\ \A f \in Flushes : flushes[f].at # "insert" => flushes[f].batch = <<>>
           /\ Ascending(buffer) /\ \A f \in Flushes : Ascending(flushes[f].batch)
           /\ Held \subseteq 1 .. accepted
<1>1. Ascending(buffer) => IsInjective(buffer)
  BY AscendingInjective DEF Types
<1>2. \A f \in Flushes : Ascending(flushes[f].batch) => IsInjective(flushes[f].batch)
  BY AscendingInjective, FlushTypes
<1>3. (\A s \in {buffer, inserted} \cup {flushes[f].batch : f \in Flushes} : IsInjective(s))
        <=> /\ IsInjective(buffer) /\ IsInjective(inserted)
            /\ \A f \in Flushes : IsInjective(flushes[f].batch)
  OBVIOUS
<1> QED BY <1>1, <1>2, <1>3 DEF Conserved, EventsConserved, OnePlace, Held

LEMMA ConservedPartsNext ==
  ASSUME Types'
  PROVE  Conserved' <=>
           /\ OnePlace' /\ IsInjective(inserted')
           /\ Cardinality(Held') + dropped' = accepted' /\ Len(buffer') <= MaxBufferSize
           /\ \A f \in Flushes : flushes'[f].at # "insert" => flushes'[f].batch = <<>>
           /\ Ascending(buffer') /\ \A f \in Flushes : Ascending(flushes'[f].batch)
           /\ Held' \subseteq 1 .. accepted'
<1>0. buffer' \in Seq(Nat) /\ \A f \in Flushes : flushes'[f].batch \in Seq(Nat)
  BY DEF Types
<1>1. Ascending(buffer') => IsInjective(buffer')
  BY <1>0, AscendingInjective
<1>2. \A f \in Flushes : Ascending(flushes'[f].batch) => IsInjective(flushes'[f].batch)
  BY <1>0, AscendingInjective
<1>3. (\A s \in {buffer', inserted'} \cup {flushes'[f].batch : f \in Flushes} : IsInjective(s))
        <=> /\ IsInjective(buffer') /\ IsInjective(inserted')
            /\ \A f \in Flushes : IsInjective(flushes'[f].batch)
  OBVIOUS
<1> QED BY <1>1, <1>2, <1>3 DEF Conserved, EventsConserved, OnePlace, Held

\* Who is in flight.
LEMMA Flying ==
  /\ \A e : e \in InFlight <=> \E g \in Flushes : e \in ToSet(flushes[g].batch)
  /\ \A e : e \in InFlight' <=> \E g \in Flushes : e \in ToSet(flushes'[g].batch)
BY Zenon DEF InFlight

\* Events that leave the buffer for a batch or the lost ones, and a batch that goes to
\* the table or to the lost ones, stay in one place each.
LEMMA Moved ==
  ASSUME OnePlace, NEW f \in Flushes, NEW taken, NEW gone, NEW put, NEW failed,
         \A g \in Flushes : g # f => flushes'[g] = flushes[g],
         ToSet(flushes'[f].batch) = taken,
         ToSet(buffer) = ToSet(buffer') \cup taken \cup gone,
         ToSet(buffer') \cap taken = {}, ToSet(buffer') \cap gone = {}, taken \cap gone = {},
         ToSet(flushes[f].batch) = put \cup failed, put \cap failed = {},
         ToSet(inserted') = ToSet(inserted) \cup put,
         lost' = lost \cup failed \cup gone
  PROVE  OnePlace' /\ Held' = Held
<1> DEFINE B(g) == ToSet(flushes[g].batch)
           C(g) == ToSet(flushes'[g].batch)
           Buf == ToSet(buffer)
           BufN == ToSet(buffer')
           Ins == ToSet(inserted)
           InsN == ToSet(inserted')
<1>1. \A e : e \in InFlight <=> \E g \in Flushes : e \in B(g)
  BY Flying
<1>2. \A e : e \in InFlight' <=> \E g \in Flushes : e \in C(g)
  BY Flying
<1>3. \A g \in Flushes : g # f => C(g) = B(g)
  OBVIOUS
<1>4. /\ \A g, h \in Flushes : g # h => B(g) \cap B(h) = {}
      /\ Buf \cap InFlight = {} /\ (Buf \cup InFlight) \cap Ins = {}
      /\ (Buf \cup InFlight \cup Ins) \cap lost = {}
  BY DEF OnePlace
<1>5. /\ C(f) = taken /\ Buf = BufN \cup taken \cup gone
      /\ B(f) = put \cup failed /\ InsN = Ins \cup put
  OBVIOUS
<1>p. /\ \A e : e \in Buf <=> e \in BufN \/ e \in taken \/ e \in gone
      /\ \A e : ~(e \in BufN /\ e \in taken) /\ ~(e \in BufN /\ e \in gone) /\ ~(e \in taken /\ e \in gone)
      /\ \A e : e \in B(f) <=> e \in put \/ e \in failed
      /\ \A e : ~(e \in put /\ e \in failed)
      /\ \A e : e \in InsN <=> e \in Ins \/ e \in put
      /\ \A e : e \in lost' <=> e \in lost \/ e \in failed \/ e \in gone
      /\ \A e : ~(e \in Buf /\ e \in InFlight) /\ ~(e \in Buf /\ e \in Ins) /\ ~(e \in InFlight /\ e \in Ins)
      /\ \A e : ~(e \in Buf /\ e \in lost) /\ ~(e \in InFlight /\ e \in lost) /\ ~(e \in Ins /\ e \in lost)
  BY <1>4, <1>5
<1> HIDE DEF B, C, Buf, BufN, Ins, InsN
<1>6. \A e : e \in InFlight' <=> e \in taken \/ (e \in InFlight /\ e \notin B(f))
  <2>1. ASSUME NEW e, e \in InFlight' PROVE e \in taken \/ (e \in InFlight /\ e \notin B(f))
    <3>1. PICK g \in Flushes : e \in C(g)
      BY <1>2, <2>1
    <3>2. CASE g = f
      BY <1>5, <3>1, <3>2
    <3>3. CASE g # f
      BY <1>1, <1>3, <1>4, <3>1, <3>3
    <3> QED BY <3>2, <3>3
  <2>2. ASSUME NEW e, e \in taken PROVE e \in InFlight'
    BY <1>2, <1>5, <2>2
  <2>3. ASSUME NEW e, e \in InFlight, e \notin B(f) PROVE e \in InFlight'
    <3>1. PICK g \in Flushes : e \in B(g)
      BY <1>1, <2>3
    <3> QED BY <1>2, <1>3, <2>3, <3>1
  <2> QED BY <2>1, <2>2, <2>3
<1>7. B(f) \subseteq InFlight
  BY <1>1
<1>8. ASSUME NEW g \in Flushes, NEW h \in Flushes, g # h
      PROVE  C(g) \cap C(h) = {}
  <2>1. \A i \in Flushes : i # f => taken \cap B(i) = {}
    BY <1>1, <1>4, <1>5
  <2>2. CASE g # f /\ h # f
    BY <1>3, <1>4, <1>8, <2>2
  <2>3. CASE g = f
    BY <1>3, <1>5, <1>8, <2>1, <2>3
  <2>4. CASE h = f
    BY <1>3, <1>5, <1>8, <2>1, <2>4
  <2> QED BY <2>2, <2>3, <2>4
<1>9. /\ BufN \cap InFlight' = {} /\ (BufN \cup InFlight') \cap InsN = {}
      /\ (BufN \cup InFlight' \cup InsN) \cap lost' = {}
      /\ BufN \cup InFlight' \cup InsN \cup lost' = Buf \cup InFlight \cup Ins \cup lost
  <2>1. \A e : e \in B(f) => e \in InFlight
    BY <1>7
  <2>2. \A e : /\ ~(e \in BufN /\ e \in InFlight')
               /\ ~(e \in BufN /\ e \in InsN) /\ ~(e \in InFlight' /\ e \in InsN)
               /\ ~(e \in BufN /\ e \in lost') /\ ~(e \in InFlight' /\ e \in lost')
               /\ ~(e \in InsN /\ e \in lost')
               /\ (e \in BufN \/ e \in InFlight' \/ e \in InsN \/ e \in lost')
                     <=> (e \in Buf \/ e \in InFlight \/ e \in Ins \/ e \in lost)
    <3>1. TAKE e
    <3>2. e \in InFlight' <=> e \in taken \/ (e \in InFlight /\ e \notin B(f))
      BY <1>6
    <3>3. e \in B(f) => e \in InFlight
      BY <2>1
    <3> QED BY <1>p, <3>2, <3>3
  <2> QED BY <2>2
<1>10. OnePlace'
  BY <1>8, <1>9 DEF OnePlace, C, BufN, InsN
<1>11. Held' = Held
  BY <1>9 DEF Held, Buf, BufN, Ins, InsN
<1> QED BY <1>10, <1>11

\* Batches and buffer as before.
LEMMA Unmoved ==
  ASSUME OnePlace, \A g \in Flushes : flushes'[g].batch = flushes[g].batch,
         UNCHANGED <<buffer, inserted, lost>>
  PROVE  OnePlace' /\ Held' = Held
<1>1. InFlight' = InFlight
  BY Flying
<1> QED BY <1>1 DEF OnePlace, Held

-----------------------------------------------------------------------------
(* The loop of a flush. *)

\* Typed sequences without repetition put one after the other.
LEMMA StoredOnce ==
  ASSUME Types, Conserved, NEW f \in Flushes
  PROVE  /\ inserted \o flushes[f].batch \in Seq(Nat)
         /\ ToSet(inserted \o flushes[f].batch) = ToSet(inserted) \cup ToSet(flushes[f].batch)
         /\ IsInjective(inserted \o flushes[f].batch)
<1>1. inserted \in Seq(Nat) /\ flushes[f].batch \in Seq(Nat)
  BY FlushTypes DEF Types
<1>2. IsInjective(inserted) /\ Ascending(flushes[f].batch) /\ OnePlace
  BY ConservedParts
<1>3. IsInjective(flushes[f].batch)
  BY <1>1, <1>2, AscendingInjective
<1>4. ToSet(inserted) \cap ToSet(flushes[f].batch) = {}
  BY <1>2, Flying DEF OnePlace
<1> QED BY <1>1, <1>2, <1>3, <1>4, ConcatElements

\* What Loops does to the batches and the buffer: a batch of the oldest events goes into
\* the insert, or is lost because the pool is gone.
LEMMA LoopsEffect ==
  ASSUME Types, Conserved, NEW f \in Flushes, Loops(f)
  PROVE  /\ flushes' \in [Flushes -> [at : {"idle", "init", "insert"}, batch : Seq(Nat)]]
         /\ flushing' \in BOOLEAN /\ buffer' \in Seq(Nat)
         /\ \A g \in Flushes : g # f => flushes'[g] = flushes[g]
         /\ flushes'[f].at # "insert" => flushes'[f].batch = <<>>
         /\ Ascending(buffer') /\ Ascending(flushes'[f].batch)
         /\ Len(buffer') <= Len(buffer) /\ Len(buffer') \in Nat
         /\ \E gone \in SUBSET Nat :
               /\ ToSet(buffer) = ToSet(buffer') \cup ToSet(flushes'[f].batch) \cup gone
               /\ ToSet(buffer') \cap ToSet(flushes'[f].batch) = {} /\ ToSet(buffer') \cap gone = {}
               /\ ToSet(flushes'[f].batch) \cap gone = {}
               /\ lost' = lost \cup gone
               /\ pool = "open" \/ buffer = <<>> => gone = {}
         /\ Before(flushes'[f].batch, buffer')
         /\ \A e \in ToSet(buffer') \cup ToSet(flushes'[f].batch) : e \in ToSet(buffer)
<1>1. buffer \in Seq(Nat) /\ flushing \in BOOLEAN /\ Ascending(buffer) /\ Len(buffer) \in Nat
  BY LenProperties DEF Types, Conserved
<1>2. <<>> \in Seq(Nat) /\ ToSet(<<>>) = {} /\ Ascending(<<>>)
  BY EmptySeq, EmptyElements
<1>3. CASE buffer = <<>>
  <2>1. flushes' = [flushes EXCEPT ![f] = [at |-> "idle", batch |-> <<>>]] /\ flushing' = FALSE
        /\ buffer' = buffer /\ lost' = lost
    BY <1>3 DEF Loops, Idle
  <2>2. /\ flushes' \in [Flushes -> [at : {"idle", "init", "insert"}, batch : Seq(Nat)]]
        /\ flushes'[f].batch = <<>>
        /\ \A g \in Flushes : g # f => flushes'[g] = flushes[g]
    BY <1>2, <2>1, NewFlush
  <2>3. /\ ToSet(buffer) = ToSet(buffer') \cup ToSet(flushes'[f].batch) \cup {}
        /\ ToSet(buffer') \cap ToSet(flushes'[f].batch) = {} /\ ToSet(buffer') \cap {} = {}
        /\ ToSet(flushes'[f].batch) \cap {} = {}
        /\ lost' = lost \cup {} /\ {} \in SUBSET Nat
    BY <1>2, <2>1, <2>2
  <2>4. Before(flushes'[f].batch, buffer')
    BY <1>2, <2>2 DEF Before
  <2>5. /\ flushing' \in BOOLEAN /\ buffer' \in Seq(Nat)
        /\ Ascending(buffer') /\ Ascending(flushes'[f].batch)
        /\ Len(buffer') <= Len(buffer) /\ Len(buffer') \in Nat
    <3>1. flushing' \in BOOLEAN /\ buffer' \in Seq(Nat) /\ Ascending(buffer')
      BY <1>1, <2>1
    <3>2. Ascending(flushes'[f].batch)
      BY <1>2, <2>2
    <3>3. Len(buffer') = Len(buffer)
      BY <2>1
    <3> QED BY <1>1, <3>1, <3>2, <3>3
  <2>6. \A e \in ToSet(buffer') \cup ToSet(flushes'[f].batch) : e \in ToSet(buffer)
    BY <2>3
  <2>7. \E gone \in SUBSET Nat :
             /\ ToSet(buffer) = ToSet(buffer') \cup ToSet(flushes'[f].batch) \cup gone
             /\ ToSet(buffer') \cap ToSet(flushes'[f].batch) = {} /\ ToSet(buffer') \cap gone = {}
             /\ ToSet(flushes'[f].batch) \cap gone = {}
             /\ lost' = lost \cup gone
             /\ pool = "open" \/ buffer = <<>> => gone = {}
    BY <2>3, Zenon
  <2> QED BY <2>2, <2>4, <2>5, <2>6, <2>7, Zenon
<1>4. CASE buffer # <<>>
  <2> DEFINE first == FirstBatch(buffer)
             rest == Rest(buffer)
  <2>1. /\ first \in Seq(Nat) /\ rest \in Seq(Nat)
        /\ Len(rest) <= Len(buffer) /\ Len(rest) \in Nat
        /\ ToSet(buffer) = ToSet(first) \cup ToSet(rest)
        /\ Ascending(first) /\ Ascending(rest) /\ Before(first, rest)
    BY <1>1, <1>4, TakeBatch
  <2>2. ToSet(first) \cap ToSet(rest) = {} /\ ToSet(first) \subseteq Nat
    <3>1. ASSUME NEW e \in ToSet(first), e \in ToSet(rest) PROVE FALSE
      <4>1. e < e /\ e \in Nat
        BY <2>1, <3>1, Elements DEF Before
      <4> QED BY <4>1
    <3> QED BY <2>1, <3>1, Elements
  <2>3. /\ buffer' = rest
        /\ IF pool = "open"
           THEN /\ flushes' = [flushes EXCEPT ![f] = [at |-> "insert", batch |-> first]]
                /\ flushing' = flushing /\ lost' = lost
           ELSE /\ flushes' = [flushes EXCEPT ![f] = [at |-> "idle", batch |-> <<>>]]
                /\ flushing' = FALSE /\ lost' = lost \cup ToSet(first)
    BY <1>4 DEF Loops, Idle
  <2> HIDE DEF first, rest
  <2>4. CASE pool = "open"
    <3>1. /\ flushes' \in [Flushes -> [at : {"idle", "init", "insert"}, batch : Seq(Nat)]]
          /\ flushes'[f].at = "insert" /\ flushes'[f].batch = first
          /\ \A g \in Flushes : g # f => flushes'[g] = flushes[g]
      BY <2>1, <2>3, <2>4, NewFlush
    <3>2. /\ ToSet(buffer) = ToSet(buffer') \cup ToSet(flushes'[f].batch) \cup {}
          /\ ToSet(buffer') \cap ToSet(flushes'[f].batch) = {} /\ ToSet(buffer') \cap {} = {}
          /\ ToSet(flushes'[f].batch) \cap {} = {}
          /\ lost' = lost \cup {} /\ {} \in SUBSET Nat
      BY <2>1, <2>2, <2>3, <2>4, <3>1
    <3>3. /\ flushing' \in BOOLEAN /\ buffer' \in Seq(Nat)
          /\ Ascending(buffer') /\ Ascending(flushes'[f].batch)
          /\ Len(buffer') <= Len(buffer) /\ Len(buffer') \in Nat
          /\ Before(flushes'[f].batch, buffer')
      BY <1>1, <2>1, <2>3, <2>4, <3>1
    <3>4. \A e \in ToSet(buffer') \cup ToSet(flushes'[f].batch) : e \in ToSet(buffer)
      BY <3>2
    <3>5. \E gone \in SUBSET Nat :
               /\ ToSet(buffer) = ToSet(buffer') \cup ToSet(flushes'[f].batch) \cup gone
               /\ ToSet(buffer') \cap ToSet(flushes'[f].batch) = {} /\ ToSet(buffer') \cap gone = {}
               /\ ToSet(flushes'[f].batch) \cap gone = {}
               /\ lost' = lost \cup gone
               /\ pool = "open" \/ buffer = <<>> => gone = {}
      BY <3>2, Zenon
    <3>6. flushes'[f].at # "insert" => flushes'[f].batch = <<>>
      BY <3>1
    <3> QED BY <3>1, <3>3, <3>4, <3>5, <3>6, Zenon
  <2>5. CASE pool # "open"
    <3>1. /\ flushes' \in [Flushes -> [at : {"idle", "init", "insert"}, batch : Seq(Nat)]]
          /\ flushes'[f].batch = <<>>
          /\ \A g \in Flushes : g # f => flushes'[g] = flushes[g]
      BY <1>2, <2>3, <2>5, NewFlush
    <3>2. /\ ToSet(buffer) = ToSet(buffer') \cup ToSet(flushes'[f].batch) \cup ToSet(first)
          /\ ToSet(buffer') \cap ToSet(flushes'[f].batch) = {} /\ ToSet(buffer') \cap ToSet(first) = {}
          /\ ToSet(flushes'[f].batch) \cap ToSet(first) = {}
          /\ lost' = lost \cup ToSet(first) /\ ToSet(first) \in SUBSET Nat
      BY <1>2, <2>1, <2>2, <2>3, <2>5, <3>1
    <3>3. Before(flushes'[f].batch, buffer')
      BY <1>2, <3>1 DEF Before
    <3> QED BY <1>1, <1>2, <1>4, <2>1, <2>3, <2>5, <3>1, <3>2, <3>3
  <2> QED BY <2>4, <2>5
<1> QED BY <1>3, <1>4

\* A loop keeps the account, with the batch it had in the table.
LEMMA LoopsKeeps ==
  ASSUME Types, Conserved, NEW f \in Flushes, Loops(f),
         inserted' = inserted \o flushes[f].batch,
         UNCHANGED <<healthy, dropped, accepted, lifecycle>>
  PROVE  Types' /\ Conserved'
<1>1. PICK gone \in SUBSET Nat :
        /\ ToSet(buffer) = ToSet(buffer') \cup ToSet(flushes'[f].batch) \cup gone
        /\ ToSet(buffer') \cap ToSet(flushes'[f].batch) = {} /\ ToSet(buffer') \cap gone = {}
        /\ ToSet(flushes'[f].batch) \cap gone = {}
        /\ lost' = lost \cup gone
  BY LoopsEffect
<1>2. /\ flushes' \in [Flushes -> [at : {"idle", "init", "insert"}, batch : Seq(Nat)]]
      /\ flushing' \in BOOLEAN /\ buffer' \in Seq(Nat)
      /\ \A g \in Flushes : g # f => flushes'[g] = flushes[g]
      /\ flushes'[f].at # "insert" => flushes'[f].batch = <<>>
      /\ Ascending(buffer') /\ Ascending(flushes'[f].batch)
      /\ Len(buffer') <= Len(buffer) /\ Len(buffer') \in Nat
  BY LoopsEffect
<1>3. inserted' \in Seq(Nat) /\ IsInjective(inserted')
      /\ ToSet(inserted') = ToSet(inserted) \cup ToSet(flushes[f].batch)
  BY StoredOnce
<1>4. Types'
  BY <1>1, <1>2, <1>3 DEF Types, lifecycle
<1>5. /\ OnePlace /\ Cardinality(Held) + dropped = accepted /\ Len(buffer) <= MaxBufferSize
      /\ \A g \in Flushes : flushes[g].at # "insert" => flushes[g].batch = <<>>
      /\ \A g \in Flushes : Ascending(flushes[g].batch)
      /\ Held \subseteq 1 .. accepted
  BY ConservedParts
<1>6. OnePlace' /\ Held' = Held
  <2> DEFINE taken == ToSet(flushes'[f].batch)
             put == ToSet(flushes[f].batch)
  <2>1. put = put \cup {} /\ put \cap {} = {} /\ lost' = lost \cup {} \cup gone
    BY <1>1
  <2> QED BY <1>1, <1>2, <1>3, <1>5, <2>1, Moved
<1>7. Len(buffer) \in Nat /\ MaxBufferSize \in Nat
  BY LenProperties, PipelineAssumption DEF Types
<1>8. /\ \A g \in Flushes : flushes'[g].at # "insert" => flushes'[g].batch = <<>>
      /\ \A g \in Flushes : Ascending(flushes'[g].batch)
      /\ Len(buffer') <= MaxBufferSize
      /\ Cardinality(Held') + dropped' = accepted' /\ Held' \subseteq 1 .. accepted'
  <2>1. ASSUME NEW g \in Flushes
        PROVE  /\ flushes'[g].at # "insert" => flushes'[g].batch = <<>>
               /\ Ascending(flushes'[g].batch)
    <3>1. CASE g = f
      BY <1>2, <3>1
    <3>2. CASE g # f
      BY <1>2, <1>5, <3>2
    <3> QED BY <3>1, <3>2
  <2>2. Len(buffer') <= MaxBufferSize
    BY <1>2, <1>5, <1>7
  <2>3. Cardinality(Held') + dropped' = accepted' /\ Held' \subseteq 1 .. accepted'
    BY <1>5, <1>6
  <2> QED BY <2>1, <2>2, <2>3
<1> QED BY <1>2, <1>3, <1>4, <1>6, <1>8, ConservedPartsNext

-----------------------------------------------------------------------------
(* The actions keep the account. *)

LEMMA FlushResumesKeeps ==
  ASSUME Types, Conserved, NEW f \in Flushes, FlushResumes(f)
  PROVE  Types' /\ Conserved'
<1>1. inserted \in Seq(Nat) /\ flushes[f].batch = <<>>
  BY DEF FlushResumes, Types, Conserved
<1>2. inserted' = inserted \o flushes[f].batch
  BY <1>1, ConcatEmptySeq DEF FlushResumes
<1>3. CASE Loops(f)
  BY <1>2, <1>3, LoopsKeeps DEF FlushResumes
<1>4. CASE Fails(f) /\ UNCHANGED <<buffer, lost>>
  <2>1. <<>> \in Seq(Nat) /\ flushes' = [flushes EXCEPT ![f] = [at |-> "idle", batch |-> <<>>]]
    BY <1>4, EmptySeq DEF Fails, Idle
  <2>2. /\ flushes' \in [Flushes -> [at : {"idle", "init", "insert"}, batch : Seq(Nat)]]
        /\ flushes'[f].at = "idle" /\ flushes'[f].batch = <<>>
        /\ \A g \in Flushes : g # f => flushes'[g] = flushes[g]
    BY <2>1, NewFlush
  <2>3. Types'
    BY <1>4, <2>2 DEF Types, FlushResumes, Fails, lifecycle
  <2>4. \A g \in Flushes : flushes'[g].batch = flushes[g].batch
    BY <1>1, <2>2
  <2>5. UNCHANGED <<buffer, inserted, lost, accepted, dropped>>
    BY <1>4 DEF FlushResumes
  <2>6. OnePlace' /\ Held' = Held
    BY <2>4, <2>5, ConservedParts, Unmoved
  <2>7. \A g \in Flushes : flushes'[g].at # "insert" => flushes'[g].batch = <<>>
    BY <2>2 DEF Conserved
  <2> QED BY <2>3, <2>4, <2>5, <2>6, <2>7, ConservedParts, ConservedPartsNext
<1> QED BY <1>3, <1>4 DEF FlushResumes

LEMMA InsertSucceedsKeeps ==
  ASSUME Types, Conserved, NEW f \in Flushes, InsertSucceeds(f)
  PROVE  Types' /\ Conserved'
BY LoopsKeeps DEF InsertSucceeds

LEMMA InsertRejectedKeeps ==
  ASSUME Types, Conserved, NEW f \in Flushes, InsertRejected(f)
  PROVE  Types' /\ Conserved'
<1>1. <<>> \in Seq(Nat) /\ flushes' = [flushes EXCEPT ![f] = [at |-> "idle", batch |-> <<>>]]
  BY EmptySeq DEF InsertRejected, Fails, Idle
<1>2. /\ flushes' \in [Flushes -> [at : {"idle", "init", "insert"}, batch : Seq(Nat)]]
      /\ flushes'[f].at = "idle" /\ flushes'[f].batch = <<>>
      /\ \A g \in Flushes : g # f => flushes'[g] = flushes[g]
  BY <1>1, NewFlush
<1>3. UNCHANGED <<healthy, buffer, dropped, lifecycle, accepted, inserted>> /\ flushing' = FALSE
      /\ lost' = lost \cup ToSet(flushes[f].batch)
  BY DEF InsertRejected, Fails
<1>4. ToSet(flushes[f].batch) \subseteq Nat
  BY FlushTypes, Elements
<1>5. Types'
  BY <1>2, <1>3, <1>4 DEF Types, lifecycle
<1>6. OnePlace' /\ Held' = Held
  <2> DEFINE failed == ToSet(flushes[f].batch)
  <2>1. ToSet(flushes'[f].batch) = {}
    BY <1>2, EmptyElements
  <2>2. /\ ToSet(buffer) = ToSet(buffer') \cup {} \cup {} /\ ToSet(buffer') \cap {} = {}
        /\ {} \cap {} = {} /\ failed = {} \cup failed /\ {} \cap failed = {}
        /\ ToSet(inserted') = ToSet(inserted) \cup {}
        /\ lost' = lost \cup failed \cup {}
    BY <1>3
  <2>3. OnePlace
    BY ConservedParts
  <2>4. \A g \in Flushes : g # f => flushes'[g] = flushes[g]
    BY <1>2
  <2> HIDE DEF failed
  <2>5. ToSet(flushes[f].batch) = failed
    BY DEF failed
  <2> QED BY <2>1, <2>2, <2>3, <2>4, <2>5, Moved, Zenon
<1>7. /\ \A g \in Flushes : flushes'[g].at # "insert" => flushes'[g].batch = <<>>
      /\ \A g \in Flushes : Ascending(flushes'[g].batch)
  BY <1>2, EmptyElements DEF Conserved
<1> QED BY <1>3, <1>5, <1>6, <1>7, ConservedParts, ConservedPartsNext

\* Steps that change neither buffer nor batches.
LEMMA StartsKeep ==
  ASSUME Types, Conserved, Types',
         UNCHANGED <<buffer, inserted, lost, accepted, dropped>>,
         \/ flushes' = flushes
         \/ \E f \in Flushes : flushes[f].at # "insert" /\ flushes' = [flushes EXCEPT ![f].at = "init"]
  PROVE  Conserved'
<1>1. /\ \A g \in Flushes : flushes'[g].batch = flushes[g].batch
      /\ \A g \in Flushes : flushes'[g].at # "insert" => flushes[g].at # "insert"
  <2>1. CASE flushes' = flushes
    BY <2>1
  <2>2. CASE flushes' # flushes
    <3>1. PICK f \in Flushes : flushes[f].at # "insert" /\ flushes' = [flushes EXCEPT ![f].at = "init"]
      BY <2>2
    <3> QED BY <3>1, FlushWaits
  <2> QED BY <2>1, <2>2
<1>2. OnePlace' /\ Held' = Held
  BY <1>1, ConservedParts, Unmoved
<1>3. \A g \in Flushes : flushes'[g].at # "insert" => flushes'[g].batch = <<>>
  BY <1>1 DEF Conserved
<1> QED BY <1>1, <1>2, <1>3, ConservedParts, ConservedPartsNext

\* What StartFlush does.
LEMMA StartFlushEffect ==
  ASSUME Types, NEW events, StartFlush(events)
  PROVE  /\ flushing' \in BOOLEAN
         /\ flushes' \in [Flushes -> [at : {"idle", "init", "insert"}, batch : Seq(Nat)]]
         /\ \/ flushes' = flushes /\ flushing' = flushing
            \/ /\ ~flushing /\ flushing'
               /\ \E f \in Flushes \ {FinalFlush} :
                     flushes[f] = Idle /\ flushes' = [flushes EXCEPT ![f].at = "init"]
<1>1. CASE flushing \/ events = <<>>
  BY <1>1 DEF StartFlush, Types
<1>2. CASE ~(flushing \/ events = <<>>)
  <2>1. PICK f \in Flushes \ {FinalFlush} :
          flushes[f] = Idle /\ flushes' = [flushes EXCEPT ![f].at = "init"] /\ flushing' = TRUE
    BY <1>2 DEF StartFlush
  <2>2. flushes' \in [Flushes -> [at : {"idle", "init", "insert"}, batch : Seq(Nat)]]
    BY <2>1, FlushWaits
  <2> QED BY <1>2, <2>1, <2>2
<1> QED BY <1>1, <1>2

LEMMA TimerFiresKeeps ==
  ASSUME Types, Conserved, TimerFires
  PROVE  Types' /\ Conserved'
<1>1. StartFlush(buffer) /\ UNCHANGED <<healthy, buffer, dropped, lifecycle, accepted, inserted, lost>>
  BY DEF TimerFires
<1>2. Types'
  BY <1>1, StartFlushEffect DEF Types, lifecycle
<1>3. \/ flushes' = flushes
      \/ \E f \in Flushes : flushes[f].at # "insert" /\ flushes' = [flushes EXCEPT ![f].at = "init"]
  BY <1>1, StartFlushEffect DEF Idle
<1> QED BY <1>1, <1>2, <1>3, StartsKeep

\* The initialisation and the ends of close() touch no event.
LEMMA LifecycleKeeps ==
  ASSUME Types, Conserved, InitSteps \/ Drain \/ PoolEnded
  PROVE  Types' /\ Conserved'
<1>1. UNCHANGED <<healthy, buffer, dropped, flushing, flushes, accepted, inserted, lost>>
  BY DEF InitSteps, PoolCreated, InitReady, InitRejected, Drain, PoolEnded
<1>2. Types'
  BY <1>1 DEF Types, InitSteps, PoolCreated, InitReady, InitRejected, Drain, PoolEnded
<1> QED BY <1>1, <1>2, StartsKeep

\* close() up to its first await: at most it sends the final flush off.
LEMMA CloseKeeps ==
  ASSUME Types, Conserved, Close, flushes[FinalFlush].at # "insert"
  PROVE  Types' /\ Conserved'
<1>1. UNCHANGED <<healthy, buffer, dropped, init, accepted, inserted, lost>> /\ timer' = FALSE
  BY DEF Close
<1>2. FinalFlush \in Flushes
  BY PipelineAssumption
<1>3. CASE buffer # <<>> /\ pool = "open"
  <2>1. /\ flushes' = [flushes EXCEPT ![FinalFlush].at = "init"]
        /\ flushing' = TRUE /\ closing' = "flushing" /\ pool' = pool
    BY <1>3 DEF Close
  <2>2. flushes' \in [Flushes -> [at : {"idle", "init", "insert"}, batch : Seq(Nat)]]
    BY <1>2, <2>1, FlushWaits
  <2>3. Types'
    BY <1>1, <2>1, <2>2 DEF Types
  <2> QED BY <1>1, <1>2, <2>1, <2>3, StartsKeep
<1>4. CASE ~(buffer # <<>> /\ pool = "open")
  <2>1. /\ flushing' = flushing /\ flushes' = flushes
        /\ closing' = (IF pool = "open" THEN "draining" ELSE "closed")
        /\ pool' = (IF pool = "open" THEN "ended" ELSE pool)
    BY <1>4 DEF Close
  <2>2. Types'
    BY <1>1, <2>1 DEF Types
  <2> QED BY <1>1, <2>1, <2>2, StartsKeep
<1> QED BY <1>3, <1>4

\* The events of one writeBatch() are new, in order and after everything queued.
LEMMA NewEvents ==
  ASSUME Types, Conserved, NEW n \in Nat
  PROVE  LET new == [k \in 1 .. n |-> accepted + k]
         IN  /\ new \in Seq(Nat) /\ Len(new) = n
             /\ Ascending(new) /\ Before(buffer, new)
             /\ ToSet(new) = accepted + 1 .. accepted + n
             /\ buffer \o new \in Seq(Nat) /\ Len(buffer \o new) = Len(buffer) + n
             /\ Ascending(buffer \o new) /\ ToSet(buffer \o new) = ToSet(buffer) \cup ToSet(new)
<1> DEFINE new == [k \in 1 .. n |-> accepted + k]
<1>1. accepted \in Nat /\ buffer \in Seq(Nat) /\ Ascending(buffer) /\ ToSet(buffer) \subseteq 1 .. accepted
  BY DEF Types, Conserved, Held
<1>2. new \in Seq(Nat)
  <2>1. \A k \in 1 .. n : accepted + k \in Nat
    BY <1>1
  <2> QED BY <2>1, IsASeq
<1>3. DOMAIN new = 1 .. n
  OBVIOUS
<1>4. Len(new) = n
  <2>1. Len(new) \in Nat /\ DOMAIN new = 1 .. Len(new)
    BY <1>2, LenProperties
  <2> QED BY <1>3, <2>1
<1>5. \A k \in 1 .. n : new[k] = accepted + k
  OBVIOUS
<1> HIDE DEF new
<1>6. Ascending(new)
  BY <1>1, <1>4, <1>5 DEF Ascending
<1>7. \A e : e \in ToSet(new) <=> \E k \in 1 .. n : e = new[k]
  BY <1>3, Zenon DEF ToSet
<1>8. ToSet(new) = accepted + 1 .. accepted + n
  <2>1. ASSUME NEW e \in ToSet(new) PROVE e \in accepted + 1 .. accepted + n
    <3>1. PICK k \in 1 .. n : e = new[k]
      BY <1>7
    <3>2. e = accepted + k
      BY <1>5, <3>1
    <3> QED BY <1>1, <3>2
  <2>2. ASSUME NEW e \in accepted + 1 .. accepted + n PROVE e \in ToSet(new)
    <3>1. e - accepted \in 1 .. n /\ accepted + (e - accepted) = e
      BY <1>1
    <3>2. new[e - accepted] = e
      BY <1>5, <3>1
    <3> QED BY <1>7, <3>1, <3>2
  <2> QED BY <2>1, <2>2
<1>9. Before(buffer, new)
  <2>1. SUFFICES ASSUME NEW e \in ToSet(buffer), NEW b \in ToSet(new) PROVE e < b
    BY DEF Before
  <2>2. e \in 1 .. accepted /\ b \in accepted + 1 .. accepted + n
    BY <1>1, <1>8
  <2> QED BY <1>1, <2>2
<1>10. Len(buffer \o new) = Len(buffer) + n
  BY <1>1, <1>2, <1>4, ConcatProperties
<1> QED BY <1>1, <1>2, <1>4, <1>6, <1>8, <1>9, <1>10, ConcatElements DEF new

\* The number of new events.
LEMMA IntervalCount ==
  ASSUME NEW a \in Nat, NEW n \in Nat
  PROVE  IsFiniteSet(a + 1 .. a + n) /\ Cardinality(a + 1 .. a + n) = n
<1>1. PICK b, c \in Int : b = a + 1 /\ c = a + n
  OBVIOUS
<1>2. IsFiniteSet(b .. c) /\ Cardinality(b .. c) = IF b > c THEN 0 ELSE c - b + 1
  BY FS_Interval, Zenon
<1>3. (IF b > c THEN 0 ELSE c - b + 1) = n
  BY <1>1
<1>4. Cardinality(b .. c) = n
  BY <1>2, <1>3, Zenon
<1> QED BY <1>1, <1>2, <1>4, Zenon

\* The buffer after a writeBatch(): what overflows is counted as dropped.
LEMMA Overflow ==
  ASSUME Types, Conserved, NEW n \in Nat, WriteBatch(n)
  PROVE  /\ buffer' \in Seq(Nat) /\ Ascending(buffer') /\ Len(buffer') <= MaxBufferSize
         /\ \E gone \in SUBSET Nat :
               /\ ToSet(buffer) \cup (accepted + 1 .. accepted + n) = ToSet(buffer') \cup gone
               /\ ToSet(buffer') \cap gone = {}
               /\ IsFiniteSet(gone) /\ Cardinality(gone) \in Nat
               /\ dropped' = dropped + Cardinality(gone)
<1> DEFINE pushed == buffer \o [k \in 1 .. n |-> accepted + k]
           excess == IF Len(pushed) > MaxBufferSize THEN Len(pushed) - MaxBufferSize ELSE 0
           left == IF excess > 0 THEN Kept(pushed) ELSE pushed
<1>1. buffer' = left /\ dropped' = dropped + excess
  BY DEF WriteBatch
<1>2. /\ pushed \in Seq(Nat) /\ Len(pushed) \in Nat /\ Ascending(pushed)
      /\ ToSet(pushed) = ToSet(buffer) \cup (accepted + 1 .. accepted + n)
  BY NewEvents, LenProperties
<1>3. MaxBufferSize \in Nat /\ dropped \in Nat
  BY PipelineAssumption DEF Types
<1> HIDE DEF pushed
<1>4. excess \in 0 .. Len(pushed) /\ excess \in Nat /\ Len(pushed) - excess <= MaxBufferSize
  BY <1>2, <1>3
<1>5. left = SubSeq(pushed, excess + 1, Len(pushed))
  <2>1. CASE excess > 0
    <3>1. excess = Len(pushed) - MaxBufferSize
      BY <1>2, <1>3, <2>1
    <3> QED BY <2>1, <3>1 DEF Kept
  <2>2. CASE ~(excess > 0)
    <3>1. excess = 0 /\ left = pushed
      BY <1>4, <2>2
    <3>2. SubSeq(pushed, 1, Len(pushed)) = pushed
      BY <1>2, SubSeqFull
    <3> QED BY <3>1, <3>2
  <2> QED BY <2>1, <2>2
<1> HIDE DEF excess, left
<1> DEFINE front == SubSeq(pushed, 1, excess)
<1>6. /\ front \in Seq(Nat) /\ left \in Seq(Nat)
      /\ Len(front) = excess /\ Len(left) = Len(pushed) - excess
      /\ ToSet(pushed) = ToSet(front) \cup ToSet(left)
      /\ Ascending(front) /\ Ascending(left) /\ Before(front, left)
  BY <1>2, <1>4, <1>5, CutElements
<1> HIDE DEF front
<1>7. ToSet(left) \cap ToSet(front) = {}
  <2>1. ASSUME NEW e \in ToSet(front), e \in ToSet(left) PROVE FALSE
    <3>1. e < e /\ e \in Nat
      BY <1>6, <2>1, Elements DEF Before
    <3> QED BY <3>1
  <2> QED BY <2>1
<1>8. IsFiniteSet(ToSet(front)) /\ Cardinality(ToSet(front)) = excess
  <2>1. IsInjective(front)
    BY <1>6, AscendingInjective
  <2> QED BY <1>6, <2>1, CountElements
<1>9. ToSet(front) \in SUBSET Nat
  BY <1>6, Elements
<1>10. /\ ToSet(buffer) \cup (accepted + 1 .. accepted + n) = ToSet(buffer') \cup ToSet(front)
       /\ ToSet(buffer') \cap ToSet(front) = {}
       /\ IsFiniteSet(ToSet(front)) /\ Cardinality(ToSet(front)) \in Nat
       /\ dropped' = dropped + Cardinality(ToSet(front))
  BY <1>1, <1>2, <1>4, <1>6, <1>7, <1>8
<1>11. buffer' \in Seq(Nat) /\ Ascending(buffer') /\ Len(buffer') <= MaxBufferSize
  BY <1>1, <1>4, <1>6
<1> QED BY <1>9, <1>10, <1>11, Zenon

\* What a writeBatch() changes besides the buffer and the counters.
LEMMA WriteBatchRest ==
  ASSUME Types, NEW n, WriteBatch(n)
  PROVE  /\ closing = "open" /\ accepted' = accepted + n
         /\ init' = (IF init = "none" THEN "importing" ELSE init)
         /\ UNCHANGED <<healthy, pool, timer, closing, inserted, lost>>
         /\ \A g \in Flushes : flushes'[g].batch = flushes[g].batch
         /\ flushes' \in [Flushes -> [at : {"idle", "init", "insert"}, batch : Seq(Nat)]]
         /\ flushing' \in BOOLEAN
         /\ \/ flushes' = flushes /\ flushing' = flushing
            \/ /\ ~flushing /\ flushing'
               /\ \E f \in Flushes \ {FinalFlush} :
                     flushes[f] = Idle /\ flushes' = [flushes EXCEPT ![f].at = "init"]
<1> DEFINE pushed == buffer \o [k \in 1 .. n |-> accepted + k]
           excess == IF Len(pushed) > MaxBufferSize THEN Len(pushed) - MaxBufferSize ELSE 0
           left == IF excess > 0 THEN Kept(pushed) ELSE pushed
<1>1. /\ closing = "open" /\ accepted' = accepted + n
      /\ IF Len(left) >= BatchSize THEN StartFlush(left) ELSE UNCHANGED <<flushing, flushes>>
      /\ init' = (IF init = "none" THEN "importing" ELSE init)
      /\ UNCHANGED <<healthy, pool, timer, closing, inserted, lost>>
  BY DEF WriteBatch
<1> HIDE DEF left
<1>2. /\ flushes' \in [Flushes -> [at : {"idle", "init", "insert"}, batch : Seq(Nat)]]
      /\ flushing' \in BOOLEAN
      /\ \/ flushes' = flushes /\ flushing' = flushing
         \/ /\ ~flushing /\ flushing'
            /\ \E f \in Flushes \ {FinalFlush} :
                  flushes[f] = Idle /\ flushes' = [flushes EXCEPT ![f].at = "init"]
  <2>1. CASE StartFlush(left)
    BY <2>1, StartFlushEffect
  <2>2. CASE flushing' = flushing /\ flushes' = flushes
    BY <2>2 DEF Types
  <2> QED BY <1>1, <2>1, <2>2
<1>3. \A g \in Flushes : flushes'[g].batch = flushes[g].batch
  <2>1. CASE flushes' = flushes
    BY <2>1
  <2>2. CASE \E f \in Flushes : flushes' = [flushes EXCEPT ![f].at = "init"]
    BY <2>2, FlushWaits
  <2> QED BY <1>2, <2>1, <2>2
<1> QED BY <1>1, <1>2, <1>3

LEMMA WriteBatchKeeps ==
  ASSUME Types, Conserved, NEW n \in Nat, WriteBatch(n)
  PROVE  Types' /\ Conserved'
<1> DEFINE new == accepted + 1 .. accepted + n
<1>1. PICK gone \in SUBSET Nat :
        /\ ToSet(buffer) \cup new = ToSet(buffer') \cup gone
        /\ ToSet(buffer') \cap gone = {}
        /\ IsFiniteSet(gone) /\ Cardinality(gone) \in Nat
        /\ dropped' = dropped + Cardinality(gone)
  BY Overflow
<1>2. /\ accepted' = accepted + n
      /\ init' = (IF init = "none" THEN "importing" ELSE init)
      /\ UNCHANGED <<healthy, pool, timer, closing, inserted, lost>>
      /\ \A g \in Flushes : flushes'[g].batch = flushes[g].batch
      /\ flushes' \in [Flushes -> [at : {"idle", "init", "insert"}, batch : Seq(Nat)]]
      /\ flushing' \in BOOLEAN
  BY WriteBatchRest
<1>3. buffer' \in Seq(Nat) /\ Ascending(buffer') /\ Len(buffer') <= MaxBufferSize
  BY Overflow
<1>4. dropped \in Nat /\ accepted \in Nat
  BY DEF Types
<1>5. Types'
  BY <1>1, <1>2, <1>3, <1>4 DEF Types
<1>6. /\ OnePlace /\ IsInjective(inserted) /\ Cardinality(Held) + dropped = accepted
      /\ \A g \in Flushes : Ascending(flushes[g].batch)
      /\ Held \subseteq 1 .. accepted
  BY ConservedParts
<1>7. InFlight' = InFlight
  BY <1>2, Flying
<1>8. new \cap Held = {}
  BY <1>4, <1>6
<1>9. IsFiniteSet(new) /\ Cardinality(new) = n
  BY <1>4, IntervalCount
<1>10. new \subseteq 1 .. accepted + n /\ 1 .. accepted \subseteq 1 .. accepted + n
  BY <1>4
<1> HIDE DEF new
<1>11. /\ \A e : ~(e \in ToSet(buffer) /\ e \in InFlight) /\ ~(e \in ToSet(buffer) /\ e \in ToSet(inserted))
       /\ \A e : ~(e \in ToSet(buffer) /\ e \in lost)
       /\ \A e : e \in Held <=> \/ e \in ToSet(buffer) \/ e \in InFlight
                                \/ e \in ToSet(inserted) \/ e \in lost
       /\ \A e : ~(e \in new /\ e \in Held)
       /\ \A e : e \in ToSet(buffer) \/ e \in new <=> e \in ToSet(buffer') \/ e \in gone
       /\ \A e : ~(e \in ToSet(buffer') /\ e \in gone)
  BY <1>1, <1>6, <1>8 DEF OnePlace, Held
<1>12. \A e : ~(e \in ToSet(buffer') /\ (e \in InFlight \/ e \in ToSet(inserted) \/ e \in lost))
  BY <1>11
<1>13. OnePlace'
  <2>1. /\ ToSet(buffer') \cap InFlight = {} /\ ToSet(buffer') \cap ToSet(inserted) = {}
        /\ ToSet(buffer') \cap lost = {}
    BY <1>12
  <2> QED BY <1>2, <1>6, <1>7, <2>1 DEF OnePlace
<1>14. Held' = (Held \cup new) \ gone
  <2>1. Held' = ToSet(buffer') \cup InFlight \cup ToSet(inserted) \cup lost
    BY <1>2, <1>7 DEF Held
  <2>2. \A e : e \in Held' <=> (e \in Held \/ e \in new) /\ e \notin gone
    BY <1>11, <2>1
  <2> QED BY <2>2
<1>15. gone \subseteq Held \cup new
  BY <1>11
<1>16. IsFiniteSet(Held)
  <2>1. 1 \in Int /\ accepted \in Int
    BY <1>4
  <2>2. IsFiniteSet(1 .. accepted)
    BY <2>1, FS_Interval, Zenon
  <2> QED BY <1>6, <2>2, FS_Subset
<1>17. Held \cap new = {}
  BY <1>8
<1>18. Cardinality(Held') = Cardinality(Held) + n - Cardinality(gone) /\ Cardinality(Held) \in Nat
  <2>1. PICK x \in Nat : x = Cardinality(gone)
    BY <1>1
  <2> DEFINE A == Held
             H == Held'
  <2>2. /\ IsFiniteSet(A) /\ IsFiniteSet(new) /\ A \cap new = {} /\ Cardinality(new) = n
        /\ gone \subseteq A \cup new /\ Cardinality(gone) = x /\ H = (A \cup new) \ gone
    BY <1>9, <1>14, <1>15, <1>16, <1>17, <2>1
  <2> HIDE DEF A, H
  <2>3. Cardinality(A) \in Nat
    BY <2>2, FS_CardinalityType
  <2>4. IsFiniteSet(A \cup new) /\ Cardinality(A \cup new) = Cardinality(A) + n
    <3>1. /\ IsFiniteSet(A \cup new)
          /\ Cardinality(A \cup new) = Cardinality(A) + Cardinality(new) - Cardinality(A \cap new)
      BY <2>2, FS_Union
    <3>2. Cardinality(A \cap new) = 0
      BY <2>2, FS_EmptySet
    <3> QED BY <2>2, <2>3, <3>1, <3>2
  <2>5. Cardinality(H) = Cardinality(A \cup new) - Cardinality((A \cup new) \cap gone)
    BY <2>2, <2>4, FS_Difference
  <2>6. Cardinality((A \cup new) \cap gone) = x
    <3>1. (A \cup new) \cap gone = gone
      BY <2>2
    <3> QED BY <2>2, <3>1
  <2> DEFINE a == Cardinality(A)
             b == Cardinality(A \cup new)
             c == Cardinality((A \cup new) \cap gone)
             d == Cardinality(H)
  <2>7. a \in Nat /\ b = a + n /\ c = x /\ d = b - c
    BY <2>3, <2>4, <2>5, <2>6, Zenon
  <2> HIDE DEF a, b, c, d
  <2>8. d = a + n - x
    BY <2>7
  <2> QED BY <2>1, <2>3, <2>8 DEF A, H, a, d
<1>19. Cardinality(Held') + dropped' = accepted'
  BY <1>1, <1>2, <1>4, <1>6, <1>18
<1>20. Held' \subseteq 1 .. accepted'
  BY <1>2, <1>6, <1>10, <1>14
<1>21. \A g \in Flushes : flushes'[g].at # "insert" => flushes'[g].batch = <<>>
  <2>1. \A g \in Flushes : flushes'[g].at # "insert" => flushes[g].at # "insert"
    <3>1. CASE flushes' = flushes
      BY <3>1
    <3>2. CASE \E f \in Flushes : flushes[f] = Idle /\ flushes' = [flushes EXCEPT ![f].at = "init"]
      BY <3>2, FlushWaits DEF Idle
    <3> QED BY <3>1, <3>2, WriteBatchRest
  <2> QED BY <1>2, <2>1 DEF Conserved
<1> QED BY <1>2, <1>3, <1>5, <1>6, <1>13, <1>19, <1>20, <1>21, ConservedPartsNext

-----------------------------------------------------------------------------
(* Order, until close(). *)

\* While close() has not been called one flush at most is under way, never the final one,
\* and everything in the table is older than what is on its way, which is older than what
\* is in the buffer.
InOrder ==
    closing = "open" =>
        /\ flushes[FinalFlush] = Idle
        /\ ~flushing => \A f \in Flushes : flushes[f] = Idle
        /\ \A f, g \in Flushes : flushes[f] # Idle /\ flushes[g] # Idle => f = g
        /\ Ascending(inserted) /\ Before(inserted, buffer)
        /\ \A f \in Flushes : Before(inserted, flushes[f].batch) /\ Before(flushes[f].batch, buffer)

LEMMA WriteBatchInOrder ==
  ASSUME Types, Conserved, InOrder, NEW n \in Nat, WriteBatch(n)
  PROVE  InOrder'
<1>1. /\ closing = "open" /\ UNCHANGED <<closing, inserted>>
      /\ \A g \in Flushes : flushes'[g].batch = flushes[g].batch
      /\ \/ flushes' = flushes /\ flushing' = flushing
         \/ /\ ~flushing /\ flushing'
            /\ \E f \in Flushes \ {FinalFlush} :
                  flushes[f] = Idle /\ flushes' = [flushes EXCEPT ![f].at = "init"]
  BY WriteBatchRest
<1>2. /\ flushes[FinalFlush] = Idle
      /\ ~flushing => \A f \in Flushes : flushes[f] = Idle
      /\ \A f, g \in Flushes : flushes[f] # Idle /\ flushes[g] # Idle => f = g
      /\ Ascending(inserted) /\ Before(inserted, buffer)
      /\ \A f \in Flushes : Before(inserted, flushes[f].batch) /\ Before(flushes[f].batch, buffer)
  BY <1>1 DEF InOrder
<1>3. PICK gone \in SUBSET Nat :
        ToSet(buffer) \cup (accepted + 1 .. accepted + n) = ToSet(buffer') \cup gone
  BY Overflow
<1>4. accepted \in Nat /\ Held \subseteq 1 .. accepted
  BY DEF Types, Conserved
<1>5. ASSUME NEW s, ToSet(s) \subseteq Held, Before(s, buffer)
      PROVE  Before(s, buffer')
  <2>1. SUFFICES ASSUME NEW e \in ToSet(s), NEW b \in ToSet(buffer') PROVE e < b
    BY DEF Before
  <2>2. b \in ToSet(buffer) \/ b \in accepted + 1 .. accepted + n
    BY <1>3
  <2>3. e \in 1 .. accepted
    BY <1>4, <1>5
  <2> QED BY <1>4, <1>5, <2>2, <2>3 DEF Before
<1>6. ToSet(inserted) \subseteq Held
  BY DEF Held
<1>7. \A f \in Flushes : ToSet(flushes[f].batch) \subseteq Held
  BY Flying DEF Held
<1>8. Before(inserted', buffer')
  BY <1>1, <1>2, <1>5, <1>6
<1>9. \A f \in Flushes : Before(inserted', flushes'[f].batch) /\ Before(flushes'[f].batch, buffer')
  BY <1>1, <1>2, <1>5, <1>7
<1>10. /\ flushes'[FinalFlush] = Idle
       /\ ~flushing' => \A f \in Flushes : flushes'[f] = Idle
       /\ \A f, g \in Flushes : flushes'[f] # Idle /\ flushes'[g] # Idle => f = g
  <2>1. CASE flushes' = flushes /\ flushing' = flushing
    BY <1>2, <2>1
  <2>2. CASE /\ ~flushing /\ flushing'
             /\ \E f \in Flushes \ {FinalFlush} :
                  flushes[f] = Idle /\ flushes' = [flushes EXCEPT ![f].at = "init"]
    <3>1. PICK f \in Flushes \ {FinalFlush} : flushes' = [flushes EXCEPT ![f].at = "init"]
      BY <2>2
    <3>2. \A g \in Flushes : g # f => flushes'[g] = flushes[g]
      BY <3>1, FlushWaits
    <3>3. FinalFlush \in Flushes
      BY PipelineAssumption
    <3> QED BY <1>2, <2>2, <3>2, <3>3
  <2> QED BY <1>1, <2>1, <2>2
<1> QED BY <1>1, <1>2, <1>8, <1>9, <1>10 DEF InOrder

LEMMA TimerFiresInOrder ==
  ASSUME Types, InOrder, TimerFires
  PROVE  InOrder'
<1>1. StartFlush(buffer) /\ UNCHANGED <<buffer, closing, inserted>> /\ ~flushing
  BY DEF TimerFires, lifecycle
<1>2. CASE flushes' = flushes /\ flushing' = flushing
  BY <1>1, <1>2 DEF InOrder
<1>3. CASE \E f \in Flushes \ {FinalFlush} :
             flushes[f] = Idle /\ flushes' = [flushes EXCEPT ![f].at = "init"] /\ flushing'
  <2>1. PICK f \in Flushes \ {FinalFlush} : flushes' = [flushes EXCEPT ![f].at = "init"] /\ flushing'
    BY <1>3
  <2>2. /\ \A g \in Flushes : g # f => flushes'[g] = flushes[g]
        /\ \A g \in Flushes : flushes'[g].batch = flushes[g].batch
    BY <2>1, FlushWaits
  <2>3. FinalFlush \in Flushes
    BY PipelineAssumption
  <2> QED BY <1>1, <2>1, <2>2, <2>3 DEF InOrder
<1> QED BY <1>1, <1>2, <1>3, StartFlushEffect

\* The only flush under way loops, with its batch in the table.
LEMMA LoopsInOrder ==
  ASSUME Types, Conserved, InOrder, NEW f \in Flushes, flushes[f] # Idle, Loops(f),
         inserted' = inserted \o flushes[f].batch, closing' = closing
  PROVE  InOrder'
<1>1. SUFFICES ASSUME closing = "open" PROVE InOrder'
  BY DEF InOrder
<1>2. /\ flushes[FinalFlush] = Idle /\ FinalFlush \in Flushes
      /\ \A g \in Flushes : g # f => flushes[g] = Idle
      /\ flushing
      /\ Ascending(inserted) /\ Before(inserted, buffer)
      /\ Before(inserted, flushes[f].batch) /\ Before(flushes[f].batch, buffer)
  BY <1>1, PipelineAssumption DEF InOrder
<1>3. /\ \A g \in Flushes : g # f => flushes'[g] = flushes[g]
      /\ Before(flushes'[f].batch, buffer')
      /\ \A e \in ToSet(buffer') \cup ToSet(flushes'[f].batch) : e \in ToSet(buffer)
  BY LoopsEffect
<1>4. inserted \in Seq(Nat) /\ flushes[f].batch \in Seq(Nat) /\ Ascending(flushes[f].batch)
  BY FlushTypes DEF Types, Conserved
<1>5. Ascending(inserted') /\ ToSet(inserted') = ToSet(inserted) \cup ToSet(flushes[f].batch)
  BY <1>2, <1>4, ConcatElements
<1>6. Before(inserted', buffer') /\ Before(inserted', flushes'[f].batch)
  BY <1>2, <1>3, <1>5 DEF Before
<1>7. \A g \in Flushes : g # f => flushes'[g].batch = <<>>
  BY <1>2, <1>3 DEF Idle
<1>8. \A g \in Flushes : Before(inserted', flushes'[g].batch) /\ Before(flushes'[g].batch, buffer')
  BY <1>3, <1>6, <1>7, EmptyElements DEF Before
<1>9. ~flushing' => flushes'[f] = Idle
  BY <1>2 DEF Loops, Types, Idle
<1>10. /\ flushes'[FinalFlush] = Idle
       /\ ~flushing' => \A g \in Flushes : flushes'[g] = Idle
       /\ \A g, h \in Flushes : flushes'[g] # Idle /\ flushes'[h] # Idle => g = h
  BY <1>2, <1>3, <1>9
<1> QED BY <1>5, <1>6, <1>8, <1>10 DEF InOrder

\* The only flush under way fails.
LEMMA FailsInOrder ==
  ASSUME Types, InOrder, NEW f \in Flushes, flushes[f] # Idle, Fails(f),
         UNCHANGED <<inserted, buffer, closing>>
  PROVE  InOrder'
<1>1. SUFFICES ASSUME closing = "open" PROVE InOrder'
  BY DEF InOrder
<1>2. /\ flushes' = [flushes EXCEPT ![f] = [at |-> "idle", batch |-> <<>>]] /\ flushing' = FALSE
      /\ <<>> \in Seq(Nat)
  BY EmptySeq DEF Fails, Idle
<1>3. /\ \A g \in Flushes : g # f => flushes[g] = Idle
      /\ FinalFlush \in Flushes
  BY <1>1, PipelineAssumption DEF InOrder
<1>4. \A g \in Flushes : flushes'[g] = Idle
  BY <1>2, <1>3 DEF Types, Idle
<1>5. \A g \in Flushes : flushes'[g].batch = <<>>
  BY <1>4 DEF Idle
<1>6. \A g \in Flushes : Before(inserted', flushes'[g].batch) /\ Before(flushes'[g].batch, buffer')
  BY <1>5, EmptyElements DEF Before
<1> QED BY <1>1, <1>3, <1>4, <1>6 DEF InOrder

-----------------------------------------------------------------------------
(* close() drains. *)

\* With a database that rejects nothing: nothing is lost, an insert needs an initialised
\* pool, and once close() was called the final flush or an empty buffer remains.
Drained ==
    healthy =>
        /\ lost = {} /\ init # "failed"
        /\ \A f \in Flushes : flushes[f].at = "insert" => init = "ready"
        /\ closing \in {"open", "flushing"} =>
              IF init \in {"connecting", "ready"} THEN pool = "open" ELSE pool = "none"
        /\ closing = "flushing" => pool = "open" /\ (buffer = <<>> \/ flushes[FinalFlush].at # "idle")
        /\ closing = "draining" => /\ pool = "ended" /\ init \in {"connecting", "ready"}
                                   /\ buffer = <<>>
        /\ closing = "closed" =>
              \/ pool = "none" /\ init \in {"none", "importing"}
              \/ pool = "open" /\ init \in {"connecting", "ready"}
              \/ /\ pool = "none" /\ init = "ready"
                 /\ buffer = <<>> /\ \A f \in Flushes : flushes[f].at # "insert"

LEMMA LoopsDrained ==
  ASSUME Types, Conserved, Drained, NEW f \in Flushes, init = "ready", Loops(f),
         UNCHANGED <<healthy, lifecycle>>
  PROVE  Drained'
<1>1. SUFFICES ASSUME healthy PROVE Drained'
  BY DEF Drained
<1>2. UNCHANGED <<init, pool, timer, closing>>
  BY DEF lifecycle
<1>3. pool = "open" \/ buffer = <<>>
  BY <1>1 DEF Drained, Types
<1>4. CASE buffer = <<>>
  <2>1. /\ flushes' = [flushes EXCEPT ![f] = [at |-> "idle", batch |-> <<>>]]
        /\ buffer' = buffer /\ lost' = lost
    BY <1>4 DEF Loops, Idle
  <2>2. /\ flushes'[f].at = "idle" /\ \A g \in Flushes : g # f => flushes'[g] = flushes[g]
    BY <2>1 DEF Types
  <2> QED BY <1>1, <1>2, <1>4, <2>1, <2>2 DEF Drained
<1>5. CASE buffer # <<>>
  <2>1. /\ flushes' = [flushes EXCEPT ![f] = [at |-> "insert", batch |-> FirstBatch(buffer)]]
        /\ lost' = lost
    BY <1>3, <1>5 DEF Loops
  <2>2. /\ flushes'[f].at = "insert" /\ \A g \in Flushes : g # f => flushes'[g] = flushes[g]
    BY <2>1 DEF Types
  <2>3. closing # "draining" /\ pool = "open" /\ FinalFlush \in Flushes
    BY <1>1, <1>3, <1>5, PipelineAssumption DEF Drained
  <2>4. closing = "flushing" => flushes'[FinalFlush].at # "idle"
    BY <1>1, <1>5, <2>2, <2>3 DEF Drained
  <2> QED BY <1>1, <1>2, <2>1, <2>2, <2>3, <2>4 DEF Drained
<1> QED BY <1>4, <1>5

LEMMA DrainedNext ==
  ASSUME Types, Conserved, InOrder, Drained, [Next]_vars
  PROVE  Drained'
<1>1. CASE UNCHANGED vars
  BY <1>1 DEF Drained, vars, lifecycle
<1>2. CASE \E n \in 1 .. MaxWrite : WriteBatch(n)
  <2>1. PICK n \in 1 .. MaxWrite : WriteBatch(n)
    BY <1>2
  <2>2. /\ closing = "open" /\ init' = (IF init = "none" THEN "importing" ELSE init)
        /\ UNCHANGED <<healthy, pool, timer, closing, inserted, lost>>
        /\ \/ flushes' = flushes /\ flushing' = flushing
           \/ \E f \in Flushes \ {FinalFlush} :
                  flushes[f] = Idle /\ flushes' = [flushes EXCEPT ![f].at = "init"]
    BY <2>1, WriteBatchRest
  <2>3. \A g \in Flushes : flushes'[g].at = "insert" => flushes[g].at = "insert"
    BY <2>2 DEF Types
  <2> QED BY <2>2, <2>3 DEF Drained
<1>3. CASE TimerFires
  <2>1. UNCHANGED <<healthy, buffer, init, pool, closing, lost>>
    BY <1>3 DEF TimerFires, lifecycle
  <2>2. \/ flushes' = flushes /\ flushing' = flushing
        \/ \E f \in Flushes \ {FinalFlush} :
               flushes[f] = Idle /\ flushes' = [flushes EXCEPT ![f].at = "init"]
    BY <1>3, StartFlushEffect DEF TimerFires
  <2>3. /\ \A g \in Flushes : flushes'[g].at = "insert" => flushes[g].at = "insert"
        /\ flushes'[FinalFlush] = flushes[FinalFlush]
    BY <2>2, PipelineAssumption DEF Types
  <2> QED BY <2>1, <2>3 DEF Drained
<1>4. CASE PoolCreated
  BY <1>4 DEF PoolCreated, Drained, Types
<1>5. CASE InitReady
  BY <1>5 DEF InitReady, Drained, Types
<1>6. CASE InitRejected
  BY <1>6 DEF InitRejected, Drained
<1>7. CASE \E f \in Flushes : FlushResumes(f)
  <2>1. PICK f \in Flushes : FlushResumes(f)
    BY <1>7
  <2>2. CASE init = "ready" /\ Loops(f)
    BY <2>1, <2>2, LoopsDrained DEF FlushResumes
  <2>3. CASE init = "failed"
    BY <2>1, <2>3 DEF FlushResumes, Drained
  <2> QED BY <2>1, <2>2, <2>3 DEF FlushResumes
<1>8. CASE \E f \in Flushes : InsertSucceeds(f)
  <2>1. PICK f \in Flushes : InsertSucceeds(f)
    BY <1>8
  <2>2. CASE init = "ready"
    BY <2>1, <2>2, LoopsDrained DEF InsertSucceeds
  <2>3. CASE ~healthy
    BY <2>1, <2>3 DEF InsertSucceeds, Drained
  <2> QED BY <2>1, <2>2, <2>3 DEF InsertSucceeds, Drained
<1>9. CASE \E f \in Flushes : InsertRejected(f)
  BY <1>9 DEF InsertRejected, Drained
<1>10. CASE Close
  <2>1. UNCHANGED <<healthy, buffer, init, lost>> /\ closing = "open" /\ FinalFlush \in Flushes
    BY <1>10, PipelineAssumption DEF Close
  <2>2. CASE buffer # <<>> /\ pool = "open"
    <3>1. /\ flushes' = [flushes EXCEPT ![FinalFlush].at = "init"]
          /\ closing' = "flushing" /\ pool' = pool
      BY <1>10, <2>2 DEF Close
    <3>2. /\ flushes'[FinalFlush].at = "init"
          /\ \A g \in Flushes : g # FinalFlush => flushes'[g] = flushes[g]
      BY <2>1, <3>1, FlushWaits
    <3> QED BY <2>1, <2>2, <3>1, <3>2 DEF Drained
  <2>3. CASE ~(buffer # <<>> /\ pool = "open")
    <3>1. /\ flushes' = flushes
          /\ closing' = (IF pool = "open" THEN "draining" ELSE "closed")
          /\ pool' = (IF pool = "open" THEN "ended" ELSE pool)
      BY <1>10, <2>3 DEF Close
    <3> QED BY <2>1, <2>3, <3>1 DEF Drained, Types
  <2> QED BY <2>2, <2>3
<1>11. CASE Drain
  <2>1. flushes[FinalFlush].at = "idle"
    BY <1>11 DEF Drain, Idle
  <2> QED BY <1>11, <2>1 DEF Drain, Drained
<1>12. CASE PoolEnded
  BY <1>12 DEF PoolEnded, Drained
<1> QED BY <1>1, <1>2, <1>3, <1>4, <1>5, <1>6, <1>7, <1>8, <1>9, <1>10, <1>11, <1>12
        DEF Next, InitSteps, FlushSteps

LEMMA InOrderNext ==
  ASSUME Types, Conserved, InOrder, [Next]_vars
  PROVE  InOrder'
<1>1. CASE UNCHANGED vars
  BY <1>1 DEF InOrder, vars, lifecycle
<1>2. CASE \E n \in 1 .. MaxWrite : WriteBatch(n)
  <2>1. PICK n \in 1 .. MaxWrite : WriteBatch(n)
    BY <1>2
  <2>2. n \in Nat
    BY PipelineAssumption
  <2> QED BY <2>1, <2>2, WriteBatchInOrder
<1>3. CASE TimerFires
  BY <1>3, TimerFiresInOrder
<1>4. CASE InitSteps
  BY <1>4 DEF InitSteps, PoolCreated, InitReady, InitRejected, InOrder
<1>5. CASE \E f \in Flushes : FlushResumes(f)
  <2>1. PICK f \in Flushes : FlushResumes(f)
    BY <1>5
  <2>2. /\ flushes[f] # Idle /\ inserted' = inserted /\ closing' = closing
        /\ flushes[f].batch = <<>> /\ inserted \in Seq(Nat)
    BY <2>1 DEF FlushResumes, Idle, lifecycle, Conserved, Types
  <2>3. inserted' = inserted \o flushes[f].batch
    BY <2>2, ConcatEmptySeq
  <2>4. CASE Loops(f)
    BY <2>2, <2>3, <2>4, LoopsInOrder
  <2>5. CASE Fails(f) /\ UNCHANGED <<buffer, lost>>
    BY <2>2, <2>5, FailsInOrder
  <2> QED BY <2>1, <2>4, <2>5 DEF FlushResumes
<1>6. CASE \E f \in Flushes : InsertSucceeds(f)
  <2>1. PICK f \in Flushes : InsertSucceeds(f)
    BY <1>6
  <2>2. flushes[f] # Idle /\ Loops(f) /\ closing' = closing /\ inserted' = inserted \o flushes[f].batch
    BY <2>1 DEF InsertSucceeds, Idle, lifecycle
  <2> QED BY <2>2, LoopsInOrder
<1>7. CASE \E f \in Flushes : InsertRejected(f)
  <2>1. PICK f \in Flushes : InsertRejected(f)
    BY <1>7
  <2>2. flushes[f] # Idle /\ Fails(f) /\ UNCHANGED <<inserted, buffer, closing>>
    BY <2>1 DEF InsertRejected, Idle, lifecycle
  <2> QED BY <2>2, FailsInOrder
<1>8. CASE Close \/ Drain \/ PoolEnded
  <2>1. closing' # "open"
    BY <1>8 DEF Close, Drain, PoolEnded
  <2> QED BY <2>1 DEF InOrder
<1> QED BY <1>1, <1>2, <1>3, <1>4, <1>5, <1>6, <1>7, <1>8 DEF Next, FlushSteps

LEMMA ConservedNext ==
  ASSUME Types, Conserved, InOrder, [Next]_vars
  PROVE  Types' /\ Conserved'
<1>1. CASE UNCHANGED vars
  <2>1. Types'
    BY <1>1 DEF Types, vars, lifecycle
  <2> QED BY <1>1, <2>1, StartsKeep DEF vars
<1>2. CASE \E n \in 1 .. MaxWrite : WriteBatch(n)
  <2>1. PICK n \in 1 .. MaxWrite : WriteBatch(n)
    BY <1>2
  <2>2. n \in Nat
    BY PipelineAssumption
  <2> QED BY <2>1, <2>2, WriteBatchKeeps
<1>3. CASE TimerFires
  BY <1>3, TimerFiresKeeps
<1>4. CASE InitSteps \/ Drain \/ PoolEnded
  BY <1>4, LifecycleKeeps
<1>5. CASE \E f \in Flushes : FlushResumes(f) \/ InsertSucceeds(f) \/ InsertRejected(f)
  BY <1>5, FlushResumesKeeps, InsertSucceedsKeeps, InsertRejectedKeeps
<1>6. CASE Close
  <2>1. flushes[FinalFlush].at # "insert"
    BY <1>6 DEF Close, InOrder, Idle
  <2> QED BY <1>6, <2>1, CloseKeeps
<1> QED BY <1>1, <1>2, <1>3, <1>4, <1>5, <1>6 DEF Next, FlushSteps

LEMMA InitAll == Init => Types /\ Conserved /\ InOrder /\ Drained
<1> SUFFICES ASSUME Init PROVE Types /\ Conserved /\ InOrder /\ Drained
  OBVIOUS
<1>1. <<>> \in Seq(Nat) /\ Len(<<>>) = 0 /\ ToSet(<<>>) = {} /\ Ascending(<<>>) /\ IsInjective(<<>>)
  BY EmptySeq, EmptyElements
<1>2. /\ \A f \in Flushes : flushes[f] = Idle /\ flushes[f].batch = <<>> /\ flushes[f].at = "idle"
      /\ flushes \in [Flushes -> [at : {"idle", "init", "insert"}, batch : Seq(Nat)]]
      /\ FinalFlush \in Flushes
  BY <1>1, PipelineAssumption DEF Init, Idle
<1>3. Types
  BY <1>1, <1>2 DEF Init, Types
<1>4. InFlight = {}
  BY <1>1, <1>2, Flying
<1>5. Held = {} /\ Cardinality(Held) = 0
  BY <1>1, <1>4, FS_EmptySet DEF Init, Held
<1>6. OnePlace
  BY <1>1, <1>2, <1>4 DEF Init, OnePlace
<1>7. Conserved
  <2>1. Cardinality(Held) + dropped = accepted /\ Len(buffer) <= MaxBufferSize
    BY <1>1, <1>5, PipelineAssumption DEF Init
  <2> QED BY <1>1, <1>2, <1>3, <1>5, <1>6, <2>1, ConservedParts DEF Init
<1>8. InOrder
  BY <1>1, <1>2 DEF Init, InOrder, Before
<1>9. Drained
  BY <1>2 DEF Init, Drained
<1> QED BY <1>3, <1>7, <1>8, <1>9

\* The properties follow from the invariants.
LEMMA InOrderSafe ==
  ASSUME Types, Conserved, InOrder
  PROVE  InsertedInOrder
<1>1. SUFFICES ASSUME closing = "open"
               PROVE  /\ \A m, n \in 1 .. Len(inserted) : m < n => inserted[m] < inserted[n]
                      /\ Cardinality({f \in Flushes : flushes[f] # Idle}) <= 1
                      /\ \A e \in ToSet(inserted), b \in InFlight \cup ToSet(buffer) : e < b
  BY DEF InsertedInOrder
<1>2. Ascending(inserted)
  BY <1>1 DEF InOrder
<1>3. Cardinality({f \in Flushes : flushes[f] # Idle}) <= 1
  <2> DEFINE F == {f \in Flushes : flushes[f] # Idle}
  <2>1. CASE F = {}
    BY <2>1, FS_EmptySet
  <2>2. CASE F # {}
    <3>1. PICK f : f \in F
      BY <2>2
    <3>2. F = {f}
      BY <1>1, <3>1 DEF InOrder
    <3>3. Cardinality({f}) = 1
      BY FS_Singleton
    <3> QED BY <3>2, <3>3
  <2> QED BY <2>1, <2>2
<1>4. ASSUME NEW e \in ToSet(inserted), NEW b \in InFlight \cup ToSet(buffer)
      PROVE  e < b
  <2>1. CASE b \in ToSet(buffer)
    BY <1>1, <2>1 DEF InOrder, Before
  <2>2. CASE b \in InFlight
    <3>1. PICK g \in Flushes : b \in ToSet(flushes[g].batch)
      BY <2>2, Flying
    <3> QED BY <1>1, <3>1 DEF InOrder, Before
  <2> QED BY <2>1, <2>2
<1> QED BY <1>2, <1>3, <1>4 DEF Ascending

LEMMA DrainedSafe ==
  ASSUME Types, Conserved, Drained
  PROVE  CloseDrains
<1>1. SUFFICES ASSUME healthy, closing = "closed", pool = "none", init = "ready"
               PROVE  Len(inserted) + dropped = accepted
  BY DEF CloseDrains
<1>2. lost = {} /\ buffer = <<>> /\ \A f \in Flushes : flushes[f].at # "insert"
  BY <1>1 DEF Drained
<1>3. \A f \in Flushes : flushes[f].batch = <<>>
  BY <1>2 DEF Conserved
<1>4. InFlight = {} /\ ToSet(buffer) = {}
  BY <1>2, <1>3, EmptyElements, Flying
<1>5. Held = ToSet(inserted)
  BY <1>2, <1>4 DEF Held
<1>6. IsInjective(inserted) /\ inserted \in Seq(Nat) /\ Cardinality(Held) + dropped = accepted
  BY ConservedParts DEF Types
<1> QED BY <1>5, <1>6, CountElements

-----------------------------------------------------------------------------
\* Every event that writeBatch() accepts is in exactly one place, however flushes by size,
\* by timer and by close() overlap, for every batch size, buffer limit and number of flushes.
THEOREM EventsAlwaysConserved == Spec => []EventsConserved
<1>1. Types /\ Conserved /\ InOrder /\ [Next]_vars => (Types /\ Conserved /\ InOrder)'
  BY ConservedNext, InOrderNext
<1>2. Types /\ Conserved /\ InOrder => EventsConserved
  BY DEF Conserved
<1> QED BY <1>1, <1>2, InitAll, PTL DEF Spec

\* Until close() the table receives events in the order of their acceptance and from one
\* flush at a time.
THEOREM AlwaysInsertedInOrder == Spec => []InsertedInOrder
<1>1. Types /\ Conserved /\ InOrder /\ [Next]_vars => (Types /\ Conserved /\ InOrder)'
  BY ConservedNext, InOrderNext
<1>2. Types /\ Conserved /\ InOrder => InsertedInOrder
  BY InOrderSafe
<1> QED BY <1>1, <1>2, InitAll, PTL DEF Spec

\* A close() that found the pool of a healthy database leaves every accepted event in the
\* table or in the drop counter, whatever other flush it overlaps.
THEOREM CloseAlwaysDrains == Spec => []CloseDrains
<1>1. Types /\ Conserved /\ InOrder /\ Drained /\ [Next]_vars
        => (Types /\ Conserved /\ InOrder /\ Drained)'
  BY ConservedNext, InOrderNext, DrainedNext
<1>2. Types /\ Conserved /\ InOrder /\ Drained => CloseDrains
  BY DrainedSafe
<1> QED BY <1>1, <1>2, InitAll, PTL DEF Spec

-----------------------------------------------------------------------------
(* Buckets. *)

LEMMA Truncated ==
    ASSUME NEW t \in Nat, NEW size \in Nat \ {0}
    PROVE  Trunc(t, size) \in Nat /\ Trunc(t, size) <= t /\ t < Trunc(t, size) + size
BY DEF Trunc

LEMMA TruncAligned ==
    ASSUME NEW t \in Nat, NEW size \in Nat \ {0}
    PROVE  Trunc(t, size) % size = 0
BY DEF Trunc

\* Multiples of the same number are equal or that far apart.
LEMMA Apart ==
    ASSUME NEW size \in Nat \ {0}, NEW j \in Nat, NEW k \in Nat, j * size < k * size + size
    PROVE  j <= k
<1> SUFFICES ASSUME j >= k + 1 PROVE FALSE
    OBVIOUS
<1>1. j * size >= (k + 1) * size
    OBVIOUS
<1>2. (k + 1) * size = k * size + size
    OBVIOUS
<1> QED
    BY <1>1, <1>2

LEMMA Multiple ==
    ASSUME NEW b \in Nat, NEW size \in Nat \ {0}, b % size = 0
    PROVE  b \div size \in Nat /\ b = (b \div size) * size
OBVIOUS

LEMMA TruncUnique ==
    ASSUME NEW t \in Nat, NEW size \in Nat \ {0}, NEW b \in Nat, b % size = 0, b <= t, t < b + size
    PROVE  Trunc(t, size) = b
<1> DEFINE q == t \div size
           k == b \div size
<1>1. q \in Nat /\ q * size <= t /\ t < q * size + size /\ q * size \in Nat
    BY Truncated DEF Trunc
<1>2. k \in Nat /\ b = k * size
    BY Multiple
<1> HIDE DEF q, k
<1>3. k * size \in Nat
    BY <1>2
<1>4. q * size < k * size + size /\ k * size < q * size + size
    BY <1>1, <1>2, <1>3
<1>5. q <= k /\ k <= q
    BY <1>1, <1>2, <1>4, Apart
<1>6. q = k
    BY <1>1, <1>2, <1>5
<1> QED
    BY <1>2, <1>6 DEF Trunc, q

LEMMA MultipleOfMultiple ==
    ASSUME NEW b \in Nat, NEW fine \in Nat \ {0}, NEW coarse \in Nat \ {0}, coarse % fine = 0, b % coarse = 0
    PROVE  b % fine = 0
<1> DEFINE m == coarse \div fine
           k == b \div coarse
<1>1. m \in Nat /\ coarse = m * fine
    BY Multiple
<1>2. k \in Nat /\ b = k * coarse
    BY Multiple
<1> HIDE DEF m, k
<1>3. b = (k * m) * fine /\ k * m \in Nat
    BY <1>1, <1>2
<1> DEFINE j == k * m
<1>4. j \in Nat /\ b = j * fine
    BY <1>3
<1> HIDE DEF j
<1> QED
    BY <1>4

LEMMA TruncCoarser ==
    ASSUME NEW t \in Nat, NEW fine \in Nat \ {0}, NEW coarse \in Nat \ {0}, coarse % fine = 0
    PROVE  Trunc(Trunc(t, fine), coarse) = Trunc(t, coarse)
<1> DEFINE b == Trunc(t, fine)
           c == Trunc(t, coarse)
<1>1. b \in Nat /\ b <= t /\ t < b + fine /\ b % fine = 0
    BY Truncated, TruncAligned
<1>2. c \in Nat /\ c <= t /\ t < c + coarse /\ c % coarse = 0
    BY Truncated, TruncAligned
<1>3. c % fine = 0
    BY <1>2, MultipleOfMultiple
<1> HIDE DEF b, c
<1>4. c <= b
  <2>1. b \div fine \in Nat /\ b = (b \div fine) * fine /\ c \div fine \in Nat /\ c = (c \div fine) * fine
    BY <1>1, <1>2, <1>3, Multiple
  <2> DEFINE i == b \div fine
             j == c \div fine
  <2>2. i \in Nat /\ b = i * fine /\ j \in Nat /\ c = j * fine
    BY <2>1
  <2> HIDE DEF i, j
  <2>3. j * fine < i * fine + fine
    BY <1>1, <1>2, <2>2
  <2>4. j <= i
    BY <2>2, <2>3, Apart
  <2>5. j * fine <= i * fine
    BY <2>2, <2>4
  <2> QED
    BY <2>2, <2>5
<1>5. b < c + coarse
    BY <1>1, <1>2
<1> QED
    BY <1>1, <1>2, <1>4, <1>5, TruncUnique DEF b, c

-----------------------------------------------------------------------------
(* The sum of a table, as the number of its points. *)

IsTable(rows) == DOMAIN rows \subseteq Nat /\ rows \in [DOMAIN rows -> Nat]

LEMMA PointIs ==
    ASSUME NEW rows, NEW p
    PROVE  p \in Points(rows) <=> \E b \in DOMAIN rows : \E n \in 1 .. rows[b] : p = <<b, n>>
<1>1. ASSUME p \in Points(rows) PROVE \E b \in DOMAIN rows : \E n \in 1 .. rows[b] : p = <<b, n>>
  <2>1. PICK b \in DOMAIN rows : p \in {b} \X (1 .. rows[b])
    BY <1>1, Zenon DEF Points
  <2> QED
    BY <2>1
<1>2. ASSUME NEW b \in DOMAIN rows, NEW n \in 1 .. rows[b], p = <<b, n>> PROVE p \in Points(rows)
  <2>1. p \in {b} \X (1 .. rows[b])
    BY <1>2
  <2> QED
    BY <2>1, Zenon DEF Points
<1> QED
    BY <1>1, <1>2

LEMMA PointParts ==
    ASSUME NEW rows, NEW p \in Points(rows)
    PROVE  p = <<p[1], p[2]>> /\ p[1] \in DOMAIN rows /\ p[2] \in 1 .. rows[p[1]]
BY PointIs

\* A number that a finite set can hold can be drawn from it.
LEMMA Drawn ==
    ASSUME NEW T, IsFiniteSet(T), NEW k \in Nat, k <= Cardinality(T)
    PROVE  \E g \in Injection(1 .. k, T) : k = Cardinality(T) => \A x \in T : \E n \in 1 .. k : g[n] = x
<1>1. Cardinality(T) \in Nat /\ ExistsBijection(1 .. Cardinality(T), T)
    BY FS_CardinalityType
<1>2. PICK f \in Bijection(1 .. Cardinality(T), T) : TRUE
    BY <1>1 DEF ExistsBijection
<1>3. /\ f \in [1 .. Cardinality(T) -> T]
      /\ \A a, b \in 1 .. Cardinality(T) : f[a] = f[b] => a = b
      /\ \A x \in T : \E n \in 1 .. Cardinality(T) : f[n] = x
    BY <1>2 DEF Bijection, Injection, Surjection, IsInjective
<1> DEFINE g == [n \in 1 .. k |-> f[n]]
<1>4. \A n \in 1 .. k : n \in 1 .. Cardinality(T)
    BY <1>1
<1>5. g \in [1 .. k -> T] /\ \A a, b \in 1 .. k : g[a] = g[b] => a = b
    BY <1>3, <1>4
<1>6. g \in Injection(1 .. k, T)
    BY <1>5 DEF Injection, IsInjective
<1>7. k = Cardinality(T) => \A x \in T : \E n \in 1 .. k : g[n] = x
    BY <1>3
<1> QED
    BY <1>6, <1>7

\* The counts of a table, each at most as large as a part of a finite set, the parts disjoint.
Splits(part, rows, S) ==
    /\ part \in [DOMAIN rows -> SUBSET S]
    /\ \A b, c \in DOMAIN rows : b # c => part[b] \cap part[c] = {}
    /\ \A b \in DOMAIN rows : rows[b] <= Cardinality(part[b])

LEMMA Embedded ==
    ASSUME NEW rows, IsTable(rows), NEW S, IsFiniteSet(S), NEW part, Splits(part, rows, S)
    PROVE  \E G \in Injection(Points(rows), S) :
              \A b \in DOMAIN rows : rows[b] = Cardinality(part[b]) =>
                 \A x \in part[b] : \E p \in Points(rows) : G[p] = x
<1> DEFINE Fit(b, g) == /\ g \in Injection(1 .. rows[b], part[b])
                        /\ rows[b] = Cardinality(part[b]) => \A x \in part[b] : \E n \in 1 .. rows[b] : g[n] = x
           pick == [b \in DOMAIN rows |-> CHOOSE g : Fit(b, g)]
           G == [p \in Points(rows) |-> pick[p[1]][p[2]]]
<1>1. ASSUME NEW b \in DOMAIN rows PROVE Fit(b, pick[b])
  <2>1. IsFiniteSet(part[b]) /\ rows[b] \in Nat /\ rows[b] <= Cardinality(part[b])
    BY FS_Subset DEF Splits, IsTable
  <2>2. \E g : Fit(b, g)
    BY <2>1, Drawn
  <2>3. pick[b] = CHOOSE g : Fit(b, g)
    OBVIOUS
  <2> HIDE DEF Fit, pick
  <2> QED
    BY <2>2, <2>3
<1>2. ASSUME NEW b \in DOMAIN rows
      PROVE  /\ pick[b] \in [1 .. rows[b] -> part[b]]
             /\ \A m, n \in 1 .. rows[b] : pick[b][m] = pick[b][n] => m = n
             /\ rows[b] = Cardinality(part[b]) => \A x \in part[b] : \E n \in 1 .. rows[b] : pick[b][n] = x
  <2> DEFINE g == pick[b]
  <2>1. Fit(b, g)
    BY <1>1
  <2> HIDE DEF g
  <2>2. g \in [1 .. rows[b] -> part[b]] /\ \A m, n \in 1 .. rows[b] : g[m] = g[n] => m = n
    BY <2>1 DEF Injection, IsInjective
  <2>3. rows[b] = Cardinality(part[b]) => \A x \in part[b] : \E n \in 1 .. rows[b] : g[n] = x
    BY <2>1
  <2> QED
    BY <2>2, <2>3 DEF g
<1> HIDE DEF Fit, pick
<1>3. ASSUME NEW p \in Points(rows)
      PROVE  /\ p[1] \in DOMAIN rows /\ p[2] \in 1 .. rows[p[1]] /\ p = <<p[1], p[2]>>
             /\ G[p] = pick[p[1]][p[2]] /\ G[p] \in part[p[1]]
  <2>1. p[1] \in DOMAIN rows /\ p[2] \in 1 .. rows[p[1]] /\ p = <<p[1], p[2]>>
    BY PointParts
  <2>2. G[p] = pick[p[1]][p[2]]
    OBVIOUS
  <2> HIDE DEF G
  <2>3. pick[p[1]][p[2]] \in part[p[1]]
    BY <1>2, <2>1
  <2> QED
    BY <2>1, <2>2, <2>3
<1>4. G \in [Points(rows) -> S]
  <2>1. ASSUME NEW p \in Points(rows) PROVE pick[p[1]][p[2]] \in S
    <3>1. p[1] \in DOMAIN rows /\ pick[p[1]][p[2]] \in part[p[1]]
      BY <1>3
    <3> QED
      BY <3>1 DEF Splits
  <2> QED
    BY <2>1
<1>5. ASSUME NEW p \in Points(rows), NEW q \in Points(rows), G[p] = G[q] PROVE p = q
  <2>0. p[1] \in DOMAIN rows /\ q[1] \in DOMAIN rows /\ G[p] \in part[p[1]] /\ G[p] \in part[q[1]]
    BY <1>3, <1>5
  <2>1. p[1] = q[1]
    BY <2>0 DEF Splits
  <2>2. p[2] = q[2]
    BY <1>2, <1>3, <1>5, <2>0, <2>1
  <2> QED
    BY <1>3, <2>1, <2>2
<1>6. G \in Injection(Points(rows), S)
    BY <1>4, <1>5 DEF Injection, IsInjective
<1>7. ASSUME NEW b \in DOMAIN rows, rows[b] = Cardinality(part[b]), NEW x \in part[b]
      PROVE  \E p \in Points(rows) : G[p] = x
  <2>1. PICK n \in 1 .. rows[b] : pick[b][n] = x
    BY <1>2, <1>7
  <2>2. <<b, n>> \in Points(rows)
    BY <2>1, PointIs
  <2>3. G[<<b, n>>] = x
    BY <2>1, <2>2
  <2> QED
    BY <2>2, <2>3
<1> QED
    BY <1>6, <1>7

LEMMA SumBound ==
    ASSUME NEW rows, IsTable(rows), NEW S, IsFiniteSet(S), NEW part, Splits(part, rows, S)
    PROVE  IsFiniteSet(Points(rows)) /\ Total(rows) \in Nat /\ Total(rows) <= Cardinality(S)
<1>1. PICK G \in Injection(Points(rows), S) : TRUE
    BY Embedded
<1>2. IsFiniteSet(Points(rows)) /\ Cardinality(Points(rows)) <= Cardinality(S)
    BY <1>1, FS_Injection
<1> QED
    BY <1>2, FS_CardinalityType DEF Total

LEMMA SumExact ==
    ASSUME NEW rows, IsTable(rows), NEW S, IsFiniteSet(S), NEW part, Splits(part, rows, S),
           \A b \in DOMAIN rows : rows[b] = Cardinality(part[b]),
           \A x \in S : \E b \in DOMAIN rows : x \in part[b]
    PROVE  Total(rows) = Cardinality(S)
<1>1. PICK G \in Injection(Points(rows), S) :
              \A b \in DOMAIN rows : rows[b] = Cardinality(part[b]) =>
                 \A x \in part[b] : \E p \in Points(rows) : G[p] = x
    BY Embedded
<1>2. G \in Surjection(Points(rows), S)
    BY <1>1 DEF Surjection, Injection
<1> QED
    BY <1>1, <1>2, FS_Injection DEF Total

-----------------------------------------------------------------------------
(* Tables of events and their rollups. *)

\* A table that counts no event the other one does not count.
Within(rows, all) ==
    /\ IsTable(rows) /\ IsTable(all)
    /\ \A t \in DOMAIN rows : t \in DOMAIN all /\ rows[t] <= all[t]

\* A table of events: there are finitely many.
Finite(rows) == IsTable(rows) /\ IsFiniteSet(Points(rows))

LEMMA WithinPoints ==
    ASSUME NEW rows, NEW all, Within(rows, all)
    PROVE  Points(rows) \subseteq Points(all)
<1> SUFFICES ASSUME NEW p \in Points(rows) PROVE p \in Points(all)
    OBVIOUS
<1>1. p = <<p[1], p[2]>> /\ p[1] \in DOMAIN rows /\ p[2] \in 1 .. rows[p[1]]
    BY PointParts
<1>2. p[1] \in DOMAIN all /\ rows[p[1]] <= all[p[1]] /\ rows[p[1]] \in Nat /\ all[p[1]] \in Nat
    BY <1>1 DEF Within, IsTable
<1>3. p[2] \in 1 .. all[p[1]]
    BY <1>1, <1>2
<1> QED
    BY <1>1, <1>2, <1>3, PointIs

LEMMA WithinTotal ==
    ASSUME NEW rows, NEW all, Within(rows, all), Finite(all)
    PROVE  Finite(rows) /\ Total(rows) \in Nat /\ Total(all) \in Nat /\ Total(rows) <= Total(all)
<1>1. Points(rows) \in SUBSET Points(all) /\ IsFiniteSet(Points(all))
    BY WithinPoints DEF Finite
<1> QED
    BY <1>1, FS_Subset, FS_CardinalityType DEF Finite, Total, Within

LEMMA BetweenIs ==
    ASSUME NEW rows, NEW lo, NEW hi
    PROVE  /\ \A x : x \in DOMAIN Between(rows, lo, hi) <=> x \in DOMAIN rows /\ x >= lo /\ x < hi
           /\ \A b \in DOMAIN Between(rows, lo, hi) : Between(rows, lo, hi)[b] = rows[b]
           /\ IsTable(rows) => IsTable(Between(rows, lo, hi))
BY DEF Between, IsTable

LEMMA FromIs ==
    ASSUME NEW rows, NEW lo
    PROVE  /\ \A x : x \in DOMAIN From(rows, lo) <=> x \in DOMAIN rows /\ x >= lo
           /\ \A b \in DOMAIN From(rows, lo) : From(rows, lo)[b] = rows[b]
           /\ IsTable(rows) => IsTable(From(rows, lo))
BY DEF From, IsTable

LEMMA GroupIs ==
    ASSUME NEW rows, NEW size, NEW b
    PROVE  /\ \A x : x \in DOMAIN Group(rows, size, b) <=> x \in DOMAIN rows /\ Trunc(x, size) = b
           /\ \A t \in DOMAIN Group(rows, size, b) : Group(rows, size, b)[t] = rows[t]
           /\ IsTable(rows) => IsTable(Group(rows, size, b))
BY DEF Group, IsTable

LEMMA WithinSelf ==
    ASSUME NEW rows, IsTable(rows)
    PROVE  Within(rows, rows)
BY DEF IsTable, Within

LEMMA WithinBetween ==
    ASSUME NEW rows, NEW all, Within(rows, all), NEW lo, NEW hi
    PROVE  Within(Between(rows, lo, hi), all) /\ Within(Between(rows, lo, hi), Between(all, lo, hi))
<1>1. /\ IsTable(Between(rows, lo, hi)) /\ IsTable(Between(all, lo, hi))
      /\ \A t \in DOMAIN rows : t \in DOMAIN all /\ rows[t] <= all[t]
    BY BetweenIs DEF Within
<1> QED
    BY <1>1, BetweenIs DEF Within

LEMMA WithinFrom ==
    ASSUME NEW rows, NEW all, Within(rows, all), NEW lo
    PROVE  Within(From(rows, lo), all)
BY FromIs DEF Within

LEMMA BetweenFinite ==
    ASSUME NEW rows, Finite(rows), NEW lo, NEW hi
    PROVE  Finite(Between(rows, lo, hi)) /\ Total(Between(rows, lo, hi)) \in Nat
<1>1. Within(Between(rows, lo, hi), rows)
    BY WithinSelf, WithinBetween DEF Finite
<1> QED
    BY <1>1, WithinTotal

\* Rows of buckets of one size that hold events, none of which counts more than there are.
Under(rows, size, all) ==
    /\ IsTable(rows)
    /\ \A b \in DOMAIN rows : /\ \E t \in DOMAIN all : b = Trunc(t, size)
                              /\ rows[b] <= Total(Between(all, b, b + size))

LEMMA RollupIs ==
    ASSUME NEW rows, NEW size
    PROVE  /\ \A x : x \in DOMAIN Rollup(rows, size) <=> \E t \in DOMAIN rows : x = Trunc(t, size)
           /\ \A b \in DOMAIN Rollup(rows, size) : Rollup(rows, size)[b] = Total(Group(rows, size, b))
BY DEF Rollup

LEMMA RollupUnder ==
    ASSUME NEW rows, NEW all, Within(rows, all), Finite(all), NEW size \in Nat \ {0}
    PROVE  Under(Rollup(rows, size), size, all)
<1> DEFINE R == Rollup(rows, size)
<1>1. ASSUME NEW b \in DOMAIN R
      PROVE  /\ \E t \in DOMAIN all : b = Trunc(t, size)
             /\ b \in Nat /\ R[b] \in Nat
             /\ R[b] <= Total(Between(all, b, b + size))
  <2>1. PICK t \in DOMAIN rows : b = Trunc(t, size)
    BY RollupIs
  <2>2. t \in DOMAIN all /\ t \in Nat /\ b \in Nat
    BY <2>1, Truncated DEF Within, IsTable
  <2>3. Within(Group(rows, size, b), Between(all, b, b + size))
    <3>1. IsTable(Group(rows, size, b)) /\ IsTable(Between(all, b, b + size))
      BY GroupIs, BetweenIs DEF Within
    <3>2. ASSUME NEW x \in DOMAIN Group(rows, size, b)
          PROVE  x \in DOMAIN Between(all, b, b + size) /\ Group(rows, size, b)[x] <= Between(all, b, b + size)[x]
      <4>1. x \in DOMAIN rows /\ Trunc(x, size) = b /\ Group(rows, size, b)[x] = rows[x]
        BY GroupIs
      <4>2. x \in Nat /\ x \in DOMAIN all /\ rows[x] <= all[x]
        BY <4>1 DEF Within, IsTable
      <4>3. x >= b /\ x < b + size
        BY <4>1, <4>2, Truncated
      <4> QED
        BY <4>1, <4>2, <4>3, BetweenIs
    <3> QED
      BY <3>1, <3>2 DEF Within
  <2>4. Total(Group(rows, size, b)) \in Nat /\ Total(Group(rows, size, b)) <= Total(Between(all, b, b + size))
    BY <2>3, WithinTotal, BetweenFinite
  <2>5. R[b] = Total(Group(rows, size, b))
    BY RollupIs
  <2> QED
    BY <2>1, <2>2, <2>4, <2>5
<1>2. IsTable(R)
  <2>1. R = [b \in DOMAIN R |-> R[b]]
    BY DEF Rollup
  <2> HIDE DEF R
  <2> QED
    BY <1>1, <2>1 DEF IsTable
<1> QED
    BY <1>1, <1>2 DEF Under

-----------------------------------------------------------------------------
(* Rollups of rollups, upserts and new events. *)

LEMMA UnderRow ==
    ASSUME NEW rows, NEW size \in Nat \ {0}, NEW all, IsTable(all), Under(rows, size, all), NEW b \in DOMAIN rows
    PROVE  b \in Nat /\ b % size = 0 /\ rows[b] \in Nat /\ rows[b] <= Total(Between(all, b, b + size))
<1>1. PICK t \in DOMAIN all : b = Trunc(t, size)
    BY DEF Under
<1>2. t \in Nat
    BY DEF IsTable
<1> QED
    BY <1>1, <1>2, Truncated, TruncAligned DEF Under, IsTable

\* The buckets of the finer rows of a coarser bucket are disjoint parts of it.
LEMMA Parted ==
    ASSUME NEW all, Finite(all), NEW fine \in Nat \ {0}, NEW coarse \in Nat \ {0}, coarse % fine = 0,
           NEW rows, Under(rows, fine, all), NEW c \in Nat,
           \A b \in DOMAIN rows : Trunc(b, coarse) = c
    PROVE  Splits([b \in DOMAIN rows |-> Points(Between(all, b, b + fine))], rows,
                  Points(Between(all, c, c + coarse)))
<1> DEFINE part == [b \in DOMAIN rows |-> Points(Between(all, b, b + fine))]
           S == Points(Between(all, c, c + coarse))
<1>0. IsTable(all)
    BY DEF Finite
<1>1. ASSUME NEW b \in DOMAIN rows, NEW p \in part[b]
      PROVE  p[1] \in Nat /\ Trunc(p[1], fine) = b /\ p \in S
  <2>1. b \in Nat /\ b % fine = 0
    BY <1>0, UnderRow
  <2>2. /\ p = <<p[1], p[2]>> /\ p[1] \in DOMAIN Between(all, b, b + fine)
        /\ p[2] \in 1 .. Between(all, b, b + fine)[p[1]]
    BY PointParts
  <2>3. p[1] \in DOMAIN all /\ p[1] >= b /\ p[1] < b + fine /\ Between(all, b, b + fine)[p[1]] = all[p[1]]
    BY <2>2, BetweenIs
  <2>4. p[1] \in Nat
    BY <1>0, <2>3 DEF IsTable
  <2>5. Trunc(p[1], fine) = b
    BY <2>1, <2>3, <2>4, TruncUnique
  <2>6. Trunc(p[1], coarse) = c
    BY <2>4, <2>5, TruncCoarser
  <2>7. p[1] >= c /\ p[1] < c + coarse
    BY <2>4, <2>6, Truncated
  <2>8. p[1] \in DOMAIN Between(all, c, c + coarse) /\ Between(all, c, c + coarse)[p[1]] = all[p[1]]
    BY <2>3, <2>7, BetweenIs
  <2>9. p[2] \in 1 .. Between(all, c, c + coarse)[p[1]]
    BY <2>2, <2>3, <2>8
  <2> QED
    BY <2>2, <2>4, <2>5, <2>8, <2>9, PointIs
<1>2. part \in [DOMAIN rows -> SUBSET S]
  <2>1. \A b \in DOMAIN rows : part[b] \in SUBSET S
    BY <1>1
  <2> QED
    BY <2>1
<1>3. \A a, b \in DOMAIN rows : a # b => part[a] \cap part[b] = {}
    BY <1>1
<1>4. \A b \in DOMAIN rows : rows[b] <= Cardinality(part[b])
    BY <1>0, UnderRow DEF Total
<1> QED
    BY <1>2, <1>3, <1>4 DEF Splits

LEMMA UnderPart ==
    ASSUME NEW rows, NEW size, NEW all, Under(rows, size, all), NEW some, IsTable(some),
           \A b \in DOMAIN some : b \in DOMAIN rows /\ some[b] = rows[b]
    PROVE  Under(some, size, all)
BY DEF Under

LEMMA CoarserUnder ==
    ASSUME NEW all, Finite(all), NEW fine \in Nat \ {0}, NEW coarse \in Nat \ {0}, coarse % fine = 0,
           NEW rows, Under(rows, fine, all)
    PROVE  Under(Rollup(rows, coarse), coarse, all)
<1> DEFINE R == Rollup(rows, coarse)
<1>0. IsTable(all) /\ IsTable(rows)
    BY DEF Finite, Under
<1>1. ASSUME NEW c \in DOMAIN R
      PROVE  /\ \E t \in DOMAIN all : c = Trunc(t, coarse)
             /\ c \in Nat /\ R[c] \in Nat
             /\ R[c] <= Total(Between(all, c, c + coarse))
  <2> DEFINE G == Group(rows, coarse, c)
             part == [b \in DOMAIN G |-> Points(Between(all, b, b + fine))]
             S == Points(Between(all, c, c + coarse))
  <2>1. PICK x \in DOMAIN rows : c = Trunc(x, coarse)
    BY RollupIs
  <2>2. PICK t \in DOMAIN all : x = Trunc(t, fine)
    BY DEF Under
  <2>3. t \in Nat /\ c = Trunc(t, coarse) /\ c \in Nat
    BY <1>0, <2>1, <2>2, Truncated, TruncCoarser DEF IsTable
  <2>4. R[c] = Total(G)
    BY RollupIs
  <2>5. IsTable(G) /\ \A b \in DOMAIN G : b \in DOMAIN rows /\ Trunc(b, coarse) = c /\ G[b] = rows[b]
    BY <1>0, GroupIs
  <2> HIDE DEF G
  <2>6. Under(G, fine, all)
    BY <2>5, UnderPart
  <2>7. Splits(part, G, S)
    BY <2>3, <2>5, <2>6, Parted
  <2>8. IsFiniteSet(S)
    BY BetweenFinite DEF Finite
  <2> HIDE DEF part
  <2>9. Total(G) \in Nat /\ Total(G) <= Cardinality(S)
    BY <2>5, <2>7, <2>8, SumBound
  <2> QED
    BY <2>3, <2>4, <2>9 DEF Total
<1>2. IsTable(R)
  <2>1. R = [b \in DOMAIN R |-> R[b]]
    BY DEF Rollup
  <2> HIDE DEF R
  <2> QED
    BY <1>1, <2>1 DEF IsTable
<1> QED
    BY <1>1, <1>2 DEF Under

LEMMA UpsertIs ==
    ASSUME NEW table, NEW rows
    PROVE  /\ \A x : x \in DOMAIN Upsert(table, rows) <=> x \in DOMAIN table \/ x \in DOMAIN rows
           /\ \A x \in DOMAIN rows : Upsert(table, rows)[x] = rows[x]
           /\ \A x \in DOMAIN table : x \notin DOMAIN rows => Upsert(table, rows)[x] = table[x]
           /\ IsTable(table) /\ IsTable(rows) => IsTable(Upsert(table, rows))
BY DEF Upsert, IsTable

LEMMA UpsertUnder ==
    ASSUME NEW table, NEW rows, NEW size, NEW all, Under(table, size, all), Under(rows, size, all)
    PROVE  Under(Upsert(table, rows), size, all)
<1>1. IsTable(Upsert(table, rows))
    BY UpsertIs DEF Under
<1>2. ASSUME NEW b \in DOMAIN Upsert(table, rows)
      PROVE  \/ b \in DOMAIN table /\ Upsert(table, rows)[b] = table[b]
             \/ b \in DOMAIN rows /\ Upsert(table, rows)[b] = rows[b]
    BY UpsertIs
<1> QED
    BY <1>1, <1>2 DEF Under

LEMMA FromUnder ==
    ASSUME NEW rows, NEW size, NEW all, Under(rows, size, all), NEW lo
    PROVE  Under(From(rows, lo), size, all)
<1>1. IsTable(From(rows, lo))
    BY FromIs DEF Under
<1> QED
    BY <1>1, FromIs, UnderPart

LEMMA BetweenUnder ==
    ASSUME NEW rows, NEW size, NEW all, Under(rows, size, all), NEW lo, NEW hi
    PROVE  Under(Between(rows, lo, hi), size, all)
<1>1. IsTable(Between(rows, lo, hi))
    BY BetweenIs DEF Under
<1> QED
    BY <1>1, BetweenIs, UnderPart

\* New events leave what the rows counted true.
LEMMA UnderGrows ==
    ASSUME NEW rows, NEW size \in Nat \ {0}, NEW all, NEW more, Within(all, more), Finite(more),
           Under(rows, size, all)
    PROVE  Under(rows, size, more)
<1>1. ASSUME NEW b \in DOMAIN rows
      PROVE  /\ \E t \in DOMAIN more : b = Trunc(t, size)
             /\ rows[b] <= Total(Between(more, b, b + size))
  <2>1. \E t \in DOMAIN more : b = Trunc(t, size)
    BY DEF Under, Within
  <2>2. rows[b] \in Nat /\ rows[b] <= Total(Between(all, b, b + size))
    BY UnderRow DEF Within
  <2>3. Within(Between(all, b, b + size), Between(more, b, b + size))
    BY WithinBetween
  <2>4. /\ Total(Between(all, b, b + size)) \in Nat /\ Total(Between(more, b, b + size)) \in Nat
        /\ Total(Between(all, b, b + size)) <= Total(Between(more, b, b + size))
    BY <2>3, WithinTotal, BetweenFinite
  <2> QED
    BY <2>1, <2>2, <2>4
<1> QED
    BY <1>1 DEF Under

LEMMA PlusIs ==
    ASSUME NEW rows, IsTable(rows), NEW t \in Nat
    PROVE  /\ IsTable(Plus(rows, t))
           /\ \A x : x \in DOMAIN Plus(rows, t) <=> x \in DOMAIN rows \/ x = t
           /\ \A x \in DOMAIN rows : Plus(rows, t)[x] = IF x = t THEN rows[x] + 1 ELSE rows[x]
           /\ t \notin DOMAIN rows => Plus(rows, t)[t] = 1
BY DEF Plus, IsTable

LEMMA PlusWithin ==
    ASSUME NEW rows, IsTable(rows), NEW t \in Nat
    PROVE  Within(rows, Plus(rows, t))
<1>1. ASSUME NEW x \in DOMAIN rows PROVE x \in DOMAIN Plus(rows, t) /\ rows[x] <= Plus(rows, t)[x]
  <2>1. rows[x] \in Nat
    BY DEF IsTable
  <2>2. x \in DOMAIN Plus(rows, t) /\ Plus(rows, t)[x] = IF x = t THEN rows[x] + 1 ELSE rows[x]
    BY PlusIs
  <2> QED
    BY <2>1, <2>2
<1>2. IsTable(Plus(rows, t))
    BY PlusIs
<1> QED
    BY <1>1, <1>2 DEF Within

LEMMA PlusFinite ==
    ASSUME NEW rows, Finite(rows), NEW t \in Nat
    PROVE  Finite(Plus(rows, t))
<1>0. IsTable(rows) /\ IsTable(Plus(rows, t))
    BY PlusIs DEF Finite
<1> DEFINE n == IF t \in DOMAIN rows THEN rows[t] + 1 ELSE 1
<1>1. ASSUME NEW p \in Points(Plus(rows, t)) PROVE p \in Points(rows) \cup {<<t, n>>}
  <2>1. p = <<p[1], p[2]>> /\ p[1] \in DOMAIN Plus(rows, t) /\ p[2] \in 1 .. Plus(rows, t)[p[1]]
    BY PointParts
  <2>2. CASE p[1] = t /\ t \notin DOMAIN rows
    BY <1>0, <2>1, <2>2, PlusIs
  <2>3. CASE p[1] = t /\ t \in DOMAIN rows
    <3>1. rows[t] \in Nat /\ Plus(rows, t)[t] = rows[t] + 1
      BY <1>0, <2>3, PlusIs DEF IsTable
    <3>2. p[2] \in 1 .. rows[t] \/ p[2] = rows[t] + 1
      BY <2>1, <2>3, <3>1
    <3> QED
      BY <2>1, <2>3, <3>2, PointIs
  <2>4. CASE p[1] # t
    <3>1. p[1] \in DOMAIN rows /\ Plus(rows, t)[p[1]] = rows[p[1]]
      BY <1>0, <2>1, <2>4, PlusIs
    <3> QED
      BY <2>1, <3>1, PointIs
  <2> QED
    BY <2>2, <2>3, <2>4
<1> HIDE DEF n
<1>2. Points(Plus(rows, t)) \in SUBSET (Points(rows) \cup {<<t, n>>})
    BY <1>1
<1>3. IsFiniteSet(Points(rows) \cup {<<t, n>>})
    BY FS_AddElement DEF Finite
<1>4. IsFiniteSet(Points(Plus(rows, t)))
    BY <1>2, <1>3, FS_Subset
<1> QED
    BY <1>0, <1>4 DEF Finite

-----------------------------------------------------------------------------
(* What every step of a run keeps. *)

TierNames == {"raw", "m1", "h1", "d1"}

LEMMA PromisedLeast ==
    ASSUME NEW retention \in {Configured, Defaults}, NEW tier \in TierNames
    PROVE  Promised(tier) \in Nat /\ retention[tier] \in Nat /\ Promised(tier) <= retention[tier]
<1>1. Configured[tier] \in Nat /\ Defaults[tier] \in Nat
    BY TierAssumption DEF TierNames
<1> DEFINE a == Configured[tier]
           b == Defaults[tier]
<1>2. \E x \in {a, b} : \A y \in {a, b} : x =< y
    BY <1>1
<1>3. Promised(tier) \in {a, b} /\ \A y \in {a, b} : Promised(tier) =< y
    BY <1>2 DEF Promised, Min
<1> QED
    BY <1>1, <1>3

\* The events a table must still have: those no younger than a retention of whole days.
Retained(rows, all, time) ==
    \A t \in DOMAIN all : t >= time - Promised("raw") * Day => t \in DOMAIN rows /\ rows[t] >= all[t]

CompactionInv ==
    /\ now \in Nat /\ using \in {Configured, Defaults}
    /\ Finite(stored) /\ \A t \in DOMAIN stored : t <= now + MaxAhead
    /\ Within(raw, stored) /\ Retained(raw, stored, now)
    /\ Under(m1, Minute, stored) /\ Under(h1, Hour, stored) /\ Under(d1, Day, stored)

LEMMA NoRowsAre ==
    /\ IsTable(NoRows) /\ Finite(NoRows) /\ DOMAIN NoRows = {}
<1>1. IsTable(NoRows) /\ DOMAIN NoRows = {}
    BY DEF NoRows, IsTable
<1>2. Points(NoRows) = {}
    BY <1>1, PointParts
<1> QED
    BY <1>1, <1>2, FS_EmptySet DEF Finite

LEMMA CompactionInvInit == CompactionInit => CompactionInv
<1> SUFFICES ASSUME CompactionInit PROVE CompactionInv
    OBVIOUS
<1>1. now = 0 /\ raw = NoRows /\ stored = NoRows /\ m1 = NoRows /\ h1 = NoRows /\ d1 = NoRows /\ using = Defaults
    BY DEF CompactionInit
<1> QED
    BY <1>1, NoRowsAre DEF CompactionInv, Within, Retained, Under

LEMMA CutoffEarly ==
    ASSUME NEW time \in Nat, NEW days \in Nat, NEW fewer \in Nat, fewer <= days
    PROVE  /\ Trunc(time, Day) - days * Day \in Int /\ time - fewer * Day \in Int
           /\ Trunc(time, Day) - days * Day <= time - fewer * Day
<1>1. Day \in Nat
    BY SizeAssumption
<1>2. days * Day \in Nat /\ fewer * Day \in Nat /\ fewer * Day <= days * Day
    BY <1>1
<1>3. Trunc(time, Day) \in Nat /\ Trunc(time, Day) <= time
    BY SizeAssumption, Truncated
<1> QED
    BY <1>2, <1>3

LEMMA CompactionInvInsert ==
    ASSUME CompactionInv, NEW t \in 0 .. (now + MaxAhead), InsertEvent(t)
    PROVE  CompactionInv'
<1>0. /\ now \in Nat /\ using \in {Configured, Defaults} /\ t \in Nat /\ t <= now + MaxAhead
      /\ Finite(stored) /\ Within(raw, stored) /\ Retained(raw, stored, now)
      /\ IsTable(stored) /\ IsTable(raw)
      /\ MaxAhead \in Nat
    BY TierAssumption DEF CompactionInv, Within, InsertEvent
<1> DEFINE more == Plus(stored, t)
<1>1. /\ raw' = Plus(raw, t) /\ stored' = more /\ now' = now /\ using' = using
      /\ m1' = m1 /\ h1' = h1 /\ d1' = d1
    BY DEF InsertEvent, tiers
<1>2. Finite(more) /\ Within(stored, more) /\ IsTable(more) /\ IsTable(Plus(raw, t))
    BY <1>0, PlusFinite, PlusWithin, PlusIs
<1>3. \A x \in DOMAIN more : x <= now + MaxAhead
    BY <1>0, PlusIs DEF CompactionInv
<1>4. Under(m1, Minute, more) /\ Under(h1, Hour, more) /\ Under(d1, Day, more)
    BY <1>2, UnderGrows, SizeAssumption DEF CompactionInv
<1>5. Within(Plus(raw, t), more)
  <2>1. ASSUME NEW x \in DOMAIN Plus(raw, t) PROVE x \in DOMAIN more /\ Plus(raw, t)[x] <= more[x]
    <3>1. CASE x \in DOMAIN raw
      <4>1. x \in DOMAIN stored /\ raw[x] <= stored[x] /\ raw[x] \in Nat /\ stored[x] \in Nat
        BY <1>0, <3>1 DEF Within, IsTable
      <4>2. Plus(raw, t)[x] = IF x = t THEN raw[x] + 1 ELSE raw[x]
        BY <1>0, <3>1, PlusIs
      <4>3. x \in DOMAIN more /\ more[x] = IF x = t THEN stored[x] + 1 ELSE stored[x]
        BY <1>0, <4>1, PlusIs
      <4> QED
        BY <4>1, <4>2, <4>3
    <3>2. CASE x \notin DOMAIN raw
      <4>1. x = t /\ Plus(raw, t)[x] = 1 /\ x \in DOMAIN more
        BY <1>0, <3>2, PlusIs
      <4>2. more[x] \in Nat /\ (x \in DOMAIN stored => stored[x] \in Nat /\ more[x] = stored[x] + 1)
                            /\ (x \notin DOMAIN stored => more[x] = 1)
        BY <1>0, <1>2, <4>1, PlusIs DEF IsTable
      <4> QED
        BY <4>1, <4>2
    <3> QED
      BY <3>1, <3>2
  <2> QED
    BY <1>2, <2>1 DEF Within
<1>6. Retained(Plus(raw, t), more, now)
  <2>1. ASSUME NEW x \in DOMAIN more, x >= now - Promised("raw") * Day
        PROVE  x \in DOMAIN Plus(raw, t) /\ Plus(raw, t)[x] >= more[x]
    <3>1. CASE x \in DOMAIN stored
      <4>1. x \in DOMAIN raw /\ raw[x] >= stored[x] /\ raw[x] \in Nat /\ stored[x] \in Nat
        BY <1>0, <2>1, <3>1 DEF Retained, IsTable
      <4>2. x \in DOMAIN Plus(raw, t) /\ Plus(raw, t)[x] = IF x = t THEN raw[x] + 1 ELSE raw[x]
        BY <1>0, <4>1, PlusIs
      <4>3. more[x] = IF x = t THEN stored[x] + 1 ELSE stored[x]
        BY <1>0, <3>1, PlusIs
      <4> QED
        BY <4>1, <4>2, <4>3
    <3>2. CASE x \notin DOMAIN stored
      <4>1. x = t /\ more[x] = 1
        BY <1>0, <3>2, PlusIs
      <4>2. x \notin DOMAIN raw
        BY <1>0, <3>2 DEF Within
      <4>3. x \in DOMAIN Plus(raw, t) /\ Plus(raw, t)[x] = 1
        BY <1>0, <4>1, <4>2, PlusIs
      <4> QED
        BY <4>1, <4>3
    <3> QED
      BY <3>1, <3>2
  <2> QED
    BY <2>1 DEF Retained
<1> HIDE DEF more
<1> QED
    BY <1>0, <1>1, <1>2, <1>3, <1>4, <1>5, <1>6 DEF CompactionInv

LEMMA CompactionInvNext ==
    ASSUME CompactionInv, [CompactionNext]_compactionVars
    PROVE  CompactionInv'
<1>0. /\ now \in Nat /\ using \in {Configured, Defaults} /\ Finite(stored) /\ IsTable(stored)
      /\ Within(raw, stored) /\ Retained(raw, stored, now) /\ \A t \in DOMAIN stored : t <= now + MaxAhead
      /\ Under(m1, Minute, stored) /\ Under(h1, Hour, stored) /\ Under(d1, Day, stored)
    BY DEF CompactionInv, Within
<1>1. ASSUME NEW t \in 0 .. (now + MaxAhead), InsertEvent(t) PROVE CompactionInv'
    BY <1>1, CompactionInvInsert
<1>2. CASE Tick
  <2>1. /\ now' = now + 1 /\ raw' = raw /\ stored' = stored /\ using' = using
        /\ m1' = m1 /\ h1' = h1 /\ d1' = d1
    BY <1>2 DEF Tick, tiers
  <2>2. \A t \in DOMAIN stored : t \in Nat /\ t <= (now + 1) + MaxAhead
    BY <1>0, TierAssumption DEF IsTable
  <2>3. Promised("raw") * Day \in Nat
    BY PromisedLeast, SizeAssumption DEF TierNames
  <2>4. Retained(raw, stored, now + 1)
    BY <1>0, <2>2, <2>3 DEF Retained
  <2> QED
    BY <1>0, <2>1, <2>2, <2>4 DEF CompactionInv
<1>3. ASSUME NEW retention \in {Defaults, Configured}, Start(retention) PROVE CompactionInv'
    BY <1>0, <1>3 DEF Start, tiers, CompactionInv
<1>4. CASE DropPartitions
  <2> DEFINE left == From(raw, CutoffDay(using.raw))
  <2>1. /\ raw' = left /\ now' = now /\ stored' = stored /\ using' = using
        /\ m1' = m1 /\ h1' = h1 /\ d1' = d1
    BY <1>4 DEF DropPartitions, tiers
  <2>2. Within(left, stored)
    BY <1>0, WithinFrom
  <2>3. Retained(left, stored, now)
    <3>1. /\ using.raw \in Nat /\ Promised("raw") \in Nat /\ Promised("raw") <= using.raw
      BY <1>0, PromisedLeast DEF TierNames
    <3>2. /\ CutoffDay(using.raw) \in Int /\ now - Promised("raw") * Day \in Int
          /\ CutoffDay(using.raw) <= now - Promised("raw") * Day
      BY <1>0, <3>1, CutoffEarly DEF CutoffDay
    <3>3. ASSUME NEW t \in DOMAIN stored, t >= now - Promised("raw") * Day
          PROVE  t \in DOMAIN left /\ left[t] >= stored[t]
      <4>1. t \in Nat /\ t \in DOMAIN raw /\ raw[t] >= stored[t]
        BY <1>0, <3>3 DEF Retained, IsTable
      <4>2. t >= CutoffDay(using.raw)
        BY <3>2, <3>3, <4>1
      <4> QED
        BY <4>1, <4>2, FromIs
    <3> QED
      BY <3>3 DEF Retained
  <2> HIDE DEF left
  <2> QED
    BY <1>0, <2>1, <2>2, <2>3 DEF CompactionInv
<1>5. CASE Downsample1m
  <2>1. Under(Rollup(Between(raw, now - M1Window, now + Minute), Minute), Minute, stored)
    BY <1>0, WithinBetween, RollupUnder, SizeAssumption
  <2>2. Under(Upsert(m1, Rollup(Between(raw, now - M1Window, now + Minute), Minute)), Minute, stored)
    BY <1>0, <2>1, UpsertUnder
  <2> QED
    BY <1>0, <1>5, <2>2 DEF Downsample1m, CompactionInv
<1>6. CASE Aggregate1h
  <2>1. Under(Between(m1, now - H1Window, now + Hour), Minute, stored)
    BY <1>0, BetweenUnder
  <2>2. Under(Rollup(Between(m1, now - H1Window, now + Hour), Hour), Hour, stored)
    BY <1>0, <2>1, CoarserUnder, SizeAssumption
  <2>3. Under(Upsert(h1, Rollup(Between(m1, now - H1Window, now + Hour), Hour)), Hour, stored)
    BY <1>0, <2>2, UpsertUnder
  <2> QED
    BY <1>0, <1>6, <2>3 DEF Aggregate1h, CompactionInv
<1>7. CASE Aggregate1d
  <2>1. Under(Between(h1, now - D1Window, now + Day), Hour, stored)
    BY <1>0, BetweenUnder
  <2>2. Under(Rollup(Between(h1, now - D1Window, now + Day), Day), Day, stored)
    BY <1>0, <2>1, CoarserUnder, SizeAssumption
  <2>3. Under(Upsert(d1, Rollup(Between(h1, now - D1Window, now + Day), Day)), Day, stored)
    BY <1>0, <2>2, UpsertUnder
  <2> QED
    BY <1>0, <1>7, <2>3 DEF Aggregate1d, CompactionInv
<1>8. CASE Trim1m
    BY <1>0, <1>8, FromUnder DEF Trim1m, CompactionInv
<1>9. CASE Trim1h
    BY <1>0, <1>9, FromUnder DEF Trim1h, CompactionInv
<1>10. CASE Trim1d
    BY <1>0, <1>10, FromUnder DEF Trim1d, CompactionInv
<1>11. CASE QueryRejected
    BY <1>0, <1>11 DEF QueryRejected, tiers, CompactionInv
<1>12. CASE UNCHANGED compactionVars
    BY <1>0, <1>12 DEF compactionVars, tiers, CompactionInv
<1> QED
    BY <1>1, <1>2, <1>3, <1>4, <1>5, <1>6, <1>7, <1>8, <1>9, <1>10, <1>11, <1>12 DEF CompactionNext, Phases

LEMMA CompactionInvHolds == CompactionSpec => []CompactionInv
BY CompactionInvInit, CompactionInvNext, PTL DEF CompactionSpec

\* For all bucket sizes, windows and retentions: no minute, hour or day of compact() counts more
\* events than were inserted for it, however phases overlap, fail and run again.
THEOREM AlwaysNeverOvercounts == CompactionSpec => []NeverOvercounts
<1>1. CompactionInv => NeverOvercounts
    BY DEF CompactionInv, Under, NeverOvercounts, Counted
<1> QED
    BY <1>1, CompactionInvHolds, PTL

LEMMA TrimKeeps ==
    ASSUME NEW rows, IsTable(rows), NEW time \in Nat, NEW kept \in Nat, NEW promised \in Nat, promised <= kept,
           NEW b \in DOMAIN rows, b >= time - promised
    PROVE  b \in DOMAIN From(rows, time - kept)
<1>1. b \in Nat
    BY DEF IsTable
<1>2. b >= time - kept
    BY <1>1
<1> QED
    BY <1>2, FromIs

LEMMA StepKeeps ==
    ASSUME CompactionInv, CompactionInv', [CompactionNext]_compactionVars
    PROVE  /\ \A t \in DOMAIN stored : t >= now' - Promised("raw") * Day => t \in DOMAIN raw' /\ raw'[t] >= stored[t]
           /\ \A b \in DOMAIN m1 : b >= now' - Promised("m1") => b \in DOMAIN m1'
           /\ \A b \in DOMAIN h1 : b >= now' - Promised("h1") => b \in DOMAIN h1'
           /\ \A b \in DOMAIN d1 : b >= now' - Promised("d1") => b \in DOMAIN d1'
<1>0. /\ now \in Nat /\ now' \in Nat /\ using \in {Configured, Defaults} /\ Retained(raw', stored', now')
      /\ IsTable(stored) /\ IsTable(stored') /\ IsTable(raw')
      /\ IsTable(m1) /\ IsTable(h1) /\ IsTable(d1)
    BY DEF CompactionInv, Within, Under
<1>1. \A t \in DOMAIN stored : t >= now' - Promised("raw") * Day => t \in DOMAIN raw' /\ raw'[t] >= stored[t]
  <2>1. ASSUME NEW t \in DOMAIN stored PROVE t \in DOMAIN stored' /\ stored'[t] >= stored[t]
    <3>1. CASE stored' = stored
      BY <1>0, <3>1 DEF IsTable
    <3>2. ASSUME NEW x \in 0 .. (now + MaxAhead), InsertEvent(x) PROVE t \in DOMAIN stored' /\ stored'[t] >= stored[t]
      <4>1. stored' = Plus(stored, x) /\ Within(stored, Plus(stored, x))
        BY <1>0, <3>2, PlusWithin DEF InsertEvent
      <4>2. t \in DOMAIN Plus(stored, x) /\ stored[t] <= Plus(stored, x)[t]
        BY <4>1 DEF Within
      <4>3. stored[t] \in Nat /\ Plus(stored, x)[t] \in Nat
        BY <1>0, <4>1, <4>2 DEF IsTable
      <4> QED
        BY <4>1, <4>2, <4>3
    <3>3. stored' = stored \/ \E x \in 0 .. (now + MaxAhead) : InsertEvent(x)
      BY DEF CompactionNext, Phases, Tick, Start, DropPartitions, Downsample1m, Aggregate1h, Aggregate1d, Trim1m, Trim1h,
             Trim1d, QueryRejected, compactionVars
    <3> QED
      BY <3>1, <3>2, <3>3
  <2>2. ASSUME NEW t \in DOMAIN stored, t >= now' - Promised("raw") * Day
        PROVE  t \in DOMAIN raw' /\ raw'[t] >= stored[t]
    <3>1. t \in DOMAIN stored' /\ stored'[t] >= stored[t]
      BY <2>1
    <3>2. t \in DOMAIN raw' /\ raw'[t] >= stored'[t]
      BY <1>0, <2>2, <3>1 DEF Retained
    <3>3. stored[t] \in Nat /\ stored'[t] \in Nat /\ raw'[t] \in Nat
      BY <1>0, <3>1, <3>2 DEF IsTable
    <3> QED
      BY <3>1, <3>2, <3>3
  <2> QED
    BY <2>2
<1>2. \A b \in DOMAIN m1 : b >= now' - Promised("m1") => b \in DOMAIN m1'
  <2>1. CASE m1' = m1
    BY <2>1
  <2>2. CASE Downsample1m
    BY <2>2, UpsertIs DEF Downsample1m
  <2>3. CASE Trim1m
    <3>1. m1' = From(m1, now - using.m1) /\ now' = now
      BY <2>3 DEF Trim1m
    <3>2. using.m1 \in Nat /\ Promised("m1") \in Nat /\ Promised("m1") <= using.m1
      BY <1>0, PromisedLeast DEF TierNames
    <3> QED
      BY <1>0, <3>1, <3>2, TrimKeeps
  <2>4. m1' = m1 \/ Downsample1m \/ Trim1m
    BY DEF CompactionNext, Phases, Tick, Start, DropPartitions, InsertEvent, Aggregate1h, Aggregate1d, Trim1h,
           Trim1d, QueryRejected, compactionVars, tiers
  <2> QED
    BY <2>1, <2>2, <2>3, <2>4
<1>3. \A b \in DOMAIN h1 : b >= now' - Promised("h1") => b \in DOMAIN h1'
  <2>1. CASE h1' = h1
    BY <2>1
  <2>2. CASE Aggregate1h
    BY <2>2, UpsertIs DEF Aggregate1h
  <2>3. CASE Trim1h
    <3>1. h1' = From(h1, now - using.h1) /\ now' = now
      BY <2>3 DEF Trim1h
    <3>2. using.h1 \in Nat /\ Promised("h1") \in Nat /\ Promised("h1") <= using.h1
      BY <1>0, PromisedLeast DEF TierNames
    <3> QED
      BY <1>0, <3>1, <3>2, TrimKeeps
  <2>4. h1' = h1 \/ Aggregate1h \/ Trim1h
    BY DEF CompactionNext, Phases, Tick, Start, DropPartitions, InsertEvent, Downsample1m, Aggregate1d, Trim1m,
           Trim1d, QueryRejected, compactionVars, tiers
  <2> QED
    BY <2>1, <2>2, <2>3, <2>4
<1>4. \A b \in DOMAIN d1 : b >= now' - Promised("d1") => b \in DOMAIN d1'
  <2>1. CASE d1' = d1
    BY <2>1
  <2>2. CASE Aggregate1d
    BY <2>2, UpsertIs DEF Aggregate1d
  <2>3. CASE Trim1d
    <3>1. d1' = From(d1, now - using.d1) /\ now' = now
      BY <2>3 DEF Trim1d
    <3>2. using.d1 \in Nat /\ Promised("d1") \in Nat /\ Promised("d1") <= using.d1
      BY <1>0, PromisedLeast DEF TierNames
    <3> QED
      BY <1>0, <3>1, <3>2, TrimKeeps
  <2>4. d1' = d1 \/ Aggregate1d \/ Trim1d
    BY DEF CompactionNext, Phases, Tick, Start, DropPartitions, InsertEvent, Downsample1m, Aggregate1h, Trim1m,
           Trim1h, QueryRejected, compactionVars, tiers
  <2> QED
    BY <2>1, <2>2, <2>3, <2>4
<1> QED
    BY <1>1, <1>2, <1>3, <1>4

\* For all bucket sizes, windows and retentions: no phase of compact() drops an event or a row
\* before the shorter of the two retentions ends, although partitions go by whole days.
THEOREM RetentionAlwaysKept == CompactionSpec => RetentionKept
<1>1. CompactionInv /\ CompactionInv' /\ [CompactionNext]_compactionVars =>
          [/\ \A t \in DOMAIN stored : t >= now' - Promised("raw") * Day => t \in DOMAIN raw' /\ raw'[t] >= stored[t]
           /\ \A b \in DOMAIN m1 : b >= now' - Promised("m1") => b \in DOMAIN m1'
           /\ \A b \in DOMAIN h1 : b >= now' - Promised("h1") => b \in DOMAIN h1'
           /\ \A b \in DOMAIN d1 : b >= now' - Promised("d1") => b \in DOMAIN d1']_compactionVars
    BY StepKeeps
<1> QED
    BY <1>1, CompactionInvHolds, PTL DEF CompactionSpec, RetentionKept

-----------------------------------------------------------------------------
(* Rollups that have every event. *)

\* From a time on, the rows are those of the buckets that hold events, with all of their events.
Exact(rows, size, all, lo) ==
    /\ Under(rows, size, all)
    /\ \A t \in DOMAIN all : Trunc(t, size) >= lo => Trunc(t, size) \in DOMAIN rows
    /\ \A b \in DOMAIN rows : b >= lo => rows[b] = Total(Between(all, b, b + size))

\* From a time on, the table has every event.
Whole(rows, all, lo) ==
    /\ Within(rows, all)
    /\ \A t \in DOMAIN all : t >= lo => t \in DOMAIN rows /\ rows[t] = all[t]

LEMMA GroupSame ==
    ASSUME NEW rows, NEW all, Within(rows, all), NEW size \in Nat \ {0}, NEW c \in Nat, c % size = 0,
           \A t \in DOMAIN all : t >= c /\ t < c + size => t \in DOMAIN rows /\ rows[t] = all[t]
    PROVE  Group(rows, size, c) = Between(all, c, c + size)
<1> DEFINE G == Group(rows, size, c)
           B == Between(all, c, c + size)
<1>1. ASSUME NEW t PROVE t \in DOMAIN G <=> t \in DOMAIN B
  <2>1. ASSUME t \in DOMAIN G PROVE t \in DOMAIN B
    <3>1. t \in DOMAIN rows /\ Trunc(t, size) = c
      BY <2>1, GroupIs
    <3>2. t \in Nat /\ t \in DOMAIN all
      BY <3>1 DEF Within, IsTable
    <3>3. t >= c /\ t < c + size
      BY <3>1, <3>2, Truncated
    <3> QED
      BY <3>2, <3>3, BetweenIs
  <2>2. ASSUME t \in DOMAIN B PROVE t \in DOMAIN G
    <3>1. t \in DOMAIN all /\ t >= c /\ t < c + size
      BY <2>2, BetweenIs
    <3>2. t \in Nat /\ t \in DOMAIN rows
      BY <3>1 DEF Within, IsTable
    <3>3. Trunc(t, size) = c
      BY <3>1, <3>2, TruncUnique
    <3> QED
      BY <3>2, <3>3, GroupIs
  <2> QED
    BY <2>1, <2>2
<1>2. ASSUME NEW t \in DOMAIN B PROVE G[t] = B[t]
  <2>1. t \in DOMAIN all /\ t >= c /\ t < c + size /\ B[t] = all[t]
    BY BetweenIs
  <2>2. rows[t] = all[t]
    BY <2>1
  <2>3. t \in DOMAIN G
    BY <1>1
  <2>4. G[t] = rows[t]
    BY <2>3, GroupIs
  <2> QED
    BY <2>1, <2>2, <2>4
<1>3. G = [t \in DOMAIN G |-> G[t]] /\ B = [t \in DOMAIN B |-> B[t]]
    BY DEF Group, Between
<1> HIDE DEF G, B
<1>4. DOMAIN G = DOMAIN B
    BY <1>1
<1>5. G = B
    BY <1>2, <1>3, <1>4
<1> QED
    BY <1>5 DEF G, B

LEMMA TruncFrom ==
    ASSUME NEW t \in Nat, NEW size \in Nat \ {0}, NEW lo \in Int, Trunc(t, size) >= lo
    PROVE  t >= lo
BY Truncated

LEMMA RollupWhole ==
    ASSUME NEW rows, NEW all, NEW lo \in Int, Whole(rows, all, lo), Finite(all), NEW size \in Nat \ {0}
    PROVE  Exact(Rollup(rows, size), size, all, lo)
<1> DEFINE R == Rollup(rows, size)
<1>0. Within(rows, all) /\ IsTable(all)
    BY DEF Whole, Finite
<1>1. Under(R, size, all)
    BY <1>0, RollupUnder
<1>2. ASSUME NEW t \in DOMAIN all, Trunc(t, size) >= lo PROVE Trunc(t, size) \in DOMAIN R
  <2>1. t \in Nat
    BY <1>0 DEF IsTable
  <2>2. t >= lo
    BY <1>2, <2>1, TruncFrom
  <2>3. t \in DOMAIN rows
    BY <2>2 DEF Whole
  <2> QED
    BY <2>3, RollupIs
<1>3. ASSUME NEW b \in DOMAIN R, b >= lo PROVE R[b] = Total(Between(all, b, b + size))
  <2>1. b \in Nat /\ b % size = 0
    BY <1>0, <1>1, UnderRow
  <2>2. ASSUME NEW t \in DOMAIN all, t >= b, t < b + size PROVE t \in DOMAIN rows /\ rows[t] = all[t]
    <3>1. t \in Nat
      BY <1>0 DEF IsTable
    <3>2. t >= lo
      BY <1>3, <2>1, <2>2, <3>1
    <3> QED
      BY <3>2 DEF Whole
  <2>3. Group(rows, size, b) = Between(all, b, b + size)
    BY <1>0, <2>1, <2>2, GroupSame
  <2> QED
    BY <2>3, RollupIs
<1> QED
    BY <1>1, <1>2, <1>3 DEF Exact

LEMMA GroupExact ==
    ASSUME NEW all, Finite(all), NEW fine \in Nat \ {0}, NEW coarse \in Nat \ {0}, coarse % fine = 0,
           NEW rows, Under(rows, fine, all), NEW c \in Nat, c % coarse = 0,
           \A b \in DOMAIN rows : Trunc(b, coarse) = c /\ rows[b] = Total(Between(all, b, b + fine)),
           \A t \in DOMAIN all : Trunc(t, coarse) = c => Trunc(t, fine) \in DOMAIN rows
    PROVE  Total(rows) = Total(Between(all, c, c + coarse))
<1> DEFINE part == [b \in DOMAIN rows |-> Points(Between(all, b, b + fine))]
           S == Points(Between(all, c, c + coarse))
<1>0. IsTable(all) /\ IsTable(rows)
    BY DEF Finite, Under
<1>1. Splits(part, rows, S)
    BY Parted
<1>2. IsFiniteSet(S)
    BY BetweenFinite DEF Finite
<1>3. \A b \in DOMAIN rows : rows[b] = Cardinality(part[b])
    BY DEF Total
<1>4. ASSUME NEW x \in S PROVE \E b \in DOMAIN rows : x \in part[b]
  <2> DEFINE C == Between(all, c, c + coarse)
             t == x[1]
             b == Trunc(t, fine)
             F == Between(all, b, b + fine)
  <2>1. x = <<t, x[2]>> /\ t \in DOMAIN C /\ x[2] \in 1 .. C[t]
    BY PointParts
  <2>2. t \in DOMAIN all /\ t >= c /\ t < c + coarse /\ C[t] = all[t]
    BY <2>1, BetweenIs
  <2>3. t \in Nat
    BY <1>0, <2>2 DEF IsTable
  <2>4. Trunc(t, coarse) = c
    BY <2>2, <2>3, TruncUnique
  <2>5. b \in DOMAIN rows
    BY <2>2, <2>4
  <2>6. t >= b /\ t < b + fine
    BY <2>3, Truncated
  <2>7. t \in DOMAIN F /\ F[t] = all[t]
    BY <2>2, <2>6, BetweenIs
  <2>8. x[2] \in 1 .. F[t]
    BY <2>1, <2>2, <2>7
  <2> HIDE DEF F, t, C
  <2>9. x \in Points(F)
    BY <2>1, <2>7, <2>8, PointIs
  <2> QED
    BY <2>5, <2>9 DEF F
<1> HIDE DEF part
<1>5. Total(rows) = Cardinality(S)
    BY <1>0, <1>1, <1>2, <1>3, <1>4, SumExact
<1> QED
    BY <1>5 DEF Total

LEMMA CoarserExact ==
    ASSUME NEW all, Finite(all), NEW fine \in Nat \ {0}, NEW coarse \in Nat \ {0}, coarse % fine = 0,
           NEW rows, NEW lo \in Int, Exact(rows, fine, all, lo)
    PROVE  Exact(Rollup(rows, coarse), coarse, all, lo)
<1> DEFINE R == Rollup(rows, coarse)
<1>0. IsTable(all) /\ Under(rows, fine, all) /\ IsTable(rows)
    BY DEF Finite, Exact, Under
<1>1. Under(R, coarse, all)
    BY <1>0, CoarserUnder
<1>2. ASSUME NEW t \in DOMAIN all, Trunc(t, coarse) >= lo
      PROVE  Trunc(t, fine) \in DOMAIN rows /\ Trunc(Trunc(t, fine), coarse) = Trunc(t, coarse)
  <2>1. t \in Nat
    BY <1>0 DEF IsTable
  <2>2. Trunc(Trunc(t, fine), coarse) = Trunc(t, coarse) /\ Trunc(t, fine) \in Nat
    BY <2>1, TruncCoarser, Truncated
  <2>3. Trunc(t, fine) >= lo
    BY <1>2, <2>2, TruncFrom
  <2> QED
    BY <2>2, <2>3 DEF Exact
<1>3. ASSUME NEW t \in DOMAIN all, Trunc(t, coarse) >= lo PROVE Trunc(t, coarse) \in DOMAIN R
    BY <1>2, <1>3, RollupIs
<1>4. ASSUME NEW c \in DOMAIN R, c >= lo PROVE R[c] = Total(Between(all, c, c + coarse))
  <2> DEFINE G == Group(rows, coarse, c)
  <2>1. c \in Nat /\ c % coarse = 0
    BY <1>0, <1>1, UnderRow
  <2>2. IsTable(G) /\ \A b \in DOMAIN G : b \in DOMAIN rows /\ Trunc(b, coarse) = c /\ G[b] = rows[b]
    BY <1>0, GroupIs
  <2>3. \A b : b \in DOMAIN rows /\ Trunc(b, coarse) = c => b \in DOMAIN G
    BY GroupIs
  <2>4. R[c] = Total(G)
    BY RollupIs
  <2> HIDE DEF G
  <2>5. Under(G, fine, all)
    BY <1>0, <2>2, UnderPart
  <2>6. ASSUME NEW b \in DOMAIN G PROVE G[b] = Total(Between(all, b, b + fine))
    <3>1. b \in Nat
      BY <1>0, <2>2, UnderRow
    <3>2. b >= lo
      BY <1>4, <2>2, <3>1, TruncFrom
    <3> QED
      BY <2>2, <3>2 DEF Exact
  <2>7. ASSUME NEW t \in DOMAIN all, Trunc(t, coarse) = c PROVE Trunc(t, fine) \in DOMAIN G
    BY <1>2, <1>4, <2>3, <2>7
  <2>8. Total(G) = Total(Between(all, c, c + coarse))
    BY <2>1, <2>2, <2>5, <2>6, <2>7, GroupExact
  <2> QED
    BY <2>4, <2>8
<1> QED
    BY <1>1, <1>3, <1>4 DEF Exact

LEMMA UpsertExact ==
    ASSUME NEW table, NEW rows, NEW size, NEW all, NEW lo,
           Under(table, size, all), Exact(rows, size, all, lo)
    PROVE  Exact(Upsert(table, rows), size, all, lo)
<1>1. Under(Upsert(table, rows), size, all)
    BY UpsertUnder DEF Exact
<1>2. \A t \in DOMAIN all : Trunc(t, size) >= lo => Trunc(t, size) \in DOMAIN Upsert(table, rows)
    BY UpsertIs DEF Exact
<1>3. ASSUME NEW b \in DOMAIN Upsert(table, rows), b >= lo
      PROVE  Upsert(table, rows)[b] = Total(Between(all, b, b + size))
  <2>1. \E t \in DOMAIN all : b = Trunc(t, size)
    BY <1>1 DEF Under
  <2>2. b \in DOMAIN rows
    BY <1>3, <2>1 DEF Exact
  <2> QED
    BY <1>3, <2>2, UpsertIs DEF Exact
<1> QED
    BY <1>1, <1>2, <1>3 DEF Exact

LEMMA FromExact ==
    ASSUME NEW rows, NEW size \in Nat \ {0}, NEW all, IsTable(all), NEW lo \in Int, Exact(rows, size, all, lo),
           NEW cut \in Int, cut <= lo
    PROVE  Exact(From(rows, cut), size, all, lo)
<1>1. Under(From(rows, cut), size, all)
    BY FromUnder DEF Exact
<1>2. ASSUME NEW t \in DOMAIN all, Trunc(t, size) >= lo PROVE Trunc(t, size) \in DOMAIN From(rows, cut)
  <2>1. Trunc(t, size) \in Nat
    BY Truncated DEF IsTable
  <2>2. Trunc(t, size) \in DOMAIN rows /\ Trunc(t, size) >= cut
    BY <1>2, <2>1 DEF Exact
  <2> QED
    BY <2>2, FromIs
<1> QED
    BY <1>1, <1>2, FromIs DEF Exact

LEMMA BetweenExact ==
    ASSUME NEW rows, NEW size \in Nat \ {0}, NEW all, IsTable(all), NEW lo \in Int, Exact(rows, size, all, lo),
           NEW cut \in Int, cut <= lo, NEW end \in Nat, \A t \in DOMAIN all : t < end
    PROVE  Exact(Between(rows, cut, end), size, all, lo)
<1>1. Under(Between(rows, cut, end), size, all)
    BY BetweenUnder DEF Exact
<1>2. ASSUME NEW t \in DOMAIN all, Trunc(t, size) >= lo PROVE Trunc(t, size) \in DOMAIN Between(rows, cut, end)
  <2>1. Trunc(t, size) \in Nat /\ Trunc(t, size) <= t /\ t \in Nat /\ t < end
    BY Truncated DEF IsTable
  <2>2. Trunc(t, size) \in DOMAIN rows /\ Trunc(t, size) >= cut /\ Trunc(t, size) < end
    BY <1>2, <2>1 DEF Exact
  <2> QED
    BY <2>2, BetweenIs
<1> QED
    BY <1>1, <1>2, BetweenIs DEF Exact

-----------------------------------------------------------------------------
(* Undisturbed runs. *)

\* No retention is shorter than the time the first rollup looks back.
LookBackKept ==
    /\ M1Window <= Promised("raw") * Day
    /\ M1Window <= Promised("m1") /\ M1Window <= Promised("h1") /\ M1Window <= Promised("d1")

\* No event lies a minute ahead, which is what the rollup of the minutes reaches to.
SkewShort == MaxAhead < Minute

\* What an undisturbed run has achieved in each phase.
Fresh ==
    undisturbed =>
        /\ phase \in {"h1", "d1", "trim1m", "trim1h", "trim1d", "idle"} => Exact(m1, Minute, stored, now - M1Window)
        /\ phase \in {"d1", "trim1m", "trim1h", "trim1d", "idle"} => Exact(h1, Hour, stored, now - M1Window)
        /\ phase \in {"trim1m", "trim1h", "trim1d", "idle"} => Exact(d1, Day, stored, now - M1Window)

LEMMA RetentionLong ==
    ASSUME LookBackKept, NEW retention \in {Configured, Defaults}, NEW time \in Nat
    PROVE  /\ time - M1Window \in Int
           /\ time - retention.raw * Day \in Int /\ time - retention.raw * Day <= time - M1Window
           /\ time - retention.m1 \in Int /\ time - retention.m1 <= time - M1Window
           /\ time - retention.h1 \in Int /\ time - retention.h1 <= time - M1Window
           /\ time - retention.d1 \in Int /\ time - retention.d1 <= time - M1Window
<1>1. /\ retention.raw \in Nat /\ Promised("raw") \in Nat /\ Promised("raw") <= retention.raw
      /\ retention.m1 \in Nat /\ Promised("m1") \in Nat /\ Promised("m1") <= retention.m1
      /\ retention.h1 \in Nat /\ Promised("h1") \in Nat /\ Promised("h1") <= retention.h1
      /\ retention.d1 \in Nat /\ Promised("d1") \in Nat /\ Promised("d1") <= retention.d1
    BY PromisedLeast DEF TierNames
<1>2. M1Window \in Nat /\ Day \in Nat
    BY TierAssumption, SizeAssumption
<1>3. Promised("raw") * Day \in Nat /\ retention.raw * Day \in Nat /\ Promised("raw") * Day <= retention.raw * Day
    BY <1>1, <1>2
<1>4. M1Window <= Promised("raw") * Day
    BY DEF LookBackKept
<1>5. time - retention.raw * Day \in Int /\ time - retention.raw * Day <= time - M1Window
    BY <1>2, <1>3, <1>4
<1> QED
    BY <1>1, <1>2, <1>5 DEF LookBackKept

LEMMA RetainedWhole ==
    ASSUME LookBackKept, CompactionInv
    PROVE  Whole(raw, stored, now - M1Window)
<1>1. ASSUME NEW t \in DOMAIN stored, t >= now - M1Window PROVE t \in DOMAIN raw /\ raw[t] = stored[t]
  <2>1. t \in Nat /\ now \in Nat /\ stored[t] \in Nat
    BY DEF CompactionInv, Finite, IsTable
  <2>2. M1Window \in Nat /\ Promised("raw") * Day \in Nat
    BY TierAssumption, SizeAssumption, PromisedLeast DEF TierNames
  <2>3. t >= now - Promised("raw") * Day
    BY <1>1, <2>1, <2>2 DEF LookBackKept
  <2>4. t \in DOMAIN raw /\ raw[t] >= stored[t]
    BY <2>3 DEF CompactionInv, Retained
  <2>5. raw[t] \in Nat /\ raw[t] <= stored[t]
    BY <2>4 DEF CompactionInv, Within, IsTable
  <2> QED
    BY <2>1, <2>4, <2>5
<1> QED
    BY <1>1 DEF Whole, CompactionInv

LEMMA WholeBetween ==
    ASSUME NEW rows, NEW all, NEW lo \in Int, Whole(rows, all, lo), NEW end \in Nat, \A t \in DOMAIN all : t < end
    PROVE  Whole(Between(rows, lo, end), all, lo)
<1>1. Within(Between(rows, lo, end), all)
    BY WithinBetween DEF Whole
<1>2. ASSUME NEW t \in DOMAIN all, t >= lo
      PROVE  t \in DOMAIN Between(rows, lo, end) /\ Between(rows, lo, end)[t] = all[t]
    BY <1>2, BetweenIs DEF Whole
<1> QED
    BY <1>1, <1>2 DEF Whole

\* A longer bucket is no shorter than the one it is made of.
LEMMA LongerBucket ==
    ASSUME NEW short \in Nat \ {0}, NEW long \in Nat \ {0}, long % short = 0
    PROVE  short <= long
<1>1. ASSUME long < short PROVE long % short = long
    BY <1>1
<1> QED
    BY <1>1

LEMMA FreshNext ==
    ASSUME LookBackKept, SkewShort, CompactionInv, Fresh, [CompactionNext]_compactionVars
    PROVE  Fresh'
<1> DEFINE lo == now - M1Window
<1>0. /\ now \in Nat /\ using \in {Configured, Defaults} /\ Finite(stored) /\ IsTable(stored)
      /\ Under(m1, Minute, stored) /\ Under(h1, Hour, stored) /\ Under(d1, Day, stored)
      /\ lo \in Int /\ now - H1Window \in Int /\ now - D1Window \in Int
      /\ now - H1Window <= lo /\ now - D1Window <= lo
      /\ now + Minute \in Nat /\ now + Hour \in Nat /\ now + Day \in Nat
    BY TierAssumption, SizeAssumption DEF CompactionInv, Finite
<1>1. \A t \in DOMAIN stored : t < now + Minute /\ t < now + Hour /\ t < now + Day
  <2>1. Minute \in Nat \ {0} /\ Hour \in Nat \ {0} /\ Day \in Nat \ {0}
        /\ Hour % Minute = 0 /\ Day % Hour = 0
    BY SizeAssumption
  <2>2. Minute <= Hour /\ Hour <= Day
    BY <2>1, LongerBucket
  <2>3. MaxAhead \in Nat /\ MaxAhead < Minute
    BY TierAssumption DEF SkewShort
  <2>4. \A t \in DOMAIN stored : t \in Nat /\ t <= now + MaxAhead
    BY <1>0 DEF CompactionInv, IsTable
  <2> QED
    BY <1>0, <2>1, <2>2, <2>3, <2>4
<1>2. CASE UNCHANGED compactionVars
    BY <1>2 DEF compactionVars, tiers, Fresh
<1>3. CASE Tick \/ QueryRejected \/ \E t \in 0 .. (now + MaxAhead) : InsertEvent(t)
    BY <1>3 DEF Tick, QueryRejected, InsertEvent, Fresh
<1>4. ASSUME NEW retention \in {Defaults, Configured}, Start(retention) PROVE Fresh'
    BY <1>4 DEF Start, Fresh
<1>5. CASE DropPartitions
    BY <1>5 DEF DropPartitions, Fresh
<1>6. CASE Downsample1m
  <2>1. Exact(Rollup(Between(raw, lo, now + Minute), Minute), Minute, stored, lo)
    BY <1>0, <1>1, RetainedWhole, WholeBetween, RollupWhole, SizeAssumption
  <2>2. Exact(Upsert(m1, Rollup(Between(raw, lo, now + Minute), Minute)), Minute, stored, lo)
    BY <1>0, <2>1, UpsertExact
  <2> QED
    BY <1>6, <2>2 DEF Downsample1m, Fresh
<1>7. CASE Aggregate1h
  <2> SUFFICES ASSUME undisturbed PROVE Fresh'
    BY <1>7 DEF Aggregate1h, Fresh
  <2>1. Exact(m1, Minute, stored, lo)
    BY <1>7 DEF Aggregate1h, Fresh
  <2>2. Exact(Between(m1, now - H1Window, now + Hour), Minute, stored, lo)
    BY <1>0, <1>1, <2>1, BetweenExact, SizeAssumption
  <2>3. Exact(Rollup(Between(m1, now - H1Window, now + Hour), Hour), Hour, stored, lo)
    BY <1>0, <2>2, CoarserExact, SizeAssumption
  <2>4. Exact(Upsert(h1, Rollup(Between(m1, now - H1Window, now + Hour), Hour)), Hour, stored, lo)
    BY <1>0, <2>3, UpsertExact
  <2> QED
    BY <1>7, <2>1, <2>4 DEF Aggregate1h, Fresh
<1>8. CASE Aggregate1d
  <2> SUFFICES ASSUME undisturbed PROVE Fresh'
    BY <1>8 DEF Aggregate1d, Fresh
  <2>1. Exact(m1, Minute, stored, lo) /\ Exact(h1, Hour, stored, lo)
    BY <1>8 DEF Aggregate1d, Fresh
  <2>2. Exact(Between(h1, now - D1Window, now + Day), Hour, stored, lo)
    BY <1>0, <1>1, <2>1, BetweenExact, SizeAssumption
  <2>3. Exact(Rollup(Between(h1, now - D1Window, now + Day), Day), Day, stored, lo)
    BY <1>0, <2>2, CoarserExact, SizeAssumption
  <2>4. Exact(Upsert(d1, Rollup(Between(h1, now - D1Window, now + Day), Day)), Day, stored, lo)
    BY <1>0, <2>3, UpsertExact
  <2> QED
    BY <1>8, <2>1, <2>4 DEF Aggregate1d, Fresh
<1>9. /\ now - using.m1 \in Int /\ now - using.m1 <= lo
      /\ now - using.h1 \in Int /\ now - using.h1 <= lo
      /\ now - using.d1 \in Int /\ now - using.d1 <= lo
    BY <1>0, RetentionLong
<1>10. CASE Trim1m
  <2> SUFFICES ASSUME undisturbed PROVE Fresh'
    BY <1>10 DEF Trim1m, Fresh
  <2>1. Exact(m1, Minute, stored, lo) /\ Exact(h1, Hour, stored, lo) /\ Exact(d1, Day, stored, lo)
    BY <1>10 DEF Trim1m, Fresh
  <2>2. Exact(From(m1, now - using.m1), Minute, stored, lo)
    BY <1>0, <1>9, <2>1, FromExact, SizeAssumption
  <2> QED
    BY <1>10, <2>1, <2>2 DEF Trim1m, Fresh
<1>11. CASE Trim1h
  <2> SUFFICES ASSUME undisturbed PROVE Fresh'
    BY <1>11 DEF Trim1h, Fresh
  <2>1. Exact(m1, Minute, stored, lo) /\ Exact(h1, Hour, stored, lo) /\ Exact(d1, Day, stored, lo)
    BY <1>11 DEF Trim1h, Fresh
  <2>2. Exact(From(h1, now - using.h1), Hour, stored, lo)
    BY <1>0, <1>9, <2>1, FromExact, SizeAssumption
  <2> QED
    BY <1>11, <2>1, <2>2 DEF Trim1h, Fresh
<1>12. CASE Trim1d
  <2> SUFFICES ASSUME undisturbed PROVE Fresh'
    BY <1>12 DEF Trim1d, Fresh
  <2>1. Exact(m1, Minute, stored, lo) /\ Exact(h1, Hour, stored, lo) /\ Exact(d1, Day, stored, lo)
    BY <1>12 DEF Trim1d, Fresh
  <2>2. Exact(From(d1, now - using.d1), Day, stored, lo)
    BY <1>0, <1>9, <2>1, FromExact, SizeAssumption
  <2> QED
    BY <1>12, <2>1, <2>2 DEF Trim1d, Fresh
<1> QED
    BY <1>2, <1>3, <1>4, <1>5, <1>6, <1>7, <1>8, <1>10, <1>11, <1>12 DEF CompactionNext, Phases

\* Two tables that are exact from a time on have the same rows from then on.
LEMMA ExactSame ==
    ASSUME NEW one, NEW two, NEW size, NEW all, NEW lo,
           Exact(one, size, all, lo), Exact(two, size, all, lo)
    PROVE  From(one, lo) = From(two, lo)
<1> DEFINE A == From(one, lo)
           B == From(two, lo)
<1>1. ASSUME NEW b PROVE b \in DOMAIN A <=> b \in DOMAIN B
  <2>1. b \in DOMAIN one => \E t \in DOMAIN all : b = Trunc(t, size)
    BY DEF Exact, Under
  <2>2. b \in DOMAIN two => \E t \in DOMAIN all : b = Trunc(t, size)
    BY DEF Exact, Under
  <2> QED
    BY <2>1, <2>2, FromIs DEF Exact
<1>2. ASSUME NEW b \in DOMAIN A PROVE A[b] = B[b]
  <2>1. b \in DOMAIN B /\ b \in DOMAIN one /\ b \in DOMAIN two /\ b >= lo
    BY <1>1, FromIs
  <2>2. A[b] = one[b] /\ B[b] = two[b]
    BY <2>1, FromIs
  <2> QED
    BY <2>1, <2>2 DEF Exact
<1>3. A = [b \in DOMAIN A |-> A[b]] /\ B = [b \in DOMAIN B |-> B[b]]
    BY DEF From
<1> HIDE DEF A, B
<1>4. DOMAIN A = DOMAIN B
    BY <1>1
<1>5. A = B
    BY <1>2, <1>3, <1>4
<1> QED
    BY <1>5 DEF A, B

LEMMA WholeSame ==
    ASSUME NEW one, NEW two, NEW all, NEW lo, Whole(one, all, lo), Whole(two, all, lo)
    PROVE  From(one, lo) = From(two, lo)
<1> DEFINE A == From(one, lo)
           B == From(two, lo)
<1>1. ASSUME NEW t PROVE t \in DOMAIN A <=> t \in DOMAIN B
    BY FromIs DEF Whole, Within
<1>2. ASSUME NEW t \in DOMAIN A PROVE A[t] = B[t]
  <2>1. t \in DOMAIN B /\ t \in DOMAIN one /\ t \in DOMAIN two /\ t >= lo
    BY <1>1, FromIs
  <2>2. A[t] = one[t] /\ B[t] = two[t]
    BY <2>1, FromIs
  <2> QED
    BY <2>1, <2>2 DEF Whole, Within
<1>3. A = [b \in DOMAIN A |-> A[b]] /\ B = [b \in DOMAIN B |-> B[b]]
    BY DEF From
<1> HIDE DEF A, B
<1>4. DOMAIN A = DOMAIN B
    BY <1>1
<1>5. A = B
    BY <1>2, <1>3, <1>4
<1> QED
    BY <1>5 DEF A, B

-----------------------------------------------------------------------------
(* Both adapters. *)

\* Buckets that begin in a range of whole buckets end in it.
LEMMA EndsInRange ==
    ASSUME NEW size \in Nat \ {0}, NEW b \in Nat, NEW end \in Nat, b % size = 0, end % size = 0, b < end
    PROVE  b + size <= end
<1> DEFINE j == b \div size
           k == end \div size
<1>1. j \in Nat /\ b = j * size /\ k \in Nat /\ end = k * size
    BY Multiple
<1> HIDE DEF j, k
<1>2. ~(k <= j)
  <2>1. SUFFICES ASSUME k <= j PROVE FALSE
    OBVIOUS
  <2>2. k * size <= j * size
    BY <1>1, <2>1
  <2> QED
    BY <1>1, <2>2
<1>3. j + 1 <= k
    BY <1>1, <1>2
<1>4. (j + 1) * size <= k * size
    BY <1>1, <1>3
<1>5. (j + 1) * size = j * size + size
    BY <1>1
<1> QED
    BY <1>1, <1>4, <1>5

\* A range of whole buckets has the rows of the events in it.
LEMMA RangeExact ==
    ASSUME NEW all, Finite(all), NEW size \in Nat \ {0}, NEW lo \in Int, NEW rows, Exact(rows, size, all, lo),
           NEW left, Whole(left, all, lo),
           NEW from \in Nat, NEW end \in Nat, from >= lo, from % size = 0, end % size = 0
    PROVE  Between(rows, from, end) = Rollup(Between(left, from, end), size)
<1> DEFINE A == Between(rows, from, end)
           F == Between(left, from, end)
           B == Rollup(F, size)
<1>0. IsTable(all) /\ Under(rows, size, all) /\ Within(left, all) /\ Within(F, all)
    BY WithinBetween DEF Finite, Exact, Whole
<1>1. ASSUME NEW b \in DOMAIN A
      PROVE  /\ b \in DOMAIN B /\ b \in Nat /\ b % size = 0 /\ b >= from /\ b + size <= end
             /\ A[b] = Total(Between(all, b, b + size))
  <2>1. b \in DOMAIN rows /\ b >= from /\ b < end /\ A[b] = rows[b]
    BY BetweenIs
  <2>2. b \in Nat /\ b % size = 0
    BY <1>0, <2>1, UnderRow
  <2>3. b + size <= end /\ b >= lo
    BY <2>1, <2>2, EndsInRange
  <2>4. PICK t \in DOMAIN all : b = Trunc(t, size)
    BY <1>0, <2>1 DEF Under
  <2>5. t \in Nat /\ t >= b /\ t < b + size
    BY <1>0, <2>4, Truncated DEF IsTable
  <2>6. t >= lo /\ t >= from /\ t < end
    BY <2>1, <2>2, <2>3, <2>5
  <2>7. t \in DOMAIN F
    BY <2>6, BetweenIs DEF Whole
  <2>8. b \in DOMAIN B
    BY <2>4, <2>7, RollupIs
  <2>9. rows[b] = Total(Between(all, b, b + size))
    BY <2>1, <2>3 DEF Exact
  <2> QED
    BY <2>1, <2>2, <2>3, <2>8, <2>9
<1>2. ASSUME NEW b \in DOMAIN B PROVE b \in DOMAIN A
  <2>1. PICK t \in DOMAIN F : b = Trunc(t, size)
    BY RollupIs
  <2>2. t \in DOMAIN left /\ t >= from /\ t < end
    BY <2>1, BetweenIs
  <2>3. t \in DOMAIN all /\ t \in Nat
    BY <1>0, <2>2 DEF Within, IsTable
  <2>4. b \in Nat /\ b <= t /\ t < b + size /\ b % size = 0
    BY <2>1, <2>3, Truncated, TruncAligned
  <2>5. b >= from
    <3>1. SUFFICES ASSUME b < from PROVE FALSE
      BY <2>4
    <3>2. b + size <= from
      BY <2>4, <3>1, EndsInRange
    <3> QED
      BY <2>2, <2>3, <2>4, <3>2
  <2>6. b < end /\ b >= lo
    BY <2>2, <2>3, <2>4, <2>5
  <2>7. b \in DOMAIN rows
    BY <2>1, <2>3, <2>6 DEF Exact
  <2> QED
    BY <2>5, <2>6, <2>7, BetweenIs
<1>3. ASSUME NEW b \in DOMAIN A PROVE B[b] = A[b]
  <2>1. /\ b \in DOMAIN B /\ b \in Nat /\ b % size = 0 /\ b >= from /\ b + size <= end
        /\ A[b] = Total(Between(all, b, b + size))
    BY <1>1
  <2>2. ASSUME NEW t \in DOMAIN all, t >= b, t < b + size PROVE t \in DOMAIN F /\ F[t] = all[t]
    <3>1. t \in Nat
      BY <1>0 DEF IsTable
    <3>2. t >= lo /\ t >= from /\ t < end
      BY <2>1, <2>2, <3>1
    <3> QED
      BY <3>2, BetweenIs DEF Whole
  <2>3. Group(F, size, b) = Between(all, b, b + size)
    BY <1>0, <2>1, <2>2, GroupSame
  <2> QED
    BY <2>1, <2>3, RollupIs
<1>4. A = [b \in DOMAIN A |-> A[b]] /\ B = [b \in DOMAIN B |-> B[b]]
    BY DEF Between, Rollup
<1> HIDE DEF A, B
<1>5. DOMAIN A = DOMAIN B
    BY <1>1, <1>2
<1>6. A = B
    BY <1>3, <1>4, <1>5
<1> QED
    BY <1>6 DEF A, B

LEMMA RangeWhole ==
    ASSUME NEW all, IsTable(all), NEW lo \in Int, NEW one, NEW two, Whole(one, all, lo), Whole(two, all, lo),
           NEW from \in Nat, NEW end \in Nat, from >= lo
    PROVE  Between(one, from, end) = Between(two, from, end)
<1> DEFINE A == Between(one, from, end)
           B == Between(two, from, end)
<1>0. \A t : t \in DOMAIN one \/ t \in DOMAIN two => t \in DOMAIN all /\ t \in Nat
    BY DEF Whole, Within, IsTable
<1>1. ASSUME NEW t PROVE t \in DOMAIN A <=> t \in DOMAIN B
  <2>1. ASSUME t \in DOMAIN A PROVE t \in DOMAIN B
    <3>1. t \in DOMAIN one /\ t >= from /\ t < end
      BY <2>1, BetweenIs
    <3>2. t \in DOMAIN all /\ t >= lo
      BY <1>0, <3>1
    <3> QED
      BY <3>1, <3>2, BetweenIs DEF Whole
  <2>2. ASSUME t \in DOMAIN B PROVE t \in DOMAIN A
    <3>1. t \in DOMAIN two /\ t >= from /\ t < end
      BY <2>2, BetweenIs
    <3>2. t \in DOMAIN all /\ t >= lo
      BY <1>0, <3>1
    <3> QED
      BY <3>1, <3>2, BetweenIs DEF Whole
  <2> QED
    BY <2>1, <2>2
<1>2. ASSUME NEW t \in DOMAIN A PROVE A[t] = B[t]
  <2>1. t \in DOMAIN B /\ t \in DOMAIN one /\ t \in DOMAIN two /\ t >= from
    BY <1>1, BetweenIs
  <2>2. t \in DOMAIN all /\ t >= lo
    BY <1>0, <2>1
  <2>3. A[t] = one[t] /\ B[t] = two[t]
    BY <2>1, BetweenIs
  <2> QED
    BY <2>2, <2>3 DEF Whole
<1>3. A = [b \in DOMAIN A |-> A[b]] /\ B = [b \in DOMAIN B |-> B[b]]
    BY DEF Between
<1> HIDE DEF A, B
<1>4. DOMAIN A = DOMAIN B
    BY <1>1
<1>5. A = B
    BY <1>2, <1>3, <1>4
<1> QED
    BY <1>5 DEF A, B

LEMMA WholeFrom ==
    ASSUME NEW all, IsTable(all), NEW lo \in Int, NEW cut \in Int, cut <= lo
    PROVE  Whole(From(all, cut), all, lo)
<1>1. Within(From(all, cut), all)
    BY WithinSelf, WithinFrom
<1>2. ASSUME NEW t \in DOMAIN all, t >= lo PROVE t \in DOMAIN From(all, cut) /\ From(all, cut)[t] = all[t]
  <2>1. t \in Nat
    BY DEF IsTable
  <2>2. t >= cut
    BY <1>2, <2>1
  <2> QED
    BY <2>2, FromIs
<1> QED
    BY <1>1, <1>2 DEF Whole

LEMMA MemoryExact ==
    ASSUME LookBackKept, CompactionInv
    PROVE  LET memory == MemoryCompact(stored, now, using)
               lo == now - M1Window
           IN  /\ Whole(memory.raw, stored, lo)
               /\ Exact(memory.m1, Minute, stored, lo)
               /\ Exact(memory.h1, Hour, stored, lo)
               /\ Exact(memory.d1, Day, stored, lo)
<1> DEFINE lo == now - M1Window
           left == From(stored, now - using.raw * Day)
           minutes == Rollup(left, Minute)
           hours == Rollup(minutes, Hour)
           days == Rollup(hours, Day)
           memory == MemoryCompact(stored, now, using)
<1>0. now \in Nat /\ using \in {Configured, Defaults} /\ Finite(stored) /\ IsTable(stored)
    BY DEF CompactionInv, Finite
<1>1. /\ lo \in Int
      /\ now - using.raw * Day \in Int /\ now - using.raw * Day <= lo
      /\ now - using.m1 \in Int /\ now - using.m1 <= lo
      /\ now - using.h1 \in Int /\ now - using.h1 <= lo
      /\ now - using.d1 \in Int /\ now - using.d1 <= lo
    BY <1>0, RetentionLong
<1>2. /\ memory.raw = left /\ memory.m1 = From(minutes, now - using.m1)
      /\ memory.h1 = From(hours, now - using.h1) /\ memory.d1 = From(days, now - using.d1)
    BY DEF MemoryCompact, ComputeDownsample1m, ComputeAggregate1h, ComputeAggregate1d
<1>3. Whole(left, stored, lo)
    BY <1>0, <1>1, WholeFrom
<1> HIDE DEF lo, left, memory
<1>4. Exact(minutes, Minute, stored, lo)
    BY <1>0, <1>1, <1>3, RollupWhole, SizeAssumption
<1> HIDE DEF minutes
<1>5. Exact(hours, Hour, stored, lo)
    BY <1>0, <1>1, <1>4, CoarserExact, SizeAssumption
<1> HIDE DEF hours
<1>6. Exact(days, Day, stored, lo)
    BY <1>0, <1>1, <1>5, CoarserExact, SizeAssumption
<1> HIDE DEF days
<1>7. /\ Exact(From(minutes, now - using.m1), Minute, stored, lo)
      /\ Exact(From(hours, now - using.h1), Hour, stored, lo)
      /\ Exact(From(days, now - using.d1), Day, stored, lo)
    BY <1>0, <1>1, <1>4, <1>5, <1>6, FromExact, SizeAssumption
<1>8. /\ Whole(memory.raw, stored, lo) /\ Exact(memory.m1, Minute, stored, lo)
      /\ Exact(memory.h1, Hour, stored, lo) /\ Exact(memory.d1, Day, stored, lo)
    BY <1>2, <1>3, <1>7
<1> QED
    BY <1>8 DEF memory, lo

LEMMA QueriesAgree ==
    ASSUME LookBackKept, CompactionInv, Fresh, phase = "idle", undisturbed,
           NEW left, Whole(left, stored, now - M1Window),
           NEW from \in Nat, NEW to \in Nat,
           NEW resolution \in {"raw", "m1", "h1", "d1", "auto"},
           WholeBuckets(from, to, Resolved(resolution, from, to))
    PROVE  QueryRoom(from, to, resolution) = MemoryQueryRoom(left, from, to, resolution)
<1> DEFINE lo == now - M1Window
           r == Resolved(resolution, from, to)
           end == to + 1
<1>0. /\ lo \in Int /\ Finite(stored) /\ IsTable(stored) /\ end \in Nat
      /\ Minute \in Nat \ {0} /\ Hour \in Nat \ {0} /\ Day \in Nat \ {0}
    BY TierAssumption, SizeAssumption DEF CompactionInv, Finite
<1>1. Whole(raw, stored, lo)
    BY RetainedWhole
<1>2. Exact(m1, Minute, stored, lo) /\ Exact(h1, Hour, stored, lo) /\ Exact(d1, Day, stored, lo)
    BY DEF Fresh
<1>3. r \in TierNames
    BY DEF Resolved, TierNames
<1>4. from >= lo
    BY DEF WholeBuckets
<1>5. QueryRoom(from, to, resolution) = Between(TierOf(r), from, end)
    BY DEF QueryRoom
<1>6. /\ r = "raw" => MemoryQueryRoom(left, from, to, resolution) = Between(left, from, end)
      /\ r # "raw" => MemoryQueryRoom(left, from, to, resolution) = Rollup(Between(left, from, end), Size[r])
    BY DEF MemoryQueryRoom
<1>7. r # "raw" => from % Size[r] = 0 /\ end % Size[r] = 0
    BY DEF WholeBuckets
<1> HIDE DEF r, end, lo
<1>8. CASE r = "raw"
  <2>1. TierOf(r) = raw
    BY <1>8 DEF TierOf
  <2>2. Between(raw, from, end) = Between(left, from, end)
    BY <1>0, <1>1, <1>4, RangeWhole DEF lo
  <2> QED
    BY <1>5, <1>6, <1>8, <2>1, <2>2
<1>9. CASE r = "m1"
  <2>1. TierOf(r) = m1 /\ Size[r] = Minute
    BY <1>9 DEF TierOf, Size
  <2>2. Between(m1, from, end) = Rollup(Between(left, from, end), Minute)
    BY <1>0, <1>2, <1>4, <1>7, <1>9, <2>1, RangeExact DEF lo
  <2> QED
    BY <1>5, <1>6, <1>9, <2>1, <2>2
<1>10. CASE r = "h1"
  <2>1. TierOf(r) = h1 /\ Size[r] = Hour
    BY <1>10 DEF TierOf, Size
  <2>2. Between(h1, from, end) = Rollup(Between(left, from, end), Hour)
    BY <1>0, <1>2, <1>4, <1>7, <1>10, <2>1, RangeExact DEF lo
  <2> QED
    BY <1>5, <1>6, <1>10, <2>1, <2>2
<1>11. CASE r = "d1"
  <2>1. TierOf(r) = d1 /\ Size[r] = Day
    BY <1>11 DEF TierOf, Size
  <2>2. Between(d1, from, end) = Rollup(Between(left, from, end), Day)
    BY <1>0, <1>2, <1>4, <1>7, <1>11, <2>1, RangeExact DEF lo
  <2> QED
    BY <1>5, <1>6, <1>11, <2>1, <2>2
<1> QED
    BY <1>3, <1>8, <1>9, <1>10, <1>11 DEF TierNames

LEMMA FreshAgrees ==
    ASSUME LookBackKept, CompactionInv, Fresh
    PROVE  AdaptersAgree
<1> SUFFICES ASSUME phase = "idle", undisturbed PROVE AdaptersAgree
    BY DEF AdaptersAgree
<1> DEFINE memory == MemoryCompact(stored, now, using)
           lo == now - M1Window
<1>1. /\ Whole(memory.raw, stored, lo) /\ Exact(memory.m1, Minute, stored, lo)
      /\ Exact(memory.h1, Hour, stored, lo) /\ Exact(memory.d1, Day, stored, lo)
    BY MemoryExact
<1>2. /\ Whole(raw, stored, lo) /\ Exact(m1, Minute, stored, lo)
      /\ Exact(h1, Hour, stored, lo) /\ Exact(d1, Day, stored, lo)
    BY RetainedWhole DEF Fresh
<1> HIDE DEF memory
<1>3. /\ From(raw, lo) = From(memory.raw, lo) /\ From(m1, lo) = From(memory.m1, lo)
      /\ From(h1, lo) = From(memory.h1, lo) /\ From(d1, lo) = From(memory.d1, lo)
  <2> HIDE DEF lo
  <2>1. From(raw, lo) = From(memory.raw, lo)
    BY <1>1, <1>2, WholeSame
  <2>2. From(m1, lo) = From(memory.m1, lo)
    BY <1>1, <1>2, ExactSame
  <2>3. From(h1, lo) = From(memory.h1, lo)
    BY <1>1, <1>2, ExactSame
  <2>4. From(d1, lo) = From(memory.d1, lo)
    BY <1>1, <1>2, ExactSame
  <2> QED
    BY <2>1, <2>2, <2>3, <2>4
<1>4. ASSUME NEW from \in 0 .. (now + Day), NEW to \in 0 .. (now + Day),
             NEW resolution \in {"raw", "m1", "h1", "d1", "auto"},
             WholeBuckets(from, to, Resolved(resolution, from, to))
      PROVE  QueryRoom(from, to, resolution) = MemoryQueryRoom(memory.raw, from, to, resolution)
  <2>1. from \in Nat /\ to \in Nat
    OBVIOUS
  <2> QED
    BY <1>1, <1>4, <2>1, QueriesAgree
<1> QED
    BY <1>3, <1>4 DEF AdaptersAgree, memory

\* For all bucket sizes and windows, all retentions that are not shorter than the look-back and
\* clocks of clients that are less than a minute ahead, as the validator sees to by default:
\* after a run that nothing disturbed the SQL adapter has the rows of the in-memory adapter and
\* answers queries over whole buckets like it, although its tiers grow from run to run.
THEOREM AdaptersAlwaysAgree ==
    ASSUME LookBackKept, SkewShort
    PROVE  CompactionSpec => []AdaptersAgree
<1>1. CompactionInit => Fresh
    BY DEF CompactionInit, Fresh
<1>2. CompactionInv /\ Fresh /\ [CompactionNext]_compactionVars => Fresh'
    BY FreshNext
<1>3. CompactionInv /\ Fresh => AdaptersAgree
    BY FreshAgrees
<1> QED
    BY <1>1, <1>2, <1>3, CompactionInvHolds, PTL DEF CompactionSpec
=============================================================================
