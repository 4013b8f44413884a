-------------------------- MODULE RefinementProofs --------------------------
(***************************************************************************)
(* Two Maps implement what their users rely on. The in-memory session      *)
(* store is the store the manager is written for: because a timer is due   *)
(* exactly when the entry it was armed with expires (OneTimerPerEntry), a  *)
(* callback that deletes its key unconditionally deletes nothing that a    *)
(* reader could still see. The rate limiter is a sliding window: a list is *)
(* the end of what was admitted since the removal of its client, and what  *)
(* it misses is stale (WellKept).                                          *)
(***************************************************************************)
EXTENDS MemoryStore, RateLimiter, FiniteSetTheorems, SequenceTheorems, NaturalsInduction, TLAPS

Inv == TypeOK /\ OneTimerPerEntry

\* Every operation of the Map keeps one timer per entry, for every set of clients and any TTL.
LEMMA InvPreserved == Inv /\ [Next]_vars => Inv'
<1> SUFFICES ASSUME Inv, [Next]_vars PROVE Inv'
    OBVIOUS
<1> USE MemoryAssumption DEF Inv, TypeOK, OneTimerPerEntry, Entry, NoEntry, Absent
<1>1. ASSUME NEW c \in Clients, NEW blob \in Blobs, Set(c, blob) PROVE Inv'
    BY <1>1 DEF Set, Cleared
<1>2. ASSUME NEW c \in Clients, Drop(c) PROVE
            /\ entries' \in [Clients -> Entry \cup Absent]
            /\ timers' \subseteq [key : Clients, due : Nat]
            /\ OneTimerPerEntry'
    BY <1>2 DEF Drop, Cleared
<1>3. ASSUME NEW c \in Clients, Get(c) PROVE Inv'
    BY <1>2, <1>3 DEF Get
<1>4. ASSUME NEW c \in Clients, Del(c) PROVE Inv'
    BY <1>2, <1>4 DEF Del
<1>5. ASSUME NEW t \in timers, TimerFires(t) PROVE Inv'
    BY <1>5 DEF TimerFires
<1>6. CASE Sweep
    BY <1>6 DEF Sweep, Cleared, Expired
<1>7. CASE Clear
    BY <1>7 DEF Clear, Cleared
<1>8. CASE Tick
    BY <1>8 DEF Tick
<1>9. CASE UNCHANGED vars
    BY <1>9 DEF vars
<1> QED
    BY <1>1, <1>3, <1>4, <1>5, <1>6, <1>7, <1>8, <1>9 DEF Next

LEMMA InvHolds == Spec => []Inv
<1>1. Init => Inv
    BY MemoryAssumption DEF Init, Inv, TypeOK, OneTimerPerEntry, Entry, NoEntry, Absent
<1> QED
    BY <1>1, InvPreserved, PTL DEF Spec

\* No timer of a replaced or deleted session survives, for every TTL and any number of clients.
THEOREM TimersAlwaysOwned == Spec => []OneTimerPerEntry
BY InvHolds, PTL DEF Inv

\* Each operation of the Map is one operation of the abstract store, or invisible to it.
LEMMA StepRefines == Inv /\ [Next]_vars => [Store!StoreNext]_(Store!storeVars)
<1> SUFFICES ASSUME Inv, [Next]_vars PROVE [Store!StoreNext]_(Store!storeVars)
    OBVIOUS
<1> USE MemoryAssumption DEF Inv, TypeOK, Entry, NoEntry, Absent, Visible, Expired
<1>1. ASSUME NEW c \in Clients, NEW blob \in Blobs, Set(c, blob) PROVE Store!Set(c, blob)
  <2> DEFINE fresh == [value |-> blob, expiresAt |-> now + TtlMs]
  <2>1. now' = now /\ answer' = answer /\ entries' = [entries EXCEPT ![c] = fresh]
    BY <1>1 DEF Set
  <2>2. fresh # NoEntry /\ ~(fresh.expiresAt <= now)
    OBVIOUS
  <2> HIDE DEF fresh
  <2>3. Visible'[c] = fresh
    <3>1. entries'[c] = fresh
      BY <2>1
    <3>2. ~Expired(c)'
      BY <2>1, <2>2, <3>1
    <3> QED
      BY <3>1, <3>2
  <2>4. \A d \in Clients \ {c} : Visible'[d] = Visible[d]
    BY <2>1
  <2>5. Visible' = [Visible EXCEPT ![c] = fresh]
    BY <2>3, <2>4
  <2> QED
    BY <2>1, <2>5 DEF Store!Set, fresh
<1>2. ASSUME NEW c \in Clients, Get(c) PROVE Store!Get(c)
    BY <1>2 DEF Get, Drop, Store!Get
<1>3. ASSUME NEW c \in Clients, Del(c) PROVE Store!Del(c)
    BY <1>3 DEF Del, Drop, Store!Del, Store!NoEntry
<1>4. ASSUME NEW t \in timers, TimerFires(t) PROVE UNCHANGED Store!storeVars
  <2>1. t.key \in Clients /\ entries[t.key].expiresAt = t.due
    BY DEF OneTimerPerEntry
  <2>2. Visible' = Visible
    BY <1>4, <2>1 DEF TimerFires
  <2> QED
    BY <1>4, <2>2 DEF TimerFires, Store!storeVars
<1>5. ASSUME Sweep PROVE UNCHANGED Store!storeVars
    BY <1>5 DEF Sweep, Store!storeVars
<1>6. ASSUME Clear PROVE Store!Clear
    BY <1>6 DEF Clear, Store!Clear, Store!NoEntry
<1>7. ASSUME Tick PROVE Store!Tick
    BY <1>7 DEF Tick, Store!Tick, Store!NoEntry
<1>8. ASSUME UNCHANGED vars PROVE UNCHANGED Store!storeVars
    BY <1>8 DEF vars, Store!storeVars
<1> QED
    BY <1>1, <1>2, <1>3, <1>4, <1>5, <1>6, <1>7, <1>8 DEF Next, Store!StoreNext

\* For every TTL, the Map with late timers, lazy expiry and sweeps is a store in which a
\* session is readable exactly until TtlMs after its latest save.
THEOREM MemoryImplementsStore == Spec => ImplementsStore
<1>1. Init => Store!StoreInit
    BY DEF Init, Store!StoreInit, Visible, Expired, NoEntry, Store!NoEntry
<1> QED
    BY <1>1, InvHolds, StepRefines, PTL DEF Spec, ImplementsStore, Store!StoreSpec

-----------------------------------------------------------------------------
(* timestamps.filter(). *)

\* A set of naturals has a least element.
LEMMA LeastNatural ==
    ASSUME NEW T, T \subseteq Nat, T # {}
    PROVE  \E x \in T : \A y \in T : x <= y
<1>1. PICK x \in T : \A y \in T : ~ (<<y, x>> \in OpToRel(<, Nat))
    BY NatLessThanWellFounded, WFMin
<1>2. ASSUME NEW y \in T PROVE x <= y
  <2>1. x \in Nat /\ y \in Nat
    OBVIOUS
  <2>2. y < x => <<y, x>> \in OpToRel(<, Nat)
    BY <2>1 DEF OpToRel
  <2>3. ~(y < x)
    BY <1>1, <2>2
  <2> QED
    BY <2>1, <2>3
<1> QED
    BY <1>2

Ordered(s) == s \in Seq(Nat) /\ \A i, j \in 1 .. Len(s) : i <= j => s[i] <= s[j]

Stale(t) == t + Window <= clock

\* The stale entries of an ordered list come first.
LEMMA StaleFirst ==
    ASSUME NEW s, Ordered(s), clock \in Nat
    PROVE  \E j \in 0 .. Len(s) : \A i \in 1 .. Len(s) : Stale(s[i]) <=> i <= j
<1> DEFINE F == {i \in 1 .. Len(s) : ~Stale(s[i])}
<1>0. Len(s) \in Nat /\ (\A i \in 1 .. Len(s) : s[i] \in Nat) /\ Window \in Nat
    BY LimiterAssumption DEF Ordered
<1>1. CASE F = {}
  <2>1. \A i \in 1 .. Len(s) : Stale(s[i]) <=> i <= Len(s)
    BY <1>0, <1>1
  <2> QED
    BY <1>0, <2>1
<1>2. CASE F # {}
  <2>1. F \subseteq Nat
    BY <1>0
  <2>2. PICK f \in F : \A i \in F : f <= i
    <3> HIDE DEF F
    <3> QED
      BY <1>2, <2>1, LeastNatural
  <2>3. f \in 1 .. Len(s) /\ ~Stale(s[f]) /\ f - 1 \in 0 .. Len(s)
    BY <1>0
  <2>4. ASSUME NEW i \in 1 .. Len(s) PROVE Stale(s[i]) <=> i <= f - 1
    <3>1. i < f => Stale(s[i])
      BY <1>0, <2>2, <2>3
    <3>2. i >= f => s[f] <= s[i]
      BY <2>3 DEF Ordered
    <3>3. i >= f => ~Stale(s[i])
      BY <1>0, <2>3, <3>2 DEF Stale
    <3> QED
      BY <1>0, <2>3, <3>1, <3>3
  <2> QED
    BY <2>3, <2>4
<1> QED
    BY <1>1, <1>2

\* The lists that filter() goes through.
IsKept(g, s) ==
    g = [n \in 0 .. Len(s) |->
            IF n = 0 THEN <<>>
            ELSE IF s[n] + Window > clock THEN Append(g[n - 1], s[n]) ELSE g[n - 1]]

LEMMA RecentIs ==
    ASSUME NEW s
    PROVE  Recent(s) = (CHOOSE g : IsKept(g, s))[Len(s)]
BY DEF Recent, IsKept

LEMMA SubSeqAppend ==
    ASSUME NEW s \in Seq(Nat), NEW m \in 1 .. Len(s), NEW n \in m .. Len(s)
    PROVE  SubSeq(s, m, n) = Append(SubSeq(s, m, n - 1), s[n])
<1>1. SubSeq(s, m, n) = SubSeq(s, m, n - 1) \o <<s[n]>>
    BY SubSeqRecursiveSecond
<1>2. m \in Int /\ n - 1 \in Int /\ s[n] \in Nat /\ \A i \in m .. n - 1 : s[i] \in Nat
    OBVIOUS
<1>3. SubSeq(s, m, n - 1) \in Seq(Nat)
    BY <1>2, SubSeqProperties
<1> QED
    BY <1>1, <1>2, <1>3, AppendIsConcat

\* The rest of an ordered list after its stale entries, as far as a position.
RestTo(s, j, n) == IF n <= j THEN <<>> ELSE SubSeq(s, j + 1, n)

LEMMA RestStep ==
    ASSUME NEW s, Ordered(s), clock \in Nat, NEW j \in 0 .. Len(s),
           \A i \in 1 .. Len(s) : Stale(s[i]) <=> i <= j, NEW n \in 1 .. Len(s)
    PROVE  RestTo(s, j, n) = IF s[n] + Window > clock THEN Append(RestTo(s, j, n - 1), s[n]) ELSE RestTo(s, j, n - 1)
<1>0. Len(s) \in Nat /\ s \in Seq(Nat) /\ s[n] \in Nat /\ Window \in Nat /\ n \in Nat /\ j \in Nat
    BY LimiterAssumption DEF Ordered
<1>1. s[n] + Window > clock <=> n > j
    BY <1>0 DEF Stale
<1>2. CASE n <= j
    BY <1>0, <1>1, <1>2 DEF RestTo
<1>3. CASE n > j
  <2>1. RestTo(s, j, n) = SubSeq(s, j + 1, n)
    BY <1>0, <1>3 DEF RestTo
  <2>2. RestTo(s, j, n - 1) = SubSeq(s, j + 1, n - 1)
    <3>1. CASE n = j + 1
      <4>1. RestTo(s, j, n - 1) = <<>>
        BY <1>0, <3>1 DEF RestTo
      <4>2. SubSeq(s, j + 1, n - 1) = <<>>
        BY <1>0, <3>1, SubSeqEmpty
      <4> QED
        BY <4>1, <4>2
    <3>2. CASE n > j + 1
      BY <1>0, <3>2 DEF RestTo
    <3> QED
      BY <1>0, <1>3, <3>1, <3>2
  <2>3. j + 1 \in 1 .. Len(s) /\ n \in j + 1 .. Len(s)
    BY <1>0, <1>3
  <2>4. SubSeq(s, j + 1, n) = Append(SubSeq(s, j + 1, n - 1), s[n])
    BY <1>0, <2>3, SubSeqAppend
  <2> QED
    BY <1>1, <1>3, <2>1, <2>2, <2>4
<1> QED
    BY <1>0, <1>2, <1>3

LEMMA RecentRest ==
    ASSUME NEW s, Ordered(s), clock \in Nat, NEW j \in 0 .. Len(s),
           \A i \in 1 .. Len(s) : Stale(s[i]) <=> i <= j
    PROVE  Recent(s) = SubSeq(s, j + 1, Len(s))
<1>0. Len(s) \in Nat /\ s \in Seq(Nat) /\ j \in Nat
    BY DEF Ordered
<1> DEFINE h == [n \in 0 .. Len(s) |-> RestTo(s, j, n)]
           body(n) == IF s[n] + Window > clock THEN Append(h[n - 1], s[n]) ELSE h[n - 1]
<1>1. IsKept(h, s)
  <2>1. h[0] = <<>>
    BY <1>0 DEF RestTo
  <2>2. ASSUME NEW n \in 0 .. Len(s), n # 0 PROVE h[n] = body(n)
    <3>1. n \in 1 .. Len(s) /\ n - 1 \in 0 .. Len(s)
      BY <1>0, <2>2
    <3>2. h[n] = RestTo(s, j, n) /\ h[n - 1] = RestTo(s, j, n - 1)
      BY <3>1
    <3> HIDE DEF h
    <3> QED
      BY <3>1, <3>2, RestStep
  <2>3. h = [n \in 0 .. Len(s) |-> h[n]]
    OBVIOUS
  <2> HIDE DEF h
  <2>4. h = [n \in 0 .. Len(s) |-> IF n = 0 THEN <<>> ELSE body(n)]
    BY <2>1, <2>2, <2>3
  <2> QED
    BY <2>4 DEF IsKept
<1> DEFINE g == CHOOSE f : IsKept(f, s)
<1> HIDE DEF h
<1>2. IsKept(g, s)
  <2>1. \E f : IsKept(f, s)
    BY <1>1
  <2> QED
    BY <2>1
<1> HIDE DEF g
<1>3. /\ g[0] = <<>>
      /\ \A n \in 1 .. Len(s) : g[n] = IF s[n] + Window > clock THEN Append(g[n - 1], s[n]) ELSE g[n - 1]
  <2>1. \A n \in 0 .. Len(s) :
            g[n] = IF n = 0 THEN <<>>
                   ELSE IF s[n] + Window > clock THEN Append(g[n - 1], s[n]) ELSE g[n - 1]
    BY <1>2, Zenon DEF IsKept
  <2>2. 0 \in 0 .. Len(s) /\ \A n \in 1 .. Len(s) : n \in 0 .. Len(s) /\ n # 0
    BY <1>0
  <2> QED
    BY <2>1, <2>2, Zenon
<1>4. ASSUME NEW m \in 0 .. Len(s), g[m] # RestTo(s, j, m) PROVE FALSE
  <2> DEFINE D == {n \in 0 .. Len(s) : g[n] # RestTo(s, j, n)}
  <2>1. D \subseteq Nat /\ D # {}
    BY <1>0, <1>4
  <2>2. PICK x \in D : \A y \in D : x <= y
    <3> HIDE DEF D
    <3> QED
      BY <2>1, LeastNatural
  <2>3. x # 0
    BY <1>0, <1>3 DEF RestTo
  <2>4. x \in 1 .. Len(s) /\ x - 1 \in 0 .. Len(s) /\ ~(x <= x - 1)
    BY <1>0, <2>3
  <2>5. g[x - 1] = RestTo(s, j, x - 1)
    BY <2>2, <2>4
  <2>6. g[x] = RestTo(s, j, x)
    BY <1>3, <2>4, <2>5, RestStep
  <2> QED
    BY <2>6
<1>5. g[Len(s)] = RestTo(s, j, Len(s))
    BY <1>0, <1>4
<1>6. RestTo(s, j, Len(s)) = SubSeq(s, j + 1, Len(s))
    BY <1>0 DEF RestTo
<1> QED
    BY <1>5, <1>6, RecentIs DEF g

-----------------------------------------------------------------------------
(* Rests of lists, and the lists that trimming leaves. *)

RestOf(s, k) == SubSeq(s, k + 1, Len(s))

LEMMA RestIs ==
    ASSUME NEW s \in Seq(Nat), NEW k \in 0 .. Len(s)
    PROVE  /\ RestOf(s, k) \in Seq(Nat) /\ Len(RestOf(s, k)) = Len(s) - k
           /\ \A i \in 1 .. Len(s) - k : RestOf(s, k)[i] = s[k + i]
<1>1. Len(s) \in Nat /\ k \in Nat /\ k + 1 \in Int /\ Len(s) \in Int /\ \A i \in k + 1 .. Len(s) : s[i] \in Nat
    OBVIOUS
<1>2. /\ SubSeq(s, k + 1, Len(s)) \in Seq(Nat)
      /\ Len(SubSeq(s, k + 1, Len(s))) = IF k + 1 <= Len(s) THEN Len(s) - (k + 1) + 1 ELSE 0
      /\ \A i \in 1 .. Len(s) - (k + 1) + 1 : SubSeq(s, k + 1, Len(s))[i] = s[(k + 1) + i - 1]
    BY <1>1, SubSeqProperties
<1>3. \A i \in 1 .. Len(s) - k : i \in 1 .. Len(s) - (k + 1) + 1 /\ (k + 1) + i - 1 = k + i
    BY <1>1
<1> QED
    BY <1>1, <1>2, <1>3 DEF RestOf

LEMMA RestOfRest ==
    ASSUME NEW s \in Seq(Nat), NEW k \in 0 .. Len(s), NEW j \in 0 .. Len(RestOf(s, k))
    PROVE  k + j \in 0 .. Len(s) /\ RestOf(RestOf(s, k), j) = RestOf(s, k + j)
<1> DEFINE r == RestOf(s, k)
<1>1. /\ r \in Seq(Nat) /\ Len(r) = Len(s) - k /\ \A i \in 1 .. Len(s) - k : r[i] = s[k + i]
    BY RestIs
<1> HIDE DEF r
<1>2. Len(s) \in Nat /\ k \in Nat /\ j \in Nat /\ j \in 0 .. Len(r) /\ k + j \in 0 .. Len(s)
    BY <1>1 DEF r
<1>3. /\ RestOf(r, j) \in Seq(Nat) /\ Len(RestOf(r, j)) = Len(r) - j
      /\ \A i \in 1 .. Len(r) - j : RestOf(r, j)[i] = r[j + i]
    BY <1>1, <1>2, RestIs
<1>4. /\ RestOf(s, k + j) \in Seq(Nat) /\ Len(RestOf(s, k + j)) = Len(s) - (k + j)
      /\ \A i \in 1 .. Len(s) - (k + j) : RestOf(s, k + j)[i] = s[(k + j) + i]
    BY <1>2, RestIs
<1>5. ASSUME NEW i \in 1 .. Len(RestOf(r, j)) PROVE RestOf(r, j)[i] = RestOf(s, k + j)[i]
  <2>1. i \in 1 .. Len(r) - j /\ i \in 1 .. Len(s) - (k + j) /\ j + i \in 1 .. Len(s) - k
    BY <1>1, <1>2, <1>3
  <2>2. RestOf(r, j)[i] = s[k + (j + i)] /\ RestOf(s, k + j)[i] = s[(k + j) + i]
    BY <1>1, <1>3, <1>4, <2>1
  <2>3. k + (j + i) = (k + j) + i
    BY <1>2, <2>1
  <2> QED
    BY <2>2, <2>3
<1>6. Len(RestOf(r, j)) = Len(RestOf(s, k + j))
    BY <1>1, <1>2, <1>3, <1>4
<1>7. RestOf(r, j) = RestOf(s, k + j)
    BY <1>3, <1>4, <1>5, <1>6, SeqEqual
<1> QED
    BY <1>2, <1>7 DEF r

LEMMA RestAppended ==
    ASSUME NEW s \in Seq(Nat), NEW k \in 0 .. Len(s), NEW x \in Nat
    PROVE  RestOf(Append(s, x), k) = Append(RestOf(s, k), x)
<1> DEFINE t == Append(s, x)
<1>1. t \in Seq(Nat) /\ Len(t) = Len(s) + 1 /\ (\A i \in 1 .. Len(s) : t[i] = s[i]) /\ t[Len(s) + 1] = x
    BY AppendProperties
<1> HIDE DEF t
<1>2. Len(s) \in Nat /\ k \in Nat /\ k + 1 \in 1 .. Len(t) /\ Len(t) \in k + 1 .. Len(t) /\ Len(t) - 1 = Len(s)
    BY <1>1
<1>3. SubSeq(t, k + 1, Len(t)) = Append(SubSeq(t, k + 1, Len(s)), x)
    BY <1>1, <1>2, SubSeqAppend
<1>4. SubSeq(t, k + 1, Len(s)) = SubSeq(s, k + 1, Len(s))
  <2>1. /\ k + 1 \in Int /\ Len(s) \in Int /\ \A i \in k + 1 .. Len(s) : s[i] \in Nat /\ t[i] \in Nat
    BY <1>1, <1>2
  <2>2. /\ SubSeq(t, k + 1, Len(s)) \in Seq(Nat)
        /\ Len(SubSeq(t, k + 1, Len(s))) = IF k + 1 <= Len(s) THEN Len(s) - (k + 1) + 1 ELSE 0
        /\ \A i \in 1 .. Len(s) - (k + 1) + 1 : SubSeq(t, k + 1, Len(s))[i] = t[(k + 1) + i - 1]
    BY <2>1, SubSeqProperties
  <2>3. /\ SubSeq(s, k + 1, Len(s)) \in Seq(Nat)
        /\ Len(SubSeq(s, k + 1, Len(s))) = IF k + 1 <= Len(s) THEN Len(s) - (k + 1) + 1 ELSE 0
        /\ \A i \in 1 .. Len(s) - (k + 1) + 1 : SubSeq(s, k + 1, Len(s))[i] = s[(k + 1) + i - 1]
    BY <2>1, SubSeqProperties
  <2>4. ASSUME NEW i \in 1 .. Len(SubSeq(t, k + 1, Len(s)))
        PROVE  SubSeq(t, k + 1, Len(s))[i] = SubSeq(s, k + 1, Len(s))[i]
    <3>1. i \in 1 .. Len(s) - (k + 1) + 1 /\ (k + 1) + i - 1 \in 1 .. Len(s)
      BY <1>2, <2>2
    <3> QED
      BY <1>1, <2>2, <2>3, <3>1
  <2> QED
    BY <2>2, <2>3, <2>4, SeqEqual
<1> QED
    BY <1>3, <1>4 DEF RestOf, t

\* The list of a client: of the requests admitted since its removal it misses only stale ones.
WellKept(admitted, since, stamps, time) ==
    /\ Ordered(admitted) /\ \A i \in 1 .. Len(admitted) : admitted[i] <= time
    /\ since \in 0 .. Len(admitted)
    /\ \E k \in since .. Len(admitted) :
          /\ stamps = RestOf(admitted, k)
          /\ \A i \in since + 1 .. k : admitted[i] + Window <= time

\* What is left of a list by trimming it begins right after the stale requests.
LEMMA TrimmedTo ==
    ASSUME clock \in Nat, NEW L, NEW r, NEW W, WellKept(L, r, W, clock)
    PROVE  \E k \in r .. Len(L) : /\ Recent(W) = RestOf(L, k) /\ Trimmed(W) = RestOf(L, k)
                                  /\ \A i \in r + 1 .. Len(L) : L[i] + Window <= clock <=> i <= k
<1>0. /\ Ordered(L) /\ L \in Seq(Nat) /\ Len(L) \in Nat /\ r \in 0 .. Len(L) /\ r \in Nat
      /\ Window \in Nat /\ \A i \in 1 .. Len(L) : L[i] \in Nat
    BY LimiterAssumption DEF WellKept, Ordered
<1>1. PICK k \in r .. Len(L) : W = RestOf(L, k) /\ \A i \in r + 1 .. k : L[i] + Window <= clock
    BY DEF WellKept
<1>2. k \in Nat /\ k \in 0 .. Len(L)
    BY <1>0
<1>3. W \in Seq(Nat) /\ Len(W) = Len(L) - k /\ \A i \in 1 .. Len(L) - k : W[i] = L[k + i]
    BY <1>0, <1>1, <1>2, RestIs
<1>4. Ordered(W)
  <2>1. ASSUME NEW i \in 1 .. Len(W), NEW j \in 1 .. Len(W), i <= j PROVE W[i] <= W[j]
    <3>1. k + i \in 1 .. Len(L) /\ k + j \in 1 .. Len(L) /\ k + i <= k + j
      BY <1>0, <1>2, <1>3, <2>1
    <3>2. L[k + i] <= L[k + j]
      BY <1>0, <3>1 DEF Ordered
    <3> QED
      BY <1>3, <3>2
  <2> QED
    BY <1>3, <2>1 DEF Ordered
<1>5. PICK j \in 0 .. Len(W) : \A i \in 1 .. Len(W) : Stale(W[i]) <=> i <= j
    BY <1>4, StaleFirst
<1>6. Recent(W) = RestOf(W, j)
    BY <1>4, <1>5, RecentRest DEF RestOf
<1>7. Trimmed(W) = RestOf(W, j)
  <2>1. CASE W = <<>>
    <3>1. Trimmed(W) = W
      BY <2>1 DEF Trimmed
    <3>2. j = 0 /\ Len(W) = 0
      BY <2>1
    <3>3. RestOf(W, j) = <<>>
      BY <3>2, SubSeqEmpty DEF RestOf
    <3> QED
      BY <2>1, <3>1, <3>3
  <2>2. CASE W # <<>> /\ Head(W) + Window <= clock
    BY <1>6, <2>2 DEF Trimmed
  <2>3. CASE W # <<>> /\ ~(Head(W) + Window <= clock)
    <3>1. Head(W) = W[1] /\ 1 \in 1 .. Len(W)
      BY <1>3, <2>3
    <3>2. ~(1 <= j)
      BY <1>5, <2>3, <3>1 DEF Stale
    <3>3. j = 0
      BY <1>3, <3>2
    <3>4. RestOf(W, 0) = W
      BY <1>3, SubSeqFull DEF RestOf
    <3> QED
      BY <2>3, <3>3, <3>4 DEF Trimmed
  <2> QED
    BY <2>1, <2>2, <2>3
<1>8. k + j \in 0 .. Len(L) /\ RestOf(W, j) = RestOf(L, k + j)
    BY <1>0, <1>1, <1>2, <1>5, RestOfRest
<1>9. k + j \in r .. Len(L) /\ j \in Nat
    BY <1>0, <1>3, <1>8
<1>10. ASSUME NEW i \in r + 1 .. Len(L) PROVE L[i] + Window <= clock <=> i <= k + j
  <2>1. CASE i <= k
    BY <1>0, <1>1, <1>9, <2>1
  <2>2. CASE i > k
    <3> DEFINE n == i - k
    <3>1. n \in 1 .. Len(W) /\ i = k + n /\ n \in Nat
      BY <1>0, <1>2, <1>3, <2>2
    <3>2. W[n] = L[i]
      BY <1>3, <3>1
    <3>3. Stale(W[n]) <=> n <= j
      BY <1>5, <3>1
    <3>4. n <= j <=> i <= k + j
      BY <1>2, <1>9, <3>1
    <3> QED
      BY <3>2, <3>3, <3>4 DEF Stale
  <2> QED
    BY <1>0, <1>2, <2>1, <2>2
<1> QED
    BY <1>6, <1>7, <1>8, <1>9, <1>10

LEMMA CountIs ==
    ASSUME clock \in Nat, NEW L \in Seq(Nat), NEW r \in 0 .. Len(L), NEW k \in r .. Len(L),
           \A i \in r + 1 .. Len(L) : L[i] + Window <= clock <=> i <= k
    PROVE  Cardinality({n \in 1 .. Len(RestOf(L, r)) : RestOf(L, r)[n] + Window > clock}) = Len(RestOf(L, k))
<1> DEFINE S == {n \in 1 .. Len(RestOf(L, r)) : RestOf(L, r)[n] + Window > clock}
<1>0. Len(L) \in Nat /\ r \in Nat /\ k \in Nat /\ k \in 0 .. Len(L) /\ Window \in Nat
    BY LimiterAssumption
<1>1. /\ Len(RestOf(L, r)) = Len(L) - r /\ \A i \in 1 .. Len(L) - r : RestOf(L, r)[i] = L[r + i]
      /\ Len(RestOf(L, k)) = Len(L) - k
    BY <1>0, RestIs
<1>2. ASSUME NEW n PROVE n \in S <=> n \in (k - r) + 1 .. Len(L) - r
  <2>1. n \in 1 .. Len(L) - r => r + n \in r + 1 .. Len(L) /\ r + n \in 1 .. Len(L) /\ n \in Nat
    BY <1>0
  <2>2. n \in 1 .. Len(L) - r => (RestOf(L, r)[n] + Window > clock <=> ~(r + n <= k))
    <3>1. SUFFICES ASSUME n \in 1 .. Len(L) - r PROVE RestOf(L, r)[n] + Window > clock <=> ~(r + n <= k)
      OBVIOUS
    <3>2. L[r + n] \in Nat /\ RestOf(L, r)[n] = L[r + n]
      BY <1>1, <2>1, <3>1
    <3>3. L[r + n] + Window <= clock <=> r + n <= k
      BY <2>1, <3>1
    <3> QED
      BY <1>0, <3>2, <3>3
  <2>3. n \in S <=> n \in 1 .. Len(L) - r /\ ~(r + n <= k)
    BY <1>1, <2>2
  <2> HIDE DEF S
  <2> QED
    BY <1>0, <2>3
<1> HIDE DEF S
<1>3. S = (k - r) + 1 .. Len(L) - r
    BY <1>2
<1>4. (k - r) + 1 \in Int /\ Len(L) - r \in Int
    BY <1>0
<1>5. Cardinality((k - r) + 1 .. Len(L) - r) =
          IF (k - r) + 1 > Len(L) - r THEN 0 ELSE (Len(L) - r) - ((k - r) + 1) + 1
    BY <1>4, FS_Interval
<1>6. Cardinality(S) = Len(L) - k
    BY <1>0, <1>3, <1>5
<1> QED
    BY <1>1, <1>6 DEF S

-----------------------------------------------------------------------------
(* The limiter. *)

LimiterInv ==
    /\ clock \in Nat
    /\ DOMAIN windows = Keys /\ windows = [c \in Keys |-> windows[c]]
    /\ log \in [Keys -> Seq(Nat)] /\ removed \in [Keys -> Nat]
    /\ \A c \in Keys : WellKept(log[c], removed[c], windows[c], clock)

LEMMA EmptyKept ==
    ASSUME NEW L, Ordered(L), NEW time, \A i \in 1 .. Len(L) : L[i] <= time
    PROVE  WellKept(L, Len(L), <<>>, time)
<1>1. Len(L) \in Nat /\ Len(L) \in 0 .. Len(L) /\ Len(L) \in Len(L) .. Len(L)
    BY DEF Ordered
<1>2. <<>> = RestOf(L, Len(L))
    BY <1>1, SubSeqEmpty DEF RestOf
<1>3. \A i \in Len(L) + 1 .. Len(L) : L[i] + Window <= time
    BY <1>1
<1> QED
    BY <1>1, <1>2, <1>3 DEF WellKept

LEMMA LimiterInvInit == LimiterInit => LimiterInv
<1> SUFFICES ASSUME LimiterInit PROVE LimiterInv
    OBVIOUS
<1>1. /\ clock = 0 /\ windows = [c \in Keys |-> <<>>] /\ log = [c \in Keys |-> <<>>]
      /\ removed = [c \in Keys |-> 0]
    BY DEF LimiterInit
<1>2. Ordered(<<>>) /\ Len(<<>>) = 0
    BY DEF Ordered
<1>3. \A i \in 1 .. Len(<<>>) : <<>>[i] <= 0
    BY <1>2
<1>4. WellKept(<<>>, 0, <<>>, 0)
    BY <1>2, <1>3, EmptyKept
<1> QED
    BY <1>1, <1>4 DEF LimiterInv

\* Admitting a request at the time of the clock.
LEMMA AdmitKept ==
    ASSUME NEW time \in Nat, NEW L, Ordered(L), \A i \in 1 .. Len(L) : L[i] <= time,
           NEW r \in 0 .. Len(L), NEW k \in r .. Len(L),
           \A i \in r + 1 .. k : L[i] + Window <= time
    PROVE  /\ WellKept(L, r, RestOf(L, k), time)
           /\ WellKept(Append(L, time), r, Append(RestOf(L, k), time), time)
<1>0. L \in Seq(Nat) /\ Len(L) \in Nat /\ r \in Nat /\ k \in Nat /\ k \in 0 .. Len(L)
    BY DEF Ordered
<1>1. WellKept(L, r, RestOf(L, k), time)
    BY <1>0 DEF WellKept
<1> DEFINE M == Append(L, time)
<1>2. M \in Seq(Nat) /\ Len(M) = Len(L) + 1 /\ (\A i \in 1 .. Len(L) : M[i] = L[i]) /\ M[Len(L) + 1] = time
    BY <1>0, AppendProperties
<1>3. RestOf(M, k) = Append(RestOf(L, k), time)
    BY <1>0, RestAppended
<1> HIDE DEF M
<1>4. \A i \in 1 .. Len(M) : i \in 1 .. Len(L) \/ i = Len(L) + 1
    BY <1>0, <1>2
<1>5. ASSUME NEW i \in 1 .. Len(M) PROVE M[i] <= time /\ M[i] \in Nat
  <2>1. CASE i \in 1 .. Len(L)
    <3>1. M[i] = L[i]
      BY <1>2, <2>1
    <3>2. L[i] <= time
      BY <2>1
    <3>3. L[i] \in Nat
      BY <1>0, <2>1
    <3> QED
      BY <3>1, <3>2, <3>3
  <2>2. CASE i = Len(L) + 1
    BY <1>2, <2>2
  <2> QED
    BY <1>4, <2>1, <2>2
<1>6. Ordered(M)
  <2>1. ASSUME NEW i \in 1 .. Len(M), NEW j \in 1 .. Len(M), i <= j PROVE M[i] <= M[j]
    <3>1. CASE j = Len(L) + 1
      BY <1>2, <1>5, <3>1
    <3>2. CASE j \in 1 .. Len(L)
      <4>1. i \in 1 .. Len(L)
        BY <1>0, <2>1, <3>2
      <4> QED
        BY <1>2, <2>1, <3>2, <4>1 DEF Ordered
    <3> QED
      BY <1>4, <3>1, <3>2
  <2> QED
    BY <1>2, <2>1 DEF Ordered
<1>7. r \in 0 .. Len(M) /\ k \in r .. Len(M) /\ \A i \in r + 1 .. k : i \in 1 .. Len(L)
    BY <1>0, <1>2
<1>8. \A i \in r + 1 .. k : M[i] + Window <= time
    BY <1>2, <1>7
<1>9. WellKept(M, r, Append(RestOf(L, k), time), time)
    BY <1>3, <1>5, <1>6, <1>7, <1>8 DEF WellKept
<1> QED
    BY <1>1, <1>9 DEF M

LEMMA CheckIs ==
    ASSUME LimiterInv, NEW c \in Keys, Check(c)
    PROVE  \E k \in removed[c] .. Len(log[c]) :
             LET allowed == Len(RestOf(log[c], k)) < Limit
             IN  /\ \A i \in removed[c] + 1 .. Len(log[c]) : log[c][i] + Window <= clock <=> i <= k
                 /\ windows' = [windows EXCEPT ![c] = IF allowed THEN Append(RestOf(log[c], k), clock)
                                                      ELSE RestOf(log[c], k)]
                 /\ log' = IF allowed THEN [log EXCEPT ![c] = Append(@, clock)] ELSE log
                 /\ verdict' = [verdict EXCEPT ![c] = allowed]
                 /\ clock' = clock /\ removed' = removed
<1>1. clock \in Nat /\ WellKept(log[c], removed[c], windows[c], clock)
    BY DEF LimiterInv
<1>2. PICK k \in removed[c] .. Len(log[c]) :
          /\ Trimmed(windows[c]) = RestOf(log[c], k)
          /\ \A i \in removed[c] + 1 .. Len(log[c]) : log[c][i] + Window <= clock <=> i <= k
    BY <1>1, TrimmedTo
<1> WITNESS k \in removed[c] .. Len(log[c])
<1> QED
    BY <1>2 DEF Check

LEMMA LimiterInvNext ==
    ASSUME LimiterInv, [LimiterNext]_limiterVars
    PROVE  LimiterInv'
<1>0. /\ clock \in Nat /\ DOMAIN windows = Keys /\ windows = [c \in Keys |-> windows[c]]
      /\ log \in [Keys -> Seq(Nat)] /\ removed \in [Keys -> Nat]
      /\ \A c \in Keys : WellKept(log[c], removed[c], windows[c], clock)
    BY DEF LimiterInv
<1>1. ASSUME NEW c \in Keys, Check(c) PROVE LimiterInv'
  <2> DEFINE L == log[c]
             r == removed[c]
             allowed(k) == Len(RestOf(L, k)) < Limit
  <2>1. PICK k \in r .. Len(L) :
          /\ \A i \in r + 1 .. Len(L) : L[i] + Window <= clock <=> i <= k
          /\ windows' = [windows EXCEPT ![c] = IF allowed(k) THEN Append(RestOf(L, k), clock) ELSE RestOf(L, k)]
          /\ log' = IF allowed(k) THEN [log EXCEPT ![c] = Append(@, clock)] ELSE log
          /\ clock' = clock /\ removed' = removed
    BY <1>1, CheckIs
  <2>2. /\ Ordered(L) /\ L \in Seq(Nat) /\ r \in 0 .. Len(L) /\ Len(L) \in Nat
        /\ \A i \in 1 .. Len(L) : L[i] <= clock
    BY <1>0 DEF WellKept, Ordered
  <2>3. \A i \in r + 1 .. k : L[i] + Window <= clock
    BY <2>1, <2>2
  <2>4. /\ WellKept(L, r, RestOf(L, k), clock)
        /\ WellKept(Append(L, clock), r, Append(RestOf(L, k), clock), clock)
    BY <1>0, <2>2, <2>3, AdmitKept
  <2>5. Append(L, clock) \in Seq(Nat)
    BY <1>0, <2>2, AppendProperties
  <2> HIDE DEF allowed
  <2>6. CASE allowed(k)
    <3>1. /\ windows' = [windows EXCEPT ![c] = Append(RestOf(L, k), clock)]
          /\ log' = [log EXCEPT ![c] = Append(L, clock)]
      BY <2>1, <2>6
    <3>2. log' \in [Keys -> Seq(Nat)] /\ DOMAIN windows' = Keys /\ windows' = [d \in Keys |-> windows'[d]]
      BY <1>0, <2>5, <3>1
    <3>3. ASSUME NEW d \in Keys PROVE WellKept(log'[d], removed'[d], windows'[d], clock')
      <4>1. CASE d = c
        BY <1>0, <2>1, <2>4, <3>1, <4>1
      <4>2. CASE d # c
        BY <1>0, <2>1, <3>1, <4>2
      <4> QED
        BY <4>1, <4>2
    <3> QED
      BY <1>0, <2>1, <3>2, <3>3 DEF LimiterInv
  <2>7. CASE ~allowed(k)
    <3>1. windows' = [windows EXCEPT ![c] = RestOf(L, k)] /\ log' = log
      BY <2>1, <2>7
    <3>2. DOMAIN windows' = Keys /\ windows' = [d \in Keys |-> windows'[d]]
      BY <1>0, <3>1
    <3>3. ASSUME NEW d \in Keys PROVE WellKept(log'[d], removed'[d], windows'[d], clock')
      <4>1. CASE d = c
        BY <1>0, <2>1, <2>4, <3>1, <4>1
      <4>2. CASE d # c
        BY <1>0, <2>1, <3>1, <4>2
      <4> QED
        BY <4>1, <4>2
    <3> QED
      BY <1>0, <2>1, <3>1, <3>2, <3>3 DEF LimiterInv
  <2> QED
    BY <2>6, <2>7
<1>2. ASSUME NEW c \in Keys, Remove(c) PROVE LimiterInv'
  <2>1. /\ windows' = [windows EXCEPT ![c] = <<>>] /\ removed' = [removed EXCEPT ![c] = Len(log[c])]
        /\ clock' = clock /\ log' = log
    BY <1>2 DEF Remove
  <2>2. Len(log[c]) \in Nat /\ Ordered(log[c]) /\ \A i \in 1 .. Len(log[c]) : log[c][i] <= clock
    BY <1>0 DEF WellKept
  <2>3. WellKept(log[c], Len(log[c]), <<>>, clock)
    BY <2>2, EmptyKept
  <2>4. removed' \in [Keys -> Nat] /\ DOMAIN windows' = Keys /\ windows' = [d \in Keys |-> windows'[d]]
    BY <1>0, <2>1, <2>2
  <2>5. ASSUME NEW d \in Keys PROVE WellKept(log'[d], removed'[d], windows'[d], clock')
    <3>1. CASE d = c
      BY <1>0, <2>1, <2>3, <3>1
    <3>2. CASE d # c
      BY <1>0, <2>1, <3>2
    <3> QED
      BY <3>1, <3>2
  <2> QED
    BY <1>0, <2>1, <2>4, <2>5 DEF LimiterInv
<1>3. CASE Cleanup
  <2>1. /\ windows' = [c \in Keys |-> Recent(windows[c])]
        /\ clock' = clock /\ log' = log /\ removed' = removed
    BY <1>3 DEF Cleanup
  <2>2. ASSUME NEW c \in Keys PROVE WellKept(log[c], removed[c], Recent(windows[c]), clock)
    <3> DEFINE L == log[c]
               r == removed[c]
    <3>1. PICK k \in r .. Len(L) : /\ Recent(windows[c]) = RestOf(L, k)
                                   /\ \A i \in r + 1 .. Len(L) : L[i] + Window <= clock <=> i <= k
      BY <1>0, TrimmedTo
    <3>2. /\ Ordered(L) /\ r \in 0 .. Len(L) /\ Len(L) \in Nat
          /\ \A i \in 1 .. Len(L) : L[i] <= clock
      BY <1>0 DEF WellKept
    <3>3. \A i \in r + 1 .. k : L[i] + Window <= clock
      BY <3>1, <3>2
    <3>4. WellKept(L, r, RestOf(L, k), clock)
      BY <1>0, <3>2, <3>3, AdmitKept
    <3> QED
      BY <3>1, <3>4
  <2>3. DOMAIN windows' = Keys /\ windows' = [c \in Keys |-> windows'[c]]
    BY <2>1
  <2>4. \A c \in Keys : WellKept(log'[c], removed'[c], windows'[c], clock')
    BY <2>1, <2>2
  <2> QED
    BY <1>0, <2>1, <2>3, <2>4 DEF LimiterInv
<1>4. CASE Elapse
  <2>1. clock' = clock + 1 /\ windows' = windows /\ log' = log /\ removed' = removed
    BY <1>4 DEF Elapse
  <2>2. ASSUME NEW c \in Keys PROVE WellKept(log[c], removed[c], windows[c], clock + 1)
    <3> DEFINE L == log[c]
               r == removed[c]
    <3>1. /\ Ordered(L) /\ L \in Seq(Nat) /\ r \in 0 .. Len(L) /\ Len(L) \in Nat /\ Window \in Nat
          /\ \A i \in 1 .. Len(L) : L[i] <= clock /\ L[i] \in Nat
      BY <1>0, LimiterAssumption DEF WellKept, Ordered
    <3>2. PICK k \in r .. Len(L) : windows[c] = RestOf(L, k) /\ \A i \in r + 1 .. k : L[i] + Window <= clock
      BY <1>0 DEF WellKept
    <3>3. \A i \in 1 .. Len(L) : L[i] <= clock + 1
      BY <1>0, <3>1
    <3>4. \A i \in r + 1 .. k : L[i] + Window <= clock + 1
      <4>1. \A i \in r + 1 .. k : i \in 1 .. Len(L)
        BY <3>1
      <4> QED
        BY <1>0, <3>1, <3>2, <4>1
    <3> QED
      BY <3>1, <3>2, <3>3, <3>4 DEF WellKept
  <2>3. clock + 1 \in Nat
    BY <1>0
  <2> QED
    BY <1>0, <2>1, <2>2, <2>3 DEF LimiterInv
<1>5. CASE UNCHANGED limiterVars
    BY <1>0, <1>5 DEF limiterVars, LimiterInv
<1> QED
    BY <1>1, <1>2, <1>3, <1>4, <1>5 DEF LimiterNext

LEMMA SameCount ==
    ASSUME NEW S
    PROVE  Abstract!Cardinality(S) = Cardinality(S)
BY DEF Abstract!Cardinality, Cardinality

LEMMA LimiterStepRefines ==
    ASSUME LimiterInv, [LimiterNext]_limiterVars
    PROVE  [Abstract!WindowNext]_<<clock, [c \in Keys |-> Since(c)], verdict>>
<1> DEFINE admitted == [c \in Keys |-> Since(c)]
<1>0. /\ clock \in Nat /\ log \in [Keys -> Seq(Nat)] /\ removed \in [Keys -> Nat]
      /\ \A c \in Keys : WellKept(log[c], removed[c], windows[c], clock)
    BY DEF LimiterInv
<1>a. \A c \in Keys : Since(c) = RestOf(log[c], removed[c]) /\ Since(c)' = RestOf(log'[c], removed'[c])
    BY DEF Since, RestOf
<1>b. ASSUME log' = log, removed' = removed PROVE admitted' = admitted
    BY <1>b DEF Since
<1>1. ASSUME NEW c \in Keys, Check(c) PROVE Abstract!Request(c)
  <2> DEFINE L == log[c]
             r == removed[c]
             allowed(k) == Len(RestOf(L, k)) < Limit
             count == Cardinality(Abstract!InWindow(c))
  <2>1. PICK k \in r .. Len(L) :
          /\ \A i \in r + 1 .. Len(L) : L[i] + Window <= clock <=> i <= k
          /\ log' = IF allowed(k) THEN [log EXCEPT ![c] = Append(@, clock)] ELSE log
          /\ verdict' = [verdict EXCEPT ![c] = allowed(k)]
          /\ clock' = clock /\ removed' = removed
    BY <1>1, CheckIs
  <2>2. L \in Seq(Nat) /\ r \in 0 .. Len(L)
    BY <1>0 DEF WellKept
  <2>3. admitted[c] = RestOf(L, r)
    BY <1>a
  <2>4. count = Len(RestOf(L, k))
    <3>1. Abstract!InWindow(c) = {n \in 1 .. Len(RestOf(L, r)) : RestOf(L, r)[n] + Window > clock}
      BY <2>3 DEF Abstract!InWindow
    <3> QED
      BY <1>0, <2>1, <2>2, <3>1, CountIs
  <2> HIDE DEF count
  <2>5. allowed(k) <=> count < Limit
    BY <2>4
  <2>6. verdict' = [verdict EXCEPT ![c] = count < Limit]
    BY <2>1, <2>4
  <2>7. admitted' = IF count < Limit THEN [admitted EXCEPT ![c] = Append(@, clock)] ELSE admitted
    <3>1. CASE count < Limit
      <4>1. log' = [log EXCEPT ![c] = Append(L, clock)] /\ removed' = removed
        BY <2>1, <2>5, <3>1
      <4>2. RestOf(Append(L, clock), r) = Append(RestOf(L, r), clock)
        BY <1>0, <2>2, RestAppended
      <4>3. \A d \in Keys \ {c} : admitted'[d] = admitted[d]
        BY <1>0, <1>a, <4>1
      <4>4. admitted'[c] = Append(admitted[c], clock)
        BY <1>0, <1>a, <4>1, <4>2
      <4>5. admitted' = [d \in Keys |-> admitted'[d]] /\ admitted = [d \in Keys |-> admitted[d]]
        OBVIOUS
      <4> HIDE DEF admitted
      <4> QED
        BY <3>1, <4>3, <4>4, <4>5
    <3>2. CASE ~(count < Limit)
      BY <1>b, <2>1, <2>5, <3>2
    <3> QED
      BY <3>1, <3>2
  <2> QED
    BY <2>1, <2>6, <2>7, SameCount DEF Abstract!Request, count
<1>2. ASSUME NEW c \in Keys, Remove(c) PROVE Abstract!Forget(c)
  <2>1. /\ removed' = [removed EXCEPT ![c] = Len(log[c])] /\ clock' = clock /\ log' = log /\ verdict' = verdict
    BY <1>2 DEF Remove
  <2>2. RestOf(log[c], Len(log[c])) = <<>>
    BY <1>0, SubSeqEmpty DEF RestOf
  <2>3. \A d \in Keys \ {c} : admitted'[d] = admitted[d]
    BY <1>0, <1>a, <2>1
  <2>4. admitted'[c] = <<>>
    BY <1>0, <1>a, <2>1, <2>2
  <2>5. admitted' = [d \in Keys |-> admitted'[d]] /\ admitted = [d \in Keys |-> admitted[d]]
    OBVIOUS
  <2>6. admitted' = [admitted EXCEPT ![c] = <<>>]
    <3> HIDE DEF admitted
    <3> QED
      BY <2>3, <2>4, <2>5
  <2> QED
    BY <2>1, <2>6 DEF Abstract!Forget
<1>3. CASE Cleanup
    BY <1>3, <1>b DEF Cleanup
<1>4. CASE Elapse
  <2>1. clock' > clock /\ verdict' = verdict /\ log' = log /\ removed' = removed
    BY <1>0, <1>4 DEF Elapse
  <2> QED
    BY <1>b, <2>1 DEF Abstract!WindowNext, Abstract!Elapse
<1>5. CASE UNCHANGED limiterVars
    BY <1>5, <1>b DEF limiterVars
<1> QED
    BY <1>1, <1>2, <1>3, <1>4, <1>5 DEF LimiterNext, Abstract!WindowNext

\* For every limit, window and set of clients: check() admits exactly the requests for which the
\* sliding window has room, although it filters a list only when its first entry is stale.
THEOREM LimiterImplementsWindow == LimiterSpec => ImplementsWindow
<1>1. LimiterInit => Abstract!WindowInit
  <2> SUFFICES ASSUME LimiterInit PROVE Abstract!WindowInit
    OBVIOUS
  <2>1. /\ clock = 0 /\ verdict = [c \in Keys |-> TRUE] /\ log = [c \in Keys |-> <<>>]
        /\ removed = [c \in Keys |-> 0]
    BY DEF LimiterInit
  <2>2. ASSUME NEW c \in Keys PROVE Since(c) = <<>>
    <3>1. log[c] = <<>> /\ removed[c] = 0 /\ Len(log[c]) = 0
      BY <2>1
    <3>2. Since(c) = SubSeq(<<>>, 0 + 1, 0)
      BY <3>1 DEF Since
    <3>3. 0 + 1 \in Int /\ 0 \in Int /\ 0 < 0 + 1
      OBVIOUS
    <3> QED
      BY <3>2, <3>3, SubSeqEmpty
  <2> QED
    BY <2>1, <2>2 DEF Abstract!WindowInit
<1>2. LimiterInv /\ [LimiterNext]_limiterVars => LimiterInv'
    BY LimiterInvNext
<1>3. LimiterInv /\ [LimiterNext]_limiterVars =>
          [Abstract!WindowNext]_<<clock, [c \in Keys |-> Since(c)], verdict>>
    BY LimiterStepRefines
<1> QED
    BY <1>1, <1>2, <1>3, LimiterInvInit, PTL DEF LimiterSpec, ImplementsWindow, Abstract!WindowSpec
=============================================================================
