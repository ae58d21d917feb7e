---------------------------- MODULE DeviceProofs ----------------------------
(***************************************************************************)
(* What the commands and the daemon keep on the device, for any number of  *)
(* processes and terminals: the wheel and layer cache for any sizes and    *)
(* limit, the package metadata for any time to live, sync interval, sleep  *)
(* and request timeout, the configuration file, and the daemon itself.     *)
(***************************************************************************)
EXTENDS WheelCache, CatalogSync, Settings, Daemon, SequenceFacts

-----------------------------------------------------------------------------
(* The wheel and layer cache.                                              *)

\* The running sums of the sizes of an index's entries.
Sums(ix, g) ==
  /\ g \in [0 .. Len(ix) -> Nat]
  /\ g[0] = 0
  /\ \A i \in 1 .. Len(ix) : g[i] = g[i - 1] + SizeOf[ix[i].path]

\* Entries have a size.
LEMMA EntrySize ==
  ASSUME NEW ix \in Seq(Entries), NEW i \in DOMAIN ix
  PROVE  ix[i] \in Entries /\ ix[i].path \in Paths /\ ix[i].key \in Keys /\ SizeOf[ix[i].path] \in Nat
<1>1. ix[i] \in Entries
  OBVIOUS
<1>2. ix[i].path \in Paths /\ ix[i].key \in Keys
  BY <1>1 DEF Entries
<1> QED BY <1>1, <1>2, CacheAssumption

\* Every index has running sums.
LEMMA SumsExist ==
  ASSUME NEW ix \in Seq(Entries)
  PROVE  \E g : Sums(ix, g)
<1> DEFINE n == Len(ix)
           step == [x \in Nat \X (1 .. n) |-> x[1] + SizeOf[ix[x[2]].path]]
<1>1. n \in Nat /\ DOMAIN ix = 1 .. n
  OBVIOUS
<1>2. \A i \in 1 .. n : SizeOf[ix[i].path] \in Nat
  BY <1>1, EntrySize
<1>3. step \in [Nat \X (1 .. n) -> Nat]
  BY <1>2
<1>4. ASSUME NEW v \in Nat, NEW i \in 1 .. n PROVE step[<<v, i>>] = v + SizeOf[ix[i].path]
  OBVIOUS
<1> HIDE DEF step, n
<1>a. PICK g : Trace(g, Nat, 0, n, step)
  <2>1. 0 \in Nat /\ n \in Nat
    BY <1>1
  <2> QED BY <1>3, <2>1, LoopTrace
<1>5. g \in [0 .. n -> Nat] /\ g[0] = 0 /\ \A i \in 1 .. n : g[i] = step[<<g[i - 1], i>>]
  BY <1>a DEF Trace
<1>6. ASSUME NEW i \in 1 .. n PROVE g[i] = g[i - 1] + SizeOf[ix[i].path]
  <2>1. i - 1 \in 0 .. n
    BY <1>1
  <2>2. g[i - 1] \in Nat
    BY <1>5, <2>1
  <2> QED BY <1>4, <1>5, <2>2
<1>7. Sums(ix, g)
  BY <1>5, <1>6 DEF Sums, n
<1> QED BY <1>7

\* The total is the last of the running sums.
LEMMA TotalIsSum ==
  ASSUME NEW ix \in Seq(Entries), NEW g, Sums(ix, g)
  PROVE  Total(ix) = g[Len(ix)] /\ Total(ix) \in Nat
<1> DEFINE n == Len(ix)
           s == CHOOSE f : f = [i \in 0 .. n |-> IF i = 0 THEN 0 ELSE f[i - 1] + SizeOf[ix[i].path]]
<1>1. n \in Nat
  OBVIOUS
<1>2. g = [i \in 0 .. n |-> IF i = 0 THEN 0 ELSE g[i - 1] + SizeOf[ix[i].path]]
  BY <1>1 DEF Sums
<1>3. s = [i \in 0 .. n |-> IF i = 0 THEN 0 ELSE s[i - 1] + SizeOf[ix[i].path]]
  BY <1>2
<1>4. Total(ix) = s[n]
  BY DEF Total
<1> HIDE DEF s
<1> DEFINE G == {i \in 0 .. n : s[i] = g[i]}
<1>5. 0 \in G
  BY <1>1, <1>3 DEF Sums
<1>6. ASSUME NEW m \in 0 .. n - 1, m \in G PROVE m + 1 \in G
  <2>1. m + 1 \in 1 .. n /\ m + 1 \in 0 .. n /\ (m + 1) - 1 = m /\ m + 1 # 0
    BY <1>1
  <2>2. s[m + 1] = s[m] + SizeOf[ix[m + 1].path]
    BY <1>3, <2>1
  <2>3. g[m + 1] = g[m] + SizeOf[ix[m + 1].path]
    BY <2>1 DEF Sums
  <2> QED BY <1>6, <2>1, <2>2, <2>3
<1>7. 0 .. n \subseteq G
  <2> HIDE DEF G
  <2> QED BY <1>1, <1>5, <1>6, Upwards
<1>8. s[n] = g[n] /\ g[n] \in Nat
  BY <1>1, <1>7 DEF Sums
<1> QED BY <1>4, <1>8

\* An empty index takes no room.
LEMMA TotalEmpty == Total(<< >>) = 0
<1> DEFINE g == [i \in 0 .. 0 |-> 0]
<1>1. << >> \in Seq(Entries) /\ Len(<< >>) = 0
  OBVIOUS
<1>2. Sums(<< >>, g)
  <2>1. \A i \in 1 .. 0 : FALSE
    OBVIOUS
  <2> QED BY <1>1, <2>1 DEF Sums
<1>3. g[0] = 0
  OBVIOUS
<1> HIDE DEF g
<1> QED BY <1>1, <1>2, <1>3, TotalIsSum

\* A new entry adds its size.
LEMMA TotalAppend ==
  ASSUME NEW ix \in Seq(Entries), NEW e \in Entries
  PROVE  Total(Append(ix, e)) = Total(ix) + SizeOf[e.path]
<1> DEFINE n == Len(ix)
           jx == Append(ix, e)
<1>1. PICK g : Sums(ix, g)
  BY SumsExist
<1>2. n \in Nat /\ jx \in Seq(Entries) /\ Len(jx) = n + 1 /\ jx[n + 1] = e /\ \A i \in 1 .. n : jx[i] = ix[i]
  BY AppendProperties
<1>3. SizeOf[e.path] \in Nat
  BY CacheAssumption DEF Entries
<1> DEFINE h == [i \in 0 .. n + 1 |-> IF i = n + 1 THEN g[n] + SizeOf[e.path] ELSE g[i]]
<1>4. g \in [0 .. n -> Nat] /\ g[0] = 0 /\ \A i \in 1 .. n : g[i] = g[i - 1] + SizeOf[ix[i].path]
  BY <1>1 DEF Sums
<1> HIDE DEF n, jx
<1>5. h \in [0 .. n + 1 -> Nat] /\ h[0] = 0 /\ h[n + 1] = g[n] + SizeOf[e.path] /\ \A i \in 0 .. n : h[i] = g[i]
  BY <1>2, <1>3, <1>4
<1> HIDE DEF h
<1>6. ASSUME NEW i \in 1 .. n + 1 PROVE h[i] = h[i - 1] + SizeOf[jx[i].path]
  <2>1. CASE i = n + 1
    <3>1. i - 1 = n /\ n \in 0 .. n
      BY <1>2, <2>1
    <3> QED BY <1>2, <1>5, <2>1, <3>1
  <2>2. CASE i # n + 1
    <3>1. i \in 1 .. n /\ i \in 0 .. n /\ i - 1 \in 0 .. n
      BY <1>2, <2>2
    <3> QED BY <1>2, <1>4, <1>5, <3>1
  <2> QED BY <2>1, <2>2
<1>7. Sums(jx, h)
  BY <1>2, <1>5, <1>6 DEF Sums
<1>8. Total(jx) = h[n + 1]
  BY <1>2, <1>7, TotalIsSum
<1>9. Total(ix) = g[n]
  BY <1>1, TotalIsSum DEF n
<1> QED BY <1>5, <1>8, <1>9 DEF jx

\* Taking out an entry takes away its size.
LEMMA TotalPopped ==
  ASSUME NEW ix \in Seq(Entries), NEW k \in DOMAIN ix
  PROVE  Total(Popped(ix, k)) = Total(ix) - SizeOf[ix[k].path]
<1> DEFINE n == Len(ix)
           jx == Popped(ix, k)
           z == SizeOf[ix[k].path]
<1>1. PICK g : Sums(ix, g)
  BY SumsExist
<1>2. n \in Nat /\ k \in 1 .. n /\ jx \in Seq(Entries) /\ Len(jx) = n - 1
      /\ \A j \in 1 .. n - 1 : jx[j] = IF j < k THEN ix[j] ELSE ix[j + 1]
  BY PoppedFacts
<1>3. z \in Nat /\ \A i \in 1 .. n : SizeOf[ix[i].path] \in Nat
  BY EntrySize
<1>4. g \in [0 .. n -> Nat] /\ g[0] = 0 /\ \A i \in 1 .. n : g[i] = g[i - 1] + SizeOf[ix[i].path]
  BY <1>1 DEF Sums
<1> DEFINE G == {i \in 0 .. n : i >= k => g[i] >= z}
<1>5. \A i \in k .. n : g[i] >= z
  <2>1. 0 \in G
    BY <1>2
  <2>2. ASSUME NEW m \in 0 .. n - 1, m \in G PROVE m + 1 \in G
    <3>0. m + 1 \in 1 .. n /\ m \in 0 .. n /\ (m + 1) - 1 = m
      BY <1>2
    <3>1. m + 1 \in 1 .. n /\ m \in 0 .. n /\ (m + 1) - 1 = m /\ g[m] \in Nat /\ SizeOf[ix[m + 1].path] \in Nat
      <4> HIDE DEF n, z
      <4> QED BY <1>3, <1>4, <3>0
    <3>2. g[m + 1] = g[m] + SizeOf[ix[m + 1].path]
      BY <1>4, <3>1
    <3>3. CASE m + 1 = k
      BY <3>1, <3>2, <3>3
    <3>4. CASE m + 1 # k
      <4>1. m + 1 >= k => m >= k
        BY <3>4, <1>2
      <4>2. m >= k => g[m] >= z
        BY <2>2
      <4> HIDE DEF z
      <4>3. m + 1 >= k => g[m + 1] >= z
        BY <1>3, <3>1, <3>2, <4>1, <4>2
      <4> QED BY <3>1, <4>3
    <3> QED BY <3>3, <3>4
  <2>3. 0 .. n \subseteq G
    <3> HIDE DEF G
    <3> QED BY <1>2, <2>1, <2>2, Upwards
  <2> QED BY <1>2, <2>3
<1> DEFINE h == [j \in 0 .. n - 1 |-> IF j < k THEN g[j] ELSE g[j + 1] - z]
<1>e. z = SizeOf[ix[k].path]
  OBVIOUS
<1> HIDE DEF n, jx, z
<1>6. \A j \in 0 .. n - 1 : h[j] = IF j < k THEN g[j] ELSE g[j + 1] - z
  OBVIOUS
<1>7. ASSUME NEW j \in 0 .. n - 1 PROVE (IF j < k THEN g[j] ELSE g[j + 1] - z) \in Nat
  <2>1. CASE j < k
    BY <1>2, <1>4, <2>1
  <2>2. CASE ~(j < k)
    <3>1. j + 1 \in k .. n /\ j + 1 \in 0 .. n
      BY <1>2, <2>2
    <3>2. g[j + 1] \in Nat /\ g[j + 1] >= z
      BY <1>4, <1>5, <3>1
    <3> QED BY <1>3, <2>2, <3>2
  <2> QED BY <2>1, <2>2
<1>8. h \in [0 .. n - 1 -> Nat]
  BY <1>7
<1>9. h[0] = 0
  BY <1>2, <1>4, <1>6
<1> HIDE DEF h
<1>10. ASSUME NEW i \in 1 .. n - 1 PROVE h[i] = h[i - 1] + SizeOf[jx[i].path]
  <2>0. i \in 0 .. n - 1 /\ i - 1 \in 0 .. n - 1 /\ i \in 1 .. n /\ i + 1 \in 1 .. n /\ i - 1 \in 0 .. n /\ i \in 0 .. n
        /\ i + 1 \in 0 .. n /\ (i + 1) - 1 = i /\ (i - 1) + 1 = i
    BY <1>2
  <2>1. CASE i < k
    <3>1. i - 1 < k
      BY <1>2, <2>1
    <3> QED BY <1>2, <1>4, <1>6, <2>0, <2>1, <3>1
  <2>2. CASE ~(i < k)
    <3>1. h[i] = g[i + 1] - z /\ jx[i] = ix[i + 1] /\ g[i + 1] = g[i] + SizeOf[ix[i + 1].path]
      BY <1>2, <1>4, <1>6, <2>0, <2>2
    <3>2. h[i - 1] = g[i] - z
      <4>1. CASE i - 1 < k
        <5>1. i = k
          BY <1>2, <2>2, <4>1
        <5>2. g[i] = g[i - 1] + z
          BY <1>4, <1>e, <2>0, <5>1
        <5>3. g[i - 1] \in Nat
          BY <1>4, <2>0
        <5> QED BY <1>3, <1>6, <2>0, <4>1, <5>2, <5>3
      <4>2. CASE ~(i - 1 < k)
        BY <1>6, <2>0, <4>2
      <4> QED BY <4>1, <4>2
    <3>3. g[i] \in Nat /\ SizeOf[ix[i + 1].path] \in Nat
      BY <1>3, <1>4, <2>0
    <3> QED BY <1>3, <3>1, <3>2, <3>3
  <2> QED BY <2>1, <2>2
<1>11. Sums(jx, h)
  BY <1>2, <1>8, <1>9, <1>10 DEF Sums
<1>12. Total(jx) = h[n - 1]
  BY <1>2, <1>11, TotalIsSum
<1>13. Total(ix) = g[n]
  BY <1>1, TotalIsSum DEF n
<1>14. h[n - 1] = g[n] - z
  <2>0. n - 1 \in 0 .. n - 1 /\ n \in 0 .. n /\ (n - 1) + 1 = n
    BY <1>2
  <2>1. CASE n - 1 < k
    <3>1. n = k
      BY <1>2, <2>1
    <3>2. g[n] = g[n - 1] + z /\ g[n - 1] \in Nat
      BY <1>2, <1>4, <1>e, <3>1
    <3> QED BY <1>3, <1>6, <2>0, <2>1, <3>2
  <2>2. CASE ~(n - 1 < k)
    BY <1>6, <2>0, <2>2
  <2> QED BY <2>1, <2>2
<1> QED BY <1>12, <1>13, <1>14 DEF jx, z

\* What is left after dropping the first n entries, and what it takes.
LEMMA DropFacts ==
  ASSUME NEW ix \in Seq(Entries), NEW n \in 0 .. Len(ix)
  PROVE  /\ Drop(ix, n) \in Seq(Entries)
         /\ Len(Drop(ix, n)) = Len(ix) - n
         /\ \A i \in 1 .. Len(ix) - n : Drop(ix, n)[i] = ix[n + i]
<1>1. Len(ix) \in Nat /\ n + 1 \in Int /\ Len(ix) \in Int /\ DOMAIN ix = 1 .. Len(ix)
  OBVIOUS
<1>2. \A i \in n + 1 .. Len(ix) : ix[i] \in Entries
  BY <1>1
<1>3. /\ Drop(ix, n) \in Seq(Entries)
      /\ Len(Drop(ix, n)) = IF n + 1 <= Len(ix) THEN Len(ix) - (n + 1) + 1 ELSE 0
      /\ \A i \in 1 .. Len(ix) - (n + 1) + 1 : Drop(ix, n)[i] = ix[(n + 1) + i - 1]
  BY <1>1, <1>2, SubSeqProperties DEF Drop
<1>4. /\ Len(ix) - (n + 1) + 1 = Len(ix) - n
      /\ \A i \in 1 .. Len(ix) - n : (n + 1) + i - 1 = n + i
      /\ ~ (n + 1 <= Len(ix)) => Len(ix) - n = 0
  <2> DEFINE l == Len(ix)
  <2>1. l \in Nat /\ n \in Int /\ n <= l
    BY <1>1
  <2> HIDE DEF l
  <2>2. l - (n + 1) + 1 = l - n /\ (~ (n + 1 <= l) => l - n = 0)
    BY <2>1
  <2>3. \A i \in 1 .. l - n : (n + 1) + i - 1 = n + i
    <3>1. l - n \in Int
      BY <2>1
    <3> QED BY <2>1, <3>1
  <2> QED BY <2>2, <2>3 DEF l
<1> QED BY <1>3, <1>4

\* Dropping everything leaves room for nothing but the limit's 90%: the eviction ends.
LEMMA EvictEnds ==
  ASSUME NEW ix \in Seq(Entries)
  PROVE  /\ EvictCount(ix) \in 0 .. Len(ix)
         /\ Kept(ix) \in Seq(Entries)
         /\ 10 * Total(Kept(ix)) <= 9 * MaxSize
<1> DEFINE InRoom(n) == 10 * Total(Drop(ix, n)) <= 9 * MaxSize
           T == {n \in 0 .. Len(ix) : InRoom(n)}
           Best(n) == InRoom(n) /\ \A m \in 0 .. n - 1 : 10 * Total(Drop(ix, m)) > 9 * MaxSize
<1>1. Len(ix) \in Nat
  OBVIOUS
<1>2. Len(ix) \in T
  <2>1. Len(ix) \in 0 .. Len(ix) /\ Len(ix) - Len(ix) = 0
    BY <1>1
  <2>2. Drop(ix, Len(ix)) \in Seq(Entries) /\ Len(Drop(ix, Len(ix))) = 0
    BY <2>1, DropFacts
  <2>3. Drop(ix, Len(ix)) = << >>
    BY <2>2, EmptySeq
  <2>4. InRoom(Len(ix))
    BY <2>3, TotalEmpty, CacheAssumption
  <2> QED BY <2>1, <2>4
<1>3. PICK n \in T : \A y \in T : n <= y
  <2>1. T \in SUBSET Nat
    OBVIOUS
  <2> HIDE DEF T
  <2> QED BY <1>2, <2>1, FirstPosition
<1>4. n \in 0 .. Len(ix) /\ Best(n)
  <2>1. n \in 0 .. Len(ix) /\ InRoom(n)
    BY <1>3
  <2>2. ASSUME NEW m \in 0 .. n - 1 PROVE 10 * Total(Drop(ix, m)) > 9 * MaxSize
    <3>1. m \in 0 .. Len(ix) /\ ~(n <= m)
      BY <1>1, <2>1
    <3>2. m \notin T
      BY <1>3, <3>1
    <3>3. ~InRoom(m)
      BY <3>1, <3>2
    <3>4. Drop(ix, m) \in Seq(Entries)
      BY <3>1, DropFacts
    <3>5. Total(Drop(ix, m)) \in Nat
      BY <3>4, SumsExist, TotalIsSum
    <3> QED BY <3>3, <3>5, CacheAssumption
  <2> QED BY <2>1, <2>2
<1>5. EvictCount(ix) \in 0 .. Len(ix) /\ Best(EvictCount(ix))
  <2>1. EvictCount(ix) = CHOOSE x \in 0 .. Len(ix) : Best(x)
    BY DEF EvictCount
  <2> HIDE DEF Best
  <2> QED BY <1>4, <2>1
<1>6. Kept(ix) = Drop(ix, EvictCount(ix))
  BY DEF Kept
<1> QED BY <1>5, <1>6, DropFacts

\* An index as CacheTypeOK describes it: one entry for a key, which names the key's path.
Keyed(ix) ==
  /\ ix \in Seq(Entries)
  /\ \A i, j \in DOMAIN ix : ix[i].key = ix[j].key => i = j
  /\ \A i \in DOMAIN ix : ix[i].path = PathOf[ix[i].key]

\* What IndexBounded says of one index.
Bounded(ix) == \E f \in Paths : 10 * Total(ix) <= 9 * MaxSize + 10 * SizeOf[f]

\* Both.
Proper(ix) == Keyed(ix) /\ Bounded(ix)

\* The empty index, in memory or on disk, is one.
LEMMA EmptyProper == Proper(<< >>)
<1>1. Keyed(<< >>)
  BY DEF Keyed
<1>2. Bounded(<< >>)
  <2>1. PICK f \in Paths : TRUE
    BY CacheAssumption
  <2>2. 10 * Total(<< >>) <= 9 * MaxSize + 10 * SizeOf[f]
    BY TotalEmpty, CacheAssumption
  <2> QED BY <2>2 DEF Bounded
<1> QED BY <1>1, <1>2 DEF Proper

\* Totals are numbers.
LEMMA TotalNat ==
  ASSUME NEW ix \in Seq(Entries)
  PROVE  Total(ix) \in Nat
BY SumsExist, TotalIsSum

\* Dropping entries makes room.
LEMMA TotalDrop ==
  ASSUME NEW ix \in Seq(Entries), NEW c \in 0 .. Len(ix)
  PROVE  Total(Drop(ix, c)) <= Total(ix)
<1> DEFINE n == Len(ix)
           G == {m \in 0 .. n : Total(Drop(ix, m)) <= Total(ix)}
<1>1. n \in Nat /\ DOMAIN ix = 1 .. n
  OBVIOUS
<1>d. \A m \in 0 .. n : Drop(ix, m) \in Seq(Entries) /\ Len(Drop(ix, m)) = n - m
                        /\ \A i \in 1 .. n - m : Drop(ix, m)[i] = ix[m + i]
  BY DropFacts
<1>t. Total(ix) \in Nat
  BY TotalNat
<1> HIDE DEF n
<1>2. 0 \in G
  <2>1. 0 \in 0 .. n /\ n - 0 = n /\ \A i \in 1 .. n : 0 + i = i
    BY <1>1
  <2>2. Drop(ix, 0) \in Seq(Entries) /\ Len(Drop(ix, 0)) = n /\ \A i \in 1 .. n : Drop(ix, 0)[i] = ix[i]
    BY <1>1, <1>d, <2>1
  <2>3. Drop(ix, 0) = ix
    BY <1>1, <2>2, SeqEqual DEF n
  <2> QED BY <1>t, <2>1, <2>3
<1>3. ASSUME NEW m \in 0 .. n - 1, m \in G PROVE m + 1 \in G
  <2> DEFINE q == Drop(ix, m)
             r == Drop(ix, m + 1)
  <2>1. m \in 0 .. n /\ m + 1 \in 0 .. n /\ n - m \in Nat /\ n - (m + 1) = (n - m) - 1 /\ 1 \in 1 .. n - m
    BY <1>1
  <2>2. q \in Seq(Entries) /\ Len(q) = n - m /\ \A i \in 1 .. n - m : q[i] = ix[m + i]
    BY <1>d, <2>1
  <2>3. r \in Seq(Entries) /\ Len(r) = (n - m) - 1 /\ \A i \in 1 .. (n - m) - 1 : r[i] = ix[(m + 1) + i]
    BY <1>d, <2>1
  <2> HIDE DEF q, r
  <2>4. 1 \in DOMAIN q
    BY <2>1, <2>2
  <2>5. /\ Popped(q, 1) \in Seq(Entries) /\ Len(Popped(q, 1)) = (n - m) - 1
        /\ \A j \in 1 .. (n - m) - 1 : Popped(q, 1)[j] = IF j < 1 THEN q[j] ELSE q[j + 1]
    BY <2>2, <2>4, PoppedFacts
  <2>6. ASSUME NEW j \in 1 .. (n - m) - 1 PROVE r[j] = Popped(q, 1)[j]
    <3>1. ~(j < 1) /\ j + 1 \in 1 .. n - m /\ m + (j + 1) = (m + 1) + j
      BY <1>1, <2>1
    <3> QED BY <2>2, <2>3, <2>5, <3>1
  <2>7. r = Popped(q, 1)
    BY <2>3, <2>5, <2>6, SeqEqual
  <2>8. Total(r) = Total(q) - SizeOf[q[1].path] /\ SizeOf[q[1].path] \in Nat /\ Total(q) \in Nat
    BY <2>2, <2>4, <2>7, TotalPopped, EntrySize, TotalNat
  <2>9. Total(q) <= Total(ix)
    BY <1>3 DEF q
  <2>10. Total(r) <= Total(ix)
    BY <1>t, <2>8, <2>9
  <2> QED BY <2>1, <2>10 DEF r
<1>4. 0 .. n \subseteq G
  <2> HIDE DEF G
  <2> QED BY <1>1, <1>2, <1>3, Upwards
<1> QED BY <1>4 DEF n

\* What an eviction that drops the first c entries leaves.
LEMMA DroppedFacts ==
  ASSUME NEW ix, Proper(ix), NEW c \in 0 .. Len(ix)
  PROVE  /\ Proper(Drop(ix, c))
         /\ PathsOf(ix) = PathsOf(Drop(ix, c)) \union PathsOf(SubSeq(ix, 1, c))
         /\ \A i \in DOMAIN Drop(ix, c) : \E j \in DOMAIN ix : Drop(ix, c)[i] = ix[j] /\ j > c
         /\ PathsOf(SubSeq(ix, 1, c)) = {ix[i].path : i \in 1 .. c}
<1> DEFINE n == Len(ix)
           jx == Drop(ix, c)
           gone == PathsOf(SubSeq(ix, 1, c))
<1>1. Keyed(ix) /\ ix \in Seq(Entries) /\ n \in Nat /\ DOMAIN ix = 1 .. n
  BY DEF Proper, Keyed
<1>2. c \in 0 .. n /\ jx \in Seq(Entries) /\ Total(jx) <= Total(ix)
  BY <1>1, DropFacts, TotalDrop
<1>4. DOMAIN jx = 1 .. n - c /\ \A i \in 1 .. n - c : jx[i] = ix[c + i]
  <2> HIDE DEF jx
  <2>1. /\ jx \in Seq(Entries) /\ Len(jx) = n - c
        /\ \A i \in 1 .. n - c : jx[i] = ix[c + i]
    BY <1>1, <1>2, DropFacts DEF jx
  <2> QED BY <2>1
<1>5. gone = {ix[i].path : i \in 1 .. c}
  <2>2. DOMAIN SubSeq(ix, 1, c) = 1 .. c /\ \A i \in 1 .. c : SubSeq(ix, 1, c)[i] = ix[i]
    BY <1>1, <1>2
  <2> QED BY <2>2 DEF PathsOf
<1> HIDE DEF jx, n, gone
<1>6. Keyed(jx)
  <2>1. \A i \in 1 .. n - c : c + i \in 1 .. n
    BY <1>1, <1>2
  <2>2. ASSUME NEW i \in DOMAIN jx, NEW j \in DOMAIN jx, jx[i].key = jx[j].key PROVE i = j
    <3>1. c + i \in DOMAIN ix /\ c + j \in DOMAIN ix /\ ix[c + i].key = ix[c + j].key
      BY <1>1, <1>4, <2>1, <2>2
    <3>2. c + i = c + j
      BY <1>1, <3>1 DEF Keyed
    <3> QED BY <1>1, <1>2, <1>4, <3>2
  <2>3. ASSUME NEW i \in DOMAIN jx PROVE jx[i].path = PathOf[jx[i].key]
    <3>1. c + i \in DOMAIN ix /\ jx[i] = ix[c + i]
      BY <1>1, <1>4, <2>1
    <3> QED BY <1>1, <3>1 DEF Keyed
  <2> QED BY <1>2, <2>2, <2>3 DEF Keyed
<1>7. Bounded(jx)
  <2>1. PICK f \in Paths : 10 * Total(ix) <= 9 * MaxSize + 10 * SizeOf[f]
    BY DEF Proper, Bounded
  <2>2. SizeOf[f] \in Nat /\ Total(jx) \in Nat /\ Total(ix) \in Nat
    BY <1>1, <1>2, TotalNat, CacheAssumption
  <2>3. 10 * Total(jx) <= 9 * MaxSize + 10 * SizeOf[f]
    BY <1>2, <2>1, <2>2, CacheAssumption
  <2> QED BY <2>3 DEF Bounded
<1>8. PathsOf(ix) = PathsOf(jx) \union gone
  <2>1. ASSUME NEW x \in PathsOf(ix) PROVE x \in PathsOf(jx) \union gone
    <3>1. PICK i \in 1 .. n : x = ix[i].path
      BY <1>1 DEF PathsOf
    <3>2. CASE i <= c
      <4>1. i \in 1 .. c
        BY <1>1, <1>2, <3>2
      <4> QED BY <1>5, <3>1, <4>1
    <3>3. CASE ~(i <= c)
      <4>1. i - c \in 1 .. n - c /\ c + (i - c) = i
        BY <1>1, <1>2, <3>3
      <4>2. x = jx[i - c].path
        BY <1>4, <3>1, <4>1
      <4> QED BY <1>4, <4>1, <4>2 DEF PathsOf
    <3> QED BY <3>2, <3>3
  <2>2. ASSUME NEW x \in PathsOf(jx) PROVE x \in PathsOf(ix)
    <3>1. PICK i \in 1 .. n - c : x = jx[i].path
      BY <1>4 DEF PathsOf
    <3>2. c + i \in 1 .. n /\ x = ix[c + i].path
      BY <1>1, <1>2, <1>4, <3>1
    <3> QED BY <1>1, <3>2 DEF PathsOf
  <2>3. ASSUME NEW x \in gone PROVE x \in PathsOf(ix)
    <3>1. PICK i \in 1 .. c : x = ix[i].path
      BY <1>5
    <3>2. i \in 1 .. n
      BY <1>1, <1>2
    <3> QED BY <1>1, <3>1, <3>2 DEF PathsOf
  <2> QED BY <2>1, <2>2, <2>3
<1>9. ASSUME NEW i \in DOMAIN jx PROVE \E j \in DOMAIN ix : jx[i] = ix[j] /\ j > c
  <2>1. c + i \in 1 .. n /\ c + i > c /\ jx[i] = ix[c + i]
    BY <1>1, <1>2, <1>4
  <2> QED BY <1>1, <2>1
<1> QED BY <1>2, <1>5, <1>6, <1>7, <1>8, <1>9 DEF Proper, jx, gone, n

\* What the eviction leaves.
LEMMA KeptFacts ==
  ASSUME NEW ix, Proper(ix)
  PROVE  /\ Proper(Kept(ix)) /\ 10 * Total(Kept(ix)) <= 9 * MaxSize
         /\ PathsOf(ix) = PathsOf(Kept(ix)) \union Evicted(ix)
         /\ \A i \in DOMAIN Kept(ix) : \E j \in DOMAIN ix : Kept(ix)[i] = ix[j] /\ j > EvictCount(ix)
         /\ Evicted(ix) = {ix[i].path : i \in 1 .. EvictCount(ix)}
         /\ EvictCount(ix) \in 0 .. Len(ix)
<1>1. ix \in Seq(Entries)
  BY DEF Proper, Keyed
<1>2. EvictCount(ix) \in 0 .. Len(ix) /\ 10 * Total(Kept(ix)) <= 9 * MaxSize
  BY <1>1, EvictEnds
<1> QED BY <1>2, DroppedFacts DEF Kept, Evicted

\* What is left when the entry of a key is taken out.
LEMMA WithoutFacts ==
  ASSUME NEW ix, Keyed(ix), NEW k \in Keys
  PROVE  /\ Keyed(Without(ix, k)) /\ ~HasKey(Without(ix, k), k)
         /\ \A i \in DOMAIN Without(ix, k) : \E j \in DOMAIN ix : Without(ix, k)[i] = ix[j]
         /\ \A j \in DOMAIN ix : ix[j].key = k \/ \E i \in DOMAIN Without(ix, k) : Without(ix, k)[i] = ix[j]
         /\ Total(Without(ix, k)) <= Total(ix)
         /\ HasKey(ix, k) => /\ EntryOf(ix, k) \in Entries /\ EntryOf(ix, k).key = k
                             /\ EntryOf(ix, k).path = PathOf[k]
                             /\ \E j \in DOMAIN ix : ix[j] = EntryOf(ix, k)
                             /\ Total(Without(ix, k)) = Total(ix) - SizeOf[PathOf[k]]
<1> DEFINE w == Without(ix, k)
<1>0. ix \in Seq(Entries) /\ Total(ix) \in Nat
  BY TotalNat DEF Keyed
<1>1. CASE ~HasKey(ix, k)
  <2>1. w = ix
    BY <1>1 DEF Without
  <2>2. Total(ix) <= Total(ix)
    BY <1>0
  <2> QED BY <1>1, <2>1, <2>2 DEF HasKey
<1>2. CASE HasKey(ix, k)
  <2> DEFINE p == Position(ix, k)
             e == EntryOf(ix, k)
  <2>1. p \in DOMAIN ix /\ ix[p].key = k
    BY <1>2 DEF HasKey, Position
  <2>2. w = Popped(ix, p)
    BY <1>2 DEF Without, Popped
  <2>3. e = ix[p] /\ e \in Entries /\ e.key = k /\ e.path = PathOf[k]
    BY <1>0, <2>1, EntrySize DEF EntryOf, Keyed
  <2> HIDE DEF p, e, w
  <2>4. w \in Seq(Entries)
    BY <1>0, <2>1, <2>2, PoppedFacts
  <2>5. PICK from \in [DOMAIN w -> DOMAIN ix \ {p}] :
          /\ \A j \in DOMAIN w : w[j] = ix[from[j]]
          /\ \A j, l \in DOMAIN w : from[j] = from[l] => j = l
          /\ \A l \in DOMAIN ix \ {p} : \E j \in DOMAIN w : from[j] = l
    <3>1. \E from \in [DOMAIN Popped(ix, p) -> DOMAIN ix \ {p}] :
            /\ \A j \in DOMAIN Popped(ix, p) : Popped(ix, p)[j] = ix[from[j]]
            /\ \A j, l \in DOMAIN Popped(ix, p) : from[j] = from[l] => j = l
            /\ \A l \in DOMAIN ix \ {p} : \E j \in DOMAIN Popped(ix, p) : from[j] = l
      BY <1>0, <2>1, PoppedFrom
    <3> QED BY <2>2, <3>1
  <2>6. \A j \in DOMAIN w : from[j] \in DOMAIN ix /\ from[j] # p
    BY <2>5
  <2>7. Keyed(w)
    <3>1. ASSUME NEW i \in DOMAIN w, NEW j \in DOMAIN w, w[i].key = w[j].key PROVE i = j
      BY <2>5, <2>6, <3>1 DEF Keyed
    <3>2. \A i \in DOMAIN w : w[i].path = PathOf[w[i].key]
      BY <2>5, <2>6 DEF Keyed
    <3> QED BY <2>4, <3>1, <3>2 DEF Keyed
  <2>8. ~HasKey(w, k)
    BY <2>1, <2>5, <2>6 DEF Keyed, HasKey
  <2>9. \A j \in DOMAIN ix : ix[j].key = k \/ \E i \in DOMAIN w : w[i] = ix[j]
    BY <2>1, <2>5
  <2>10. \A i \in DOMAIN w : \E j \in DOMAIN ix : w[i] = ix[j]
    BY <2>5, <2>6
  <2>11. Total(w) = Total(ix) - SizeOf[PathOf[k]]
    BY <1>0, <2>1, <2>2, <2>3, TotalPopped
  <2>12. Total(w) <= Total(ix)
    BY <1>0, <2>11, CacheAssumption
  <2> QED BY <2>1, <2>3, <2>7, <2>8, <2>9, <2>10, <2>11, <2>12 DEF w, e
<1> QED BY <1>1, <1>2

\* What a new entry adds.
LEMMA AppendKeyed ==
  ASSUME NEW ix, Keyed(ix), NEW e \in Entries, ~HasKey(ix, e.key), e.path = PathOf[e.key]
  PROVE  /\ Keyed(Append(ix, e))
         /\ PathsOf(Append(ix, e)) = PathsOf(ix) \union {e.path}
         /\ \A i \in DOMAIN Append(ix, e) : Append(ix, e)[i] = e \/ \E j \in DOMAIN ix : Append(ix, e)[i] = ix[j]
         /\ Total(Append(ix, e)) = Total(ix) + SizeOf[e.path]
<1> DEFINE w == Append(ix, e)
<1>1. ix \in Seq(Entries)
  BY DEF Keyed
<1>2. /\ w \in Seq(Entries)
      /\ DOMAIN w = DOMAIN ix \union {Len(ix) + 1} /\ Len(ix) + 1 \notin DOMAIN ix
      /\ \A i \in DOMAIN w : w[i] = IF i \in DOMAIN ix THEN ix[i] ELSE e
  BY <1>1, AppendedFacts
<1>3. Total(w) = Total(ix) + SizeOf[e.path]
  BY <1>1, TotalAppend
<1> DEFINE z == Len(ix) + 1
<1> HIDE DEF w, z
<1>4. DOMAIN w = DOMAIN ix \union {z} /\ z \notin DOMAIN ix /\ w[z] = e /\ \A i \in DOMAIN ix : w[i] = ix[i]
  BY <1>2 DEF z
<1>5. ASSUME NEW i \in DOMAIN w, NEW j \in DOMAIN w, w[i].key = w[j].key PROVE i = j
  BY <1>4, <1>5 DEF Keyed, HasKey
<1>6. \A i \in DOMAIN w : w[i].path = PathOf[w[i].key]
  BY <1>4 DEF Keyed
<1>7. PathsOf(w) = PathsOf(ix) \union {e.path}
  BY <1>4 DEF PathsOf
<1>8. \A i \in DOMAIN w : w[i] = e \/ \E j \in DOMAIN ix : w[i] = ix[j]
  BY <1>4
<1> QED BY <1>2, <1>3, <1>5, <1>6, <1>7, <1>8 DEF Keyed, w

\* store_wheel and store_layer: what the eviction left, with the new entry.
LEMMA StoreProper ==
  ASSUME NEW ix, Proper(ix), NEW k \in Keys, NEW c \in Contents \union {NoFile}
  PROVE  LET jx == Append(Without(Kept(ix), k), [key |-> k, path |-> PathOf[k], hash |-> c]) IN
         /\ Proper(jx)
         /\ PathsOf(Kept(ix)) \union {PathOf[k]} \subseteq PathsOf(jx)
         /\ \A i \in DOMAIN jx : jx[i].path = PathOf[k]
                               \/ \E j \in DOMAIN ix : jx[i] = ix[j] /\ j > EvictCount(ix)
<1> DEFINE e == [key |-> k, path |-> PathOf[k], hash |-> c]
           kx == Kept(ix)
           w == Without(kx, k)
           jx == Append(w, e)
<1>1. PathOf[k] \in Paths
  BY CacheAssumption
<1>2. e \in Entries /\ e.key = k /\ e.path = PathOf[k]
  BY <1>1 DEF Entries
<1> HIDE DEF e
<1>3. Keyed(kx) /\ 10 * Total(kx) <= 9 * MaxSize /\ \A i \in DOMAIN kx : \E j \in DOMAIN ix : kx[i] = ix[j] /\ j > EvictCount(ix)
  BY KeptFacts DEF Proper
<1> HIDE DEF kx
<1>4. /\ Keyed(w) /\ ~HasKey(w, k)
      /\ \A i \in DOMAIN w : \E j \in DOMAIN kx : w[i] = kx[j]
      /\ \A j \in DOMAIN kx : kx[j].key = k \/ \E i \in DOMAIN w : w[i] = kx[j]
      /\ Total(w) <= Total(kx)
  BY <1>3, WithoutFacts
<1> HIDE DEF w
<1>5. /\ Keyed(jx) /\ PathsOf(jx) = PathsOf(w) \union {e.path}
      /\ \A i \in DOMAIN jx : jx[i] = e \/ \E j \in DOMAIN w : jx[i] = w[j]
      /\ Total(jx) = Total(w) + SizeOf[e.path]
  BY <1>2, <1>4, AppendKeyed
<1> HIDE DEF jx
<1>6. Bounded(jx)
  <2>1. Total(kx) \in Nat /\ Total(w) \in Nat /\ Total(jx) \in Nat /\ SizeOf[PathOf[k]] \in Nat /\ MaxSize \in Nat
    BY <1>1, <1>3, <1>4, <1>5, TotalNat, CacheAssumption DEF Keyed
  <2>2. 10 * Total(jx) <= 9 * MaxSize + 10 * SizeOf[PathOf[k]]
    BY <1>2, <1>3, <1>4, <1>5, <2>1
  <2> QED BY <1>1, <2>2 DEF Bounded
<1>7. PathsOf(kx) \union {PathOf[k]} \subseteq PathsOf(jx)
  <2>1. ASSUME NEW x \in PathsOf(kx) PROVE x \in PathsOf(jx)
    <3>1. PICK j \in DOMAIN kx : x = kx[j].path
      BY DEF PathsOf
    <3>2. CASE kx[j].key = k
      BY <1>2, <1>3, <1>5, <3>1, <3>2 DEF Keyed
    <3>3. CASE kx[j].key # k
      <4>1. PICK i \in DOMAIN w : w[i] = kx[j]
        BY <1>4, <3>3
      <4> QED BY <1>5, <3>1, <4>1 DEF PathsOf
    <3> QED BY <3>2, <3>3
  <2> QED BY <1>2, <1>5, <2>1
<1>8. ASSUME NEW i \in DOMAIN jx
      PROVE  jx[i].path = PathOf[k] \/ \E j \in DOMAIN ix : jx[i] = ix[j] /\ j > EvictCount(ix)
  <2>1. CASE jx[i] = e
    BY <1>2, <2>1
  <2>2. CASE jx[i] # e
    <3>1. PICK j \in DOMAIN w : jx[i] = w[j]
      BY <1>5, <2>2
    <3>2. PICK l \in DOMAIN kx : w[j] = kx[l]
      BY <1>4
    <3> QED BY <1>3, <3>1, <3>2
  <2> QED BY <2>1, <2>2
<1> QED BY <1>5, <1>6, <1>7, <1>8 DEF Proper, jx, w, kx, e

\* get_wheel and get_layer: an entry dropped, or made the most recent.
LEMMA TouchProper ==
  ASSUME NEW ix, Proper(ix), NEW k \in Keys, HasKey(ix, k)
  PROVE  /\ Proper(Without(ix, k)) /\ Proper(Append(Without(ix, k), EntryOf(ix, k)))
         /\ PathsOf(ix) \subseteq PathsOf(Append(Without(ix, k), EntryOf(ix, k)))
         /\ PathsOf(ix) \ {PathOf[k]} \subseteq PathsOf(Without(ix, k))
         /\ \A i \in DOMAIN Append(Without(ix, k), EntryOf(ix, k)) :
              \E j \in DOMAIN ix : Append(Without(ix, k), EntryOf(ix, k))[i] = ix[j]
<1> DEFINE e == EntryOf(ix, k)
           w == Without(ix, k)
           jx == Append(w, e)
<1>1. Keyed(ix) /\ Bounded(ix)
  BY DEF Proper
<1>2. /\ Keyed(w) /\ ~HasKey(w, k)
      /\ \A i \in DOMAIN w : \E j \in DOMAIN ix : w[i] = ix[j]
      /\ \A j \in DOMAIN ix : ix[j].key = k \/ \E i \in DOMAIN w : w[i] = ix[j]
      /\ Total(w) <= Total(ix)
      /\ e \in Entries /\ e.key = k /\ e.path = PathOf[k]
      /\ \E j \in DOMAIN ix : ix[j] = e
      /\ Total(w) = Total(ix) - SizeOf[PathOf[k]]
  BY <1>1, WithoutFacts
<1> HIDE DEF w, e
<1>3. /\ Keyed(jx) /\ PathsOf(jx) = PathsOf(w) \union {e.path}
      /\ \A i \in DOMAIN jx : jx[i] = e \/ \E j \in DOMAIN w : jx[i] = w[j]
      /\ Total(jx) = Total(w) + SizeOf[e.path]
  BY <1>2, AppendKeyed
<1> HIDE DEF jx
<1>4. Bounded(w) /\ Bounded(jx)
  <2>1. Total(ix) \in Nat /\ Total(w) \in Nat /\ Total(jx) \in Nat /\ SizeOf[PathOf[k]] \in Nat /\ MaxSize \in Nat
    BY <1>1, <1>2, <1>3, TotalNat, CacheAssumption DEF Keyed
  <2>2. PICK f \in Paths : 10 * Total(ix) <= 9 * MaxSize + 10 * SizeOf[f]
    BY <1>1 DEF Bounded
  <2>3. Total(jx) = Total(ix) /\ SizeOf[f] \in Nat
    BY <1>2, <1>3, <2>1, CacheAssumption
  <2>4. 10 * Total(w) <= 9 * MaxSize + 10 * SizeOf[f] /\ 10 * Total(jx) <= 9 * MaxSize + 10 * SizeOf[f]
    BY <1>2, <2>1, <2>2, <2>3
  <2> QED BY <2>4 DEF Bounded
<1>5. PathsOf(ix) \ {PathOf[k]} \subseteq PathsOf(w)
  BY <1>1, <1>2 DEF PathsOf, Keyed
<1>6. PathsOf(ix) \subseteq PathsOf(jx)
  BY <1>2, <1>3, <1>5
<1>7. \A i \in DOMAIN jx : \E j \in DOMAIN ix : jx[i] = ix[j]
  BY <1>2, <1>3
<1> QED BY <1>2, <1>3, <1>4, <1>5, <1>6, <1>7 DEF Proper, jx, w, e

\* What the loop of verify_integrity has kept of the first m entries, g being the running sums.
KeptOf(ix, ok, g, m, kx) ==
  /\ Keyed(kx)
  /\ \A i \in DOMAIN kx : kx[i] \in ok /\ \E j \in 1 .. m : kx[i] = ix[j]
  /\ \A j \in 1 .. m : ix[j] \in ok => \E i \in DOMAIN kx : kx[i] = ix[j]
  /\ Total(kx) <= g[m]

\* verify_integrity keeps the good entries and nothing else.
LEMMA OnlyFacts ==
  ASSUME NEW ix, Keyed(ix), NEW ok
  PROVE  /\ Keyed(Only(ix, ok)) /\ Total(Only(ix, ok)) <= Total(ix)
         /\ \A i \in DOMAIN Only(ix, ok) : Only(ix, ok)[i] \in ok /\ \E j \in DOMAIN ix : Only(ix, ok)[i] = ix[j]
         /\ \A j \in DOMAIN ix : ix[j] \in ok => \E i \in DOMAIN Only(ix, ok) : Only(ix, ok)[i] = ix[j]
<1> DEFINE n == Len(ix)
           V == Seq(Entries)
           step == [x \in V \X (1 .. n) |-> IF ix[x[2]] \in ok THEN Append(x[1], ix[x[2]]) ELSE x[1]]
<1>1. ix \in Seq(Entries) /\ n \in Nat /\ DOMAIN ix = 1 .. n /\ \A i \in 1 .. n : ix[i] \in Entries
  BY DEF Keyed
<1>2. step \in [V \X (1 .. n) -> V]
  <2>1. ASSUME NEW v \in V, NEW i \in 1 .. n PROVE Append(v, ix[i]) \in V
    BY <1>1, AppendProperties
  <2> HIDE DEF V
  <2> QED BY <2>1
<1>3. ASSUME NEW v \in V, NEW i \in 1 .. n PROVE step[<<v, i>>] = IF ix[i] \in ok THEN Append(v, ix[i]) ELSE v
  <2> HIDE DEF V
  <2> QED OBVIOUS
<1> HIDE DEF step
<1>4. << >> \in V
  OBVIOUS
<1> HIDE DEF V
<1>5. PICK t : Trace(t, V, << >>, n, step)
  BY <1>1, <1>2, <1>4, LoopTrace
<1>6. t \in [0 .. n -> V] /\ t[0] = << >> /\ \A i \in 1 .. n : t[i] = step[<<t[i - 1], i>>]
  BY <1>5 DEF Trace
<1>7. \A i \in 1 .. n : i - 1 \in 0 .. n /\ t[i - 1] \in V
  BY <1>1, <1>6
<1>8. \A i \in 1 .. n : t[i] = IF ix[i] \in ok THEN Append(t[i - 1], ix[i]) ELSE t[i - 1]
  BY <1>3, <1>6, <1>7
<1> DEFINE Loop(f) == [i \in 0 .. n |-> IF i = 0 THEN << >>
                                         ELSE IF ix[i] \in ok THEN Append(f[i - 1], ix[i]) ELSE f[i - 1]]
           s == CHOOSE f : f = Loop(f)
<1>9. t = Loop(t)
  <2> HIDE DEF n
  <2>1. \A i \in 0 .. n : i = 0 \/ i \in 1 .. n
    BY <1>1
  <2>2. \A i \in 0 .. n : t[i] = IF i = 0 THEN << >>
                                  ELSE IF ix[i] \in ok THEN Append(t[i - 1], ix[i]) ELSE t[i - 1]
    BY <1>6, <1>8, <2>1
  <2>3. t = [i \in 0 .. n |-> t[i]]
    BY <1>6
  <2> QED BY <2>2, <2>3, Zenon
<1>10. s = Loop(s)
  BY <1>9
<1>11. Only(ix, ok) = s[n]
  BY DEF Only
<1> HIDE DEF s
<1>12. s[0] = << >> /\ \A i \in 1 .. n : s[i] = IF ix[i] \in ok THEN Append(s[i - 1], ix[i]) ELSE s[i - 1]
  <2>1. 0 \in 0 .. n /\ \A i \in 1 .. n : i \in 0 .. n /\ i # 0
    BY <1>1
  <2> QED BY <1>10, <2>1
<1>13. PICK g : Sums(ix, g)
  BY <1>1, SumsExist
<1>14. g \in [0 .. n -> Nat] /\ g[0] = 0 /\ \A i \in 1 .. n : g[i] = g[i - 1] + SizeOf[ix[i].path]
  BY <1>13 DEF Sums
<1> DEFINE G == {m \in 0 .. n : KeptOf(ix, ok, g, m, s[m])}
<1> HIDE DEF n
<1>15. 0 \in G
  <2>1. Keyed(<< >>) /\ DOMAIN << >> = {}
    BY DEF Keyed
  <2>2. \A j \in 1 .. 0 : FALSE
    OBVIOUS
  <2>3. KeptOf(ix, ok, g, 0, << >>)
    BY <1>14, <2>1, <2>2, TotalEmpty DEF KeptOf
  <2> QED BY <1>1, <1>12, <2>3
<1>16. ASSUME NEW m \in 0 .. n - 1, m \in G PROVE m + 1 \in G
  <2> DEFINE a == s[m]
             e == ix[m + 1]
             b == s[m + 1]
  <2>1. m + 1 \in 1 .. n /\ (m + 1) - 1 = m /\ m + 1 \in 0 .. n /\ m \in 0 .. n /\ m \in Nat
    BY <1>1
  <2>2. b = IF e \in ok THEN Append(a, e) ELSE a
    BY <1>12, <2>1
  <2>3. KeptOf(ix, ok, g, m, a)
    BY <1>16
  <2>4. e \in Entries /\ m + 1 \in DOMAIN ix /\ e.path \in Paths /\ SizeOf[e.path] \in Nat /\ e.path = PathOf[e.key]
    BY <1>1, <2>1, EntrySize DEF Keyed
  <2>5. g[m + 1] = g[m] + SizeOf[e.path] /\ g[m] \in Nat
    BY <1>14, <2>1
  <2>6. Total(a) \in Nat /\ Keyed(a) /\ Total(a) <= g[m]
    BY <2>3, TotalNat DEF KeptOf, Keyed
  <2>7. \A j \in 1 .. m + 1 : j \in 1 .. m \/ j = m + 1
    BY <2>1
  <2>8. \A j \in 1 .. m : j \in 1 .. m + 1
    BY <2>1
  <2>e. e = ix[m + 1]
    OBVIOUS
  <2> HIDE DEF a, b, e
  <2>9. CASE e \notin ok
    <3>1. b = a
      BY <2>2, <2>9
    <3>2. Total(a) <= g[m + 1]
      BY <2>4, <2>5, <2>6
    <3>3. KeptOf(ix, ok, g, m + 1, a)
      BY <2>3, <2>7, <2>8, <2>9, <2>e, <3>2 DEF KeptOf
    <3> QED BY <2>1, <3>1, <3>3 DEF b
  <2>10. CASE e \in ok
    <3>1. b = Append(a, e)
      BY <2>2, <2>10
    <3>2. ~HasKey(a, e.key)
      <4>1. SUFFICES ASSUME NEW i \in DOMAIN a, a[i].key = e.key PROVE FALSE
        BY DEF HasKey
      <4>2. PICK j \in 1 .. m : a[i] = ix[j]
        BY <2>3 DEF KeptOf
      <4>3. j \in DOMAIN ix /\ m + 1 \in DOMAIN ix /\ j # m + 1
        BY <1>1, <2>1, <2>4
      <4> QED BY <2>e, <4>1, <4>2, <4>3 DEF Keyed
    <3>3. /\ Keyed(b)
          /\ \A i \in DOMAIN b : b[i] = e \/ \E j \in DOMAIN a : b[i] = a[j]
          /\ Total(b) = Total(a) + SizeOf[e.path]
      BY <2>4, <2>6, <3>1, <3>2, AppendKeyed
    <3>4. a \in Seq(Entries)
      BY <2>6 DEF Keyed
    <3>5. /\ \A i \in DOMAIN a : i \in DOMAIN b /\ b[i] = a[i]
          /\ \E i \in DOMAIN b : b[i] = e
      BY <2>4, <3>1, <3>4, AppendedFacts
    <3>6. Total(b) <= g[m + 1]
      BY <2>4, <2>5, <2>6, <3>3
    <3>7. m + 1 \in 1 .. m + 1
      BY <2>1
    <3>8. ASSUME NEW i \in DOMAIN b PROVE b[i] \in ok /\ \E j \in 1 .. m + 1 : b[i] = ix[j]
      BY <2>3, <2>8, <2>10, <2>e, <3>3, <3>7 DEF KeptOf
    <3>9. ASSUME NEW j \in 1 .. m + 1, ix[j] \in ok PROVE \E i \in DOMAIN b : b[i] = ix[j]
      BY <2>3, <2>7, <2>e, <3>5, <3>9 DEF KeptOf
    <3>10. KeptOf(ix, ok, g, m + 1, b)
      BY <3>3, <3>6, <3>8, <3>9 DEF KeptOf
    <3> QED BY <2>1, <3>10 DEF b
  <2> QED BY <2>9, <2>10
<1>17. n \in G
  <2>1. 0 .. n \subseteq G
    <3> HIDE DEF G
    <3> QED BY <1>1, <1>15, <1>16, Upwards
  <2>2. n \in 0 .. n
    BY <1>1
  <2> HIDE DEF G
  <2> QED BY <2>1, <2>2
<1>18. KeptOf(ix, ok, g, n, Only(ix, ok))
  BY <1>11, <1>17
<1>19. Total(ix) = g[n]
  BY <1>1, <1>13, TotalIsSum DEF n
<1> QED BY <1>1, <1>18, <1>19 DEF KeptOf
\* The types of the state, with the bound on every index.
CacheTypes ==
  /\ open \subseteq Procs
  /\ index \in [Procs -> Seq(Entries)]
  /\ \A p \in Procs : Proper(index[p])
  /\ Proper(disk)
  /\ files \in [Paths -> Contents \union {NoFile}]
  /\ stored \subseteq {f \in Paths : files[f] # NoFile}
  /\ unsaved \subseteq open
  /\ botched \subseteq Paths
  /\ solo \in BOOLEAN

\* While processes take turns, at most one is running.
OneAtATime == solo => \A p, q \in open : p = q

\* The inductive invariant of the cache: the books, whatever the paths.
BooksInv == CacheTypes /\ OneAtATime /\ InSync /\ StoredIsIndexed

\* No two keys are kept at the same path: a wheel's file name has its package and version in it,
\* a layer's directory is its id.
OwnPaths == \A k, l \in Keys : PathOf[k] = PathOf[l] => k = l

\* What every step is shown to do.
KeepsBooks == BooksInv' /\ (OwnPaths /\ EntryHasFile => EntryHasFile')

\* What EntryHasFile says of one index, with the given files and botched paths.
Backed(ix, fs, bs) == \A i \in DOMAIN ix : fs[ix[i].path] # NoFile \/ ix[i].path \in bs

\* Removing files leaves the rest.
LEMMA UnlinkedFacts ==
  ASSUME files \in [Paths -> Contents \union {NoFile}], NEW gone
  PROVE  /\ Unlinked(gone) \in [Paths -> Contents \union {NoFile}]
         /\ \A f \in Paths : Unlinked(gone)[f] = IF f \in gone THEN NoFile ELSE files[f]
BY DEF Unlinked

\* With paths of their own, what an eviction leaves shares no file with what it removes.
LEMMA DroppedApart ==
  ASSUME OwnPaths, NEW ix, Proper(ix), NEW c \in 0 .. Len(ix), NEW j \in DOMAIN ix, j > c
  PROVE  ix[j].path \notin PathsOf(SubSeq(ix, 1, c))
<1>1. SUFFICES ASSUME ix[j].path \in PathsOf(SubSeq(ix, 1, c)) PROVE FALSE
  OBVIOUS
<1>2. Keyed(ix) /\ ix \in Seq(Entries) /\ Len(ix) \in Nat /\ DOMAIN ix = 1 .. Len(ix)
  BY DEF Proper, Keyed
<1>3. PathsOf(SubSeq(ix, 1, c)) = {ix[i].path : i \in 1 .. c}
  BY DroppedFacts
<1>4. PICK i \in 1 .. c : ix[j].path = ix[i].path
  BY <1>1, <1>3
<1>5. i \in DOMAIN ix /\ i # j
  BY <1>2
<1>6. ix[i].key \in Keys /\ ix[j].key \in Keys /\ ix[i].path = PathOf[ix[i].key] /\ ix[j].path = PathOf[ix[j].key]
  BY <1>2, <1>5, EntrySize DEF Keyed
<1>7. ix[i].key = ix[j].key
  BY <1>4, <1>6 DEF OwnPaths
<1> QED BY <1>2, <1>5, <1>7 DEF Keyed

\* What the operations of a process start from.
LEMMA OwnIndex ==
  ASSUME BooksInv, NEW p \in open
  PROVE  /\ p \in Procs /\ Proper(index[p]) /\ Keyed(index[p]) /\ index[p] \in Seq(Entries)
         /\ solo => stored \ botched \subseteq PathsOf(index[p])
         /\ solo /\ EntryHasFile => Backed(index[p], files, botched)
         /\ files \in [Paths -> Contents \union {NoFile}]
         /\ stored \subseteq {f \in Paths : files[f] # NoFile}
         /\ botched \subseteq Paths /\ unsaved \subseteq open
<1>1. index[p] \in Books
  BY DEF Books
<1>2. /\ solo => stored \ botched \subseteq PathsOf(index[p])
      /\ solo /\ EntryHasFile => Backed(index[p], files, botched)
  BY <1>1 DEF BooksInv, StoredIsIndexed, EntryHasFile, Backed
<1> QED BY <1>2 DEF BooksInv, CacheTypes, Proper, Keyed

\* The process has a new index, which is on disk or noted not to be.
NewIndex(p, jx) ==
  /\ index' = [index EXCEPT ![p] = jx] /\ Proper(disk')
  /\ \/ disk' = jx /\ unsaved' = Recorded(unsaved \ {p})
     \/ unsaved' = Recorded(unsaved \union {p})

\* An operation that changes the index of its process, and saves it or notes that it has not.
LEMMA IndexStep ==
  ASSUME BooksInv, NEW p \in open, NEW jx, Proper(jx),
         NewIndex(p, jx), UNCHANGED <<open, solo>>,
         files' \in [Paths -> Contents \union {NoFile}],
         stored' \subseteq {f \in Paths : files'[f] # NoFile}, botched' \subseteq Paths,
         solo => stored' \ botched' \subseteq PathsOf(jx),
         OwnPaths /\ EntryHasFile /\ solo => Backed(jx, files', botched')
  PROVE  KeepsBooks
<1>0. /\ index' = [index EXCEPT ![p] = jx] /\ Proper(disk')
      /\ \/ disk' = jx /\ unsaved' = Recorded(unsaved \ {p})
         \/ unsaved' = Recorded(unsaved \union {p})
  BY DEF NewIndex
<1>1. /\ open \subseteq Procs /\ index \in [Procs -> Seq(Entries)] /\ solo \in BOOLEAN /\ p \in Procs
      /\ (\A q \in Procs : Proper(index[q])) /\ unsaved \subseteq open
  BY DEF BooksInv, CacheTypes
<1>3. jx \in Seq(Entries)
  BY DEF Proper, Keyed
<1>4. index' \in [Procs -> Seq(Entries)] /\ index'[p] = jx /\ \A q \in Procs : Proper(index'[q])
  BY <1>0, <1>1, <1>3
<1>5. unsaved' \subseteq open
  BY <1>0, <1>1 DEF Recorded
<1>6. CacheTypes'
  BY <1>0, <1>1, <1>4, <1>5 DEF CacheTypes
<1>7. solo => open = {p}
  BY DEF BooksInv, OneAtATime
<1>8. OneAtATime'
  BY DEF BooksInv, OneAtATime
<1>9. InSync'
  <2>1. SUFFICES ASSUME solo, NEW q \in open \ unsaved' PROVE index'[q] = disk'
    BY DEF InSync
  <2>2. q = p
    BY <1>7, <2>1
  <2>3. unsaved' # Recorded(unsaved \union {p})
    BY <2>1, <2>2 DEF Recorded
  <2> QED BY <1>0, <1>4, <2>2, <2>3
<1>10. solo => Books' = {jx}
  BY <1>4, <1>7 DEF Books
<1>11. StoredIsIndexed'
  BY <1>10 DEF StoredIsIndexed
<1>12. OwnPaths /\ EntryHasFile => EntryHasFile'
  BY <1>10 DEF EntryHasFile, Backed
<1> QED BY <1>6, <1>8, <1>9, <1>11, <1>12 DEF KeepsBooks, BooksInv

\* An operation that ends by saving its index, or tries to.
LEMMA SaveIndex ==
  ASSUME BooksInv, NEW p, NEW jx, Proper(jx), NEW kx, Proper(kx), NEW earlier \in {{}, {kx}}, Save(p, jx, earlier)
  PROVE  NewIndex(p, jx)
<1>1. Proper(disk) /\ Proper(<< >>)
  BY EmptyProper DEF BooksInv, CacheTypes
<1>2. /\ index' = [index EXCEPT ![p] = jx]
      /\ \/ disk' = jx /\ unsaved' = Recorded(unsaved \ {p})
         \/ disk' \in {disk, << >>} \union earlier /\ unsaved' = Recorded(unsaved \union {p})
  BY DEF Save
<1>3. Proper(disk')
  BY <1>1, <1>2
<1> QED BY <1>2, <1>3 DEF NewIndex

\* A store, as far as its eviction: what it removed, what it could not, and what it kept.
LEMMA EvictionFacts ==
  ASSUME BooksInv, NEW p \in open, NEW stay \in SUBSET EvictedLayers(index[p])
  PROVE  LET ix == index[p]  gone == Evicted(ix) \ stay  left == Unlinked(gone) IN
         /\ left \in [Paths -> Contents \union {NoFile}]
         /\ \A x \in Paths : left[x] = IF x \in gone THEN NoFile ELSE files[x]
         /\ stored \ gone \subseteq {x \in Paths : left[x] # NoFile}
         /\ stay \subseteq Paths /\ Proper(Kept(ix))
         /\ solo => (stored \ gone) \ (botched \union stay) \subseteq PathsOf(Kept(ix))
         /\ OwnPaths /\ EntryHasFile /\ solo =>
              \A j \in DOMAIN ix : j > EvictCount(ix) => left[ix[j].path] # NoFile \/ ix[j].path \in botched
<1> DEFINE ix == index[p]
           gone == Evicted(ix) \ stay
           left == Unlinked(gone)
<1>1. /\ Proper(ix) /\ ix \in Seq(Entries) /\ (solo => stored \ botched \subseteq PathsOf(ix))
      /\ (solo /\ EntryHasFile => Backed(ix, files, botched))
      /\ files \in [Paths -> Contents \union {NoFile}]
      /\ stored \subseteq {x \in Paths : files[x] # NoFile}
  BY OwnIndex
<1>2. /\ left \in [Paths -> Contents \union {NoFile}]
      /\ \A x \in Paths : left[x] = IF x \in gone THEN NoFile ELSE files[x]
  <2> HIDE DEF gone
  <2> QED BY <1>1, UnlinkedFacts
<1>3. /\ Proper(Kept(ix)) /\ PathsOf(ix) = PathsOf(Kept(ix)) \union Evicted(ix)
      /\ EvictCount(ix) \in 0 .. Len(ix)
  <2> HIDE DEF ix
  <2> QED BY <1>1, KeptFacts
<1>4. stay \subseteq Evicted(ix) /\ Evicted(ix) = PathsOf(SubSeq(ix, 1, EvictCount(ix)))
  BY DEF EvictedLayers, Evicted
<1>5. PathsOf(ix) \subseteq Paths
  <2> HIDE DEF ix
  <2> QED BY <1>1, EntrySize DEF PathsOf
<1> HIDE DEF ix, left
<1>6. ASSUME OwnPaths, EntryHasFile, solo, NEW j \in DOMAIN ix, j > EvictCount(ix)
      PROVE  left[ix[j].path] # NoFile \/ ix[j].path \in botched
  <2>1. ix[j].path \in Paths
    BY <1>1, EntrySize
  <2>2. ix[j].path \notin Evicted(ix)
    BY <1>1, <1>3, <1>4, <1>6, DroppedApart
  <2>3. files[ix[j].path] # NoFile \/ ix[j].path \in botched
    BY <1>1, <1>6 DEF Backed
  <2> QED BY <1>2, <2>1, <2>2, <2>3
<1> QED BY <1>1, <1>2, <1>3, <1>4, <1>5, <1>6 DEF ix, left

\* store_wheel in place.
LEMMA StoreWheelStep ==
  ASSUME BooksInv, NEW p, NEW k \in Keys, NEW given \in Contents \union {NoFile},
         NEW stay \in SUBSET EvictedLayers(index[p]), StoreWheel(p, k, given, stay)
  PROVE  KeepsBooks
<1> DEFINE ix == index[p]
           f == PathOf[k]
           gone == Evicted(ix) \ stay
           left == Unlinked(gone)
           h == IF given = NoFile THEN files[f] ELSE given
           jx == Append(Without(Kept(ix), k), [key |-> k, path |-> f, hash |-> h])
<1>1. p \in open /\ files' = left /\ UNCHANGED <<open, solo>>
  BY DEF StoreWheel
<1>2. Proper(ix) /\ files \in [Paths -> Contents \union {NoFile}] /\ botched \subseteq Paths
  BY <1>1, OwnIndex
<1>3. f \in Paths /\ h \in Contents \union {NoFile}
  BY <1>2, CacheAssumption
<1>4. /\ left \in [Paths -> Contents \union {NoFile}]
      /\ stored \ gone \subseteq {x \in Paths : left[x] # NoFile}
      /\ stay \subseteq Paths /\ Proper(Kept(ix))
      /\ solo => (stored \ gone) \ (botched \union stay) \subseteq PathsOf(Kept(ix))
      /\ OwnPaths /\ EntryHasFile /\ solo =>
           \A j \in DOMAIN ix : j > EvictCount(ix) => left[ix[j].path] # NoFile \/ ix[j].path \in botched
  BY <1>1, EvictionFacts
<1>5. \A i \in DOMAIN Kept(ix) : \E j \in DOMAIN ix : Kept(ix)[i] = ix[j] /\ j > EvictCount(ix)
  BY <1>2, KeptFacts
<1>6. /\ Proper(jx) /\ PathsOf(Kept(ix)) \union {f} \subseteq PathsOf(jx)
      /\ \A i \in DOMAIN jx : jx[i].path = f \/ \E j \in DOMAIN ix : jx[i] = ix[j] /\ j > EvictCount(ix)
  <2> HIDE DEF h
  <2> QED BY <1>2, <1>3, StoreProper
<1>8. CASE left[f] = NoFile
  <2>1. /\ Save(p, Kept(ix), {}) /\ stored' = Recorded(stored \ gone) /\ botched' = Recorded(botched \union stay)
    BY <1>8 DEF StoreWheel
  <2> HIDE DEF ix, f, left, h, jx, gone
  <2>2. stored' \subseteq {x \in Paths : left[x] # NoFile} /\ botched' \subseteq Paths
    BY <1>2, <1>4, <2>1 DEF Recorded
  <2>3. solo => stored' \ botched' \subseteq PathsOf(Kept(ix))
    BY <1>4, <2>1 DEF Recorded
  <2>4. OwnPaths /\ EntryHasFile /\ solo => Backed(Kept(ix), left, botched')
    BY <1>4, <1>5, <2>1 DEF Recorded, Backed
  <2>5. NewIndex(p, Kept(ix))
    BY <1>4, <2>1, SaveIndex
  <2> QED BY <1>1, <1>4, <2>1, <2>2, <2>3, <2>4, <2>5, IndexStep
<1>9. CASE left[f] # NoFile
  <2>1. /\ Save(p, jx, {Kept(ix)}) /\ stored' = Recorded((stored \ gone) \union {f})
        /\ botched' = Recorded((botched \union stay) \ {f})
    BY <1>9 DEF StoreWheel
  <2> HIDE DEF ix, f, left, h, jx, gone
  <2>2. stored' \subseteq {x \in Paths : left[x] # NoFile} /\ botched' \subseteq Paths
    BY <1>2, <1>3, <1>4, <1>9, <2>1 DEF Recorded
  <2>3. solo => stored' \ botched' \subseteq PathsOf(jx)
    BY <1>4, <1>6, <2>1 DEF Recorded
  <2>4. OwnPaths /\ EntryHasFile /\ solo => Backed(jx, left, botched')
    BY <1>4, <1>6, <1>9, <2>1 DEF Recorded, Backed
  <2>5. NewIndex(p, jx)
    BY <1>4, <1>6, <2>1, SaveIndex
  <2> QED BY <1>1, <1>4, <1>6, <2>1, <2>2, <2>3, <2>4, <2>5, IndexStep
<1> QED BY <1>8, <1>9

\* store_wheel from elsewhere, and store_layer.
LEMMA StoreCopyStep ==
  ASSUME BooksInv, NEW p, NEW k \in Keys, NEW c \in Contents,
         NEW stay \in SUBSET EvictedLayers(index[p]), StoreCopy(p, k, c, stay)
  PROVE  KeepsBooks
<1> DEFINE ix == index[p]
           f == PathOf[k]
           gone == Evicted(ix) \ stay
           left == Unlinked(gone)
           h == IF k \in Layers THEN NoFile ELSE c
           jx == Append(Without(Kept(ix), k), [key |-> k, path |-> f, hash |-> h])
<1>1. /\ p \in open /\ files' = [left EXCEPT ![f] = c] /\ UNCHANGED <<open, solo>>
      /\ Save(p, jx, {Kept(ix)}) /\ stored' = Recorded((stored \ gone) \union {f})
      /\ botched' = Recorded((botched \union stay) \ {f})
  BY DEF StoreCopy
<1>2. Proper(ix) /\ ix \in Seq(Entries) /\ botched \subseteq Paths
  BY <1>1, OwnIndex
<1>3. f \in Paths /\ c # NoFile /\ h \in Contents \union {NoFile}
  BY CacheAssumption
<1>4. /\ left \in [Paths -> Contents \union {NoFile}]
      /\ stored \ gone \subseteq {x \in Paths : left[x] # NoFile}
      /\ stay \subseteq Paths /\ Proper(Kept(ix))
      /\ solo => (stored \ gone) \ (botched \union stay) \subseteq PathsOf(Kept(ix))
      /\ OwnPaths /\ EntryHasFile /\ solo =>
           \A j \in DOMAIN ix : j > EvictCount(ix) => left[ix[j].path] # NoFile \/ ix[j].path \in botched
  BY <1>1, EvictionFacts
<1>6. /\ Proper(jx) /\ PathsOf(Kept(ix)) \union {f} \subseteq PathsOf(jx)
      /\ \A i \in DOMAIN jx : jx[i].path = f \/ \E j \in DOMAIN ix : jx[i] = ix[j] /\ j > EvictCount(ix)
  <2> HIDE DEF h
  <2> QED BY <1>2, <1>3, StoreProper
<1> HIDE DEF ix, f, left, jx, gone, h
<1>7. files' \in [Paths -> Contents \union {NoFile}] /\ \A x \in Paths : files'[x] = IF x = f THEN c ELSE left[x]
  BY <1>1, <1>3, <1>4
<1>8. \A j \in DOMAIN ix : ix[j].path \in Paths
  BY <1>2, EntrySize
<1>9. stored' \subseteq {x \in Paths : files'[x] # NoFile} /\ botched' \subseteq Paths
  BY <1>1, <1>2, <1>3, <1>4, <1>7 DEF Recorded
<1>10. solo => stored' \ botched' \subseteq PathsOf(jx)
  BY <1>1, <1>4, <1>6 DEF Recorded
<1>11. OwnPaths /\ EntryHasFile /\ solo => Backed(jx, files', botched')
  BY <1>1, <1>3, <1>4, <1>6, <1>7, <1>8 DEF Recorded, Backed
<1>12. NewIndex(p, jx)
  BY <1>1, <1>4, <1>6, SaveIndex
<1> QED BY <1>1, <1>6, <1>7, <1>9, <1>10, <1>11, <1>12, IndexStep

\* A store whose copy raises.
LEMMA StoreFailsStep ==
  ASSUME BooksInv, NEW p, NEW k \in Keys, NEW c \in Contents \union {NoFile},
         NEW stay \in SUBSET EvictedLayers(index[p]), StoreFails(p, k, c, stay)
  PROVE  KeepsBooks
<1> DEFINE ix == index[p]
           f == PathOf[k]
           gone == Evicted(ix) \ stay
           left == Unlinked(gone)
<1>1. /\ p \in open /\ files' = [left EXCEPT ![f] = c] /\ UNCHANGED <<open, solo>>
      /\ Save(p, Kept(ix), {}) /\ stored' = Recorded((stored \ gone) \ {f})
      /\ botched' = Recorded(botched \union stay \union {f})
  BY DEF StoreFails
<1>2. Proper(ix) /\ ix \in Seq(Entries) /\ botched \subseteq Paths /\ f \in Paths
  BY <1>1, OwnIndex, CacheAssumption
<1>4. /\ left \in [Paths -> Contents \union {NoFile}]
      /\ stored \ gone \subseteq {x \in Paths : left[x] # NoFile}
      /\ stay \subseteq Paths /\ Proper(Kept(ix))
      /\ solo => (stored \ gone) \ (botched \union stay) \subseteq PathsOf(Kept(ix))
      /\ OwnPaths /\ EntryHasFile /\ solo =>
           \A j \in DOMAIN ix : j > EvictCount(ix) => left[ix[j].path] # NoFile \/ ix[j].path \in botched
  BY <1>1, EvictionFacts
<1>5. \A i \in DOMAIN Kept(ix) : \E j \in DOMAIN ix : Kept(ix)[i] = ix[j] /\ j > EvictCount(ix)
  BY <1>2, KeptFacts
<1> HIDE DEF ix, f, left, gone
<1>7. files' \in [Paths -> Contents \union {NoFile}] /\ \A x \in Paths : files'[x] = IF x = f THEN c ELSE left[x]
  BY <1>1, <1>2, <1>4
<1>8. \A j \in DOMAIN ix : ix[j].path \in Paths
  BY <1>2, EntrySize
<1>9. stored' \subseteq {x \in Paths : files'[x] # NoFile} /\ botched' \subseteq Paths
  BY <1>1, <1>2, <1>4, <1>7 DEF Recorded
<1>10. solo => stored' \ botched' \subseteq PathsOf(Kept(ix))
  BY <1>1, <1>4 DEF Recorded
<1>11. OwnPaths /\ EntryHasFile /\ solo => Backed(Kept(ix), files', botched')
  BY <1>1, <1>4, <1>5, <1>7, <1>8 DEF Recorded, Backed
<1>12. NewIndex(p, Kept(ix))
  BY <1>1, <1>4, SaveIndex
<1> QED BY <1>1, <1>4, <1>7, <1>9, <1>10, <1>11, <1>12, IndexStep

\* An eviction that raises.
LEMMA EvictFailsStep ==
  ASSUME BooksInv, NEW p, NEW n, EvictFails(p, n)
  PROVE  KeepsBooks
<1> DEFINE ix == index[p]
           gone == PathsOf(SubSeq(ix, 1, n))
           jx == Drop(ix, n)
<1>1. /\ p \in open /\ n \in 1 .. EvictCount(ix) - 1 /\ UNCHANGED <<open, disk, botched, solo>>
      /\ index' = [index EXCEPT ![p] = jx] /\ unsaved' = Recorded(unsaved \union {p})
      /\ files' = Unlinked(gone) /\ stored' = Recorded(stored \ gone)
  BY DEF EvictFails
<1>2. /\ Proper(ix) /\ ix \in Seq(Entries) /\ (solo => stored \ botched \subseteq PathsOf(ix))
      /\ (solo /\ EntryHasFile => Backed(ix, files, botched))
      /\ files \in [Paths -> Contents \union {NoFile}] /\ botched \subseteq Paths
      /\ stored \subseteq {x \in Paths : files[x] # NoFile}
  BY <1>1, OwnIndex
<1>3. n \in 0 .. Len(ix)
  <2>1. EvictCount(ix) \in 0 .. Len(ix) /\ Len(ix) \in Nat
    BY <1>2, EvictEnds
  <2> HIDE DEF ix
  <2> QED BY <1>1, <2>1
<1>4. /\ Proper(jx) /\ PathsOf(ix) = PathsOf(jx) \union gone
      /\ \A i \in DOMAIN jx : \E j \in DOMAIN ix : jx[i] = ix[j] /\ j > n
  BY <1>2, <1>3, DroppedFacts
<1>5. /\ files' \in [Paths -> Contents \union {NoFile}]
      /\ \A x \in Paths : files'[x] = IF x \in gone THEN NoFile ELSE files[x]
  <2> HIDE DEF gone
  <2> QED BY <1>1, <1>2, UnlinkedFacts
<1>6. OwnPaths => \A j \in DOMAIN ix : j > n => ix[j].path \notin gone
  <2> HIDE DEF ix
  <2> QED BY <1>2, <1>3, DroppedApart
<1>7. \A j \in DOMAIN ix : ix[j].path \in Paths
  BY <1>2, EntrySize
<1> HIDE DEF ix, gone, jx
<1>8. stored' \subseteq {x \in Paths : files'[x] # NoFile} /\ botched' \subseteq Paths
  BY <1>1, <1>2, <1>5 DEF Recorded
<1>9. solo => stored' \ botched' \subseteq PathsOf(jx)
  BY <1>1, <1>2, <1>4 DEF Recorded
<1>10. OwnPaths /\ EntryHasFile /\ solo => Backed(jx, files', botched')
  BY <1>1, <1>2, <1>4, <1>5, <1>6, <1>7 DEF Backed
<1>11. NewIndex(p, jx)
  BY <1>1 DEF BooksInv, CacheTypes, NewIndex
<1> QED BY <1>1, <1>4, <1>5, <1>8, <1>9, <1>10, <1>11, IndexStep

\* get_wheel and get_layer.
LEMMA GetStep ==
  ASSUME BooksInv, NEW p, NEW k \in Keys, Get(p, k)
  PROVE  KeepsBooks
<1> DEFINE ix == index[p]
           e == EntryOf(ix, k)
           w == Without(ix, k)
           jx == Append(w, e)
<1>1. p \in open /\ HasKey(ix, k) /\ UNCHANGED <<open, botched, solo>>
  BY DEF Get
<1>2. /\ Proper(ix) /\ Keyed(ix) /\ (solo => stored \ botched \subseteq PathsOf(ix))
      /\ (solo /\ EntryHasFile => Backed(ix, files, botched))
      /\ files \in [Paths -> Contents \union {NoFile}] /\ botched \subseteq Paths
      /\ stored \subseteq {x \in Paths : files[x] # NoFile}
  BY <1>1, OwnIndex
<1>3. /\ Proper(w) /\ Proper(jx) /\ PathsOf(ix) \subseteq PathsOf(jx)
      /\ PathsOf(ix) \ {PathOf[k]} \subseteq PathsOf(w)
      /\ \A i \in DOMAIN jx : \E j \in DOMAIN ix : jx[i] = ix[j]
  BY <1>1, <1>2, TouchProper
<1>4. /\ Keyed(w) /\ ~HasKey(w, k) /\ e.path = PathOf[k]
      /\ \A i \in DOMAIN w : \E j \in DOMAIN ix : w[i] = ix[j]
  BY <1>1, <1>2, WithoutFacts
<1>5. CASE Valid(e)
  <2>1. Save(p, jx, {}) /\ UNCHANGED <<files, stored>>
    BY <1>5 DEF Get
  <2> HIDE DEF ix, e, w, jx
  <2>2. OwnPaths /\ EntryHasFile /\ solo => Backed(jx, files', botched')
    BY <1>1, <1>2, <1>3, <2>1 DEF Backed
  <2>3. stored' \subseteq {x \in Paths : files'[x] # NoFile} /\ botched' \subseteq Paths
    BY <1>1, <1>2, <2>1
  <2>4. solo => stored' \ botched' \subseteq PathsOf(jx)
    BY <1>1, <1>2, <1>3, <2>1
  <2>5. NewIndex(p, jx)
    BY <1>3, <2>1, SaveIndex
  <2> QED BY <1>1, <1>2, <1>3, <2>1, <2>2, <2>3, <2>4, <2>5, IndexStep
<1>6. CASE ~Valid(e)
  <2>1. Save(p, w, {}) /\ files' = Unlinked({e.path}) /\ stored' = Recorded(stored \ {e.path})
    BY <1>6 DEF Get
  <2> HIDE DEF ix, e, w, jx
  <2>2. /\ files' \in [Paths -> Contents \union {NoFile}]
        /\ \A x \in Paths : files'[x] = IF x \in {e.path} THEN NoFile ELSE files[x]
    BY <1>2, <2>1, UnlinkedFacts
  <2>3. stored' \subseteq {x \in Paths : files'[x] # NoFile} /\ botched' \subseteq Paths
    BY <1>1, <1>2, <2>1, <2>2 DEF Recorded
  <2>4. solo => stored' \ botched' \subseteq PathsOf(w)
    BY <1>1, <1>2, <1>3, <1>4, <2>1 DEF Recorded
  <2>5. ASSUME OwnPaths, EntryHasFile, solo, NEW i \in DOMAIN w
        PROVE  files'[w[i].path] # NoFile \/ w[i].path \in botched'
    <3>1. PICK j \in DOMAIN ix : w[i] = ix[j]
      BY <1>4
    <3>2. w[i].path \in Paths /\ w[i].key \in Keys /\ w[i].path = PathOf[w[i].key]
      BY <1>4, EntrySize DEF Keyed
    <3>3. w[i].key # k
      BY <1>4 DEF HasKey
    <3>4. w[i].path # e.path
      BY <1>4, <2>5, <3>2, <3>3 DEF OwnPaths
    <3> QED BY <1>1, <1>2, <2>2, <2>5, <3>1, <3>2, <3>4 DEF Backed
  <2>6. OwnPaths /\ EntryHasFile /\ solo => Backed(w, files', botched')
    BY <2>5 DEF Backed
  <2>7. NewIndex(p, w)
    BY <1>3, <2>1, SaveIndex
  <2> QED BY <1>1, <1>3, <2>1, <2>2, <2>3, <2>4, <2>6, <2>7, IndexStep
<1> QED BY <1>5, <1>6

\* verify_integrity.
LEMMA VerifyStep ==
  ASSUME BooksInv, NEW p, NEW looked, Verify(p, looked)
  PROVE  KeepsBooks
<1> DEFINE ix == index[p]
           all == {ix[i] : i \in DOMAIN ix}
           bad == {e \in looked : files[e.path] # NoFile /\ ~Valid(e)}
           spoilt == {e.path : e \in bad}
<1>1. /\ p \in open /\ files' = Unlinked(spoilt) /\ stored' = Recorded(stored \ spoilt)
      /\ looked \subseteq all /\ UNCHANGED <<open, botched, solo>>
      /\ \E ok \in SUBSET {e \in all : Valid(e) \/ e \notin looked} :
           /\ \A e \in all : e \notin looked \/ (Valid(e) /\ e.path \notin spoilt) => e \in ok
           /\ \/ looked = all /\ Save(p, Only(ix, ok), {})
              \/ /\ index' = [index EXCEPT ![p] = Only(ix, ok)]
                 /\ unsaved' = Recorded(unsaved \union {p}) /\ UNCHANGED disk
  BY DEF Verify
<1>2. /\ Proper(ix) /\ Keyed(ix) /\ (solo => stored \ botched \subseteq PathsOf(ix))
      /\ (solo /\ EntryHasFile => Backed(ix, files, botched))
      /\ files \in [Paths -> Contents \union {NoFile}] /\ botched \subseteq Paths
      /\ stored \subseteq {x \in Paths : files[x] # NoFile}
  BY <1>1, OwnIndex
<1>3. PICK ok \in SUBSET {e \in all : Valid(e) \/ e \notin looked} :
           /\ \A e \in all : e \notin looked \/ (Valid(e) /\ e.path \notin spoilt) => e \in ok
           /\ \/ looked = all /\ Save(p, Only(ix, ok), {})
              \/ /\ index' = [index EXCEPT ![p] = Only(ix, ok)]
                 /\ unsaved' = Recorded(unsaved \union {p}) /\ UNCHANGED disk
  BY <1>1
<1> DEFINE jx == Only(ix, ok)
<1>4. /\ Keyed(jx) /\ Total(jx) <= Total(ix)
      /\ \A i \in DOMAIN jx : jx[i] \in ok /\ \E j \in DOMAIN ix : jx[i] = ix[j]
      /\ \A j \in DOMAIN ix : ix[j] \in ok => \E i \in DOMAIN jx : jx[i] = ix[j]
  BY <1>2, OnlyFacts
<1>5. /\ files' \in [Paths -> Contents \union {NoFile}]
      /\ \A x \in Paths : files'[x] = IF x \in spoilt THEN NoFile ELSE files[x]
  <2> HIDE DEF spoilt
  <2> QED BY <1>1, <1>2, UnlinkedFacts
<1>6. Proper(jx)
  <2> HIDE DEF ix, jx
  <2>1. Total(ix) \in Nat /\ Total(jx) \in Nat
    BY <1>2, <1>4, TotalNat DEF Keyed
  <2>2. PICK f \in Paths : 10 * Total(ix) <= 9 * MaxSize + 10 * SizeOf[f]
    BY <1>2 DEF Proper, Bounded
  <2>3. SizeOf[f] \in Nat /\ MaxSize \in Nat
    BY CacheAssumption
  <2>4. 10 * Total(jx) <= 9 * MaxSize + 10 * SizeOf[f]
    BY <1>4, <2>1, <2>2, <2>3
  <2> QED BY <1>4, <2>4 DEF Proper, Bounded
<1>7. \A j \in DOMAIN ix : ix[j].path \notin spoilt /\ files[ix[j].path] # NoFile => ix[j] \notin looked \/ Valid(ix[j])
  OBVIOUS
<1>8. \A x \in spoilt : \E j \in DOMAIN ix : x = ix[j].path /\ ~Valid(ix[j]) /\ ix[j] \in looked
  BY <1>1
<1>9. \A e \in ok : Valid(e) \/ e \notin looked
  BY <1>3
<1>a. \A j \in DOMAIN ix : ix[j] \in all
  OBVIOUS
<1> HIDE DEF ix, all, bad, spoilt, jx
<1>10. stored' \subseteq {x \in Paths : files'[x] # NoFile} /\ botched' \subseteq Paths
  BY <1>1, <1>2, <1>5 DEF Recorded
<1>11. ASSUME solo, NEW x \in stored' \ botched' PROVE x \in PathsOf(jx)
  <2>1. x \in stored \ botched /\ x \notin spoilt /\ files[x] # NoFile
    BY <1>1, <1>2, <1>11 DEF Recorded
  <2>2. PICK j \in DOMAIN ix : x = ix[j].path
    BY <1>2, <1>11, <2>1 DEF PathsOf
  <2>3. ix[j] \in ok
    BY <1>3, <1>7, <1>a, <2>1, <2>2
  <2>4. PICK i \in DOMAIN jx : jx[i] = ix[j]
    BY <1>4, <2>3
  <2> QED BY <2>2, <2>4 DEF PathsOf
<1>12. ASSUME OwnPaths, EntryHasFile, solo, NEW i \in DOMAIN jx
       PROVE  files'[jx[i].path] # NoFile \/ jx[i].path \in botched'
  <2>1. PICK j \in DOMAIN ix : jx[i] = ix[j]
    BY <1>4
  <2>2. Valid(ix[j]) \/ ix[j] \notin looked
    BY <1>4, <1>9, <2>1
  <2>3. \A l \in DOMAIN ix : ix[l].key \in Keys /\ ix[l].path \in Paths /\ ix[l].path = PathOf[ix[l].key]
    BY <1>2, EntrySize DEF Keyed
  <2>4. ix[j].path \notin spoilt
    <3>1. SUFFICES ASSUME ix[j].path \in spoilt PROVE FALSE
      OBVIOUS
    <3>2. PICK l \in DOMAIN ix : ix[j].path = ix[l].path /\ ~Valid(ix[l]) /\ ix[l] \in looked
      BY <1>8, <3>1
    <3>3. ix[j].key = ix[l].key
      BY <1>12, <2>3, <3>2 DEF OwnPaths
    <3>4. j = l
      BY <1>2, <3>3 DEF Keyed
    <3> QED BY <2>2, <3>2, <3>4
  <2>5. files[ix[j].path] # NoFile \/ ix[j].path \in botched
    BY <1>2, <1>12 DEF Backed
  <2> QED BY <1>1, <1>5, <2>1, <2>3, <2>4, <2>5
<1>13. solo => stored' \ botched' \subseteq PathsOf(jx)
  BY <1>11
<1>14. OwnPaths /\ EntryHasFile /\ solo => Backed(jx, files', botched')
  BY <1>12 DEF Backed
<1>15. CASE Save(p, jx, {})
  <2>1. NewIndex(p, jx)
    BY <1>6, <1>15, SaveIndex
  <2> QED BY <1>1, <1>5, <1>6, <1>10, <1>13, <1>14, <1>15, <2>1, IndexStep
<1>16. CASE index' = [index EXCEPT ![p] = jx] /\ unsaved' = Recorded(unsaved \union {p}) /\ UNCHANGED disk
  <2>1. NewIndex(p, jx)
    BY <1>16 DEF BooksInv, CacheTypes, NewIndex
  <2> QED BY <1>1, <1>5, <1>6, <1>10, <1>13, <1>14, <1>16, <2>1, IndexStep
<1> QED BY <1>3, <1>15, <1>16 DEF jx

\* clear, and the one that raises.
LEMMA ClearStep ==
  ASSUME BooksInv, NEW p, NEW stay \in SUBSET Paths, Clear(p, stay)
  PROVE  KeepsBooks
<1>1. /\ p \in open /\ Save(p, << >>, {}) /\ UNCHANGED <<open, solo>>
      /\ stored' = Recorded(stored \intersect stay) /\ botched' = Recorded(botched \union stay)
      /\ files' = Unlinked(Paths \ stay)
  BY DEF Clear
<1>2. /\ files \in [Paths -> Contents \union {NoFile}] /\ botched \subseteq Paths
      /\ stored \subseteq {x \in Paths : files[x] # NoFile}
  BY <1>1, OwnIndex
<1>3. /\ files' \in [Paths -> Contents \union {NoFile}]
      /\ \A x \in Paths : files'[x] = IF x \in Paths \ stay THEN NoFile ELSE files[x]
  BY <1>1, <1>2, UnlinkedFacts
<1>4. stored' \subseteq {x \in Paths : files'[x] # NoFile} /\ botched' \subseteq Paths
  BY <1>1, <1>2, <1>3 DEF Recorded
<1>5. solo => stored' \ botched' \subseteq PathsOf(<< >>)
  BY <1>1 DEF Recorded
<1>6. Backed(<< >>, files', botched')
  BY DEF Backed
<1>7. NewIndex(p, << >>)
  BY <1>1, EmptyProper, SaveIndex
<1> QED BY <1>1, <1>3, <1>4, <1>5, <1>6, <1>7, EmptyProper, IndexStep

\* Steps after which the files differ, and every index is what it was.
LEMMA FilesStep ==
  ASSUME BooksInv, files' \in [Paths -> Contents \union {NoFile}],
         stored' \subseteq stored, stored' \subseteq {f \in Paths : files'[f] # NoFile},
         botched \subseteq botched' \/ ~solo, botched' \subseteq Paths,
         \A f \in Paths : files'[f] = NoFile => files[f] = NoFile \/ f \in botched' \/ ~solo,
         UNCHANGED <<open, index, disk, unsaved, solo>>
  PROVE  KeepsBooks
<1>1. CacheTypes'
  BY DEF BooksInv, CacheTypes
<1>2. Books' = Books
  BY DEF Books
<1>3. OneAtATime' /\ InSync' /\ StoredIsIndexed'
  BY <1>2 DEF BooksInv, OneAtATime, InSync, StoredIsIndexed
<1>4. EntryHasFile => EntryHasFile'
  <2>1. SUFFICES ASSUME EntryHasFile, solo, NEW ix \in Books, NEW i \in DOMAIN ix
                 PROVE  files'[ix[i].path] # NoFile \/ ix[i].path \in botched'
    BY <1>2 DEF EntryHasFile
  <2>2. ix \in Seq(Entries)
    BY DEF BooksInv, CacheTypes, Proper, Keyed, Books
  <2>3. ix[i].path \in Paths
    BY <2>2, EntrySize
  <2>4. files[ix[i].path] # NoFile \/ ix[i].path \in botched
    BY <2>1 DEF EntryHasFile
  <2> QED BY <2>1, <2>3, <2>4
<1> QED BY <1>1, <1>3, <1>4 DEF KeepsBooks, BooksInv

\* A clear that raises, a download, and what something outside cpip does to a file.
LEMMA OutsideStep ==
  ASSUME BooksInv
  PROVE  /\ \A p : \A gone \in SUBSET Paths : ClearFails(p, gone) => KeepsBooks
         /\ \A p : \A k \in Keys : \A c \in Contents : Download(p, k, c) => KeepsBooks
         /\ \A f \in Paths : \A c \in Contents : Corrupt(f, c) => KeepsBooks
<1>1. /\ files \in [Paths -> Contents \union {NoFile}] /\ botched \subseteq Paths
      /\ stored \subseteq {x \in Paths : files[x] # NoFile}
  BY DEF BooksInv, CacheTypes
<1>2. ASSUME NEW p, NEW gone \in SUBSET Paths, ClearFails(p, gone) PROVE KeepsBooks
  <2>1. /\ files' = Unlinked(gone) /\ stored' = Recorded(stored \ gone) /\ botched' = Recorded(botched \union gone)
        /\ UNCHANGED <<open, index, disk, unsaved, solo>>
    BY <1>2 DEF ClearFails
  <2>2. /\ files' \in [Paths -> Contents \union {NoFile}]
        /\ \A x \in Paths : files'[x] = IF x \in gone THEN NoFile ELSE files[x]
    BY <1>1, <2>1, UnlinkedFacts
  <2>3. /\ stored' \subseteq stored /\ stored' \subseteq {x \in Paths : files'[x] # NoFile}
        /\ (botched \subseteq botched' \/ ~solo) /\ botched' \subseteq Paths
        /\ \A f \in Paths : files'[f] = NoFile => files[f] = NoFile \/ f \in botched' \/ ~solo
    BY <1>1, <2>1, <2>2 DEF Recorded
  <2> QED BY <2>1, <2>2, <2>3, FilesStep
<1>3. ASSUME NEW f \in Paths, NEW c \in Contents, files' = [files EXCEPT ![f] = c],
             stored' \in {stored, Recorded(stored \ {f})}, UNCHANGED <<open, index, disk, unsaved, botched, solo>>
      PROVE  KeepsBooks
  <2>1. c # NoFile
    BY CacheAssumption
  <2>2. /\ files' \in [Paths -> Contents \union {NoFile}]
        /\ \A x \in Paths : files'[x] = IF x = f THEN c ELSE files[x]
    BY <1>1, <1>3
  <2>3. /\ stored' \subseteq stored /\ stored' \subseteq {x \in Paths : files'[x] # NoFile}
        /\ \A x \in Paths : files'[x] = NoFile => files[x] = NoFile
    BY <1>1, <1>3, <2>1, <2>2 DEF Recorded
  <2> QED BY <1>1, <1>3, <2>2, <2>3, FilesStep
<1>4. ASSUME NEW p, NEW k \in Keys, NEW c \in Contents, Download(p, k, c) PROVE KeepsBooks
  <2>1. PathOf[k] \in Paths
    BY CacheAssumption
  <2> QED BY <1>3, <1>4, <2>1 DEF Download
<1>5. ASSUME NEW f \in Paths, NEW c \in Contents, Corrupt(f, c) PROVE KeepsBooks
  BY <1>3, <1>5 DEF Corrupt
<1> QED BY <1>2, <1>4, <1>5

\* Processes that start, end or are killed.
LEMMA ProcessStep ==
  ASSUME BooksInv, NEW p \in Procs, Start(p) \/ Exit(p) \/ CrashInSave(p) \/ CrashInEvict(p)
  PROVE  KeepsBooks
<1>0. /\ open \subseteq Procs /\ index \in [Procs -> Seq(Entries)] /\ solo \in BOOLEAN
      /\ Proper(disk) /\ disk \in Seq(Entries) /\ (\A q \in Procs : Proper(index[q]))
      /\ files \in [Paths -> Contents \union {NoFile}]
      /\ stored \subseteq {f \in Paths : files[f] # NoFile}
      /\ unsaved \subseteq open /\ botched \subseteq Paths
  BY DEF BooksInv, CacheTypes, Proper, Keyed
<1>a. << >> \in Seq(Entries)
  OBVIOUS
<1>1. CASE Start(p)
  <2>0. /\ open' = open \union {p} /\ solo' = (solo /\ open = {})
        /\ disk' = disk /\ files' = files /\ stored' = stored /\ unsaved' = unsaved /\ botched' = botched
    BY <1>1 DEF Start
  <2>1. PICK ix \in {disk} \union (IF open = {} THEN {} ELSE {<< >>}) : index' = [index EXCEPT ![p] = ix]
    BY <1>1 DEF Start
  <2>2. Proper(ix) /\ ix \in Seq(Entries) /\ (open = {} => ix = disk)
    BY <1>0, <1>a, <2>1, EmptyProper
  <2>3. index' \in [Procs -> Seq(Entries)] /\ index'[p] = ix /\ \A q \in Procs : Proper(index'[q])
    BY <1>0, <2>1, <2>2
  <2>4. CacheTypes'
    BY <1>0, <2>0, <2>3 DEF CacheTypes
  <2>5. OneAtATime' /\ InSync'
    BY <2>0, <2>2, <2>3 DEF OneAtATime, InSync
  <2>6. solo' => Books = {disk} /\ Books' = {disk}
    BY <2>0, <2>2, <2>3 DEF Books
  <2>7. StoredIsIndexed' /\ (EntryHasFile => EntryHasFile')
    BY <2>0, <2>6 DEF BooksInv, StoredIsIndexed, EntryHasFile
  <2> QED BY <2>4, <2>5, <2>7 DEF KeepsBooks, BooksInv
<1>2. CASE Exit(p)
  <2>1. /\ p \in open /\ open' = open \ {p} /\ index' = [index EXCEPT ![p] = << >>]
        /\ disk' = disk /\ files' = files /\ stored' = stored /\ botched' = botched
        /\ solo' = (solo /\ p \notin unsaved) /\ unsaved' = Recorded(unsaved \ {p})
    BY <1>2 DEF Exit
  <2>2. index' \in [Procs -> Seq(Entries)] /\ \A q \in Procs : Proper(index'[q])
    BY <1>0, <1>a, <2>1, EmptyProper
  <2>3. unsaved' \subseteq open'
    BY <1>0, <2>1 DEF Recorded
  <2>4. CacheTypes'
    BY <1>0, <2>1, <2>2, <2>3 DEF CacheTypes
  <2>5. solo => open = {p} /\ open' = {}
    BY <2>1 DEF BooksInv, OneAtATime
  <2>6. OneAtATime' /\ InSync'
    BY <2>1, <2>5 DEF OneAtATime, InSync
  <2>7. solo' => Books = {disk} /\ Books' = {disk}
    <3>1. solo' => index[p] = disk
      BY <2>1 DEF BooksInv, InSync
    <3> QED BY <2>1, <2>5, <3>1 DEF Books
  <2>8. StoredIsIndexed' /\ (EntryHasFile => EntryHasFile')
    BY <2>1, <2>7 DEF BooksInv, StoredIsIndexed, EntryHasFile
  <2> QED BY <2>4, <2>6, <2>8 DEF KeepsBooks, BooksInv
<1>3. CASE CrashInSave(p)
  <2>1. /\ open' = open \ {p} /\ index' = [index EXCEPT ![p] = << >>] /\ unsaved' = Recorded(unsaved \ {p})
        /\ disk' = << >> /\ files' = files /\ stored' = stored /\ solo' = FALSE /\ botched' = botched
    BY <1>3 DEF CrashInSave
  <2>2. index' \in [Procs -> Seq(Entries)] /\ \A q \in Procs : Proper(index'[q])
    BY <1>0, <1>a, <2>1, EmptyProper
  <2>3. unsaved' \subseteq open'
    BY <1>0, <2>1 DEF Recorded
  <2>4. CacheTypes'
    BY <1>0, <2>1, <2>2, <2>3, EmptyProper DEF CacheTypes
  <2> QED BY <2>1, <2>4 DEF KeepsBooks, BooksInv, OneAtATime, InSync, StoredIsIndexed, EntryHasFile
<1>4. CASE CrashInEvict(p)
  <2>1. PICK gone : files' = Unlinked(gone) /\ stored' = Recorded(stored \ gone) /\ disk' \in {disk, << >>, Kept(index[p])}
    BY <1>4 DEF CrashInEvict
  <2>2. /\ open' = open \ {p} /\ index' = [index EXCEPT ![p] = << >>] /\ solo' = FALSE
        /\ unsaved' = Recorded(unsaved \ {p}) /\ botched' = botched
    BY <1>4 DEF CrashInEvict
  <2>3. index' \in [Procs -> Seq(Entries)] /\ \A q \in Procs : Proper(index'[q])
    BY <1>0, <1>a, <2>2, EmptyProper
  <2>4. Proper(disk')
    BY <1>0, <2>1, EmptyProper, KeptFacts
  <2>5. /\ files' \in [Paths -> Contents \union {NoFile}]
        /\ \A x \in Paths : files'[x] = IF x \in gone THEN NoFile ELSE files[x]
    BY <1>0, <2>1, UnlinkedFacts
  <2>6. unsaved' \subseteq open' /\ stored' \subseteq {x \in Paths : files'[x] # NoFile}
    BY <1>0, <2>1, <2>2, <2>5 DEF Recorded
  <2>7. CacheTypes'
    BY <1>0, <2>2, <2>3, <2>4, <2>5, <2>6 DEF CacheTypes
  <2> QED BY <2>2, <2>7 DEF KeepsBooks, BooksInv, OneAtATime, InSync, StoredIsIndexed, EntryHasFile
<1> QED BY <1>1, <1>2, <1>3, <1>4

\* Every step of every process keeps the books.
LEMMA CacheStep ==
  BooksInv /\ [CacheNext]_cacheVars => KeepsBooks
<1> SUFFICES ASSUME BooksInv, [CacheNext]_cacheVars PROVE KeepsBooks
  OBVIOUS
<1>3. CASE UNCHANGED cacheVars
  BY <1>3 DEF cacheVars, KeepsBooks, BooksInv, CacheTypes, OneAtATime, InSync, StoredIsIndexed, EntryHasFile, Books
<1>4. ASSUME NEW p \in Procs, ProcStep(p) PROVE KeepsBooks
  <2>1. CASE Start(p) \/ Exit(p)
    BY <2>1, ProcessStep
  <2>2. CASE StoreStep(p)
    <3>1. PICK k \in Keys, stay \in SUBSET EvictedLayers(index[p]) :
            \/ \E c \in Contents : StoreCopy(p, k, c, stay)
            \/ \E c \in Contents \union {NoFile} : StoreWheel(p, k, c, stay) \/ StoreFails(p, k, c, stay)
      BY <2>2 DEF StoreStep
    <3> QED BY <3>1, StoreCopyStep, StoreWheelStep, StoreFailsStep
  <2>3. ASSUME NEW n, EvictFails(p, n) PROVE KeepsBooks
    BY <2>3, EvictFailsStep
  <2>4. ASSUME NEW k \in Keys, Get(p, k) PROVE KeepsBooks
    BY <2>4, GetStep
  <2>5. ASSUME NEW k \in Keys, NEW c \in Contents, Download(p, k, c) PROVE KeepsBooks
    BY <2>5, OutsideStep
  <2>6. ASSUME NEW fs \in SUBSET {f \in Paths : files[f] # NoFile}, Clear(p, fs) \/ ClearFails(p, fs) PROVE KeepsBooks
    <3>1. fs \in SUBSET Paths
      OBVIOUS
    <3> QED BY <2>6, <3>1, ClearStep, OutsideStep
  <2>7. ASSUME NEW looked, Verify(p, looked) PROVE KeepsBooks
    BY <2>7, VerifyStep
  <2> QED BY <1>4, <2>1, <2>2, <2>3, <2>4, <2>5, <2>6, <2>7 DEF ProcStep
<1> QED BY <1>3, <1>4, ProcessStep, OutsideStep DEF CacheNext

\* The books are in order on a new device.
LEMMA CacheInitially ==
  CacheInit => BooksInv /\ EntryHasFile
<1> SUFFICES ASSUME CacheInit PROVE BooksInv /\ EntryHasFile
  OBVIOUS
<1>0. << >> \in Seq(Entries)
  OBVIOUS
<1>1. CacheTypes
  BY <1>0, EmptyProper DEF CacheInit, CacheTypes
<1>2. OneAtATime /\ InSync /\ StoredIsIndexed
  BY DEF CacheInit, OneAtATime, InSync, StoredIsIndexed
<1>3. EntryHasFile
  BY DEF CacheInit, EntryHasFile, Books
<1> QED BY <1>1, <1>2, <1>3 DEF BooksInv

\* The books of any number of processes, keys and paths, shared paths included, as long as processes take turns and none crashes:
\* cache.json is what the process believes unless a save has failed, and every file stored since the last failed removal is in
\* the index (client/cache.py: _save_index after every change, its errors ignored).
THEOREM CacheKeepsBooks == CacheSpec => [](InSync /\ StoredIsIndexed)
<1>1. CacheInit => BooksInv
  BY CacheInitially
<1>2. BooksInv /\ [CacheNext]_cacheVars => BooksInv'
  BY CacheStep DEF KeepsBooks
<1>3. BooksInv => InSync /\ StoredIsIndexed
  BY DEF BooksInv
<1> QED BY <1>1, <1>2, <1>3, PTL DEF CacheSpec

\* What any process believes the cache holds, and what cache.json says, stays within 90% of the limit plus one item, however the
\* processes overwrite each other's index, whatever calls fail and wherever they are killed (_maybe_evict).
THEOREM CacheIsBounded == CacheSpec => []IndexBounded
<1>1. CacheInit => BooksInv
  BY CacheInitially
<1>2. BooksInv /\ [CacheNext]_cacheVars => BooksInv'
  BY CacheStep DEF KeepsBooks
<1>3. BooksInv => IndexBounded
  BY DEF BooksInv, CacheTypes, Proper, Bounded, IndexBounded
<1> QED BY <1>1, <1>2, <1>3, PTL DEF CacheSpec

\* When no two keys share a path, memory, index and files agree through any stores, evictions, hits, checks and clears of processes
\* that take turns, and when a save, a copy or a removal fails, they differ only where it failed (client/cache.py).
THEOREM CacheBooksAgree == OwnPaths => (CacheSpec => []CacheAgrees)
<1> SUFFICES ASSUME OwnPaths PROVE CacheSpec => []CacheAgrees
  OBVIOUS
<1>1. CacheInit => BooksInv /\ EntryHasFile
  BY CacheInitially
<1>2. BooksInv /\ EntryHasFile /\ [CacheNext]_cacheVars => (BooksInv /\ EntryHasFile)'
  BY CacheStep DEF KeepsBooks
<1>3. BooksInv /\ EntryHasFile => CacheAgrees
  <2> SUFFICES ASSUME BooksInv, EntryHasFile PROVE CacheAgrees
    OBVIOUS
  <2>1. CacheTypeOK
    BY DEF BooksInv, CacheTypes, Proper, Keyed, CacheTypeOK
  <2> QED BY <2>1 DEF BooksInv, CacheAgrees
<1> QED BY <1>1, <1>2, <1>3, PTL DEF CacheSpec

-----------------------------------------------------------------------------
(* The package metadata.                                                   *)

\* The metadata entries.
MetaEntries == [cached : 0 .. TTL + 1, lag : 0 .. MaxLag, by : Syncs, old : BOOLEAN]

\* The types of the state.
SyncTypeOK ==
  /\ file \in MetaEntries \union {NoMeta}
  /\ at \in [Syncs -> {"off", "register", "catalog", "answer"}]
  /\ waited \in [Syncs -> 0 .. MaxRequest]
  /\ snapshot \in [Syncs -> 0 .. MaxRequest]
  /\ outdated \in SUBSET Syncs
  /\ looping \in BOOLEAN
  /\ nap \in 0 .. Nap
  /\ lastSync \in 0 .. MaxIdleTime
  /\ reader \in BOOLEAN

\* A catalog under way is no older than its request.
SnapshotInTime ==
  \A s \in Syncs : snapshot[s] <= (IF at[s] = "answer" THEN waited[s] ELSE 0)

\* An entry is not staler than its age and its request allow.
LagInTime == file # NoMeta => file.lag <= file.cached + MaxRequest

\* The daemon handles no message while it syncs for the server.
TriggerUpToDate == "trigger" \notin outdated

\* The loop sleeps no longer than it may.
LookedInTime == looping /\ nap > 0 => lastSync + nap < Interval + Nap

\* The inductive invariant of the sync.
SyncInv ==
  /\ SyncTypeOK /\ SnapshotInTime /\ LagInTime
  /\ TriggerUpToDate /\ TriggerIsFresh
  /\ StopIsQuiet /\ LookedInTime

\* The constants are positive numbers.
LEMMA Positive == /\ TTL \in Nat \ {0} /\ Interval \in Nat \ {0}
                  /\ Nap \in Nat \ {0} /\ MaxRequest \in Nat \ {0}
BY SyncAssumption

\* So are the bounds made of them.
LEMMA Bounds == MaxIdleTime \in Nat /\ MaxLag \in Nat /\ MaxLag > TTL + MaxRequest
BY Positive DEF MaxIdleTime, MaxLag

\* The three that sync.
LEMMA Names == "loop" \in Syncs /\ "trigger" \in Syncs /\ "cli" \in Syncs
BY DEF Syncs

\* The invariant holds on a new device.
LEMMA SyncInitially == SyncInit => SyncInv
<1> SUFFICES ASSUME SyncInit PROVE SyncInv
  OBVIOUS
<1>1. SyncTypeOK
  <2>1. looping \in BOOLEAN /\ reader \in BOOLEAN
    BY Zenon DEF SyncInit
  <2>2. file \in MetaEntries \union {NoMeta} /\ outdated \in SUBSET Syncs
    BY DEF SyncInit
  <2>3. /\ at \in [Syncs -> {"off", "register", "catalog", "answer"}]
        /\ waited \in [Syncs -> 0 .. MaxRequest] /\ snapshot \in [Syncs -> 0 .. MaxRequest]
    BY Positive DEF SyncInit
  <2>4. nap \in 0 .. Nap /\ lastSync \in 0 .. MaxIdleTime
    BY Positive, Bounds DEF SyncInit
  <2> QED
    BY <2>1, <2>2, <2>3, <2>4 DEF SyncTypeOK
<1>2. /\ SnapshotInTime /\ LagInTime /\ TriggerUpToDate
      /\ TriggerIsFresh /\ StopIsQuiet /\ LookedInTime
  BY DEF SyncInit, SnapshotInTime, LagInTime, TriggerUpToDate, TriggerIsFresh, StopIsQuiet,
         LookedInTime, Syncs
<1> QED
  BY <1>1, <1>2 DEF SyncInv

\* Every end of a sync leaves the file to its caller and keeps the rest.
LEMMA EndSyncKeeps ==
  ASSUME SyncInv, NEW s \in Syncs, EndSync(s),
         file' \in MetaEntries \union {NoMeta}, LagInTime', TriggerIsFresh'
  PROVE  SyncInv'
<1>1. SyncTypeOK'
  BY Positive, Bounds DEF SyncInv, EndSync, Await, SyncTypeOK
<1>2. SnapshotInTime' /\ TriggerUpToDate' /\ StopIsQuiet'
  BY Positive DEF SyncInv, EndSync, Await, SyncTypeOK, SnapshotInTime, TriggerUpToDate,
                  StopIsQuiet, Syncs
<1>3. LookedInTime'
  BY Positive DEF SyncInv, EndSync, SyncTypeOK, LookedInTime
<1> QED
  BY <1>1, <1>2, <1>3 DEF SyncInv

\* Every step of the sync keeps it.
LEMMA SyncStep == SyncInv /\ [SyncNext]_syncVars => SyncInv'
<1> SUFFICES ASSUME SyncInv, [SyncNext]_syncVars PROVE SyncInv'
  OBVIOUS
<1> USE DEF SyncInv
<1>1. ASSUME UNCHANGED file PROVE LagInTime' /\ TriggerIsFresh'
  BY <1>1 DEF LagInTime, TriggerIsFresh
<1>2. ASSUME UNCHANGED <<looping, nap, lastSync>> PROVE LookedInTime'
  BY <1>2 DEF LookedInTime
<1>3. ASSUME NEW s \in Syncs, Registered(s) PROVE SyncInv'
  <2>1. SyncTypeOK'
    BY <1>3, Positive DEF Registered, Await, SyncTypeOK
  <2>2. SnapshotInTime' /\ TriggerUpToDate' /\ StopIsQuiet'
    BY <1>3, Positive DEF Registered, Await, SyncTypeOK, SnapshotInTime, TriggerUpToDate,
                          StopIsQuiet, Syncs
  <2>3. LagInTime' /\ TriggerIsFresh'
    BY <1>3, <1>1 DEF Registered
  <2>4. LookedInTime'
    BY <1>3, <1>2 DEF Registered
  <2> QED
    BY <2>1, <2>2, <2>3, <2>4
<1>4. ASSUME NEW s \in Syncs, ServerAnswers(s) PROVE SyncInv'
  <2>1. SyncTypeOK'
    BY <1>4, Positive DEF ServerAnswers, SyncTypeOK
  <2>2. SnapshotInTime' /\ TriggerUpToDate' /\ StopIsQuiet'
    BY <1>4, Positive DEF ServerAnswers, SyncTypeOK, SnapshotInTime, TriggerUpToDate,
                          StopIsQuiet, Syncs
  <2>3. LagInTime' /\ TriggerIsFresh'
    BY <1>4, <1>1 DEF ServerAnswers
  <2>4. LookedInTime'
    BY <1>4, <1>2 DEF ServerAnswers
  <2> QED
    BY <2>1, <2>2, <2>3, <2>4
<1>5. ASSUME NEW s \in Syncs, CatalogArrives(s) PROVE SyncInv'
  <2> DEFINE f == [cached |-> 0, lag |-> snapshot[s], by |-> s, old |-> s \in outdated]
  <2>1. file' = f /\ EndSync(s)
    BY <1>5 DEF CatalogArrives
  <2>2. snapshot[s] \in 0 .. MaxRequest
    BY DEF SyncTypeOK
  <2>3. f \in MetaEntries /\ f.lag <= f.cached + MaxRequest
    BY <2>2, Positive, Bounds DEF MetaEntries
  <2>4. f.old => f.by # "trigger"
    BY DEF TriggerUpToDate
  <2> HIDE DEF f
  <2> QED
    BY <2>1, <2>3, <2>4, EndSyncKeeps DEF LagInTime, TriggerIsFresh
<1>6. ASSUME NEW s \in Syncs, SyncFails(s) PROVE SyncInv'
  BY <1>6, <1>1, EndSyncKeeps DEF SyncFails, SyncTypeOK
<1>7. ASSUME StartSync PROVE SyncInv'
  <2>1. SyncTypeOK'
    BY <1>7, Positive DEF StartSync, SyncTypeOK
  <2>2. SnapshotInTime' /\ TriggerUpToDate' /\ StopIsQuiet'
    BY <1>7, Positive DEF StartSync, SyncTypeOK, SnapshotInTime, TriggerUpToDate, StopIsQuiet,
                          Syncs
  <2>3. LagInTime' /\ TriggerIsFresh'
    BY <1>7, <1>1 DEF StartSync
  <2>4. LookedInTime'
    BY <1>7, Positive DEF StartSync, SyncTypeOK, LookedInTime
  <2> QED
    BY <2>1, <2>2, <2>3, <2>4
<1>8. ASSUME StopSync PROVE SyncInv'
  <2>1. SyncTypeOK'
    <3>1. looping' \in BOOLEAN
      BY <1>8, Zenon DEF StopSync
    <3>2. /\ at' \in [Syncs -> {"off", "register", "catalog", "answer"}]
          /\ waited' \in [Syncs -> 0 .. MaxRequest] /\ snapshot' \in [Syncs -> 0 .. MaxRequest]
      BY <1>8, Positive, Names DEF StopSync, Await, SyncTypeOK
    <3> QED
      BY <1>8, <3>1, <3>2, Positive DEF StopSync, SyncTypeOK
  <2>2. SnapshotInTime' /\ TriggerUpToDate' /\ StopIsQuiet'
    BY <1>8, Positive DEF StopSync, Await, SyncTypeOK, SnapshotInTime, TriggerUpToDate,
                          StopIsQuiet, Syncs
  <2>3. LagInTime' /\ TriggerIsFresh'
    BY <1>8, <1>1 DEF StopSync
  <2>4. LookedInTime'
    BY <1>8, Positive DEF StopSync, SyncTypeOK, LookedInTime
  <2> QED
    BY <2>1, <2>2, <2>3, <2>4
<1>9. ASSUME LoopLooks PROVE SyncInv'
  <2>1. SyncTypeOK'
    BY <1>9, Positive, Names DEF LoopLooks, BeginSync, Await, SyncTypeOK
  <2>2. SnapshotInTime' /\ TriggerUpToDate' /\ StopIsQuiet'
    BY <1>9, Positive DEF LoopLooks, BeginSync, Await, SyncTypeOK, SnapshotInTime,
                          TriggerUpToDate, StopIsQuiet, Syncs
  <2>3. LagInTime' /\ TriggerIsFresh'
    BY <1>9, <1>1 DEF LoopLooks
  <2>4. LookedInTime'
    BY <1>9, Positive DEF LoopLooks, SyncTypeOK, LookedInTime
  <2> QED
    BY <2>1, <2>2, <2>3, <2>4
<1>10. ASSUME SyncTrigger PROVE SyncInv'
  <2>1. SyncTypeOK'
    BY <1>10, Positive, Names DEF SyncTrigger, BeginSync, Await, SyncTypeOK
  <2>2. SnapshotInTime' /\ TriggerUpToDate' /\ StopIsQuiet'
    BY <1>10, Positive DEF SyncTrigger, BeginSync, Await, SyncTypeOK, SnapshotInTime,
                           TriggerUpToDate, StopIsQuiet, Syncs
  <2>3. LagInTime' /\ TriggerIsFresh'
    BY <1>10, <1>1 DEF SyncTrigger
  <2>4. LookedInTime'
    BY <1>10, <1>2 DEF SyncTrigger
  <2> QED
    BY <2>1, <2>2, <2>3, <2>4
<1>11. ASSUME SyncCommand PROVE SyncInv'
  <2>1. SyncTypeOK'
    BY <1>11, Positive, Names DEF SyncCommand, BeginSync, Await, SyncTypeOK
  <2>2. SnapshotInTime' /\ TriggerUpToDate' /\ StopIsQuiet'
    BY <1>11, Positive DEF SyncCommand, BeginSync, Await, SyncTypeOK, SnapshotInTime,
                           TriggerUpToDate, StopIsQuiet, Syncs
  <2>3. LagInTime' /\ TriggerIsFresh'
    BY <1>11, <1>1 DEF SyncCommand
  <2>4. LookedInTime'
    BY <1>11, <1>2 DEF SyncCommand
  <2> QED
    BY <2>1, <2>2, <2>3, <2>4
<1>12. ASSUME CacheInvalidate PROVE SyncInv'
  <2>1. SyncTypeOK'
    BY <1>12, Positive DEF CacheInvalidate, NotBusy, SyncTypeOK
  <2>2. SnapshotInTime' /\ TriggerUpToDate' /\ StopIsQuiet'
    BY <1>12, Positive DEF CacheInvalidate, NotBusy, SyncTypeOK, SnapshotInTime, TriggerUpToDate,
                           StopIsQuiet, Syncs
  <2>3. LagInTime' /\ TriggerIsFresh'
    BY <1>12 DEF CacheInvalidate, LagInTime, TriggerIsFresh
  <2>4. LookedInTime'
    BY <1>12, <1>2 DEF CacheInvalidate
  <2> QED
    BY <2>1, <2>2, <2>3, <2>4
<1>13. ASSUME ReadExpired PROVE SyncInv'
  <2>1. SyncTypeOK'
    BY <1>13, Positive DEF ReadExpired, SyncTypeOK
  <2>2. SnapshotInTime' /\ TriggerUpToDate' /\ StopIsQuiet'
    BY <1>13, Positive DEF ReadExpired, SyncTypeOK, SnapshotInTime, TriggerUpToDate, StopIsQuiet,
                           Syncs
  <2>3. LagInTime' /\ TriggerIsFresh'
    BY <1>13, <1>1 DEF ReadExpired
  <2>4. LookedInTime'
    BY <1>13, <1>2 DEF ReadExpired
  <2> QED
    BY <2>1, <2>2, <2>3, <2>4
<1>14. ASSUME RemoveExpired PROVE SyncInv'
  <2>1. SyncTypeOK'
    BY <1>14, Positive DEF RemoveExpired, SyncTypeOK
  <2>2. SnapshotInTime' /\ TriggerUpToDate' /\ StopIsQuiet'
    BY <1>14, Positive DEF RemoveExpired, SyncTypeOK, SnapshotInTime, TriggerUpToDate,
                           StopIsQuiet, Syncs
  <2>3. LagInTime' /\ TriggerIsFresh'
    BY <1>14 DEF RemoveExpired, LagInTime, TriggerIsFresh
  <2>4. LookedInTime'
    BY <1>14, <1>2 DEF RemoveExpired
  <2> QED
    BY <2>1, <2>2, <2>3, <2>4
<1>15. ASSUME TimePasses PROVE SyncInv'
  <2>1. /\ \A s \in Syncs : at[s] # "off" => waited[s] < MaxRequest
        /\ waited' = [s \in Syncs |-> IF at[s] = "off" THEN 0 ELSE waited[s] + 1]
        /\ snapshot' = [s \in Syncs |-> IF at[s] = "answer" THEN snapshot[s] + 1 ELSE 0]
        /\ UNCHANGED <<at, outdated, looping, reader>>
    BY <1>15 DEF TimePasses
  <2>2. waited' \in [Syncs -> 0 .. MaxRequest] /\ snapshot' \in [Syncs -> 0 .. MaxRequest]
        /\ SnapshotInTime'
    BY <2>1, Positive DEF SyncTypeOK, SnapshotInTime
  <2>3. file' \in MetaEntries \union {NoMeta} /\ LagInTime' /\ TriggerIsFresh'
    <3>1. CASE file = NoMeta
      BY <1>15, <3>1 DEF TimePasses, LagInTime, TriggerIsFresh
    <3>2. CASE file # NoMeta
      <4> DEFINE c == Capped(file.cached + 1, TTL + 1)
                 l == Capped(file.lag + 1, MaxLag)
      <4>1. /\ file \in MetaEntries
            /\ file' = [file EXCEPT !.cached = c, !.lag = l]
        BY <1>15, <3>2 DEF TimePasses, SyncTypeOK
      <4>2. file.cached \in 0 .. TTL + 1 /\ file.lag \in 0 .. MaxLag
        BY <4>1 DEF MetaEntries
      <4>3. file.lag <= file.cached + MaxRequest
        BY <3>2 DEF LagInTime
      <4>4. c \in 0 .. TTL + 1 /\ l \in 0 .. MaxLag /\ l <= c + MaxRequest
        BY <4>2, <4>3, Positive DEF Capped, MaxLag
      <4> HIDE DEF c, l
      <4>5. file' \in MetaEntries /\ file'.lag = l /\ file'.cached = c
            /\ file'.old = file.old /\ file'.by = file.by
        BY <4>1, <4>4 DEF MetaEntries
      <4> QED
        BY <3>2, <4>4, <4>5 DEF LagInTime, TriggerIsFresh
    <3> QED
      BY <3>1, <3>2
  <2>4. nap' \in 0 .. Nap /\ lastSync' \in 0 .. MaxIdleTime /\ LookedInTime'
    BY <1>15, Positive, Bounds DEF TimePasses, SyncTypeOK, LookedInTime, Capped
  <2> QED
    BY <2>1, <2>2, <2>3, <2>4 DEF SyncTypeOK, TriggerUpToDate, StopIsQuiet
<1>16. ASSUME UNCHANGED syncVars PROVE SyncInv'
  BY <1>16, <1>1, <1>2 DEF syncVars, SyncTypeOK, SnapshotInTime, TriggerUpToDate, StopIsQuiet
<1> QED
  BY <1>3, <1>4, <1>5, <1>6, <1>7, <1>8, <1>9, <1>10, <1>11, <1>12, <1>13, <1>14, <1>15, <1>16
  DEF SyncNext

\* It holds in every reachable state.
LEMMA SyncInductive == SyncSpec => []SyncInv
BY SyncInitially, SyncStep, PTL DEF SyncSpec

\* For any time to live and request timeout, what get_metadata returns is at most that much
\* older than what the server had.
THEOREM SyncStaleBounded == SyncSpec => []StaleBounded
<1>1. SyncInv => StaleBounded
  BY Positive DEF SyncInv, SyncTypeOK, LagInTime, StaleBounded, Fresh, MetaEntries
<1> QED
  BY <1>1, SyncInductive, PTL

\* A triggered sync never brings back what the server has invalidated.
THEOREM SyncTriggerIsFresh == SyncSpec => []TriggerIsFresh
<1>1. SyncInv => TriggerIsFresh
  BY DEF SyncInv
<1> QED
  BY <1>1, SyncInductive, PTL

\* After stop() no sync of the loop is under way.
THEOREM SyncStopIsQuiet == SyncSpec => []StopIsQuiet
<1>1. SyncInv => StopIsQuiet
  BY DEF SyncInv
<1> QED
  BY <1>1, SyncInductive, PTL

\* Whatever fails, while the loop sleeps a sync has ended within the interval and one sleep.
THEOREM SyncHappensOften == SyncSpec => []SyncedOften
<1>1. SyncInv => SyncedOften
  BY Positive DEF SyncInv, SyncTypeOK, LookedInTime, SyncedOften
<1> QED
  BY <1>1, SyncInductive, PTL

\* For any lengths of time and any number of syncs under way, what get_metadata returns is not
\* too old, and a triggered sync does not bring back what the server has invalidated.
THEOREM SyncMetadataFresh == SyncSpec => []MetadataFresh
BY SyncStaleBounded, SyncTriggerIsFresh, PTL DEF MetadataFresh

\* For any interval and sleep the background loop syncs often enough while it runs, and not at
\* all once it is stopped.
THEOREM SyncLoopKeepsTime == SyncSpec => []LoopKeepsTime
BY SyncStopIsQuiet, SyncHappensOften, PTL DEF LoopKeepsTime

-----------------------------------------------------------------------------
(* The configuration.                                                      *)

\* One change of a command line.
Change == {<<"init">>} \union {<<"url", u>> : u \in Urls} \union {<<"offline", b>> : b \in BOOLEAN}

\* Settings with the environment variables of a terminal on top.
Over(t, c) ==
  [c EXCEPT !.url = IF EnvUrl[t] = Unset THEN @ ELSE EnvUrl[t], !.offline = @ \/ EnvOffline[t]]

\* The types of the state.
SettingsTypes ==
  /\ toml \in File \union {Unset}
  /\ copy \in [Terminals -> Config]
  /\ todo \in [Terminals -> Seq(Change)]
  /\ writing \subseteq {t \in Terminals : todo[t] # << >>}
  /\ mixed \subseteq writing
  /\ expected \in Config
  /\ calm \in BOOLEAN

\* While no command overlaps another, the copy of the one that runs is what was announced so
\* far, with the change being written if there is one, and it has the file for itself.
CopyIsExpected ==
  calm => /\ mixed = {}
          /\ \A t, u \in Terminals : todo[t] # << >> /\ todo[u] # << >> => t = u
          /\ \A t \in Terminals : todo[t] # << >> =>
               copy[t] = IF t \in writing THEN With(Over(t, expected), Head(todo[t])) ELSE Over(t, expected)

\* The inductive invariant of the configuration.
SettingsInv == SettingsTypes /\ CopyIsExpected /\ SettingKept

\* What the environment variables make of each setting.
LEMMA OverFields ==
  ASSUME NEW t \in Terminals, NEW c \in Config
  PROVE  /\ Over(t, c).url = (IF EnvUrl[t] = Unset THEN c.url ELSE EnvUrl[t])
         /\ Over(t, c).offline = (c.offline \/ EnvOffline[t])
         /\ Over(t, c).other = c.other
<1>1. EnvUrl[t] \in Urls \union {Unset} /\ EnvOffline[t] \in BOOLEAN
  BY SettingsAssumption
<1>2. c.url \in Urls /\ c.offline \in BOOLEAN /\ c.other \in Other
  BY DEF Config
<1> QED BY <1>1, <1>2 DEF Config, Over

\* Overrides that agree with the settings change nothing.
LEMMA OverFacts ==
  ASSUME NEW t \in Terminals, NEW c \in Config
  PROVE  /\ Over(t, c) \in Config
         /\ EnvUrl[t] \in {Unset, c.url} /\ (EnvOffline[t] => c.offline) => Over(t, c) = c
<1> DEFINE d == Over(t, c)
<1>1. EnvUrl[t] \in Urls \union {Unset} /\ EnvOffline[t] \in BOOLEAN
  BY SettingsAssumption
<1>2. c.url \in Urls /\ c.offline \in BOOLEAN /\ c.other \in Other
  BY DEF Config
<1>3. d \in Config
  BY <1>1, <1>2 DEF Config, Over
<1>4. d.url = (IF EnvUrl[t] = Unset THEN c.url ELSE EnvUrl[t]) /\ d.other = c.other
      /\ d.offline = (c.offline \/ EnvOffline[t])
  BY OverFields
<1>5. ASSUME EnvUrl[t] \in {Unset, c.url}, EnvOffline[t] => c.offline PROVE d = c
  <2>1. d.url = c.url /\ d.other = c.other
    BY <1>4, <1>5
  <2>2. d.offline = c.offline
    BY <1>1, <1>2, <1>4, <1>5
  <2> HIDE DEF d
  <2> QED BY <1>3, <2>1, <2>2 DEF Config
<1> QED BY <1>3, <1>5

\* One change of a setting leaves the others as they are.
LEMMA WithFacts ==
  ASSUME NEW c \in Config, NEW h \in Change
  PROVE  /\ With(c, h) \in Config
         /\ With(c, h).url = (IF h[1] = "url" THEN h[2] ELSE c.url)
         /\ With(c, h).offline = (IF h[1] = "offline" THEN h[2] ELSE c.offline)
         /\ With(c, h).other = c.other
<1>1. CASE h = <<"init">>
  BY <1>1 DEF With, Config
<1>2. ASSUME NEW u \in Urls, h = <<"url", u>> PROVE With(c, h) = [c EXCEPT !.url = u]
  BY <1>2 DEF With
<1>3. ASSUME NEW b \in BOOLEAN, h = <<"offline", b>> PROVE With(c, h) = [c EXCEPT !.offline = b]
  BY <1>3 DEF With
<1> QED BY <1>1, <1>2, <1>3 DEF Change, Config

\* A change made under overrides that agree with its result is the change.
LEMMA OverridesAgree ==
  ASSUME NEW t \in Terminals, NEW e \in Config, NEW h \in Change,
         EnvUrl[t] \in {Unset, With(e, h).url}, EnvOffline[t] => With(e, h).offline
  PROVE  With(Over(t, e), h) = With(e, h)
<1> DEFINE c == With(Over(t, e), h)
           d == With(e, h)
<1>1. Over(t, e) \in Config /\ EnvOffline[t] \in BOOLEAN
  BY OverFacts, SettingsAssumption
<1>2. c \in Config /\ d \in Config
  BY <1>1, WithFacts
<1>3. c.url = d.url /\ c.other = d.other
  BY <1>1, WithFacts, OverFields
<1>4. c.offline = d.offline
  <2>1. c.offline = (IF h[1] = "offline" THEN h[2] ELSE Over(t, e).offline)
        /\ d.offline = (IF h[1] = "offline" THEN h[2] ELSE e.offline)
    BY <1>1, WithFacts
  <2>2. Over(t, e).offline = (e.offline \/ EnvOffline[t])
    BY OverFields
  <2>3. EnvOffline[t] => d.offline
    OBVIOUS
  <2>4. e.offline \in BOOLEAN
    BY DEF Config
  <2> HIDE DEF c, d
  <2>5. CASE h[1] = "offline"
    BY <2>1, <2>5
  <2>6. CASE h[1] # "offline"
    <3>1. c.offline = (e.offline \/ EnvOffline[t]) /\ d.offline = e.offline
      BY <2>1, <2>2, <2>6
    <3>2. EnvOffline[t] => e.offline
      BY <3>1, <2>3
    <3>3. (e.offline \/ EnvOffline[t]) = e.offline
      BY <1>1, <2>4, <3>2
    <3> QED BY <3>1, <3>3
  <2> QED BY <2>5, <2>6
<1> HIDE DEF c, d
<1>5. c = d
  BY <1>2, <1>3, <1>4 DEF Config
<1> QED BY <1>5 DEF c, d

\* A command makes one change or several, in order.
LEMMA ChangesAreSequences == ASSUME NEW changes \in Changes PROVE changes \in Seq(Change) /\ changes # << >>
<1>1. CASE changes = << <<"init">> >>
  BY <1>1 DEF Change
<1>2. ASSUME NEW c \in Change, changes = <<c>> PROVE changes \in Seq(Change) /\ changes # << >>
  BY <1>2
<1>3. ASSUME NEW c \in Change, NEW d \in Change, changes = <<c, d>>
      PROVE  changes \in Seq(Change) /\ changes # << >>
  BY <1>3
<1>4. \/ changes = << <<"init">> >>
      \/ \E c \in Change : changes = <<c>>
      \/ \E c, d \in Change : changes = <<c, d>>
  <2> DEFINE SetUrl == {<<"url", u>> : u \in Urls}
             SetOffline == {<<"offline", b>> : b \in BOOLEAN}
  <2>1. SetUrl \subseteq Change /\ SetOffline \subseteq Change
    BY DEF Change
  <2>2. changes \in {<< <<"init">> >>} \union {<<c>> : c \in SetUrl \union SetOffline}
                   \union {<<c, d>> : c \in SetUrl, d \in SetOffline}
    BY DEF Changes
  <2> HIDE DEF SetUrl, SetOffline
  <2> QED BY <2>1, <2>2
<1> QED BY <1>1, <1>2, <1>3, <1>4

\* The defaults are a configuration.
LEMMA DefaultsTyped == Defaults \in Config
BY SettingsAssumption DEF Defaults, Config

\* What is loaded of a file is a configuration.
LEMMA LoadTyped == ASSUME NEW f \in File \union {Unset} PROVE LoadToml(f) \in Config
<1>1. CASE f = Unset
  BY <1>1, SettingsAssumption DEF LoadToml, Defaults, Config
<1>2. CASE f # Unset
  <2>1. f.url \in Urls \union {Unset} /\ f.offline \in BOOLEAN \union {Unset} /\ f.other \in Other \union {Unset}
    BY <1>2 DEF File
  <2>2. Or(f.url, DefaultUrl) \in Urls /\ Or(f.other, DefaultOther) \in Other
    BY <2>1, SettingsAssumption DEF Or
  <2>3. Or(f.offline, FALSE) \in BOOLEAN
    BY <2>1 DEF Or
  <2> QED BY <1>2, <2>2, <2>3 DEF LoadToml, Config
<1> QED BY <1>1, <1>2

\* What is saved of a configuration is a file, from which it is loaded if the file can hold it.
LEMMA SavedFacts ==
  ASSUME NEW c \in Config
  PROVE  /\ SaveToml(c) \in File \union {Unset}
         /\ c.url \notin Quoting /\ c.other \notin Fractions => LoadToml(SaveToml(c)) = c
<1>1. c.url \in Urls /\ c.offline \in BOOLEAN /\ c.other \in Other
  BY DEF Config
<1>2. Unset \notin Urls /\ Unset \notin Other /\ Unset \notin BOOLEAN /\ Unset \notin File
  BY SettingsAssumption
<1>3. SaveToml(c) \in File \union {Unset}
  BY <1>1 DEF SaveToml, File
<1>4. ASSUME c.url \notin Quoting, c.other \notin Fractions PROVE LoadToml(SaveToml(c)) = c
  <2> DEFINE f == SaveToml(c)
  <2>1. f = [url |-> c.url, offline |-> c.offline, other |-> c.other, auto |-> TRUE]
    BY <1>4 DEF SaveToml
  <2>2. f \in File
    BY <1>1, <2>1 DEF File
  <2>4. f.url = c.url /\ f.other = c.other /\ f.offline = c.offline
    BY <2>1
  <2> HIDE DEF f
  <2>3. f # Unset
    BY <1>2, <2>2
  <2>5. Or(f.url, DefaultUrl) = c.url /\ Or(f.other, DefaultOther) = c.other
    BY <1>1, <1>2, <2>4 DEF Or
  <2>6. c.offline # Unset
    BY <1>1, <1>2
  <2>7. Or(f.offline, FALSE) = c.offline
    BY <2>4, <2>6, Zenon DEF Or
  <2>8. LoadToml(f) = [url |-> c.url, offline |-> c.offline, other |-> c.other]
    BY <2>3, <2>5, <2>7, Zenon DEF LoadToml
  <2>9. c = [url |-> c.url, offline |-> c.offline, other |-> c.other]
    BY DEF Config
  <2> QED BY <2>8, <2>9 DEF f
<1> QED BY <1>3, <1>4

\* Every step keeps the invariant.
LEMMA SettingsInvStep == SettingsInv /\ [SettingsNext]_settingVars => SettingsInv'
<1> SUFFICES ASSUME SettingsInv, [SettingsNext]_settingVars PROVE SettingsInv'
  OBVIOUS
<1> USE DEF SettingsInv, SettingsTypes
<1>1. ASSUME NEW f \in File, EditByHand(f) PROVE SettingsInv'
  <2>1. /\ toml' = f /\ expected' = LoadToml(f) /\ UNCHANGED <<copy, todo, writing, mixed>>
        /\ \A t \in Terminals : todo[t] = << >>
    BY <1>1 DEF EditByHand
  <2>2. SettingsTypes'
    BY <1>1, <2>1, LoadTyped DEF EditByHand
  <2>3. writing = {} /\ mixed = {}
    BY <2>1
  <2>4. SettingKept' /\ CopyIsExpected'
    BY <2>1, <2>3 DEF SettingKept, CopyIsExpected
  <2> QED BY <2>2, <2>4
<1>2. ASSUME NEW t \in Terminals, NEW changes \in Changes, RunConfig(t, changes) PROVE SettingsInv'
  <2>1. LoadToml(toml) \in Config
    BY LoadTyped
  <2>2. LoadConfig(t) = Over(t, LoadToml(toml))
    BY DEF LoadConfig, Over
  <2>3. LoadConfig(t) \in Config
    BY <2>1, <2>2, OverFacts
  <2>4. changes \in Seq(Change) /\ changes # << >>
    BY ChangesAreSequences
  <2>5. /\ copy' = [copy EXCEPT ![t] = LoadConfig(t)] /\ todo' = [todo EXCEPT ![t] = changes]
        /\ calm' = (\A u \in Terminals : todo[u] = << >>)
        /\ expected' = IF ~calm' THEN Defaults ELSE IF calm THEN expected ELSE LoadToml(toml)
        /\ UNCHANGED <<toml, writing, mixed>>
    BY <1>2 DEF RunConfig
  <2>6. SettingsTypes'
    <3>1. calm' \in BOOLEAN
      BY <2>5
    <3>2. expected' \in Config
      BY <2>1, <2>5, DefaultsTyped
    <3> QED BY <2>3, <2>4, <2>5, <3>1, <3>2
  <2>7. ASSUME calm' PROVE CopyIsExpected' /\ SettingKept'
    <3>1. (\A u \in Terminals : todo[u] = << >>) /\ writing = {} /\ mixed = {}
      BY <2>5, <2>7
    <3>2. expected' = LoadToml(toml)
      BY <2>5, <2>7, <3>1 DEF SettingKept
    <3>3. copy'[t] = Over(t, expected') /\ t \notin writing'
      BY <2>2, <2>5, <3>1, <3>2
    <3>4. \A u \in Terminals : todo'[u] # << >> => u = t
      BY <2>5, <3>1
    <3> QED BY <2>5, <3>1, <3>2, <3>3, <3>4 DEF CopyIsExpected, SettingKept, Over
  <2> QED BY <2>6, <2>7 DEF CopyIsExpected, SettingKept
<1>3. ASSUME NEW t \in Terminals, Truncate(t) PROVE SettingsInv'
  <2> DEFINE h == Head(todo[t])
  <2>1. h \in Change
    BY <1>3 DEF Truncate
  <2>2. /\ copy' = [copy EXCEPT ![t] = With(copy[t], h)] /\ toml' = Unset
        /\ writing' = writing \union {t} /\ UNCHANGED <<todo, expected, calm>>
        /\ mixed' = IF writing = {} THEN mixed ELSE mixed \union writing'
    BY <1>3 DEF Truncate
  <2> HIDE DEF h
  <2>3. SettingsTypes'
    <3>1. With(copy[t], h) \in Config /\ todo[t] # << >>
      BY <1>3, <2>1, WithFacts DEF Truncate
    <3> QED BY <2>2, <3>1
  <2>4. ASSUME calm PROVE CopyIsExpected'
    <3>1. \A u \in Terminals : todo[u] # << >> => u = t
      BY <1>3, <2>4 DEF Truncate, CopyIsExpected
    <3>2. copy[t] = Over(t, expected)
      BY <1>3, <2>4 DEF Truncate, CopyIsExpected
    <3>3. copy'[t] = With(Over(t, expected), h) /\ t \in writing'
      BY <2>2, <3>2
    <3>4. writing = {}
      <4>1. t \notin writing
        BY <1>3 DEF Truncate
      <4> QED BY <3>1, <4>1
    <3>5. mixed' = {}
      BY <2>2, <2>4, <3>4 DEF CopyIsExpected
    <3> QED BY <2>2, <3>1, <3>3, <3>5 DEF CopyIsExpected, h, Over
  <2>5. SettingKept'
    BY <2>2 DEF SettingKept
  <2> QED BY <2>2, <2>3, <2>4, <2>5 DEF CopyIsExpected
<1>4. ASSUME NEW t \in Terminals, WriteConfig(t) PROVE SettingsInv'
  <2> DEFINE h == Head(todo[t])
  <2>1. h \in Change /\ todo[t] # << >> /\ t \in writing /\ Tail(todo[t]) \in Seq(Change)
    BY <1>4 DEF WriteConfig
  <2>2. /\ toml' \in {SaveToml(copy[t])} \union (IF t \in mixed THEN {Unset} ELSE {})
        /\ writing' = writing \ {t} /\ mixed' = mixed \ {t}
        /\ expected' = IF calm' THEN With(expected, h) ELSE Defaults
        /\ todo' = [todo EXCEPT ![t] = Tail(todo[t])]
        /\ copy' = IF todo'[t] = << >> THEN [copy EXCEPT ![t] = Defaults] ELSE copy
    BY <1>4 DEF WriteConfig
  <2>3. calm' = (calm /\ copy[t].url \notin Quoting /\ copy[t].other \notin Fractions
                      /\ EnvUrl[t] \in {Unset, With(expected, h).url}
                      /\ (EnvOffline[t] => With(expected, h).offline))
    BY <1>4 DEF WriteConfig
  <2> HIDE DEF h
  <2>4. expected' \in Config /\ copy[t] \in Config
    BY <2>1, <2>2, WithFacts, DefaultsTyped
  <2>5. SettingsTypes'
    <3>1. toml' \in File \union {Unset}
      BY <2>2, <2>4, SavedFacts
    <3>2. calm' \in BOOLEAN
      BY <2>3
    <3>3. copy' \in [Terminals -> Config]
      BY <2>2, DefaultsTyped
    <3> QED BY <2>1, <2>2, <2>4, <3>1, <3>2, <3>3
  <2>6. ASSUME calm' PROVE CopyIsExpected' /\ SettingKept'
    <3>1. calm /\ copy[t].url \notin Quoting /\ copy[t].other \notin Fractions /\ EnvUrl[t] \in {Unset, expected'.url}
          /\ (EnvOffline[t] => expected'.offline)
      BY <2>2, <2>3, <2>6
    <3>2. copy[t] = With(Over(t, expected), h)
      BY <2>1, <3>1 DEF CopyIsExpected, h
    <3>3. copy[t] = expected'
      BY <2>1, <2>2, <2>6, <3>1, <3>2, OverridesAgree
    <3>4. \A u \in Terminals : todo[u] # << >> => u = t
      BY <2>1, <3>1 DEF CopyIsExpected
    <3>5. mixed = {} /\ toml' = SaveToml(copy[t])
      BY <2>2, <3>1 DEF CopyIsExpected
    <3>6. SettingKept'
      BY <2>4, <3>1, <3>3, <3>5, SavedFacts DEF SettingKept
    <3>7. Over(t, expected') = expected'
      BY <2>4, <3>1, OverFacts
    <3>8. (todo'[t] # << >> => copy'[t] = Over(t, expected')) /\ t \notin writing'
      BY <2>2, <3>3, <3>7
    <3>9. \A u \in Terminals : todo'[u] # << >> => u = t
      BY <2>2, <3>4
    <3>10. CopyIsExpected'
      BY <2>2, <3>5, <3>8, <3>9 DEF CopyIsExpected, Over
    <3> QED BY <3>6, <3>10
  <2> QED BY <2>5, <2>6 DEF CopyIsExpected, SettingKept
<1>5. ASSUME NEW t \in Terminals, KillConfig(t) PROVE SettingsInv'
  <2>1. SettingsTypes'
    <3>1. todo' = [todo EXCEPT ![t] = << >>] /\ writing' = writing \ {t} /\ mixed' = mixed \ {t}
          /\ copy' = [copy EXCEPT ![t] = Defaults] /\ expected' = Defaults /\ UNCHANGED toml
      BY <1>5 DEF KillConfig
    <3>2. calm' \in BOOLEAN
      BY <1>5 DEF KillConfig
    <3>3. << >> \in Seq(Change)
      OBVIOUS
    <3>4. todo' \in [Terminals -> Seq(Change)]
      BY <3>1, <3>3
    <3> QED BY <3>1, <3>2, <3>4, DefaultsTyped
  <2> QED BY <1>5, <2>1 DEF KillConfig, CopyIsExpected, SettingKept
<1>6. CASE UNCHANGED settingVars
  BY <1>6 DEF settingVars, CopyIsExpected, SettingKept, Over
<1> QED BY <1>1, <1>2, <1>3, <1>4, <1>5, <1>6 DEF SettingsNext

\* What the commands of any number of terminals announced is what the next command loads (client/config.py: load, the
\* overrides, the change, save), as long as none overlaps another, is killed, writes what the file cannot hold, or runs under
\* an override, and again from the next command that starts alone.
THEOREM SettingsAreKept == SettingsSpec => []SettingKept
<1>1. SettingsInit => SettingsInv
  BY SettingsAssumption DEF SettingsInit, SettingsInv, SettingsTypes, CopyIsExpected, SettingKept, LoadToml,
     Defaults, Config
<1>2. SettingsInv => SettingKept
  BY DEF SettingsInv
<1> QED BY <1>1, <1>2, SettingsInvStep, PTL DEF SettingsSpec

-----------------------------------------------------------------------------
(* The daemon.                                                             *)

\* The safety part of the specification.
DaemonSafety == DaemonInit /\ [][DaemonNext]_daemonVars

\* A command that is about to send SIGTERM has read the pid of a daemon.
DaemonTypes ==
  /\ pidFile \in Daemons \union {NoPid, Torn}
  /\ mode \in [Daemons -> {"off", "boot", "write", "ready", "dial", "up", "sleep", "dead"}]
  /\ running \in [Daemons -> BOOLEAN]
  /\ stop \in [Daemons -> {"none", "asked", "closing", "done"}]
  /\ cmd \in [Commands -> {"idle", "spawn", "unlink", "unlinkStart", "kill"}]
  /\ seen \in [Commands -> Daemons \union {NoPid}]
  /\ \A c \in Commands : cmd[c] = "kill" => seen[c] \in Daemons

\* stop() runs only after start() has installed the handlers, and not in a daemon that runs on.
StopsOnce ==
  \A p \in Daemons : stop[p] # "none" => ~running[p] /\ mode[p] \notin {"off", "boot", "write", "ready"}

\* A daemon that was overlapped is known to have been.
OverlapsNoted == \A p \in Daemons : Overlapped(p) => p \in contended

\* From the moment it opens the PID file, the file is the daemon's own.
OwnFile(p) ==
  p \notin contended =>
    /\ mode[p] = "write" => p \in linked
    /\ (mode[p] = "ready" \/ Serving(p)) /\ running[p] => pidFile = p

\* The inductive invariant of the daemon.
DaemonInv == DaemonTypes /\ StopsOnce /\ OverlapsNoted /\ \A p \in Daemons : OwnFile(p)

\* Every step keeps the types, and stop() apart from the start.
LEMMA DaemonTypesStep ==
  ASSUME DaemonTypes, StopsOnce, DaemonStep
  PROVE  DaemonTypes' /\ StopsOnce'
<1> USE DEF DaemonTypes, StopsOnce, procVars, cmdVars, fileVars, Unlink
<1>1. ASSUME NEW c \in Commands, UnlinkStale(c) PROVE DaemonTypes' /\ StopsOnce'
  BY <1>1 DEF UnlinkStale
<1>2. ASSUME NEW c \in Commands, Kill(c) PROVE DaemonTypes' /\ StopsOnce'
  BY <1>2 DEF Kill, Alive, Booting, Serving
<1>3. ASSUME NEW c \in Commands, NEW p \in Daemons, Spawn(c, p) PROVE DaemonTypes' /\ StopsOnce'
  BY <1>3 DEF Spawn
<1>4. ASSUME NEW c \in Commands, StopRead(c) PROVE DaemonTypes' /\ StopsOnce'
  BY <1>4 DEF StopRead
<1>5. ASSUME NEW c \in Commands, NEW action \in {"start", "status"}, IsRunning(c, action)
      PROVE DaemonTypes' /\ StopsOnce'
  BY <1>5 DEF IsRunning
<1>6. ASSUME NEW p \in Daemons, TruncatePid(p) \/ WritePid(p) \/ Ready(p) PROVE DaemonTypes' /\ StopsOnce'
  BY <1>6 DEF TruncatePid, WritePid, Ready
<1>7. ASSUME NEW p \in Daemons, DialOk(p) \/ ConnectionError(p) \/ Crash(p) PROVE DaemonTypes' /\ StopsOnce'
  BY <1>7 DEF DialOk, ConnectionError, Crash
<1>8. ASSUME NEW p \in Daemons, ServerClose(p) \/ Retry(p) PROVE DaemonTypes' /\ StopsOnce'
  BY <1>8 DEF ServerClose, Retry, Again
<1>9. ASSUME NEW p \in Daemons, StopClose(p) \/ StopClosed(p) PROVE DaemonTypes' /\ StopsOnce'
  BY <1>9 DEF StopClose, StopClosed
<1> QED BY <1>1, <1>2, <1>3, <1>4, <1>5, <1>6, <1>7, <1>8, <1>9
        DEF DaemonStep, CommandStep, StopStep, BootStep

\* What removes or rewrites the PID file of a daemon that lives is an overlap.
LEMMA OwnFileStep ==
  ASSUME DaemonInv, DaemonStep, contended \subseteq contended', OverlapsNoted', NEW p \in Daemons
  PROVE  OwnFile(p)'
<1> SUFFICES ASSUME p \notin contended'
             PROVE  /\ mode'[p] = "write" => p \in linked'
                    /\ mode'[p] \in {"ready", "dial", "up", "sleep"} /\ running'[p] => pidFile' = p
  BY DEF OwnFile, Serving
<1> USE DEF procVars, cmdVars, fileVars
<1>1. /\ mode[p] = "write" => p \in linked
      /\ mode[p] \in {"ready", "dial", "up", "sleep"} /\ running[p] => pidFile = p
  BY DEF DaemonInv, OwnFile, Serving
<1>2. ~Overlapped(p) /\ ~Overlapped(p)'
  BY DEF DaemonInv, OverlapsNoted
<1>3. DaemonTypes /\ StopsOnce
  BY DEF DaemonInv
<1> USE DEF DaemonTypes, StopsOnce
<1>4. ASSUME NEW c \in Commands, UnlinkStale(c) PROVE mode'[p] \notin {"write", "ready", "dial", "up", "sleep"}
  BY <1>2, <1>3, <1>4 DEF UnlinkStale, Overlapped, Alive, Booting, Serving
<1>5. ASSUME NEW c \in Commands, Kill(c) PROVE OwnFile(p)'
  BY <1>1, <1>3, <1>5 DEF Kill, OwnFile, Serving, Booting, Alive
<1>6. ASSUME NEW c \in Commands, NEW q \in Daemons, Spawn(c, q) PROVE OwnFile(p)'
  BY <1>1, <1>3, <1>6 DEF Spawn, OwnFile, Serving
<1>7. ASSUME NEW c \in Commands, StopRead(c) \/ \E action \in {"start", "status"} : IsRunning(c, action)
      PROVE  OwnFile(p)'
  BY <1>1, <1>3, <1>7 DEF StopRead, IsRunning, OwnFile, Serving
<1>8. ASSUME NEW q \in Daemons, BootStep(q), q # p PROVE mode'[p] \notin {"write", "ready", "dial", "up", "sleep"}
  <2>1. mode'[q] \in {"write", "ready", "dial"}
    BY <1>3, <1>8 DEF BootStep, TruncatePid, WritePid, Ready
  <2> QED BY <1>2, <1>8, <2>1 DEF Overlapped, Alive, Booting, Serving
<1>9. ASSUME BootStep(p) PROVE OwnFile(p)'
  BY <1>1, <1>3, <1>9 DEF BootStep, TruncatePid, WritePid, Ready, OwnFile, Serving
<1>10. ASSUME NEW q \in Daemons, DialOk(q) \/ ConnectionError(q) \/ Crash(q) \/ ServerClose(q) \/ Retry(q)
       PROVE  OwnFile(p)'
  BY <1>1, <1>3, <1>10 DEF DialOk, ConnectionError, Crash, ServerClose, Retry, Again, OwnFile, Serving
<1>11. ASSUME NEW q \in Daemons, StopStep(q), q # p PROVE mode'[p] \notin {"write", "ready", "dial", "up", "sleep"}
  <2>1. Alive(q) /\ mode'[p] = mode[p]
    BY <1>3, <1>11 DEF StopStep, StopClose, StopClosed
  <2> QED BY <1>2, <1>11, <2>1 DEF Overlapped, Alive, Booting, Serving
<1>12. ASSUME StopStep(p) PROVE OwnFile(p)'
  BY <1>3, <1>12 DEF StopStep, StopClose, StopClosed, OwnFile, Serving
<1> QED BY <1>4, <1>5, <1>6, <1>7, <1>8, <1>9, <1>10, <1>11, <1>12 DEF DaemonStep, CommandStep, OwnFile, Serving

\* Every step of the daemon keeps the invariant.
LEMMA DaemonInvStep == DaemonInv /\ [DaemonNext]_daemonVars => DaemonInv'
<1> SUFFICES ASSUME DaemonInv, [DaemonNext]_daemonVars PROVE DaemonInv'
  OBVIOUS
<1>1. CASE DaemonNext
  <2>1. DaemonStep /\ contended \subseteq contended' /\ \A p \in Daemons : Overlapped(p)' => p \in contended'
    BY <1>1 DEF DaemonNext, Noted
  <2>2. OverlapsNoted'
    BY <2>1 DEF OverlapsNoted
  <2> QED BY <2>1, <2>2, DaemonTypesStep, OwnFileStep DEF DaemonInv
<1>2. CASE UNCHANGED daemonVars
  BY <1>2 DEF daemonVars, DaemonInv, DaemonTypes, StopsOnce, OverlapsNoted, OwnFile, Overlapped, Alive, Booting, Serving
<1> QED BY <1>1, <1>2

\* The PID file names the daemon that serves and was not asked to stop, whatever commands start, stop and query daemons and
\* wherever these are killed, unless another daemon or a removal already decided upon overlapped it.
THEOREM DaemonIsFound == DaemonSafety => []RunningIsFound
<1>1. DaemonInit => DaemonInv
  BY DEF DaemonInit, DaemonInv, DaemonTypes, StopsOnce, OverlapsNoted, OwnFile, Overlapped, Alive, Booting, Serving
<1>2. DaemonInv => RunningIsFound
  BY DEF DaemonInv, OwnFile, RunningIsFound
<1> QED BY <1>1, <1>2, DaemonInvStep, PTL DEF DaemonSafety
=============================================================================
