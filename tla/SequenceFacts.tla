--------------------------- MODULE SequenceFacts ---------------------------
(***************************************************************************)
(* What several of the proofs need to know of lists: what is left of one   *)
(* when the element at a position is taken out (list.pop(i), del), what an *)
(* append adds, that a set of positions has a first one, and what follows  *)
(* from that: induction over the positions, and that a loop over them,     *)
(* which a recursive function describes, has a value at each of them.      *)
(***************************************************************************)
EXTENDS Integers, SequenceTheorems, WellFoundedInduction, TLAPS

\* The list without the element at position i.
Popped(q, i) == SubSeq(q, 1, i - 1) \o SubSeq(q, i + 1, Len(q))

\* Taking out an element leaves every other one, once, in its order.
LEMMA PoppedFacts ==
  ASSUME NEW S, NEW q \in Seq(S), NEW i \in DOMAIN q
  PROVE  /\ Popped(q, i) \in Seq(S)
         /\ Len(Popped(q, i)) = Len(q) - 1
         /\ \A j \in 1 .. Len(q) - 1 : Popped(q, i)[j] = IF j < i THEN q[j] ELSE q[j + 1]
<1> DEFINE n == Len(q)
           L == SubSeq(q, 1, i - 1)
           R == SubSeq(q, i + 1, n)
<1>1. n \in Nat /\ i \in 1 .. n /\ DOMAIN q = 1 .. n /\ \A j \in 1 .. n : q[j] \in S
  OBVIOUS
<1>2. L \in Seq(S) /\ Len(L) = i - 1 /\ \A j \in 1 .. i - 1 : L[j] = q[j]
  BY <1>1
<1>3. R \in Seq(S) /\ Len(R) = n - i /\ \A j \in 1 .. n - i : R[j] = q[i + j]
  <2>1. /\ R \in Seq(S)
        /\ Len(R) = IF i + 1 <= n THEN n - (i + 1) + 1 ELSE 0
        /\ \A j \in 1 .. n - (i + 1) + 1 : R[j] = q[(i + 1) + j - 1]
    <3>1. i + 1 \in Int /\ n \in Int /\ \A j \in i + 1 .. n : q[j] \in S
      BY <1>1
    <3> QED
      BY <3>1, SubSeqProperties
  <2>2. /\ n - (i + 1) + 1 = n - i
        /\ \A j \in 1 .. n - i : (i + 1) + j - 1 = i + j
        /\ ~ (i + 1 <= n) => n - i = 0
    BY <1>1
  <2> QED
    BY <2>1, <2>2
<1> HIDE DEF L, R
<1>4. Popped(q, i) = L \o R
  BY DEF Popped, L, R
<1>5. /\ L \o R \in Seq(S)
      /\ Len(L \o R) = Len(L) + Len(R)
      /\ \A j \in 1 .. Len(L) + Len(R) :
           (L \o R)[j] = IF j <= Len(L) THEN L[j] ELSE R[j - Len(L)]
  BY <1>2, <1>3, ConcatProperties
<1>6. Len(L) + Len(R) = n - 1
  BY <1>1, <1>2, <1>3
<1>7. ASSUME NEW j \in 1 .. n - 1
      PROVE  (L \o R)[j] = IF j < i THEN q[j] ELSE q[j + 1]
  <2>1. CASE j < i
    BY <1>1, <1>2, <1>3, <1>5, <2>1
  <2>2. CASE ~ (j < i)
    <3>1. i \in Int /\ n \in Int /\ j \in Int /\ 1 <= i /\ i <= n /\ i <= j /\ j <= n - 1
      BY <1>1, <2>2
    <3>2. Len(L) = i - 1 /\ Len(R) = n - i
      BY <1>2, <1>3
    <3>3. j - (i - 1) \in 1 .. n - i /\ i + (j - (i - 1)) = j + 1
      BY <3>1
    <3>4. ~ (j <= i - 1) /\ j \in 1 .. (i - 1) + (n - i)
      BY <3>1
    <3>5. j - Len(L) \in 1 .. n - i /\ i + (j - Len(L)) = j + 1 /\ ~ (j <= Len(L))
          /\ j \in 1 .. Len(L) + Len(R)
      BY <3>2, <3>3, <3>4
    <3>6. (L \o R)[j] = R[j - Len(L)]
      BY <1>5, <3>5
    <3> QED
      BY <1>3, <2>2, <3>5, <3>6
  <2> QED
    BY <2>1, <2>2
<1> QED
  BY <1>1, <1>4, <1>5, <1>6, <1>7

\* Each element that is left was in the list, at another position than the one taken out,
\* and no two of them at the same.
LEMMA PoppedFrom ==
  ASSUME NEW S, NEW q \in Seq(S), NEW i \in DOMAIN q
  PROVE  \E from \in [DOMAIN Popped(q, i) -> DOMAIN q \ {i}] :
            /\ \A j \in DOMAIN Popped(q, i) : Popped(q, i)[j] = q[from[j]]
            /\ \A j, k \in DOMAIN Popped(q, i) : from[j] = from[k] => j = k
            /\ \A k \in DOMAIN q \ {i} : \E j \in DOMAIN Popped(q, i) : from[j] = k
<1> DEFINE r == Popped(q, i)
           from == [j \in DOMAIN r |-> IF j < i THEN j ELSE j + 1]
<1>1. Len(q) \in Nat /\ i \in 1 .. Len(q) /\ DOMAIN q = 1 .. Len(q)
  OBVIOUS
<1>2. DOMAIN r = 1 .. Len(q) - 1 /\ \A j \in 1 .. Len(q) - 1 : r[j] = IF j < i THEN q[j] ELSE q[j + 1]
  BY PoppedFacts
<1> HIDE DEF r
<1>3. from \in [DOMAIN r -> DOMAIN q \ {i}]
  BY <1>1, <1>2
<1>4. \A j \in DOMAIN r : r[j] = q[from[j]]
  BY <1>1, <1>2
<1>5. \A j, k \in DOMAIN r : from[j] = from[k] => j = k
  BY <1>1, <1>2
<1>6. ASSUME NEW k \in DOMAIN q \ {i} PROVE \E j \in DOMAIN r : from[j] = k
  <2>1. CASE k < i
    <3>1. k \in DOMAIN r /\ from[k] = k
      BY <1>1, <1>2, <2>1
    <3> QED BY <3>1
  <2>2. CASE k > i
    <3>1. k - 1 \in DOMAIN r /\ from[k - 1] = k
      BY <1>1, <1>2, <2>2
    <3> QED BY <3>1
  <2> QED BY <1>1, <2>1, <2>2
<1> QED BY <1>3, <1>4, <1>5, <1>6 DEF r

\* An append adds its element at the end.
LEMMA AppendedFacts ==
  ASSUME NEW S, NEW q \in Seq(S), NEW e \in S
  PROVE  /\ Append(q, e) \in Seq(S) /\ Append(q, e) # << >>
         /\ Len(q) \in Nat /\ Len(Append(q, e)) = Len(q) + 1
         /\ DOMAIN Append(q, e) = DOMAIN q \union {Len(q) + 1} /\ Len(q) + 1 \notin DOMAIN q
         /\ \A i \in DOMAIN Append(q, e) : Append(q, e)[i] = IF i \in DOMAIN q THEN q[i] ELSE e
<1>1. Len(q) \in Nat /\ DOMAIN q = 1 .. Len(q)
  OBVIOUS
<1>2. /\ Append(q, e) \in Seq(S) /\ Append(q, e) # << >> /\ Len(Append(q, e)) = Len(q) + 1
      /\ \A i \in 1 .. Len(q) : Append(q, e)[i] = q[i]
      /\ Append(q, e)[Len(q) + 1] = e
  BY AppendProperties
<1>3. DOMAIN Append(q, e) = 1 .. Len(q) + 1
  BY <1>2
<1> QED BY <1>1, <1>2, <1>3

\* A non-empty set of positions has a first one.
LEMMA FirstPosition ==
  ASSUME NEW T \in SUBSET Nat, T # {}
  PROVE  \E x \in T : \A y \in T : x <= y
<1> DEFINE R == OpToRel(<, Nat)
<1>1. IsWellFoundedOn(R, Nat)
  BY NatLessThanWellFounded
<1>2. PICK x \in T : \A y \in T : ~ (<<y, x>> \in R)
  <2> HIDE DEF R
  <2> QED
    BY <1>1, WFMin
<1>3. \A y \in T : ~ (y < x)
  BY <1>2 DEF OpToRel
<1> QED
  BY <1>3

\* Induction up to n, over a set of numbers.
LEMMA Upwards ==
  ASSUME NEW n \in Nat, NEW G, 0 \in G, \A m \in 0 .. n - 1 : m \in G => m + 1 \in G
  PROVE  0 .. n \subseteq G
<1> DEFINE Bad == (0 .. n) \ G
<1>1. SUFFICES ASSUME Bad # {} PROVE FALSE
  OBVIOUS
<1>2. Bad \in SUBSET Nat
  OBVIOUS
<1>3. PICK m \in Bad : \A k \in Bad : m <= k
  <2> HIDE DEF Bad
  <2> QED BY <1>1, <1>2, FirstPosition
<1>4. m \in 0 .. n /\ m # 0 /\ m \notin G
  BY <1>3
<1>5. m - 1 \in 0 .. n - 1 /\ ~(m <= m - 1) /\ (m - 1) + 1 = m /\ m - 1 \in 0 .. n
  BY <1>4
<1>6. m - 1 \in G
  BY <1>3, <1>5
<1> QED BY <1>4, <1>5, <1>6

\* The values of a loop over n positions, from a start value on.
Trace(f, V, base, n, step) ==
  /\ f \in [0 .. n -> V]
  /\ f[0] = base
  /\ \A i \in 1 .. n : f[i] = step[<<f[i - 1], i>>]

\* Every such loop has a trace.
LEMMA LoopTrace ==
  ASSUME NEW V, NEW base \in V, NEW n \in Nat, NEW step \in [V \X (1 .. n) -> V]
  PROVE  \E f : Trace(f, V, base, n, step)
<1> DEFINE Good(m) == \E f \in [0 .. m -> V] : f[0] = base /\ \A i \in 1 .. m : f[i] = step[<<f[i - 1], i>>]
           G == {m \in 0 .. n : Good(m)}
<1>1. 0 \in G
  <2> DEFINE f == [i \in 0 .. 0 |-> base]
  <2>1. f \in [0 .. 0 -> V] /\ f[0] = base
    OBVIOUS
  <2>2. \A i \in 1 .. 0 : FALSE
    OBVIOUS
  <2>a. \A i \in 1 .. 0 : f[i] = step[<<f[i - 1], i>>]
    BY <2>2
  <2> HIDE DEF f
  <2>3. Good(0)
    BY <2>1, <2>a
  <2> QED BY <2>3
<1>2. ASSUME NEW m \in 0 .. n - 1, m \in G PROVE m + 1 \in G
  <2>1. m + 1 \in 1 .. n /\ m \in Nat
    OBVIOUS
  <2>2. PICK f \in [0 .. m -> V] : f[0] = base /\ \A i \in 1 .. m : f[i] = step[<<f[i - 1], i>>]
    BY <1>2
  <2> DEFINE next == step[<<f[m], m + 1>>]
             g == [i \in 0 .. m + 1 |-> IF i = m + 1 THEN next ELSE f[i]]
  <2>3. f[m] \in V /\ next \in V
    BY <2>1, <2>2
  <2> HIDE DEF next
  <2>4. g \in [0 .. m + 1 -> V] /\ g[0] = base /\ g[m + 1] = next /\ \A i \in 0 .. m : g[i] = f[i]
    BY <2>1, <2>2, <2>3
  <2> HIDE DEF g
  <2>5. ASSUME NEW i \in 1 .. m + 1 PROVE g[i] = step[<<g[i - 1], i>>]
    <3>1. CASE i = m + 1
      <4>1. i - 1 = m /\ m \in 0 .. m
        BY <2>1, <3>1
      <4>2. g[i - 1] = f[m] /\ g[i] = next
        BY <2>4, <3>1, <4>1
      <4> QED BY <3>1, <4>2 DEF next
    <3>2. CASE i # m + 1
      <4>1. i \in 1 .. m /\ i - 1 \in 0 .. m /\ i \in 0 .. m
        BY <2>1, <3>2
      <4>2. g[i] = f[i] /\ g[i - 1] = f[i - 1]
        BY <2>4, <4>1
      <4> QED BY <2>2, <4>1, <4>2
    <3> QED BY <3>1, <3>2
  <2>6. Good(m + 1)
    BY <2>4, <2>5
  <2> QED BY <2>1, <2>6
<1>3. 0 .. n \subseteq G
  <2> HIDE DEF G
  <2> QED BY <1>1, <1>2, Upwards
<1>4. Good(n)
  <2>1. n \in G
    BY <1>3
  <2> QED BY <2>1
<1> QED BY <1>4 DEF Trace
=============================================================================
