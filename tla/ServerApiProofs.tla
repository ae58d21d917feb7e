-------------------------- MODULE ServerApiProofs ---------------------------
(***************************************************************************)
(* The server's API for every number of clients, requests and builds, any  *)
(* limit and window: the rate limiter, and the build requests it lets      *)
(* through.                                                                *)
(***************************************************************************)
EXTENDS ServerApi, FiniteSetTheorems, SequenceFacts

-----------------------------------------------------------------------------
(* The rate limiter.                                                       *)

\* The inductive invariant.
LimiterInv ==
  /\ LimiterTypeOK
  /\ IsFiniteSet(granted)
  /\ OnFile
  /\ WithinLimit

\* What one check does to one list, and what is added to granted.
LEMMA CheckTypeOK ==
  ASSUME LimiterTypeOK,
         NEW c \in Clients, NEW k \in Kinds, NEW r \in Requests, Check(c, k, r)
  PROVE  LimiterTypeOK'
<1>1. keys' \subseteq Clients
  BY DEF Check, KeysAfter, LimiterTypeOK
<1>2. windows' \in [Clients -> SUBSET Requests]
  BY DEF Check, Fresh, LimiterTypeOK
<1>3. \A x \in Clients \ keys' : windows'[x] = {}
  <2>. SUFFICES ASSUME NEW x \in Clients, x \notin keys'
                PROVE  windows'[x] = {}
    OBVIOUS
  <2>1. x # c /\ (x \in keys => x \in Pruned(c))
    BY DEF Check, KeysAfter
  <2>. QED
    BY <2>1 DEF Check, LimiterTypeOK
<1>4. age' \in [Requests -> 0 .. Window]
  BY WindowAssumption DEF Check, LimiterTypeOK
<1>5. granted' \subseteq Requests
  BY DEF Check, LimiterTypeOK
<1>6. from' \in [Requests -> Clients] /\ kind' \in [Requests -> Kinds]
  BY DEF Check, LimiterTypeOK
<1>. QED
  BY <1>1, <1>2, <1>3, <1>4, <1>5, <1>6 DEF LimiterTypeOK

\* Cleaning, pruning and stamping keep the lists in step with what was granted.
LEMMA CheckOnFile ==
  ASSUME LimiterTypeOK, OnFile,
         NEW c \in Clients, NEW k \in Kinds, NEW r \in Requests, Check(c, k, r)
  PROVE  OnFile'
<1>. SUFFICES ASSUME NEW x \in Clients
              PROVE  {q \in granted' : from'[q] = x} = {q \in windows'[x] : age'[q] < Window}
  BY DEF OnFile, Fresh
<1>1. {q \in granted : from[q] = x} = {q \in windows[x] : age[q] < Window}
  BY DEF OnFile, Fresh
<1>2. r \notin granted /\ r \notin windows[x]
  BY DEF Check
<1>3. windows[x] \subseteq Requests /\ granted \subseteq Requests
  BY DEF LimiterTypeOK
<1>4. windows'[x] = IF x = c
                    THEN IF Allowed(c, k) THEN {q \in windows[x] : age[q] < Window} \union {r}
                                          ELSE {q \in windows[x] : age[q] < Window}
                    ELSE IF x \in Pruned(c) THEN {} ELSE windows[x]
  BY DEF Check, Fresh
<1>5. x \in Pruned(c) => {q \in windows[x] : age[q] < Window} = {}
  BY DEF Pruned, Fresh
<1>6. CASE Allowed(c, k)
  <2>1. /\ granted' = granted \union {r}
        /\ from'[r] = c /\ age'[r] = 0
        /\ \A q \in Requests \ {r} : from'[q] = from[q] /\ age'[q] = age[q]
    BY <1>6 DEF Check, LimiterTypeOK
  <2>2. 0 < Window
    BY WindowAssumption
  <2>3. CASE x = c
    BY <1>1, <1>2, <1>3, <1>4, <1>6, <2>1, <2>2, <2>3
  <2>4. CASE x # c /\ x \in Pruned(c)
    BY <1>1, <1>2, <1>3, <1>4, <1>5, <2>1, <2>4
  <2>5. CASE x # c /\ x \notin Pruned(c)
    BY <1>1, <1>2, <1>3, <1>4, <2>1, <2>5
  <2>. QED
    BY <2>3, <2>4, <2>5
<1>7. CASE ~ Allowed(c, k)
  <2>1. granted' = granted /\ from' = from /\ age' = age
    BY <1>7 DEF Check
  <2>. QED
    BY <1>1, <1>4, <1>5, <1>7, <2>1
<1>. QED
  BY <1>6, <1>7

\* A granted request finds room under its own limit: the requests of its kind
\* are among the stamps that were counted.
LEMMA CheckWithinLimit ==
  ASSUME LimiterInv,
         NEW c \in Clients, NEW k \in Kinds, NEW r \in Requests, Check(c, k, r)
  PROVE  IsFiniteSet(granted') /\ WithinLimit'
<1>. USE DEF LimiterInv
<1>1. CASE ~ Allowed(c, k)
  BY <1>1 DEF Check, WithinLimit
<1>2. CASE Allowed(c, k)
  <2>1. /\ granted' = granted \union {r}
        /\ from'[r] = c /\ kind'[r] = k
        /\ \A q \in Requests \ {r} : from'[q] = from[q] /\ kind'[q] = kind[q]
    BY <1>2 DEF Check, LimiterTypeOK
  <2>2. r \notin granted /\ granted \subseteq Requests
    BY DEF Check, LimiterTypeOK
  <2>3. IsFiniteSet(granted')
    BY <2>1, FS_AddElement
  <2>4. ASSUME NEW d \in Clients, NEW l \in Kinds
        PROVE  Cardinality({q \in granted' : from'[q] = d /\ kind'[q] = l}) <= LimitOf[l]
    <3>. DEFINE Old == {q \in granted : from[q] = d /\ kind[q] = l}
    <3>1. Cardinality(Old) <= LimitOf[l]
      BY DEF WithinLimit
    <3>2. CASE d = c /\ l = k
      <4>. DEFINE Counted == {q \in granted : from[q] = c}
      <4>1. Counted = Fresh(windows[c])
        BY DEF OnFile
      <4>2. IsFiniteSet(Counted) /\ Cardinality(Counted) < LimitOf[k]
        <5>1. IsFiniteSet(Counted)
          BY FS_Subset
        <5>. QED
          BY <1>2, <4>1, <5>1 DEF Allowed
      <4>3. IsFiniteSet(Old) /\ Cardinality(Old) <= Cardinality(Counted)
        <5>1. Old \in SUBSET Counted
          BY <3>2
        <5>. QED
          BY <4>2, <5>1, FS_Subset
      <4>4. {q \in granted' : from'[q] = d /\ kind'[q] = l} = Old \union {r}
        BY <2>1, <2>2, <3>2
      <4>5. Cardinality(Old \union {r}) <= Cardinality(Old) + 1
        <5>1. Cardinality(Old) \in Nat
          BY <4>3, FS_CardinalityType
        <5>2. Cardinality(Old \union {r}) = IF r \in Old THEN Cardinality(Old) ELSE Cardinality(Old) + 1
          BY <4>3, FS_AddElement
        <5>. QED
          BY <5>1, <5>2
      <4>6. /\ Cardinality(Old) \in Nat /\ Cardinality(Counted) \in Nat
            /\ Cardinality(Old \union {r}) \in Nat /\ LimitOf[k] \in Nat
        BY <4>2, <4>3, FS_CardinalityType, FS_AddElement, LimitAssumption
      <4>7. Cardinality(Old \union {r}) <= LimitOf[k]
        <5>. HIDE DEF Old, Counted
        <5>. QED
          BY <4>2, <4>3, <4>5, <4>6
      <4>. QED
        BY <3>2, <4>4, <4>7
    <3>3. CASE ~ (d = c /\ l = k)
      <4>1. {q \in granted' : from'[q] = d /\ kind'[q] = l} = Old
        BY <2>1, <2>2, <3>3
      <4>. QED
        BY <3>1, <4>1
    <3>. QED
      BY <3>2, <3>3
  <2>. QED
    BY <2>3, <2>4 DEF WithinLimit
<1>. QED
  BY <1>1, <1>2

\* Time only takes requests away, from the lists and from granted alike.
LEMMA TickInv ==
  ASSUME LimiterInv, Tick
  PROVE  LimiterInv'
<1>. USE DEF LimiterInv
<1>1. age' \in [Requests -> 0 .. Window]
  BY WindowAssumption DEF Tick, LimiterTypeOK
<1>2. LimiterTypeOK'
  BY <1>1 DEF Tick, LimiterTypeOK
<1>3. granted' \in SUBSET granted
  BY DEF Tick
<1>4. IsFiniteSet(granted')
  BY <1>3, FS_Subset
<1>5. OnFile'
  <2>. SUFFICES ASSUME NEW x \in Clients
                PROVE  {q \in granted' : from'[q] = x} = {q \in windows'[x] : age'[q] < Window}
    BY DEF OnFile, Fresh
  <2>1. {q \in granted : from[q] = x} = {q \in windows[x] : age[q] < Window}
    BY DEF OnFile, Fresh
  <2>2. \A q \in Requests : age'[q] < Window => age[q] < Window
    BY WindowAssumption DEF Tick, LimiterTypeOK
  <2>3. windows[x] \subseteq Requests /\ granted \subseteq Requests
    BY DEF LimiterTypeOK
  <2>. QED
    BY <2>1, <2>2, <2>3 DEF Tick
<1>6. WithinLimit'
  <2>. SUFFICES ASSUME NEW d \in Clients, NEW l \in Kinds
                PROVE  Cardinality({q \in granted' : from'[q] = d /\ kind'[q] = l}) <= LimitOf[l]
    BY DEF WithinLimit
  <2>. DEFINE Old == {q \in granted : from[q] = d /\ kind[q] = l}
              New == {q \in granted' : from'[q] = d /\ kind'[q] = l}
  <2>1. IsFiniteSet(Old)
    BY FS_Subset
  <2>2. New \in SUBSET Old
    BY DEF Tick
  <2>3. Cardinality(New) <= Cardinality(Old) /\ IsFiniteSet(New)
    BY <2>1, <2>2, FS_Subset
  <2>4. Cardinality(Old) <= LimitOf[l]
    BY DEF WithinLimit
  <2>5. Cardinality(Old) \in Nat /\ Cardinality(New) \in Nat /\ LimitOf[l] \in Nat
    BY <2>1, <2>3, FS_CardinalityType, LimitAssumption
  <2>. HIDE DEF Old, New
  <2>6. Cardinality(New) <= LimitOf[l]
    BY <2>3, <2>4, <2>5
  <2>. QED
    BY <2>6 DEF New
<1>. QED
  BY <1>2, <1>4, <1>5, <1>6

\* LimiterInv is an invariant of the limiter of server/auth/rate_limiter.py,
\* for any set of clients, limits and requests.
THEOREM LimiterInvariant == LimiterSpec => []LimiterInv
<1>1. LimiterInit => LimiterInv
  <2>. SUFFICES ASSUME LimiterInit PROVE LimiterInv
    OBVIOUS
  <2>1. LimiterTypeOK
    BY WindowAssumption DEF LimiterInit, LimiterTypeOK
  <2>2. IsFiniteSet(granted)
    BY FS_EmptySet DEF LimiterInit
  <2>3. OnFile
    BY WindowAssumption DEF LimiterInit, OnFile, Fresh
  <2>4. WithinLimit
    <3>. SUFFICES ASSUME NEW d \in Clients, NEW l \in Kinds
                  PROVE  Cardinality({q \in granted : from[q] = d /\ kind[q] = l}) <= LimitOf[l]
      BY DEF WithinLimit
    <3>1. {q \in granted : from[q] = d /\ kind[q] = l} = {}
      BY DEF LimiterInit
    <3>. QED
      BY <3>1, FS_EmptySet, LimitAssumption
  <2>. QED
    BY <2>1, <2>2, <2>3, <2>4 DEF LimiterInv
<1>2. LimiterInv /\ [LimiterNext]_limiterVars => LimiterInv'
  <2>. SUFFICES ASSUME LimiterInv, [LimiterNext]_limiterVars PROVE LimiterInv'
    OBVIOUS
  <2>1. CASE Tick
    BY <2>1, TickInv
  <2>2. ASSUME NEW c \in Clients, NEW k \in Kinds, NEW r \in Requests, Check(c, k, r)
        PROVE  LimiterInv'
    BY <2>2, CheckTypeOK, CheckOnFile, CheckWithinLimit DEF LimiterInv
  <2>3. CASE UNCHANGED limiterVars
    BY <2>3 DEF limiterVars, LimiterInv, LimiterTypeOK, OnFile, Fresh, WithinLimit
  <2>. QED
    BY <2>1, <2>2, <2>3 DEF LimiterNext
<1>. QED
  BY <1>1, <1>2, PTL DEF LimiterSpec

\* The server implements the limiter: create_build, the executions and the
\* package queries each ask it once, and nothing else touches it.
THEOREM ServerIsLimiter == ServerSpec => LimiterSpec
<1>1. ServerInit => LimiterInit
  BY DEF ServerInit
<1>2. [ServerNext]_serverVars => [LimiterNext]_limiterVars
  <2>. SUFFICES ASSUME [ServerNext]_serverVars PROVE [LimiterNext]_limiterVars
    OBVIOUS
  <2>1. CASE Tick /\ UNCHANGED serviceVars
    BY <2>1 DEF LimiterNext
  <2>2. ASSUME NEW b \in Builds, CancelBuild(b)
        PROVE  UNCHANGED limiterVars
    BY <2>2 DEF CancelBuild
  <2>3. ASSUME NEW c \in Clients, NEW r \in Requests, NEW b \in Builds, CreateBuild(c, r, b)
        PROVE  LimiterNext
    BY <2>3, KindsAssumption DEF CreateBuild, LimiterNext
  <2>4. ASSUME NEW c \in Clients, NEW r \in Requests, NEW k \in Kinds, Ask(c, k, r)
        PROVE  LimiterNext
    BY <2>4 DEF Ask, LimiterNext
  <2>5. CASE UNCHANGED serverVars
    BY <2>5 DEF serverVars
  <2>. QED
    BY <2>1, <2>2, <2>3, <2>4, <2>5 DEF ServerNext
<1>. QED
  BY <1>1, <1>2, PTL DEF ServerSpec, LimiterSpec

\* The server grants no client more than LimitOf[k] requests of a kind within
\* any window.
THEOREM ServerWithinLimit == ServerSpec => []WithinLimit
<1>1. LimiterInv => WithinLimit
  BY DEF LimiterInv
<1>. QED
  BY <1>1, ServerIsLimiter, LimiterInvariant, PTL

\* The server has every granted request that still counts on file: pruning
\* idle clients and cleaning lists lose nothing.
THEOREM ServerOnFile == ServerSpec => []OnFile
<1>1. LimiterInv => OnFile
  BY DEF LimiterInv
<1>. QED
  BY <1>1, ServerIsLimiter, LimiterInvariant, PTL

\* A check of the server that leaves more than MaxKeys clients on record leaves
\* only clients with a request that counts, and the one it was made for.
THEOREM ServerPruneWorks == ServerSpec => PruneWorks
<1>1. ASSUME NEW c \in Clients, NEW k \in Kinds, NEW r \in Requests,
             Check(c, k, r), Cardinality(keys') > MaxKeys,
             NEW x \in keys' \ {c}
      PROVE  Fresh(windows[x]) # {}
  <2>1. Cardinality(keys \union {c}) > MaxKeys
    <3>. SUFFICES ASSUME ~ (Cardinality(keys \union {c}) > MaxKeys) PROVE FALSE
      OBVIOUS
    <3>1. Pruned(c) = {}
      BY DEF Pruned
    <3>2. keys' = keys \union {c}
      BY <1>1, <3>1 DEF Check, KeysAfter
    <3>. QED
      BY <1>1, <3>2
  <2>2. x \in keys \union {c} /\ x \notin Pruned(c)
    BY <1>1 DEF Check, KeysAfter
  <2>. QED
    BY <2>1, <2>2 DEF Pruned
<1>2. [\A c \in Clients, k \in Kinds, r \in Requests :
         Check(c, k, r) /\ Cardinality(keys') > MaxKeys
            => \A x \in keys' \ {c} : Fresh(windows[x]) # {}]_limiterVars
  BY <1>1
<1>. QED
  BY <1>2, PTL DEF PruneWorks

\* Together: for any number of clients, kinds and requests, any limits and any window, nobody
\* gets more than the limit, and the limiter's lists hold every request that counts.
THEOREM ServerLimitsKept == ServerSpec => []LimitsKept
BY ServerWithinLimit, ServerOnFile, PTL DEF LimitsKept

-----------------------------------------------------------------------------
(* Build requests.                                                         *)



\* list.remove takes one occurrence of b out of the list; whatever else was in
\* it still is.
LEMMA RemoveFirstFacts ==
  ASSUME NEW s \in Seq(Builds), NEW b, \E i \in DOMAIN s : s[i] = b
  PROVE  /\ RemoveFirst(s, b) \in Seq(Builds)
         /\ Len(RemoveFirst(s, b)) = Len(s) - 1
         /\ \A i \in 1 .. Len(s) : s[i] # b =>
               \E j \in 1 .. Len(s) - 1 : RemoveFirst(s, b)[j] = s[i]
<1>. DEFINE T == {n \in DOMAIN s : s[n] = b}
            First(n) == s[n] = b /\ \A m \in 1 .. n - 1 : s[m] # b
            i == CHOOSE n \in DOMAIN s : First(n)
            L == SubSeq(s, 1, i - 1)
            R == SubSeq(s, i + 1, Len(s))
<1>1. DOMAIN s = 1 .. Len(s) /\ Len(s) \in Nat
  OBVIOUS
<1>2. \E n \in DOMAIN s : First(n)
  <2>1. T \in SUBSET Nat /\ T # {}
    BY <1>1
  <2>2. PICK x \in T : \A y \in T : x <= y
    BY <2>1, FirstPosition
  <2>3. x \in 1 .. Len(s) /\ s[x] = b
    BY <1>1, <2>2
  <2>4. ASSUME NEW m \in 1 .. x - 1 PROVE s[m] # b
    <3>1. m \in DOMAIN s /\ m < x
      BY <1>1, <2>3
    <3>. QED
      BY <1>1, <2>2, <2>3, <3>1
  <2>. QED
    BY <1>1, <2>3, <2>4
<1>3. i \in 1 .. Len(s) /\ First(i)
  BY <1>1, <1>2
<1>. HIDE DEF i
<1>4. L \in Seq(Builds) /\ Len(L) = i - 1 /\ \A j \in 1 .. i - 1 : L[j] = s[j]
  BY <1>1, <1>3
<1>5. R \in Seq(Builds) /\ Len(R) = Len(s) - i /\ \A j \in 1 .. Len(s) - i : R[j] = s[i + j]
  <2>0. i \in Int /\ Len(s) \in Int /\ 1 <= i /\ i <= Len(s)
    BY <1>1, <1>3
  <2>1. /\ i + 1 \in Int /\ Len(s) \in Int
        /\ \A j \in i + 1 .. Len(s) : s[j] \in Builds
    BY <1>1, <1>3
  <2>2. /\ R \in Seq(Builds)
        /\ Len(R) = IF i + 1 <= Len(s) THEN Len(s) - (i + 1) + 1 ELSE 0
        /\ \A j \in 1 .. Len(s) - (i + 1) + 1 : R[j] = s[(i + 1) + j - 1]
    BY <2>1, SubSeqProperties
  <2>3. /\ Len(s) - (i + 1) + 1 = Len(s) - i
        /\ \A j \in 1 .. Len(s) - i : (i + 1) + j - 1 = i + j
        /\ ~ (i + 1 <= Len(s)) => Len(s) - i = 0
    BY <2>0
  <2>. HIDE DEF R
  <2>4. Len(R) = Len(s) - i
    BY <2>0, <2>2, <2>3
  <2>. QED
    BY <2>2, <2>3, <2>4
<1>6. RemoveFirst(s, b) = L \o R
  BY DEF RemoveFirst, i
<1>. HIDE DEF L, R
<1>7. /\ L \o R \in Seq(Builds)
      /\ Len(L \o R) = Len(s) - 1
      /\ \A j \in 1 .. i - 1 : (L \o R)[j] = L[j]
      /\ \A j \in 1 .. Len(s) - i : (L \o R)[i - 1 + j] = R[j]
  <2>1. /\ L \o R \in Seq(Builds)
        /\ Len(L \o R) = Len(L) + Len(R)
        /\ \A j \in 1 .. Len(L) + Len(R) :
              (L \o R)[j] = IF j <= Len(L) THEN L[j] ELSE R[j - Len(L)]
    BY <1>4, <1>5, ConcatProperties
  <2>2. Len(L) + Len(R) = Len(s) - 1
    BY <1>1, <1>3, <1>4, <1>5
  <2>3. ASSUME NEW j \in 1 .. i - 1 PROVE (L \o R)[j] = L[j]
    BY <1>1, <1>3, <1>4, <2>1, <2>2
  <2>4. ASSUME NEW j \in 1 .. Len(s) - i PROVE (L \o R)[i - 1 + j] = R[j]
    <3>1. /\ i - 1 + j \in 1 .. Len(s) - 1 /\ ~ (i - 1 + j <= i - 1)
          /\ (i - 1 + j) - (i - 1) = j
      BY <1>1, <1>3
    <3>. QED
      BY <1>4, <2>1, <2>2, <3>1
  <2>. QED
    BY <2>1, <2>2, <2>3, <2>4
<1>8. ASSUME NEW k \in 1 .. Len(s), s[k] # b
      PROVE  \E j \in 1 .. Len(s) - 1 : (L \o R)[j] = s[k]
  <2>1. CASE k < i
    <3>1. k \in 1 .. i - 1 /\ k \in 1 .. Len(s) - 1
      BY <1>1, <1>3, <2>1
    <3>. QED
      BY <1>4, <1>7, <3>1
  <2>2. CASE k > i
    <3>1. k - i \in 1 .. Len(s) - i /\ i - 1 + (k - i) = k - 1 /\ i + (k - i) = k
          /\ k - 1 \in 1 .. Len(s) - 1
      BY <1>1, <1>3, <2>2
    <3>2. (L \o R)[k - 1] = s[k]
      BY <1>5, <1>7, <3>1
    <3>. QED
      BY <3>1, <3>2
  <2>3. s[i] = b /\ i \in Int /\ k \in Int
    BY <1>1, <1>3
  <2>4. k < i \/ k > i
    BY <1>8, <2>3
  <2>. QED
    BY <2>1, <2>2, <2>4
<1>. QED
  BY <1>6, <1>7, <1>8

\* The service's part of the type invariant.
ServiceTypeOK ==
  /\ status \in [Builds -> {"none", "queued", "cancelled"}]
  /\ listed \in Seq(Builds) /\ Len(listed) <= MaxListed

\* The inductive invariant: QueuedIsListed needs nothing but the types.
ServiceInv == ServiceTypeOK /\ QueuedIsListed

\* submit_build appends the id it marks as queued.
LEMMA SubmitInv ==
  ASSUME ServiceInv, NEW b \in Builds, Len(listed) < MaxListed, SubmitBuild(b)
  PROVE  ServiceInv'
<1>. USE DEF ServiceInv, ServiceTypeOK
<1>1. /\ listed' \in Seq(Builds) /\ Len(listed') = Len(listed) + 1
      /\ listed'[Len(listed) + 1] = b
      /\ \A i \in 1 .. Len(listed) : listed'[i] = listed[i]
      /\ DOMAIN listed = 1 .. Len(listed) /\ DOMAIN listed' = 1 .. Len(listed) + 1
      /\ Len(listed) \in Nat
  BY DEF SubmitBuild
<1>2. ServiceTypeOK'
  BY <1>1, ListedAssumption DEF SubmitBuild
<1>3. ASSUME NEW d \in Builds, status'[d] = "queued"
      PROVE  \E i \in DOMAIN listed' : listed'[i] = d
  <2>1. CASE d = b
    BY <1>1, <2>1
  <2>2. CASE d # b
    <3>1. status[d] = "queued"
      BY <1>3, <2>2 DEF SubmitBuild
    <3>2. PICK i \in 1 .. Len(listed) : listed[i] = d
      BY <1>1, <3>1 DEF QueuedIsListed
    <3>. QED
      BY <1>1, <3>2
  <2>. QED
    BY <2>1, <2>2
<1>. QED
  BY <1>2, <1>3 DEF QueuedIsListed

\* cancel_build may leave an id in the list that is cancelled, never the other
\* way round.
LEMMA CancelInv ==
  ASSUME ServiceInv, NEW b \in Builds, CancelBuild(b)
  PROVE  ServiceInv'
<1>. USE DEF ServiceInv, ServiceTypeOK
<1>1. /\ status' \in [Builds -> {"none", "queued", "cancelled"}]
      /\ \A d \in Builds : status'[d] = "queued" => d # b /\ status[d] = "queued"
  BY DEF CancelBuild
<1>2. CASE \E i \in DOMAIN listed : listed[i] = b
  <2>1. listed' = RemoveFirst(listed, b)
    BY <1>2 DEF CancelBuild
  <2>2. /\ listed' \in Seq(Builds) /\ Len(listed') = Len(listed) - 1
        /\ \A i \in 1 .. Len(listed) : listed[i] # b =>
              \E j \in 1 .. Len(listed) - 1 : listed'[j] = listed[i]
    BY <1>2, <2>1, RemoveFirstFacts
  <2>3. /\ DOMAIN listed = 1 .. Len(listed) /\ Len(listed) \in Nat
        /\ DOMAIN listed' = 1 .. Len(listed')
    BY <2>2
  <2>4. ServiceTypeOK'
    BY <1>1, <2>2, <2>3, ListedAssumption
  <2>5. ASSUME NEW d \in Builds, status'[d] = "queued"
        PROVE  \E j \in DOMAIN listed' : listed'[j] = d
    <3>1. d # b /\ status[d] = "queued"
      BY <1>1, <2>5
    <3>2. PICK i \in 1 .. Len(listed) : listed[i] = d
      BY <2>3, <3>1 DEF QueuedIsListed
    <3>. QED
      BY <2>2, <2>3, <3>1, <3>2
  <2>. QED
    BY <2>4, <2>5 DEF QueuedIsListed
<1>3. CASE ~ \E i \in DOMAIN listed : listed[i] = b
  <2>1. listed' = listed
    BY <1>3 DEF CancelBuild
  <2>. QED
    BY <1>1, <2>1 DEF QueuedIsListed
<1>. QED
  BY <1>2, <1>3

\* ServiceInv is an invariant of the server: only create_build and cancel_build
\* touch the service.
THEOREM ServiceInvariant == ServerSpec => []ServiceInv
<1>1. ServerInit => ServiceInv
  BY ListedAssumption DEF ServerInit, ServiceInv, ServiceTypeOK, QueuedIsListed
<1>2. ServiceInv /\ [ServerNext]_serverVars => ServiceInv'
  <2>. SUFFICES ASSUME ServiceInv, [ServerNext]_serverVars PROVE ServiceInv'
    OBVIOUS
  <2>1. CASE UNCHANGED serviceVars
    BY <2>1 DEF serviceVars, ServiceInv, ServiceTypeOK, QueuedIsListed
  <2>2. ASSUME NEW b \in Builds, CancelBuild(b) PROVE ServiceInv'
    BY <2>2, CancelInv
  <2>3. ASSUME NEW c \in Clients, NEW r \in Requests, NEW b \in Builds, CreateBuild(c, r, b)
        PROVE  ServiceInv'
    <3>1. CASE Allowed(c, "build")
      BY <2>3, <3>1, SubmitInv DEF CreateBuild
    <3>2. CASE ~ Allowed(c, "build")
      BY <2>1, <2>3, <3>2 DEF CreateBuild
    <3>. QED
      BY <3>1, <3>2
  <2>4. ASSUME NEW c \in Clients, NEW r \in Requests, NEW k \in Kinds, Ask(c, k, r)
        PROVE  ServiceInv'
    BY <2>1, <2>4 DEF Ask
  <2>5. CASE UNCHANGED serverVars
    BY <2>1, <2>5 DEF serverVars
  <2>. QED
    BY <2>1, <2>2, <2>3, <2>4, <2>5 DEF ServerNext
<1>. QED
  BY <1>1, <1>2, PTL DEF ServerSpec

\* The state of the limiter and of the build service stays well typed; in
\* particular only keys of the limiter have stamps.
THEOREM ServerTypeCorrect == ServerSpec => []ServerTypeOK
<1>1. LimiterInv /\ ServiceInv => ServerTypeOK
  BY DEF LimiterInv, ServiceInv, ServiceTypeOK, ServerTypeOK
<1>. QED
  BY <1>1, ServerIsLimiter, LimiterInvariant, ServiceInvariant, PTL

\* A build that get_build shows as queued is in the service's queue.
THEOREM ServerQueuedIsListed == ServerSpec => []QueuedIsListed
<1>1. ServiceInv => QueuedIsListed
  BY DEF ServiceInv
<1>. QED
  BY <1>1, ServiceInvariant, PTL
=============================================================================
