---------------------------- MODULE RateLimiter ----------------------------
(***************************************************************************)
(* The sliding-window rate limiter of server/auth/rate_limiter.py.  All    *)
(* endpoints share one limiter and one list of time stamps per client, and *)
(* compare its length with limits of their own; all limits have the same   *)
(* window.                                                                 *)
(*                                                                         *)
(* A time stamp is the identity of the granted request that left it, and   *)
(* its age is the time since.  An age stops at Window, when the stamp no   *)
(* longer counts; the identity is free again once no list holds it.        *)
(***************************************************************************)
EXTENDS Naturals, FiniteSets

CONSTANTS Clients,   \* client keys
          Kinds,     \* the limits: DEFAULT_LIMIT, BUILD_LIMIT, EXEC_LIMIT
          LimitOf,   \* RateLimit.requests of each
          Window,    \* RateLimit.window_seconds, the same for all
          MaxKeys,   \* the number of keys beyond which check prunes: 1000
          Requests   \* identities of requests

ASSUME LimitAssumption == LimitOf \in [Kinds -> Nat]
ASSUME WindowAssumption == Window \in Nat \ {0}
ASSUME KeysAssumption == MaxKeys \in Nat

VARIABLES
  keys,     \* the keys of RateLimiter._windows
  windows,  \* its lists; empty for what is not a key
  age,      \* the age of each stamp
  granted,  \* the requests granted within the last Window
  from,     \* the client each of them came from
  kind      \* the limit it was held against

limiterVars == <<keys, windows, age, granted, from, kind>>

LimiterInit ==
  /\ keys = {}
  /\ windows = [c \in Clients |-> {}]
  /\ age = [r \in Requests |-> Window]
  /\ granted = {}
  /\ from \in [Requests -> Clients]
  /\ kind \in [Requests -> Kinds]
  /\ \A q, r \in Requests : from[q] = from[r] /\ kind[q] = kind[r]

\* [t for t in ... if t > window_start]: the stamps that still count.
Fresh(stamps) == {r \in stamps : age[r] < Window}

\* A mutation: only lists that are empty as they stand are pruned.
PrunedEmpty(c) ==
  IF Cardinality(keys \union {c}) > MaxKeys THEN {x \in keys : windows[x] = {}} ELSE {}

\* The keys check removes when there are too many: the ones without a stamp
\* that counts, which may be the client's own.
Pruned(c) ==
  IF Cardinality(keys \union {c}) > MaxKeys
  THEN {x \in keys \union {c} : Fresh(windows[x]) = {}}
  ELSE {}

\* The keys after check: the client's own, if it was pruned, is created anew
\* by the next look at its list.
KeysAfter(c) == ((keys \union {c}) \ Pruned(c)) \union {c}

\* A mutation: the client's own limit is reached one request later.
AllowedOneMore(c, k) == Cardinality(Fresh(windows[c])) <= LimitOf[k]

\* The decision of check: fewer stamps than the limit allows.
Allowed(c, k) == Cardinality(Fresh(windows[c])) < LimitOf[k]

\* RateLimiter.check: the client's list is cleaned, keys are pruned (the
\* client's own comes back right after), and a request that is granted
\* leaves a stamp.
Check(c, k, r) ==
  /\ r \notin granted /\ \A x \in Clients : r \notin windows[x]
  /\ keys' = KeysAfter(c)
  /\ windows' = [x \in Clients |->
        IF x = c THEN IF Allowed(c, k) THEN Fresh(windows[c]) \union {r} ELSE Fresh(windows[c])
        ELSE IF x \in Pruned(c) THEN {} ELSE windows[x]]
  /\ IF Allowed(c, k)
     THEN /\ granted' = granted \union {r}
          /\ from' = [from EXCEPT ![r] = c]
          /\ kind' = [kind EXCEPT ![r] = k]
          /\ age' = [age EXCEPT ![r] = 0]
     ELSE UNCHANGED <<granted, from, kind, age>>

\* Time passes.
Tick ==
  /\ age' = [r \in Requests |-> IF age[r] < Window THEN age[r] + 1 ELSE Window]
  /\ granted' = {r \in granted : age'[r] < Window}
  /\ UNCHANGED <<keys, windows, from, kind>>

LimiterNext == Tick \/ \E c \in Clients, k \in Kinds, r \in Requests : Check(c, k, r)

LimiterSpec == LimiterInit /\ [][LimiterNext]_limiterVars

-----------------------------------------------------------------------------

\* The state is well typed, and only keys have stamps.
LimiterTypeOK ==
  /\ keys \subseteq Clients
  /\ windows \in [Clients -> SUBSET Requests]
  /\ \A c \in Clients \ keys : windows[c] = {}
  /\ age \in [Requests -> 0 .. Window]
  /\ granted \subseteq Requests
  /\ from \in [Requests -> Clients]
  /\ kind \in [Requests -> Kinds]

\* Within any Window a client is granted at most LimitOf[k] requests of kind k,
\* although all kinds share one list, lists are cleaned only when
\* their client comes back, and keys are pruned by other clients' requests.
WithinLimit ==
  \A c \in Clients, k \in Kinds :
     Cardinality({r \in granted : from[r] = c /\ kind[r] = k}) <= LimitOf[k]

\* The limiter has every granted request that still counts on file under its
\* client, and nothing else that counts: cleaning and pruning lose nothing.
OnFile ==
  \A c \in Clients : {r \in granted : from[r] = c} = Fresh(windows[c])

\* What "Periodically prune empty keys to prevent memory leak" is for: a check that
\* leaves more than MaxKeys keys leaves only clients with a request that
\* counts, and the one it was made for.
PruneWorks ==
  [][\A c \in Clients, k \in Kinds, r \in Requests :
        Check(c, k, r) /\ Cardinality(keys') > MaxKeys
           => \A x \in keys' \ {c} : Fresh(windows[x]) # {}]_limiterVars

\* Nobody gets more than the limit, and the limiter knows about every request that counts.
LimitsKept == WithinLimit /\ OnFile
=============================================================================
