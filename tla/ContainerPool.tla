---------------------------- MODULE ContainerPool ----------------------------
(***************************************************************************)
(* ContainerPool of executor/container.py: warm containers are handed out  *)
(* by image, given back, and destroyed when the pool is full.              *)
(*                                                                         *)
(* acquire, warmup and release up to the destruction run without giving up *)
(* the loop.  That a user gives back what it holds, once, or never, is an  *)
(* assumption on the pool's users, of which the program has none yet:      *)
(* release does not know who calls it, and a second release of an id that  *)
(* has another user by then would share the container.  A container's name *)
(* is new whenever one is created; in the model a name is free again once  *)
(* the pool has nothing to do with it.                                     *)
(***************************************************************************)
EXTENDS Naturals, Sequences, FiniteSets

CONSTANTS Containers,  \* container names
          Images,       \* image and GPU flag
          KindOf,      \* of each container
          Warm,        \* the kind warmup creates
          Users,
          NoContainer,
          PoolSize,    \* ContainerPool.pool_size
          MaxWarmups   \* a bound on the calls of warmup

ASSUME ContainerAssumption == NoContainer \notin Containers /\ KindOf \in [Containers -> Images]
ASSUME PoolAssumption == PoolSize \in Nat /\ MaxWarmups \in Nat

VARIABLES
  available,   \* ContainerPool._available
  inUse,       \* the keys of ContainerPool._in_use
  destroying,  \* containers that docker rm is running for
  held,        \* the container each user has
  warmups      \* calls of warmup so far

poolVars == <<available, inUse, destroying, held, warmups>>

Listed == {available[i] : i \in DOMAIN available}
Unknown == Containers \ (Listed \union inUse \union destroying)

PoolInit ==
  /\ available = << >>
  /\ inUse = {}
  /\ destroying = {}
  /\ held = [u \in Users |-> NoContainer]
  /\ warmups = 0

\* A mutation: the container stays in the list.
TakeKeeps(i) == available

\* list.pop(i)
Take(i) == SubSeq(available, 1, i - 1) \o SubSeq(available, i + 1, Len(available))

Hand(u, c) ==
  /\ inUse' = inUse \union {c}
  /\ held' = [held EXCEPT ![u] = c]
  /\ UNCHANGED <<destroying, warmups>>

\* acquire finds a container of the kind: the first one in the list.
AcquireWarm(u, k) ==
  /\ held[u] = NoContainer
  /\ \E i \in DOMAIN available :
       /\ KindOf[available[i]] = k
       /\ \A j \in 1 .. i - 1 : KindOf[available[j]] # k
       /\ available' = Take(i)
       /\ Hand(u, available[i])

\* acquire finds none and creates one.
AcquireNew(u, k) ==
  /\ held[u] = NoContainer
  /\ \A c \in Listed : KindOf[c] # k
  /\ \E c \in Unknown : KindOf[c] = k /\ Hand(u, c)
  /\ UNCHANGED available

Room == Len(available) < PoolSize

\* release: the container is kept while there is room, destroyed otherwise.
Release(u) ==
  /\ held[u] # NoContainer
  /\ inUse' = inUse \ {held[u]}
  /\ IF Room
     THEN available' = Append(available, held[u]) /\ UNCHANGED destroying
     ELSE destroying' = destroying \union {held[u]} /\ UNCHANGED available
  /\ held' = [held EXCEPT ![u] = NoContainer]
  /\ UNCHANGED warmups

\* docker rm -f is over.
Destroyed(c) ==
  /\ c \in destroying
  /\ destroying' = destroying \ {c}
  /\ UNCHANGED <<available, inUse, held, warmups>>

\* warmup creates a container for each of the first pool_size common images, of
\* which there is one; it does not look at what the pool holds.
Warmup ==
  /\ warmups < MaxWarmups
  /\ warmups' = warmups + 1
  /\ IF PoolSize = 0 THEN UNCHANGED available
     ELSE \E c \in Unknown : KindOf[c] = Warm /\ available' = Append(available, c)
  /\ UNCHANGED <<inUse, destroying, held>>

PoolNext ==
  \/ Warmup
  \/ \E c \in Containers : Destroyed(c)
  \/ \E u \in Users :
       Release(u) \/ \E k \in Images : AcquireWarm(u, k) \/ AcquireNew(u, k)

PoolSpec == PoolInit /\ [][PoolNext]_poolVars

-----------------------------------------------------------------------------

\* The pool's state is well typed.
PoolTypeOK ==
  /\ available \in Seq(Containers)
  /\ inUse \subseteq Containers
  /\ destroying \subseteq Containers
  /\ held \in [Users -> Containers \union {NoContainer}]
  /\ warmups \in 0 .. MaxWarmups

\* No container has two users, and none is handed out while it is in the list, or
\* listed twice, or being destroyed, through any order of acquire, release and warmup.
NotShared ==
  /\ \A u, v \in Users : u # v /\ held[u] = held[v] => held[u] = NoContainer
  /\ \A u \in Users : held[u] # NoContainer => held[u] \in inUse
  /\ \A i, j \in DOMAIN available : i # j => available[i] # available[j]
  /\ Listed \intersect inUse = {} /\ Listed \intersect destroying = {} /\ inUse \intersect destroying = {}

\* Releases never fill the pool beyond pool_size: the list is longer only by what
\* warmup added without looking.
PoolBounded == Len(available) <= PoolSize + warmups

\* The pool hands a container to one user at a time, and keeps no more than it may.
PoolSafe == NotShared /\ PoolBounded
=============================================================================
