----------------------------- MODULE WheelCache -----------------------------
(***************************************************************************)
(* The local package cache, CacheManager of client/cache.py, as the cpip   *)
(* commands and the daemon share it: every process keeps the index it read *)
(* when it started, changes it, and writes it back to cache.json as a      *)
(* whole; the files themselves are in common directories.                  *)
(*                                                                         *)
(* An index is a sequence of entries, least recently used first, which is  *)
(* the order of their last_accessed times.  A file's content stands for    *)
(* its SHA-256 sum.  Operations run to completion within a process, unless *)
(* a call of the file system fails or a crash cuts them off.               *)
(***************************************************************************)
EXTENDS Integers, Sequences

CONSTANTS Procs,     \* processes using the cache
          Keys,      \* cache keys
          Layers,    \* the keys that are layers; the others are wheels
          Paths,     \* files and layer directories
          PathOf,    \* where the item of a key is kept
          SizeOf,    \* the size of what is kept at a path
          Contents,  \* file contents
          Dir,       \* that of a layer's directory, at which nothing looks
          NoFile,    \* "the path does not exist"
          MaxSize    \* max_size_mb

ASSUME CacheAssumption ==
  /\ Layers \subseteq Keys
  /\ PathOf \in [Keys -> Paths]
  /\ SizeOf \in [Paths -> Nat]
  /\ Paths # {}
  /\ Dir \in Contents /\ NoFile \notin Contents
  /\ MaxSize \in Nat

VARIABLES
  open,    \* the processes that have loaded the index
  index,   \* CacheManager._index of each process
  disk,    \* cache.json
  files,   \* the content at each path
  stored,  \* ghost: paths put in place by a completed store and not removed since
  unsaved, \* ghost: the processes whose index differs from what they last saved
  botched, \* ghost: paths where a copy or a removal has failed
  solo     \* ghost: no crash so far, never two processes at a time, and none that
           \* ended with its index unsaved

cacheVars == <<open, index, disk, files, stored, unsaved, botched, solo>>

\* An entry; that of a layer has no hash.
Entries == [key : Keys, path : Paths, hash : Contents \union {NoFile}]

CacheInit ==
  /\ open = {}
  /\ index = [p \in Procs |-> << >>]
  /\ disk = << >>
  /\ files = [f \in Paths |-> NoFile]
  /\ stored = {}
  /\ unsaved = {}
  /\ botched = {}
  /\ solo = TRUE

-----------------------------------------------------------------------------
(* Helpers on indexes. *)

\* _current_size_mb: the sizes of the entries, added up.
Total(ix) ==
  LET sum[i \in 0 .. Len(ix)] == IF i = 0 THEN 0 ELSE sum[i - 1] + SizeOf[ix[i].path]
  IN  sum[Len(ix)]

HasKey(ix, k) == \E i \in DOMAIN ix : ix[i].key = k
Position(ix, k) == CHOOSE i \in DOMAIN ix : ix[i].key = k
EntryOf(ix, k) == ix[Position(ix, k)]

\* The index without the key's entry: del, or what a dictionary store replaces.
Without(ix, k) ==
  IF HasKey(ix, k)
  THEN SubSeq(ix, 1, Position(ix, k) - 1) \o SubSeq(ix, Position(ix, k) + 1, Len(ix))
  ELSE ix

\* The entries of the index that are in the given set.
Only(ix, ok) ==
  LET kept[i \in 0 .. Len(ix)] ==
        IF i = 0 THEN << >>
        ELSE IF ix[i] \in ok THEN Append(kept[i - 1], ix[i]) ELSE kept[i - 1]
  IN  kept[Len(ix)]

Drop(ix, n) == SubSeq(ix, n + 1, Len(ix))
PathsOf(ix) == {ix[i].path : i \in DOMAIN ix}

\* The files after the given paths have been removed.
Unlinked(gone) == [f \in Paths |-> IF f \in gone THEN NoFile ELSE files[f]]

\* A mutation: the eviction leaves the cache full instead of 90% full.
EvictToFull(ix) ==
  CHOOSE n \in 0 .. Len(ix) :
    /\ Total(Drop(ix, n)) <= MaxSize
    /\ \A m \in 0 .. n - 1 : Total(Drop(ix, m)) > MaxSize

\* _maybe_evict: how many of the least recently used entries the loop drops,
\* one at a time until the rest takes no more than 90% of the limit.
EvictCount(ix) ==
  CHOOSE n \in 0 .. Len(ix) :
    /\ 10 * Total(Drop(ix, n)) <= 9 * MaxSize
    /\ \A m \in 0 .. n - 1 : 10 * Total(Drop(ix, m)) > 9 * MaxSize

\* A mutation: the evicted entries stay, only their files go.
KeptAll(ix) == ix

\* The entries that survive the eviction.
Kept(ix) == Drop(ix, EvictCount(ix))

\* The paths the evicted entries name: their files are removed, but for layers whose
\* rmtree(ignore_errors=True) has failed.
Evicted(ix) == PathsOf(SubSeq(ix, 1, EvictCount(ix)))
EvictedLayers(ix) == {f \in Evicted(ix) : \E i \in 1 .. EvictCount(ix) : ix[i].path = f /\ ix[i].key \in Layers}

\* What can be at the path of a key.
Fits(k, c) == k \in Layers <=> c = Dir

\* The ghosts are kept while processes take turns.
Recorded(S) == IF solo THEN S ELSE {}

\* _save_index: an error is ignored, and leaves cache.json as it was, as an earlier save of
\* the same operation left it, or truncated, which is an empty index to who loads it.
Save(p, ix, earlier) ==
  /\ index' = [index EXCEPT ![p] = ix]
  /\ \/ disk' = ix /\ unsaved' = Recorded(unsaved \ {p})
     \/ disk' \in {disk, << >>} \union earlier /\ unsaved' = Recorded(unsaved \union {p})

-----------------------------------------------------------------------------

\* A process starts and loads the index, which another one may be writing.
Start(p) ==
  /\ p \notin open
  /\ open' = open \union {p}
  /\ \E ix \in {disk} \union (IF open = {} THEN {} ELSE {<< >>}) : index' = [index EXCEPT ![p] = ix]
  /\ solo' = (solo /\ open = {})
  /\ UNCHANGED <<disk, files, stored, unsaved, botched>>

\* A process ends.
Exit(p) ==
  /\ p \in open
  /\ open' = open \ {p}
  /\ index' = [index EXCEPT ![p] = << >>]
  /\ unsaved' = Recorded(unsaved \ {p})
  /\ solo' = (solo /\ p \notin unsaved)
  /\ UNCHANGED <<disk, files, stored, botched>>

\* The installer downloads straight to where the cache keeps the wheel, over
\* whatever is there; a failed download leaves what it got.
Download(p, k, c) ==
  /\ p \in open
  /\ k \notin Layers /\ Fits(k, c)
  /\ files' = [files EXCEPT ![PathOf[k]] = c]
  /\ stored' = Recorded(stored \ {PathOf[k]})
  /\ UNCHANGED <<open, index, disk, unsaved, botched, solo>>

\* store_wheel of the downloaded file, in place: first the eviction, then the
\* hash (or the one the caller passes) and size of the file, the entry, the
\* save.  If the file is gone by then, hashing or stat raises.
StoreWheel(p, k, given, stay) ==
  LET ix == index[p]  f == PathOf[k]  gone == Evicted(ix) \ stay  left == Unlinked(gone) IN
  /\ p \in open
  /\ k \notin Layers
  /\ files[f] # NoFile /\ Fits(k, given)
  /\ files' = left
  /\ IF left[f] = NoFile
     THEN /\ Save(p, Kept(ix), {})
          /\ stored' = Recorded(stored \ gone)
          /\ botched' = Recorded(botched \union stay)
     ELSE /\ Save(p, Append(Without(Kept(ix), k),
                            [key |-> k, path |-> f,
                             hash |-> IF given = NoFile THEN files[f] ELSE given]), {Kept(ix)})
          /\ stored' = Recorded((stored \ gone) \union {f})
          /\ botched' = Recorded((botched \union stay) \ {f})
  /\ UNCHANGED <<open, solo>>

\* store_wheel of a file from elsewhere, and store_layer: the same, with a
\* copy after the eviction.
StoreCopy(p, k, c, stay) ==
  LET ix == index[p]  f == PathOf[k]  gone == Evicted(ix) \ stay IN
  /\ p \in open
  /\ Fits(k, c)
  /\ files' = [Unlinked(gone) EXCEPT ![f] = c]
  /\ Save(p, Append(Without(Kept(ix), k), [key |-> k, path |-> f, hash |-> IF k \in Layers THEN NoFile ELSE c]), {Kept(ix)})
  /\ stored' = Recorded((stored \ gone) \union {f})
  /\ botched' = Recorded((botched \union stay) \ {f})
  /\ UNCHANGED <<open, solo>>

\* The copy raises: what it got is left, or nothing, if rmtree had removed the layer's old
\* directory; an entry the key had stays.
StoreFails(p, k, c, stay) ==
  LET ix == index[p]  f == PathOf[k]  gone == Evicted(ix) \ stay IN
  /\ p \in open
  /\ IF c = NoFile THEN k \in Layers ELSE Fits(k, c)
  /\ files' = [Unlinked(gone) EXCEPT ![f] = c]
  /\ Save(p, Kept(ix), {})
  /\ stored' = Recorded((stored \ gone) \ {f})
  /\ botched' = Recorded(botched \union stay \union {f})
  /\ UNCHANGED <<open, solo>>

\* The eviction of a store raises, at a wheel it cannot unlink: the entries before it are
\* dropped and their files gone, and nothing is saved.
EvictFails(p, n) ==
  LET ix == index[p]  gone == PathsOf(SubSeq(ix, 1, n)) IN
  /\ p \in open
  /\ n \in 1 .. EvictCount(ix) - 1
  /\ ix[n + 1].key \notin Layers /\ files[ix[n + 1].path] # NoFile
  /\ index' = [index EXCEPT ![p] = Drop(ix, n)]
  /\ unsaved' = Recorded(unsaved \union {p})
  /\ files' = Unlinked(gone)
  /\ stored' = Recorded(stored \ gone)
  /\ UNCHANGED <<open, disk, botched, solo>>

\* Whether get finds a usable file: a wheel's hash is verified, a layer's not.
Valid(e) == files[e.path] # NoFile /\ (e.key \in Layers \/ files[e.path] = e.hash)

\* get_wheel and get_layer on an entry: a missing file costs the entry, a
\* wrong hash the file too, and success makes the entry the most recent.
Get(p, k) ==
  LET ix == index[p]  e == EntryOf(ix, k) IN
  /\ p \in open
  /\ HasKey(ix, k)
  /\ IF Valid(e)
     THEN /\ Save(p, Append(Without(ix, k), e), {})
          /\ UNCHANGED <<files, stored>>
     ELSE /\ Save(p, Without(ix, k), {})
          /\ files' = Unlinked({e.path})
          /\ stored' = Recorded(stored \ {e.path})
  /\ UNCHANGED <<open, botched, solo>>

\* clear: everything in the directories is removed, as far as rmtree(ignore_errors=True)
\* gets, and the index emptied.
Clear(p, stay) ==
  /\ p \in open
  /\ Save(p, << >>, {})
  /\ files' = Unlinked(Paths \ stay)
  /\ stored' = Recorded(stored \intersect stay)
  /\ botched' = Recorded(botched \union stay)
  /\ UNCHANGED <<open, solo>>

\* A directory cannot be made again: clear raises, and the index stays.
ClearFails(p, gone) ==
  /\ p \in open
  /\ files' = Unlinked(gone)
  /\ stored' = Recorded(stored \ gone)
  /\ botched' = Recorded(botched \union gone)
  /\ UNCHANGED <<open, index, disk, unsaved, solo>>

\* verify_integrity, as far as it has looked: entries without a file go, wheels with a
\* wrong hash go with their files.  An entry that shares such a file stays if it was looked
\* at before.  A file that cannot be read or removed ends it early, and the index is not saved.
Verify(p, looked) ==
  LET ix == index[p]
      all == {ix[i] : i \in DOMAIN ix}
      bad == {e \in looked : files[e.path] # NoFile /\ ~Valid(e)}
      spoilt == {e.path : e \in bad}
  IN
  /\ p \in open
  /\ looked \subseteq all
  /\ \E ok \in SUBSET {e \in all : Valid(e) \/ e \notin looked} :
       /\ \A e \in all : e \notin looked \/ (Valid(e) /\ e.path \notin spoilt) => e \in ok
       /\ \/ looked = all /\ Save(p, Only(ix, ok), {})
          \/ /\ index' = [index EXCEPT ![p] = Only(ix, ok)]
             /\ unsaved' = Recorded(unsaved \union {p})
             /\ UNCHANGED disk
  /\ \E e \in looked : ~Valid(e)
  /\ files' = Unlinked(spoilt)
  /\ stored' = Recorded(stored \ spoilt)
  /\ UNCHANGED <<open, botched, solo>>

\* A process dies while writing cache.json: what is left does not parse, and
\* is an empty index to the next process.
CrashInSave(p) ==
  /\ p \in open
  /\ open' = open \ {p}
  /\ index' = [index EXCEPT ![p] = << >>]
  /\ disk' = << >>
  /\ unsaved' = Recorded(unsaved \ {p})
  /\ solo' = FALSE
  /\ UNCHANGED <<files, stored, botched>>

\* A process dies in a store that evicts: some files are removed, and with the
\* last of them cache.json may have been cut off or written too.
CrashInEvict(p) ==
  LET ix == index[p] IN
  /\ p \in open
  /\ open' = open \ {p}
  /\ index' = [index EXCEPT ![p] = << >>]
  /\ \E n \in 1 .. EvictCount(ix) :
       LET gone == PathsOf(SubSeq(ix, 1, n)) IN
       /\ files' = Unlinked(gone)
       /\ stored' = Recorded(stored \ gone)
       /\ \/ UNCHANGED disk
          \/ n = EvictCount(ix) /\ disk' \in {<< >>, Kept(ix)}
  /\ unsaved' = Recorded(unsaved \ {p})
  /\ solo' = FALSE
  /\ UNCHANGED botched

\* Something outside cpip changes a file.
Corrupt(f, c) ==
  /\ files[f] \notin {NoFile, Dir, c} /\ c # Dir
  /\ files' = [files EXCEPT ![f] = c]
  /\ UNCHANGED <<open, index, disk, stored, unsaved, botched, solo>>

StoreStep(p) ==
  \E k \in Keys, stay \in SUBSET EvictedLayers(index[p]) :
    \/ \E c \in Contents : StoreCopy(p, k, c, stay)
    \/ \E c \in Contents \union {NoFile} : StoreWheel(p, k, c, stay) \/ StoreFails(p, k, c, stay)

ProcStep(p) ==
  \/ Start(p) \/ Exit(p) \/ StoreStep(p)
  \/ \E n \in 1 .. Len(index[p]) : EvictFails(p, n)
  \/ \E k \in Keys : Get(p, k) \/ \E c \in Contents : Download(p, k, c)
  \/ \E fs \in SUBSET {f \in Paths : files[f] # NoFile} : Clear(p, fs) \/ ClearFails(p, fs)
  \/ \E looked \in SUBSET {index[p][i] : i \in DOMAIN index[p]} : Verify(p, looked)

CacheNext ==
  \/ \E p \in Procs : ProcStep(p) \/ CrashInSave(p) \/ CrashInEvict(p)
  \/ \E f \in Paths, c \in Contents : Corrupt(f, c)

CacheSpec == CacheInit /\ [][CacheNext]_cacheVars

-----------------------------------------------------------------------------

\* The state is well typed, and an index has one entry per key, which names
\* the key's own path.
CacheTypeOK ==
  /\ open \subseteq Procs
  /\ \A ix \in {index[p] : p \in Procs} \union {disk} :
       /\ ix \in Seq(Entries)
       /\ \A i, j \in DOMAIN ix : ix[i].key = ix[j].key => i = j
       /\ \A i \in DOMAIN ix : ix[i].path = PathOf[ix[i].key]
  /\ files \in [Paths -> Contents \union {NoFile}]
  /\ stored \subseteq {f \in Paths : files[f] # NoFile}
  /\ unsaved \subseteq open /\ botched \subseteq Paths /\ solo \in BOOLEAN

\* What every process believes the cache holds is bounded, however the
\* processes overwrite each other's index and wherever they crash: 90% of the
\* limit plus the item stored last.
IndexBounded ==
  \A ix \in {index[p] : p \in Procs} \union {disk} :
     \E f \in Paths : 10 * Total(ix) <= 9 * MaxSize + 10 * SizeOf[f]

\* The books of the cache: the index of the process that runs, or what the next one will load.
Books == IF open = {} THEN {disk} ELSE {index[p] : p \in open}

\* As long as processes take turns and none crashes, the cache keeps its books through any
\* stores, evictions, hits, checks and clears: cache.json is what the process believes,
\* unless its last save failed.
InSync ==
  solo => \A p \in open \ unsaved : index[p] = disk

\* The same for files, even if saves fail: no entry is left behind when eviction, a failed
\* check or clear removes its file, unless a copy to the path or a clear broke off.
EntryHasFile ==
  solo => \A ix \in Books : \A i \in DOMAIN ix : files[ix[i].path] # NoFile \/ ix[i].path \in botched

\* What the module's "size-bounded storage" needs: a file that a completed store put in the
\* cache and that is still there is in the index, as otherwise it would never be counted and
\* never evicted, unless a directory could not be removed.
StoredIsIndexed ==
  solo => \A ix \in Books : stored \ botched \subseteq PathsOf(ix)

\* Memory, index and files agree, as long as processes take turns and none crashes.
CacheAgrees == CacheTypeOK /\ InSync /\ EntryHasFile /\ StoredIsIndexed
=============================================================================
