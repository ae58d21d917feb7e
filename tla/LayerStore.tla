----------------------------- MODULE LayerStore -----------------------------
(***************************************************************************)
(* Package virtualization: LayerManager of virtualization/layers.py, which *)
(* extracts content-addressed layers into a common directory and composes  *)
(* them into package directories; VirtualMount of mount.py, which puts     *)
(* those on a process's import path; and what CacheManager of              *)
(* client/cache.py does in the same directory: it stores, evicts and       *)
(* clears.                                                                 *)
(*                                                                         *)
(* The directory is shared by every cpip process on the device; each one's *)
(* mounts and import path are its own.  Within a process an operation is   *)
(* not interrupted, but other processes run, and an error or a crash may   *)
(* come, between its file system calls.  A directory's content is          *)
(* abstracted to the layers of which it holds every file.                  *)
(***************************************************************************)
EXTENDS Naturals, Sequences, FiniteSets

CONSTANTS Procs,    \* processes
          Layers,   \* layer ids
          Names,    \* package names
          LayersOf, \* PackageManifest.layers of each package: a sequence
          NoMount   \* no layer, package, directory

Stacks == {LayersOf[n] : n \in Names}   \* a composed directory is named after its layers
Dirs == Layers \union Stacks

ASSUME LayerAssumption ==
  /\ NoMount \notin Dirs \union Names
  /\ LayersOf \in [Names -> Seq(Layers)]
  /\ Layers \intersect (Names \union Stacks) = {}

VARIABLES
  there,   \* the directories that exist
  files,   \* the layers a directory has all files of
  pc,      \* what each process does
  arg,     \* the layer or package it is about
  step,    \* how many layers it has composed
  todo,    \* the directories it still has to remove
  lost,    \* processes whose directory was removed from since they made it
  torn,    \* processes whose copy of a layer is not of all its files
  spoilt,  \* directories that were removed from, left by a failure, or filled from a layer
           \* that was not all there, since they were made
  mounts,  \* VirtualMount._mounts
  path     \* sys.path of each process

diskVars == <<there, files, spoilt>>
procVars == <<pc, arg, step, todo, lost, torn>>
mountVars == <<mounts, path>>
layerVars == <<diskVars, procVars, mountVars>>

LayerInit ==
  /\ there = {} /\ files = [d \in Dirs |-> {}] /\ spoilt = {}
  /\ pc = [p \in Procs |-> "idle"]
  /\ arg = [p \in Procs |-> NoMount]
  /\ step = [p \in Procs |-> 0]
  /\ todo = [p \in Procs |-> {}]
  /\ lost = {} /\ torn = {}
  /\ mounts = [p \in Procs |-> [n \in Names |-> NoMount]]
  /\ path = [p \in Procs |-> {}]

\* What belongs in a directory.
Members(s) == {s[i] : i \in DOMAIN s}
Content(d) == IF d \in Layers THEN {d} ELSE Members(d)

\* The directory that process p is to fill, and whether it is filling d.
Target(p) == IF arg[p] \in Layers THEN arg[p] ELSE LayersOf[arg[p]]
Fills(p, d) == pc[p] \in {"fill", "copy"} /\ Target(p) = d

\* The layer that a process composes next.
Source(p) == LayersOf[arg[p]][step[p] + 1]

Begin(p, where, what) ==
  /\ pc' = [pc EXCEPT ![p] = where]
  /\ arg' = [arg EXCEPT ![p] = what]

\* The operation is over.
Rest(p) ==
  /\ Begin(p, "idle", NoMount)
  /\ step' = [step EXCEPT ![p] = 0]
  /\ todo' = [todo EXCEPT ![p] = {}]
  /\ lost' = lost \ {p} /\ torn' = torn \ {p}

-----------------------------------------------------------------------------
(* Directories are made and filled. *)

\* store_layer: a directory that exists is taken to be the layer; otherwise
\* it is to be made.
StoreLayer(p, l) ==
  /\ pc[p] = "idle" /\ l \notin there
  /\ Begin(p, "make", l)
  /\ UNCHANGED <<diskVars, step, todo, lost, torn, mountVars>>

\* A mutation: mkdir with exist_ok.
MakeDirAnyway(p) ==
  /\ pc[p] = "make"
  /\ there' = there \union {Target(p)}
  /\ files' = [files EXCEPT ![Target(p)] = {}]
  /\ spoilt' = spoilt \ {Target(p)}
  /\ Begin(p, "fill", arg[p])
  /\ UNCHANGED <<step, todo, lost, torn, mountVars>>

\* mkdir, which raises if another process has made the directory meanwhile.
MakeDir(p) ==
  /\ pc[p] = "make"
  /\ IF Target(p) \in there
     THEN Rest(p) /\ UNCHANGED diskVars
     ELSE /\ there' = there \union {Target(p)}
          /\ files' = [files EXCEPT ![Target(p)] = {}]
          /\ spoilt' = spoilt \ {Target(p)}
          /\ Begin(p, "fill", arg[p])
          /\ UNCHANGED <<step, todo, lost, torn>>
  /\ UNCHANGED mountVars

\* extractall or copytree ends.  If the directory was removed from meanwhile, or another
\* process writes there too, it has all files or not; it is made again if need be.
Extracted(p) ==
  LET l == arg[p]
      mixed == p \in lost \/ \E q \in Procs \ {p} : Fills(q, l)
  IN
  /\ pc[p] = "fill" /\ l \in Layers
  /\ there' = there \union {l}
  /\ \E whole \in IF mixed THEN SUBSET {l} ELSE {{l}} : files' = [files EXCEPT ![l] = whole]
  /\ spoilt' = IF mixed THEN spoilt \union {l} ELSE spoilt
  /\ Rest(p)
  /\ UNCHANGED mountVars

\* compose_layers, the loop: a layer that is not there is skipped.
SkipLayer(p) ==
  /\ pc[p] = "fill" /\ arg[p] \in Names /\ step[p] < Len(Target(p))
  /\ Source(p) \notin there
  /\ step' = [step EXCEPT ![p] = @ + 1]
  /\ spoilt' = spoilt \union {Target(p)}
  /\ UNCHANGED <<there, files, pc, arg, todo, lost, torn, mountVars>>

\* The files that the next layer's directory holds are copied.
CopyBegin(p) ==
  LET l == Source(p) IN
  /\ pc[p] = "fill" /\ arg[p] \in Names /\ step[p] < Len(Target(p))
  /\ l \in there
  /\ Begin(p, "copy", arg[p])
  /\ torn' = IF files[l] = {l} /\ \A q \in Procs : ~Fills(q, l) THEN torn \ {p} ELSE torn \union {p}
  /\ UNCHANGED <<diskVars, step, todo, lost, mountVars>>

\* They are copied; the directory is made again if it was removed meanwhile.
CopyEnd(p) ==
  LET s == Target(p) IN
  /\ pc[p] = "copy"
  /\ there' = there \union {s}
  /\ files' = [files EXCEPT ![s] = IF p \in torn THEN @ \ {Source(p)} ELSE @ \union {Source(p)}]
  /\ spoilt' = IF p \in torn THEN spoilt \union {s} ELSE spoilt
  /\ Begin(p, "fill", arg[p])
  /\ step' = [step EXCEPT ![p] = @ + 1]
  /\ UNCHANGED <<todo, lost, torn, mountVars>>

\* The archive is damaged or has a member outside the directory, a file is gone
\* before it is copied, the disk is full: the operation raises, and what is there stays.
FillFails(p) ==
  /\ pc[p] \in {"fill", "copy"}
  /\ spoilt' = spoilt \union {Target(p)}
  /\ Rest(p)
  /\ UNCHANGED <<there, files, mountVars>>

-----------------------------------------------------------------------------
(* Directories are removed. *)

\* cleanup_unused removes the layers that are not active, an eviction one of
\* them, and clear everything, the composed directories too.
Removals == SUBSET Layers \union {Dirs}

Remove(p, dirs) ==
  /\ pc[p] = "idle"
  /\ Begin(p, "remove", NoMount)
  /\ todo' = [todo EXCEPT ![p] = dirs \intersect there]
  /\ UNCHANGED <<diskVars, step, lost, torn, mountVars>>

\* CacheManager.store_layer: a directory that exists is removed and made again.
CacheLayer(p, l) ==
  /\ pc[p] = "idle"
  /\ Begin(p, IF l \in there THEN "remove" ELSE "make", l)
  /\ todo' = [todo EXCEPT ![p] = {l} \intersect there]
  /\ UNCHANGED <<diskVars, step, lost, torn, mountVars>>

\* rmtree: some files go, or the rest of them and the directory.
Delete(p, d) ==
  /\ pc[p] = "remove" /\ d \in todo[p] \intersect there
  /\ files' = [files EXCEPT ![d] = {}]
  /\ spoilt' = spoilt \union {d}
  /\ lost' = lost \union {q \in Procs : Fills(q, d)}
  /\ torn' = torn \union {q \in Procs : pc[q] = "copy" /\ d \in {Target(q), Source(q)}}
  /\ \/ UNCHANGED <<there, todo>>
     \/ there' = there \ {d} /\ todo' = [todo EXCEPT ![p] = @ \ {d}]
  /\ UNCHANGED <<pc, arg, step, mountVars>>

\* The removal ends, at the end or with an error, which cleanup_unused passes on and
\* the cache ignores; after a complete one store_layer goes on.
RemoveEnd(p) ==
  /\ pc[p] = "remove"
  /\ IF todo[p] = {} /\ arg[p] \in Layers
     THEN Begin(p, "make", arg[p]) /\ UNCHANGED <<step, todo, lost, torn>>
     ELSE Rest(p)
  /\ UNCHANGED <<diskVars, mountVars>>

-----------------------------------------------------------------------------
(* VirtualMount. *)

\* mount, at its end: the directory is on the import path (once) and noted.
Mounted(p, n) ==
  /\ path' = [path EXCEPT ![p] = @ \union {LayersOf[n]}]
  /\ mounts' = [mounts EXCEPT ![p][n] = LayersOf[n]]

\* mount of a package that is not mounted yet: a composed directory that
\* exists is used as it is; otherwise it is to be made.
Mount(p, n) ==
  /\ pc[p] = "idle" /\ mounts[p][n] = NoMount
  /\ IF LayersOf[n] \in there
     THEN Mounted(p, n) /\ UNCHANGED <<pc, arg>>
     ELSE Begin(p, "make", n) /\ UNCHANGED mountVars
  /\ UNCHANGED <<diskVars, step, todo, lost, torn>>

\* A mutation: the last layer is left out.
ComposeEndShort(p) ==
  /\ pc[p] = "fill" /\ arg[p] \in Names /\ step[p] + 1 >= Len(Target(p))
  /\ Mounted(p, arg[p])
  /\ Rest(p)
  /\ UNCHANGED diskVars

\* compose_layers returns and the package is mounted.
ComposeEnd(p) ==
  /\ pc[p] = "fill" /\ arg[p] \in Names /\ step[p] = Len(Target(p))
  /\ Mounted(p, arg[p])
  /\ Rest(p)
  /\ UNCHANGED diskVars

\* unmount (and each round of unmount_all): the package's directory leaves
\* the import path.
Unmount(p, n) ==
  /\ pc[p] = "idle" /\ mounts[p][n] # NoMount
  /\ path' = [path EXCEPT ![p] = @ \ {mounts[p][n]}]
  /\ mounts' = [mounts EXCEPT ![p][n] = NoMount]
  /\ UNCHANGED <<diskVars, procVars>>

\* The process ends, or dies in the middle of an operation.
End(p) ==
  /\ Rest(p)
  /\ spoilt' = spoilt \union {d \in Dirs : Fills(p, d)}
  /\ mounts' = [mounts EXCEPT ![p] = [n \in Names |-> NoMount]]
  /\ path' = [path EXCEPT ![p] = {}]
  /\ UNCHANGED <<there, files>>

LayerNext ==
  \E p \in Procs :
    \/ MakeDir(p) \/ Extracted(p) \/ SkipLayer(p) \/ CopyBegin(p) \/ CopyEnd(p) \/ FillFails(p)
    \/ RemoveEnd(p) \/ ComposeEnd(p) \/ End(p)
    \/ \E l \in Layers : StoreLayer(p, l) \/ CacheLayer(p, l)
    \/ \E dirs \in Removals : Remove(p, dirs)
    \/ \E d \in Dirs : Delete(p, d)
    \/ \E n \in Names : Mount(p, n) \/ Unmount(p, n)

LayerSpec == LayerInit /\ [][LayerNext]_layerVars

-----------------------------------------------------------------------------

\* The state is well typed, and a process that composes is within the
\* package's layers.
LayerTypeOK ==
  /\ there \subseteq Dirs /\ spoilt \subseteq Dirs /\ lost \subseteq Procs /\ torn \subseteq Procs
  /\ files \in [Dirs -> SUBSET Layers] /\ todo \in [Procs -> SUBSET Dirs]
  /\ pc \in [Procs -> {"idle", "make", "fill", "copy", "remove"}]
  /\ arg \in [Procs -> Layers \union Names \union {NoMount}]
  /\ step \in [Procs -> Nat]
  /\ \A p \in Procs :
       /\ pc[p] \in {"make", "fill"} => arg[p] # NoMount
       /\ pc[p] \in {"fill", "copy"} /\ arg[p] \in Names => step[p] \in 0 .. Len(LayersOf[arg[p]])
       /\ pc[p] = "copy" => arg[p] \in Names /\ step[p] < Len(LayersOf[arg[p]])
  /\ mounts \in [Procs -> [Names -> Stacks \union {NoMount}]]
  /\ path \in [Procs -> SUBSET Stacks]

\* The import path holds nothing but mounted packages' directories, and every mounted
\* package's, through any sequence of mounts and unmounts; only of two
\* packages with the same layers, which share one directory, the unmounting of one
\* may take the other off the path.
PathExact ==
  \A p \in Procs :
    /\ path[p] \subseteq {mounts[p][n] : n \in Names}
    /\ \A n \in Names :
         mounts[p][n] # NoMount /\ (\A m \in Names \ {n} : LayersOf[m] # LayersOf[n])
           => mounts[p][n] \in path[p]

\* A directory has everything that belongs there, or somebody is filling it.
Whole(d) == d \in there /\ (files[d] = Content(d) \/ \E p \in Procs : Fills(p, d))

\* "A single immutable, content-addressed package layer" and "a unified package
\* directory": a layer that was stored and a package that is mounted is complete or
\* being completed, whichever processes store, compose and mount it at the same time, unless it
\* was spoilt: something was removed from it, its making failed, or a layer it
\* is made of was not all there when it was copied.
MountedIsComplete ==
  /\ \A l \in Layers : l \in there \ spoilt => Whole(l)
  /\ \A p \in Procs, n \in Names : mounts[p][n] \notin {NoMount} \union spoilt => Whole(mounts[p][n])

\* Two processes fill one directory only if a removal took it away from one
\* of them: of two that find it missing, one makes it and the other fails.
FilledByOne ==
  \A p, q \in Procs, d \in Dirs : p # q /\ Fills(p, d) /\ Fills(q, d) => p \in lost \/ q \in lost

\* The import path leads to the mounted packages, and these are complete.
MountsWhole == LayerTypeOK /\ PathExact /\ MountedIsComplete
=============================================================================
