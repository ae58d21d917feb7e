--------------------------- MODULE VirtualProofs ----------------------------
(***************************************************************************)
(* Virtual packages for any number of processes, packages, layers, chunks  *)
(* and threads: the layer store, the chunk downloader and the lazy         *)
(* modules.                                                                *)
(***************************************************************************)
EXTENDS LayerStore, Download, LazyModule, TLAPS

-----------------------------------------------------------------------------
(* The layer store.                                                        *)

\* A process that fills no directory has no step to count and nothing to have lost.
AtRest ==
  \A p \in Procs : pc[p] \in {"idle", "make", "remove"} => step[p] = 0 /\ p \notin lost

\* A mount is of the package's own layers, and its directory exists unless it was spoilt.
OwnMounts ==
  \A p \in Procs, n \in Names :
    /\ mounts[p][n] \in {NoMount, LayersOf[n]}
    /\ mounts[p][n] # NoMount => mounts[p][n] \in there \union spoilt

\* A directory that is filled exists, unless it was taken away from the process that fills it.
FilledIsThere ==
  \A p \in Procs, d \in Dirs : Fills(p, d) =>
    /\ p \notin lost => d \in there
    /\ d \in there \union spoilt

\* A directory holds nothing but what belongs there.
OwnContent == \A d \in Dirs : files[d] \subseteq Content(d)

\* A process that composes has copied the layers that it has counted.
CopiedSoFar ==
  \A p \in Procs : pc[p] \in {"fill", "copy"} /\ arg[p] \in Names /\ p \notin lost
                    /\ LayersOf[arg[p]] \notin spoilt =>
    \A i \in 1 .. step[p] : LayersOf[arg[p]][i] \in files[LayersOf[arg[p]]]

\* A directory that was not spoilt is complete, or filled by a process that did not lose it.
UnspoiltIsWhole ==
  \A d \in there \ spoilt : files[d] = Content(d) \/ \E p \in Procs \ lost : Fills(p, d)

\* The inductive invariant of the layer store.
LayerInv ==
  /\ LayerTypeOK /\ AtRest /\ OwnMounts /\ PathExact
  /\ FilledIsThere /\ FilledByOne
  /\ OwnContent /\ CopiedSoFar /\ UnspoiltIsWhole

\* The layers of a package are layers, and name a directory that is no layer's.
LEMMA StackFacts ==
  ASSUME NEW n \in Names
  PROVE  /\ LayersOf[n] \in Seq(Layers) /\ LayersOf[n] \in Stacks /\ LayersOf[n] \in Dirs
         /\ LayersOf[n] # NoMount /\ LayersOf[n] \notin Layers /\ n \notin Layers /\ n # NoMount
         /\ Len(LayersOf[n]) \in Nat
         /\ Content(LayersOf[n]) = {LayersOf[n][i] : i \in 1 .. Len(LayersOf[n])}
         /\ Content(LayersOf[n]) \subseteq Layers
<1>1. LayersOf[n] \in Seq(Layers) /\ LayersOf[n] \in Stacks /\ LayersOf[n] \notin Layers
  BY LayerAssumption DEF Stacks
<1>2. DOMAIN LayersOf[n] = 1 .. Len(LayersOf[n]) /\ Len(LayersOf[n]) \in Nat
  BY <1>1
<1>3. Content(LayersOf[n]) = {LayersOf[n][i] : i \in 1 .. Len(LayersOf[n])}
  BY <1>1, <1>2 DEF Content, Members
<1>4. Content(LayersOf[n]) \subseteq Layers
  BY <1>1, <1>3
<1> QED BY <1>1, <1>2, <1>3, <1>4, LayerAssumption DEF Dirs

\* A process that makes or fills a directory has one to make or fill.
LEMMA TargetFacts ==
  ASSUME LayerTypeOK, NEW p \in Procs, pc[p] \in {"make", "fill", "copy"}
  PROVE  /\ Target(p) \in Dirs
         /\ arg[p] \in Layers \/ arg[p] \in Names
         /\ arg[p] \in Layers => Target(p) = arg[p]
         /\ arg[p] \in Names => Target(p) = LayersOf[arg[p]]
<1>1. arg[p] \in Layers \/ arg[p] \in Names
  BY DEF LayerTypeOK
<1> QED BY <1>1, StackFacts, LayerAssumption DEF Target, Dirs

\* What a process fills depends on its own registers alone.
LEMMA SameFills ==
  ASSUME NEW q \in Procs, pc'[q] = pc[q], arg'[q] = arg[q]
  PROVE  \A d \in Dirs : Fills(q, d)' <=> Fills(q, d)
BY DEF Fills, Target

\* The types of the processes' registers.
Registers ==
  /\ pc \in [Procs -> {"idle", "make", "fill", "copy", "remove"}]
  /\ arg \in [Procs -> Layers \union Names \union {NoMount}]
  /\ step \in [Procs -> Nat] /\ todo \in [Procs -> SUBSET Dirs]
  /\ lost \subseteq Procs /\ torn \subseteq Procs
  /\ \A p \in Procs :
       /\ pc[p] \in {"make", "fill"} => arg[p] # NoMount
       /\ pc[p] \in {"fill", "copy"} /\ arg[p] \in Names => step[p] \in 0 .. Len(LayersOf[arg[p]])
       /\ pc[p] = "copy" => arg[p] \in Names /\ step[p] < Len(LayersOf[arg[p]])
  /\ AtRest

\* A process that rests has its registers as they should be.
LEMMA RestTypes == ASSUME Registers, NEW p \in Procs, Rest(p) PROVE Registers'
<1>1. /\ pc' = [pc EXCEPT ![p] = "idle"] /\ arg' = [arg EXCEPT ![p] = NoMount]
      /\ step' = [step EXCEPT ![p] = 0] /\ todo' = [todo EXCEPT ![p] = {}]
      /\ lost' = lost \ {p} /\ torn' = torn \ {p}
  BY DEF Rest, Begin
<1>2. \A q \in Procs \ {p} : pc'[q] = pc[q] /\ arg'[q] = arg[q] /\ step'[q] = step[q]
  BY <1>1 DEF Registers
<1>3. pc'[p] = "idle" /\ step'[p] = 0
  BY <1>1 DEF Registers
<1> QED BY <1>1, <1>2, <1>3 DEF Registers, AtRest

\* So has one that comes from rest to make or remove a directory, or to fill the one it made.
LEMMA BeginTypes ==
  ASSUME Registers, NEW p \in Procs, NEW where \in {"make", "fill", "remove"},
         NEW what \in Layers \union Names \union {NoMount}, Begin(p, where, what),
         where = "remove" \/ what # NoMount, pc[p] \in {"idle", "make", "remove"},
         todo' \in [Procs -> SUBSET Dirs], UNCHANGED <<step, lost, torn>>
  PROVE  Registers'
<1>1. pc' = [pc EXCEPT ![p] = where] /\ arg' = [arg EXCEPT ![p] = what]
  BY DEF Begin
<1>2. \A q \in Procs \ {p} : pc'[q] = pc[q] /\ arg'[q] = arg[q]
  BY <1>1 DEF Registers
<1>3. pc'[p] = where /\ arg'[p] = what /\ step[p] = 0 /\ p \notin lost
  BY <1>1 DEF Registers, AtRest
<1>4. what \in Names => 0 \in 0 .. Len(LayersOf[what])
  BY StackFacts
<1>5. pc' \in [Procs -> {"idle", "make", "fill", "copy", "remove"}]
      /\ arg' \in [Procs -> Layers \union Names \union {NoMount}]
  BY <1>1 DEF Registers
<1> QED BY <1>2, <1>3, <1>4, <1>5 DEF Registers, AtRest

\* The type part is kept by every step.
LEMMA LayerTypesStep ==
  ASSUME LayerTypeOK, AtRest, LayerNext PROVE LayerTypeOK' /\ AtRest'
<1>0. Registers
  BY DEF LayerTypeOK, Registers
<1>a. ASSUME Registers', UNCHANGED <<diskVars, mountVars>> PROVE LayerTypeOK' /\ AtRest'
  BY <1>a DEF LayerTypeOK, Registers, diskVars, mountVars
<1> USE DEF LayerTypeOK, AtRest, Begin, Rest, diskVars, mountVars, procVars
<1>1. ASSUME NEW p \in Procs, MakeDir(p) PROVE LayerTypeOK' /\ AtRest'
  <2>1. Target(p) \in Dirs /\ arg[p] \in Layers \union Names /\ pc[p] = "make"
    BY <1>1, TargetFacts DEF MakeDir
  <2>2. CASE Target(p) \in there
    <3>1. Rest(p) /\ UNCHANGED <<diskVars, mountVars>>
      BY <1>1, <2>2 DEF MakeDir
    <3> QED BY <1>0, <1>a, <3>1, RestTypes
  <2>3. CASE Target(p) \notin there
    <3>1. Begin(p, "fill", arg[p]) /\ UNCHANGED <<step, todo, lost, torn, mounts, path>>
          /\ there' = there \union {Target(p)} /\ files' = [files EXCEPT ![Target(p)] = {}]
          /\ spoilt' = spoilt \ {Target(p)}
      BY <1>1, <2>3 DEF MakeDir
    <3>2. Registers'
      BY <1>0, <2>1, <3>1, BeginTypes
    <3> QED BY <2>1, <3>1, <3>2 DEF Registers
  <2> QED BY <2>2, <2>3
<1>2. ASSUME NEW p \in Procs, Extracted(p) PROVE LayerTypeOK' /\ AtRest'
  <2>1. arg[p] \in Layers /\ arg[p] \in Dirs
    BY <1>2 DEF Extracted, Dirs
  <2>2. there' \subseteq Dirs /\ spoilt' \subseteq Dirs /\ files' \in [Dirs -> SUBSET Layers]
    BY <1>2, <2>1 DEF Extracted
  <2> QED BY <1>2, <2>2 DEF Extracted
<1>3. ASSUME NEW p \in Procs, SkipLayer(p) PROVE LayerTypeOK' /\ AtRest'
  <2>1. arg[p] \in Names /\ pc[p] = "fill" /\ Target(p) = LayersOf[arg[p]] /\ Target(p) \in Dirs
    BY <1>3, TargetFacts DEF SkipLayer
  <2>2. Len(LayersOf[arg[p]]) \in Nat
    BY <2>1, StackFacts
  <2>3. step' = [step EXCEPT ![p] = step[p] + 1] /\ step[p] + 1 \in 0 .. Len(LayersOf[arg[p]])
    BY <1>3, <2>1, <2>2 DEF SkipLayer
  <2> QED BY <1>3, <2>1, <2>3 DEF SkipLayer
<1>4. ASSUME NEW p \in Procs, CopyBegin(p) PROVE LayerTypeOK' /\ AtRest'
  <2>1. arg[p] \in Names /\ pc[p] = "fill" /\ Target(p) = LayersOf[arg[p]]
    BY <1>4, TargetFacts DEF CopyBegin
  <2>2. torn' \subseteq Procs /\ arg' = arg /\ pc' = [pc EXCEPT ![p] = "copy"]
    BY <1>4 DEF CopyBegin
  <2> QED BY <1>4, <2>1, <2>2 DEF CopyBegin
<1>5. ASSUME NEW p \in Procs, CopyEnd(p) PROVE LayerTypeOK' /\ AtRest'
  <2>1. arg[p] \in Names /\ pc[p] = "copy" /\ Target(p) = LayersOf[arg[p]] /\ Target(p) \in Dirs
        /\ step[p] < Len(LayersOf[arg[p]])
    BY <1>5, TargetFacts DEF CopyEnd
  <2>2. Len(LayersOf[arg[p]]) \in Nat /\ LayersOf[arg[p]] \in Seq(Layers)
    BY <2>1, StackFacts
  <2>3. Source(p) \in Layers
    BY <2>1, <2>2 DEF Source
  <2>4. step' = [step EXCEPT ![p] = step[p] + 1] /\ step[p] + 1 \in 0 .. Len(LayersOf[arg[p]])
    BY <1>5, <2>1, <2>2 DEF CopyEnd
  <2>5. files' \in [Dirs -> SUBSET Layers] /\ there' \subseteq Dirs /\ spoilt' \subseteq Dirs
    BY <1>5, <2>1, <2>3 DEF CopyEnd
  <2>6. pc' = [pc EXCEPT ![p] = "fill"] /\ arg' = arg /\ UNCHANGED <<todo, lost, torn, mounts, path>>
    BY <1>5 DEF CopyEnd
  <2>7. \A q \in Procs : q # p => pc'[q] = pc[q] /\ step'[q] = step[q]
    BY <2>4, <2>6
  <2>8. pc'[p] = "fill" /\ step'[p] \in 0 .. Len(LayersOf[arg[p]]) /\ p \in Procs
    BY <2>4, <2>6
  <2>9. step' \in [Procs -> Nat] /\ pc' \in [Procs -> {"idle", "make", "fill", "copy", "remove"}]
    BY <2>4, <2>6
  <2>10. Registers'
    <3>1. ASSUME NEW q \in Procs
          PROVE  /\ pc'[q] \in {"make", "fill"} => arg'[q] # NoMount
                 /\ pc'[q] \in {"fill", "copy"} /\ arg'[q] \in Names => step'[q] \in 0 .. Len(LayersOf[arg'[q]])
                 /\ pc'[q] = "copy" => arg'[q] \in Names /\ step'[q] < Len(LayersOf[arg'[q]])
                 /\ pc'[q] \in {"idle", "make", "remove"} => step'[q] = 0 /\ q \notin lost'
      <4>1. CASE q = p
        BY <2>1, <2>6, <2>8, <4>1, StackFacts
      <4>2. CASE q # p
        BY <1>0, <2>6, <2>7, <4>2 DEF Registers
      <4> QED BY <4>1, <4>2
    <3> QED BY <1>0, <2>6, <2>9, <3>1 DEF Registers
  <2> QED BY <2>5, <2>6, <2>10 DEF Registers
<1>6. ASSUME NEW p \in Procs, FillFails(p) PROVE LayerTypeOK' /\ AtRest'
  BY <1>6, TargetFacts DEF FillFails
<1>7. ASSUME NEW p \in Procs, RemoveEnd(p) PROVE LayerTypeOK' /\ AtRest'
  <2>1. CASE todo[p] = {} /\ arg[p] \in Layers
    <3>1. Begin(p, "make", arg[p]) /\ UNCHANGED <<step, todo, lost, torn, diskVars, mountVars>>
          /\ pc[p] = "remove" /\ arg[p] # NoMount
      BY <1>7, <2>1, LayerAssumption DEF RemoveEnd, Dirs
    <3>2. Registers'
      BY <1>0, <2>1, <3>1, BeginTypes
    <3> QED BY <1>a, <3>1, <3>2
  <2>2. CASE ~(todo[p] = {} /\ arg[p] \in Layers)
    <3>1. Rest(p) /\ UNCHANGED <<diskVars, mountVars>>
      BY <1>7, <2>2 DEF RemoveEnd
    <3> QED BY <1>0, <1>a, <3>1, RestTypes
  <2> QED BY <2>1, <2>2
<1>8. ASSUME NEW p \in Procs, ComposeEnd(p) PROVE LayerTypeOK' /\ AtRest'
  <2>1. arg[p] \in Names /\ LayersOf[arg[p]] \in Stacks
    BY <1>8, StackFacts DEF ComposeEnd
  <2> QED BY <1>8, <2>1 DEF ComposeEnd, Mounted
<1>9. ASSUME NEW p \in Procs, End(p) PROVE LayerTypeOK' /\ AtRest'
  BY <1>9 DEF End
<1>10. ASSUME NEW p \in Procs, NEW l \in Layers, StoreLayer(p, l) \/ CacheLayer(p, l)
       PROVE  LayerTypeOK' /\ AtRest'
  <2>1. l # NoMount /\ l \in Dirs /\ l \notin Names
    BY LayerAssumption DEF Dirs
  <2>2. CASE StoreLayer(p, l)
    <3>1. Begin(p, "make", l) /\ UNCHANGED <<step, todo, lost, torn, diskVars, mountVars>> /\ pc[p] = "idle"
      BY <2>2 DEF StoreLayer
    <3>2. Registers'
      BY <1>0, <2>1, <3>1, BeginTypes
    <3> QED BY <1>a, <3>1, <3>2
  <2>3. CASE CacheLayer(p, l)
    <3>1. PICK where \in {"make", "remove"} : Begin(p, where, l)
      BY <2>3 DEF CacheLayer
    <3>2. todo' = [todo EXCEPT ![p] = {l} \intersect there] /\ pc[p] = "idle"
          /\ UNCHANGED <<step, lost, torn, diskVars, mountVars>>
      BY <2>3 DEF CacheLayer
    <3>3. todo' \in [Procs -> SUBSET Dirs]
      BY <2>1, <3>2
    <3>4. Registers'
      BY <1>0, <2>1, <3>1, <3>2, <3>3, BeginTypes
    <3> QED BY <1>a, <3>2, <3>4
  <2> QED BY <1>10, <2>2, <2>3
<1>11. ASSUME NEW p \in Procs, NEW dirs \in Removals, Remove(p, dirs) PROVE LayerTypeOK' /\ AtRest'
  BY <1>11 DEF Remove
<1>12. ASSUME NEW p \in Procs, NEW d \in Dirs, Delete(p, d) PROVE LayerTypeOK' /\ AtRest'
  <2>1. lost' \subseteq Procs /\ torn' \subseteq Procs /\ spoilt' \subseteq Dirs /\ there' \subseteq Dirs
        /\ files' \in [Dirs -> SUBSET Layers] /\ todo' \in [Procs -> SUBSET Dirs]
    BY <1>12 DEF Delete
  <2>2. \A q \in Procs : pc[q] \in {"idle", "make", "remove"} => (q \in lost' <=> q \in lost)
    BY <1>12 DEF Delete, Fills
  <2> QED BY <1>12, <2>1, <2>2 DEF Delete
<1>13. ASSUME NEW p \in Procs, NEW n \in Names, Mount(p, n) PROVE LayerTypeOK' /\ AtRest'
  <2>1. LayersOf[n] \in Stacks /\ n # NoMount
    BY StackFacts
  <2>2. CASE LayersOf[n] \in there
    <3>1. mounts' = [mounts EXCEPT ![p] = [mounts[p] EXCEPT ![n] = LayersOf[n]]]
          /\ path' = [path EXCEPT ![p] = @ \union {LayersOf[n]}]
      BY <1>13, <2>2 DEF Mount, Mounted
    <3>2. mounts' \in [Procs -> [Names -> Stacks \union {NoMount}]] /\ path' \in [Procs -> SUBSET Stacks]
      BY <2>1, <3>1
    <3> QED BY <1>13, <2>2, <3>2 DEF Mount
  <2>3. CASE LayersOf[n] \notin there
    <3>1. Begin(p, "make", n) /\ UNCHANGED <<step, todo, lost, torn, diskVars, mountVars>> /\ pc[p] = "idle"
      BY <1>13, <2>3 DEF Mount
    <3>2. Registers'
      BY <1>0, <2>1, <3>1, BeginTypes
    <3> QED BY <1>a, <3>1, <3>2
  <2> QED BY <2>2, <2>3
<1>14. ASSUME NEW p \in Procs, NEW n \in Names, Unmount(p, n) PROVE LayerTypeOK' /\ AtRest'
  <2>1. mounts' = [mounts EXCEPT ![p] = [mounts[p] EXCEPT ![n] = NoMount]] /\ path' = [path EXCEPT ![p] = @ \ {mounts[p][n]}]
    BY <1>14 DEF Unmount
  <2>2. mounts' \in [Procs -> [Names -> Stacks \union {NoMount}]] /\ path' \in [Procs -> SUBSET Stacks]
    BY <2>1
  <2> QED BY <1>14, <2>2 DEF Unmount
<1> QED BY <1>1, <1>2, <1>3, <1>4, <1>5, <1>6, <1>7, <1>8, <1>9, <1>10, <1>11, <1>12, <1>13, <1>14 DEF LayerNext

\* A directory that exists or was spoilt stays one of these.
LEMMA StandsStep == ASSUME LayerTypeOK, LayerNext PROVE there \union spoilt \subseteq there' \union spoilt'
BY DEF LayerNext, MakeDir, Extracted, SkipLayer, CopyBegin, CopyEnd, FillFails, RemoveEnd, ComposeEnd, End,
   StoreLayer, CacheLayer, Remove, Delete, Mount, Unmount, diskVars

\* Mounts and the import path stay in step with each other.
LEMMA MountsStep ==
  ASSUME LayerTypeOK, OwnMounts, PathExact, FilledIsThere, LayerNext
  PROVE  OwnMounts' /\ PathExact'
<1> USE DEF OwnMounts, PathExact
<1>1. there \union spoilt \subseteq there' \union spoilt'
  BY StandsStep
<1>2. ASSUME UNCHANGED mountVars PROVE OwnMounts' /\ PathExact'
  BY <1>1, <1>2 DEF mountVars
<1>3. ASSUME NEW p \in Procs, NEW n \in Names, Mounted(p, n), LayersOf[n] \in there' \union spoilt'
      PROVE  OwnMounts' /\ PathExact'
  <2>1. mounts' = [mounts EXCEPT ![p] = [mounts[p] EXCEPT ![n] = LayersOf[n]]]
        /\ path' = [path EXCEPT ![p] = path[p] \union {LayersOf[n]}]
    BY <1>3 DEF Mounted
  <2>2. \A q \in Procs, m \in Names :
          mounts'[q][m] = IF q = p /\ m = n THEN LayersOf[n] ELSE mounts[q][m]
    BY <2>1 DEF LayerTypeOK
  <2>3. \A q \in Procs : path'[q] = IF q = p THEN path[p] \union {LayersOf[n]} ELSE path[q]
    BY <2>1 DEF LayerTypeOK
  <2>4. OwnMounts'
    BY <1>1, <1>3, <2>2
  <2>5. ASSUME NEW q \in Procs PROVE path'[q] \subseteq {mounts'[q][m] : m \in Names}
    <3> SUFFICES ASSUME NEW s \in path'[q] PROVE \E m \in Names : mounts'[q][m] = s
      OBVIOUS
    <3>1. CASE q = p /\ s = LayersOf[n]
      BY <2>2, <3>1
    <3>2. CASE ~(q = p /\ s = LayersOf[n])
      <4>1. s \in path[q]
        BY <2>3, <3>2
      <4>2. PICK m \in Names : mounts[q][m] = s
        BY <4>1
      <4>3. s # NoMount
        BY <4>1, LayerAssumption DEF LayerTypeOK, Dirs
      <4>4. q = p => m # n
        BY <3>2, <4>2, <4>3
      <4> QED BY <2>2, <4>2, <4>4
    <3> QED BY <3>1, <3>2
  <2> QED BY <2>2, <2>3, <2>4, <2>5
<1>4. ASSUME NEW p \in Procs, ComposeEnd(p) PROVE OwnMounts' /\ PathExact'
  <2>1. arg[p] \in Names /\ pc[p] = "fill" /\ Mounted(p, arg[p])
    BY <1>4 DEF ComposeEnd
  <2>2. Fills(p, LayersOf[arg[p]]) /\ LayersOf[arg[p]] \in Dirs
    BY <2>1, TargetFacts, StackFacts DEF Fills
  <2> QED BY <1>1, <1>3, <2>1, <2>2 DEF FilledIsThere
<1>5. ASSUME NEW p \in Procs, End(p) PROVE OwnMounts' /\ PathExact'
  <2>1. \A q \in Procs, m \in Names : mounts'[q][m] = IF q = p THEN NoMount ELSE mounts[q][m]
    BY <1>5 DEF End, LayerTypeOK
  <2>2. \A q \in Procs : path'[q] = IF q = p THEN {} ELSE path[q]
    BY <1>5 DEF End, LayerTypeOK
  <2> QED BY <1>1, <2>1, <2>2
<1>6. ASSUME NEW p \in Procs, NEW n \in Names, Mount(p, n) PROVE OwnMounts' /\ PathExact'
  <2>1. CASE LayersOf[n] \in there
    BY <1>1, <1>3, <1>6, <2>1 DEF Mount
  <2>2. CASE LayersOf[n] \notin there
    BY <1>2, <1>6, <2>2 DEF Mount
  <2> QED BY <2>1, <2>2
<1>7. ASSUME NEW p \in Procs, NEW n \in Names, Unmount(p, n) PROVE OwnMounts' /\ PathExact'
  <2>1. mounts' = [mounts EXCEPT ![p] = [mounts[p] EXCEPT ![n] = NoMount]]
        /\ path' = [path EXCEPT ![p] = path[p] \ {mounts[p][n]}] /\ mounts[p][n] = LayersOf[n]
    BY <1>7 DEF Unmount
  <2>2. \A q \in Procs, m \in Names :
          mounts'[q][m] = IF q = p /\ m = n THEN NoMount ELSE mounts[q][m]
    BY <2>1 DEF LayerTypeOK
  <2>3. \A q \in Procs : path'[q] = IF q = p THEN path[p] \ {LayersOf[n]} ELSE path[q]
    BY <2>1 DEF LayerTypeOK
  <2>4. OwnMounts'
    BY <1>1, <2>2
  <2>5. ASSUME NEW q \in Procs PROVE path'[q] \subseteq {mounts'[q][m] : m \in Names}
    <3> SUFFICES ASSUME NEW s \in path'[q] PROVE \E m \in Names : mounts'[q][m] = s
      OBVIOUS
    <3>1. s \in path[q] /\ (q = p => s # LayersOf[n])
      BY <2>3
    <3>2. PICK m \in Names : mounts[q][m] = s
      BY <3>1
    <3> QED BY <2>1, <2>2, <3>1, <3>2
  <2>6. ASSUME NEW q \in Procs, NEW m \in Names, mounts'[q][m] # NoMount,
               \A k \in Names \ {m} : LayersOf[k] # LayersOf[m]
        PROVE  mounts'[q][m] \in path'[q]
    BY <2>2, <2>3, <2>6
  <2> QED BY <2>4, <2>5, <2>6
<1>8. ASSUME NEW p \in Procs,
             \/ MakeDir(p) \/ Extracted(p) \/ SkipLayer(p) \/ CopyBegin(p) \/ CopyEnd(p) \/ FillFails(p)
             \/ RemoveEnd(p)
             \/ \E l \in Layers : StoreLayer(p, l) \/ CacheLayer(p, l)
             \/ \E dirs \in Removals : Remove(p, dirs)
             \/ \E d \in Dirs : Delete(p, d)
      PROVE  UNCHANGED mountVars
  BY <1>8 DEF MakeDir, Extracted, SkipLayer, CopyBegin, CopyEnd, FillFails, RemoveEnd, StoreLayer, CacheLayer,
     Remove, Delete, mountVars
<1> QED BY <1>2, <1>4, <1>5, <1>6, <1>7, <1>8 DEF LayerNext

\* A process that is to rest, or to make or remove a directory, fills none; the others' steps are
\* as they were.
Leaves(p) ==
  /\ pc'[p] \notin {"fill", "copy"}
  /\ \A q \in Procs \ {p} : pc'[q] = pc[q] /\ arg'[q] = arg[q] /\ step'[q] = step[q] /\ (q \in lost' <=> q \in lost)

\* A process that goes on to fill the directory that it fills.
GoesOn(p) ==
  /\ {pc[p], pc'[p]} \subseteq {"fill", "copy"}
  /\ arg' = arg /\ lost' = lost
  /\ \A q \in Procs \ {p} : pc'[q] = pc[q] /\ step'[q] = step[q]

\* A process that rests leaves.
LEMMA RestLeaves == ASSUME Registers, NEW p \in Procs, Rest(p) PROVE Leaves(p)
BY DEF Registers, Rest, Begin, Leaves

\* The steps after which a process fills nothing, and what they do to the directories.
LEMMA LeavingSteps ==
  ASSUME Registers, NEW p \in Procs
  PROVE  /\ Extracted(p) \/ FillFails(p) \/ ComposeEnd(p) \/ End(p) => Leaves(p)
         /\ \/ MakeDir(p) /\ Target(p) \in there
            \/ RemoveEnd(p)
            \/ \E l \in Layers : StoreLayer(p, l) \/ CacheLayer(p, l)
            \/ \E dirs \in Removals : Remove(p, dirs)
            \/ \E n \in Names : Mount(p, n) \/ Unmount(p, n)
            => Leaves(p) /\ pc[p] \notin {"fill", "copy"} /\ UNCHANGED diskVars
<1>1. Extracted(p) \/ FillFails(p) \/ ComposeEnd(p) \/ End(p) => Leaves(p)
  BY RestLeaves DEF Extracted, FillFails, ComposeEnd, End
<1>2. ASSUME MakeDir(p), Target(p) \in there PROVE Leaves(p) /\ pc[p] \notin {"fill", "copy"} /\ UNCHANGED diskVars
  BY <1>2, RestLeaves DEF MakeDir
<1>3. ASSUME RemoveEnd(p) PROVE Leaves(p) /\ pc[p] \notin {"fill", "copy"} /\ UNCHANGED diskVars
  <2>1. CASE todo[p] = {} /\ arg[p] \in Layers
    BY <1>3, <2>1 DEF RemoveEnd, Begin, Leaves, Registers
  <2>2. CASE ~(todo[p] = {} /\ arg[p] \in Layers)
    BY <1>3, <2>2, RestLeaves DEF RemoveEnd
  <2> QED BY <2>1, <2>2
<1>4. ASSUME NEW l \in Layers, StoreLayer(p, l) \/ CacheLayer(p, l)
      PROVE  Leaves(p) /\ pc[p] \notin {"fill", "copy"} /\ UNCHANGED diskVars
  BY <1>4 DEF StoreLayer, CacheLayer, Begin, Leaves, Registers
<1>5. ASSUME NEW dirs \in Removals, Remove(p, dirs)
      PROVE  Leaves(p) /\ pc[p] \notin {"fill", "copy"} /\ UNCHANGED diskVars
  BY <1>5 DEF Remove, Begin, Leaves, Registers
<1>6. ASSUME NEW n \in Names, Mount(p, n) \/ Unmount(p, n)
      PROVE  Leaves(p) /\ pc[p] \notin {"fill", "copy"} /\ UNCHANGED diskVars
  BY <1>6 DEF Mount, Unmount, Begin, Leaves, Registers, procVars
<1> QED BY <1>1, <1>2, <1>3, <1>4, <1>5, <1>6

\* The steps in the middle of composing.
LEMMA GoingOnSteps ==
  ASSUME Registers, NEW p \in Procs, SkipLayer(p) \/ CopyBegin(p) \/ CopyEnd(p)
  PROVE  GoesOn(p)
<1> USE DEF Registers, GoesOn, Begin
<1>1. CASE SkipLayer(p)
  BY <1>1 DEF SkipLayer
<1>2. CASE CopyBegin(p)
  BY <1>2 DEF CopyBegin
<1>3. CASE CopyEnd(p)
  BY <1>3 DEF CopyEnd
<1> QED BY <1>1, <1>2, <1>3

\* What is filled after such steps was filled before.
LEMMA LeavesFills ==
  ASSUME NEW p \in Procs, Leaves(p)
  PROVE  \A q \in Procs, d \in Dirs : Fills(q, d)' <=> q # p /\ Fills(q, d)
BY DEF Leaves, Fills, Target

LEMMA GoesOnFills ==
  ASSUME NEW p \in Procs, GoesOn(p)
  PROVE  \A q \in Procs, d \in Dirs : Fills(q, d)' <=> Fills(q, d)
BY DEF GoesOn, Fills, Target

\* Two processes fill one directory only if it was taken away from one of them.
LEMMA FillsStep ==
  ASSUME LayerTypeOK, AtRest, FilledIsThere, FilledByOne, LayerNext
  PROVE  FilledIsThere' /\ FilledByOne'
<1> USE DEF FilledIsThere, FilledByOne
<1>0. Registers /\ there \union spoilt \subseteq there' \union spoilt'
  BY StandsStep DEF LayerTypeOK, Registers
<1>1. ASSUME NEW p \in Procs, Leaves(p), there \subseteq there' PROVE FilledIsThere' /\ FilledByOne'
  <2>1. \A q \in Procs, d \in Dirs : Fills(q, d)' <=> q # p /\ Fills(q, d)
    BY <1>1, LeavesFills
  <2>2. \A q \in Procs \ {p} : q \in lost' <=> q \in lost
    BY <1>1 DEF Leaves
  <2> QED BY <1>0, <1>1, <2>1, <2>2
<1>2. ASSUME NEW p \in Procs, GoesOn(p), there \subseteq there' PROVE FilledIsThere' /\ FilledByOne'
  <2>1. \A q \in Procs, d \in Dirs : Fills(q, d)' <=> Fills(q, d)
    BY <1>2, GoesOnFills
  <2> QED BY <1>0, <1>2, <2>1 DEF GoesOn
<1>3. ASSUME NEW p \in Procs, MakeDir(p), Target(p) \notin there PROVE FilledIsThere' /\ FilledByOne'
  <2>1. /\ pc' = [pc EXCEPT ![p] = "fill"] /\ arg' = [arg EXCEPT ![p] = arg[p]]
        /\ lost' = lost /\ there' = there \union {Target(p)}
    BY <1>3 DEF MakeDir, Begin
  <2>2. \A q \in Procs \ {p} : pc'[q] = pc[q] /\ arg'[q] = arg[q]
    BY <1>0, <2>1 DEF Registers
  <2>3. arg'[p] = arg[p]
    BY <1>0, <2>1 DEF Registers
  <2>4. \A q \in Procs, d \in Dirs : Fills(q, d)' => Fills(q, d) \/ (q = p /\ d = Target(p))
    BY <2>2, <2>3 DEF Fills, Target
  <2> QED BY <1>0, <1>3, <2>1, <2>4
<1>4. ASSUME NEW p \in Procs, NEW e \in Dirs, Delete(p, e) PROVE FilledIsThere' /\ FilledByOne'
  <2>1. UNCHANGED <<pc, arg>> /\ lost' = lost \union {q \in Procs : Fills(q, e)} /\ there \ {e} \subseteq there'
    BY <1>4 DEF Delete
  <2>2. \A q \in Procs, d \in Dirs : Fills(q, d)' <=> Fills(q, d)
    BY <2>1 DEF Fills, Target
  <2> QED BY <1>0, <2>1, <2>2
<1>5. ASSUME NEW p \in Procs, Extracted(p) \/ FillFails(p) \/ ComposeEnd(p) \/ End(p) PROVE there \subseteq there'
  BY <1>5 DEF Extracted, FillFails, ComposeEnd, End, diskVars
<1>6. ASSUME NEW p \in Procs, SkipLayer(p) \/ CopyBegin(p) \/ CopyEnd(p) PROVE there \subseteq there'
  BY <1>6 DEF SkipLayer, CopyBegin, CopyEnd, diskVars
<1>7. UNCHANGED diskVars => there \subseteq there'
  BY DEF diskVars
<1>8. ASSUME NEW p \in Procs, MakeDir(p) PROVE FilledIsThere' /\ FilledByOne'
  BY <1>0, <1>1, <1>3, <1>7, <1>8, LeavingSteps
<1>9. ASSUME NEW p \in Procs, Extracted(p) \/ FillFails(p) \/ ComposeEnd(p) \/ End(p)
      PROVE  FilledIsThere' /\ FilledByOne'
  BY <1>0, <1>1, <1>5, <1>9, LeavingSteps
<1>10. ASSUME NEW p \in Procs, SkipLayer(p) \/ CopyBegin(p) \/ CopyEnd(p) PROVE FilledIsThere' /\ FilledByOne'
  BY <1>0, <1>2, <1>6, <1>10, GoingOnSteps
<1>11. ASSUME NEW p \in Procs,
              \/ RemoveEnd(p)
              \/ \E l \in Layers : StoreLayer(p, l) \/ CacheLayer(p, l)
              \/ \E dirs \in Removals : Remove(p, dirs)
              \/ \E n \in Names : Mount(p, n) \/ Unmount(p, n)
       PROVE  FilledIsThere' /\ FilledByOne'
  BY <1>0, <1>1, <1>7, <1>11, LeavingSteps
<1> QED BY <1>4, <1>8, <1>9, <1>10, <1>11 DEF LayerNext

\* A directory holds nothing but what belongs there.
LEMMA OwnContentStep == ASSUME LayerTypeOK, OwnContent, LayerNext PROVE OwnContent'
<1> USE DEF OwnContent, LayerTypeOK
<1>1. ASSUME NEW p \in Procs, MakeDir(p) PROVE OwnContent'
  <2>1. files' = files \/ files' = [files EXCEPT ![Target(p)] = {}]
    BY <1>1 DEF MakeDir, diskVars
  <2> QED BY <2>1
<1>2. ASSUME NEW p \in Procs, Extracted(p) PROVE OwnContent'
  <2>1. arg[p] \in Layers /\ \E whole \in SUBSET {arg[p]} : files' = [files EXCEPT ![arg[p]] = whole]
    BY <1>2 DEF Extracted
  <2> QED BY <2>1 DEF Content
<1>3. ASSUME NEW p \in Procs, CopyEnd(p) PROVE OwnContent'
  <2>1. /\ arg[p] \in Names /\ Target(p) = LayersOf[arg[p]] /\ Target(p) \in Dirs
        /\ step[p] + 1 \in 1 .. Len(LayersOf[arg[p]])
    BY <1>3, TargetFacts, StackFacts DEF CopyEnd
  <2>2. Source(p) \in Content(Target(p))
    <3>1. Content(LayersOf[arg[p]]) = {LayersOf[arg[p]][i] : i \in 1 .. Len(LayersOf[arg[p]])}
      BY <2>1, StackFacts
    <3>2. LayersOf[arg[p]][step[p] + 1] \in {LayersOf[arg[p]][i] : i \in 1 .. Len(LayersOf[arg[p]])}
      BY <2>1
    <3> QED BY <2>1, <3>1, <3>2 DEF Source
  <2>3. \A d \in Dirs : files'[d] \subseteq files[d] \union {x \in {Source(p)} : d = Target(p)}
    BY <1>3, <2>1 DEF CopyEnd
  <2> QED BY <2>2, <2>3
<1>4. ASSUME NEW p \in Procs, NEW d \in Dirs, Delete(p, d) PROVE OwnContent'
  BY <1>4 DEF Delete
<1>5. ASSUME UNCHANGED files PROVE OwnContent'
  BY <1>5
<1> QED BY <1>1, <1>2, <1>3, <1>4, <1>5 DEF LayerNext, SkipLayer, CopyBegin, FillFails, RemoveEnd, ComposeEnd,
     End, StoreLayer, CacheLayer, Remove, Mount, Unmount, diskVars

\* What a process has composed stays, and what nobody fills any more is complete.
LEMMA ContentStep ==
  ASSUME LayerInv, LayerNext, Registers'
  PROVE  CopiedSoFar' /\ UnspoiltIsWhole'
<1> USE DEF CopiedSoFar, UnspoiltIsWhole
<1>0. Registers /\ LayerTypeOK /\ CopiedSoFar /\ UnspoiltIsWhole
  BY DEF LayerInv, LayerTypeOK, Registers
<1>1. ASSUME NEW p \in Procs, Leaves(p), pc[p] \notin {"fill", "copy"}, UNCHANGED diskVars
      PROVE  CopiedSoFar' /\ UnspoiltIsWhole'
  <2>1. \A q \in Procs, d \in Dirs : Fills(q, d)' <=> Fills(q, d)
    BY <1>1, LeavesFills DEF Fills
  <2>2. UNCHANGED <<there, files, spoilt>>
    BY <1>1 DEF diskVars
  <2>3. CopiedSoFar'
    BY <1>0, <1>1, <2>2 DEF Leaves
  <2>4. \A q \in Procs \ lost, d \in Dirs : Fills(q, d) => q \in Procs \ lost' /\ Fills(q, d)'
    BY <1>1, <2>1 DEF Fills, Leaves
  <2> QED BY <1>0, <2>2, <2>3, <2>4 DEF LayerTypeOK
<1>2. ASSUME NEW p \in Procs, MakeDir(p), Target(p) \notin there PROVE CopiedSoFar' /\ UnspoiltIsWhole'
  <2> DEFINE s == Target(p)
  <2>1. /\ pc' = [pc EXCEPT ![p] = "fill"] /\ arg' = [arg EXCEPT ![p] = arg[p]] /\ pc[p] = "make"
        /\ lost' = lost /\ step' = step /\ there' = there \union {s} /\ spoilt' = spoilt \ {s}
        /\ files' = [files EXCEPT ![s] = {}]
    BY <1>2 DEF MakeDir, Begin
  <2>2. s \in Dirs /\ step[p] = 0 /\ p \notin lost
    BY <1>0, <2>1, TargetFacts DEF LayerInv, AtRest
  <2>3. arg' = arg /\ pc'[p] = "fill" /\ \A q \in Procs \ {p} : pc'[q] = pc[q]
    BY <1>0, <2>1 DEF Registers
  <2>4. \A q \in Procs, d \in Dirs : Fills(q, d) => Fills(q, d)'
    BY <2>3 DEF Fills, Target
  <2>5. \A d \in Dirs : d = s => Fills(p, d)'
    BY <2>3 DEF Fills, Target
  <2>6. \A d \in Dirs : d # s => files'[d] = files[d]
    BY <2>1
  <2> HIDE DEF s
  <2>7. UnspoiltIsWhole'
    <3> SUFFICES ASSUME NEW d \in there' \ spoilt'
                 PROVE  files'[d] = Content(d) \/ \E q \in Procs \ lost' : Fills(q, d)'
      OBVIOUS
    <3>1. CASE d = s
      BY <2>1, <2>2, <2>5, <3>1
    <3>2. CASE d # s
      <4>1. d \in there \ spoilt /\ d \in Dirs
        BY <1>0, <2>1, <3>2 DEF LayerTypeOK
      <4> QED BY <1>0, <2>1, <2>4, <2>6, <3>2, <4>1
    <3> QED BY <3>1, <3>2
  <2>8. ASSUME NEW q \in Procs, pc'[q] \in {"fill", "copy"}, arg'[q] \in Names, q \notin lost',
               LayersOf[arg'[q]] \notin spoilt'
        PROVE  \A i \in 1 .. step'[q] : LayersOf[arg'[q]][i] \in files'[LayersOf[arg'[q]]]
    <3>1. CASE q = p
      BY <2>1, <2>2, <3>1
    <3>2. CASE q # p
      <4>1. LayersOf[arg[q]] \in Dirs /\ Fills(q, LayersOf[arg[q]])
        BY <1>0, <2>3, <2>8, <3>2, TargetFacts, StackFacts DEF Fills
      <4>2. LayersOf[arg[q]] # s
        BY <1>2, <2>1, <2>8, <4>1 DEF LayerInv, FilledIsThere, s
      <4> QED BY <1>0, <2>1, <2>3, <2>6, <2>8, <3>2, <4>1, <4>2
    <3> QED BY <3>1, <3>2
  <2> QED BY <2>7, <2>8
<1>3. ASSUME NEW p \in Procs, Extracted(p) PROVE CopiedSoFar' /\ UnspoiltIsWhole'
  <2> DEFINE l == arg[p]
  <2> DEFINE mixed == p \in lost \/ \E q \in Procs \ {p} : Fills(q, l)
  <2>1. /\ l \in Layers /\ l \in Dirs /\ pc[p] = "fill" /\ there' = there \union {l}
        /\ \E whole \in SUBSET {l} : files' = [files EXCEPT ![l] = whole]
        /\ mixed => spoilt' = spoilt \union {l}
        /\ ~mixed => spoilt' = spoilt /\ files' = [files EXCEPT ![l] = {l}]
        /\ spoilt \subseteq spoilt'
    BY <1>3 DEF Extracted, Dirs
  <2>2. \A d \in Dirs \ {l} : files'[d] = files[d]
    BY <2>1
  <2>3. \A q \in Procs, d \in Dirs : Fills(q, d)' <=> q # p /\ Fills(q, d)
    BY <1>0, <1>3, LeavingSteps, LeavesFills
  <2>4. Leaves(p)
    BY <1>0, <1>3, LeavingSteps
  <2>5. \A d \in Dirs : Fills(p, d) => d = l
    BY <2>1 DEF Fills, Target
  <2>6. CopiedSoFar'
    <3> SUFFICES ASSUME NEW q \in Procs, pc'[q] \in {"fill", "copy"}, arg'[q] \in Names, q \notin lost',
                        LayersOf[arg'[q]] \notin spoilt'
                 PROVE  \A i \in 1 .. step'[q] : LayersOf[arg'[q]][i] \in files'[LayersOf[arg'[q]]]
      OBVIOUS
    <3>1. q # p /\ arg'[q] = arg[q] /\ pc'[q] = pc[q] /\ step'[q] = step[q] /\ q \notin lost
      BY <2>4 DEF Leaves
    <3>2. LayersOf[arg[q]] \in Dirs /\ LayersOf[arg[q]] # l
      BY <2>1, <3>1, StackFacts
    <3> QED BY <1>0, <2>1, <2>2, <3>1, <3>2
  <2>7. UnspoiltIsWhole'
    <3> SUFFICES ASSUME NEW d \in there' \ spoilt'
                 PROVE  files'[d] = Content(d) \/ \E q \in Procs \ lost' : Fills(q, d)'
      OBVIOUS
    <3>1. CASE d = l
      <4>1. ~mixed
        BY <2>1, <3>1
      <4> QED BY <1>0, <2>1, <3>1, <4>1 DEF Content, LayerTypeOK
    <3>2. CASE d # l
      <4>1. d \in there \ spoilt /\ d \in Dirs /\ files'[d] = files[d]
        BY <1>0, <2>1, <2>2, <3>2 DEF LayerTypeOK
      <4> QED BY <1>0, <2>3, <2>4, <2>5, <3>2, <4>1 DEF Leaves
    <3> QED BY <3>1, <3>2
  <2> QED BY <2>6, <2>7
<1>4. ASSUME NEW p \in Procs, FillFails(p) \/ End(p) PROVE CopiedSoFar' /\ UnspoiltIsWhole'
  <2>1. /\ UNCHANGED <<there, files>> /\ spoilt \subseteq spoilt'
        /\ \A d \in Dirs : Fills(p, d) => d \in spoilt'
    BY <1>4 DEF FillFails, End, Fills
  <2>2. Leaves(p)
    BY <1>0, <1>4, LeavingSteps
  <2>3. \A q \in Procs, d \in Dirs : Fills(q, d)' <=> q # p /\ Fills(q, d)
    BY <2>2, LeavesFills
  <2>4. CopiedSoFar'
    BY <1>0, <2>1, <2>2 DEF Leaves
  <2>5. UnspoiltIsWhole'
    BY <1>0, <2>1, <2>2, <2>3 DEF Leaves, LayerTypeOK
  <2> QED BY <2>4, <2>5
<1>5. ASSUME NEW p \in Procs, ComposeEnd(p) PROVE CopiedSoFar' /\ UnspoiltIsWhole'
  <2> DEFINE s == LayersOf[arg[p]]
  <2>1. /\ UNCHANGED <<there, files, spoilt>> /\ arg[p] \in Names /\ pc[p] = "fill" /\ step[p] = Len(s)
        /\ Target(p) = s /\ s \in Dirs
    BY <1>0, <1>5, TargetFacts, StackFacts DEF ComposeEnd, diskVars
  <2>2. Leaves(p)
    BY <1>0, <1>5, LeavingSteps
  <2>3. \A q \in Procs, d \in Dirs : Fills(q, d)' <=> q # p /\ Fills(q, d)
    BY <2>2, LeavesFills
  <2>4. CopiedSoFar'
    BY <1>0, <2>1, <2>2 DEF Leaves
  <2>5. \A d \in Dirs : Fills(p, d) => d = s
    BY <2>1 DEF Fills
  <2>6. p \notin lost /\ s \notin spoilt => files[s] = Content(s)
    <3> SUFFICES ASSUME p \notin lost, s \notin spoilt PROVE files[s] = Content(s)
      OBVIOUS
    <3>1. \A i \in 1 .. Len(s) : s[i] \in files[s]
      BY <1>0, <2>1
    <3>2. Content(s) = {s[i] : i \in 1 .. Len(s)}
      BY <2>1, StackFacts
    <3>3. files[s] \subseteq Content(s)
      BY <2>1 DEF LayerInv, OwnContent
    <3> QED BY <3>1, <3>2, <3>3
  <2> HIDE DEF s
  <2>7. UnspoiltIsWhole'
    <3> SUFFICES ASSUME NEW d \in there \ spoilt
                 PROVE  files[d] = Content(d) \/ \E q \in Procs \ lost' : Fills(q, d)'
      BY <2>1
    <3>1. d \in Dirs
      BY <1>0 DEF LayerTypeOK
    <3>2. CASE \E q \in Procs \ lost : q # p /\ Fills(q, d)
      BY <2>2, <2>3, <3>1, <3>2 DEF Leaves
    <3>3. CASE p \notin lost /\ Fills(p, d)
      BY <2>5, <2>6, <3>1, <3>3
    <3> QED BY <1>0, <3>2, <3>3
  <2> QED BY <2>4, <2>7
<1>6. ASSUME NEW p \in Procs, SkipLayer(p) \/ CopyBegin(p) \/ CopyEnd(p) PROVE CopiedSoFar' /\ UnspoiltIsWhole'
  <2> DEFINE s == LayersOf[arg[p]]
  <2>1. GoesOn(p) /\ \A q \in Procs, d \in Dirs : Fills(q, d)' <=> Fills(q, d)
    BY <1>0, <1>6, GoingOnSteps, GoesOnFills
  <2>2. arg[p] \in Names /\ pc[p] \in {"fill", "copy"} /\ Target(p) = s /\ s \in Dirs
        /\ step[p] \in Nat
    BY <1>0, <1>6, TargetFacts, StackFacts DEF SkipLayer, CopyBegin, CopyEnd, LayerTypeOK
  <2>3. spoilt \subseteq spoilt' /\ there' \subseteq there \union {s}
        /\ \A d \in Dirs : d # s => files'[d] = files[d]
    BY <1>0, <1>6, <2>2 DEF SkipLayer, CopyBegin, CopyEnd, diskVars, LayerTypeOK
  <2>4. s \notin spoilt' => files[s] \subseteq files'[s]
    BY <1>0, <1>6, <2>2 DEF SkipLayer, CopyBegin, CopyEnd, diskVars, LayerTypeOK
  <2>5. s \notin spoilt' => step'[p] = step[p] \/ (step'[p] = step[p] + 1 /\ s[step[p] + 1] \in files'[s])
    <3>1. CASE SkipLayer(p)
      BY <2>2, <3>1 DEF SkipLayer
    <3>2. CASE CopyBegin(p)
      BY <3>2 DEF CopyBegin
    <3>3. CASE CopyEnd(p)
      <4>1. step'[p] = step[p] + 1
        BY <1>0, <3>3 DEF CopyEnd, Registers
      <4>2. ASSUME s \notin spoilt' PROVE Source(p) \in files'[s]
        <5>1. p \notin torn /\ files' = [files EXCEPT ![s] = @ \union {Source(p)}]
          BY <2>2, <3>3, <4>2 DEF CopyEnd
        <5> HIDE DEF s
        <5> QED BY <1>0, <2>2, <5>1 DEF LayerTypeOK
      <4> QED BY <4>1, <4>2 DEF Source
    <3> QED BY <1>6, <3>1, <3>2, <3>3
  <2> HIDE DEF s
  <2>6. CopiedSoFar'
    <3> SUFFICES ASSUME NEW q \in Procs, pc'[q] \in {"fill", "copy"}, arg'[q] \in Names, q \notin lost',
                        LayersOf[arg'[q]] \notin spoilt',
                        NEW i \in 1 .. step'[q]
                 PROVE  LayersOf[arg'[q]][i] \in files'[LayersOf[arg'[q]]]
      OBVIOUS
    <3>1. arg'[q] = arg[q] /\ q \notin lost /\ pc[q] \in {"fill", "copy"} /\ LayersOf[arg[q]] \notin spoilt
          /\ LayersOf[arg[q]] \in Dirs
      BY <2>1, <2>2, <2>3, StackFacts DEF GoesOn
    <3>2. \A j \in 1 .. step[q] : LayersOf[arg[q]][j] \in files[LayersOf[arg[q]]]
      BY <1>0, <3>1
    <3>3. \A j \in 1 .. step[q] : LayersOf[arg[q]][j] \in files'[LayersOf[arg[q]]]
      BY <2>3, <2>4, <3>1, <3>2
    <3>4. CASE q # p
      BY <2>1, <3>1, <3>3, <3>4 DEF GoesOn
    <3>5. CASE q = p /\ step'[p] = step[p]
      BY <3>1, <3>3, <3>5
    <3>6. CASE q = p /\ step'[p] = step[p] + 1 /\ s[step[p] + 1] \in files'[s]
      <4>1. i \in 1 .. step[p] \/ i = step[p] + 1
        BY <2>2, <3>6
      <4> QED BY <3>1, <3>3, <3>6, <4>1 DEF s
    <3> QED BY <2>5, <3>1, <3>4, <3>5, <3>6 DEF s
  <2>7. UnspoiltIsWhole'
    <3> SUFFICES ASSUME NEW d \in there' \ spoilt'
                 PROVE  files'[d] = Content(d) \/ \E q \in Procs \ lost' : Fills(q, d)'
      OBVIOUS
    <3>1. d \in Dirs
      BY <1>0, <2>2, <2>3 DEF LayerTypeOK
    <3>2. CASE d # s
      <4>1. d \in there \ spoilt /\ files'[d] = files[d]
        BY <2>3, <3>1, <3>2
      <4> QED BY <1>0, <2>1, <3>1, <4>1 DEF GoesOn
    <3>3. CASE d = s
      <4>1. Fills(p, s)
        BY <2>2 DEF Fills
      <4>2. CASE p \notin lost
        BY <2>1, <2>2, <3>3, <4>1, <4>2 DEF GoesOn
      <4>3. CASE p \in lost
        <5>1. s \in there \ spoilt
          BY <2>2, <2>3, <3>3, <4>1 DEF LayerInv, FilledIsThere
        <5>2. CASE \E q \in Procs \ lost : Fills(q, s)
          BY <2>1, <2>2, <3>3, <5>2 DEF GoesOn
        <5>3. CASE files[s] = Content(s)
          <6>1. files'[s] \subseteq Content(s)
            BY <2>2, OwnContentStep DEF LayerInv, OwnContent
          <6> QED BY <2>4, <3>3, <5>3, <6>1
        <5> QED BY <1>0, <5>1, <5>2, <5>3
      <4> QED BY <4>2, <4>3
    <3> QED BY <3>2, <3>3
  <2> QED BY <2>6, <2>7
<1>7. ASSUME NEW p \in Procs, NEW e \in Dirs, Delete(p, e) PROVE CopiedSoFar' /\ UnspoiltIsWhole'
  <2>1. /\ UNCHANGED <<pc, arg, step>> /\ lost' = lost \union {q \in Procs : Fills(q, e)}
        /\ there' \subseteq there /\ spoilt' = spoilt \union {e} /\ files' = [files EXCEPT ![e] = {}]
    BY <1>7 DEF Delete
  <2>2. \A q \in Procs, d \in Dirs : Fills(q, d)' <=> Fills(q, d)
    BY <2>1 DEF Fills, Target
  <2>3. \A d \in Dirs \ {e} : files'[d] = files[d]
    BY <1>0, <2>1 DEF LayerTypeOK
  <2>4. CopiedSoFar'
    BY <1>0, <2>1, <2>3, StackFacts
  <2>5. UnspoiltIsWhole'
    <3> SUFFICES ASSUME NEW d \in there' \ spoilt'
                 PROVE  files'[d] = Content(d) \/ \E q \in Procs \ lost' : Fills(q, d)'
      OBVIOUS
    <3>1. d \in there \ spoilt /\ d # e /\ d \in Dirs
      BY <1>0, <2>1 DEF LayerTypeOK
    <3>2. \A q \in Procs \ lost : Fills(q, d) => q \notin lost'
      BY <2>1, <3>1 DEF Fills
    <3> QED BY <1>0, <2>2, <2>3, <3>1, <3>2
  <2> QED BY <2>4, <2>5
<1>8. ASSUME NEW p \in Procs, MakeDir(p) PROVE CopiedSoFar' /\ UnspoiltIsWhole'
  BY <1>0, <1>1, <1>2, <1>8, LeavingSteps
<1>9. ASSUME NEW p \in Procs,
             \/ RemoveEnd(p)
             \/ \E l \in Layers : StoreLayer(p, l) \/ CacheLayer(p, l)
             \/ \E dirs \in Removals : Remove(p, dirs)
             \/ \E n \in Names : Mount(p, n) \/ Unmount(p, n)
      PROVE  CopiedSoFar' /\ UnspoiltIsWhole'
  BY <1>0, <1>1, <1>9, LeavingSteps
<1> QED BY <1>3, <1>4, <1>5, <1>6, <1>7, <1>8, <1>9 DEF LayerNext

\* The whole invariant is inductive.
LEMMA LayerInvStep == LayerInv /\ [LayerNext]_layerVars => LayerInv'
<1> SUFFICES ASSUME LayerInv, [LayerNext]_layerVars PROVE LayerInv'
  OBVIOUS
<1>1. CASE LayerNext
  <2>1. LayerTypeOK' /\ AtRest'
    BY <1>1, LayerTypesStep DEF LayerInv
  <2>2. Registers'
    BY <2>1 DEF LayerTypeOK, Registers
  <2>3. OwnMounts' /\ PathExact' /\ FilledIsThere' /\ FilledByOne' /\ OwnContent'
    BY <1>1, MountsStep, FillsStep, OwnContentStep DEF LayerInv
  <2>4. CopiedSoFar' /\ UnspoiltIsWhole'
    BY <1>1, <2>2, ContentStep
  <2> QED BY <2>1, <2>3, <2>4 DEF LayerInv
<1>2. CASE UNCHANGED layerVars
  BY <1>2 DEF LayerInv, layerVars, diskVars, procVars, mountVars, LayerTypeOK, AtRest, OwnMounts, PathExact,
     FilledIsThere, FilledByOne, OwnContent, CopiedSoFar, UnspoiltIsWhole, Fills, Target
<1> QED BY <1>1, <1>2

\* It holds of the empty store.
LEMMA LayerInvInit == LayerInit => LayerInv
<1> SUFFICES ASSUME LayerInit PROVE LayerInv
  OBVIOUS
<1> USE DEF LayerInit
<1>1. LayerTypeOK /\ AtRest
  BY DEF LayerTypeOK, AtRest
<1>2. OwnMounts /\ PathExact /\ FilledIsThere /\ FilledByOne
  BY DEF OwnMounts, PathExact, FilledIsThere, FilledByOne, Fills
<1>3. OwnContent /\ CopiedSoFar /\ UnspoiltIsWhole
  BY DEF OwnContent, CopiedSoFar, UnspoiltIsWhole
<1> QED BY <1>1, <1>2, <1>3 DEF LayerInv

\* The import path leads to the mounted packages, and a layer or a mounted package that was not
\* spoilt is complete or being completed, however many processes store, compose, mount, evict, clear
\* and clean up in the same directory, and wherever one of them fails or dies (layers.py, mount.py,
\* cache.py).
THEOREM LayerMountsWhole == LayerSpec => []MountsWhole
<1>1. LayerInv => MountsWhole
  <2> SUFFICES ASSUME LayerInv PROVE MountedIsComplete
    BY DEF LayerInv, MountsWhole
  <2>1. \A d \in there \ spoilt : Whole(d)
    BY DEF LayerInv, UnspoiltIsWhole, Whole
  <2>2. \A p \in Procs, n \in Names : mounts[p][n] # NoMount => mounts[p][n] \in there \union spoilt
    BY DEF LayerInv, OwnMounts
  <2> QED BY <2>1, <2>2 DEF MountedIsComplete
<1> QED BY <1>1, LayerInvInit, LayerInvStep, PTL DEF LayerSpec

\* Two processes fill the same directory only if a removal took it away from one of them: of any
\* number that find it missing, one makes it (layers.py:66-67, 94-97).
THEOREM LayerFilledByOne == LayerSpec => []FilledByOne
<1>1. LayerInv => FilledByOne
  BY DEF LayerInv
<1> QED BY <1>1, LayerInvInit, LayerInvStep, PTL DEF LayerSpec

-----------------------------------------------------------------------------
(* The downloader.                                                         *)

\* What may be at a position of the file.
ByteStates == {"hole", "none", "good", "bad"}

\* What a chunk may be found to be.
TaskStates == {"queued", "getting", "done", "failed"}

\* The phases of a download.
DownloadPhases == {"idle", "head", "stream", "chunks", "closing", "returned", "raised"}

\* While the answers are the bytes asked for, every chunk that is done has left its range in
\* the file and nothing lies after the end.
ChunksKeep ==
  /\ dest[Total] = "none"
  /\ \A r \in Ranges : task[r] = "done" => \A i \in r[1] .. r[2] : dest[i] = "good"

\* Requests are under way only while the chunks are gathered or the client closes.
DownloadInv ==
  /\ phase \in DownloadPhases
  /\ honest \in BOOLEAN
  /\ phase \in {"chunks", "closing"} => task \in [Ranges -> TaskStates] /\ dest \in [Offsets -> ByteStates]
  /\ phase \notin {"chunks", "closing"} => \A r \in DOMAIN task : task[r] = "done"
  /\ phase \in {"head", "stream"} => task = << >>
  /\ phase = "chunks" /\ honest => ChunksKeep
  /\ VerifiedIsGood

\* Every byte of the file is in the range that begins at the multiple of the chunk size below it.
LEMMA RangesCover == ASSUME NEW i \in 0 .. Total - 1 PROVE \E r \in Ranges : i \in r[1] .. r[2]
<1> DEFINE o == i - (i % ChunkSize)
<1> USE DownloadAssumption
<1>1. i % ChunkSize \in 0 .. ChunkSize - 1
  OBVIOUS
<1>2. i = (ChunkSize * (i \div ChunkSize)) + (i % ChunkSize) /\ i \div ChunkSize \in Nat
  OBVIOUS
<1>3. o % ChunkSize = 0
  <2>1. o = ChunkSize * (i \div ChunkSize)
    BY <1>1, <1>2
  <2>2. \A d \in Nat : (ChunkSize * d) % ChunkSize = 0
    OBVIOUS
  <2> QED BY <2>1, <2>2, <1>2
<1>4. i % ChunkSize <= i
  OBVIOUS
<1>5. o \in 0 .. Total - 1 /\ i \in o .. Lesser(o + ChunkSize - 1, Total - 1)
  BY <1>1, <1>4 DEF Lesser
<1> HIDE DEF o
<1>6. <<o, Lesser(o + ChunkSize - 1, Total - 1)>> \in Ranges
  BY <1>3, <1>5 DEF Ranges
<1> QED BY <1>5, <1>6

\* The ranges stay inside the file.
LEMMA RangesInside ==
  ASSUME NEW r \in Ranges PROVE r[1] \in 0 .. Total - 1 /\ r[2] \in 0 .. Total - 1
<1> PICK o \in 0 .. Total - 1 : r = <<o, Lesser(o + ChunkSize - 1, Total - 1)>>
  BY DEF Ranges
<1> QED BY DownloadAssumption DEF Lesser

\* Chunks that have all left their range in the file have left the whole file.
LEMMA KeptIsGood ==
  ASSUME dest \in [Offsets -> ByteStates], ChunksKeep, \A r \in Ranges : task[r] = "done"
  PROVE  Good(dest)
<1>1. dest # NoDest
  BY DownloadAssumption DEF ByteStates, Offsets
<1>2. ASSUME NEW i \in Offsets PROVE dest[i] = IF i < Total THEN "good" ELSE "none"
  <2>1. CASE i < Total
    <3> PICK r \in Ranges : i \in r[1] .. r[2]
      BY <2>1, RangesCover, DownloadAssumption DEF Offsets
    <3> QED BY <2>1 DEF ChunksKeep
  <2>2. CASE i = Total
    BY <2>2, DownloadAssumption DEF ChunksKeep
  <2> QED BY <2>1, <2>2, DownloadAssumption DEF Offsets
<1> QED BY <1>1, <1>2 DEF Good

\* Every step keeps it.
LEMMA DownloadInvStep == DownloadInv /\ [DownloadNext]_downloadVars => DownloadInv'
<1> SUFFICES ASSUME DownloadInv, [DownloadNext]_downloadVars PROVE DownloadInv'
  OBVIOUS
<1> USE DEF DownloadInv, DownloadPhases
<1>1. CASE BeginDownload
  BY <1>1 DEF BeginDownload, VerifiedIsGood
<1>2. CASE HeadChunked
  <2>1. dest' \in [Offsets -> ByteStates] /\ task' \in [Ranges -> TaskStates]
    BY <1>2 DEF HeadChunked, Holes, ByteStates, TaskStates
  <2>2. ChunksKeep'
    BY <1>2, DownloadAssumption DEF HeadChunked, ChunksKeep, Holes, Offsets
  <2> QED BY <1>2, <2>1, <2>2 DEF HeadChunked, VerifiedIsGood
<1>3. CASE HeadSimple
  BY <1>3 DEF HeadSimple, VerifiedIsGood
<1>4. CASE HeadFails
  BY <1>4 DEF HeadFails, VerifiedIsGood
<1>5. CASE StreamEnds
  <2>1. task' = << >> /\ phase' \in {"returned", "raised"} /\ honest' \in BOOLEAN
    BY <1>5 DEF StreamEnds
  <2> QED BY <2>1 DEF VerifiedIsGood
<1>6. CASE ClientCloses
  BY <1>6 DEF ClientCloses, VerifiedIsGood
<1>7. CASE GatherEnds
  BY <1>7 DEF GatherEnds, Verify, VerifiedIsGood
<1>8. CASE Redownload
  BY <1>8 DEF Redownload, VerifiedIsGood
<1>9. ASSUME NEW r \in Ranges, GetChunk(r) PROVE DownloadInv'
  <2>1. task' \in [Ranges -> TaskStates] /\ phase' \in {"chunks", "closing"}
    BY <1>9 DEF GetChunk, TaskStates
  <2>2. phase = "chunks" /\ honest => ChunksKeep'
    BY <1>9 DEF GetChunk, ChunksKeep
  <2> QED BY <1>9, <2>1, <2>2 DEF GetChunk, VerifiedIsGood
<1>10. ASSUME NEW r \in Ranges, ChunkFails(r) PROVE DownloadInv'
  <2>1. phase \in {"chunks", "closing"}
    BY <1>10 DEF ChunkFails
  <2>2. task' \in [Ranges -> TaskStates]
    BY <1>10, <2>1 DEF ChunkFails, TaskStates
  <2> QED BY <1>10, <2>1, <2>2 DEF ChunkFails, VerifiedIsGood
<1>11. ASSUME NEW r \in Ranges, NEW answer \in {"bytes", "error", "whole"}, ChunkArrives(r, answer)
       PROVE  DownloadInv'
  <2>1. phase \in {"chunks", "closing"}
    BY <1>11 DEF ChunkArrives
  <2>2. task' \in [Ranges -> TaskStates]
    BY <1>11, <2>1 DEF ChunkArrives, TaskStates
  <2>3. dest' \in [Offsets -> ByteStates]
    BY <1>11, <2>1 DEF ChunkArrives, ByteStates
  <2>4. ASSUME phase = "chunks", honest' PROVE ChunksKeep'
    <3>1. answer = "bytes" /\ honest /\ ChunksKeep
      BY <1>11, <2>4 DEF ChunkArrives
    <3>2. \A i \in Offsets : dest'[i] = IF i \in r[1] .. r[2] THEN "good" ELSE dest[i]
      BY <1>11, <3>1 DEF ChunkArrives
    <3>3. Total \notin r[1] .. r[2] /\ Total \in Offsets
      BY RangesInside, DownloadAssumption DEF Offsets
    <3>4. \A q \in Ranges : \A i \in q[1] .. q[2] : i \in Offsets
      BY RangesInside, DownloadAssumption DEF Offsets
    <3>5. \A q \in Ranges : task'[q] = IF q = r THEN "done" ELSE task[q]
      BY <1>11, <2>1 DEF ChunkArrives
    <3> QED BY <3>1, <3>2, <3>3, <3>4, <3>5 DEF ChunksKeep
  <2> QED BY <1>11, <2>1, <2>2, <2>3, <2>4 DEF ChunkArrives, VerifiedIsGood
<1>12. CASE UNCHANGED downloadVars
  BY <1>12 DEF downloadVars, VerifiedIsGood, ChunksKeep, Good
<1> QED BY <1>1, <1>2, <1>3, <1>4, <1>5, <1>6, <1>7, <1>8, <1>9, <1>10, <1>11, <1>12 DEF DownloadNext

\* A download that returns a path has put the whole content there, whatever chunks failed, were retried or came in which order
\* (virtualizer/downloader.py), for any size and number of chunks.
THEOREM DownloadWhole == DownloadSpec => []DownloadsGood
<1>1. DownloadInit => DownloadInv
  BY DEF DownloadInit, DownloadInv, DownloadPhases, VerifiedIsGood
<1>2. DownloadInv => DownloadsGood
  <2> SUFFICES ASSUME DownloadInv, phase = "chunks", honest, \A r \in DOMAIN task : task[r] = "done"
               PROVE  Good(dest)
    BY DEF DownloadsGood, ChunksCover, DownloadInv
  <2> QED BY KeptIsGood DEF DownloadInv
<1> QED BY <1>1, <1>2, DownloadInvStep, PTL DEF DownloadSpec

-----------------------------------------------------------------------------
(* Lazy modules.                                                           *)

\* Where an access to a lazy module may be.
Places == {"idle", "unloaded", "fetching", "copy", "pick", "got", "missed"}

\* What __getattr__ relies on: a thread that copies has a module or a failed fetch to show for
\* it, a module marked as loaded has been fetched, is being fetched or cannot be, and a thread
\* that goes straight to the module was told so by one of these, or began while another was
\* loading.
LazyInv ==
  /\ access \in [Threads -> Places]
  /\ fetcher \in BOOLEAN
  /\ loaded => real \/ unfetched \/ ~fetcher \/ \E v \in Threads : Loading(v)
  /\ \A t \in Threads :
       /\ access[t] \notin {"idle", "got"} => t \in early
       /\ access[t] = "copy" => real \/ unfetched
       /\ access[t] = "pick" => real \/ unfetched \/ ~fetcher \/ t \in excused
  /\ MissesExplained

\* Every step of a thread keeps it.
LEMMA LazyInvStep == LazyInv /\ [LazyNext]_lazyVars => LazyInv'
<1> SUFFICES ASSUME LazyInv, [LazyNext]_lazyVars PROVE LazyInv'
  OBVIOUS
<1> USE DEF LazyInv, Places, MissesExplained
<1>1. ASSUME NEW t \in Threads, NEW underscore \in BOOLEAN, AccessBegin(t, underscore) PROVE LazyInv'
  <2> DEFINE place == IF copied THEN "got" ELSE IF underscore THEN "missed" ELSE IF loaded THEN "pick" ELSE "unloaded"
  <2>1. access' = [access EXCEPT ![t] = place] /\ access[t] = "idle"
    BY <1>1 DEF AccessBegin, ThreadAt
  <2>2. UNCHANGED <<fetcher, loaded, real, copied, unfetched>>
    BY <1>1 DEF AccessBegin
  <2>3. /\ \A u \in Threads \ {t} : /\ access'[u] = access[u]
                                    /\ u \in early' <=> u \in early
                                    /\ u \in excused' <=> u \in excused
                                    /\ u \in private' <=> u \in private
        /\ ~copied => t \in early'
        /\ underscore => t \in private'
        /\ (\E v \in Threads : Loading(v)) => t \in excused'
    BY <1>1, <2>1 DEF AccessBegin, Noted
  <2>4. access' \in [Threads -> Places] /\ access'[t] = place
    BY <2>1
  <2>5. \A v \in Threads : Loading(v) => Loading(v)'
    BY <2>1, <2>3 DEF Loading
  <2> QED BY <2>2, <2>3, <2>4, <2>5
<1>2. ASSUME NEW t \in Threads, FetchBegin(t) PROVE LazyInv'
  BY <1>2 DEF FetchBegin, ThreadAt, Loading
<1>3. ASSUME NEW t \in Threads, CopyAttributes(t) PROVE LazyInv'
  BY <1>3 DEF CopyAttributes, ThreadAt, Loading
<1>4. ASSUME NEW t \in Threads, FetchRaises(t) PROVE LazyInv'
  BY <1>4 DEF FetchRaises, ThreadAt, Loading
<1>5. ASSUME NEW t \in Threads, Pick(t) PROVE LazyInv'
  BY <1>5 DEF Pick, ThreadAt, Loading
<1>6. ASSUME NEW t \in Threads, AccessEnd(t) PROVE LazyInv'
  BY <1>6 DEF AccessEnd, ThreadAt, Loading
<1>7. ASSUME NEW t \in Threads, NEW found \in BOOLEAN, FetchEnds(t, found) PROVE LazyInv'
  BY <1>7 DEF FetchEnds, ThreadAt, Loading, Kept
<1>8. CASE UNCHANGED lazyVars
  BY <1>8 DEF lazyVars, Loading
<1> QED BY <1>1, <1>2, <1>3, <1>4, <1>5, <1>6, <1>7, <1>8 DEF LazyNext, NoMoreAccesses

\* An attribute that the module has is missed only by an access that began before the attributes
\* were copied, and only if some fetch failed, there is none, another thread was loading the
\* module when the access began, or the name starts with an underscore, for any number of threads
\* and however they are switched (LazyModule.__getattr__).
THEOREM LazyMisses == LazySpec => []MissesExplained
<1>1. LazyInit => LazyInv
  BY DEF LazyInit, LazyInv, Places, Loading, MissesExplained
<1>2. LazyInv => MissesExplained
  BY DEF LazyInv
<1> QED BY <1>1, <1>2, LazyInvStep, PTL DEF LazySpec
=============================================================================
