----------------------------- MODULE CatalogSync -----------------------------
(***************************************************************************)
(* Package metadata on the device: SyncManager of client/sync.py, the      *)
(* metadata files of client/cache.py, the server's calls that the daemon   *)
(* handles (client/daemon.py), and `cpip sync`.                            *)
(*                                                                         *)
(* Up to three syncs are under way at once: that of the background loop,   *)
(* one that the server has triggered, which holds up the daemon's messages *)
(* until it is over, and one of the command, in a process of its own.      *)
(* Every package has a file of its own and is treated alike, so one        *)
(* package stands for all.  Time is counted in ticks, and ages no further  *)
(* than the bounds tell them apart.                                        *)
(*                                                                         *)
(* That a request is over within MaxRequest is an assumption: the timeout  *)
(* that the code gives httpx bounds every connect and read of it, not all  *)
(* of them together.                                                       *)
(***************************************************************************)
EXTENDS Naturals

CONSTANTS TTL,        \* 86400 of get_metadata
          Interval,   \* _sync_interval
          Nap,        \* the sleep of _sync_loop
          MaxRequest, \* what a request takes at most
          NoMeta

ASSUME SyncAssumption == {TTL, Interval, Nap, MaxRequest} \subseteq Nat \ {0}

Syncs == {"loop", "trigger", "cli"}

VARIABLES
  file,      \* the metadata file: since when it is cached, how old its content is, whose it is
  at,        \* what each sync awaits
  waited,    \* for how long
  snapshot,  \* how old the catalog is that a sync has been sent
  outdated,  \* syncs that were sent a catalog from before the last invalidation
  looping,   \* SyncManager._running, and its task with it
  nap,       \* ticks until the loop looks again
  lastSync,  \* ticks since _last_sync
  reader     \* get_metadata has seen an expired file, and will remove it

syncVars == <<file, at, waited, snapshot, outdated, looping, nap, lastSync, reader>>

Capped(n, bound) == IF n > bound THEN bound ELSE n
MaxLag == TTL + MaxRequest + 1
MaxIdleTime == Interval + Nap + 2 * MaxRequest + 1

SyncInit ==
  /\ file = NoMeta
  /\ at = [s \in Syncs |-> "off"]
  /\ waited = [s \in Syncs |-> 0]
  /\ snapshot = [s \in Syncs |-> 0]
  /\ outdated = {}
  /\ looping = FALSE
  /\ nap = 0
  /\ lastSync = MaxIdleTime
  /\ reader = FALSE

Await(s, what) == at' = [at EXCEPT ![s] = what] /\ waited' = [waited EXCEPT ![s] = 0]

-----------------------------------------------------------------------------
(* _do_sync                                                                *)

\* The device is registered first.
BeginSync(s) ==
  /\ at[s] = "off"
  /\ Await(s, "register")

\* The catalog is asked for.
Registered(s) ==
  /\ at[s] = "register"
  /\ Await(s, "catalog")
  /\ UNCHANGED <<file, snapshot, outdated, looping, nap, lastSync, reader>>

\* The server makes its answer.
ServerAnswers(s) ==
  /\ at[s] = "catalog"
  /\ at' = [at EXCEPT ![s] = "answer"]
  /\ snapshot' = [snapshot EXCEPT ![s] = 0]
  /\ outdated' = outdated \ {s}
  /\ UNCHANGED <<file, waited, looping, nap, lastSync, reader>>

\* A mutation: the time is noted only after a good sync.
EndSyncNotNoted(s) ==
  /\ Await(s, "off")
  /\ nap' = IF s = "loop" THEN Nap ELSE nap
  /\ snapshot' = [snapshot EXCEPT ![s] = 0]
  /\ outdated' = outdated \ {s}
  /\ UNCHANGED <<looping, reader, lastSync>>

\* The end of a sync: _last_sync is set whether it went well or not, in the
\* process of the daemon; the loop then sleeps.
EndSync(s) ==
  /\ Await(s, "off")
  /\ lastSync' = IF s = "cli" THEN lastSync ELSE 0
  /\ nap' = IF s = "loop" THEN Nap ELSE nap
  /\ snapshot' = [snapshot EXCEPT ![s] = 0]
  /\ outdated' = outdated \ {s}
  /\ UNCHANGED <<looping, reader>>

\* The catalog arrives: store_metadata.
CatalogArrives(s) ==
  /\ at[s] = "answer"
  /\ file' = [cached |-> 0, lag |-> snapshot[s], by |-> s, old |-> s \in outdated]
  /\ EndSync(s)

\* The server has no catalog for the device, or a request fails or times out.
SyncFails(s) ==
  /\ at[s] # "off"
  /\ UNCHANGED file
  /\ EndSync(s)

-----------------------------------------------------------------------------
(* The loop, the daemon's messages, and the command.                       *)

\* start
StartSync ==
  /\ ~looping
  /\ looping' = TRUE
  /\ nap' = 0
  /\ UNCHANGED <<file, at, waited, snapshot, outdated, lastSync, reader>>

\* stop: the task is cancelled where it waits; nothing more of its sync happens.
StopSync ==
  /\ looping
  /\ looping' = FALSE
  /\ nap' = 0
  /\ Await("loop", "off")
  /\ snapshot' = [snapshot EXCEPT !["loop"] = 0]
  /\ outdated' = outdated \ {"loop"}
  /\ UNCHANGED <<file, lastSync, reader>>

\* _sync_loop wakes up: a sync is due, or it sleeps again.
LoopLooks ==
  /\ looping /\ nap = 0 /\ at["loop"] = "off"
  /\ IF lastSync >= Interval THEN BeginSync("loop") /\ UNCHANGED nap
     ELSE nap' = Nap /\ UNCHANGED <<at, waited>>
  /\ UNCHANGED <<file, snapshot, outdated, looping, lastSync, reader>>

\* A mutation: messages are handled while a triggered sync is under way.
NotBusyEver == TRUE

\* _handle_message is awaited before the next message is read.
NotBusy == at["trigger"] = "off"

\* sync.trigger
SyncTrigger ==
  /\ NotBusy
  /\ BeginSync("trigger")
  /\ UNCHANGED <<file, snapshot, outdated, looping, nap, lastSync, reader>>

\* cache.invalidate: the file is removed; a sync that has its catalog already goes on.
CacheInvalidate ==
  /\ NotBusy
  /\ file' = NoMeta
  /\ outdated' = {s \in Syncs : at[s] = "answer"}
  /\ UNCHANGED <<at, waited, snapshot, looping, nap, lastSync, reader>>

\* cpip sync
SyncCommand ==
  /\ BeginSync("cli")
  /\ UNCHANGED <<file, snapshot, outdated, looping, nap, lastSync, reader>>

\* get_metadata: the age is that of the file, not of its content.
Fresh(f) == f.cached <= TTL

\* get_metadata reads an expired file.
ReadExpired ==
  /\ file # NoMeta /\ ~Fresh(file)
  /\ reader' = TRUE
  /\ UNCHANGED <<file, at, waited, snapshot, outdated, looping, nap, lastSync>>

\* It removes the file, which may be another one by now.
RemoveExpired ==
  /\ reader
  /\ reader' = FALSE
  /\ file' = NoMeta
  /\ UNCHANGED <<at, waited, snapshot, outdated, looping, nap, lastSync>>

\* Time passes: a request ends within MaxRequest, and the loop looks when its sleep is over.
TimePasses ==
  /\ \A s \in Syncs : at[s] # "off" => waited[s] < MaxRequest
  /\ looping /\ at["loop"] = "off" => nap > 0
  /\ file' = IF file = NoMeta THEN file
             ELSE [file EXCEPT !.cached = Capped(@ + 1, TTL + 1), !.lag = Capped(@ + 1, MaxLag)]
  /\ waited' = [s \in Syncs |-> IF at[s] = "off" THEN 0 ELSE waited[s] + 1]
  /\ snapshot' = [s \in Syncs |-> IF at[s] = "answer" THEN snapshot[s] + 1 ELSE 0]
  /\ nap' = IF nap > 0 THEN nap - 1 ELSE 0
  /\ lastSync' = Capped(lastSync + 1, MaxIdleTime)
  /\ UNCHANGED <<at, outdated, looping, reader>>

SyncNext ==
  \/ StartSync \/ StopSync \/ LoopLooks \/ SyncTrigger \/ CacheInvalidate \/ SyncCommand
  \/ ReadExpired \/ RemoveExpired \/ TimePasses
  \/ \E s \in Syncs : Registered(s) \/ ServerAnswers(s) \/ CatalogArrives(s) \/ SyncFails(s)

SyncSpec == SyncInit /\ [][SyncNext]_syncVars

-----------------------------------------------------------------------------

\* What get_metadata returns is never older, as the server knows it, than the time to live
\* and one request, whichever of three syncs wrote it and in whatever order they ended.
StaleBounded == file # NoMeta /\ Fresh(file) => file.lag <= TTL + MaxRequest

\* A sync that the server triggers does not bring back what the server has invalidated:
\* only the background loop and the command can.
TriggerIsFresh == file # NoMeta /\ file.old => file.by # "trigger"

\* After stop() no sync of the loop is under way, and none will write.
StopIsQuiet == ~looping => at["loop"] = "off"

\* Whenever the loop sleeps, some sync has ended within the interval and one sleep, even if
\* every sync fails; and a failed sync is not tried again at every sleep.
SyncedOften == looping /\ nap > 0 => lastSync < Interval + Nap

\* What get_metadata returns is not too old, and not what the server has just invalidated
\* if a triggered sync wrote it.
MetadataFresh == StaleBounded /\ TriggerIsFresh

\* The background loop syncs often enough while it runs, and not at all once it is stopped.
LoopKeepsTime == StopIsQuiet /\ SyncedOften
=============================================================================
