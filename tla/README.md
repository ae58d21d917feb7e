# Verification of cpip

cpip is a package manager for Android/Termux devices that moves what the device
cannot do (compiling wheels, running heavy packages) to a server. This directory
has TLA+ models of its stateful parts, TLC configurations that check them on small
instances, and TLAPS proofs, for instances of any size, of all but one of the safety
properties. `PROJECT.json` lists components, runs, the definitions with the source lines
they model, hazards, findings and theorems.

    tlc -workers 2 -config ConnectionHub.cfg MCConnectionHub
    tlapm ConnectionHubProofs.tla

## 1. The system

| Component | State | Operations | Talks to |
|---|---|---|---|
| Connection hub (`server/ws/hub.py`, `server/app.py`) | `_connections`, `_lock`, per connection `last_heartbeat` | connect, disconnect, send_to_device, broadcast, heartbeat_loop; one handler task per socket | devices over WebSockets; RPC dispatcher |
| Remote calls (`runtime/interceptor.py`, `runtime/hooks.py`, `server/ws/rpc.py`) | `_ws`, `_connected`, `_pending`; the handlers of the dispatcher | dial, execute, receive loop, time-out, close; dispatch | hub; proxy modules of the importing program |
| Build farm (`builder/*`) | `_queue`, `_processing`, `request.priority`, the common output directory | push, pop, complete, fail; compile, scan, sign; start, stop | docker, file system |
| REST API (`server/api/*`, `server/services/build_service.py`, `server/auth/rate_limiter.py`) | `_windows`; `_builds`, `_queue` | check; create, get, list and cancel a build; package queries; executions | clients |
| Daemon (`client/daemon.py`, `client/sync.py`, `client/cli.py`) | PID file, `_running`, `_ws`, reconnect delay | start, stop, status, connection loop | hub; the operating system's signals |
| Package cache (`client/cache.py`) | `_index` in every process, `cache.json`, files | store, get, evict, verify, clear | installer; other cpip processes |
| Resolver and installer (`client/resolver.py`, `client/installer.py`) | strategy and fallbacks, installed packages, `_cloud_packages` | install with fallbacks, import | pip, pkg, cache, REST API, hooks |
| Virtualization (`virtualization/*`) | layer and package directories, `_mounts`, `sys.path`; a lazy module; a file under download | store, compose, clean up, mount, unmount; load; download | file system; other cpip processes; the package cache, in the same directory |
| Retry, fallback, circuit breaker (`runtime/fallback.py`) | `_state`, `_failures`, `_last_failure` | call, retry with backoff, next strategy | remote calls |
| Messages, values and streams (`shared/protocol.py`, `runtime/serialization.py`, `runtime/streaming.py`) | `_streams`, chunks of a receiver | encode, decode; create, handle, wait | remote calls |
| Catalog sync and metadata (`client/sync.py`, `client/cache.py`, `client/daemon.py`) | metadata files, `_last_sync`, the loop's task | sync, invalidate, expire, start, stop | REST API; other cpip processes |
| Settings (`client/config.py`, `client/cli.py`) | `config.toml` | load, save, edit | the environment; other cpip processes |
| Execution (`executor/*`) | warm containers, running containers | acquire, release, warm up; route, run, kill | docker, the thread pool |
| Agents (`agent/orchestrator.py`) | `_agents`, tasks, a pipeline's context | register, submit, run a pipeline | handlers |
| Execution service, manifest registry, login, sessions, linker, database, security helpers, user interface, scheduler, model router, shared definitions | none, not used by the rest, or none that takes several steps (section 6) | | |

What is hard in it, and a test hardly reaches:

* **Awaits inside critical sections.** `connect` and `disconnect` hold the hub's lock
  while a socket closes; in the meantime handlers, the heartbeat task and senders
  queue up with decisions they took before.
* **Two ends of a connection with different beliefs.** The session's `_connected`
  flag, its receive loop and the server's registry change at different times.
* **Late answers.** A reply after its time-out, a heartbeat after the verdict, a stop
  signal during a dial.
* **Processes without a lock.** All cpip commands and the daemon share `cache.json`,
  the PID file and the layer directories, and may crash, or fail in a file system call, half-way.
* **Fallback chains** in which every step may fail, raise or be overtaken.
* **Requests that fail for ever** and compete with the others for the workers.
* **Bounds**: the cache's limit, the limiter's window and number of keys, the pool's size, times to live.
* **Encodings** in which data can look like the encoding's own tags, or be falsy.

Correct means: a live connection is registered and a dead one is not; every remote
call returns, once; no build request is lost, doubled or starved; a client gets what its
limits allow and no more; a daemon is found by its PID file, reconnects until it is stopped, and then ends; the
cache's index is bounded and matches its files; `install` reports what happened; a
mounted package is whole; an open circuit lets nobody in, and every fallback chain ends; what
is sent is what arrives, or is refused; metadata is never staler than its time to live and one request; a
container has one user, and none is left running but where killing it failed.

## 2. The modules

A step of a model is what the code does between two points where another task or
process can run: an await in asyncio code, a file system call where several processes
share a directory. Names follow the source. Definitions marked as mutations are deliberately
wrong variants of the definition that follows them. Replacing the definition by the
variant makes TLC find the violation that `PROJECT.json` lists with it, which shows that
the property depends on the code.

**ConnectionHub** has a task per socket (the handler of `websocket_endpoint`), the
heartbeat task `Beat` and a task `Send` for the callers of `send_to_device` and
`broadcast`. `pc` says what a task does; `lock` and `waiting` are the FIFO
`asyncio.Lock`. A task that finds the lock free and nobody waiting runs its section at
once (`Request`), others wait for `Grant`. `ConnectSection` and `DisconnectSection` run up to the
close they await, and `Register` or `Closed` finish them. `conns` is `_connections`;
`EndServe` is the handler's `finally`, which calls `disconnect` with a device id and not with
a connection, as the code does. Time is kept as ages: `Tick` lets every
connection's silence grow by one, saturated one above the limit; `late` holds what the
round's `now` can still tell. Metadata of a connection is left out; nothing
reads it.

**DeviceRegistry** is what the hub promises, without lock, queue and awaits: a connection
arrives, is attached to a device that has none, is detached, or gives up before it was
attached. ConnectionHub instantiates it: `LiveOf` is the registered connection of a device unless it
is closed already, and `Coming` the sockets whose handler has not registered them. `ImplementsRegistry` is
the abstract specification under this mapping.

**CloudBridge** extends it with client sessions: `Execute`, `Dial`, `DialOk`,
`DialFail`, `Issue` (put the call in `_pending` and send), `Receive`, `ReceiveEnd`,
`Timeout`, `CloseSession`, and `Dispatch` on the server's side. Requests and
replies in flight are sequences per socket; a socket can end with a closing handshake or
by a network failure (`NetworkDrop`), which the receive loop treats differently, as in the
code. Every hub step is also a step of the composition.

**RemoteCall** is what `CloudSession.execute` promises a caller, without sessions, sockets, dials, futures and handler tasks: the
message of a call is sent, served and answered at most once and may be lost on its way, and the caller is told the server's answer to this very call, or a
failure or time-out, once. CloudBridge instantiates it: `ToldOf` is what a caller knows, and `MessageOf` finds the call's one message on
whatever socket it is: a request counts while its socket is open, because the server reads no other, and a reply while some receive loop reads its
socket. `ImplementsCalls` is the abstract specification under this mapping.

**BuildQueue** is the sorted list of `builder/queue.py` and the workers of
`builder/worker.py`. `Pop`, `Fail`, `Finish`, `CompileFail`, `CompileEmpty`, `ScanFail`,
`Stop` and `Leave` are what a worker does around the one await, the compiler's
subprocess. `PushEntry` inserts and sorts (a stable sort); `Demoted` is the loss of
priority on failure. `Emit` lets the compiler put a wheel in the common directory, from which
the worker takes any that its name pattern matches.

**BuildBoard** is what the farm promises, without list, time stamps and workers: a request is new, waiting, taken or done; the most urgent
is taken first, and of those the one filed first; one whose build fails is filed again behind its new equals. BuildQueue instantiates it:
`StageOf` is where a request is, and `EarlierOf` which of two requests with the same priority is ahead in the list. `ImplementsBoard` is the
abstract specification under this mapping.

**RateLimiter** and **ServerApi**. A time stamp is the identity of the granted request
that left it, and `age` is the time since. `Check` is the whole of `RateLimiter.check`: the
client's list is cleaned (`Fresh`), keys are pruned beyond `MaxKeys` (`Pruned`), and a granted request leaves
a stamp. `granted`, `from` and `kind` record what the limiter decided; the code has
no such variables. ServerApi puts the endpoints on top: `CreateBuild`, `CancelBuild` and
`Ask`, which stands for package queries and executions.

**Daemon** has processes (`boot`, `write`, `ready`, `dial`, `up`, `sleep`), the `stop()` task of each, and
concurrent `cpip daemon` commands, for which reading the PID file and acting on it are
separate steps. Writing the file is two steps as well: `TruncatePid` empties it, and what `WritePid` writes is lost if a
command has unlinked it meanwhile (`linked`). The reconnect delay is the number of times it was doubled. Processes may
crash at any point and leave the file behind. Process ids are not reused. `contended` records the daemons that lived at the same time as another
one or as a command about to remove the file.

**WheelCache** has an index per process, `cache.json` and the files. An index is a
sequence ordered by last access; the eviction (`EvictCount`, `Evicted`) is part of every store,
as in the code, and so is each operation's final write of the index (`Save`), which may fail without anybody being told: memory then differs from
the file, which is as it was or empty. Copies and removals may fail as well, half-way, and the operation goes on or raises as in the code
(`StoreFails`, `EvictFails`, `ClearFails`, the `stay` of `Clear`, the early end of `Verify`).
`CrashInSave` and `CrashInEvict` cut an operation off; `Corrupt` is another program
changing a file. Three ghosts say what the failures account for: `unsaved`, the processes whose last save failed; `botched`, the paths where a copy or a
removal broke off; and `solo`, that processes took turns, none crashed, and none ended unsaved.

**Install** follows one command from `Start` through `Resolve`, `Query`, `Choose` and one
`Install...` action per strategy, with every answer of pip, pkg, network and registry. Packages may be imported under another name than their own (`Renamed`),
which the look for an installed package does not find, or have a dot in it (`Dotted`), on which it may raise, before the installer's `try` (`ResolveRaises`).
`Run` and `Import` are a later `cpip run`, which activates the import hooks (`hooked`); installing does not. `RequireAuth` is the server's rule for the build
request, so that the build strategy fails as it does in the code; the polling loop behind it cannot be
reached.

**LayerStore** has the directory of layers and composed packages, each process's mounts and path, and everybody who writes there: `LayerManager`,
and `CacheManager` with its store, eviction and clear. Every file system call is a step. `StoreLayer`, `CacheLayer` or `Mount` looks whether the directory exists,
`MakeDir` makes it or raises, `Extracted`, `CopyBegin` and `CopyEnd` fill it, `Delete` takes files out of one or removes the rest of it, and any of
them may be the last one (`FillFails`, `RemoveEnd`, `End`). `files` says of which layers a directory has every file. Three ghosts: `lost`, the processes
whose directory was removed from under them; `torn`, those that copy a layer which is not all there; `spoilt`, the directories
that were removed from, whose making failed, or which were made from a layer that was not all there.

**Resilience** is a `FallbackChain` of two strategies: `retry_async` over a shared
`CircuitBreaker`, then a local function. `EnterCall`, `RecordSuccess` and `RecordFailure` are the
breaker; callers overlap and may be cancelled in a call or a sleep. `admitted` records who was under way when
the circuit opened.

**Sandbox** routes a job (`Route`), then runs its container. `docker run` and the `docker kill` after a timeout both need a thread of one
bounded pool (`ToThread`, `TakeUp`); the container starts some time after docker was asked for it (`AskBox`, `StartBox`), even if the client
that asked has been killed by the timeout; the kill may fail, which the code ignores (`unkilled`), as it does on a container that has not
started; a job's task may be cancelled while its thread goes on.

**CatalogSync** has three syncs that may overlap: the loop's, one triggered by the server (which holds
up the daemon's messages), and that of `cpip sync`. A sync registers, asks, is sent a snapshot of the catalog and writes it; it
may fail at each point. `CacheInvalidate`, expiry (a read and a removal, two steps) and `stop` come in between.
One package stands for all, as each has its own file.

**Settings** is `config.toml` under `cpip config` in several terminals with overrides of the environment: a command works on a copy, and a
file is empty between the truncation and the write. What a command works with (`Config`) is not what the file says (`File`): `LoadToml`
fills in defaults for what is missing and does not look at `auto_cleanup`; `SaveToml` writes `auto_cleanup` all the same, leaves out what is
a float, and does not escape strings.

**Protocol** and **Serialization** are pure operators: values are tagged records (`List`, `Dict`, `SetOf`, ...), and every message
constructor is there. What the JSON library makes of a value is a parameter of Protocol, `Json`; **JsonText** defines it, for every kind of
value, and the configuration puts the two together (the definition is recursive, which the prover cannot use, and the library is not part of
this repository). `Serialization` sends a value through argument encoding, message, JSON and back, and any of these may raise. The reference
is the value itself, up to what JSON does not tell apart (`UpToJson`): values that are `Refused` must raise, and those that are `Damaged`
(foreign objects and tensors, of which the repr is sent, and dicts in which a number and its text are both keys) are named and left out, as
they are lost without an error. **Streaming** delivers parts of streams (`Part`) late, twice, out of order or not at all to receivers that a
call id may outlive; `whole` records the receivers that were made before the first part arrived.

**Agents** is the orchestrator; an agent that registers under an id that is taken replaces the one that had it. **ContainerPool** has the
list of warm containers, those in use and those being destroyed.

**Download** fetches a file by parallel ranges over a semaphore or as one stream; every byte of the destination is a hole,
good or bad. **LazyModule** is the accesses of several threads to a lazy module, with or without a function that fetches it, to names with or without
an underscore in front.

The `MC...` modules give the constants values for TLC. Where components share no state, one MC module
holds several: a variable `part`, chosen in the initial state, says which of them moves, and the others rest in their
initial state. A run then explores the union, not the product, of their state spaces, and each component's properties are
checked in full. The `...Proofs` modules hold the theorems, and **SequenceFacts** the facts about sequences they share.

## 3. The runs

| Run | Instance | Properties |
|---|---|---|
| `ConnectionHub` | one device, two sockets that may be reused, both messengers, 3 missed intervals as in the code | HubSafe; HandlerCleansUp, SilentIsReaped; ImplementsRegistry |
| `HubReplaced` | the same with one interval | finding 1 |
| `CloudBridge` | the hub, one session, two calls | BridgeSafe |
| `CloudBridgeLiveness` | the bridge with one socket identity, reused; and two callers of a chain, threshold 2, two retries, delays 1, 2, 3 | ImplementsCalls, EveryCallReturns, ClosedIsNoticed; BreakerSafe, ChainEnds |
| `BuildQueue` | three requests, two workers, three priorities, the name pattern of one request matches another's wheel; and three jobs for two threads | RequestsKept, ImplementsBoard, NoStarvation; NoOrphanContainer, JobReturns |
| `ServerApi` | two clients, limits 2/1/2, window 2, pruning beyond one key, five requests in flight, one build id | LimitsKept, PruneWorks, QueuedIsListed |
| `Daemon` | two processes, two commands, two doublings of the delay | RunningIsFound, StopEndsConnected, Reconnects |
| `DaemonStop` | one process, one command | finding 2 |
| `WheelCache` | two processes, a wheel of size 8 and two layers of size 4 under a limit of 8, two contents; metadata with time to live 3 and interval 2; two terminals, one with overrides, with a URL that needs quoting and a setting that is a float | IndexBounded, CacheAgrees; MetadataFresh, LoopKeepsTime; SettingKept |
| `Install` | two overlapping commands, one cloud-preferred package with another import name and one with a dotted name; values up to three levels deep and every kind of message; two streams and two receivers; three agents of which two have the same id, and two pipelines of four tasks; five containers, two users and a pool of two | InstallHonest, FailsOnlyLocally, InstallEnds; NothingLostOnWire; StreamsWhole; PipelinesHonest; PoolSafe |
| `InstallOffline` | one command | finding 3 |
| `LayerStore` | two processes, two layers, three packages of which two share a directory and one is made of their second layer, four operations that change directories; five bytes in chunks of two, two at a time; three threads | MountsWhole, FilledByOne; DownloadsGood; MissesExplained |

What a component guarantees at any time is one invariant, a conjunction of named parts that stand before it in its module:

| Invariant | Parts |
|---|---|
| `HubSafe` | TypeOK; LockExclusive: the lock's holder is the one task that waits for a close in its section; NoDeadRegistration: a registered connection is served; NoOrphan: an open, served connection is registered |
| `BridgeSafe` | BridgeTypeOK; WaitersFindable: a reply finds the call that waits for it; FailureIsNoticed: a receive loop that failed has cleared the flag |
| `BreakerSafe` | ResilienceTypeOK, with the bound on attempts; StateMatchesCount: closed exactly below the threshold; OpenShedsLoad: nobody gets through an open circuit |
| `RequestsKept` | QueueTypeOK; Conserved: no request lost or doubled; ProcessingHeld: what counts as processing is held by one worker each; Ordered: the list is sorted by the priorities the requests have now |
| `NoOrphanContainer` | one part: a container that docker was asked for is gone when its job returns, or its kill was tried and failed |
| `RunningIsFound` | one part: the PID file names the daemon that serves, unless another one, or a command about to remove the file, lived at the same time |
| `LimitsKept` | WithinLimit: no more than the limit in a window; OnFile: the lists hold exactly what counts |
| `CacheAgrees` | CacheTypeOK; InSync, EntryHasFile, StoredIsIndexed: memory, index and files agree while processes take turns, but for failed saves (`unsaved`) and broken-off copies and removals (`botched`) |
| `MetadataFresh` | StaleBounded: no older than time to live and one request; TriggerIsFresh: a triggered sync brings back nothing invalidated |
| `LoopKeepsTime` | StopIsQuiet: no sync of a stopped loop; SyncedOften: a sync within interval and sleep |
| `InstallHonest` | InstallTypeOK; SuccessIsReal: what is reported as installed is importable, or was registered for the cloud by this very command, where it makes nothing importable |
| `NothingLostOnWire` | RoundTrip: a value arrives as it was, or is refused with an error; WireLossless: a message is read back field by field |
| `StreamsWhole` | StreamIsWhole: a finished stream has all its chunks in order; EndedIsForgotten: and is no longer registered |
| `PipelinesHonest` | ContextIsForwarded: each step gets the results before it; RunningIsAwaited: a task shown as running is awaited, unless its pipeline was cancelled |
| `PoolSafe` | NotShared: a container has one user; PoolBounded: the list is no longer than the pool and the warm-ups |
| `MountsWhole` | LayerTypeOK; PathExact: the path holds the mounted packages, and all that share no directory; MountedIsComplete: a layer that is there and a package that is mounted has all its files, or somebody is filling it, unless it was spoilt |
| `FilledByOne` | one part: two processes fill one directory only after a removal took it away from one of them |
| `DownloadsGood` | VerifiedIsGood: a verified file has no hole and no bad byte; ChunksCover: if every answer is what was asked for, the ranges make up the whole file |

*Why the bounds are enough.* Two sockets of one device are what it takes to have a replacement, a stale handler and the heartbeat task in
each other's way, and finished sockets are reused, so that the number of reconnections is unbounded; for any number of sockets and devices
the safety properties are proved. Two calls and two sockets give a late reply over an old socket; `ImplementsCalls` is checked with one
socket identity, which is dialled again after its end, and proved for any number. Three requests let one be overtaken by a failing one while
two workers are busy. The limits of `ServerApi` differ, and its window is longer than a tick, so that requests of different kinds and ages
share a list; any size is covered by proof. The sizes of `WheelCache` make one eviction drop one, several or all entries, and the wheel
alone exceeds what an eviction leaves. Two processes suffice for everything that is about stale reads of shared files. Two callers and a
threshold of two make one call's failure open the circuit under the other, whose late result then arrives. Three jobs on two threads leave a
kill waiting behind a run. Three syncs are all the code can have under way. Four operations that take several steps let two processes store
or compose the same directory, one of them while it is removed, and use what is left; mounting what is there and unmounting are not counted.
Five bytes in chunks of two end in a shorter one. Values nested three deep put each kind of value inside each other one, next to keys and
strings that are the encoding's own. Three containers of one image and a pool of two let a release find the pool full; the other containers
need another image.

*Symmetry* is used in safety runs only, over identities no definition tells apart: never with a
liveness property.

*Deadlock* is not checked in `BuildQueue` (all workers may be stopped) and `Daemon` (every
process id may have been used).

### Fairness

* Hub, sessions and farm run on asyncio loops, which run every ready task; `asyncio.Lock` wakes
  waiters in order. So each task's steps have weak fairness, and time passes. That an accept, a
  close or a dial ends, with either outcome, rests on the libraries' own time-outs.
* `Timeout` is a timer. A worker's step includes the end of the compiler, to which the code
  gives an hour (`builder/compiler.py:64`).
* In `Daemon`, `Reachable` (strong fairness of a successful dial) is an assumption on the environment: a
  server that can never be reached is not connected to. Only `Reconnects` needs it.
* A caller of a chain is an asyncio task whose calls and sleeps end (`ResilienceFairness`); remote calls do, by
  EveryCallReturns. In `Sandbox` threads take up queued commands, and `docker run` and `docker kill` end: the first by
  the timeout of `subprocess.run`, the second because docker's client returns.
* Peers, callers, users, the network and crashes have no fairness: nobody has to answer,
  call, close or submit.

## 4. What the models show to be different from the documentation

Three runs are expected to be violated:

1. `HubReplaced`. `connect` replaces a device's connection; the replaced connection's handler
   then ends, calls `disconnect(device_id)` in its `finally`, and removes and closes the *new*
   connection (`server/app.py:154`, `server/ws/hub.py:53`).
2. `DaemonStop`. A SIGTERM that arrives while the daemon dials finds no socket to close; the
   dial succeeds, the message loop starts without looking at `_running`, and the "stopped" daemon
   lives on without a PID file (`client/daemon.py:72`).
3. `InstallOffline`. `--local`, "Local install only, no cloud", skips the registry query only; the default plan
   still uses the cloud strategies (`client/resolver.py:68` and `:80`; the trace has a package for which the cloud is preferred).

Other divergences met while modelling, which the models reproduce and no run is kept for:

* The heartbeat task judges a connection, waits for the lock, and disconnects whatever the device has
  registered by then (`server/ws/hub.py:96`).
* After a closing handshake the receive loop ends without clearing `_connected`, and the session
  never dials again (`runtime/interceptor.py:91`). This is why FailureIsNoticed is about failures only.
* Sessions call the method `exec.call`, for which the dispatcher has no handler (`server/ws/rpc.py:63`): a reply is always
  "unknown" in CloudBridge.
* Failed builds are re-queued without counting; `BUILD_MAX_RETRIES` is not used (`builder/queue.py:39`).
* The worker takes the first wheel that matches its name pattern in a common directory, possibly another
  package's (`builder/compiler.py:71`).
* `submit_build` fills a list of its own that no worker reads (`server/services/build_service.py:32`).
* Two overlapping `daemon start` commands start two daemons (`client/cli.py:284`).
* Concurrent processes overwrite each other's `cache.json`, so that a stored file can drop out of every index
  (`client/cache.py:79`); this is why the parts of CacheAgrees are conditional on `solo`.
* `store_wheel` evicts first, and may evict the very file it is about to register (`client/cache.py:130`).
* `--force` still hands a cached wheel to pip (`client/installer.py:77`).
* A package registered for cloud execution is meant to be imported like any other (the shell session of the repository's `README.md:97`, and
  `client/installer.py:173`). But `cpip install` never activates the hooks, only `run` and `shell` do (`client/cli.py:266`,
  `client/shell.py:32`), and the registration is in the memory of the installing process (`runtime/hooks.py:27`): no process ever imports
  it.
* For a dotted name the look for an installed package may raise, and `install` fails without trying a strategy (`client/resolver.py:109`, `client/installer.py:37`).
* An error while `cache.json` is saved is ignored (`client/cache.py:85`): the index in memory goes on, and the next process loads an older one or none.
* `cpip cache clear` and the eviction remove what other processes have mounted, composed directories included (`client/cache.py:284`,
  `:245`); `rmtree` works file by file, and what it leaves, interrupted or failing, passes for a stored layer afterwards
  (`virtualization/layers.py:66`, `:115`).
* `auto_cleanup` is saved and never loaded (`client/config.py:187`, `:236`); floats are not saved (`:166`), and the metadata's time to live,
  the retries and other settings neither loaded nor saved.
* "numpy arrays, torch tensors, images" are to be serialized (`runtime/serialization.py:4`, `docs/architecture.md:14`); a tensor is sent as
  its repr (`:66`), since only decoding knows tensors, and an array of objects is encoded and cannot be decoded.
* A lambda's type is on the list of what may be pickled, but it cannot be (`runtime/serialization.py:61`); a dict with tuples as keys raises
  only when the message is made, and the call stays in `_pending` (`runtime/interceptor.py:131`).
* The result of `docker kill` is ignored (`executor/sandbox.py:76`): the job returns "Execution timed out" while its container runs on, or is about to start.
* The daemon passes `extra_headers` to a `connect` that, in current versions of websockets, calls it `additional_headers`
  (`client/daemon.py:69`); the library is not part of the repository.
* In debug mode a client with a development token is one and the same user on every device (`server/auth/middleware.py:27`).
* The registry drops the metadata of layers when it stores a manifest (`virtualization/registry.py:47`), so that the process that stored it
  remembers more than the file says.
* The installer's build request has no credentials and is answered 401 (`client/installer.py:140`).
* A composed directory is used by others while it is being filled (`virtualization/layers.py:94`), a partly
  extracted layer passes for the layer (`layers.py:66`), and unmounting a package takes
  others with the same layers off the path (`virtualization/mount.py:38`).
* `_simple_download` never looks at `expected_sha256`, though `download` promises "integrity verification"
  (`virtualization/fetcher.py:29`), and there is no resuming; no status code is looked at. VerifiedIsGood is therefore about chunked downloads.
* An execution is never stored as pending or running, so `DELETE` ("Cancel a running execution.", `server/api/execution.py:38`) answers
  "cancelled" and has no effect. The called function blocks the event loop (`server/services/execution_service.py:76`).
* A set that holds tuples is encoded and cannot be decoded, for its elements come back as lists (`runtime/serialization.py:101`). Of a
  dict's keys 1 and "1" one survives.
* An agent's task that is cancelled stays "running" for ever (`agent/orchestrator.py:64`).
* A cancelled job's container runs on (`executor/sandbox.py:63`); NoOrphanContainer excepts these.
* A `LazyModule` sets `_loaded` before it fetches: a failed or concurrent load leaves later accesses with an AttributeError
  (`virtualization/loader.py:34`); a name with an underscore in front is not loaded for (`:41`), so that `__version__` is found only once
  something else was.
* A stream that has failed stays registered (`runtime/streaming.py:39`).
* A failed sync sets `_last_sync` all the same and is not repeated before the interval is over (`client/sync.py:96`).
* The background loop and `cpip sync` can bring back metadata the server has just invalidated (`client/daemon.py:135`).
* Overlapping `cpip config` commands lose updates, overrides of the environment are saved with the rest, and a string with
  a quotation mark makes `config.toml` unreadable (`client/config.py:169`).
* A process answers from the manifests it remembers after another one has changed or removed them (`virtualization/registry.py:27`).
* A warm-up adds its containers whatever the pool holds (`executor/container.py:57`); PoolBounded accounts for them.

## 5. The proofs

A theorem of the form `Spec => []P` says for every value of the constants what a run says for one. Where a specification states fairness,
the theorem is about its safety part (`HubSafety`, `DaemonSafety`, `InstallSafety`, ...), which the specification implies. Every invariant
of the runs is proved except `NothingLostOnWire`, and so are the action properties and the three refinements.

*Assumptions.* The constants are arbitrary up to the named assumptions of the modules, and TLC evaluates these in every run: "none"
values differ from real ones; intervals, windows, chunk sizes, threads and priorities are positive naturals, sizes, limits and delays naturals;
functions are defined where the code looks something up. Three say more.
`StreamAssumption`: call ids are not empty (they are UUIDs), and the data of a stream are values that JSON leaves alone, as they come from JSON.
`AgentAssumption`: a pipeline has a task. `KindsAssumption`: the three kinds of request there are.
One theorem has a hypothesis of its own, `CacheBooksAgree`: no two items of the cache have the same path (`OwnPaths`), because a wheel's
file name has package and version in it and a layer's directory is named by its id. `CacheKeepsBooks` says what holds without it.

**ConnectionHubProofs** proves `HubSafe` for any sets of devices and sockets and any interval. `NoDeadRegistration`, `NoOrphan` and `LockExclusive` are
not inductive alone. When `Register` overwrites an entry, NoOrphan survives only because the connection
that is overwritten is closed; this is `ClosingOld`, which in turn holds because the section that
is waiting for the close keeps the lock (LockExclusive), so that nobody else writes the entry.
`HubInv` is the conjunction of the types (split into the part that critical sections write and
the rest), the three properties and ClosingOld. There is a lemma per action, and lemmas for what the two sections do,
which several actions use. `HubImplementsRegistry` is the refinement: under `HubInv` the initial state maps to an initial
state of DeviceRegistry, and every action to one of its steps or to a stutter. ClosingOld is needed here as well: a device's live
connection may be replaced by `Register` only because it has been detached by its close before.

**RemoteCallsProofs** proves `BridgeSafe` and `OutcomeFinal` for any number of sessions, calls, devices and sockets. `BridgeImplementsHub`
comes first: every step of the composition is a step of the hub or leaves it alone, so that `HubInv` holds of it. `BridgeInv` adds to
HubInv, the types and `WaitersFindable`: `EndsClosed`, a fact about the hub (`HubEndsClosed`): a handler is on its way out only when its
socket is closed, so that a socket identity which is dialled anew is open for nobody; `DialsApart`: the socket a call dials is no session's
and no other call's, without which a successful dial could cut off another session's receive loop; and `OpenIsRead`: the socket of a
connected session is read by that session's loop as long as it is open or lost, which is what makes a failure noticed. `OutcomeFinal`, that
what a caller was told stays, is an action property and follows step by step. `BridgeImplementsCalls` is the refinement of RemoteCall, and
says more: that outcomes are right and not only final. It needs to know where on the wire the message of a call can be, over all sockets,
open, lost and closed ones. `WireInv` says it: a queue of a socket has no message twice (`ListedOnce`), a call that has a request or a reply
on one socket has nothing on any other and not both (`OneMessage`, the theorem `NoCallTwiceOnWire`), and nothing is under way on a socket
that is still being dialled (`DialsQuiet`), so that a dial that succeeds revives no old message. With it each step is matched: `Issue` is
Transmit, perhaps into a connection that is no more, or Refuse; `Dispatch` is Serve if a receive loop still reads the reply, and otherwise
Lose; a close, a network failure and the end of a receive loop are Lose for all calls of the socket at once; `Receive` is Answer if the
caller still waits, and otherwise Lose. `BreakerSafe` is proved for any number of callers and any threshold, time-out, number of retries and
delays; the bound on attempts needs that whoever sleeps has an attempt left (`AttemptLeft`).

**BuildQueueProofs** proves `RequestsKept` and the refinement of BuildBoard for any number of requests, workers and priorities. Its core are
lemmas about `Insert`: the place where a sorted queue takes a new entry exists (by the least-element argument for natural numbers), and the
result has the entries of the old queue and the new one, once each, in order. `QueueInv` adds `Busy`, that a worker has a job exactly while
it builds, without which a failing worker could put back a request it does not hold. `QueueImplementsBoard` maps every step to one of
BuildBoard. Its core is how `AheadOf` changes: an entry that is inserted goes behind all of its priority and before none (`InsertAhead`),
and taking out the head removes just the pairs it is in. That the head is the most urgent request, and no other is ahead of it, is
`Ordered`; that no pair is left over for a request that is not waiting follows from Conserved. `NoOrphanContainer` is proved for any number
of jobs and threads: `RunOnce` says that a job's `docker run` is in one place, the queue of the thread pool or a thread, and in none once
the job is being killed or has returned; without it a run that is still queued could start a container after its job has ended.

**ServerApiProofs** proves `WithinLimit` and `OnFile` (together `LimitsKept`) and `PruneWorks` for any number of clients, requests and keys,
any limits and any window. `WithinLimit` is not inductive: `check` counts stamps, and those say something about granted requests only as
long as `OnFile` holds. `LimiterInv` adds OnFile and that finitely many requests are granted, which every step keeps, so that counting makes
sense even for an infinite set of requests. `ServerIsLimiter` shows that every step of the server is a step of the limiter or leaves it
alone, which carries the properties over to `ServerSpec`. `QueuedIsListed` is proved for any number of builds: an id can be listed several
times, and `RemoveFirstFacts` shows that `list.remove` takes out one occurrence and leaves all other ids in.

**DeviceProofs** is about what is kept on the device. *The cache*, for any number of processes and items, any sizes and any limit:
`IndexBounded` (`CacheIsBounded`) and `CacheAgrees` (`CacheBooksAgree`). The eviction's total is a fold, and what it leaves depends on a sum
over a sequence of any length. The proof takes the fold apart into its running sums (`Sums`) and goes up them by induction over positions,
in a form that needs no operator parameter (`Upwards` and `LoopTrace` of SequenceFacts). `EvictEnds` says that the loop ends, because
dropping everything is enough; what remains is at most 90% of the limit; and an index that had one item appended is at most one item above
(`Bounded`). `Keyed`, that an index has one entry for each key, is needed for both: `_index[key] = ...` replaces an entry and does not add
to the sum. `BooksInv` holds with shared paths as well; only `EntryHasFile` needs OwnPaths, because evicting an item removes the file at its
path. Every operation is taken with the failures of its file system calls.
*Metadata*: `MetadataFresh` and `LoopKeepsTime`. How stale a file is depends on how long its catalog was under way, which is no longer than the request
(`SnapshotInTime`, `LagInTime`); that a triggered sync is never outdated holds because the daemon handles no
invalidation meanwhile (`TriggerUpToDate`); how long ago the last sync was, on how much of its sleep the loop has left (`LookedInTime`).
*Configuration*: `SettingKept`; its invariant `CopyIsExpected` says what the copy of the running command is, a change that is being written
included, and that a copy and the file agree after a load or a save only as far as `LoadToml` and `SaveToml` keep values.
*Daemon*: `RunningIsFound`, for any number of processes and commands. `OwnFile`: from the moment a daemon that nobody overlaps opens the PID
file, it has it open under its name until it is written, and then the file is its own; whoever is overlapped is known to be
(`OverlapsNoted`), and `stop()` runs only in a daemon that is not to run on (`StopsOnce`).

**InstallProofs** is about `cpip install`, what remote calls carry, and two components of the server.
*Commands*: `InstallHonest` and `FailsOnlyLocally` for any number of processes and packages. `KnownPlans` are the ten plans, and remainders
of plans, a command can be in the middle of: whether a fallback is left after a failure, and whether a command may fail, depends on the
plan. A process is considered at a time (`Justified`), since nothing takes a package off the device.
*Messages*: `MessagesAreReadBack`: for a message made from any arguments, `from_dict` fills in exactly what `to_dict` leaves out.
*Streams*: `StreamsWhole`, for any number of streams, chunks, repetitions and receivers. `SocketInv` says in which order parts are under
way: the start before all, the end after all, and before the start arrives nothing has; no two parts have the same text (`EncInjective`).
`Pending` is the core: as long as the end may still come, every part that was sent has been applied to a receiver that is whole or is under
way to it. When the end arrives nothing else of its stream is under way, so that all is applied and the chunks, each at its index, are the
data (`AllApplied`).
*Agents*: `PipelinesHonest`, for any agents, capabilities and task list: `AwaitsWell` says that the context of a pipeline that waits has,
under each name, the last task of that name before.
*Container pool*: `PoolSafe`, for any containers, users and pool size, with lemmas on which containers remain in the list, once each, when
one is taken out of the middle or put at the end.

**VirtualProofs** is about virtual packages.
*Layers*: `MountsWhole` and `FilledByOne`, for any number of processes, layers and packages. `LayerInv` adds to them what holds while
directories are filled and removed: a process that fills no directory has no step to count and nothing lost (`AtRest`); a mount is of the package's own
directory (`OwnMounts`); a directory that is being filled is there, unless it was taken away (`FilledIsThere`), and has nothing in it that
does not belong there (`OwnContent`); the layers before the current step are in it (`CopiedSoFar`), unless it is spoilt; and what is there,
not spoilt and filled by nobody is whole (`UnspoiltIsWhole`). FilledByOne is needed for it: two processes that fill one directory could each
end in the middle of the other's work.
*Downloads*: `DownloadsGood`, for any file size, chunk size and parallelism. `RangesCover` shows that the ranges leave no byte out, and
`ChunksKeep` that a chunk that is done stays in the file, whatever the others write.
*Lazy modules*: `MissesExplained` needs who may have marked a module as loaded (`LazyInv`).

*Only model-checked.* All liveness properties, because fairness and ENABLED are out of the prover's reach. `NothingLostOnWire`, because
encoding, decoding and the reference definition are recursive over nested values; its half about messages is proved as `MessagesAreReadBack` for
whatever JSON leaves alone.

## 6. What is not modelled

* Wording and layout; the content of arrays, pickles, wheels and generated programs; how a client's key, a wheel's name, a password or a signature is derived.
* Stateless wrappers around docker, pip, patchelf, cryptographic libraries and browsers; the agents' tools and the table of models; the health
  endpoint; the database schema, which no service uses; user interface and diagnostics.
* Code without a caller: the execution scheduler and `ProxyFactory`, `remaining()` of the limiter, `rpc_call` of the daemon. Sessions: only tests create
  one, so that the server's clean-up finds none. The linker, which nothing imports. (The container pool is used by tests only as well, but is a component with
  operations that race with each other, and modelled.)
* The execution service: a submission runs between two awaits, so that nothing is ever pending when another request is served and `cancel`
  has no effect. Login, registration and token refresh: tokens are made and checked without state on the server, and `auth.json` is written
  in one piece. The manifest registry: a file per manifest, and a memory of each process that is never compared with it, about which the
  code promises nothing.
* Assumptions about what is outside: that a `docker kill` ends; that closing an `httpx` client ends the requests of its chunk tasks, which
  `gather` leaves behind (`ClientCloses` of Download); that a sync's request takes no longer than `MaxRequest` in all, although httpx's 30
  seconds are for each operation (CatalogSync); that a container's user releases it once (a second `release` after the id was handed out
  anew would share it; there are no callers); that a call which is still dialling does not time out, as websockets gives up after 10 seconds
  and the call after 300; that the receive loop's task starts before the session's state changes again (`DialOk`).
* Clocks that are set back, process ids that are reused, and threads other than those of sessions, lazy modules and the sandbox.
* Metadata of different packages is independent, so that the daemon's invalidation of all packages is one of one package.

## 7. What is left

The components that keep state are modelled, the safety properties of their runs are proved but for `NothingLostOnWire`, and the hub, the
remote calls and the build farm are shown to implement abstract specifications. What could be added: an abstract specification of the cache
under `solo` (a map with evictions); bounds on the hub's queue of waiting tasks; and the conditions under which the three expected
violations do not occur, as theorems. Liveness, and what recursive definitions compute, stay with TLC.
