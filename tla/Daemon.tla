------------------------------- MODULE Daemon -------------------------------
(***************************************************************************)
(* The background daemon of client/daemon.py and the `cpip daemon`         *)
(* command of client/cli.py that starts it, stops it and asks for its      *)
(* status through the PID file.                                            *)
(*                                                                         *)
(* Daemon processes and commands run concurrently; a command's look at     *)
(* the PID file and what it does next are separate steps.  Inside a        *)
(* daemon, the connection loop and the stop() tasks that SIGTERM creates   *)
(* share an asyncio loop.  Process ids are not reused.                     *)
(***************************************************************************)
EXTENDS Naturals

CONSTANTS Daemons,   \* process ids a daemon may get
          Commands,  \* concurrent invocations of `cpip daemon`
          NoPid,     \* "there is no PID file" / "nothing read"
          Torn,      \* a PID file that was truncated and not written yet
          MaxBackoff \* the doublings after which the reconnect delay stays

ASSUME PidAssumption == NoPid # Torn /\ {NoPid, Torn} \intersect Daemons = {}
ASSUME BackoffAssumption == MaxBackoff \in Nat

VARIABLES
  pidFile,  \* the content of daemon.pid
  linked,   \* the daemons that have it open, as the file that bears the name
  mode,     \* what each process does: "off", "boot", "write", "ready", "dial", "up", "sleep" or "dead"
  running,  \* CpipDaemon._running
  stop,     \* the stop() task: none, asked (in sync.stop), closing the socket, done
  backoff,  \* how often the reconnect delay was doubled
  cmd,      \* what each command does next
  seen,     \* the pid a command has read from the file
  stopped,  \* the daemons to which a command has announced "Daemon stopped"
  contended \* ghost: the daemons that another one, or an unlink to come, overlapped

daemonVars == <<pidFile, linked, mode, running, stop, backoff, cmd, seen, stopped, contended>>

\* off: not started; boot: before start(); write: the PID file is truncated; ready: it is
\* written; dial: in ws_connect; up: in the message loop; sleep: in the reconnect delay.
Booting(p) == mode[p] \in {"boot", "write", "ready"}
Serving(p) == mode[p] \in {"dial", "up", "sleep"}
Alive(p) == Booting(p) \/ Serving(p)

\* Two daemons live at once, or a command has found the file stale or unreadable and will
\* remove it: whoever lives then may lose its PID file.
Overlapped(p) ==
  Alive(p) /\ \/ \E q \in Daemons \ {p} : Alive(q)
              \/ \E c \in Commands : cmd[c] \in {"unlink", "unlinkStart"}

DaemonInit ==
  /\ pidFile = NoPid
  /\ linked = {}
  /\ mode = [p \in Daemons |-> "off"]
  /\ running = [p \in Daemons |-> FALSE]
  /\ stop = [p \in Daemons |-> "none"]
  /\ backoff = [p \in Daemons |-> 0]
  /\ cmd = [c \in Commands |-> "idle"]
  /\ seen = [c \in Commands |-> NoPid]
  /\ stopped = {}
  /\ contended = {}

fileVars == <<pidFile, linked>>
procVars == <<mode, running, stop, backoff>>
cmdVars == <<cmd, seen, stopped>>

\* unlink(missing_ok=True): who has the file open keeps it, without its name.
Unlink == pidFile' = NoPid /\ linked' = {}

-----------------------------------------------------------------------------
(* The `cpip daemon` command. *)

\* is_running: the file is read and the process probed.  A live process is
\* the answer (and the command is over); no file lets `start` go on to spawn;
\* a file that is empty or a dead process's is to be removed.
IsRunning(c, action) ==
  /\ cmd[c] = "idle"
  /\ cmd' = [cmd EXCEPT ![c] =
               IF pidFile = NoPid THEN (IF action = "start" THEN "spawn" ELSE "idle")
               ELSE IF pidFile # Torn /\ Alive(pidFile) THEN "idle"
               ELSE (IF action = "start" THEN "unlinkStart" ELSE "unlink")]
  /\ UNCHANGED <<fileVars, procVars, seen, stopped>>

\* is_running, continued: unlink(missing_ok), whatever the file holds by now.
UnlinkStale(c) ==
  /\ cmd[c] \in {"unlink", "unlinkStart"}
  /\ Unlink
  /\ cmd' = [cmd EXCEPT ![c] = IF @ = "unlinkStart" THEN "spawn" ELSE "idle"]
  /\ UNCHANGED <<procVars, seen, stopped>>

\* daemon start: a detached process is created.
Spawn(c, p) ==
  /\ cmd[c] = "spawn"
  /\ mode[p] = "off"
  /\ mode' = [mode EXCEPT ![p] = "boot"]
  /\ cmd' = [cmd EXCEPT ![c] = "idle"]
  /\ UNCHANGED <<fileVars, running, stop, backoff, seen, stopped>>

\* daemon stop: the pid is read, if there is a file; of an empty one int() raises.
StopRead(c) ==
  /\ cmd[c] = "idle"
  /\ pidFile \notin {NoPid, Torn}
  /\ seen' = [seen EXCEPT ![c] = pidFile]
  /\ cmd' = [cmd EXCEPT ![c] = "kill"]
  /\ UNCHANGED <<fileVars, procVars, stopped>>

\* daemon stop: os.kill(pid, SIGTERM), "Daemon stopped".  Before start() has
\* installed its handlers the signal ends the process; afterwards it creates
\* a task that runs stop() (while one is under way, a second one does nothing
\* more).  A dead process makes os.kill raise.
Kill(c) ==
  LET p == seen[c] IN
  /\ cmd[c] = "kill"
  /\ cmd' = [cmd EXCEPT ![c] = "idle"]
  /\ seen' = [seen EXCEPT ![c] = NoPid]
  /\ IF Alive(p)
     THEN /\ stopped' = stopped \union {p}
          /\ mode' = [mode EXCEPT ![p] = IF Booting(p) THEN "dead" ELSE @]
          /\ running' = [running EXCEPT ![p] = FALSE]
          /\ stop' = [stop EXCEPT ![p] = IF Booting(p) \/ @ \in {"asked", "closing"}
                                          THEN @ ELSE "asked"]
     ELSE UNCHANGED <<stopped, mode, running, stop>>
  /\ UNCHANGED <<fileVars, backoff>>

-----------------------------------------------------------------------------
(* The daemon process. *)

\* A mutation: a file that is there is left as it is.
TruncatePidIfAbsent(p) ==
  /\ mode[p] = "boot"
  /\ running' = [running EXCEPT ![p] = TRUE]
  /\ IF pidFile = NoPid THEN pidFile' = Torn /\ linked' = linked \union {p} ELSE UNCHANGED fileVars
  /\ mode' = [mode EXCEPT ![p] = IF pidFile = NoPid THEN "write" ELSE "ready"]
  /\ UNCHANGED <<stop, backoff, cmdVars>>

\* start(): write_text opens the PID file, which empties it ...
TruncatePid(p) ==
  /\ mode[p] = "boot"
  /\ running' = [running EXCEPT ![p] = TRUE]
  /\ pidFile' = Torn /\ linked' = linked \union {p}
  /\ mode' = [mode EXCEPT ![p] = "write"]
  /\ UNCHANGED <<stop, backoff, cmdVars>>

\* ... and writes it.  What is written to a file that was unlinked meanwhile is lost.
WritePid(p) ==
  /\ mode[p] = "write"
  /\ pidFile' = IF p \in linked THEN p ELSE pidFile
  /\ linked' = linked \ {p}
  /\ mode' = [mode EXCEPT ![p] = "ready"]
  /\ UNCHANGED <<running, stop, backoff, cmdVars>>

\* The handlers are installed, sync started, and the connection loop makes its first attempt.
Ready(p) ==
  /\ mode[p] = "ready"
  /\ mode' = [mode EXCEPT ![p] = "dial"]
  /\ UNCHANGED <<fileVars, running, stop, backoff, cmdVars>>

\* The connection is established: _ws is set and the delay reset.  Nothing
\* looks at _running here.
DialOk(p) ==
  /\ mode[p] = "dial"
  /\ mode' = [mode EXCEPT ![p] = "up"]
  /\ backoff' = [backoff EXCEPT ![p] = 0]
  /\ UNCHANGED <<fileVars, running, stop, cmdVars>>

\* The loop's `while self._running`.
Again(p) == IF running[p] THEN "dial" ELSE "dead"

\* The connection could not be made, or ended with an error: the loop ends if
\* the daemon is stopping, else it waits.
ConnectionError(p) ==
  /\ mode[p] \in {"dial", "up"}
  /\ mode' = [mode EXCEPT ![p] = IF running[p] THEN "sleep" ELSE "dead"]
  /\ UNCHANGED <<fileVars, running, stop, backoff, cmdVars>>

\* The server closed the connection: the message loop ends without an error
\* and the next attempt follows at once.
ServerClose(p) ==
  /\ mode[p] = "up"
  /\ mode' = [mode EXCEPT ![p] = Again(p)]
  /\ UNCHANGED <<fileVars, running, stop, backoff, cmdVars>>

\* A mutation: at the limit the daemon waits for good.
RetryGivesUp(p) ==
  /\ mode[p] = "sleep"
  /\ backoff[p] < MaxBackoff
  /\ backoff' = [backoff EXCEPT ![p] = @ + 1]
  /\ mode' = [mode EXCEPT ![p] = Again(p)]
  /\ UNCHANGED <<fileVars, running, stop, cmdVars>>

\* The delay is over, and doubled for the next time.
Retry(p) ==
  /\ mode[p] = "sleep"
  /\ backoff' = [backoff EXCEPT ![p] = IF @ < MaxBackoff THEN @ + 1 ELSE @]
  /\ mode' = [mode EXCEPT ![p] = Again(p)]
  /\ UNCHANGED <<fileVars, running, stop, cmdVars>>

\* stop(), after sync.stop(): a live connection's close is started.  With no
\* socket at hand, or only that of an earlier connection, there is nothing to
\* wait for: the PID file is removed and the task is done.
StopClose(p) ==
  /\ Alive(p)
  /\ stop[p] = "asked"
  /\ IF mode[p] = "up"
     THEN stop' = [stop EXCEPT ![p] = "closing"] /\ UNCHANGED fileVars
     ELSE stop' = [stop EXCEPT ![p] = "done"] /\ Unlink
  /\ UNCHANGED <<mode, running, backoff, cmdVars>>

\* A mutation: the socket is closed, but the loop does not end with it.
StopClosedStays(p) ==
  /\ Alive(p)
  /\ stop[p] = "closing"
  /\ stop' = [stop EXCEPT ![p] = "done"]
  /\ Unlink
  /\ UNCHANGED <<mode, running, backoff, cmdVars>>

\* stop(), the socket is closed: the message loop ends.  Either this task gets to remove the PID file
\* first, or the main task ends the process before.
StopClosed(p) ==
  /\ Alive(p)
  /\ stop[p] = "closing"
  /\ stop' = [stop EXCEPT ![p] = "done"]
  /\ mode' = [mode EXCEPT ![p] = "dead"]
  /\ Unlink \/ UNCHANGED fileVars
  /\ UNCHANGED <<running, backoff, cmdVars>>

\* The process is killed or the device restarts.
Crash(p) ==
  /\ Alive(p)
  /\ mode' = [mode EXCEPT ![p] = "dead"]
  /\ UNCHANGED <<fileVars, running, stop, backoff, cmdVars>>

-----------------------------------------------------------------------------

CommandStep(c) == UnlinkStale(c) \/ Kill(c) \/ \E p \in Daemons : Spawn(c, p)

StopStep(p) == StopClose(p) \/ StopClosed(p)

BootStep(p) == TruncatePid(p) \/ WritePid(p) \/ Ready(p)

DaemonStep ==
  \/ \E c \in Commands :
       \/ CommandStep(c) \/ StopRead(c)
       \/ \E action \in {"start", "status"} : IsRunning(c, action)
  \/ \E p \in Daemons :
       \/ BootStep(p) \/ DialOk(p) \/ ConnectionError(p) \/ ServerClose(p)
       \/ Retry(p) \/ StopStep(p) \/ Crash(p)

Noted(A) == A /\ contended' = contended \union {p \in Daemons : Overlapped(p)'}

DaemonNext == Noted(DaemonStep)

\* Commands and daemons run; a connection attempt ends one way or the other
\* and the delay ends; the tasks of a daemon get their turn.
DaemonFairness ==
  /\ \A c \in Commands : WF_daemonVars(Noted(CommandStep(c)))
  /\ \A p \in Daemons :
       /\ WF_daemonVars(Noted(BootStep(p)))
       /\ WF_daemonVars(Noted(mode[p] = "dial" /\ (DialOk(p) \/ ConnectionError(p))))
       /\ WF_daemonVars(Noted(Retry(p)))
       /\ WF_daemonVars(Noted(StopStep(p)))

\* The server can be reached: not every attempt fails.
Reachable == \A p \in Daemons : SF_daemonVars(Noted(DialOk(p)))

DaemonSpec == DaemonInit /\ [][DaemonNext]_daemonVars /\ DaemonFairness /\ Reachable

-----------------------------------------------------------------------------

\* The PID file names the daemon that serves, until it is asked to stop: `status` finds it,
\* `stop` reaches it and `start` makes no second one, whatever was started, stopped, killed
\* and left behind before.  Excepted is a daemon that lived at the same time as another one,
\* or as a command that had already found the file stale or empty.
RunningIsFound ==
  \A p \in Daemons : Serving(p) /\ running[p] /\ p \notin contended => pidFile = p

\* A daemon that is asked to stop while it is connected or waiting to
\* reconnect ends, even if its connection breaks while stop() runs.
StopEndsConnected ==
  \A p \in Daemons :
     (stop[p] = "asked" /\ mode[p] \in {"up", "sleep"}) ~> (mode[p] = "dead")

\* The connection is persistent: a daemon that lost it and is not asked to
\* stop is connected again, through any number of failed attempts.
Reconnects ==
  \A p \in Daemons :
     (mode[p] \in {"dial", "sleep"}) ~> (mode[p] \in {"up", "dead"} \/ ~running[p])

\* What `daemon stop` announces with "Daemon stopped", and the user guide with "Stop the
\* daemon": the daemon that got the signal ends.
StopEnds ==
  \A p \in Daemons : (p \in stopped) ~> (mode[p] = "dead")
=============================================================================
