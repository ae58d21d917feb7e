------------------------------ MODULE Install ------------------------------
(***************************************************************************)
(* `cpip install` and `cpip run`: the resolver that picks a strategy and   *)
(* its fallbacks (client/resolver.py), the installer that tries them in    *)
(* turn (client/installer.py), the authentication of the build request     *)
(* (server/auth/middleware.py) and the import hooks that a cloud package   *)
(* is registered with (runtime/hooks.py).                                  *)
(*                                                                         *)
(* Commands are processes that share the installed packages and the wheel  *)
(* cache and may overlap; a step is what one of them does between two      *)
(* awaits.  pip, the package manager, the network and the answers of the   *)
(* cloud registry are external and may go either way.                      *)
(***************************************************************************)
EXTENDS Naturals, Sequences

CONSTANTS Procs,      \* processes
          Pkgs,       \* packages
          NoPkg,      \* "no command"
          Preferred,  \* CLOUD_PREFERRED_PACKAGES
          Renamed,    \* packages that are imported under another name
          Dotted,     \* packages with a dot in their name
          Debug       \* the server's debug mode

ASSUME PkgAssumption ==
  /\ NoPkg \notin Pkgs
  /\ Preferred \subseteq Pkgs /\ Renamed \subseteq Pkgs /\ Dotted \subseteq Pkgs
ASSUME DebugAssumption == Debug \in BOOLEAN

Strategies == {"local", "termux", "wheel", "build", "exec", "hybrid"}
Flags == {"offline", "force", "cloud"}

VARIABLES
  pc,         \* what each process does: see Steps
  pkg,        \* the package the process is asked to install or import
  flags,      \* the options of the command: --local, --force, --cloud
  plan,       \* the strategies still to try, the current one first
  reg,        \* _cloud_packages: the registrations made in each process
  hooked,     \* the processes whose import hooks are active
  site,       \* the packages installed on this device
  wheels,     \* the packages with a valid wheel in the cache
  cloud       \* processes that asked the cloud for something or set it up

installVars == <<pc, pkg, flags, plan, reg, hooked, site, wheels, cloud>>

Steps == {"off", "resolve", "query", "choose", "try", "ok", "failed", "run", "imported", "missing"}

InstallInit ==
  /\ pc = [p \in Procs |-> "off"]
  /\ pkg = [p \in Procs |-> NoPkg]
  /\ flags = [p \in Procs |-> {}]
  /\ plan = [p \in Procs |-> << >>]
  /\ reg = [p \in Procs |-> {}]
  /\ hooked = {}
  /\ site = {}
  /\ wheels = {}
  /\ cloud = {}

Goto(p, step) == pc' = [pc EXCEPT ![p] = step]

-----------------------------------------------------------------------------
(* `cpip install`: the resolver. *)

\* register_cloud_package: in the memory of this process.
RegisterCloudPackage(p) ==
  /\ reg' = [reg EXCEPT ![p] = @ \union {pkg'[p]}]
  /\ cloud' = cloud \union {p}

\* The command starts.  With --cloud it only registers the package.
Start(p, g, f) ==
  /\ pc[p] = "off"
  /\ pkg' = [pkg EXCEPT ![p] = g]
  /\ flags' = [flags EXCEPT ![p] = f]
  /\ IF "cloud" \in f
     THEN /\ RegisterCloudPackage(p)
          /\ Goto(p, "ok")
     ELSE /\ Goto(p, "resolve")
          /\ UNCHANGED <<reg, cloud>>
  /\ UNCHANGED <<plan, hooked, site, wheels>>

\* The plan is made: the installer turns to its first strategy.
Adopt(p, strategies) ==
  /\ plan' = [plan EXCEPT ![p] = strategies]
  /\ Goto(p, "try")

\* _is_installed: find_spec looks for the package's own name.
IsInstalled(g) == g \in site \ Renamed

\* For a dotted name find_spec imports what is before the dot and raises when
\* that fails; nothing is planned then, and the command reports a failure.
ResolveRaises(p) ==
  /\ pc[p] = "resolve" /\ pkg[p] \in Dotted
  /\ Goto(p, "failed")
  /\ UNCHANGED <<pkg, flags, plan, reg, hooked, site, wheels, cloud>>

\* resolve: a package that is installed needs nothing, unless forced; one
\* with a cached wheel is installed from there; otherwise the cloud is asked,
\* or not, if offline.
Resolve(p) ==
  LET g == pkg[p] IN
  /\ pc[p] = "resolve"
  /\ \/ /\ IsInstalled(g) /\ "force" \notin flags[p]
        /\ Goto(p, "ok")
        /\ UNCHANGED plan
     \/ /\ \/ IsInstalled(g) /\ "force" \in flags[p]
           \/ ~IsInstalled(g) /\ g \in wheels
        /\ Adopt(p, <<"local">>)
     \/ /\ ~IsInstalled(g) /\ g \notin wheels
        /\ Goto(p, IF "offline" \in flags[p] THEN "choose" ELSE "query")
        /\ UNCHANGED plan
  /\ UNCHANGED <<pkg, flags, reg, hooked, site, wheels, cloud>>

\* What the registry (or the resolver's override for GPU packages) proposes.
Proposals == {"local", "wheel", "exec", "hybrid"}

\* _cloud_resolution: the proposal, with the other cloud strategies behind it.
CloudPlan(s) ==
  CASE s = "exec" -> <<"exec", "build">>
    [] s = "build" -> <<"build", "exec">>
    [] OTHER -> <<s, "exec", "build">>

\* _query_cloud: an answer makes the plan, no answer leaves the choice open.
Query(p) ==
  /\ pc[p] = "query"
  /\ cloud' = cloud \union {p}
  /\ \/ \E s \in Proposals : Adopt(p, CloudPlan(s))
     \/ Goto(p, "choose") /\ UNCHANGED plan
  /\ UNCHANGED <<pkg, flags, reg, hooked, site, wheels>>

\* A mutation: a local install that fails has no fallback to cloud execution.
DefaultPlanShort(g) ==
  IF g \in Preferred THEN <<"exec", "build">> ELSE <<"local", "wheel", "build">>

\* The plan for a package the cloud knows nothing of.
DefaultPlan(g) ==
  IF g \in Preferred THEN <<"exec", "build">> ELSE <<"local", "wheel", "build", "exec">>

\* resolve, continued: a Termux package if there is one, else the default.
Choose(p) ==
  /\ pc[p] = "choose"
  /\ \E s \in {<<"termux">>, DefaultPlan(pkg[p])} : Adopt(p, s)
  /\ UNCHANGED <<pkg, flags, reg, hooked, site, wheels, cloud>>

-----------------------------------------------------------------------------
(* `cpip install`: the strategies. *)

\* The current strategy succeeded: the command announces the package.
Succeed(p) ==
  /\ Goto(p, "ok")
  /\ UNCHANGED plan

\* A mutation: the last strategy's failure is not reported.
NextStrategySilent(p) ==
  /\ plan' = [plan EXCEPT ![p] = Tail(@)]
  /\ Goto(p, IF Len(plan[p]) = 1 THEN "ok" ELSE "try")

\* It failed or raised: on to the next, or PackageInstallError.
NextStrategy(p) ==
  /\ plan' = [plan EXCEPT ![p] = Tail(@)]
  /\ Goto(p, IF Len(plan[p]) = 1 THEN "failed" ELSE "try")

\* pip or the system's package manager runs, and installs the package or not.
Installs(p) ==
  \/ Succeed(p) /\ site' = site \union {pkg[p]}
  \/ NextStrategy(p) /\ UNCHANGED site

\* _install_local: pip, with the cached wheel if there is one.
InstallLocal(p) ==
  /\ pc[p] = "try" /\ Head(plan[p]) = "local"
  /\ Installs(p)
  /\ UNCHANGED <<pkg, flags, reg, hooked, wheels, cloud>>

\* _install_termux
InstallTermux(p) ==
  /\ pc[p] = "try" /\ Head(plan[p]) = "termux"
  /\ Installs(p)
  /\ UNCHANGED <<pkg, flags, reg, hooked, wheels, cloud>>

\* _install_cloud_wheel: no URL or no download, or a wheel that goes into the
\* cache and then to pip.
InstallCloudWheel(p) ==
  /\ pc[p] = "try" /\ Head(plan[p]) = "wheel"
  /\ cloud' = cloud \union {p}
  /\ \/ NextStrategy(p) /\ UNCHANGED <<wheels, site>>
     \/ wheels' = wheels \union {pkg[p]} /\ Installs(p)
  /\ UNCHANGED <<pkg, flags, reg, hooked>>

\* get_current_user and require_auth: who may post a build.  In debug mode a
\* client without credentials is the anonymous user, which require_auth does
\* not accept.
User(cred) ==
  IF Debug /\ cred \in {"none", "dev"} THEN (IF cred = "dev" THEN "dev-user" ELSE "anonymous")
  ELSE IF cred = "jwt" THEN "user" ELSE "rejected"
RequireAuth(cred) == User(cred) \notin {"anonymous", "rejected"}

\* The installer's build request carries no Authorization header.
BuildCredentials == "none"

\* A mutation: the refused build is polled for without an end.
InstallCloudBuildWaits(p) ==
  /\ pc[p] = "try" /\ Head(plan[p]) = "build"
  /\ cloud' = cloud \union {p}
  /\ UNCHANGED <<pc, pkg, flags, plan, reg, hooked, site, wheels>>

\* _install_cloud_build: the request is posted; a 401 is not 200 or 201, so
\* that the strategy returns False without polling.
InstallCloudBuild(p) ==
  /\ pc[p] = "try" /\ Head(plan[p]) = "build"
  /\ ~RequireAuth(BuildCredentials)
  /\ cloud' = cloud \union {p}
  /\ NextStrategy(p)
  /\ UNCHANGED <<pkg, flags, reg, hooked, site, wheels>>

\* _setup_cloud_exec and _setup_hybrid
SetupCloud(p) ==
  /\ pc[p] = "try" /\ Head(plan[p]) \in {"exec", "hybrid"}
  /\ pkg' = pkg
  /\ RegisterCloudPackage(p)
  /\ Succeed(p)
  /\ UNCHANGED <<flags, hooked, site, wheels>>

-----------------------------------------------------------------------------
(* `cpip run`, `cpip shell`, and the end of a process. *)

\* `cpip run` or `cpip shell` activates the hooks; the script imports g.
Run(p, g) ==
  /\ pc[p] = "off"
  /\ pkg' = [pkg EXCEPT ![p] = g]
  /\ Goto(p, "run")
  /\ hooked' = hooked \union {p}
  /\ UNCHANGED <<flags, plan, reg, site, wheels, cloud>>

\* What `import` finds in process p: what is installed and, with the hooks,
\* what CpipFinder.find_spec claims, the packages registered in this process.
Importable(p) == site \union (IF p \in hooked THEN reg[p] ELSE {})

Import(p) ==
  /\ pc[p] = "run"
  /\ Goto(p, IF pkg[p] \in Importable(p) THEN "imported" ELSE "missing")
  /\ UNCHANGED <<pkg, flags, plan, reg, hooked, site, wheels, cloud>>

\* The process ends, and its registrations with it.
Exit(p) ==
  /\ pc[p] \in {"ok", "failed", "imported", "missing"}
  /\ Goto(p, "off")
  /\ pkg' = [pkg EXCEPT ![p] = NoPkg]
  /\ flags' = [flags EXCEPT ![p] = {}]
  /\ plan' = [plan EXCEPT ![p] = << >>]
  /\ reg' = [reg EXCEPT ![p] = {}]
  /\ hooked' = hooked \ {p}
  /\ cloud' = cloud \ {p}
  /\ UNCHANGED <<site, wheels>>

InstallStep(p) ==
  \/ Resolve(p) \/ ResolveRaises(p) \/ Query(p) \/ Choose(p) \/ InstallLocal(p) \/ InstallTermux(p)
  \/ InstallCloudWheel(p) \/ InstallCloudBuild(p) \/ SetupCloud(p)

InstallNext ==
  \E p \in Procs :
    \/ InstallStep(p) \/ Import(p) \/ Exit(p)
    \/ \E g \in Pkgs : Run(p, g) \/ \E f \in SUBSET Flags : Start(p, g, f)

\* A command that has something to do does it: its requests and subprocesses
\* end.  Nothing is assumed of how they end.
InstallFairness == \A p \in Procs : WF_installVars(InstallStep(p))

InstallSpec == InstallInit /\ [][InstallNext]_installVars /\ InstallFairness

-----------------------------------------------------------------------------

\* The state is well typed, and a command in the middle of its plan has a
\* strategy to try.
InstallTypeOK ==
  /\ pc \in [Procs -> Steps]
  /\ pkg \in [Procs -> Pkgs \union {NoPkg}]
  /\ flags \in [Procs -> SUBSET Flags]
  /\ plan \in [Procs -> Seq(Strategies)]
  /\ \A p \in Procs : pc[p] = "try" => plan[p] # << >>
  /\ reg \in [Procs -> SUBSET Pkgs]
  /\ hooked \subseteq Procs
  /\ site \subseteq Pkgs /\ wheels \subseteq Pkgs
  /\ cloud \subseteq Procs

\* A command that reports success, through whichever strategies and fallbacks
\* and whatever other commands did since it looked, has either a package
\* installed on the device, or a registration of its own that came from the
\* cloud.  Such a registration makes nothing importable: installing never
\* activates the hooks, and it is gone when the command ends.
SuccessIsReal ==
  \A p \in Procs : pc[p] = "ok" =>
    \/ pkg[p] \in Importable(p)
    \/ pkg[p] \in reg[p] /\ p \in cloud \ hooked

\* A command fails only in two ways: the cloud had no part in its plan and a
\* local strategy (a cache hit, a forced reinstall, a Termux package) was the
\* last, since every other plan ends in cloud execution, which cannot fail; or
\* the look for an installed package raised, for a dotted name, before any plan.
MayFail(p) ==
  \/ pc[p] = "try" /\ Head(plan[p]) \in {"local", "termux"}
  \/ pc[p] = "resolve" /\ pkg[p] \in Dotted
FailsOnlyLocally ==
  [][\A p \in Procs : pc[p] # "failed" /\ pc'[p] = "failed" => MayFail(p)]_installVars

\* Every install command comes to an end, through all its fallbacks.
InstallEnds ==
  \A p \in Procs : (pc[p] \in {"resolve", "query", "choose", "try"}) ~> (pc[p] \in {"ok", "failed"})

\* What the help of --local says, "Local install only, no cloud".
OfflineStaysLocal ==
  \A p \in Procs : "offline" \in flags[p] /\ "cloud" \notin flags[p] => p \notin cloud

\* What `cpip install` says of a package is true.
InstallHonest == InstallTypeOK /\ SuccessIsReal
=============================================================================
