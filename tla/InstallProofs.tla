--------------------------- MODULE InstallProofs ----------------------------
(***************************************************************************)
(* `cpip install` and `cpip run` for any number of processes and packages, *)
(* the messages and streams of remote calls for any data, the agents'      *)
(* pipelines for any task list, and the container pool of                  *)
(* executor/container.py for any number of containers, users and kinds and *)
(* any pool size.                                                          *)
(***************************************************************************)
EXTENDS Install, Streaming, Agents, ContainerPool, SequenceFacts

-----------------------------------------------------------------------------
(* Strategies and fallbacks.                                               *)

\* The safety part of the specification.
InstallSafety == InstallInit /\ [][InstallNext]_installVars

\* The plans a command can be in the middle of.
KnownPlans == {<<"local">>, <<"termux">>, <<"exec">>, <<"exec", "build">>, <<"build", "exec">>,
               <<"wheel", "build", "exec">>, <<"local", "wheel", "build", "exec">>,
               <<"local", "exec", "build">>, <<"wheel", "exec", "build">>, <<"hybrid", "exec", "build">>}

\* A command tries a plan of these and does so for a package, only scripts have hooks, and what is reported
\* is installed or was registered with the cloud by the command itself.
InstallInv ==
  /\ InstallHonest
  /\ \A p \in Procs :
       /\ pc[p] = "try" => plan[p] \in KnownPlans
       /\ p \in hooked => pc[p] \in {"run", "imported", "missing"}
       /\ pc[p] # "off" => pkg[p] \in Pkgs
       /\ pc[p] = "ok" => pkg[p] \in site \/ (pkg[p] \in reg[p] /\ p \in cloud)

\* What a plan of up to four strategies starts with and what is left when its first has failed.
LEMMA ShortPlans ==
  ASSUME NEW S, NEW a \in S, NEW b \in S, NEW c \in S, NEW d \in S
  PROVE  /\ <<a>> \in Seq(S) /\ Len(<<a>>) = 1 /\ Head(<<a>>) = a /\ Tail(<<a>>) = << >>
         /\ <<a, b>> \in Seq(S) /\ Len(<<a, b>>) = 2 /\ Head(<<a, b>>) = a /\ Tail(<<a, b>>) = <<b>>
         /\ <<a, b, c>> \in Seq(S) /\ Len(<<a, b, c>>) = 3 /\ Head(<<a, b, c>>) = a
         /\ Tail(<<a, b, c>>) = <<b, c>>
         /\ <<a, b, c, d>> \in Seq(S) /\ Len(<<a, b, c, d>>) = 4 /\ Head(<<a, b, c, d>>) = a
         /\ Tail(<<a, b, c, d>>) = <<b, c, d>>
<1>1. Len(<<a>>) = 1 /\ Head(<<a>>) = a /\ Tail(<<a>>) = << >>
  OBVIOUS
<1>2. Len(<<a, b>>) = 2 /\ Head(<<a, b>>) = a /\ Tail(<<a, b>>) = <<b>>
  OBVIOUS
<1>3. Len(<<a, b, c>>) = 3 /\ Head(<<a, b, c>>) = a /\ Tail(<<a, b, c>>) = <<b, c>>
  OBVIOUS
<1>4. Len(<<a, b, c, d>>) = 4 /\ Head(<<a, b, c, d>>) = a /\ Tail(<<a, b, c, d>>) = <<b, c, d>>
  OBVIOUS
<1>5. <<a>> \in Seq(S) /\ <<a, b>> \in Seq(S)
  OBVIOUS
<1>6. <<a, b, c>> \in Seq(S)
  OBVIOUS
<1>7. <<a, b, c, d>> \in Seq(S)
  OBVIOUS
<1> QED BY <1>1, <1>2, <1>3, <1>4, <1>5, <1>6, <1>7

\* A known plan has a strategy to try; where that one may fail, what is left is again a known plan, or
\* there is nothing left and the strategy was a local one.
LEMMA PlanTails ==
  ASSUME NEW s \in KnownPlans
  PROVE  /\ s \in Seq(Strategies) /\ s # << >>
         /\ Tail(s) \in Seq(Strategies)
         /\ Head(s) \notin {"exec", "hybrid"} =>
              /\ Len(s) # 1 => Tail(s) \in KnownPlans
              /\ Len(s) = 1 => Head(s) \in {"local", "termux"}
<1>1. /\ "local" \in Strategies /\ "termux" \in Strategies /\ "wheel" \in Strategies
      /\ "build" \in Strategies /\ "exec" \in Strategies /\ "hybrid" \in Strategies
  BY DEF Strategies
<1>2. Len(<< >>) = 0
  OBVIOUS
<1>3. CASE s = <<"local">> \/ s = <<"termux">> \/ s = <<"exec">>
  <2>0. PICK a \in {"local", "termux", "exec"} : s = <<a>>
    BY <1>3
  <2>1. s \in Seq(Strategies) /\ Len(s) = 1 /\ Tail(s) = << >>
    BY <1>1, <2>0, ShortPlans
  <2>2. Head(s) \in {"local", "termux", "exec"}
    BY <1>1, <2>0, ShortPlans
  <2>3. << >> \in Seq(Strategies)
    OBVIOUS
  <2>4. s # << >> /\ Tail(s) \in Seq(Strategies)
    BY <1>2, <2>1, <2>3
  <2> QED BY <2>1, <2>2, <2>4
<1>4. CASE s = <<"build", "exec">>
  <2>1. s \in Seq(Strategies) /\ Len(s) = 2 /\ Tail(s) \in Seq(Strategies)
    BY <1>1, <1>4, ShortPlans
  <2>2. Tail(s) \in KnownPlans
    BY <1>1, <1>4, ShortPlans DEF KnownPlans
  <2> QED BY <1>2, <2>1, <2>2
<1>5. CASE s = <<"exec", "build">>
  <2>1. s \in Seq(Strategies) /\ Len(s) = 2 /\ Tail(s) \in Seq(Strategies)
    BY <1>1, <1>5, ShortPlans
  <2>2. Head(s) = "exec"
    BY <1>1, <1>5, ShortPlans
  <2> QED BY <1>2, <2>1, <2>2
<1>6. CASE s = <<"wheel", "build", "exec">>
  <2>1. s \in Seq(Strategies) /\ Len(s) = 3 /\ Tail(s) \in Seq(Strategies)
    BY <1>1, <1>6, ShortPlans
  <2>2. Tail(s) \in KnownPlans
    BY <1>1, <1>6, ShortPlans DEF KnownPlans
  <2> QED BY <1>2, <2>1, <2>2
<1>7. CASE s = <<"local", "wheel", "build", "exec">>
  <2>1. s \in Seq(Strategies) /\ Len(s) = 4 /\ Tail(s) \in Seq(Strategies)
    BY <1>1, <1>7, ShortPlans
  <2>2. Tail(s) \in KnownPlans
    BY <1>1, <1>7, ShortPlans DEF KnownPlans
  <2> QED BY <1>2, <2>1, <2>2
<1>8. CASE s = <<"local", "exec", "build">>
  <2>1. s \in Seq(Strategies) /\ Len(s) = 3 /\ Tail(s) \in Seq(Strategies)
    BY <1>1, <1>8, ShortPlans
  <2>2. Tail(s) \in KnownPlans
    BY <1>1, <1>8, ShortPlans DEF KnownPlans
  <2> QED BY <1>2, <2>1, <2>2
<1>9. CASE s = <<"wheel", "exec", "build">>
  <2>1. s \in Seq(Strategies) /\ Len(s) = 3 /\ Tail(s) \in Seq(Strategies)
    BY <1>1, <1>9, ShortPlans
  <2>2. Tail(s) \in KnownPlans
    BY <1>1, <1>9, ShortPlans DEF KnownPlans
  <2> QED BY <1>2, <2>1, <2>2
<1>10. CASE s = <<"hybrid", "exec", "build">>
  <2>1. s \in Seq(Strategies) /\ Len(s) = 3 /\ Tail(s) \in Seq(Strategies)
    BY <1>1, <1>10, ShortPlans
  <2>2. Head(s) = "hybrid"
    BY <1>1, <1>10, ShortPlans
  <2> QED BY <1>2, <2>1, <2>2
<1> QED BY <1>3, <1>4, <1>5, <1>6, <1>7, <1>8, <1>9, <1>10 DEF KnownPlans

\* Every plan the resolver makes is a known one (_cloud_resolution, the defaults and the two local ones).
LEMMA NewPlans ==
  /\ \A s \in Proposals : CloudPlan(s) \in KnownPlans
  /\ \A g : DefaultPlan(g) \in KnownPlans
  /\ <<"local">> \in KnownPlans /\ <<"termux">> \in KnownPlans
BY DEF Proposals, CloudPlan, DefaultPlan, KnownPlans

\* What the strategies' actions make of the plan and the step of the process, for all of them at once.
LEMMA NextStrategyFacts ==
  ASSUME InstallInv, NEW p \in Procs, NextStrategy(p), pc[p] = "try", Head(plan[p]) \notin {"exec", "hybrid"}
  PROVE  /\ pc' = [pc EXCEPT ![p] = pc'[p]] /\ pc'[p] \in {"failed", "try"}
         /\ plan' = [plan EXCEPT ![p] = plan'[p]] /\ plan'[p] \in Seq(Strategies)
         /\ pc'[p] = "try" => plan'[p] \in KnownPlans
         /\ pc'[p] = "failed" => Head(plan[p]) \in {"local", "termux"}
<1>1. plan[p] \in KnownPlans /\ pc \in [Procs -> Steps] /\ plan \in [Procs -> Seq(Strategies)]
  BY DEF InstallInv, InstallHonest, InstallTypeOK
<1>2. plan'[p] = Tail(plan[p]) /\ pc'[p] = (IF Len(plan[p]) = 1 THEN "failed" ELSE "try")
  BY <1>1 DEF NextStrategy, Goto
<1>3. pc' = [pc EXCEPT ![p] = pc'[p]] /\ plan' = [plan EXCEPT ![p] = plan'[p]]
  BY <1>1, <1>2 DEF NextStrategy, Goto
<1> QED BY <1>1, <1>2, <1>3, PlanTails

\* The types of the processes' state, one process at a time.
Typed ==
  /\ pc \in [Procs -> Steps] /\ pkg \in [Procs -> Pkgs \union {NoPkg}] /\ flags \in [Procs -> SUBSET Flags]
  /\ plan \in [Procs -> Seq(Strategies)] /\ reg \in [Procs -> SUBSET Pkgs]
  /\ hooked \subseteq Procs /\ site \subseteq Pkgs /\ wheels \subseteq Pkgs /\ cloud \subseteq Procs

\* What a process may claim in the step it is in.
Justified(p) ==
  /\ pc[p] = "try" => plan[p] \in KnownPlans
  /\ p \in hooked => pc[p] \in {"run", "imported", "missing"}
  /\ pc[p] # "off" => pkg[p] \in Pkgs
  /\ pc[p] = "ok" => pkg[p] \in site \/ (pkg[p] \in reg[p] /\ p \in cloud)

\* The invariant says the same of each process, one at a time.
LEMMA InvByProcess == InstallInv <=> Typed /\ \A p \in Procs : Justified(p)
<1>1. Typed /\ (\A p \in Procs : Justified(p)) => \A p \in Procs : pc[p] = "try" => plan[p] # << >>
  BY PlanTails DEF Justified
<1>2. (\A p \in Procs : Justified(p)) => SuccessIsReal
  BY DEF Justified, SuccessIsReal, Importable
<1> QED BY <1>1, <1>2 DEF InstallInv, InstallHonest, InstallTypeOK, Typed, Justified

\* A step of one process leaves the others alone.
Alone(p) ==
  /\ \A q \in Procs \ {p} : pc'[q] = pc[q] /\ pkg'[q] = pkg[q] /\ plan'[q] = plan[q] /\ reg'[q] = reg[q]
                         /\ (q \in hooked' <=> q \in hooked) /\ (q \in cloud' <=> q \in cloud)
  /\ site \subseteq site'

\* The invariant survives a step of process p that leaves the others alone, takes nothing off the
\* device and ends where p may be.
LEMMA OnlyOneMoves ==
  ASSUME InstallInv, NEW p \in Procs, Typed', Alone(p), Justified(p)'
  PROVE  InstallInv'
<1>1. ASSUME NEW q \in Procs, q # p PROVE Justified(q)'
  BY <1>1, InvByProcess DEF Alone, Justified
<1>2. \A q \in Procs : Justified(q)'
  BY <1>1
<1>3. \A q \in Procs : pc'[q] = "try" => plan'[q] # << >>
  BY <1>2, PlanTails DEF Justified
<1>4. SuccessIsReal'
  BY <1>2 DEF Justified, SuccessIsReal, Importable
<1> QED BY <1>2, <1>3, <1>4 DEF InstallInv, InstallHonest, InstallTypeOK, Typed, Justified

\* The invariant is inductive: every action of a command keeps it.
LEMMA InstallInvStep ==
  ASSUME InstallInv, InstallNext
  PROVE  InstallInv'
<1>0. Typed /\ \A p \in Procs : Justified(p)
  BY InvByProcess
<1>1. ASSUME NEW p \in Procs, Resolve(p) PROVE Typed' /\ Alone(p) /\ Justified(p)'
  <2>1. <<"local">> \in KnownPlans /\ <<"local">> \in Seq(Strategies)
    BY NewPlans, PlanTails
  <2>2. PICK st \in {"ok", "try", "choose", "query"}, s \in {<<"local">>, plan[p]} :
          /\ pc' = [pc EXCEPT ![p] = st] /\ plan' = [plan EXCEPT ![p] = s]
          /\ st = "try" => s \in KnownPlans
          /\ st = "ok" => pkg[p] \in site
    BY <1>0, <1>1, <2>1 DEF Resolve, IsInstalled, Goto, Adopt, Typed
  <2>3. Typed'
    BY <1>0, <1>1, <2>1, <2>2 DEF Resolve, Typed, Steps
  <2> QED BY <1>0, <1>1, <2>2, <2>3 DEF Resolve, Typed, Alone, Justified
<1>2. ASSUME NEW p \in Procs, Query(p) PROVE Typed' /\ Alone(p) /\ Justified(p)'
  <2>1. \A s \in Proposals : CloudPlan(s) \in KnownPlans /\ CloudPlan(s) \in Seq(Strategies)
    BY NewPlans, PlanTails
  <2>2. PICK st \in {"try", "choose"}, s \in Seq(Strategies) :
          /\ pc' = [pc EXCEPT ![p] = st] /\ plan' = [plan EXCEPT ![p] = s]
          /\ st = "try" => s \in KnownPlans
    <3>1. CASE Goto(p, "choose") /\ UNCHANGED plan
      BY <1>0, <3>1 DEF Goto, Typed
    <3>2. CASE \E s \in Proposals : Adopt(p, CloudPlan(s))
      BY <2>1, <3>2 DEF Adopt, Goto
    <3> QED BY <1>2, <3>1, <3>2 DEF Query
  <2>3. Typed'
    BY <1>0, <1>2, <2>2 DEF Query, Typed, Steps
  <2> QED BY <1>0, <1>2, <2>2, <2>3 DEF Query, Typed, Alone, Justified
<1>3. ASSUME NEW p \in Procs, Choose(p) PROVE Typed' /\ Alone(p) /\ Justified(p)'
  <2>1. PICK s \in {<<"termux">>, DefaultPlan(pkg[p])} : Adopt(p, s)
    BY <1>3 DEF Choose
  <2>2. s \in KnownPlans /\ s \in Seq(Strategies)
    BY NewPlans, PlanTails
  <2>3. Typed'
    BY <1>0, <1>3, <2>1, <2>2 DEF Choose, Adopt, Goto, Typed, Steps
  <2> QED BY <1>0, <1>3, <2>1, <2>2, <2>3 DEF Choose, Adopt, Goto, Typed, Alone, Justified
<1>4. ASSUME NEW p \in Procs, pc[p] = "try", Head(plan[p]) \notin {"exec", "hybrid"},
             UNCHANGED <<pkg, flags, reg, hooked>>, cloud \subseteq cloud', cloud' \subseteq cloud \union {p}, wheels' \subseteq Pkgs, cloud' \subseteq Procs,
             Installs(p) \/ (NextStrategy(p) /\ UNCHANGED site)
      PROVE  Typed' /\ Alone(p) /\ Justified(p)'
  <2>1. pkg[p] \in Pkgs
    BY <1>0, <1>4 DEF Justified
  <2>2. CASE Succeed(p) /\ site' = site \union {pkg[p]}
    <3>1. Typed'
      BY <1>0, <1>4, <2>1, <2>2 DEF Succeed, Goto, Typed, Steps
    <3> QED BY <1>0, <1>4, <2>1, <2>2, <3>1 DEF Succeed, Goto, Typed, Alone, Justified
  <2>3. CASE NextStrategy(p) /\ UNCHANGED site
    <3>1. /\ pc' = [pc EXCEPT ![p] = pc'[p]] /\ pc'[p] \in {"failed", "try"}
          /\ plan' = [plan EXCEPT ![p] = plan'[p]] /\ plan'[p] \in Seq(Strategies)
          /\ pc'[p] = "try" => plan'[p] \in KnownPlans
      BY <1>4, <2>3, NextStrategyFacts
    <3>2. Typed'
      BY <1>0, <1>4, <2>3, <3>1 DEF Typed, Steps
    <3> QED BY <1>0, <1>4, <2>1, <2>3, <3>1, <3>2 DEF Typed, Alone, Justified
  <2> QED BY <1>4, <2>2, <2>3 DEF Installs
<1>5. ASSUME NEW p \in Procs, InstallLocal(p) \/ InstallTermux(p) \/ InstallCloudWheel(p) \/ InstallCloudBuild(p)
      PROVE  Typed' /\ Alone(p) /\ Justified(p)'
  <2>1. pkg[p] \in Pkgs /\ pc[p] = "try" /\ Head(plan[p]) \notin {"exec", "hybrid"}
    BY <1>0, <1>5 DEF InstallLocal, InstallTermux, InstallCloudWheel, InstallCloudBuild, Justified
  <2>2. UNCHANGED <<pkg, flags, reg, hooked>> /\ wheels' \subseteq Pkgs /\ cloud' \subseteq Procs
        /\ cloud \subseteq cloud' /\ cloud' \subseteq cloud \union {p}
    BY <1>0, <1>5, <2>1 DEF InstallLocal, InstallTermux, InstallCloudWheel, InstallCloudBuild, Typed
  <2>3. Installs(p) \/ (NextStrategy(p) /\ UNCHANGED site)
    <3>1. CASE InstallLocal(p)
      BY <3>1 DEF InstallLocal, Installs, NextStrategy, Succeed, Goto
    <3>2. CASE InstallTermux(p)
      BY <3>2 DEF InstallTermux, Installs, NextStrategy, Succeed, Goto
    <3>3. CASE InstallCloudWheel(p)
      BY <3>3 DEF InstallCloudWheel, Installs, NextStrategy, Succeed, Goto
    <3>4. CASE InstallCloudBuild(p)
      BY <3>4 DEF InstallCloudBuild
    <3> QED BY <1>5, <3>1, <3>2, <3>3, <3>4
  <2> QED BY <1>4, <2>1, <2>2, <2>3
<1>6. ASSUME NEW p \in Procs, SetupCloud(p) PROVE Typed' /\ Alone(p) /\ Justified(p)'
  <2>1. pc[p] = "try" /\ pkg[p] \in Pkgs /\ pkg' = pkg
    BY <1>0, <1>6 DEF SetupCloud, Justified
  <2>2. reg' = [reg EXCEPT ![p] = reg[p] \union {pkg[p]}] /\ cloud' = cloud \union {p}
    BY <1>6, <2>1 DEF SetupCloud, RegisterCloudPackage
  <2>3. Typed'
    BY <1>0, <1>6, <2>1, <2>2 DEF SetupCloud, Succeed, Goto, Typed, Steps
  <2> QED BY <1>0, <1>6, <2>1, <2>2, <2>3 DEF SetupCloud, Succeed, Goto, Typed, Alone, Justified
<1>7. ASSUME NEW p \in Procs, NEW g \in Pkgs, NEW f \in SUBSET Flags, Start(p, g, f)
      PROVE  Typed' /\ Alone(p) /\ Justified(p)'
  <2>1. pc[p] = "off" /\ pkg'[p] = g
    BY <1>0, <1>7 DEF Start, Typed
  <2>2. PICK st \in {"ok", "resolve"} :
          /\ pc' = [pc EXCEPT ![p] = st]
          /\ st = "ok" => RegisterCloudPackage(p)
          /\ st # "ok" => UNCHANGED <<reg, cloud>>
    BY <1>7 DEF Start, Goto
  <2>3. Typed'
    <3>1. pc' \in [Procs -> Steps] /\ pkg' \in [Procs -> Pkgs \union {NoPkg}] /\ flags' \in [Procs -> SUBSET Flags]
      BY <1>0, <1>7, <2>2 DEF Start, Typed, Steps
    <3>2. reg' \in [Procs -> SUBSET Pkgs] /\ cloud' \subseteq Procs
      <4>1. CASE st = "ok"
        <5>1. reg' = [reg EXCEPT ![p] = reg[p] \union {g}] /\ cloud' = cloud \union {p}
          BY <2>1, <2>2, <4>1 DEF RegisterCloudPackage
        <5>2. reg \in [Procs -> SUBSET Pkgs] /\ cloud \subseteq Procs /\ reg[p] \union {g} \in SUBSET Pkgs
          BY <1>0 DEF Typed
        <5> QED BY <5>1, <5>2
      <4>2. CASE st # "ok"
        BY <1>0, <2>2, <4>2 DEF Typed
      <4> QED BY <4>1, <4>2
    <3> QED BY <1>0, <1>7, <3>1, <3>2 DEF Start, Typed
  <2>4. st = "ok" => /\ reg' = [reg EXCEPT ![p] = reg[p] \union {g}] /\ g \in reg'[p]
                     /\ cloud' = cloud \union {p}
    BY <1>0, <2>1, <2>2 DEF RegisterCloudPackage, Typed
  <2>5. pkg' = [pkg EXCEPT ![p] = g] /\ UNCHANGED <<plan, hooked, site>>
    BY <1>7 DEF Start
  <2>6. Alone(p)
    BY <1>0, <2>2, <2>4, <2>5 DEF Typed, Alone
  <2>7. pc'[p] = st /\ p \notin hooked'
    BY <1>0, <2>1, <2>2, <2>5 DEF Typed, Justified
  <2>8. Justified(p)'
    BY <2>1, <2>2, <2>4, <2>7 DEF Justified
  <2> QED BY <2>3, <2>6, <2>8
<1>8. ASSUME NEW p \in Procs, NEW g \in Pkgs, Run(p, g) PROVE Typed' /\ Alone(p) /\ Justified(p)'
  <2>1. Typed'
    BY <1>0, <1>8 DEF Run, Goto, Typed, Steps
  <2> QED BY <1>0, <1>8, <2>1 DEF Run, Goto, Typed, Alone, Justified
<1>9. ASSUME NEW p \in Procs, Import(p) PROVE Typed' /\ Alone(p) /\ Justified(p)'
  <2>1. Typed'
    BY <1>0, <1>9 DEF Import, Goto, Typed, Steps
  <2> QED BY <1>0, <1>9, <2>1 DEF Import, Goto, Typed, Alone, Justified
<1>10. ASSUME NEW p \in Procs, Exit(p) PROVE Typed' /\ Alone(p) /\ Justified(p)'
  <2>1. << >> \in Seq(Strategies)
    OBVIOUS
  <2>2. Typed'
    BY <1>0, <1>10, <2>1 DEF Exit, Goto, Typed, Steps
  <2> QED BY <1>0, <1>10, <2>2 DEF Exit, Goto, Typed, Alone, Justified
<1>12. ASSUME NEW p \in Procs, ResolveRaises(p) PROVE Typed' /\ Alone(p) /\ Justified(p)'
  <2>1. Typed'
    BY <1>0, <1>12 DEF ResolveRaises, Goto, Typed, Steps
  <2> QED BY <1>0, <1>12, <2>1 DEF ResolveRaises, Goto, Typed, Alone, Justified
<1>11. PICK p \in Procs : Typed' /\ Alone(p) /\ Justified(p)'
  BY <1>12, <1>1, <1>2, <1>3, <1>5, <1>6, <1>7, <1>8, <1>9, <1>10 DEF InstallNext, InstallStep
<1> QED BY <1>11, OnlyOneMoves

\* The inductive invariant holds of every state of the specification.
LEMMA InstallInductive == InstallSafety => []InstallInv
<1>1. InstallInit => InstallInv
  <2>1. << >> \in Seq(Strategies)
    OBVIOUS
  <2> QED BY <2>1 DEF InstallInit, InstallInv, InstallHonest, InstallTypeOK, SuccessIsReal, Importable, Steps
<1>2. InstallInv /\ [InstallNext]_installVars => InstallInv'
  <2>1. ASSUME InstallInv, UNCHANGED installVars PROVE InstallInv'
    BY <2>1 DEF installVars, InstallInv, InstallHonest, InstallTypeOK, SuccessIsReal, Importable
  <2> QED BY <2>1, InstallInvStep
<1> QED BY <1>1, <1>2, PTL DEF InstallSafety

\* Whatever strategy and fallback a command went through, and whatever the other commands did meanwhile: a
\* package reported as a success is installed on the device, or the command itself registered it with the
\* cloud, in a process whose import hooks are off.
THEOREM InstallIsHonest == InstallSafety => []InstallHonest
<1>1. InstallInv => InstallHonest
  BY DEF InstallInv
<1> QED BY <1>1, InstallInductive, PTL

\* A command that fails had no cloud strategy left to fall back to because its plan never had one: whatever
\* the registry answered, every other plan ends in cloud execution, which does not fail.  The exception is a
\* dotted name, for which the look for an installed package may raise before there is a plan.
THEOREM CommandsFailLocally == InstallSafety => FailsOnlyLocally
<1>1. ASSUME InstallInv, InstallNext, NEW p \in Procs, pc[p] # "failed", pc'[p] = "failed"
      PROVE  MayFail(p)
  <2>1. ASSUME NEW q \in Procs, NextStrategy(q), pc[q] = "try", Head(plan[q]) \notin {"exec", "hybrid"}
        PROVE  MayFail(p)
    <3>1. pc' = [pc EXCEPT ![q] = pc'[q]] /\ (pc'[q] = "failed" => Head(plan[q]) \in {"local", "termux"})
      BY <1>1, <2>1, NextStrategyFacts
    <3>2. pc \in [Procs -> Steps]
      BY <1>1 DEF InstallInv, InstallHonest, InstallTypeOK
    <3>3. p = q
      BY <1>1, <3>1, <3>2
    <3> QED BY <1>1, <2>1, <3>1, <3>3 DEF MayFail
  <2>2. ASSUME NEW q \in Procs, NEW st \in Steps \ {"failed"}, pc' = [pc EXCEPT ![q] = st]
        PROVE  FALSE
    BY <1>1, <2>2 DEF InstallInv, InstallHonest, InstallTypeOK
  <2>3. ASSUME NEW q \in Procs, InstallStep(q)
        PROVE  MayFail(p)
    <3>1. CASE Resolve(q)
      BY <2>2, <3>1 DEF Resolve, Adopt, Goto, Steps
    <3>2. CASE Query(q) \/ Choose(q)
      BY <2>2, <3>2 DEF Query, Choose, Adopt, Goto, Steps
    <3>3. CASE InstallLocal(q) \/ InstallTermux(q)
      BY <2>1, <2>2, <3>3 DEF InstallLocal, InstallTermux, Installs, Succeed, Goto, Steps
    <3>4. CASE InstallCloudWheel(q)
      BY <2>1, <2>2, <3>4 DEF InstallCloudWheel, Installs, Succeed, Goto, Steps
    <3>5. CASE InstallCloudBuild(q)
      BY <2>1, <3>5 DEF InstallCloudBuild
    <3>6. CASE SetupCloud(q)
      BY <2>2, <3>6 DEF SetupCloud, Succeed, Goto, Steps
    <3>7. CASE ResolveRaises(q)
      <4>1. pc' = [pc EXCEPT ![q] = "failed"] /\ pc[q] = "resolve" /\ pkg[q] \in Dotted
        BY <3>7 DEF ResolveRaises, Goto
      <4>2. p = q
        BY <1>1, <4>1 DEF InstallInv, InstallHonest, InstallTypeOK
      <4> QED BY <4>1, <4>2 DEF MayFail
    <3> QED BY <2>3, <3>7, <3>1, <3>2, <3>3, <3>4, <3>5, <3>6 DEF InstallStep
  <2>4. ASSUME NEW q \in Procs, Import(q) \/ Exit(q) PROVE FALSE
    BY <2>2, <2>4 DEF Import, Exit, Goto, Steps
  <2>5. ASSUME NEW q \in Procs, NEW g \in Pkgs, Run(q, g) PROVE FALSE
    BY <2>2, <2>5 DEF Run, Goto, Steps
  <2>6. ASSUME NEW q \in Procs, NEW g \in Pkgs, NEW f \in SUBSET Flags, Start(q, g, f) PROVE FALSE
    <3>1. pc' = [pc EXCEPT ![q] = "ok"] \/ pc' = [pc EXCEPT ![q] = "resolve"]
      BY <2>6 DEF Start, Goto
    <3> QED BY <2>2, <3>1 DEF Steps
  <2> QED BY <1>1, <2>3, <2>4, <2>5, <2>6 DEF InstallNext
<1>2. InstallInv /\ [InstallNext]_installVars =>
        [\A p \in Procs : pc[p] # "failed" /\ pc'[p] = "failed" => MayFail(p)]_installVars
  BY <1>1 DEF installVars
<1>3. InstallSafety => []InstallInv
  BY InstallInductive
<1> QED BY <1>2, <1>3, PTL DEF InstallSafety, FailsOnlyLocally

-----------------------------------------------------------------------------
(* Messages and streams.                                                   *)

\* A message as RPCMessage.__init__ leaves it, whose optional texts are missing rather than empty.
Filled(m) ==
  /\ m = [type |-> m.type, id |-> m.id, method |-> m.method, params |-> m.params, result |-> m.result,
          error |-> m.error, timestamp |-> m.timestamp, metadata |-> m.metadata]
  /\ Truthy(m.id) /\ Truthy(m.timestamp)
  /\ Truthy(m.params) \/ m.params = Empty
  /\ Truthy(m.metadata) \/ m.metadata = Empty
  /\ Truthy(m.method) \/ m.method = None
  /\ Truthy(m.error) \/ m.error = None

\* The values that count as missing, and some that do not.
LEMMA TruthFacts ==
  /\ ~Truthy(None) /\ ~Truthy(Empty) /\ ~Truthy(Num(0))
  /\ Truthy(Str("now")) /\ Truthy(Str("new id"))
  /\ \A s : s # "" => Truthy(Str(s))
  /\ \A n : n # 0 => Truthy(Num(n))
<1>1. ~Truthy(None) /\ ~Truthy(Empty) /\ ~Truthy(Num(0))
  BY DEF Truthy
<1>2. ASSUME NEW s, s # "" PROVE Truthy(Str(s))
  BY <1>2 DEF Truthy, Str, None, Num, List, Empty, Dict
<1>3. ASSUME NEW n, n # 0 PROVE Truthy(Num(n))
  BY <1>3 DEF Truthy, Str, None, Num, List, Empty, Dict
<1> QED BY <1>1, <1>2, <1>3

\* from_dict of to_dict: what to_dict leaves out is what from_dict fills in.
LEMMA DictRoundTrip ==
  ASSUME NEW m, Filled(m)
  PROVE  FromDict(ToDict(m)) = m /\ ToDict(m)["id"] = m.id /\ ToDict(m)["type"] = m.type
<1> DEFINE D == {"type", "id", "timestamp"} \union
         {x \in {"method", "params", "error", "metadata"} : Truthy(m[x])} \union
         {x \in {"result"} : m[x] # None}
           d == ToDict(m)
           f == [k \in DOMAIN d \union {"type"} |-> IF k \in DOMAIN d THEN d[k] ELSE Str("rpc.call")]
<1>1. d = [k \in D |-> m[k]]
  BY DEF ToDict
<1>2. "type" \in D /\ "id" \in D /\ "timestamp" \in D
  OBVIOUS
<1>3. /\ "method" \in D <=> Truthy(m["method"])
      /\ "params" \in D <=> Truthy(m["params"])
      /\ "error" \in D <=> Truthy(m["error"])
      /\ "metadata" \in D <=> Truthy(m["metadata"])
      /\ "result" \in D <=> m["result"] # None
  OBVIOUS
<1> HIDE DEF D
<1>4. DOMAIN d = D /\ \A k \in D : d[k] = m[k]
  BY <1>1
<1> HIDE DEF d
<1>5. DOMAIN f = D /\ \A k \in D : f[k] = m[k]
  BY <1>2, <1>4
<1> HIDE DEF f
<1>6. FromDict(d) = RPCMessage(f)
  BY DEF FromDict, f
<1>7. /\ f["type"] = m.type /\ Get(f, "id") = m.id /\ Get(f, "timestamp") = m.timestamp
  BY <1>2, <1>5 DEF Get
<1>8. Get(f, "result") = m.result
  BY <1>3, <1>5 DEF Get
<1>9. Get(f, "method") = m.method /\ Get(f, "error") = m.error
  BY <1>3, <1>5 DEF Get, Filled
<1>10. Or(Get(f, "params"), Empty) = m.params
  BY <1>3, <1>5, TruthFacts DEF Get, Or, Filled
<1>11. Or(Get(f, "metadata"), Empty) = m.metadata
  BY <1>3, <1>5, TruthFacts DEF Get, Or, Filled
<1>12. Or(Get(f, "id"), Str("new id")) = m.id /\ Or(Get(f, "timestamp"), Str("now")) = m.timestamp
  BY <1>7 DEF Or, Filled
<1>13. RPCMessage(f) = m
  BY <1>7, <1>8, <1>9, <1>10, <1>11, <1>12 DEF RPCMessage, Filled
<1>14. d["id"] = m.id /\ d["type"] = m.type
  BY <1>2, <1>4
<1> QED BY <1>6, <1>13, <1>14 DEF d

\* Whatever arguments a message is made from, falsy results, parameters and metadata included, from_json
\* of to_json is that message, provided its method and its error are not empty (to_dict leaves them out
\* then and from_dict makes None of them) and the JSON library leaves its values alone.
THEOREM MessagesAreReadBack ==
  ASSUME NEW f,
         Truthy(Get(f, "method")) \/ Get(f, "method") = None,
         Truthy(Get(f, "error")) \/ Get(f, "error") = None,
         Json(Dict(ToDict(RPCMessage(f)))) = Dict(ToDict(RPCMessage(f)))
  PROVE  FromJson(ToJson(RPCMessage(f))) = RPCMessage(f)
<1> DEFINE m == RPCMessage(f)
<1>1. /\ m.method = Get(f, "method") /\ m.error = Get(f, "error") /\ m.id = Or(Get(f, "id"), Str("new id"))
      /\ m.timestamp = Or(Get(f, "timestamp"), Str("now")) /\ m.params = Or(Get(f, "params"), Empty)
      /\ m.metadata = Or(Get(f, "metadata"), Empty) /\ m.type = f["type"] /\ m.result = Get(f, "result")
  BY DEF RPCMessage
<1>2. m = [type |-> f["type"], id |-> Or(Get(f, "id"), Str("new id")), method |-> Get(f, "method"),
           params |-> Or(Get(f, "params"), Empty), result |-> Get(f, "result"), error |-> Get(f, "error"),
           timestamp |-> Or(Get(f, "timestamp"), Str("now")), metadata |-> Or(Get(f, "metadata"), Empty)]
  BY DEF RPCMessage
<1>j. Json(Dict(ToDict(m))) = Dict(ToDict(m))
  OBVIOUS
<1> HIDE DEF m
<1>3. m = [type |-> m.type, id |-> m.id, method |-> m.method, params |-> m.params, result |-> m.result,
           error |-> m.error, timestamp |-> m.timestamp, metadata |-> m.metadata]
  BY <1>1, <1>2, Zenon
<1>4. \A v, w : Or(v, w) = w \/ Truthy(Or(v, w))
  BY DEF Or
<1>5. Truthy(m.id) /\ Truthy(m.timestamp)
  BY <1>1, <1>4, TruthFacts
<1>6. Filled(m)
  BY <1>1, <1>3, <1>4, <1>5 DEF Filled
<1>7. FromDict(ToDict(m)) = m
  BY <1>6, DictRoundTrip
<1>8. Dict(ToDict(m)).items = ToDict(m)
  BY DEF Dict
<1> QED BY <1>7, <1>8, <1>j DEF ToJson, FromJson, m

\* A dict that says an index is not empty, and the index is read from it.
LEMMA IndexDict ==
  ASSUME NEW n
  PROVE  Truthy(Dict([index |-> Num(n)])) /\ Get(Dict([index |-> Num(n)]).items, "index") = Num(n)
<1> DEFINE v == [index |-> Num(n)]
<1>1. DOMAIN v = {"index"} /\ v["index"] = Num(n)
  OBVIOUS
<1>2. DOMAIN << >> = {}
  OBVIOUS
<1>3. v # << >>
  BY <1>1, <1>2
<1> HIDE DEF v
<1>4. Truthy(Dict(v))
  BY <1>3 DEF Truthy, Str, None, Num, List, Empty, Dict
<1>5. Dict(v).items = v
  BY DEF Dict
<1>6. Get(v, "index") = Num(n)
  BY <1>1 DEF Get
<1> QED BY <1>4, <1>5, <1>6 DEF v

\* A list index survives `index or 0`.
LEMMA IndexRead ==
  ASSUME NEW n
  PROVE  Or(Get(Dict([index |-> Num(n)]).items, "index"), Num(0)).n = n
<1>1. Num(n).n = n /\ Num(0).n = 0
  BY DEF Num
<1> QED BY <1>1, IndexDict, TruthFacts DEF Or

\* A stream has finitely many chunks.
LEMMA ChunkCount ==
  ASSUME NEW c \in Streams
  PROVE  /\ ChunksOf[c] \in Seq(DataOf(c)) /\ Len(ChunksOf[c]) \in Nat /\ LastPart(c) = Len(ChunksOf[c]) + 1
         /\ \A i \in 0 .. LastPart(c) : i = 0 \/ i = LastPart(c) \/ i \in 1 .. Len(ChunksOf[c])
<1>1. ChunksOf[c] \in Seq(DataOf(c))
  BY StreamAssumption
<1> DEFINE n == Len(ChunksOf[c])
<1>2. n \in Nat
  BY <1>1
<1>3. LastPart(c) = n + 1
  BY DEF LastPart
<1> HIDE DEF n
<1>4. \A i \in 0 .. LastPart(c) : i = 0 \/ i = LastPart(c) \/ i \in 1 .. n
  BY <1>2, <1>3
<1> QED BY <1>1, <1>2, <1>3, <1>4 DEF n

\* A message of which id, result and metadata are given.
Given(ty, id, result, meta) ==
  [type |-> ty, id |-> id, method |-> None, params |-> Empty, result |-> result,
   error |-> None, timestamp |-> Str("now"), metadata |-> meta]

\* Its fields, and that it is one to_dict and from_dict keep.
LEMMA GivenFacts ==
  ASSUME NEW ty, NEW id, NEW result, NEW meta, Truthy(id), Truthy(meta) \/ meta = Empty
  PROVE  /\ Filled(Given(ty, id, result, meta))
         /\ Given(ty, id, result, meta).type = ty /\ Given(ty, id, result, meta).id = id
         /\ Given(ty, id, result, meta).result = result /\ Given(ty, id, result, meta).metadata = meta
<1> DEFINE m == Given(ty, id, result, meta)
<1>1. /\ m.type = ty /\ m.id = id /\ m.method = None /\ m.params = Empty /\ m.result = result
      /\ m.error = None /\ m.timestamp = Str("now") /\ m.metadata = meta
  BY DEF Given
<1>2. m = [type |-> ty, id |-> id, method |-> None, params |-> Empty, result |-> result,
           error |-> None, timestamp |-> Str("now"), metadata |-> meta]
  BY DEF Given
<1> HIDE DEF m
<1>3. m = [type |-> m.type, id |-> m.id, method |-> m.method, params |-> m.params, result |-> m.result,
          error |-> m.error, timestamp |-> m.timestamp, metadata |-> m.metadata]
  BY <1>1, <1>2, Zenon
<1>4. Filled(m)
  BY <1>1, <1>3, TruthFacts DEF Filled
<1> QED BY <1>1, <1>4 DEF m

\* What the stream messages are.
LEMMA PartFields ==
  ASSUME NEW c \in Streams, NEW i \in 0 .. LastPart(c)
  PROVE  /\ Filled(Part(c, i)) /\ Part(c, i).id = Str(c)
         /\ i = 0 => Part(c, i).type = Str("rpc.stream.start") /\ Part(c, i).metadata = Or(MetaOf[c], Empty)
         /\ i = LastPart(c) => Part(c, i).type = Str("rpc.stream.end")
         /\ i \in 1 .. Len(ChunksOf[c]) =>
              /\ Part(c, i).type = Str("rpc.stream.chunk") /\ Part(c, i).result = ChunksOf[c][i]
              /\ Part(c, i).metadata = Dict([index |-> Num(i - 1)])
<1>1. Truthy(Str(c))
  BY TruthFacts, StreamAssumption
<1>2. LastPart(c) = Len(ChunksOf[c]) + 1 /\ Len(ChunksOf[c]) \in Nat
  BY ChunkCount
<1>3. \A v : Truthy(Or(v, Empty)) \/ Or(v, Empty) = Empty
  BY DEF Or
<1>4. CASE i = 0
  <2> DEFINE f == [id |-> Str(c), metadata |-> MetaOf[c]]
             g == [k \in DOMAIN f \union {"type"} |-> IF k = "type" THEN Str("rpc.stream.start") ELSE f[k]]
  <2>1. Part(c, i) = RPCMessage(g)
    BY <1>4 DEF Part, MakeStreamStart, Make
  <2>2. DOMAIN f = {"id", "metadata"} /\ f["id"] = Str(c) /\ f["metadata"] = MetaOf[c]
    OBVIOUS
  <2> HIDE DEF f
  <2>3. /\ DOMAIN g = {"id", "metadata", "type"} /\ g["id"] = Str(c) /\ g["metadata"] = MetaOf[c]
        /\ g["type"] = Str("rpc.stream.start")
    BY <2>2
  <2> HIDE DEF g
  <2>4. /\ Get(g, "id") = Str(c) /\ Get(g, "metadata") = MetaOf[c] /\ Get(g, "method") = None /\ Get(g, "params") = None
        /\ Get(g, "result") = None /\ Get(g, "error") = None /\ Get(g, "timestamp") = None
    BY <2>3 DEF Get
  <2>5. Or(Str(c), Str("new id")) = Str(c) /\ Or(None, Str("now")) = Str("now") /\ Or(None, Empty) = Empty
    BY <1>1, TruthFacts DEF Or
  <2>6. RPCMessage(g) = Given(Str("rpc.stream.start"), Str(c), None, Or(MetaOf[c], Empty))
    BY <2>3, <2>4, <2>5 DEF RPCMessage, Given
  <2>7. Filled(Part(c, i)) /\ Part(c, i).id = Str(c) /\ Part(c, i).type = Str("rpc.stream.start") /\ Part(c, i).metadata = Or(MetaOf[c], Empty)
    BY <1>1, <1>3, <2>1, <2>6, GivenFacts
  <2>8. i # LastPart(c) /\ i \notin 1 .. Len(ChunksOf[c])
    BY <1>2, <1>4
  <2> QED BY <2>7, <2>8
<1>5. CASE i = LastPart(c)
  <2>0. i # 0 /\ i \notin 1 .. Len(ChunksOf[c])
    BY <1>2, <1>5
  <2> DEFINE f == [id |-> Str(c)]
             g == [k \in DOMAIN f \union {"type"} |-> IF k = "type" THEN Str("rpc.stream.end") ELSE f[k]]
  <2>1. Part(c, i) = RPCMessage(g)
    BY <1>5, <2>0 DEF Part, MakeStreamEnd, Make
  <2>2. DOMAIN f = {"id"} /\ f["id"] = Str(c)
    OBVIOUS
  <2> HIDE DEF f
  <2>3. DOMAIN g = {"id", "type"} /\ g["id"] = Str(c) /\ g["type"] = Str("rpc.stream.end")
    BY <2>2
  <2> HIDE DEF g
  <2>4. /\ Get(g, "id") = Str(c) /\ Get(g, "metadata") = None /\ Get(g, "method") = None /\ Get(g, "params") = None
        /\ Get(g, "result") = None /\ Get(g, "error") = None /\ Get(g, "timestamp") = None
    BY <2>3 DEF Get
  <2>5. Or(Str(c), Str("new id")) = Str(c) /\ Or(None, Str("now")) = Str("now") /\ Or(None, Empty) = Empty
    BY <1>1, TruthFacts DEF Or
  <2>6. RPCMessage(g) = Given(Str("rpc.stream.end"), Str(c), None, Empty)
    BY <2>3, <2>4, <2>5 DEF RPCMessage, Given
  <2>7. Filled(Part(c, i)) /\ Part(c, i).id = Str(c) /\ Part(c, i).type = Str("rpc.stream.end")
    BY <1>1, <2>1, <2>6, GivenFacts
  <2> QED BY <2>0, <2>7
<1>6. CASE i \in 1 .. Len(ChunksOf[c])
  <2>0. i # 0 /\ i # LastPart(c)
    BY <1>2, <1>6
  <2> DEFINE x == Dict([index |-> Num(i - 1)])
  <2>x. Truthy(x)
    BY IndexDict
  <2> DEFINE f == [id |-> Str(c), result |-> ChunksOf[c][i], metadata |-> x]
             g == [k \in DOMAIN f \union {"type"} |-> IF k = "type" THEN Str("rpc.stream.chunk") ELSE f[k]]
  <2>1. Part(c, i) = RPCMessage(g)
    BY <2>0 DEF Part, MakeStreamChunk, Make
  <2> HIDE DEF x
  <2>2. DOMAIN f = {"id", "result", "metadata"} /\ f["id"] = Str(c) /\ f["result"] = ChunksOf[c][i] /\ f["metadata"] = x
    OBVIOUS
  <2> HIDE DEF f
  <2>3. /\ DOMAIN g = {"id", "result", "metadata", "type"} /\ g["id"] = Str(c) /\ g["metadata"] = x
        /\ g["type"] = Str("rpc.stream.chunk") /\ g["result"] = ChunksOf[c][i]
    BY <2>2
  <2> HIDE DEF g
  <2>4. /\ Get(g, "id") = Str(c) /\ Get(g, "metadata") = x /\ Get(g, "method") = None /\ Get(g, "params") = None
        /\ Get(g, "result") = ChunksOf[c][i] /\ Get(g, "error") = None /\ Get(g, "timestamp") = None
    BY <2>3 DEF Get
  <2>5. Or(Str(c), Str("new id")) = Str(c) /\ Or(None, Str("now")) = Str("now") /\ Or(None, Empty) = Empty /\ Or(x, Empty) = x
    BY <1>1, <2>x, TruthFacts DEF Or
  <2>6. RPCMessage(g) = Given(Str("rpc.stream.chunk"), Str(c), ChunksOf[c][i], x)
    BY <2>3, <2>4, <2>5 DEF RPCMessage, Given
  <2>7. /\ Filled(Part(c, i)) /\ Part(c, i).id = Str(c) /\ Part(c, i).type = Str("rpc.stream.chunk")
        /\ Part(c, i).result = ChunksOf[c][i] /\ Part(c, i).metadata = x
    BY <1>1, <2>x, <2>1, <2>6, GivenFacts
  <2> QED BY <2>0, <2>7 DEF x
<1>7. i = 0 \/ i = LastPart(c) \/ i \in 1 .. Len(ChunksOf[c])
  BY ChunkCount
<1> QED BY <1>4, <1>5, <1>6, <1>7

\* The text of a part.
Enc(c, i) == ToJson(Part(c, i))

\* A part that is read is what was sent.
LEMMA PartRead ==
  ASSUME NEW c \in Streams, NEW i \in 0 .. LastPart(c)
  PROVE  /\ FromJson(Enc(c, i)) = Part(c, i)
         /\ Enc(c, i).items["id"] = Str(c) /\ Enc(c, i).items["type"] = Part(c, i).type
<1>1. Json(Dict(ToDict(Part(c, i)))) = Dict(ToDict(Part(c, i)))
  BY StreamAssumption
<1>2. Enc(c, i) = Dict(ToDict(Part(c, i)))
  BY <1>1 DEF Enc, ToJson
<1>3. Enc(c, i).items = ToDict(Part(c, i))
  BY <1>2 DEF Dict
<1>4. FromDict(ToDict(Part(c, i))) = Part(c, i) /\ ToDict(Part(c, i))["id"] = Str(c) /\ ToDict(Part(c, i))["type"] = Part(c, i).type
  BY PartFields, DictRoundTrip
<1> QED BY <1>3, <1>4 DEF FromJson

\* No two parts have the same text.
LEMMA EncInjective ==
  ASSUME NEW c \in Streams, NEW i \in 0 .. LastPart(c), NEW d \in Streams, NEW j \in 0 .. LastPart(d), Enc(c, i) = Enc(d, j)
  PROVE  c = d /\ i = j
<1>1. Part(c, i) = Part(d, j)
  BY PartRead
<1>a. Part(c, i).id = Str(c)
  BY PartFields
<1>b. Part(d, j).id = Str(d)
  BY PartFields
<1>2. Str(c) = Str(d)
  BY <1>1, <1>a, <1>b
<1>3. c = d
  BY <1>2 DEF Str
<1>4. Str("rpc.stream.start") # Str("rpc.stream.chunk") /\ Str("rpc.stream.start") # Str("rpc.stream.end") /\ Str("rpc.stream.chunk") # Str("rpc.stream.end")
  BY DEF Str
<1>5. \A k \in 0 .. LastPart(c) : k = 0 \/ k = LastPart(c) \/ k \in 1 .. Len(ChunksOf[c])
  BY ChunkCount
<1>6. CASE i \in 1 .. Len(ChunksOf[c]) /\ j \in 1 .. Len(ChunksOf[c])
  <2>1. Dict([index |-> Num(i - 1)]) = Dict([index |-> Num(j - 1)])
    BY <1>1, <1>3, <1>6, PartFields
  <2>2. i - 1 = j - 1
    BY <2>1, IndexRead
  <2>3. Len(ChunksOf[c]) \in Nat
    BY ChunkCount
  <2>4. i \in Int /\ j \in Int
    BY <1>6, <2>3
  <2> QED BY <1>3, <2>2, <2>4
<1>7. CASE ~(i \in 1 .. Len(ChunksOf[c]) /\ j \in 1 .. Len(ChunksOf[c]))
  <2>1. (i = 0 => Part(c, i).type = Str("rpc.stream.start")) /\ (i = LastPart(c) => Part(c, i).type = Str("rpc.stream.end"))
        /\ (i \in 1 .. Len(ChunksOf[c]) => Part(c, i).type = Str("rpc.stream.chunk"))
    BY PartFields
  <2>2. (j = 0 => Part(d, j).type = Str("rpc.stream.start")) /\ (j = LastPart(d) => Part(d, j).type = Str("rpc.stream.end"))
        /\ (j \in 1 .. Len(ChunksOf[d]) => Part(d, j).type = Str("rpc.stream.chunk"))
    BY PartFields
  <2> QED BY <1>1, <1>3, <1>4, <1>5, <1>7, <2>1, <2>2
<1> QED BY <1>6, <1>7

\* Part i of stream c is in the socket.
UnderWay(c, i) == \E n \in DOMAIN socket : socket[n] = Enc(c, i)

\* What a chunk of a receiver may hold, and what may be in the socket.
ChunkVals == {None} \union UNION {DataOf(c) : c \in Streams}
Texts == UNION {{Enc(c, i) : i \in 0 .. LastPart(c)} : c \in Streams}

\* The types of the state.
StreamTypes ==
  /\ streams \in [Streams -> {NoReceiver} \union Receivers]
  /\ callOf \in Seq(Streams) /\ Len(callOf) <= MaxReceivers
  /\ chunks \in [Receivers -> Seq(ChunkVals)]
  /\ complete \in [Receivers -> BOOLEAN] /\ failed \in [Receivers -> BOOLEAN]
  /\ DOMAIN metadata = Receivers /\ DOMAIN waiter = Receivers /\ DOMAIN value = Receivers
  /\ whole \subseteq DOMAIN callOf
  /\ sent \in [Streams -> SUBSET Nat] /\ \A c \in Streams : sent[c] \subseteq 0 .. LastPart(c)
  /\ socket \in Seq(Texts)

\* What is in the socket was sent; a stream's start comes first and its end last; before the start
\* arrives nothing has, and the end is sent after everything else.
SocketInv ==
  /\ \A n \in DOMAIN socket : \E c \in Streams : \E i \in sent[c] : socket[n] = Enc(c, i)
  /\ \A c \in Streams : \A n, m \in DOMAIN socket : \A j \in 0 .. LastPart(c) :
       /\ socket[n] = Enc(c, 0) /\ socket[m] = Enc(c, j) => n <= m
       /\ socket[n] = Enc(c, LastPart(c)) /\ socket[m] = Enc(c, j) => m <= n
  /\ \A c \in Streams : UnderWay(c, 0) => \A i \in sent[c] : UnderWay(c, i)
  /\ \A c \in Streams : UnderWay(c, LastPart(c)) => 0 .. Len(ChunksOf[c]) \subseteq sent[c]

\* Receiver r has got part i of stream c.
Applied(r, c, i) ==
  IF i = 0 THEN metadata[r] = Or(MetaOf[c], Empty)
  ELSE i <= Len(chunks[r]) /\ chunks[r][i] = ChunksOf[c][i]

\* As long as the end may still come, what was sent of a stream has been applied or will arrive.
Pending(r, c) ==
  /\ Len(chunks[r]) <= Len(ChunksOf[c])
  /\ LastPart(c) \notin sent[c] \/ UnderWay(c, LastPart(c)) =>
       \A i \in sent[c] : i = LastPart(c) \/ Applied(r, c, i) \/ UnderWay(c, i)

\* The receivers that are registered, complete or not made yet.
ReceiverInv ==
  /\ \A c \in Streams : streams[c] # NoReceiver =>
       /\ streams[c] \in DOMAIN callOf /\ callOf[streams[c]] = c /\ ~complete[streams[c]]
       /\ streams[c] \in whole => Pending(streams[c], c)
  /\ \A r \in whole : complete[r] =>
       chunks[r] = ChunksOf[callOf[r]] /\ metadata[r] = Or(MetaOf[callOf[r]], Empty)
  /\ \A r \in Receivers \ DOMAIN callOf : chunks[r] = << >> /\ ~complete[r]

\* The inductive invariant of the streams.
StreamInv == StreamTypes /\ SocketInv /\ ReceiverInv /\ StreamIsWhole

\* on_chunk puts a chunk at its index.
LEMMA OnChunkFacts ==
  ASSUME NEW V, None \in V, NEW cs \in Seq(V), NEW data \in V, NEW index \in Nat
  PROVE  /\ OnChunk(cs, data, index) \in Seq(V)
         /\ Len(OnChunk(cs, data, index)) = IF index + 1 > Len(cs) THEN index + 1 ELSE Len(cs)
         /\ OnChunk(cs, data, index)[index + 1] = data
         /\ \A i \in DOMAIN cs : i # index + 1 => OnChunk(cs, data, index)[i] = cs[i]
<1> DEFINE n == IF index + 1 > Len(cs) THEN index + 1 ELSE Len(cs)
           r == OnChunk(cs, data, index)
<1>1. Len(cs) \in Nat /\ DOMAIN cs = 1 .. Len(cs) /\ \A i \in 1 .. Len(cs) : cs[i] \in V
  OBVIOUS
<1>2. n \in Nat /\ index + 1 \in 1 .. n /\ Len(cs) <= n
  BY <1>1
<1>3. r = [i \in 1 .. n |-> IF i = index + 1 THEN data ELSE IF i <= Len(cs) THEN cs[i] ELSE None]
  BY DEF OnChunk
<1>n. n = IF index + 1 > Len(cs) THEN index + 1 ELSE Len(cs)
  OBVIOUS
<1> HIDE DEF n, r
<1>4. \A i \in 1 .. n : r[i] \in V
  BY <1>1, <1>2, <1>3
<1>5. r \in Seq(V) /\ Len(r) = n
  BY <1>2, <1>3, <1>4
<1>6. r[index + 1] = data
  BY <1>2, <1>3
<1>7. \A i \in DOMAIN cs : i # index + 1 => r[i] = cs[i]
  BY <1>1, <1>2, <1>3
<1> QED BY <1>5, <1>6, <1>7, <1>n DEF r

\* The socket's first message is taken out.
LEMMA TailSocket ==
  ASSUME StreamTypes, SocketInv, socket # << >>, socket' = Tail(socket), sent' = sent
  PROVE  /\ socket' \in Seq(Texts) /\ SocketInv'
         /\ \E c \in Streams : \E i \in sent[c] :
              /\ Head(socket) = Enc(c, i) /\ i \in 0 .. LastPart(c)
              /\ \A d \in Streams : \A j \in 0 .. LastPart(d) :
                   /\ UnderWay(d, j)' => UnderWay(d, j)
                   /\ UnderWay(d, j) /\ ~(d = c /\ j = i) => UnderWay(d, j)'
              /\ i = LastPart(c) => \A j \in 0 .. LastPart(c) : UnderWay(c, j) => j = i
<1>1. /\ socket \in Seq(Texts) /\ Len(socket) \in Nat /\ DOMAIN socket = 1 .. Len(socket) /\ 1 \in DOMAIN socket
      /\ Head(socket) = socket[1]
  BY DEF StreamTypes
<1>2. /\ socket' \in Seq(Texts) /\ DOMAIN socket' = 1 .. Len(socket) - 1
      /\ \A n \in 1 .. Len(socket) - 1 : socket'[n] = socket[n + 1] /\ n + 1 \in DOMAIN socket
  BY <1>1
<1>3. PICK c \in Streams : \E i \in sent[c] : socket[1] = Enc(c, i)
  BY <1>1 DEF SocketInv
<1>4. PICK i \in sent[c] : socket[1] = Enc(c, i)
  BY <1>3
<1>5. \A d \in Streams : \A j \in sent[d] : j \in 0 .. LastPart(d)
  BY DEF StreamTypes
<1>6. \A d \in Streams : \A j \in 0 .. LastPart(d) : UnderWay(d, j)' => UnderWay(d, j)
  BY <1>2 DEF UnderWay
<1>7. ASSUME NEW d \in Streams, NEW j \in 0 .. LastPart(d), UnderWay(d, j), ~(d = c /\ j = i)
      PROVE  UnderWay(d, j)'
  <2>1. PICK n \in DOMAIN socket : socket[n] = Enc(d, j)
    BY <1>7 DEF UnderWay
  <2>2. n # 1
    BY <1>4, <1>5, <1>7, <2>1, EncInjective
  <2>3. n - 1 \in 1 .. Len(socket) - 1 /\ (n - 1) + 1 = n
    BY <1>1, <2>2
  <2> QED BY <1>2, <2>1, <2>3 DEF UnderWay
<1>8. ASSUME i = LastPart(c), NEW j \in 0 .. LastPart(c), UnderWay(c, j) PROVE j = i
  <2>1. PICK n \in DOMAIN socket : socket[n] = Enc(c, j)
    BY <1>8 DEF UnderWay
  <2>2. n <= 1
    BY <1>1, <1>4, <1>8, <2>1 DEF SocketInv
  <2>3. n = 1
    BY <1>1, <2>2
  <2> QED BY <1>4, <1>5, <2>1, <2>3, EncInjective
<1>9. \A n \in DOMAIN socket' : \E d \in Streams : \E j \in sent'[d] : socket'[n] = Enc(d, j)
  BY <1>2 DEF SocketInv
<1>10. ASSUME NEW d \in Streams, NEW n \in DOMAIN socket', NEW m \in DOMAIN socket', NEW j \in 0 .. LastPart(d)
       PROVE  /\ socket'[n] = Enc(d, 0) /\ socket'[m] = Enc(d, j) => n <= m
              /\ socket'[n] = Enc(d, LastPart(d)) /\ socket'[m] = Enc(d, j) => m <= n
  <2>1. n \in Int /\ m \in Int /\ n + 1 \in DOMAIN socket /\ m + 1 \in DOMAIN socket
        /\ socket'[n] = socket[n + 1] /\ socket'[m] = socket[m + 1]
    BY <1>1, <1>2
  <2>2. /\ socket[n + 1] = Enc(d, 0) /\ socket[m + 1] = Enc(d, j) => n + 1 <= m + 1
        /\ socket[n + 1] = Enc(d, LastPart(d)) /\ socket[m + 1] = Enc(d, j) => m + 1 <= n + 1
    BY <2>1 DEF SocketInv
  <2> QED BY <2>1, <2>2
<1>11. ASSUME NEW d \in Streams, UnderWay(d, 0)', NEW j \in sent'[d] PROVE UnderWay(d, j)'
  <2>0. 0 \in 0 .. LastPart(d) /\ j \in 0 .. LastPart(d) /\ j \in sent[d]
    BY <1>5, ChunkCount
  <2>1. UnderWay(d, 0)
    BY <1>6, <1>11, <2>0
  <2>2. UnderWay(d, j)
    BY <2>0, <2>1 DEF SocketInv
  <2>3. CASE d = c /\ j = i
    <3>1. PICK n \in 1 .. Len(socket) - 1 : socket'[n] = Enc(d, 0)
      BY <1>2, <1>11 DEF UnderWay
    <3>2. socket[n + 1] = Enc(d, 0) /\ n + 1 \in DOMAIN socket
      BY <1>2, <3>1
    <3>3. socket[1] = Enc(d, j)
      BY <1>4, <2>3
    <3>4. n + 1 <= 1
      BY <1>1, <2>0, <3>2, <3>3 DEF SocketInv
    <3> QED BY <1>1, <3>4
  <2>4. CASE ~(d = c /\ j = i)
    BY <1>7, <2>0, <2>2, <2>4
  <2> QED BY <2>3, <2>4
<1>12. ASSUME NEW d \in Streams, UnderWay(d, LastPart(d))' PROVE 0 .. Len(ChunksOf[d]) \subseteq sent'[d]
  <2>1. LastPart(d) \in 0 .. LastPart(d)
    BY ChunkCount
  <2>2. UnderWay(d, LastPart(d))
    BY <1>6, <1>12, <2>1
  <2> QED BY <2>2 DEF SocketInv
<1>13. SocketInv'
  BY <1>9, <1>10, <1>11, <1>12 DEF SocketInv
<1> QED BY <1>1, <1>2, <1>4, <1>5, <1>6, <1>7, <1>8, <1>13

\* Nothing has been sent, and there is no receiver.
LEMMA StreamsStart == StreamInit => StreamInv
<1> SUFFICES ASSUME StreamInit PROVE StreamInv
  OBVIOUS
<1>0. << >> \in Seq(ChunkVals) /\ << >> \in Seq(Streams) /\ << >> \in Seq(Texts) /\ Len(<< >>) = 0 /\ DOMAIN << >> = {}
  OBVIOUS
<1>a. 0 <= MaxReceivers
  <2>1. MaxReceivers \in Nat
    BY StreamAssumption
  <2> QED BY <2>1
<1>1. StreamTypes
  BY <1>0, <1>a DEF StreamInit, StreamTypes
<1>2. DOMAIN socket = {} /\ \A c \in Streams : \A i : ~UnderWay(c, i)
  BY <1>0 DEF StreamInit, UnderWay
<1>3. SocketInv
  BY <1>2 DEF SocketInv
<1>4. ReceiverInv
  BY DEF StreamInit, ReceiverInv
<1>5. StreamIsWhole
  BY DEF StreamInit, StreamIsWhole
<1> QED BY <1>1, <1>3, <1>4, <1>5 DEF StreamInv

\* What is pending for a receiver stays so as long as the receiver and its stream are left alone.
LEMMA PendingStays ==
  ASSUME NEW r, NEW c, chunks'[r] = chunks[r], metadata'[r] = metadata[r],
         UNCHANGED <<socket, sent>>, Pending(r, c)
  PROVE  Pending(r, c)'
BY DEF Pending, Applied, UnderWay

\* A step that only touches the waiters leaves the streams as they are.
LEMMA StreamsQuiet ==
  ASSUME StreamInv, UNCHANGED <<streams, callOf, chunks, metadata, complete, sent, socket, whole>>
  PROVE  SocketInv' /\ ReceiverInv'
<1>1. SocketInv'
  BY DEF StreamInv, SocketInv, UnderWay
<1>2. \A r, c : Pending(r, c) => Pending(r, c)'
  BY PendingStays
<1>3. ReceiverInv'
  BY <1>2 DEF StreamInv, ReceiverInv
<1> QED BY <1>1, <1>3

\* An error, or the end of a wait.
LEMMA WaitersStep ==
  ASSUME StreamInv, NEW r \in Receivers, OnError(r) \/ WaitEnds(r) \/ WaitTimeout(r)
  PROVE  StreamInv'
<1>0. StreamTypes /\ ReceiverInv /\ StreamIsWhole
  BY DEF StreamInv
<1>1. CASE OnError(r)
  <2>1. StreamTypes'
    BY <1>0, <1>1 DEF StreamTypes, OnError
  <2>2. StreamIsWhole'
    BY <1>0, <1>1 DEF StreamIsWhole, OnError
  <2> QED BY <1>1, <2>1, <2>2, StreamsQuiet DEF StreamInv, OnError
<1>2. CASE WaitEnds(r)
  <2>1. StreamTypes'
    BY <1>0, <1>2 DEF StreamTypes, WaitEnds, managerVars
  <2>2. ASSUME NEW q \in whole, waiter'[q] = "returned"
        PROVE  value'[q] = Assemble(Or(MetaOf[callOf[q]], Empty), ChunksOf[callOf[q]])
    <3>1. CASE q = r
      <4>1. waiter'[r] = IF failed[r] THEN "raised" ELSE "returned"
        BY <1>0, <1>2 DEF StreamTypes, WaitEnds
      <4>2. ~failed[r]
        BY <2>2, <3>1, <4>1
      <4>3. complete[r] /\ value'[r] = Assemble(metadata[r], chunks[r])
        BY <1>0, <1>2, <4>2 DEF StreamTypes, WaitEnds
      <4> QED BY <1>0, <2>2, <3>1, <4>3 DEF ReceiverInv
    <3>2. CASE q # r
      BY <1>0, <1>2, <2>2, <3>2 DEF StreamTypes, WaitEnds, StreamIsWhole
    <3> QED BY <3>1, <3>2
  <2>3. StreamIsWhole'
    BY <1>2, <2>2 DEF StreamIsWhole, WaitEnds, managerVars
  <2> QED BY <1>2, <2>1, <2>3, StreamsQuiet DEF StreamInv, WaitEnds, managerVars
<1>3. CASE WaitTimeout(r)
  <2>1. StreamTypes'
    BY <1>0, <1>3 DEF StreamTypes, WaitTimeout, managerVars
  <2>2. StreamIsWhole'
    BY <1>0, <1>3 DEF StreamIsWhole, StreamTypes, WaitTimeout, managerVars
  <2> QED BY <1>3, <2>1, <2>2, StreamsQuiet DEF StreamInv, WaitTimeout, managerVars
<1> QED BY <1>1, <1>2, <1>3

\* When nothing of a stream has arrived, everything sent of it is under way.
LEMMA NothingArrivedFacts ==
  ASSUME StreamInv, NEW c \in Streams, NothingArrived(c), NEW i \in sent[c]
  PROVE  UnderWay(c, i)
<1>1. PICK n \in DOMAIN socket : socket[n].items["id"] = Str(c) /\ socket[n].items["type"] = Str("rpc.stream.start")
  BY DEF NothingArrived
<1>2. PICK d \in Streams : \E j \in sent[d] : socket[n] = Enc(d, j)
  BY DEF StreamInv, SocketInv
<1>3. PICK j \in sent[d] : socket[n] = Enc(d, j)
  BY <1>2
<1>4. j \in 0 .. LastPart(d)
  BY DEF StreamInv, StreamTypes
<1>5. socket[n].items["id"] = Str(d) /\ socket[n].items["type"] = Part(d, j).type
  BY <1>3, <1>4, PartRead
<1>6. c = d
  BY <1>1, <1>5 DEF Str
<1>7. Part(d, j).type = Str("rpc.stream.start")
  BY <1>1, <1>5
<1>8. Str("rpc.stream.start") # Str("rpc.stream.chunk") /\ Str("rpc.stream.start") # Str("rpc.stream.end")
  BY DEF Str
<1>9. j = LastPart(d) => Part(d, j).type = Str("rpc.stream.end")
  BY <1>4, PartFields
<1>10. j \in 1 .. Len(ChunksOf[d]) => Part(d, j).type = Str("rpc.stream.chunk")
  BY <1>4, PartFields
<1>11. j = 0
  BY <1>4, <1>7, <1>8, <1>9, <1>10, ChunkCount
<1>12. UnderWay(c, 0)
  BY <1>3, <1>6, <1>11 DEF UnderWay
<1> QED BY <1>12 DEF StreamInv, SocketInv

\* A new receiver is whole exactly when nothing of its stream has arrived.
LEMMA CreateStreamStep ==
  ASSUME StreamInv, NEW c \in Streams, CreateStream(c)
  PROVE  StreamInv'
<1>r. PICK r : r = Len(callOf) + 1
  OBVIOUS
<1>0. StreamTypes /\ SocketInv /\ ReceiverInv /\ StreamIsWhole
  BY DEF StreamInv
<1>1. /\ callOf \in Seq(Streams) /\ Len(callOf) \in Nat /\ DOMAIN callOf = 1 .. Len(callOf)
      /\ r \notin DOMAIN callOf
  BY <1>0, <1>r DEF StreamTypes
<1>2. r \in Receivers /\ r <= MaxReceivers
  <2>1. r \in Receivers
    BY <1>r DEF CreateStream
  <2>2. MaxReceivers \in Nat
    BY StreamAssumption
  <2> QED BY <2>1, <2>2 DEF Receivers
<1>3. /\ callOf' \in Seq(Streams) /\ Len(callOf') = r /\ DOMAIN callOf' = DOMAIN callOf \union {r}
      /\ callOf'[r] = c /\ \A q \in DOMAIN callOf : callOf'[q] = callOf[q]
  BY <1>1, <1>r DEF CreateStream
<1>4. /\ streams' = [streams EXCEPT ![c] = r] /\ waiter' = [waiter EXCEPT ![r] = "waiting"]
      /\ whole' = IF NothingArrived(c) THEN whole \union {r} ELSE whole
      /\ UNCHANGED <<chunks, metadata, complete, failed, value, sent, repeats, socket>>
  BY <1>r DEF CreateStream
<1>5. whole \subseteq DOMAIN callOf /\ r \notin whole
  BY <1>0, <1>1 DEF StreamTypes
<1>6. StreamTypes'
  BY <1>0, <1>2, <1>3, <1>4 DEF StreamTypes
<1>7. SocketInv'
  BY <1>0, <1>4 DEF SocketInv, UnderWay
<1>8. streams'[c] = r /\ \A d \in Streams \ {c} : streams'[d] = streams[d]
  BY <1>0, <1>4 DEF StreamTypes
<1>9. chunks[r] = << >> /\ ~complete[r]
  BY <1>0, <1>1, <1>2 DEF ReceiverInv
<1>10. r \in whole' => Pending(r, c)'
  <2>1. SUFFICES ASSUME r \in whole' PROVE Pending(r, c)'
    OBVIOUS
  <2>2. \A i \in sent[c] : UnderWay(c, i)
    BY <1>4, <1>5, <2>1, NothingArrivedFacts
  <2>3. Len(chunks[r]) <= Len(ChunksOf[c])
    BY <1>9, ChunkCount
  <2>4. Pending(r, c)
    BY <2>2, <2>3 DEF Pending
  <2> QED BY <1>4, <2>4, PendingStays
<1>p. \A q, d : Pending(q, d) => Pending(q, d)'
  BY <1>4, PendingStays
<1>11. ASSUME NEW d \in Streams, NEW q, q = streams'[d], q # NoReceiver
       PROVE  /\ q \in DOMAIN callOf' /\ callOf'[q] = d /\ ~complete'[q]
              /\ q \in whole' => Pending(q, d)'
  <2>1. CASE d = c
    <3>1. q = r
      BY <1>8, <1>11, <2>1
    <3> QED BY <1>3, <1>4, <1>9, <1>10, <2>1, <3>1
  <2>2. CASE d # c
    <3>1. /\ q = streams[d] /\ q \in DOMAIN callOf /\ callOf[q] = d
          /\ ~complete[q] /\ (q \in whole => Pending(q, d))
      BY <1>0, <1>8, <1>11, <2>2 DEF ReceiverInv
    <3>2. q \in whole' => q \in whole
      BY <1>1, <1>4, <3>1
    <3> QED BY <1>3, <1>4, <1>p, <3>1, <3>2
  <2> QED BY <2>1, <2>2
<1>12. ASSUME NEW q \in whole', complete'[q]
       PROVE  chunks'[q] = ChunksOf[callOf'[q]] /\ metadata'[q] = Or(MetaOf[callOf'[q]], Empty)
  <2>1. q \in whole
    BY <1>4, <1>9, <1>12
  <2> QED BY <1>0, <1>3, <1>4, <1>5, <1>12, <2>1 DEF ReceiverInv
<1>13. \A q \in Receivers \ DOMAIN callOf' : chunks'[q] = << >> /\ ~complete'[q]
  BY <1>0, <1>3, <1>4 DEF ReceiverInv
<1>14. ReceiverInv'
  <2>1. \A d \in Streams : streams'[d] # NoReceiver =>
          /\ streams'[d] \in DOMAIN callOf' /\ callOf'[streams'[d]] = d /\ ~complete'[streams'[d]]
          /\ streams'[d] \in whole' => Pending(streams[d], d)'
    BY <1>11
  <2> QED BY <1>12, <1>13, <2>1 DEF ReceiverInv
<1>15. ASSUME NEW q \in whole', waiter'[q] = "returned"
       PROVE  value'[q] = Assemble(Or(MetaOf[callOf'[q]], Empty), ChunksOf[callOf'[q]])
  <2>1. q # r
    BY <1>0, <1>2, <1>4, <1>15 DEF StreamTypes
  <2>2. q \in whole /\ q \in DOMAIN callOf /\ waiter[q] = "returned"
    BY <1>0, <1>4, <1>5, <1>15, <2>1 DEF StreamTypes
  <2>3. value[q] = Assemble(Or(MetaOf[callOf[q]], Empty), ChunksOf[callOf[q]])
    BY <1>0, <2>2 DEF StreamIsWhole
  <2> QED BY <1>3, <1>4, <2>2, <2>3
<1>16. StreamIsWhole'
  BY <1>15 DEF StreamIsWhole
<1> QED BY <1>6, <1>7, <1>14, <1>16 DEF StreamInv

\* After the connection is lost nothing is under way and no end can come.
LEMMA LoseStep ==
  ASSUME StreamInv, Lose
  PROVE  StreamInv'
<1>0. StreamTypes /\ SocketInv /\ ReceiverInv /\ StreamIsWhole
  BY DEF StreamInv
<1>1. /\ socket' = << >> /\ sent' = [c \in Streams |-> sent[c] \union {LastPart(c)}]
      /\ UNCHANGED <<streams, callOf, chunks, metadata, complete, failed, waiter, value, repeats, whole>>
  BY DEF Lose, managerVars
<1>2. DOMAIN socket' = {} /\ \A c, i : ~UnderWay(c, i)'
  BY <1>1 DEF UnderWay
<1>3. \A c \in Streams : LastPart(c) \in Nat /\ LastPart(c) \in 0 .. LastPart(c) /\ LastPart(c) \in sent'[c]
  BY <1>1, ChunkCount
<1>4. StreamTypes'
  <2>1. sent' \in [Streams -> SUBSET Nat] /\ \A c \in Streams : sent'[c] \subseteq 0 .. LastPart(c)
    BY <1>0, <1>1, <1>3 DEF StreamTypes
  <2>2. socket' \in Seq(Texts)
    BY <1>1
  <2> QED BY <1>0, <1>1, <2>1, <2>2 DEF StreamTypes
<1>5. SocketInv'
  BY <1>2 DEF SocketInv
<1>6. \A r : \A c \in Streams : Pending(r, c) => Pending(r, c)'
  BY <1>1, <1>2, <1>3 DEF Pending
<1>7. ReceiverInv'
  BY <1>0, <1>1, <1>6 DEF ReceiverInv
<1>8. StreamIsWhole'
  BY <1>0, <1>1 DEF StreamIsWhole
<1> QED BY <1>4, <1>5, <1>7, <1>8 DEF StreamInv

\* A part is sent: it is last in the socket, and nothing else about the socket changes.
LEMMA SendPartStep ==
  ASSUME StreamInv, NEW c \in Streams, NEW i \in 0 .. LastPart(c), SendPart(c, i)
  PROVE  StreamInv'
<1>0. StreamTypes /\ SocketInv /\ ReceiverInv /\ StreamIsWhole
  BY DEF StreamInv
<1>1. /\ LastPart(c) \notin sent[c] /\ (i = 0 => sent[c] = {}) /\ (i = LastPart(c) => sent[c] = 0 .. Len(ChunksOf[c]))
      /\ sent' = [sent EXCEPT ![c] = @ \union {i}] /\ socket' = Append(socket, Enc(c, i))
      /\ UNCHANGED <<streams, callOf, chunks, metadata, complete, failed, waiter, value, whole>>
  BY DEF SendPart, managerVars, Enc
<1>2. Enc(c, i) \in Texts
  BY DEF Texts
<1> DEFINE k == Len(socket) + 1
<1>3. socket \in Seq(Texts) /\ Len(socket) \in Nat /\ DOMAIN socket = 1 .. Len(socket)
  BY <1>0 DEF StreamTypes
<1>4. /\ socket' \in Seq(Texts) /\ DOMAIN socket' = DOMAIN socket \union {k} /\ k \notin DOMAIN socket
      /\ socket'[k] = Enc(c, i) /\ \A n \in DOMAIN socket : socket'[n] = socket[n] /\ n <= k
  BY <1>1, <1>2, <1>3
<1>k. k <= k
  BY <1>3
<1> HIDE DEF k
<1>5. sent'[c] = sent[c] \union {i} /\ \A d \in Streams \ {c} : sent'[d] = sent[d]
  BY <1>0, <1>1 DEF StreamTypes
<1>6. /\ \A d \in Streams : sent[d] \subseteq 0 .. LastPart(d)
      /\ \A d \in Streams : 0 \in 0 .. LastPart(d) /\ LastPart(d) \in 0 .. LastPart(d) /\ 0 # LastPart(d)
  <2>1. \A d \in Streams : LastPart(d) \in Nat /\ 0 # LastPart(d)
    BY ChunkCount
  <2> QED BY <1>0, <2>1 DEF StreamTypes
<1>7. StreamTypes'
  <2>1. i \in Nat
    BY ChunkCount
  <2>2. sent' \in [Streams -> SUBSET Nat] /\ \A d \in Streams : sent'[d] \subseteq 0 .. LastPart(d)
    BY <1>0, <1>1, <1>5, <1>6, <2>1 DEF StreamTypes
  <2> QED BY <1>0, <1>1, <1>4, <2>2 DEF StreamTypes
<1>8. \A d, j : UnderWay(d, j) => UnderWay(d, j)'
  BY <1>4 DEF UnderWay
<1>9. UnderWay(c, i)'
  BY <1>4 DEF UnderWay
<1>10. \A d \in Streams : \A j \in 0 .. LastPart(d) : UnderWay(d, j)' /\ ~(d = c /\ j = i) => UnderWay(d, j)
  BY <1>4, EncInjective DEF UnderWay
<1>11. \A d \in Streams : \A j \in 0 .. LastPart(d) : UnderWay(d, j) => j \in sent[d]
  <2> SUFFICES ASSUME NEW d \in Streams, NEW j \in 0 .. LastPart(d), NEW n \in DOMAIN socket, socket[n] = Enc(d, j)
               PROVE  j \in sent[d]
    BY DEF UnderWay
  <2>1. PICK e \in Streams : \E l \in sent[e] : socket[n] = Enc(e, l)
    BY <1>0 DEF SocketInv
  <2>2. PICK l \in sent[e] : socket[n] = Enc(e, l)
    BY <2>1
  <2>l. l \in 0 .. LastPart(e) /\ Enc(e, l) = Enc(d, j)
    BY <1>6, <2>2
  <2>3. e = d /\ l = j
    BY <2>l, EncInjective
  <2> QED BY <2>2, <2>3
<1>12. \A n \in DOMAIN socket' : \E d \in Streams : \E j \in sent'[d] : socket'[n] = Enc(d, j)
  <2> SUFFICES ASSUME NEW n \in DOMAIN socket' PROVE \E d \in Streams : \E j \in sent'[d] : socket'[n] = Enc(d, j)
    OBVIOUS
  <2>1. CASE n = k
    BY <1>4, <1>5, <2>1
  <2>2. CASE n \in DOMAIN socket
    <3>1. \A d \in Streams : sent[d] \subseteq sent'[d]
      BY <1>5
    <3> QED BY <1>0, <1>4, <2>2, <3>1 DEF SocketInv
  <2> QED BY <1>4, <2>1, <2>2
<1>13. ASSUME NEW d \in Streams, NEW n \in DOMAIN socket', NEW m \in DOMAIN socket', NEW j \in 0 .. LastPart(d)
       PROVE  /\ socket'[n] = Enc(d, 0) /\ socket'[m] = Enc(d, j) => n <= m
              /\ socket'[n] = Enc(d, LastPart(d)) /\ socket'[m] = Enc(d, j) => m <= n
  <2>1. CASE n \in DOMAIN socket /\ m \in DOMAIN socket
    BY <1>0, <1>4, <2>1 DEF SocketInv
  <2>2. CASE n = k /\ m = k
    BY <1>k, <2>2
  <2>3. CASE n \in DOMAIN socket /\ m = k
    <3>1. n <= m
      BY <1>4, <2>3
    <3>2. ~(socket'[n] = Enc(d, LastPart(d)) /\ socket'[m] = Enc(d, j))
      <4> SUFFICES ASSUME socket[n] = Enc(d, LastPart(d)), Enc(c, i) = Enc(d, j) PROVE FALSE
        BY <1>4, <2>3
      <4>1. c = d
        BY EncInjective
      <4>2. UnderWay(c, LastPart(c))
        BY <2>3, <4>1 DEF UnderWay
      <4> QED BY <1>1, <1>6, <1>11, <4>2
    <3> QED BY <3>1, <3>2
  <2>4. CASE n = k /\ m \in DOMAIN socket
    <3>1. m <= n
      BY <1>4, <2>4
    <3>2. ~(socket'[n] = Enc(d, 0) /\ socket'[m] = Enc(d, j))
      <4> SUFFICES ASSUME Enc(c, i) = Enc(d, 0), socket[m] = Enc(d, j) PROVE FALSE
        BY <1>4, <2>4
      <4>1. c = d /\ i = 0
        BY <1>6, EncInjective
      <4>2. UnderWay(c, j)
        BY <2>4, <4>1 DEF UnderWay
      <4> QED BY <1>1, <1>11, <4>1, <4>2
    <3> QED BY <3>1, <3>2
  <2> QED BY <1>4, <2>1, <2>2, <2>3, <2>4
<1>14. ASSUME NEW d \in Streams, UnderWay(d, 0)', NEW j \in sent'[d] PROVE UnderWay(d, j)'
  <2>1. CASE d = c /\ j = i
    BY <1>9, <2>1
  <2>2. CASE ~(d = c /\ j = i)
    <3>1. j \in sent[d]
      BY <1>5, <2>2
    <3>2. ~(d = c /\ i = 0)
      BY <1>1, <3>1
    <3>3. UnderWay(d, 0)
      BY <1>6, <1>10, <1>14, <3>2
    <3> QED BY <1>0, <1>8, <3>1, <3>3 DEF SocketInv
  <2> QED BY <2>1, <2>2
<1>15. ASSUME NEW d \in Streams, UnderWay(d, LastPart(d))' PROVE 0 .. Len(ChunksOf[d]) \subseteq sent'[d]
  <2>1. CASE d = c /\ i = LastPart(c)
    BY <1>1, <1>5, <2>1
  <2>2. CASE ~(d = c /\ i = LastPart(c))
    <3>1. UnderWay(d, LastPart(d))
      BY <1>6, <1>10, <1>15, <2>2
    <3>2. sent[d] \subseteq sent'[d]
      BY <1>5
    <3> QED BY <1>0, <3>1, <3>2 DEF SocketInv
  <2> QED BY <2>1, <2>2
<1>16. SocketInv'
  BY <1>12, <1>13, <1>14, <1>15 DEF SocketInv
<1>17. ASSUME NEW r, NEW d \in Streams, Pending(r, d) PROVE Pending(r, d)'
  <2>1. SUFFICES ASSUME (LastPart(d) \notin sent[d] \/ UnderWay(d, LastPart(d)))', NEW j \in sent'[d], j # LastPart(d)
                 PROVE  Applied(r, d, j)' \/ UnderWay(d, j)'
    BY <1>1, <1>17 DEF Pending
  <2>2. LastPart(d) \notin sent[d] \/ UnderWay(d, LastPart(d))
    BY <1>1, <1>5, <1>6, <1>10, <2>1
  <2>3. CASE d = c /\ j = i
    BY <1>9, <2>3
  <2>4. CASE ~(d = c /\ j = i)
    <3>1. j \in sent[d]
      BY <1>5, <2>4
    <3>2. Applied(r, d, j) \/ UnderWay(d, j)
      BY <1>17, <2>1, <2>2, <3>1 DEF Pending
    <3>3. Applied(r, d, j) => Applied(r, d, j)'
      BY <1>1 DEF Applied
    <3> QED BY <1>8, <3>2, <3>3
  <2> QED BY <2>3, <2>4
<1>18. ReceiverInv'
  BY <1>0, <1>1, <1>17 DEF ReceiverInv
<1>19. StreamIsWhole'
  BY <1>0, <1>1 DEF StreamIsWhole
<1> QED BY <1>7, <1>16, <1>18, <1>19 DEF StreamInv

\* A message is read: it is a part of some stream, and what Handle does with it.
LEMMA HandleFacts ==
  ASSUME StreamTypes, NEW c \in Streams, NEW i \in 0 .. LastPart(c), Handle(FromJson(Enc(c, i)))
  PROVE  /\ streams[c] = NoReceiver => UNCHANGED managerVars
         /\ streams[c] # NoReceiver =>
              /\ UNCHANGED <<callOf, failed>>
              /\ i = 0 => /\ metadata' = [metadata EXCEPT ![streams[c]] = Or(MetaOf[c], Empty)]
                          /\ UNCHANGED <<streams, chunks, complete>>
              /\ i \in 1 .. Len(ChunksOf[c]) =>
                   /\ chunks' = [chunks EXCEPT ![streams[c]] = OnChunk(@, ChunksOf[c][i], i - 1)]
                   /\ UNCHANGED <<streams, metadata, complete>>
              /\ i = LastPart(c) =>
                   /\ complete' = [complete EXCEPT ![streams[c]] = TRUE]
                   /\ streams' = [streams EXCEPT ![c] = NoReceiver]
                   /\ UNCHANGED <<metadata, chunks>>
<1> DEFINE m == Part(c, i)
<1>1. FromJson(Enc(c, i)) = m
  BY PartRead
<1>2. m.id = Str(c)
  BY PartFields
<1>3. m.id.s = c
  BY <1>2 DEF Str
<1>4. /\ i = 0 => m.type = Str("rpc.stream.start") /\ m.metadata = Or(MetaOf[c], Empty)
      /\ i = LastPart(c) => m.type = Str("rpc.stream.end")
      /\ i \in 1 .. Len(ChunksOf[c]) =>
           /\ m.type = Str("rpc.stream.chunk") /\ m.result = ChunksOf[c][i]
           /\ m.metadata = Dict([index |-> Num(i - 1)])
  BY PartFields
<1>5. Str("rpc.stream.start") # Str("rpc.stream.chunk") /\ Str("rpc.stream.start") # Str("rpc.stream.end")
      /\ Str("rpc.stream.chunk") # Str("rpc.stream.end")
  BY DEF Str
<1>h. Handle(m)
  BY <1>1
<1> HIDE DEF m
<1>6. CASE streams[c] = NoReceiver
  BY <1>3, <1>6, <1>h DEF Handle
<1>7. CASE streams[c] # NoReceiver
  <2>1. UNCHANGED <<callOf, failed>>
    BY <1>3, <1>7, <1>h DEF Handle
  <2>2. ASSUME i = 0
        PROVE  /\ metadata' = [metadata EXCEPT ![streams[c]] = Or(MetaOf[c], Empty)]
               /\ UNCHANGED <<streams, chunks, complete>>
    BY <1>3, <1>4, <1>5, <1>7, <1>h, <2>2 DEF Handle
  <2>3. ASSUME i \in 1 .. Len(ChunksOf[c])
        PROVE  /\ chunks' = [chunks EXCEPT ![streams[c]] = OnChunk(@, ChunksOf[c][i], i - 1)]
               /\ UNCHANGED <<streams, metadata, complete>>
    <3>1. Or(Get(m.metadata.items, "index"), Num(0)).n = i - 1
      BY <1>4, <2>3, IndexRead
    <3>2. m.type = Str("rpc.stream.chunk") /\ m.result = ChunksOf[c][i]
      BY <1>4, <2>3
    <3> QED BY <1>3, <1>5, <1>7, <1>h, <3>1, <3>2 DEF Handle
  <2>4. ASSUME i = LastPart(c)
        PROVE  /\ complete' = [complete EXCEPT ![streams[c]] = TRUE]
               /\ streams' = [streams EXCEPT ![c] = NoReceiver]
               /\ UNCHANGED <<metadata, chunks>>
    BY <1>3, <1>4, <1>5, <1>7, <1>h, <2>4 DEF Handle, Forget
  <2> QED BY <1>7, <2>1, <2>2, <2>3, <2>4
<1> QED BY <1>6, <1>7

\* A receiver that has got every part has the stream.
LEMMA AllApplied ==
  ASSUME NEW r, NEW c \in Streams, chunks[r] \in Seq(ChunkVals), Len(chunks[r]) <= Len(ChunksOf[c]),
         \A i \in 0 .. Len(ChunksOf[c]) : Applied(r, c, i)
  PROVE  chunks[r] = ChunksOf[c] /\ metadata[r] = Or(MetaOf[c], Empty)
<1> DEFINE n == Len(ChunksOf[c])
           s == chunks[r]
           u == ChunksOf[c]
<1>1. n \in Nat /\ u \in Seq(DataOf(c)) /\ n = Len(u)
  BY ChunkCount
<1>2. metadata[r] = Or(MetaOf[c], Empty)
  BY <1>1 DEF Applied
<1>3. \A i \in 1 .. n : i <= Len(s) /\ s[i] = u[i]
  BY <1>1 DEF Applied
<1>4. s \in Seq(ChunkVals) /\ Len(s) \in Nat /\ Len(s) <= n
  OBVIOUS
<1> HIDE DEF n, s, u
<1>5. Len(s) = n
  BY <1>1, <1>3, <1>4
<1>6. s = [i \in 1 .. n |-> s[i]] /\ u = [i \in 1 .. n |-> u[i]]
  BY <1>1, <1>4, <1>5
<1>7. s = u
  BY <1>3, <1>6
<1> QED BY <1>2, <1>7 DEF s, u

\* The step in which a message is read.
LEMMA DeliverStep ==
  ASSUME StreamInv, Deliver
  PROVE  StreamInv'
<1>0. StreamTypes /\ SocketInv /\ ReceiverInv /\ StreamIsWhole
  BY DEF StreamInv
<1>1. /\ socket # << >> /\ socket' = Tail(socket) /\ Handle(FromJson(Head(socket)))
      /\ UNCHANGED <<waiter, value, sent, repeats, whole>>
  BY DEF Deliver
<1>2. socket' \in Seq(Texts) /\ SocketInv'
  BY <1>0, <1>1, TailSocket
<1>3. PICK c \in Streams, i \in Nat :
        /\ Head(socket) = Enc(c, i) /\ i \in sent[c] /\ i \in 0 .. LastPart(c)
        /\ \A d \in Streams : \A j \in 0 .. LastPart(d) :
             /\ UnderWay(d, j)' => UnderWay(d, j)
             /\ UnderWay(d, j) /\ ~(d = c /\ j = i) => UnderWay(d, j)'
        /\ i = LastPart(c) => \A j \in 0 .. LastPart(c) : UnderWay(c, j) => j = i
  <2>1. \A c \in Streams : \A i \in sent[c] : i \in Nat
    BY <1>0 DEF StreamTypes
  <2> QED BY <1>0, <1>1, <2>1, TailSocket
<1>4. Handle(FromJson(Enc(c, i)))
  BY <1>1, <1>3
<1>5. /\ \A d \in Streams : sent[d] \subseteq 0 .. LastPart(d) /\ LastPart(d) \in 0 .. LastPart(d)
      /\ i = 0 \/ i = LastPart(c) \/ i \in 1 .. Len(ChunksOf[c])
  <2>1. \A d \in Streams : LastPart(d) \in Nat
    BY ChunkCount
  <2> QED BY <1>0, <1>3, <2>1, ChunkCount DEF StreamTypes
<1>6. UnderWay(c, i)
  <2>1. 1 \in DOMAIN socket /\ Head(socket) = socket[1]
    BY <1>0, <1>1 DEF StreamTypes
  <2> QED BY <1>3, <2>1 DEF UnderWay
\* What is pending for a receiver of another stream, or for one that has got part i, stays so.
<1>7. ASSUME NEW r, NEW d \in Streams, Pending(r, d), Len(chunks'[r]) <= Len(ChunksOf[d]),
             \A j \in sent[d] : Applied(r, d, j) => Applied(r, d, j)',
             d = c /\ i # LastPart(c) => Applied(r, c, i)'
      PROVE  Pending(r, d)'
  <2>1. SUFFICES ASSUME LastPart(d) \notin sent[d] \/ UnderWay(d, LastPart(d))', NEW j \in sent[d], j # LastPart(d)
                 PROVE  Applied(r, d, j)' \/ UnderWay(d, j)'
    BY <1>1, <1>7 DEF Pending
  <2>2. LastPart(d) \notin sent[d] \/ UnderWay(d, LastPart(d))
    BY <1>3, <1>5, <2>1
  <2>3. Applied(r, d, j) \/ UnderWay(d, j)
    BY <1>7, <2>1, <2>2 DEF Pending
  <2>4. j \in 0 .. LastPart(d)
    BY <1>5
  <2> QED BY <1>3, <1>7, <2>1, <2>3, <2>4
<1>8. CASE streams[c] = NoReceiver
  <2>1. UNCHANGED <<streams, callOf, chunks, metadata, complete, failed>>
    BY <1>0, <1>3, <1>4, <1>8, HandleFacts DEF managerVars
  <2>2. StreamTypes'
    BY <1>0, <1>1, <1>2, <2>1 DEF StreamTypes
  <2>3. ASSUME NEW d \in Streams, streams[d] # NoReceiver, Pending(streams[d], d) PROVE Pending(streams[d], d)'
    <3>1. PICK r : r = streams[d] /\ r = streams'[d]
      BY <2>1
    <3>2. Pending(r, d) /\ d # c
      BY <1>8, <2>3, <3>1
    <3>3. \A j \in sent[d] : Applied(r, d, j) => Applied(r, d, j)'
      BY <2>1 DEF Applied
    <3>4. Len(chunks'[r]) <= Len(ChunksOf[d])
      BY <2>1, <3>2 DEF Pending
    <3>5. Pending(r, d)'
      BY <1>7, <3>2, <3>3, <3>4
    <3> QED BY <3>1, <3>5
  <2>4. ReceiverInv'
    BY <1>0, <1>1, <2>1, <2>3 DEF ReceiverInv
  <2>5. StreamIsWhole'
    BY <1>0, <1>1, <2>1 DEF StreamIsWhole
  <2> QED BY <1>2, <2>2, <2>4, <2>5 DEF StreamInv
<1>9. CASE streams[c] # NoReceiver
  <2>1. PICK r : r = streams[c]
    OBVIOUS
  <2>2. /\ r \in Receivers /\ r \in DOMAIN callOf /\ callOf[r] = c /\ ~complete[r] /\ r # NoReceiver
        /\ r \in whole => Pending(r, c)
        /\ \A d \in Streams \ {c} : streams[d] # NoReceiver => streams[d] # r /\ callOf[streams[d]] = d
    BY <1>0, <1>9, <2>1 DEF StreamTypes, ReceiverInv
  <2>3. /\ UNCHANGED <<callOf, failed>>
        /\ i = 0 => /\ metadata' = [metadata EXCEPT ![r] = Or(MetaOf[c], Empty)]
                    /\ UNCHANGED <<streams, chunks, complete>>
        /\ i \in 1 .. Len(ChunksOf[c]) =>
             /\ chunks' = [chunks EXCEPT ![r] = OnChunk(@, ChunksOf[c][i], i - 1)]
             /\ UNCHANGED <<streams, metadata, complete>>
        /\ i = LastPart(c) =>
             /\ complete' = [complete EXCEPT ![r] = TRUE]
             /\ streams' = [streams EXCEPT ![c] = NoReceiver]
             /\ UNCHANGED <<metadata, chunks>>
    BY <1>0, <1>3, <1>4, <1>9, <2>1, HandleFacts
  <2>4. \A q \in Receivers \ {r} : chunks'[q] = chunks[q] /\ metadata'[q] = metadata[q] /\ complete'[q] = complete[q]
    BY <1>0, <1>5, <2>3 DEF StreamTypes
  <2>5. ASSUME NEW d \in Streams \ {c}, NEW q, q = streams[d], q # NoReceiver, Pending(q, d) PROVE Pending(q, d)'
    <3>1. q \in Receivers \ {r}
      BY <1>0, <2>2, <2>5 DEF StreamTypes
    <3>2. \A j \in sent[d] : Applied(q, d, j) => Applied(q, d, j)'
      BY <2>4, <3>1 DEF Applied
    <3>3. Len(chunks'[q]) <= Len(ChunksOf[d])
      BY <2>4, <2>5, <3>1 DEF Pending
    <3> QED BY <1>7, <2>5, <3>2, <3>3
  <2>6. StreamIsWhole'
    BY <1>0, <1>1, <2>3 DEF StreamIsWhole
  \* The start: the metadata is what the sender gave.
  <2>7. CASE i = 0
    <3>1. /\ metadata' = [metadata EXCEPT ![r] = Or(MetaOf[c], Empty)] /\ UNCHANGED <<streams, chunks, complete, callOf, failed>>
      BY <2>3, <2>7
    <3>2. metadata'[r] = Or(MetaOf[c], Empty) /\ DOMAIN metadata' = Receivers
      BY <1>0, <2>2, <3>1 DEF StreamTypes
    <3>3. StreamTypes'
      BY <1>0, <1>1, <1>2, <3>1, <3>2 DEF StreamTypes
    <3>4. Applied(r, c, 0)'
      BY <3>2 DEF Applied
    <3>5. \A j : Applied(r, c, j) => Applied(r, c, j)'
      BY <3>1, <3>2 DEF Applied
    <3>6. r \in whole => Pending(r, c)'
      <4> SUFFICES ASSUME r \in whole PROVE Pending(r, c)'
        OBVIOUS
      <4>1. Pending(r, c) /\ Len(chunks'[r]) <= Len(ChunksOf[c])
        BY <2>2, <3>1 DEF Pending
      <4> QED BY <1>7, <2>7, <3>4, <3>5, <4>1
    <3>7. ASSUME NEW d \in Streams, NEW q, q = streams'[d], q # NoReceiver
          PROVE  q \in DOMAIN callOf' /\ callOf'[q] = d /\ ~complete'[q] /\ (q \in whole' => Pending(q, d)')
      BY <1>0, <1>1, <2>1, <2>5, <3>1, <3>6, <3>7 DEF ReceiverInv
    <3>8. ReceiverInv'
      BY <1>0, <1>1, <2>2, <2>4, <3>1, <3>7 DEF ReceiverInv, StreamTypes
    <3> QED BY <1>2, <2>6, <3>3, <3>8 DEF StreamInv
  \* A chunk: it is where its index says.
  <2>8. CASE i \in 1 .. Len(ChunksOf[c])
    <3>1. /\ chunks' = [chunks EXCEPT ![r] = OnChunk(chunks[r], ChunksOf[c][i], i - 1)]
          /\ UNCHANGED <<streams, metadata, complete, callOf, failed>>
      BY <1>0, <2>2, <2>3, <2>8 DEF StreamTypes
    <3>a. Len(ChunksOf[c]) \in Nat /\ DOMAIN ChunksOf[c] = 1 .. Len(ChunksOf[c]) /\ LastPart(c) = Len(ChunksOf[c]) + 1
      BY ChunkCount
    <3>b. chunks[r] \in Seq(ChunkVals) /\ Len(chunks[r]) \in Nat /\ DOMAIN chunks[r] = 1 .. Len(chunks[r])
      BY <1>0, <2>2 DEF StreamTypes
    <3>c. ChunksOf[c][i] \in ChunkVals /\ None \in ChunkVals /\ i - 1 \in Nat /\ (i - 1) + 1 = i
      BY <2>8, <3>a DEF ChunkVals, DataOf
    <3> DEFINE new == OnChunk(chunks[r], ChunksOf[c][i], i - 1)
    <3>2. /\ new \in Seq(ChunkVals)
          /\ Len(new) = IF i > Len(chunks[r]) THEN i ELSE Len(chunks[r])
          /\ new[i] = ChunksOf[c][i]
          /\ \A j \in DOMAIN chunks[r] : j # i => new[j] = chunks[r][j]
      <4>1. PICK x \in Nat : x = i - 1 /\ x + 1 = i
        BY <3>c
      <4>2. PICK cs \in Seq(ChunkVals), data \in ChunkVals : cs = chunks[r] /\ data = ChunksOf[c][i]
        BY <3>b, <3>c
      <4>3. new = OnChunk(cs, data, x)
        BY <4>1, <4>2
      <4> HIDE DEF new
      <4>4. /\ OnChunk(cs, data, x) \in Seq(ChunkVals)
            /\ Len(OnChunk(cs, data, x)) = IF x + 1 > Len(cs) THEN x + 1 ELSE Len(cs)
            /\ OnChunk(cs, data, x)[x + 1] = data
            /\ \A j \in DOMAIN cs : j # x + 1 => OnChunk(cs, data, x)[j] = cs[j]
        BY <3>c, OnChunkFacts
      <4> QED BY <4>1, <4>2, <4>3, <4>4
    <3>3. chunks'[r] = new /\ chunks' \in [Receivers -> Seq(ChunkVals)]
      BY <1>0, <2>2, <3>1, <3>2 DEF StreamTypes
    <3> HIDE DEF new
    <3>4. StreamTypes'
      BY <1>0, <1>1, <1>2, <3>1, <3>3 DEF StreamTypes
    <3>5. Applied(r, c, i)'
      BY <2>8, <3>2, <3>3, <3>a, <3>b DEF Applied
    <3>6. \A j \in sent[c] : Applied(r, c, j) => Applied(r, c, j)'
      <4> SUFFICES ASSUME NEW j \in sent[c], Applied(r, c, j) PROVE Applied(r, c, j)'
        OBVIOUS
      <4>1. j \in Nat
        BY <1>0 DEF StreamTypes
      <4>2. CASE j = 0
        BY <3>1, <4>2 DEF Applied
      <4>3. CASE j # 0 /\ j # i
        <5>1. j \in DOMAIN chunks[r] /\ chunks[r][j] = ChunksOf[c][j]
          BY <3>b, <4>1, <4>3 DEF Applied
        <5>2. new[j] = ChunksOf[c][j] /\ j <= Len(new)
          BY <2>8, <3>2, <3>a, <3>b, <4>3, <5>1
        <5> QED BY <3>3, <4>3, <5>2 DEF Applied
      <4> QED BY <3>5, <4>2, <4>3
    <3>7. r \in whole => Pending(r, c)'
      <4> SUFFICES ASSUME r \in whole PROVE Pending(r, c)'
        OBVIOUS
      <4>1. Pending(r, c)
        BY <2>2
      <4>2. Len(chunks'[r]) <= Len(ChunksOf[c])
        BY <2>8, <3>2, <3>3, <3>a, <3>b, <4>1 DEF Pending
      <4> QED BY <1>7, <3>5, <3>6, <4>1, <4>2
    <3>8. ASSUME NEW d \in Streams, NEW q, q = streams'[d], q # NoReceiver
          PROVE  q \in DOMAIN callOf' /\ callOf'[q] = d /\ ~complete'[q] /\ (q \in whole' => Pending(q, d)')
      BY <1>0, <1>1, <2>1, <2>5, <3>1, <3>7, <3>8 DEF ReceiverInv
    <3>9. ReceiverInv'
      BY <1>0, <1>1, <2>2, <2>4, <3>1, <3>8 DEF ReceiverInv, StreamTypes
    <3> QED BY <1>2, <2>6, <3>4, <3>9 DEF StreamInv
  \* The end: every part has been applied.
  <2>9. CASE i = LastPart(c)
    <3>1. /\ complete' = [complete EXCEPT ![r] = TRUE] /\ streams' = [streams EXCEPT ![c] = NoReceiver]
          /\ UNCHANGED <<metadata, chunks, callOf, failed>>
      BY <2>3, <2>9
    <3>2. /\ complete'[r] /\ complete' \in [Receivers -> BOOLEAN]
          /\ streams'[c] = NoReceiver /\ \A d \in Streams \ {c} : streams'[d] = streams[d]
      BY <1>0, <2>2, <3>1 DEF StreamTypes
    <3>3. StreamTypes'
      BY <1>0, <1>1, <1>2, <3>1, <3>2 DEF StreamTypes
    <3>4. r \in whole => chunks[r] = ChunksOf[c] /\ metadata[r] = Or(MetaOf[c], Empty)
      <4> SUFFICES ASSUME r \in whole PROVE chunks[r] = ChunksOf[c] /\ metadata[r] = Or(MetaOf[c], Empty)
        OBVIOUS
      <4>1. Pending(r, c)
        BY <2>2
      <4>2. 0 .. Len(ChunksOf[c]) \subseteq sent[c]
        BY <1>0, <1>6, <2>9 DEF SocketInv
      <4>3. \A j \in 0 .. Len(ChunksOf[c]) : j \in 0 .. LastPart(c) /\ j # LastPart(c)
        BY ChunkCount
      <4>4. \A j \in 0 .. Len(ChunksOf[c]) : ~UnderWay(c, j)
        BY <1>3, <2>9, <4>3
      <4>5. \A j \in 0 .. Len(ChunksOf[c]) : Applied(r, c, j)
        BY <1>6, <2>9, <4>1, <4>2, <4>3, <4>4 DEF Pending
      <4>6. chunks[r] \in Seq(ChunkVals) /\ Len(chunks[r]) <= Len(ChunksOf[c])
        BY <1>0, <2>2, <4>1 DEF StreamTypes, Pending
      <4> QED BY <4>5, <4>6, AllApplied
    <3>5. ASSUME NEW d \in Streams, NEW q, q = streams'[d], q # NoReceiver
          PROVE  q \in DOMAIN callOf' /\ callOf'[q] = d /\ ~complete'[q] /\ (q \in whole' => Pending(q, d)')
      <4>1. d # c /\ q = streams[d]
        BY <3>2, <3>5
      <4>2. q \in Receivers \ {r}
        BY <1>0, <2>2, <3>5, <4>1 DEF StreamTypes
      <4>3. q \in DOMAIN callOf /\ callOf[q] = d /\ ~complete[q] /\ (q \in whole => Pending(q, d))
        BY <1>0, <3>5, <4>1 DEF ReceiverInv
      <4>4. q \in whole' => Pending(q, d)'
        BY <1>1, <2>5, <3>5, <4>1, <4>3
      <4> QED BY <2>4, <3>1, <4>2, <4>3, <4>4
    <3>6. ASSUME NEW q \in whole', complete'[q]
          PROVE  chunks'[q] = ChunksOf[callOf'[q]] /\ metadata'[q] = Or(MetaOf[callOf'[q]], Empty)
      <4>1. CASE q = r
        BY <1>1, <2>2, <3>1, <3>4, <3>6, <4>1
      <4>2. CASE q # r
        <5>1. complete[q]
          BY <1>0, <3>1, <3>6, <4>2 DEF StreamTypes
        <5> QED BY <1>0, <1>1, <3>1, <3>6, <5>1 DEF ReceiverInv
      <4> QED BY <4>1, <4>2
    <3>7. \A q \in Receivers \ DOMAIN callOf' : chunks'[q] = << >> /\ ~complete'[q]
      BY <1>0, <2>2, <2>4, <3>1 DEF ReceiverInv
    <3>8. ReceiverInv'
      BY <3>5, <3>6, <3>7 DEF ReceiverInv
    <3> QED BY <1>2, <2>6, <3>3, <3>8 DEF StreamInv
  <2> QED BY <1>5, <2>7, <2>8, <2>9
<1> QED BY <1>8, <1>9

\* The invariant is inductive.
LEMMA StreamsStep == StreamInv /\ [StreamNext]_streamVars => StreamInv'
<1> SUFFICES ASSUME StreamInv, [StreamNext]_streamVars PROVE StreamInv'
  OBVIOUS
<1>1. CASE UNCHANGED streamVars
  <2>1. UNCHANGED <<streams, callOf, chunks, metadata, complete, failed, waiter, value, sent, socket, whole>>
    BY <1>1 DEF streamVars, managerVars
  <2>2. StreamTypes'
    BY <2>1 DEF StreamInv, StreamTypes
  <2>3. StreamIsWhole'
    BY <2>1 DEF StreamInv, StreamIsWhole
  <2> QED BY <2>1, <2>2, <2>3, StreamsQuiet DEF StreamInv
<1>2. CASE StreamNext
  <2>1. CASE Deliver
    BY <2>1, DeliverStep
  <2>2. CASE Lose
    BY <2>2, LoseStep
  <2>3. CASE \E r \in Receivers : OnError(r) \/ WaitEnds(r) \/ WaitTimeout(r)
    BY <2>3, WaitersStep
  <2>4. CASE \E c \in Streams : CreateStream(c)
    BY <2>4, CreateStreamStep
  <2>5. CASE \E c \in Streams : \E i \in 0 .. LastPart(c) : SendPart(c, i)
    BY <2>5, SendPartStep
  <2> QED BY <1>2, <2>1, <2>2, <2>3, <2>4, <2>5 DEF StreamNext
<1> QED BY <1>1, <1>2

\* What wait returns is the whole of the call's data in order, however the chunks arrived and
\* whatever else was on the socket, and a receiver that is complete gets no more messages.
THEOREM StreamsAreWhole == StreamSpec => []StreamsWhole
<1>1. StreamInv => StreamsWhole
  BY DEF StreamInv, ReceiverInv, StreamsWhole, EndedIsForgotten
<1> QED BY <1>1, StreamsStart, StreamsStep, PTL DEF StreamSpec

-----------------------------------------------------------------------------
(* Pipelines.                                                              *)

\* The names of the steps of a task.
TaskNames == {TaskOf[i].name : i \in TaskSteps}

\* What a pipeline may be found to be.
TaskStatuses == {"running", "completed", "failed"}

\* The types of the state.
AgentTypes ==
  /\ agents \in Seq(AgentObjects)
  /\ statusOf \in [Pipelines -> Seq(TaskStatuses)]
  /\ \A p \in Pipelines : Len(statusOf[p]) <= Len(TaskOf)
  /\ DOMAIN runner = Pipelines
  /\ DOMAIN context = Pipelines
  /\ DOMAIN handed = Pipelines
  /\ cancelled \subseteq {p \in Pipelines : statusOf[p] # << >>}

\* The tasks of a name among the first n, and the last of them.
NamedBefore(name, n) == {j \in 1 .. n : TaskOf[j].name = name}

\* The last of the first n steps of the task that has this name.
LastBefore(name, n) ==
  IF NamedBefore(name, n) = {} THEN 0
  ELSE CHOOSE j \in NamedBefore(name, n) : \A k \in NamedBefore(name, n) : k <= j

\* Of a pipeline's tasks only the last one submitted may not have completed.
StopsAtFailure ==
  \A p \in Pipelines : \A j \in 1 .. Len(statusOf[p]) - 1 : statusOf[p][j] = "completed"

\* A pipeline that awaits a handler keeps the context it has handed on, and a capable agent
\* runs its task.
AwaitsWell ==
  \A p \in Pipelines : Awaiting(p) =>
    /\ context[p] = handed[p]
    /\ DOMAIN context[p] = TaskNames
    /\ \A name \in TaskNames : context[p][name] = LastBefore(name, Len(statusOf[p]) - 1)
    /\ runner[p] \in Handling
    /\ TaskOf[Len(statusOf[p])].cap \in CapsOf[runner[p]] \union {AnyCap}

\* The inductive invariant of the pipelines.
AgentsInv == AgentTypes /\ StopsAtFailure /\ AwaitsWell

\* _find_agent returns a registered agent with the capability, if it returns one.
LEMMA FindAgentFacts ==
  ASSUME agents \in Seq(AgentObjects), NEW cap, FindAgent(cap) # NoAgent
  PROVE  FindAgent(cap) \in AgentObjects /\ cap \in CapsOf[FindAgent(cap)] \union {AnyCap}
<1> DEFINE able == {i \in DOMAIN agents : cap \in CapsOf[agents[i]] \union {AnyCap}}
           first == CHOOSE i \in able : \A k \in able : i <= k
<1>1. able # {} /\ FindAgent(cap) = agents[first]
  BY DEF FindAgent
<1>2. able \in SUBSET Nat
  OBVIOUS
<1>3. first \in able
  <2> HIDE DEF able
  <2> QED BY <1>1, <1>2, FirstPosition
<1> HIDE DEF first
<1> QED BY <1>1, <1>3

\* The last task of a name among the first n is the n-th if it has the name, and else the
\* last one before.
LEMMA LastBeforeStep ==
  ASSUME NEW n \in Nat \ {0}, NEW name
  PROVE  LastBefore(name, n) = IF TaskOf[n].name = name THEN n ELSE LastBefore(name, n - 1)
<1>1. CASE TaskOf[n].name = name
  <2>1. n \in NamedBefore(name, n) /\ \A k \in NamedBefore(name, n) : k \in Nat /\ k <= n
    BY <1>1 DEF NamedBefore
  <2>2. \A j \in NamedBefore(name, n) : (\A k \in NamedBefore(name, n) : k <= j) => j = n
    BY <2>1
  <2> QED BY <1>1, <2>1, <2>2 DEF LastBefore
<1>2. CASE TaskOf[n].name # name
  <2>1. NamedBefore(name, n) = NamedBefore(name, n - 1)
    BY <1>2 DEF NamedBefore
  <2> QED BY <1>2, <2>1 DEF LastBefore
<1> QED BY <1>1, <1>2

\* What submit_task leaves of a pipeline whose tasks so far have completed.
LEMMA SubmitFacts ==
  ASSUME AgentsInv, NEW p \in Pipelines, p \notin cancelled,
         NEW before \in Seq(TaskStatuses), Len(before) < Len(TaskOf),
         \A j \in DOMAIN before : before[j] = "completed",
         NEW known, DOMAIN known = TaskNames,
         \A name \in TaskNames : known[name] = LastBefore(name, Len(before)),
         SubmitNext(p, before, known), UNCHANGED <<agents, cancelled>>
  PROVE  AgentsInv'
<1> DEFINE a == FindAgent(TaskOf[Len(before) + 1].cap)
           ready == a # NoAgent /\ a \in Handling
           last == IF ready THEN "running" ELSE "failed"
           new == Append(before, last)
<1>1. last \in TaskStatuses
  BY DEF TaskStatuses
<1>2. /\ statusOf' = [statusOf EXCEPT ![p] = new]
      /\ runner' = [runner EXCEPT ![p] = IF ready THEN a ELSE NoAgent]
      /\ context' = [context EXCEPT ![p] = known] /\ handed' = [handed EXCEPT ![p] = known]
  BY DEF SubmitNext
<1>3. ready => a \in Handling /\ TaskOf[Len(before) + 1].cap \in CapsOf[a] \union {AnyCap}
  BY FindAgentFacts DEF AgentsInv, AgentTypes
<1> HIDE DEF a, last
<1>4. /\ new \in Seq(TaskStatuses) /\ Len(new) = Len(before) + 1 /\ new # << >>
      /\ DOMAIN new = DOMAIN before \union {Len(before) + 1}
      /\ Len(before) \in Nat /\ DOMAIN before = 1 .. Len(before)
      /\ \A i \in DOMAIN new : new[i] = IF i \in DOMAIN before THEN before[i] ELSE last
      /\ Len(before) + 1 \notin DOMAIN before
  BY <1>1, AppendedFacts
<1>5. new[Len(new)] = last /\ \A j \in 1 .. Len(new) - 1 : new[j] = "completed"
  BY <1>4
<1>6. Len(new) <= Len(TaskOf) /\ Len(new) - 1 = Len(before)
  BY <1>4, AgentAssumption
<1> HIDE DEF new
<1>7. /\ statusOf'[p] = new /\ context'[p] = known /\ handed'[p] = known
      /\ runner'[p] = IF ready THEN a ELSE NoAgent
  BY <1>2 DEF AgentsInv, AgentTypes
<1>8. \A q \in Pipelines \ {p} : /\ statusOf'[q] = statusOf[q] /\ context'[q] = context[q]
                                 /\ handed'[q] = handed[q] /\ runner'[q] = runner[q]
  BY <1>2 DEF AgentsInv, AgentTypes
<1>9. AgentTypes'
  BY <1>2, <1>4, <1>6, <1>7, <1>8 DEF AgentsInv, AgentTypes
<1>s. \A j \in 1 .. Len(statusOf'[p]) - 1 : statusOf'[p][j] = "completed"
  BY <1>5, <1>7
<1>t. \A q \in Pipelines \ {p} : \A j \in 1 .. Len(statusOf'[q]) - 1 : statusOf'[q][j] = "completed"
  BY <1>8 DEF AgentsInv, StopsAtFailure
<1>10. StopsAtFailure'
  BY <1>s, <1>t DEF StopsAtFailure
<1>11. ASSUME NEW q \in Pipelines, Awaiting(q)'
       PROVE  /\ context'[q] = handed'[q]
              /\ DOMAIN context'[q] = TaskNames
              /\ \A name \in TaskNames : context'[q][name] = LastBefore(name, Len(statusOf'[q]) - 1)
              /\ runner'[q] \in Handling
              /\ TaskOf[Len(statusOf'[q])].cap \in CapsOf[runner'[q]] \union {AnyCap}
  <2>1. CASE q = p
    <3>1. last = "running"
      BY <1>5, <1>7, <1>11, <2>1 DEF Awaiting
    <3>2. ready
      BY <3>1 DEF last
    <3> QED BY <1>3, <1>4, <1>6, <1>7, <2>1, <3>2
  <2>2. CASE q # p
    <3>1. Awaiting(q)
      BY <1>8, <1>11, <2>2 DEF Awaiting
    <3> QED BY <1>8, <2>2, <3>1 DEF AgentsInv, AwaitsWell
  <2> QED BY <2>1, <2>2
<1> QED BY <1>9, <1>10, <1>11 DEF AgentsInv, AwaitsWell

\* A pipeline whose last task has ended, or that was cancelled, awaits nothing.
LEMMA RestsFacts ==
  ASSUME AgentsInv, AgentTypes', NEW p \in Pipelines, ~Awaiting(p)',
         \A q \in Pipelines \ {p} : /\ statusOf'[q] = statusOf[q] /\ context'[q] = context[q]
                                    /\ handed'[q] = handed[q] /\ runner'[q] = runner[q]
                                    /\ q \in cancelled' <=> q \in cancelled,
         \A j \in 1 .. Len(statusOf'[p]) - 1 : statusOf'[p][j] = "completed"
  PROVE  AgentsInv'
<1>1. StopsAtFailure'
  BY DEF AgentsInv, StopsAtFailure
<1>2. \A q \in Pipelines : Awaiting(q)' => q # p /\ Awaiting(q)
  BY DEF Awaiting
<1>3. AwaitsWell'
  <2> SUFFICES ASSUME NEW q \in Pipelines, Awaiting(q)'
               PROVE  /\ context'[q] = handed'[q]
                      /\ DOMAIN context'[q] = TaskNames
                      /\ \A name \in TaskNames : context'[q][name] = LastBefore(name, Len(statusOf'[q]) - 1)
                      /\ runner'[q] \in Handling
                      /\ TaskOf[Len(statusOf'[q])].cap \in CapsOf[runner'[q]] \union {AnyCap}
    BY DEF AwaitsWell
  <2>1. q # p /\ Awaiting(q)
    BY <1>2
  <2> QED BY <2>1 DEF AgentsInv, AwaitsWell
<1> QED BY <1>1, <1>3 DEF AgentsInv

\* The last status of a pipeline's tasks replaced.
LEMMA EndedFacts ==
  ASSUME AgentsInv, NEW p \in Pipelines, Awaiting(p), NEW outcome \in TaskStatuses
  PROVE  /\ Ended(p, outcome) \in Seq(TaskStatuses)
         /\ Len(Ended(p, outcome)) = Len(statusOf[p])
         /\ Len(statusOf[p]) \in 1 .. Len(TaskOf)
         /\ Ended(p, outcome)[Len(statusOf[p])] = outcome
         /\ \A j \in 1 .. Len(statusOf[p]) - 1 : Ended(p, outcome)[j] = "completed"
<1>1. statusOf[p] \in Seq(TaskStatuses) /\ statusOf[p] # << >> /\ Len(statusOf[p]) <= Len(TaskOf)
  BY DEF AgentsInv, AgentTypes, Awaiting
<1>2. Len(statusOf[p]) \in 1 .. Len(TaskOf)
  BY <1>1, AgentAssumption
<1> QED BY <1>1, <1>2 DEF Ended, AgentsInv, StopsAtFailure

\* Closing the pipelines of an agent that goes away leaves the others alone.
LEMMA CloseFacts ==
  ASSUME AgentsInv, NEW p \in Pipelines, Awaiting(p), NEW outcome \in {"completed", "failed"}, NEW known,
         Close(p, outcome, known), UNCHANGED <<agents, cancelled>>
  PROVE  AgentsInv'
<1> DEFINE new == Ended(p, outcome)
<1>1. /\ new \in Seq(TaskStatuses) /\ Len(new) = Len(statusOf[p]) /\ Len(statusOf[p]) \in 1 .. Len(TaskOf)
      /\ new[Len(statusOf[p])] = outcome
      /\ \A j \in 1 .. Len(statusOf[p]) - 1 : new[j] = "completed"
  BY EndedFacts DEF TaskStatuses
<1>2. /\ statusOf' = [statusOf EXCEPT ![p] = new] /\ runner' = [runner EXCEPT ![p] = NoAgent]
      /\ context' = [context EXCEPT ![p] = known] /\ handed' = handed
  BY DEF Close
<1> HIDE DEF new
<1>3. AgentTypes'
  BY <1>1, <1>2, AgentAssumption DEF AgentsInv, AgentTypes
<1>4. statusOf'[p] = new
  BY <1>2 DEF AgentsInv, AgentTypes
<1>5. ~Awaiting(p)'
  BY <1>1, <1>4 DEF Awaiting
<1>6. \A q \in Pipelines \ {p} : /\ statusOf'[q] = statusOf[q] /\ context'[q] = context[q]
                                 /\ handed'[q] = handed[q] /\ runner'[q] = runner[q]
                                 /\ q \in cancelled' <=> q \in cancelled
  BY <1>2 DEF AgentsInv, AgentTypes
<1> QED BY <1>1, <1>3, <1>4, <1>5, <1>6, RestsFacts

\* Every step of the orchestrator keeps it.
LEMMA AgentsInvStep == AgentsInv /\ [AgentsNext]_agentVars => AgentsInv'
<1> SUFFICES ASSUME AgentsInv, [AgentsNext]_agentVars PROVE AgentsInv'
  OBVIOUS
<1>1. ASSUME NEW a \in AgentObjects, RegisterAgent(a) \/ UnregisterAgent(a) PROVE AgentsInv'
  <2>1. UNCHANGED <<statusOf, runner, context, handed, cancelled>>
    BY <1>1 DEF RegisterAgent, UnregisterAgent
  <2>2. agents' \in Seq(AgentObjects)
    <3>1. CASE RegisterAgent(a)
      <4>1. CASE agents' = Append(agents, a)
        BY <1>1, <4>1 DEF AgentsInv, AgentTypes
      <4>2. CASE agents' = [i \in DOMAIN agents |-> IF i \in PlacesOf(a) THEN a ELSE agents[i]]
        <5>1. DOMAIN agents = 1 .. Len(agents) /\ Len(agents) \in Nat
              /\ \A i \in 1 .. Len(agents) : agents[i] \in AgentObjects
          BY DEF AgentsInv, AgentTypes
        <5>2. agents' \in [1 .. Len(agents) -> AgentObjects]
          BY <1>1, <4>2, <5>1
        <5> QED BY <5>1, <5>2
      <4> QED BY <3>1, <4>1, <4>2 DEF RegisterAgent
    <3>2. CASE UnregisterAgent(a)
      <4> PICK i \in DOMAIN agents : agents' = SubSeq(agents, 1, i - 1) \o SubSeq(agents, i + 1, Len(agents))
        BY <3>2 DEF UnregisterAgent, PlacesOf
      <4>1. agents' = Popped(agents, i)
        BY DEF Popped
      <4> QED BY <4>1, PoppedFacts DEF AgentsInv, AgentTypes
    <3> QED BY <1>1, <3>1, <3>2
  <2> QED BY <2>1, <2>2 DEF AgentsInv, AgentTypes, StopsAtFailure, AwaitsWell, Awaiting
<1>2. ASSUME NEW p \in Pipelines, StartPipeline(p) PROVE AgentsInv'
  <2> DEFINE known == [name \in {TaskOf[i].name : i \in TaskSteps} |-> 0]
  <2>1. SubmitNext(p, << >>, known) /\ UNCHANGED <<agents, cancelled>> /\ statusOf[p] = << >>
    BY <1>2 DEF StartPipeline
  <2>2. \A name \in TaskNames : known[name] = LastBefore(name, 0)
    BY DEF TaskNames, LastBefore, NamedBefore
  <2>3. DOMAIN known = TaskNames
    BY DEF TaskNames
  <2>4. << >> \in Seq(TaskStatuses) /\ Len(<< >>) = 0 /\ DOMAIN << >> = {} /\ 0 < Len(TaskOf)
    BY AgentAssumption
  <2> HIDE DEF known
  <2>5. p \notin cancelled
    BY <2>1 DEF AgentsInv, AgentTypes
  <2> QED BY <2>1, <2>2, <2>3, <2>4, <2>5, SubmitFacts
<1>3. ASSUME NEW p \in Pipelines, HandlerReturns(p) PROVE AgentsInv'
  <2> DEFINE i == Len(statusOf[p])
             known == [context[p] EXCEPT ![TaskOf[i].name] = i]
             new == Ended(p, "completed")
  <2>1. Awaiting(p) /\ UNCHANGED <<agents, cancelled>>
        /\ (IF i = Len(TaskOf) THEN Close(p, "completed", known) ELSE SubmitNext(p, new, known))
    BY <1>3 DEF HandlerReturns
  <2>2. CASE i = Len(TaskOf)
    BY <2>1, <2>2, CloseFacts
  <2>3. CASE i # Len(TaskOf)
    <3>1. /\ new \in Seq(TaskStatuses) /\ Len(new) = i /\ i \in 1 .. Len(TaskOf)
          /\ new[i] = "completed" /\ \A j \in 1 .. i - 1 : new[j] = "completed"
      BY <2>1, EndedFacts DEF TaskStatuses
    <3>2. Len(new) < Len(TaskOf) /\ \A j \in DOMAIN new : new[j] = "completed"
      BY <2>3, <3>1, AgentAssumption
    <3>3. DOMAIN context[p] = TaskNames /\ \A name \in TaskNames : context[p][name] = LastBefore(name, i - 1)
      BY <2>1 DEF AgentsInv, AwaitsWell
    <3>4. i \in Nat \ {0}
      BY <3>1
    <3>5. DOMAIN known = TaskNames /\ \A name \in TaskNames : known[name] = LastBefore(name, i)
      BY <3>3, <3>4, LastBeforeStep
    <3>6. p \notin cancelled
      BY <2>1 DEF Awaiting
    <3> HIDE DEF new, known
    <3> QED BY <2>1, <2>3, <3>1, <3>2, <3>5, <3>6, SubmitFacts
  <2> QED BY <2>2, <2>3
<1>4. ASSUME NEW p \in Pipelines, HandlerRaises(p) PROVE AgentsInv'
  BY <1>4, CloseFacts DEF HandlerRaises
<1>5. ASSUME NEW p \in Pipelines, CancelPipeline(p) PROVE AgentsInv'
  <2>1. /\ cancelled' = cancelled \union {p} /\ runner' = [runner EXCEPT ![p] = NoAgent]
        /\ UNCHANGED <<agents, statusOf, context, handed>>
    BY <1>5 DEF CancelPipeline
  <2>2. AgentTypes' /\ ~Awaiting(p)'
    <3>1. statusOf[p] # << >>
      BY <1>5 DEF CancelPipeline, Awaiting
    <3> QED BY <2>1, <3>1 DEF AgentsInv, AgentTypes, Awaiting
  <2>3. \A q \in Pipelines \ {p} : runner'[q] = runner[q]
    BY <2>1 DEF AgentsInv, AgentTypes
  <2>4. \A j \in 1 .. Len(statusOf'[p]) - 1 : statusOf'[p][j] = "completed"
    BY <2>1 DEF AgentsInv, StopsAtFailure
  <2> QED BY <2>1, <2>2, <2>3, <2>4, RestsFacts
<1>6. CASE UNCHANGED agentVars
  BY <1>6 DEF agentVars, AgentsInv, AgentTypes, StopsAtFailure, AwaitsWell, Awaiting
<1> QED BY <1>1, <1>2, <1>3, <1>4, <1>5, <1>6 DEF AgentsNext

\* The results that a pipeline hands on are those of its own last task of each name, and a task shown as running is awaited, by
\* an agent that can do it, for any task list and agents and however these come and go between two tasks.
THEOREM AgentsHonest == AgentsSpec => []PipelinesHonest
<1>1. AgentsInit => AgentsInv
  BY AgentAssumption DEF AgentsInit, AgentsInv, AgentTypes, StopsAtFailure, AwaitsWell, Awaiting
<1>2. AgentsInv => ContextIsForwarded
  <2> SUFFICES ASSUME AgentsInv, NEW p \in Pipelines, Awaiting(p)
               PROVE  /\ \A j \in 1 .. Len(statusOf[p]) - 1 : statusOf[p][j] = "completed"
                      /\ \A name \in DOMAIN handed[p] :
                           handed[p][name] = LastBefore(name, Len(statusOf[p]) - 1)
    BY DEF ContextIsForwarded, LastBefore, NamedBefore
  <2> QED BY DEF AgentsInv, StopsAtFailure, AwaitsWell
<1>3. AgentsInv => RunningIsAwaited
  <2> SUFFICES ASSUME AgentsInv, NEW p \in Pipelines, NEW i \in TaskSteps, i \in DOMAIN statusOf[p],
                      statusOf[p][i] = "running", p \notin cancelled
               PROVE  /\ i = Len(statusOf[p]) /\ runner[p] \in Handling
                      /\ TaskOf[i].cap \in CapsOf[runner[p]] \union {AnyCap}
    BY DEF RunningIsAwaited
  <2>1. statusOf[p] \in Seq(TaskStatuses)
    BY DEF AgentsInv, AgentTypes
  <2>2. i = Len(statusOf[p]) /\ statusOf[p] # << >>
    BY <2>1 DEF AgentsInv, StopsAtFailure
  <2> QED BY <2>2 DEF AgentsInv, AwaitsWell, Awaiting
<1> QED BY <1>1, <1>2, <1>3, AgentsInvStep, PTL DEF AgentsSpec, PipelinesHonest

-----------------------------------------------------------------------------
(* The container pool.                                                     *)

\* The inductive invariant of the pool.
PoolInv == PoolTypeOK /\ NotShared /\ PoolBounded

\* It holds of the empty pool.
LEMMA PoolInitially == PoolInit => PoolInv
BY PoolAssumption DEF PoolInit, PoolInv, PoolTypeOK, NotShared, PoolBounded, Listed

\* list.pop(i) leaves every other element, once, in its order.
LEMMA TakeFacts ==
  ASSUME available \in Seq(Containers), NEW i \in DOMAIN available
  PROVE  /\ Take(i) \in Seq(Containers)
         /\ Len(Take(i)) = Len(available) - 1
         /\ \A j \in 1 .. Len(available) - 1 :
              Take(i)[j] = IF j < i THEN available[j] ELSE available[j + 1]
<1> DEFINE n == Len(available)
           L == SubSeq(available, 1, i - 1)
           R == SubSeq(available, i + 1, n)
<1>1. n \in Nat /\ i \in 1 .. n /\ DOMAIN available = 1 .. n
      /\ \A j \in 1 .. n : available[j] \in Containers
  OBVIOUS
<1>2. L \in Seq(Containers) /\ Len(L) = i - 1 /\ \A j \in 1 .. i - 1 : L[j] = available[j]
  BY <1>1
<1>3. R \in Seq(Containers) /\ Len(R) = n - i /\ \A j \in 1 .. n - i : R[j] = available[i + j]
  <2>1. /\ R \in Seq(Containers)
        /\ Len(R) = IF i + 1 <= n THEN n - (i + 1) + 1 ELSE 0
        /\ \A j \in 1 .. n - (i + 1) + 1 : R[j] = available[(i + 1) + j - 1]
    <3>1. i + 1 \in Int /\ n \in Int /\ \A j \in i + 1 .. n : available[j] \in Containers
      BY <1>1
    <3> QED
      BY <3>1, SubSeqProperties
  <2>2. /\ n - (i + 1) + 1 = n - i
        /\ \A j \in 1 .. n - i : (i + 1) + j - 1 = i + j
        /\ ~ (i + 1 <= n) => n - i = 0
    BY <1>1
  <2> QED
    BY <2>1, <2>2
<1> HIDE DEF L, R
<1>4. Take(i) = L \o R
  BY DEF Take, L, R
<1>5. /\ L \o R \in Seq(Containers)
      /\ Len(L \o R) = Len(L) + Len(R)
      /\ \A j \in 1 .. Len(L) + Len(R) :
           (L \o R)[j] = IF j <= Len(L) THEN L[j] ELSE R[j - Len(L)]
  BY <1>2, <1>3, ConcatProperties
<1>6. ASSUME NEW j \in 1 .. n - 1
      PROVE  (L \o R)[j] = IF j < i THEN available[j] ELSE available[j + 1]
  <2>1. CASE j < i
    BY <1>1, <1>2, <1>3, <1>5, <2>1
  <2>2. CASE ~ (j < i)
    <3>a. i \in Int /\ n \in Int /\ j \in Int /\ 1 <= i /\ i <= n /\ i <= j /\ j <= n - 1
      BY <1>1, <2>2
    <3>b. Len(L) = i - 1 /\ Len(R) = n - i
      BY <1>2, <1>3
    <3>c. j - (i - 1) \in 1 .. n - i /\ i + (j - (i - 1)) = j + 1
      BY <3>a
    <3>d. ~ (j <= i - 1) /\ j \in 1 .. (i - 1) + (n - i)
      BY <3>a
    <3>1. j - Len(L) \in 1 .. n - i /\ i + (j - Len(L)) = j + 1 /\ ~ (j <= Len(L))
          /\ j \in 1 .. Len(L) + Len(R)
      BY <3>b, <3>c, <3>d
    <3>2. (L \o R)[j] = R[j - Len(L)]
      BY <1>5, <3>1
    <3> QED
      BY <1>3, <2>2, <3>1, <3>2
  <2> QED
    BY <2>1, <2>2
<1> QED
  BY <1>1, <1>2, <1>3, <1>4, <1>5, <1>6

\* A container that the pool does not list is appended.
LEMMA AppendFacts ==
  ASSUME available \in Seq(Containers), NEW c \in Containers, available' = Append(available, c),
         c \notin Listed,
         \A i, j \in DOMAIN available : i # j => available[i] # available[j]
  PROVE  /\ available' \in Seq(Containers)
         /\ Len(available') = Len(available) + 1
         /\ Listed' = Listed \union {c}
         /\ \A i, j \in DOMAIN available' : i # j => available'[i] # available'[j]
<1>1. DOMAIN available = 1 .. Len(available) /\ Len(available) \in Nat
  OBVIOUS
<1>2. available' \in Seq(Containers) /\ Len(available') = Len(available) + 1
      /\ DOMAIN available' = 1 .. Len(available) + 1
  OBVIOUS
<1>3. \A i \in 1 .. Len(available) + 1 :
        available'[i] = IF i = Len(available) + 1 THEN c ELSE available[i]
  BY <1>1
<1>4. Listed' = Listed \union {c}
  <2>1. ASSUME NEW x \in Listed \union {c} PROVE x \in Listed'
    <3>1. CASE x = c
      <4>1. Len(available) + 1 \in DOMAIN available' /\ available'[Len(available) + 1] = x
        BY <1>1, <1>2, <1>3, <3>1
      <4> QED
        BY <4>1 DEF Listed
    <3>2. CASE x \in Listed
      <4>1. PICK i \in 1 .. Len(available) : available[i] = x
        BY <1>1, <3>2 DEF Listed
      <4>2. i \in DOMAIN available' /\ available'[i] = x
        BY <1>1, <1>2, <1>3, <4>1
      <4> QED
        BY <4>2 DEF Listed
    <3> QED
      BY <3>1, <3>2
  <2>2. ASSUME NEW x \in Listed' PROVE x \in Listed \union {c}
    <3>1. PICK i \in 1 .. Len(available) + 1 : available'[i] = x
      BY <1>2 DEF Listed
    <3> QED
      BY <1>1, <1>3, <3>1 DEF Listed
  <2> QED
    BY <2>1, <2>2
<1>5. ASSUME NEW i \in DOMAIN available', NEW j \in DOMAIN available', i # j
      PROVE  available'[i] # available'[j]
  <2>1. \A k \in 1 .. Len(available) : available[k] # c
    BY <1>1 DEF Listed
  <2> QED
    BY <1>1, <1>2, <1>3, <1>5, <2>1
<1> QED
  BY <1>2, <1>4, <1>5

\* acquire takes a warm container.
LEMMA AcquireWarmKeeps ==
  ASSUME PoolInv, NEW u \in Users, NEW k \in Images, AcquireWarm(u, k)
  PROVE  PoolInv'
<1>1. PICK i \in DOMAIN available : available' = Take(i) /\ Hand(u, available[i])
  BY DEF AcquireWarm
<1> DEFINE c == available[i]
<1>2. available \in Seq(Containers) /\ DOMAIN available = 1 .. Len(available) /\ Len(available) \in Nat
      /\ c \in Containers /\ c \in Listed
  BY DEF PoolInv, PoolTypeOK, Listed
<1> DEFINE From(j) == IF j < i THEN j ELSE j + 1
<1>3. /\ available' \in Seq(Containers)
      /\ Len(available') = Len(available) - 1
      /\ DOMAIN available' = 1 .. Len(available) - 1
      /\ \A j \in DOMAIN available' :
           From(j) \in DOMAIN available \ {i} /\ available'[j] = available[From(j)]
  <2>1. /\ Take(i) \in Seq(Containers)
        /\ Len(Take(i)) = Len(available) - 1
        /\ \A j \in 1 .. Len(available) - 1 :
             Take(i)[j] = IF j < i THEN available[j] ELSE available[j + 1]
    BY <1>2, TakeFacts
  <2>2. DOMAIN Take(i) = 1 .. Len(available) - 1
    BY <2>1
  <2>3. \A j \in 1 .. Len(available) - 1 :
          From(j) \in DOMAIN available \ {i} /\ Take(i)[j] = available[From(j)]
    BY <1>2, <2>1
  <2> QED
    BY <1>1, <2>1, <2>2, <2>3
<1>4. \A j, l \in DOMAIN available : j # l => available[j] # available[l]
  BY DEF PoolInv, NotShared
<1>5. \A j, l \in DOMAIN available' : j # l => available'[j] # available'[l]
  <2>1. \A j, l \in DOMAIN available' : j # l => From(j) # From(l)
    BY <1>2, <1>3
  <2> HIDE DEF From
  <2> QED
    BY <1>3, <1>4, <2>1
<1>6. Listed' \subseteq Listed \ {c}
  <2> HIDE DEF From
  <2>1. ASSUME NEW j \in DOMAIN available' PROVE available'[j] \in Listed \ {c}
    BY <1>3, <1>4 DEF Listed
  <2> QED
    BY <2>1 DEF Listed
<1>7. inUse' = inUse \union {c} /\ held' = [held EXCEPT ![u] = c]
      /\ destroying' = destroying /\ warmups' = warmups
  BY <1>1 DEF Hand
<1>8. held[u] = NoContainer
  BY DEF AcquireWarm
<1> HIDE DEF c
<1>9. PoolTypeOK'
  BY <1>2, <1>3, <1>7 DEF PoolInv, PoolTypeOK
<1>10. c \notin inUse /\ c \notin destroying
  BY <1>2 DEF PoolInv, NotShared
<1>11. \A v \in Users : held[v] # c
  BY <1>2, <1>10, ContainerAssumption DEF PoolInv, NotShared
<1>12. NotShared'
  <2>1. \A v, w \in Users : v # w /\ held'[v] = held'[w] => held'[v] = NoContainer
    BY <1>7, <1>11 DEF PoolInv, PoolTypeOK, NotShared
  <2>2. \A v \in Users : held'[v] # NoContainer => held'[v] \in inUse'
    BY <1>7 DEF PoolInv, PoolTypeOK, NotShared
  <2>3. Listed' \intersect inUse' = {} /\ Listed' \intersect destroying' = {}
        /\ inUse' \intersect destroying' = {}
    BY <1>6, <1>7, <1>10 DEF PoolInv, NotShared
  <2> QED
    BY <1>5, <2>1, <2>2, <2>3 DEF NotShared
<1>13. PoolBounded'
  BY <1>2, <1>3, <1>7, PoolAssumption DEF PoolInv, PoolTypeOK, PoolBounded
<1> QED
  BY <1>9, <1>12, <1>13 DEF PoolInv

\* acquire creates a container.
LEMMA AcquireNewKeeps ==
  ASSUME PoolInv, NEW u \in Users, NEW k \in Images, AcquireNew(u, k)
  PROVE  PoolInv'
<1>1. PICK c \in Unknown : Hand(u, c)
  BY DEF AcquireNew
<1>2. inUse' = inUse \union {c} /\ held' = [held EXCEPT ![u] = c]
      /\ destroying' = destroying /\ warmups' = warmups /\ available' = available
  BY <1>1 DEF Hand, AcquireNew
<1>3. c \in Containers /\ c \notin Listed /\ c \notin inUse /\ c \notin destroying
  BY DEF Unknown
<1>4. Listed' = Listed
  BY <1>2 DEF Listed
<1>5. \A v \in Users : held[v] # c
  BY <1>3, ContainerAssumption DEF PoolInv, NotShared
<1>6. PoolTypeOK' /\ PoolBounded'
  BY <1>2, <1>3 DEF PoolInv, PoolTypeOK, PoolBounded
<1>7. NotShared'
  <2>1. \A v, w \in Users : v # w /\ held'[v] = held'[w] => held'[v] = NoContainer
    BY <1>2, <1>5 DEF PoolInv, PoolTypeOK, NotShared
  <2>2. \A v \in Users : held'[v] # NoContainer => held'[v] \in inUse'
    BY <1>2 DEF PoolInv, PoolTypeOK, NotShared
  <2>3. Listed' \intersect inUse' = {} /\ Listed' \intersect destroying' = {}
        /\ inUse' \intersect destroying' = {}
    BY <1>2, <1>3, <1>4 DEF PoolInv, NotShared
  <2>4. \A i, j \in DOMAIN available' : i # j => available'[i] # available'[j]
    BY <1>2 DEF PoolInv, NotShared
  <2> QED
    BY <2>1, <2>2, <2>3, <2>4 DEF NotShared
<1> QED
  BY <1>6, <1>7 DEF PoolInv

\* release keeps the container or has it destroyed.
LEMMA ReleaseKeeps ==
  ASSUME PoolInv, NEW u \in Users, Release(u)
  PROVE  PoolInv'
<1> DEFINE c == held[u]
<1>1. /\ inUse' = inUse \ {c} /\ held' = [held EXCEPT ![u] = NoContainer] /\ warmups' = warmups
      /\ c # NoContainer
  BY DEF Release
<1>2. c \in Containers /\ c \in inUse /\ c \notin Listed /\ c \notin destroying
      /\ \A v \in Users : v # u => held[v] # c
  BY <1>1 DEF PoolInv, PoolTypeOK, NotShared
<1>3. /\ \A v, w \in Users : v # w /\ held'[v] = held'[w] => held'[v] = NoContainer
      /\ \A v \in Users : held'[v] # NoContainer => held'[v] \in inUse'
      /\ held' \in [Users -> Containers \union {NoContainer}]
  BY <1>1, <1>2 DEF PoolInv, PoolTypeOK, NotShared
<1>4. available \in Seq(Containers) /\ Len(available) \in Nat /\ warmups \in 0 .. MaxWarmups
      /\ \A i, j \in DOMAIN available : i # j => available[i] # available[j]
  BY DEF PoolInv, PoolTypeOK, NotShared
<1>5. CASE Room
  <2>1. available' = Append(available, c) /\ destroying' = destroying
    BY <1>5 DEF Release
  <2> HIDE DEF c
  <2>2. /\ available' \in Seq(Containers)
        /\ Len(available') = Len(available) + 1
        /\ Listed' = Listed \union {c}
        /\ \A i, j \in DOMAIN available' : i # j => available'[i] # available'[j]
    BY <1>2, <1>4, <2>1, AppendFacts
  <2>3. PoolTypeOK'
    BY <1>1, <1>3, <2>1, <2>2 DEF PoolInv, PoolTypeOK
  <2>4. NotShared'
    BY <1>1, <1>2, <1>3, <2>1, <2>2 DEF PoolInv, NotShared
  <2>5. PoolBounded'
    BY <1>1, <1>4, <1>5, <2>2, PoolAssumption DEF Room, PoolBounded
  <2> QED
    BY <2>3, <2>4, <2>5 DEF PoolInv
<1>6. CASE ~Room
  <2>1. available' = available /\ destroying' = destroying \union {c}
    BY <1>6 DEF Release
  <2>2. Listed' = Listed
    BY <2>1 DEF Listed
  <2> HIDE DEF c
  <2>3. PoolTypeOK' /\ PoolBounded'
    BY <1>1, <1>2, <1>3, <2>1 DEF PoolInv, PoolTypeOK, PoolBounded
  <2>4. NotShared'
    BY <1>1, <1>2, <1>3, <1>4, <2>1, <2>2 DEF PoolInv, NotShared
  <2> QED
    BY <2>3, <2>4 DEF PoolInv
<1> QED
  BY <1>5, <1>6

\* warmup adds a container without looking at the size.
LEMMA WarmupKeeps ==
  ASSUME PoolInv, Warmup
  PROVE  PoolInv'
<1>1. warmups' = warmups + 1 /\ warmups < MaxWarmups /\ inUse' = inUse /\ destroying' = destroying /\ held' = held
  BY DEF Warmup
<1>2. available \in Seq(Containers) /\ Len(available) \in Nat /\ warmups \in 0 .. MaxWarmups
      /\ \A i, j \in DOMAIN available : i # j => available[i] # available[j]
  BY DEF PoolInv, PoolTypeOK, NotShared
<1>3. CASE available' = available
  <2>1. Listed' = Listed
    BY <1>3 DEF Listed
  <2>2. PoolTypeOK' /\ PoolBounded'
    BY <1>1, <1>2, <1>3, PoolAssumption DEF PoolInv, PoolTypeOK, PoolBounded
  <2>3. NotShared'
    BY <1>1, <1>3, <2>1 DEF PoolInv, NotShared
  <2> QED
    BY <2>2, <2>3 DEF PoolInv
<1>4. CASE \E c \in Unknown : available' = Append(available, c)
  <2>1. PICK c \in Unknown : available' = Append(available, c)
    BY <1>4
  <2>2. c \in Containers /\ c \notin Listed /\ c \notin inUse /\ c \notin destroying
    BY DEF Unknown
  <2>3. /\ available' \in Seq(Containers)
        /\ Len(available') = Len(available) + 1
        /\ Listed' = Listed \union {c}
        /\ \A i, j \in DOMAIN available' : i # j => available'[i] # available'[j]
    BY <1>2, <2>1, <2>2, AppendFacts
  <2>4. PoolTypeOK' /\ PoolBounded'
    BY <1>1, <1>2, <2>3, PoolAssumption DEF PoolInv, PoolTypeOK, PoolBounded
  <2>5. NotShared'
    BY <1>1, <2>2, <2>3 DEF PoolInv, NotShared
  <2> QED
    BY <2>4, <2>5 DEF PoolInv
<1> QED
  BY <1>3, <1>4 DEF Warmup

\* Every step keeps it.
LEMMA PoolStep == PoolInv /\ [PoolNext]_poolVars => PoolInv'
<1> SUFFICES ASSUME PoolInv, [PoolNext]_poolVars PROVE PoolInv'
  OBVIOUS
<1>1. ASSUME NEW c \in Containers, Destroyed(c) PROVE PoolInv'
  <2>1. destroying' = destroying \ {c} /\ UNCHANGED <<available, inUse, held, warmups>> /\ Listed' = Listed
    BY <1>1 DEF Destroyed, Listed
  <2> QED
    BY <2>1 DEF PoolInv, PoolTypeOK, NotShared, PoolBounded
<1>2. CASE UNCHANGED poolVars
  BY <1>2 DEF poolVars, PoolInv, PoolTypeOK, NotShared, PoolBounded, Listed
<1> QED
  BY <1>1, <1>2, AcquireWarmKeeps, AcquireNewKeeps, ReleaseKeeps, WarmupKeeps DEF PoolNext

\* It holds in every reachable state.
LEMMA PoolInductive == PoolSpec => []PoolInv
BY PoolInitially, PoolStep, PTL DEF PoolSpec

\* For any number of users and containers no container is held twice, listed twice, or
\* handed out while it is listed or being destroyed.
THEOREM PoolNotShared == PoolSpec => []NotShared
<1>1. PoolInv => NotShared
  BY DEF PoolInv
<1> QED
  BY <1>1, PoolInductive, PTL

\* For any pool size releases never fill the pool beyond it; only warmup does.
THEOREM PoolSizeBounded == PoolSpec => []PoolBounded
<1>1. PoolInv => PoolBounded
  BY DEF PoolInv
<1> QED
  BY <1>1, PoolInductive, PTL

\* Together: whatever the users await and in whichever order they resume, the pool hands a
\* container to one of them at a time and keeps no more than it may.
THEOREM PoolIsSafe == PoolSpec => []PoolSafe
BY PoolNotShared, PoolSizeBounded, PTL DEF PoolSafe
=============================================================================
