--------------------------- MODULE ReleasesProofs ---------------------------
(***************************************************************************)
(* Proofs about Releases, for any number of deployments of a project.      *)
(***************************************************************************)
EXTENDS Releases, TLAPS

(* The recipes written out. *)
LEMMA StaticSteps ==
  LET x == StaticSite.steps IN
  /\ Len(x) = 10
  /\ x[1] = "prepare" /\ x[2] = "clone" /\ x[3] = "env" /\ x[4] = "build"
  /\ x[5] = "conf" /\ x[6] = "include" /\ x[7] = "reload" /\ x[8] = "verify"
  /\ x[9] = "link" /\ x[10] = "prune"
BY DEF StaticSite, CommonGitPrep, FinalizeRelease

LEMMA ServedSteps ==
  LET x == ServiceSteps IN
  /\ Len(x) = 10
  /\ x[1] = "prepare" /\ x[2] = "clone" /\ x[3] = "env" /\ x[4] = "build"
  /\ x[5] = "service" /\ x[6] = "conf" /\ x[7] = "reload" /\ x[8] = "verify"
  /\ x[9] = "link" /\ x[10] = "prune"
BY DEF ServiceSteps, CommonGitPrep, FinalizeRelease

LEMMA LaravelSteps ==
  LET x == LaravelSite.steps IN
  /\ Len(x) = 9
  /\ x[1] = "prepare" /\ x[2] = "clone" /\ x[3] = "env" /\ x[4] = "build"
  /\ x[5] = "conf" /\ x[6] = "reload" /\ x[7] = "verify" /\ x[8] = "link"
  /\ x[9] = "prune"
BY DEF LaravelSite, CommonGitPrep, FinalizeRelease

LEMMA UniversalSteps ==
  LET x == Universal.steps IN
  /\ Len(x) = 8
  /\ x[1] = "prepare" /\ x[2] = "clone" /\ x[3] = "env" /\ x[4] = "build"
  /\ x[5] = "conf" /\ x[6] = "reload" /\ x[7] = "link" /\ x[8] = "prune"
BY DEF Universal, CommonGitPrep, FinalizeRelease

(* Where the steps stand on which the order of the others rests; a recipe  *)
(* without a service has none at 0.                                        *)
ServiceAt(k) == IF k \in {"static", "laravel", "unknown"} THEN 0 ELSE 5
ConfAt(k) == IF k \in {"static", "laravel", "unknown"} THEN 5 ELSE 6
ReloadAt(k) == IF k \in {"laravel", "unknown"} THEN 6 ELSE 7
Length(k) == IF k = "laravel" THEN 9 ELSE IF k = "unknown" THEN 8 ELSE 10

Layout(k) ==
    LET x == Recipe[k].steps IN
    /\ Len(x) = Length(k)
    /\ \A i \in 1..Length(k) :
           /\ x[i] = "clone" => i = 2
           /\ x[i] \in {"env", "build"} => i \in 3..4
           /\ x[i] = "service" => i = ServiceAt(k)
           /\ x[i] = "conf" => i = ConfAt(k)
           /\ x[i] = "reload" => i = ReloadAt(k)
           /\ x[i] = "link" => i = Length(k) - 1
           /\ x[i] = "prune" => i = Length(k)
           /\ i = 2 => x[i] = "clone"
           /\ i = 4 => x[i] = "build"
           /\ i = ServiceAt(k) => x[i] = "service"
           /\ i = ConfAt(k) => x[i] = "conf"
           /\ i = ReloadAt(k) => x[i] = "reload"
           /\ i = Length(k) - 1 => x[i] = "link"
           /\ i = Length(k) => x[i] = "prune"
    /\ Recipe[k].routes \subseteq IF ServiceAt(k) = 0 THEN {"files"} ELSE {"proxy", "both"}

LEMMA StackNames ==
  DOMAIN Recipe = {"static", "node", "python", "spring_boot", "dotnet", "laravel", "unknown"}
BY DEF Recipe

LEMMA RecipeLayout == \A k \in DOMAIN Recipe : Layout(k)
<1> SUFFICES ASSUME NEW k \in DOMAIN Recipe PROVE Layout(k)
  OBVIOUS
<1>1. ASSUME NEW x, NEW n \in 8..10, Len(x) = n,
             Recipe[k].steps = x, n = Length(k),
             \A i \in 1..n : \/ i = 1 /\ x[i] = "prepare"
                             \/ i = 2 /\ x[i] = "clone"
                             \/ i = 3 /\ x[i] = "env"
                             \/ i = 4 /\ x[i] = "build"
                             \/ i = ServiceAt(k) /\ i > 4 /\ i < n - 1 /\ x[i] = "service"
                             \/ i = ConfAt(k) /\ i > 4 /\ i < n - 1 /\ x[i] = "conf"
                             \/ i = ReloadAt(k) /\ i > 4 /\ i < n - 1 /\ x[i] = "reload"
                             \/ /\ i > 4 /\ i < n - 1 /\ x[i] \in {"include", "verify"}
                                /\ i \notin {ServiceAt(k), ConfAt(k), ReloadAt(k)}
                             \/ i = n - 1 /\ i > 6 /\ x[i] = "link"
                             \/ i = n /\ i > 6 /\ x[i] = "prune",
             ConfAt(k) < n - 1, ReloadAt(k) < n - 1, ServiceAt(k) # ConfAt(k),
             ConfAt(k) # ReloadAt(k), ServiceAt(k) # ReloadAt(k),
             ServiceAt(k) \in {0, 5}, ConfAt(k) \in 5..6, ReloadAt(k) \in 6..7,
             Recipe[k].routes \subseteq IF ServiceAt(k) = 0 THEN {"files"} ELSE {"proxy", "both"}
      PROVE  Layout(k)
  BY <1>1 DEF Layout
<1>2. CASE k = "static"
  <2>1. Recipe[k] = StaticSite
    BY <1>2 DEF Recipe
  <2>2. ServiceAt(k) = 0 /\ ConfAt(k) = 5 /\ ReloadAt(k) = 7 /\ Length(k) = 10
    BY <1>2 DEF ServiceAt, ConfAt, ReloadAt, Length
  <2>3. StaticSite.routes = {"files"}
    BY DEF StaticSite
  <2> QED
    BY <1>1, <2>1, <2>2, <2>3, StaticSteps
<1>3. CASE k = "laravel"
  <2>1. Recipe[k] = LaravelSite
    BY <1>3 DEF Recipe
  <2>2. ServiceAt(k) = 0 /\ ConfAt(k) = 5 /\ ReloadAt(k) = 6 /\ Length(k) = 9
    BY <1>3 DEF ServiceAt, ConfAt, ReloadAt, Length
  <2>3. LaravelSite.routes = {"files"}
    BY DEF LaravelSite
  <2> QED
    BY <1>1, <2>1, <2>2, <2>3, LaravelSteps
<1>4. CASE k = "unknown"
  <2>1. Recipe[k] = Universal
    BY <1>4 DEF Recipe
  <2>2. ServiceAt(k) = 0 /\ ConfAt(k) = 5 /\ ReloadAt(k) = 6 /\ Length(k) = 8
    BY <1>4 DEF ServiceAt, ConfAt, ReloadAt, Length
  <2>3. Universal.routes = {"files"}
    BY DEF Universal
  <2> QED
    BY <1>1, <2>1, <2>2, <2>3, UniversalSteps
<1>5. CASE k \in {"node", "python", "spring_boot", "dotnet"}
  <2>1. Recipe[k].steps = ServiceSteps /\ Recipe[k].routes \subseteq {"proxy", "both"}
    BY <1>5 DEF Recipe, NodeSite, PythonSite, SpringBootSite, DotNetSite, Service
  <2>2. ServiceAt(k) = 5 /\ ConfAt(k) = 6 /\ ReloadAt(k) = 7 /\ Length(k) = 10
    BY <1>5 DEF ServiceAt, ConfAt, ReloadAt, Length
  <2> QED
    BY <1>1, <2>1, <2>2, ServedSteps
<1> QED
  BY <1>2, <1>3, <1>4, <1>5, StackNames

(* What is used below of the positions. *)
LEMMA Positions ==
  ASSUME NEW k
  PROVE  /\ Length(k) \in 8..10
         /\ ServiceAt(k) \in {0, 5}
         /\ ConfAt(k) \in 5..6 /\ ServiceAt(k) < ConfAt(k)
         /\ ReloadAt(k) \in 6..7 /\ ConfAt(k) < ReloadAt(k) /\ ReloadAt(k) < Length(k) - 1
BY DEF Length, ServiceAt, ConfAt, ReloadAt

----------------------------------------------------------------------------
(* Scripts: the step is one of the recipe's while the script works, and    *)
(* beyond the last when it has finished; success is that of a script that  *)
(* has finished, or has lost its session; before a clean-up begins nothing *)
(* is known of one.                                                        *)
ScriptsInv ==
    /\ ReleasesTypeOK
    /\ \A s \in Script :
           /\ work[s] = "none" <=> pc[s] = 0
           /\ work[s] \in {"working", "stopped"} => pc[s] \in 1..Length(stack[s])
           /\ work[s] = "finished" => pc[s] = Length(stack[s]) + 1
           /\ verdict[s] = "ok" => work[s] = "finished" \/ s \in lost
           /\ verdict[s] # "none" => pc[s] > 0
    /\ ~disturbed => erase = "idle"

LEMMA ScriptsStartWell == ReleasesInit => ScriptsInv
<1> SUFFICES ASSUME ReleasesInit PROVE ScriptsInv
  OBVIOUS
<1>1. "unknown" \in DOMAIN Recipe
  BY StackNames
<1>2. stack \in [Script -> DOMAIN Recipe] /\ pc \in [Script -> 0..11]
  BY <1>1 DEF ReleasesInit
<1>3. older \in [Script -> SUBSET Script]
  BY DEF ReleasesInit
<1>4. ReleasesTypeOK
  BY <1>2, <1>3 DEF ReleasesInit, ReleasesTypeOK
<1>5. \A s \in Script : work[s] = "none" /\ pc[s] = 0 /\ verdict[s] = "none"
  BY DEF ReleasesInit
<1>6. erase = "idle"
  BY DEF ReleasesInit
<1> QED
  BY <1>4, <1>5, <1>6 DEF ScriptsInv

(* The actions by what they do to the scripts. *)
Steps(s) == \/ Prepare(s) \/ Clone(s) \/ LinkEnv(s) \/ Build(s) \/ ConfigureService(s)
            \/ WriteConf(s) \/ IncludeOrVerify(s) \/ Reload(s) \/ Link(s) \/ Prune(s)

Apart == \/ BeginErase \/ EraseService \/ EraseConf \/ EraseFiles \/ EraseCut
         \/ AppWrites \/ OtherReload

LEMMA ReleasesCases ==
  ASSUME ReleasesNext
  PROVE  \/ \E s \in Script, k \in Stack : Send(s, k)
         \/ \E s \in Script : Steps(s) \/ Stops(s) \/ SessionEnds(s) \/ SessionLost(s)
         \/ Apart
BY DEF ReleasesNext, ScriptNext, Steps, Apart

(* A step is the one the counter shows, and moves the counter on. *)
LEMMA StepAdvances ==
  ASSUME ScriptsInv, NEW s \in Script, Steps(s)
  PROVE  /\ work[s] = "working"
         /\ pc[s] \in 1..Length(stack[s])
         /\ pc' = [pc EXCEPT ![s] = pc[s] + 1]
         /\ work' = IF pc[s] = Length(stack[s]) THEN [work EXCEPT ![s] = "finished"] ELSE work
         /\ UNCHANGED <<stack, verdict, lost, last, before, erase, met, stuck, disturbed>>
         /\ stack[s] \in DOMAIN Recipe
         /\ Layout(stack[s])
<1>1. work[s] = "working" /\ Advance(s)
  BY DEF Steps, Prepare, Clone, LinkEnv, Build, ConfigureService, WriteConf, IncludeOrVerify,
         Reload, Link, Prune, At, Working
<1>2. stack[s] \in DOMAIN Recipe /\ Layout(stack[s])
  BY RecipeLayout DEF ScriptsInv, ReleasesTypeOK
<1>3. Len(Recipe[stack[s]].steps) = Length(stack[s])
  BY <1>2 DEF Layout
<1>4. pc[s] \in 1..Length(stack[s])
  BY <1>1 DEF ScriptsInv
<1>5. /\ pc' = [pc EXCEPT ![s] = pc[s] + 1]
      /\ work' = IF pc[s] = Length(stack[s]) THEN [work EXCEPT ![s] = "finished"] ELSE work
  BY <1>1, <1>3 DEF Advance
<1>6. UNCHANGED <<stack, verdict, lost, last, before, erase, met, stuck, disturbed>>
  BY <1>1 DEF Advance, cleanupVars
<1> QED
  BY <1>1, <1>2, <1>4, <1>5, <1>6

LEMMA StepTypes ==
  ASSUME ScriptsInv, NEW s \in Script, Steps(s)
  PROVE  /\ root' \in BOOLEAN /\ dirs' \in SUBSET Script
         /\ older' \in [Script -> SUBSET Script]
         /\ current' \in Script \cup {NoScript}
         /\ unbuilt' \in SUBSET Script
         /\ service' \in Script \cup {NoScript}
         /\ conf' \in Route \cup {NoRoute}
         /\ route' \in Route \cup {NoRoute}
<1>1. /\ root \in BOOLEAN /\ dirs \in SUBSET Script
      /\ older \in [Script -> SUBSET Script]
      /\ current \in Script \cup {NoScript}
      /\ unbuilt \in SUBSET Script
      /\ service \in Script \cup {NoScript}
      /\ conf \in Route \cup {NoRoute}
      /\ route \in Route \cup {NoRoute}
  BY DEF ScriptsInv, ReleasesTypeOK
<1>2. Touched(s) \in [Script -> SUBSET Script]
  BY <1>1 DEF Touched
<1>3. CASE Prepare(s) \/ IncludeOrVerify(s)
  BY <1>1, <1>3 DEF Prepare, IncludeOrVerify, serverVars
<1>4. CASE Clone(s) \/ LinkEnv(s) \/ Build(s)
  BY <1>1, <1>2, <1>4 DEF Clone, LinkEnv, Build
<1>5. CASE ConfigureService(s) \/ Reload(s) \/ Link(s)
  BY <1>1, <1>5 DEF ConfigureService, Reload, Link, diskVars
<1>6. CASE WriteConf(s)
  <2>1. Recipe[stack[s]].routes \subseteq {"files", "proxy", "both"}
    BY StepAdvances DEF Layout
  <2>2. PICK f \in Recipe[stack[s]].routes : conf' = [release |-> s, form |-> f]
    BY <1>6 DEF WriteConf
  <2>3. conf' \in Route
    BY <2>1, <2>2 DEF Route
  <2> QED
    BY <1>1, <1>6, <2>3 DEF WriteConf, diskVars
<1>7. CASE Prune(s)
  <2>1. dirs' \in SUBSET Script
    BY <1>1, <1>7 DEF Prune, Kept
  <2>2. older' = [d \in Script |-> older[d] \cap dirs']
    BY <1>7 DEF Prune
  <2> QED
    BY <1>1, <1>7, <2>1, <2>2 DEF Prune
<1> QED
  BY <1>3, <1>4, <1>5, <1>6, <1>7 DEF Steps

LEMMA ScriptsStep ==
  ASSUME ScriptsInv, [ReleasesNext]_releaseVars
  PROVE  ScriptsInv'
<1>1. CASE UNCHANGED releaseVars
  BY <1>1 DEF releaseVars, ScriptsInv, ReleasesTypeOK
<1>2. ASSUME NEW s \in Script, NEW k \in Stack, Send(s, k) PROVE ScriptsInv'
  <2>1. /\ stack' = [stack EXCEPT ![s] = k] /\ pc' = [pc EXCEPT ![s] = 1]
        /\ work' = [work EXCEPT ![s] = "working"] /\ last' = s
        /\ pc[s] = 0 /\ verdict[s] = "none"
        /\ before' = [before EXCEPT ![s] = {t \in Script : Sent(t)}]
        /\ met' \in BOOLEAN /\ disturbed' \in BOOLEAN /\ stuck' \in {{}, stuck}
        /\ ~disturbed' => ~disturbed
        /\ UNCHANGED <<verdict, lost, erase, root, dirs, older, current, unbuilt, service,
                       conf, route>>
    BY <1>2 DEF Send, Sent, serverVars, ScriptsInv, ReleasesTypeOK
  <2>2. k \in DOMAIN Recipe /\ 1 \in 1..Length(k)
    BY StackAssumption, Positions
  <2>3. ReleasesTypeOK'
    <3>1. stuck' \in SUBSET {"service", "conf", "files"}
      BY <2>1 DEF ScriptsInv, ReleasesTypeOK
    <3>2. /\ stack' \in [Script -> DOMAIN Recipe] /\ pc' \in [Script -> 0..11]
          /\ work' \in [Script -> {"none", "working", "finished", "stopped"}]
          /\ before' \in [Script -> SUBSET Script]
      BY <2>1, <2>2 DEF ScriptsInv, ReleasesTypeOK
    <3> QED
      BY <2>1, <3>1, <3>2 DEF ScriptsInv, ReleasesTypeOK
  <2>4. /\ work'[s] = "working" /\ pc'[s] = 1 /\ stack'[s] = k /\ verdict'[s] = "none"
        /\ \A t \in Script : t # s => /\ work'[t] = work[t] /\ pc'[t] = pc[t]
                                    /\ stack'[t] = stack[t]
    BY <2>1 DEF ScriptsInv, ReleasesTypeOK
  <2> QED
    BY <2>1, <2>2, <2>3, <2>4 DEF ScriptsInv
<1>3. ASSUME NEW s \in Script, Steps(s) PROVE ScriptsInv'
  <2>1. /\ pc' = [pc EXCEPT ![s] = pc[s] + 1]
        /\ pc[s] \in 1..Length(stack[s])
        /\ work' = IF pc[s] = Length(stack[s]) THEN [work EXCEPT ![s] = "finished"] ELSE work
        /\ work[s] = "working"
        /\ UNCHANGED <<stack, verdict, lost, last, before, erase, met, stuck, disturbed>>
        /\ Length(stack[s]) \in 8..10
    BY <1>3, StepAdvances, Positions
  <2>2. ReleasesTypeOK'
    <3>1. pc' \in [Script -> 0..11]
      BY <2>1 DEF ScriptsInv, ReleasesTypeOK
    <3>2. work' \in [Script -> {"none", "working", "finished", "stopped"}]
      BY <2>1 DEF ScriptsInv, ReleasesTypeOK
    <3> QED
      BY <1>3, <2>1, <3>1, <3>2, StepTypes DEF ScriptsInv, ReleasesTypeOK
  <2>3. ASSUME NEW t \in Script, t # s
        PROVE  work'[t] = work[t] /\ pc'[t] = pc[t] /\ verdict'[t] = verdict[t]
    BY <2>1, <2>3 DEF ScriptsInv, ReleasesTypeOK
  <2>4. /\ pc'[s] = pc[s] + 1 /\ verdict'[s] = verdict[s] /\ lost' = lost
        /\ work'[s] = IF pc[s] = Length(stack[s]) THEN "finished" ELSE "working"
    BY <2>1 DEF ScriptsInv, ReleasesTypeOK
  <2> QED
    BY <2>1, <2>2, <2>3, <2>4 DEF ScriptsInv
<1>4. ASSUME NEW s \in Script, Stops(s) PROVE ScriptsInv'
  BY <1>4 DEF Stops, Working, serverVars, cleanupVars, ScriptsInv, ReleasesTypeOK
<1>5. ASSUME NEW s \in Script, SessionEnds(s) PROVE ScriptsInv'
  <2>1. /\ pc[s] > 0 /\ work[s] # "working"
        /\ verdict' = [verdict EXCEPT ![s] = IF work[s] = "finished" THEN "ok" ELSE "failed"]
        /\ UNCHANGED <<stack, pc, work, lost, last, before, serverVars, cleanupVars, disturbed>>
    BY <1>5 DEF SessionEnds, InSession, Sent, Working
  <2>2. ReleasesTypeOK'
    BY <2>1 DEF serverVars, cleanupVars, ScriptsInv, ReleasesTypeOK
  <2>3. \A t \in Script : t # s => verdict'[t] = verdict[t]
    BY <2>1 DEF ScriptsInv, ReleasesTypeOK
  <2>4. verdict'[s] = "ok" => work[s] = "finished"
    BY <2>1 DEF ScriptsInv, ReleasesTypeOK
  <2> QED
    BY <2>1, <2>2, <2>3, <2>4 DEF ScriptsInv, cleanupVars
<1>6. ASSUME NEW s \in Script, SessionLost(s) PROVE ScriptsInv'
  <2>1. PICK v \in {"failed", "ok"} : verdict' = [verdict EXCEPT ![s] = v]
    BY <1>6 DEF SessionLost
  <2>2. /\ pc[s] > 0 /\ lost' = lost \cup {s}
        /\ UNCHANGED <<stack, pc, work, last, before, serverVars, cleanupVars, disturbed>>
    BY <1>6 DEF SessionLost, InSession, Sent
  <2>3. ReleasesTypeOK'
    BY <2>1, <2>2 DEF serverVars, cleanupVars, ScriptsInv, ReleasesTypeOK
  <2>4. \A t \in Script : t # s => verdict'[t] = verdict[t]
    BY <2>1 DEF ScriptsInv, ReleasesTypeOK
  <2> QED
    BY <2>2, <2>3, <2>4 DEF ScriptsInv, cleanupVars
<1>7. CASE Apart
  <2>1. UNCHANGED <<stack, pc, work, verdict, lost, last, before>>
    BY <1>7 DEF Apart, BeginErase, EraseService, EraseConf, EraseFiles, EraseCut,
                AppWrites, OtherReload, scriptVars
  <2>2. SUFFICES ReleasesTypeOK' /\ (~disturbed' => erase' = "idle")
    BY <2>1 DEF ScriptsInv
  <2>3. /\ ReleasesTypeOK /\ (~disturbed => erase = "idle")
        /\ stuck \in SUBSET {"service", "conf", "files"}
    BY DEF ScriptsInv, ReleasesTypeOK
  <2>4. CASE BeginErase \/ EraseCut
    BY <2>1, <2>3, <2>4 DEF BeginErase, EraseCut, serverVars, ReleasesTypeOK
  <2>5. CASE EraseService \/ EraseConf \/ EraseFiles
    <3>1. stuck' \in SUBSET {"service", "conf", "files"}
      BY <2>3, <2>5 DEF EraseService, EraseConf, EraseFiles, Fails
    <3>2. erase # "idle" /\ erase' \in {"conf", "files", "done"} /\ UNCHANGED <<met, disturbed>>
      BY <2>5 DEF EraseService, EraseConf, EraseFiles
    <3>3. CASE EraseService \/ EraseConf
      BY <2>1, <2>3, <3>1, <3>2, <3>3 DEF EraseService, EraseConf, diskVars, ReleasesTypeOK
    <3>4. CASE EraseFiles
      <4>1. /\ root' \in BOOLEAN /\ dirs' \in SUBSET Script
            /\ current' \in Script \cup {NoScript} /\ older' \in [Script -> SUBSET Script]
        BY <2>3, <3>4 DEF EraseFiles, ReleasesTypeOK
      <4> QED
        BY <2>1, <2>3, <3>1, <3>2, <3>4, <4>1 DEF EraseFiles, ReleasesTypeOK
    <3> QED
      BY <2>5, <3>3, <3>4
  <2>6. CASE AppWrites
    BY <2>1, <2>3, <2>6 DEF AppWrites, cleanupVars, Touched, ReleasesTypeOK
  <2>7. CASE OtherReload
    BY <2>1, <2>3, <2>7 DEF OtherReload, cleanupVars, diskVars, ReleasesTypeOK
  <2> QED
    BY <1>7, <2>4, <2>5, <2>6, <2>7 DEF Apart
<1> QED
  BY <1>1, <1>2, <1>3, <1>4, <1>5, <1>6, <1>7, ReleasesCases

----------------------------------------------------------------------------
(* Touching a release, new or old, leaves an order with it at the top.     *)
LEMMA TouchedOrders ==
  ASSUME OlderIsAnOrder, NEW s \in Script, dirs' = dirs \cup {s}, older' = Touched(s),
         dirs \in SUBSET Script
  PROVE  OlderIsAnOrder' /\ Newest(s)'
<1>1. /\ older'[s] = dirs \ {s}
      /\ \A d \in dirs : d # s => older'[d] = older[d] \ {s}
  BY DEF Touched
<1>2. Newest(s)'
  BY <1>1 DEF Newest
<1>3. \A d, e \in dirs' : d # e => (d \in older'[e] <=> e \notin older'[d])
  BY <1>1 DEF OlderIsAnOrder, InOrder
<1>4. \A d \in dirs' : older'[d] \subseteq dirs' \ {d}
  BY <1>1 DEF OlderIsAnOrder, InOrder
<1>5. \A d, e \in dirs' : d \in older'[e] => older'[d] \subseteq older'[e]
  <2> SUFFICES ASSUME NEW d \in dirs', NEW e \in dirs', d \in older'[e]
               PROVE  older'[d] \subseteq older'[e]
    OBVIOUS
  <2>1. d # s /\ d \in dirs
    <3>1. s \notin older'[e]
      BY <1>1
    <3> QED
      BY <3>1
  <2>2. CASE e = s
    BY <1>1, <2>1, <2>2 DEF OlderIsAnOrder, InOrder
  <2>3. CASE e # s
    BY <1>1, <2>1, <2>3 DEF OlderIsAnOrder, InOrder
  <2> QED
    BY <2>2, <2>3
<1> QED
  BY <1>2, <1>3, <1>4, <1>5 DEF OlderIsAnOrder, InOrder, Newest

(* In an order there is one release at the top. *)
LEMMA OneIsNewest ==
  ASSUME OlderIsAnOrder, NEW d \in Kept, NEW e \in Kept
  PROVE  d = e
BY DEF OlderIsAnOrder, InOrder, Kept, Newest

LEMMA PrunedOrders ==
  ASSUME OlderIsAnOrder, dirs \in SUBSET Script, dirs' = Kept,
         older' = [d \in Script |-> older[d] \cap dirs']
  PROVE  OlderIsAnOrder'
<1>1. dirs' \subseteq dirs /\ \A d, e \in dirs' : d = e
  BY OneIsNewest DEF Kept
<1>2. \A d \in dirs' : older'[d] = older[d] \cap dirs'
  BY <1>1
<1>3. \A d \in dirs' : older'[d] = {} /\ dirs' = {d}
  BY <1>1, <1>2 DEF OlderIsAnOrder, InOrder
<1>4. \A d \in dirs' : dirs' \ {d} \subseteq older'[d]
  BY <1>3
<1> QED
  BY <1>1, <1>3, <1>4 DEF OlderIsAnOrder, InOrder

OrderInv == ScriptsInv /\ OlderIsAnOrder

LEMMA OrderStartsWell == ReleasesInit => OrderInv
<1> SUFFICES ASSUME ReleasesInit PROVE OrderInv
  OBVIOUS
<1>1. dirs = {}
  BY DEF ReleasesInit
<1> QED
  BY <1>1, ScriptsStartWell DEF OrderInv, OlderIsAnOrder, InOrder

LEMMA OrderStep == OrderInv /\ [ReleasesNext]_releaseVars => OrderInv'
<1> SUFFICES ASSUME OrderInv, [ReleasesNext]_releaseVars PROVE OrderInv'
  OBVIOUS
<1>1. ScriptsInv' /\ dirs \in SUBSET Script
  BY ScriptsStep DEF OrderInv, ScriptsInv, ReleasesTypeOK
<1>2. ASSUME UNCHANGED <<dirs, older>> PROVE OrderInv'
  BY <1>1, <1>2 DEF OrderInv, OlderIsAnOrder, InOrder
<1>3. ASSUME NEW s \in Script, Clone(s) \/ LinkEnv(s) \/ Build(s) PROVE OrderInv'
  <2>1. older' = Touched(s) /\ dirs' = dirs \cup {s}
    BY <1>3 DEF Clone, LinkEnv, Build
  <2> QED
    BY <1>1, <2>1, TouchedOrders DEF OrderInv
<1>4. ASSUME NEW s \in Script, Prune(s) PROVE OrderInv'
  BY <1>1, <1>4, PrunedOrders DEF Prune, OrderInv
<1>5. CASE AppWrites
  <2>1. service \in Script /\ older' = Touched(service) /\ dirs' = dirs \cup {service}
    BY <1>1, <1>5 DEF AppWrites
  <2> QED
    BY <1>1, <2>1, TouchedOrders DEF OrderInv
<1>6. CASE EraseFiles
  <2>1. CASE dirs' = {}
    BY <1>1, <2>1 DEF OrderInv, OlderIsAnOrder, InOrder
  <2>2. CASE InOrder(older', dirs')
    BY <1>1, <2>2 DEF OrderInv, OlderIsAnOrder
  <2> QED
    BY <1>6, <2>1, <2>2 DEF EraseFiles
<1>7. ASSUME NEW s \in Script,
             \/ Prepare(s) \/ ConfigureService(s) \/ WriteConf(s) \/ IncludeOrVerify(s)
             \/ Reload(s) \/ Link(s) \/ Stops(s) \/ SessionEnds(s) \/ SessionLost(s)
      PROVE  UNCHANGED <<dirs, older>>
  BY <1>7 DEF Prepare, ConfigureService, WriteConf, IncludeOrVerify, Reload, Link, Stops,
              SessionEnds, SessionLost, serverVars, diskVars
<1>8. ASSUME NEW s \in Script, NEW k \in Stack, Send(s, k)
      PROVE  UNCHANGED <<dirs, older>>
  BY <1>8 DEF Send, serverVars
<1>9. CASE BeginErase \/ EraseService \/ EraseConf \/ EraseCut \/ OtherReload
  <2>1. UNCHANGED <<dirs, older>>
    BY <1>9 DEF BeginErase, EraseService, EraseConf, EraseCut, OtherReload, serverVars, diskVars
  <2> QED
    BY <1>2, <2>1
<1>10. CASE UNCHANGED releaseVars
  BY <1>2, <1>10 DEF releaseVars
<1> QED
  BY <1>2, <1>3, <1>4, <1>5, <1>6, <1>7, <1>8, <1>9, <1>10, ReleasesCases DEF Steps, Apart

(* Types, and that the modification times order the releases on the disk,  *)
(* so that `sort -nr | tail -n +2` leaves exactly one.                     *)
THEOREM ReleasesInvariant == ReleasesSpec => []ReleasesInv
<1>1. OrderInv => ReleasesInv
  BY DEF OrderInv, ScriptsInv, ReleasesInv
<1> QED
  BY <1>1, OrderStartsWell, OrderStep, PTL DEF ReleasesSpec

----------------------------------------------------------------------------
(* A release is used by nginx, systemd or the link only once its script is *)
(* beyond the build, and one whose failed build was swallowed is of a      *)
(* stack whose recipe does that.                                           *)
UsedInv ==
    /\ ScriptsInv
    /\ \A s \in Script : s \in {current, service, conf.release, route.release} => pc[s] > 4
    /\ \A s \in unbuilt : pc[s] > 0 /\ stack[s] \notin Strict

LEMMA StrictRecipes == \A k \in Strict : ~Recipe[k].swallows
BY DEF Strict, Recipe, SpringBootSite, LaravelSite, Service

LEMMA UsedStartsWell == ReleasesInit => UsedInv
<1> SUFFICES ASSUME ReleasesInit PROVE UsedInv
  OBVIOUS
<1>1. current = NoScript /\ service = NoScript /\ conf.release = NoScript /\ route.release = NoScript
  BY DEF ReleasesInit, NoRoute
<1>2. unbuilt = {}
  BY DEF ReleasesInit
<1> QED
  BY <1>1, <1>2, ScriptsStartWell, NoScriptAssumption DEF UsedInv

LEMMA UsedStep == UsedInv /\ [ReleasesNext]_releaseVars => UsedInv'
<1> SUFFICES ASSUME UsedInv, [ReleasesNext]_releaseVars PROVE UsedInv'
  OBVIOUS
<1> DEFINE Used == {current, service, conf.release, route.release}
<1>1. /\ ScriptsInv' /\ ScriptsInv /\ \A t \in Script : pc[t] \in 0..11
      /\ unbuilt \subseteq Script
  BY ScriptsStep DEF UsedInv, ScriptsInv, ReleasesTypeOK
<1>2. ASSUME UNCHANGED <<pc, stack, unbuilt>>, Used' \subseteq Used \cup {NoScript} PROVE UsedInv'
  BY <1>1, <1>2, NoScriptAssumption DEF UsedInv
<1>3. ASSUME NEW s \in Script, Steps(s) PROVE UsedInv'
  <2>1. /\ \A t \in Script : pc'[t] = IF t = s THEN pc[t] + 1 ELSE pc[t]
        /\ pc[s] > 0 /\ stack' = stack
    BY <1>1, <1>3, StepAdvances DEF ScriptsInv, ReleasesTypeOK
  <2>2. Used' \subseteq Used \/ (Used' \subseteq Used \cup {s} /\ pc[s] > 3)
    <3>1. CASE Prepare(s) \/ Clone(s) \/ LinkEnv(s) \/ Build(s) \/ IncludeOrVerify(s) \/ Reload(s) \/ Prune(s)
      BY <3>1 DEF Prepare, Clone, LinkEnv, Build, IncludeOrVerify, Reload, Prune, serverVars, diskVars
    <3>2. ASSUME ConfigureService(s) \/ WriteConf(s) \/ Link(s) PROVE pc[s] > 3
      <4>1. /\ pc[s] \in 1..Length(stack[s]) /\ Layout(stack[s])
            /\ Recipe[stack[s]].steps[pc[s]] \in {"service", "conf", "link"}
        BY <1>1, <1>3, <3>2, StepAdvances DEF ConfigureService, WriteConf, Link, At
      <4>2. pc[s] \in {ServiceAt(stack[s]), ConfAt(stack[s]), Length(stack[s]) - 1}
        BY <4>1 DEF Layout
      <4> QED
        BY <4>1, <4>2, Positions
    <3>3. CASE ConfigureService(s) \/ Link(s)
      <4>1. Used' \subseteq Used \cup {s}
        BY <3>3 DEF ConfigureService, Link, diskVars
      <4> QED
        BY <3>2, <3>3, <4>1
    <3>4. CASE WriteConf(s)
      <4>1. UNCHANGED <<current, service, route>> /\ conf'.release = s
        BY <3>4 DEF WriteConf, diskVars
      <4> QED
        BY <3>2, <3>4, <4>1
    <3> QED
      BY <1>3, <3>1, <3>3, <3>4 DEF Steps
  <2>3. \A t \in Script : t \in Used' => pc'[t] > 4
    <3> SUFFICES ASSUME NEW t \in Script, t \in Used' PROVE pc'[t] > 4
      OBVIOUS
    <3>1. CASE t \in Used
      <4>1. pc[t] > 4 /\ pc[t] \in 0..11
        BY <1>1, <3>1 DEF UsedInv
      <4> QED
        BY <2>1, <4>1
    <3>2. CASE t \notin Used
      <4>1. t = s /\ pc[t] > 3 /\ pc[t] \in 0..11
        BY <1>1, <2>2, <3>2
      <4> QED
        BY <2>1, <4>1
    <3> QED
      BY <3>1, <3>2
  <2>4. unbuilt' = unbuilt \/ (unbuilt' = unbuilt \cup {s} /\ stack[s] \notin Strict)
    BY <1>3, StrictRecipes
       DEF Steps, Prepare, Clone, LinkEnv, Build, ConfigureService, WriteConf,
           IncludeOrVerify, Reload, Link, Prune, serverVars, diskVars
  <2>5. \A t \in unbuilt' : pc'[t] > 0 /\ stack'[t] \notin Strict
    BY <1>1, <2>1, <2>4 DEF UsedInv
  <2> QED
    BY <1>1, <2>3, <2>5 DEF UsedInv
<1>4. ASSUME NEW s \in Script, NEW k \in Stack, Send(s, k) PROVE UsedInv'
  <2>1. /\ pc[s] = 0 /\ pc' = [pc EXCEPT ![s] = 1] /\ Used' = Used
        /\ stack' = [stack EXCEPT ![s] = k] /\ unbuilt' = unbuilt
    BY <1>1, <1>4 DEF Send, Sent, serverVars, ScriptsInv, ReleasesTypeOK
  <2>2. s \notin Used
    <3>1. ~ (pc[s] > 4)
      BY <2>1
    <3> QED
      BY <3>1 DEF UsedInv
  <2>3. \A t \in Script : t # s => pc'[t] = pc[t] /\ stack'[t] = stack[t]
    BY <1>1, <2>1 DEF ScriptsInv, ReleasesTypeOK
  <2>4. \A t \in Script : t \in Used' => pc'[t] > 4
    BY <2>1, <2>2, <2>3 DEF UsedInv
  <2>5. s \notin unbuilt
    BY <2>1 DEF UsedInv
  <2>6. \A t \in unbuilt' : pc'[t] > 0 /\ stack'[t] \notin Strict
    BY <1>1, <2>1, <2>3, <2>5 DEF UsedInv
  <2> QED
    BY <1>1, <2>4, <2>6 DEF UsedInv
<1>5. ASSUME NEW s \in Script, Stops(s) \/ SessionEnds(s) \/ SessionLost(s) PROVE UsedInv'
  <2>1. UNCHANGED <<pc, stack, unbuilt>> /\ Used' = Used
    BY <1>5 DEF Stops, SessionEnds, SessionLost, serverVars
  <2> QED
    BY <1>2, <2>1
<1>6. CASE Apart
  <2>1. UNCHANGED <<pc, stack, unbuilt>>
    BY <1>6 DEF Apart, BeginErase, EraseService, EraseConf, EraseFiles, EraseCut,
                AppWrites, OtherReload, scriptVars, serverVars, diskVars
  <2>2. Used' \subseteq Used \cup {NoScript}
    <3>1. CASE BeginErase \/ EraseCut \/ AppWrites
      BY <3>1 DEF BeginErase, EraseCut, AppWrites, serverVars
    <3>2. CASE EraseService \/ EraseFiles
      BY <3>2 DEF EraseService, EraseFiles, diskVars
    <3>3. CASE EraseConf
      <4>1. /\ UNCHANGED <<current, service>>
            /\ conf'.release \in {NoScript, conf.release}
            /\ route'.release \in {conf'.release, route.release}
        BY <3>3 DEF EraseConf, NoRoute, diskVars
      <4> QED
        BY <4>1
    <3>4. CASE OtherReload
      BY <3>4 DEF OtherReload, diskVars
    <3> QED
      BY <1>6, <3>1, <3>2, <3>3, <3>4 DEF Apart
  <2> QED
    BY <1>2, <2>1, <2>2
<1>7. CASE UNCHANGED releaseVars
  <2>1. UNCHANGED <<pc, stack, unbuilt>> /\ Used' = Used
    BY <1>7 DEF releaseVars
  <2> QED
    BY <1>2, <2>1
<1> QED
  BY <1>3, <1>4, <1>5, <1>6, <1>7, ReleasesCases

(* Whatever fails, is lost or works beside what, with any number of        *)
(* deployments: no release is used before its build is over, and none of   *)
(* Spring Boot or Laravel whose build has failed.                          *)
THEOREM OnlyFinishedBuildsAreUsedAlways == ReleasesSpec => []OnlyFinishedBuildsAreUsed
<1>1. UsedInv => OnlyFinishedBuildsAreUsed
  <2> SUFFICES ASSUME UsedInv, NEW s \in Script,
                      s \in {current, service, conf.release, route.release}
               PROVE  BuildOver(s)
    BY DEF OnlyFinishedBuildsAreUsed, UsedInv
  <2>1. pc[s] > 4 /\ pc[s] \in 0..11 /\ Layout(stack[s])
    BY RecipeLayout DEF UsedInv, ScriptsInv, ReleasesTypeOK
  <2>2. Recipe[stack[s]].steps[4] = "build"
    <3>1. 4 \in 1..Length(stack[s])
      BY Positions
    <3> QED
      BY <2>1, <3>1 DEF Layout
  <2>3. 4 \in 1..(pc[s] - 1)
    BY <2>1
  <2> QED
    BY <2>2, <2>3 DEF BuildOver
<1> QED
  BY <1>1, UsedStartsWell, UsedStep, PTL DEF ReleasesSpec

----------------------------------------------------------------------------
(* A clean-up that has met nobody is alone with the server: what it has    *)
(* removed stays away, and what stays is of a step that has failed.        *)
Alone == erase # "idle" /\ ~met

OnlyStuck ==
    /\ erase \in {"conf", "files", "done"} => service = NoScript \/ "service" \in stuck
    /\ erase \in {"files", "done"} => conf = NoRoute \/ "conf" \in stuck
    /\ erase = "done" => (~root /\ dirs = {} /\ current = NoScript) \/ "files" \in stuck

LeftInv ==
    /\ ScriptsInv
    /\ Alone => (\A s \in Script : work[s] # "working") /\ OnlyStuck

LEMMA LeftStep == LeftInv /\ [ReleasesNext]_releaseVars => LeftInv'
<1> SUFFICES ASSUME LeftInv, [ReleasesNext]_releaseVars, Alone'
             PROVE  (\A s \in Script : work'[s] # "working") /\ OnlyStuck'
  BY ScriptsStep DEF LeftInv
<1>1. ASSUME NEW s \in Script, Steps(s) PROVE FALSE
  <2>1. work[s] = "working" /\ UNCHANGED <<erase, met>>
    BY <1>1, StepAdvances DEF LeftInv
  <2> QED
    BY <2>1 DEF Alone, LeftInv
<1>2. ASSUME NEW s \in Script, NEW k \in Stack, Send(s, k) PROVE FALSE
  BY <1>2 DEF Send, Alone
<1>3. ASSUME NEW s \in Script, Stops(s) PROVE FALSE
  BY <1>3 DEF Stops, Working, cleanupVars, Alone, LeftInv
<1>4. ASSUME NEW s \in Script, SessionEnds(s) \/ SessionLost(s)
      PROVE  UNCHANGED <<work, serverVars, cleanupVars>>
  BY <1>4 DEF SessionEnds, SessionLost
<1>5. ASSUME UNCHANGED <<work, serverVars, cleanupVars>>
      PROVE  (\A s \in Script : work'[s] # "working") /\ OnlyStuck'
  BY <1>5 DEF serverVars, cleanupVars, Alone, LeftInv, OnlyStuck
<1>6. CASE Apart
  <2>1. UNCHANGED work
    BY <1>6 DEF Apart, BeginErase, EraseService, EraseConf, EraseFiles, EraseCut,
                AppWrites, OtherReload, scriptVars
  <2>2. CASE BeginErase
    BY <2>1, <2>2 DEF BeginErase, Working, Alone, OnlyStuck
  <2>3. CASE EraseService
    BY <2>1, <2>3 DEF EraseService, Fails, Alone, LeftInv, OnlyStuck
  <2>4. CASE EraseConf
    BY <2>1, <2>4 DEF EraseConf, Fails, Alone, LeftInv, OnlyStuck
  <2>5. CASE EraseFiles
    BY <2>1, <2>5 DEF EraseFiles, Fails, Alone, LeftInv, OnlyStuck
  <2>6. CASE EraseCut
    BY <2>1, <2>6 DEF EraseCut, serverVars, Alone, LeftInv, OnlyStuck
  <2>7. CASE AppWrites
    <3>1. /\ dirs # {}
          /\ UNCHANGED <<root, dirs, current, service, conf, erase, met, stuck>>
      BY <2>7 DEF AppWrites, cleanupVars
    <3> QED
      BY <2>1, <3>1 DEF Alone, LeftInv, OnlyStuck
  <2>8. CASE OtherReload
    BY <2>1, <2>8 DEF OtherReload, diskVars, cleanupVars, Alone, LeftInv, OnlyStuck
  <2> QED
    BY <1>6, <2>2, <2>3, <2>4, <2>5, <2>6, <2>7, <2>8 DEF Apart
<1>7. CASE UNCHANGED releaseVars
  <2>1. UNCHANGED <<work, serverVars, cleanupVars>>
    BY <1>7 DEF releaseVars, serverVars, cleanupVars
  <2> QED
    BY <1>5, <2>1
<1> QED
  BY <1>1, <1>2, <1>3, <1>4, <1>5, <1>6, <1>7, ReleasesCases

(* A deletion that met no deployment leaves of the project only what its   *)
(* own commands have failed to remove, however many deployments of         *)
(* whatever stacks had failed before it.                                   *)
THEOREM NothingIsLeftAlways == ReleasesSpec => []NothingIsLeft
<1>1. ReleasesInit => LeftInv
  BY ScriptsStartWell DEF ReleasesInit, LeftInv, Alone
<1>2. LeftInv => NothingIsLeft
  BY DEF LeftInv, NothingIsLeft, Alone, OnlyStuck
<1> QED
  BY <1>1, <1>2, LeftStep, PTL DEF ReleasesSpec

----------------------------------------------------------------------------
(* What a script has reached at its step, as long as nothing disturbs it:  *)
(* each step leaves what the later ones build upon.                        *)
Reached(s) ==
    LET k == stack[s] IN
    /\ pc[s] > 2 => s \in dirs /\ Newest(s)
    /\ ServiceAt(k) # 0 /\ pc[s] > ServiceAt(k) => service = s
    /\ pc[s] > ConfAt(k) => conf.release = s /\ conf.form \in Recipe[k].routes
    /\ pc[s] > ReloadAt(k) => route = conf
    /\ pc[s] > Length(k) - 1 => current = s
    /\ pc[s] > Length(k) => dirs = {s}

Leads(r) ==
    /\ r.form \in {"files", "both"} => r.release \in dirs
    /\ r.form \in {"proxy", "both"} => service \in dirs

RouteInv ==
    /\ OrderInv
    /\ ~disturbed =>
           /\ \A s \in Script : work[s] = "working" => s = last
           /\ \A s \in Script : s = last /\ work[s] \in {"working", "finished"} => Reached(s)
           /\ Leads(conf) /\ Leads(route)
           /\ current # NoScript => current \in dirs

LEMMA RouteStartsWell == ReleasesInit => RouteInv
<1> SUFFICES ASSUME ReleasesInit PROVE RouteInv
  OBVIOUS
<1>1. OrderInv
  BY OrderStartsWell
<1>2. \A s \in Script : s # last /\ work[s] = "none"
  BY NoScriptAssumption DEF ReleasesInit
<1>3. conf.form = "none" /\ route.form = "none" /\ current = NoScript
  BY DEF ReleasesInit, NoRoute
<1> QED
  BY <1>1, <1>2, <1>3 DEF RouteInv, Leads

(* A step of the script that works alone. *)
LEMMA StepReaches ==
  ASSUME RouteInv, NEW s \in Script, Steps(s), ~disturbed'
  PROVE  /\ \A t \in Script : work'[t] = "working" => t = last'
         /\ \A t \in Script : t = last' /\ work'[t] \in {"working", "finished"} => Reached(t)'
         /\ Leads(conf)' /\ Leads(route)'
         /\ current' # NoScript => current' \in dirs'
<1> DEFINE k == stack[s]
           n == pc[s]
<1>1. /\ work[s] = "working" /\ n \in 1..Length(k) /\ k \in DOMAIN Recipe /\ Layout(k)
      /\ pc' = [pc EXCEPT ![s] = n + 1]
      /\ work' = IF n = Length(k) THEN [work EXCEPT ![s] = "finished"] ELSE work
      /\ UNCHANGED <<stack, last, erase, disturbed>>
  BY StepAdvances DEF RouteInv, OrderInv
<1>2. ~disturbed
  BY <1>1
<1>3. /\ s = last /\ Reached(s) /\ Leads(conf) /\ Leads(route)
      /\ current # NoScript => current \in dirs
      /\ \A t \in Script : work[t] = "working" => t = last
  BY <1>1, <1>2 DEF RouteInv
<1>4. /\ pc'[s] = n + 1 /\ stack'[s] = k /\ n \in Nat /\ dirs \in SUBSET Script
      /\ \A t \in Script : t # s => work'[t] = work[t]
  BY <1>1 DEF RouteInv, OrderInv, ScriptsInv, ReleasesTypeOK
<1>5. \A t \in Script : work'[t] = "working" => t = last'
  BY <1>1, <1>3, <1>4
<1>6. SUFFICES /\ Reached(s)'
               /\ Leads(conf)' /\ Leads(route)'
               /\ current' # NoScript => current' \in dirs'
  BY <1>1, <1>3, <1>5
<1>7. /\ Length(k) \in 8..10 /\ ServiceAt(k) \in {0, 5}
      /\ ConfAt(k) \in 5..6 /\ ServiceAt(k) < ConfAt(k)
      /\ ReloadAt(k) \in 6..7 /\ ConfAt(k) < ReloadAt(k) /\ ReloadAt(k) < Length(k) - 1
  BY Positions
<1>8. /\ n > 2 => s \in dirs /\ Newest(s)
      /\ ServiceAt(k) # 0 /\ n > ServiceAt(k) => service = s
      /\ n > ConfAt(k) => conf.release = s /\ conf.form \in Recipe[k].routes
      /\ n > ReloadAt(k) => route = conf
      /\ n > Length(k) - 1 => current = s
      /\ n > Length(k) => dirs = {s}
  BY <1>3 DEF Reached
<1>9. SUFFICES /\ n + 1 > 2 => s \in dirs' /\ Newest(s)'
               /\ ServiceAt(k) # 0 /\ n + 1 > ServiceAt(k) => service' = s
               /\ n + 1 > ConfAt(k) => conf'.release = s /\ conf'.form \in Recipe[k].routes
               /\ n + 1 > ReloadAt(k) => route' = conf'
               /\ n + 1 > Length(k) - 1 => current' = s
               /\ n + 1 > Length(k) => dirs' = {s}
               /\ Leads(conf)' /\ Leads(route)'
               /\ current' # NoScript => current' \in dirs'
  BY <1>4 DEF Reached
<1>10. Recipe[k].routes \subseteq IF ServiceAt(k) = 0 THEN {"files"} ELSE {"proxy", "both"}
  BY <1>1 DEF Layout
<1>11. CASE Prepare(s) \/ IncludeOrVerify(s)
  <2>1. UNCHANGED <<dirs, older, current, service, conf, route>>
    BY <1>11 DEF Prepare, IncludeOrVerify, serverVars, diskVars
  <2>2. n \notin {2, ServiceAt(k), ConfAt(k), ReloadAt(k), Length(k) - 1, Length(k)}
    <3>1. Recipe[k].steps[n] \in {"prepare", "include", "verify"}
      BY <1>11 DEF Prepare, IncludeOrVerify, At
    <3> QED
      BY <1>1, <3>1 DEF Layout
  <2>3. Newest(s)' <=> Newest(s)
    BY <2>1 DEF Newest
  <2>4. Leads(conf)' /\ Leads(route)'
    BY <1>3, <2>1 DEF Leads
  <2> HIDE DEF n, k
  <2> QED
    BY <1>3, <1>4, <1>7, <1>8, <2>1, <2>2, <2>3, <2>4
<1>12. CASE Clone(s) \/ LinkEnv(s) \/ Build(s)
  <2>1. n \in 2..4
    <3>1. Recipe[k].steps[n] \in {"clone", "env", "build"}
      BY <1>12 DEF Clone, LinkEnv, Build, At
    <3> QED
      BY <1>1, <3>1 DEF Layout
  <2>2. /\ dirs' = dirs \cup {s} /\ older' = Touched(s)
        /\ UNCHANGED <<current, service, conf, route>>
    BY <1>12 DEF Clone, LinkEnv, Build
  <2>3. Newest(s)'
    BY <1>4, <2>2, TouchedOrders DEF RouteInv, OrderInv
  <2>4. Leads(conf)' /\ Leads(route)'
    BY <1>3, <2>2 DEF Leads
  <2> HIDE DEF n, k
  <2> QED
    BY <1>3, <1>7, <2>1, <2>2, <2>3, <2>4
<1>13. CASE ConfigureService(s)
  <2>1. n = ServiceAt(k)
    <3>1. Recipe[k].steps[n] = "service"
      BY <1>13 DEF ConfigureService, At
    <3> QED
      BY <1>1, <3>1 DEF Layout
  <2>2. service' = s /\ UNCHANGED <<dirs, older, current, conf, route>>
    BY <1>13 DEF ConfigureService, diskVars
  <2>3. s \in dirs /\ Newest(s)'
    <3>1. n > 2
      BY <1>1, <1>7, <2>1
    <3> QED
      BY <1>8, <2>2, <3>1 DEF Newest
  <2>4. Leads(conf)' /\ Leads(route)'
    BY <1>3, <2>2, <2>3 DEF Leads
  <2> HIDE DEF n, k
  <2> QED
    BY <1>3, <1>4, <1>7, <2>1, <2>2, <2>3, <2>4
<1>14. CASE WriteConf(s)
  <2>1. n = ConfAt(k)
    <3>1. Recipe[k].steps[n] = "conf"
      BY <1>14 DEF WriteConf, At
    <3> QED
      BY <1>1, <3>1 DEF Layout
  <2>2. PICK f \in Recipe[k].routes : conf' = [release |-> s, form |-> f]
    BY <1>14 DEF WriteConf
  <2>3. UNCHANGED <<dirs, older, current, service, route>>
    BY <1>14 DEF WriteConf, diskVars
  <2>4. /\ s \in dirs /\ Newest(s)'
        /\ ServiceAt(k) # 0 => service = s
    <3>1. n > 2 /\ n > ServiceAt(k)
      BY <1>4, <1>7, <2>1
    <3> QED
      BY <1>8, <2>3, <3>1 DEF Newest
  <2>5. conf'.release = s /\ conf'.form = f
    BY <2>2
  <2>6. f \in {"proxy", "both"} => service = s
    BY <1>10, <2>4
  <2>7. Leads(conf)' /\ Leads(route)'
    BY <1>3, <2>3, <2>4, <2>5, <2>6 DEF Leads
  <2> HIDE DEF n, k
  <2> QED
    BY <1>3, <1>4, <1>7, <2>1, <2>2, <2>3, <2>4, <2>5, <2>7
<1>15. CASE Reload(s)
  <2>1. n = ReloadAt(k)
    <3>1. Recipe[k].steps[n] = "reload"
      BY <1>15 DEF Reload, At
    <3> QED
      BY <1>1, <3>1 DEF Layout
  <2>2. route' = conf /\ UNCHANGED <<dirs, older, current, service, conf>>
    BY <1>15 DEF Reload, diskVars
  <2>3. Newest(s)' <=> Newest(s)
    BY <2>2 DEF Newest
  <2>4. Leads(conf)' /\ Leads(route)'
    BY <1>3, <2>2 DEF Leads
  <2> HIDE DEF n, k
  <2> QED
    BY <1>3, <1>4, <1>7, <1>8, <2>1, <2>2, <2>3, <2>4
<1>16. CASE Link(s)
  <2>1. n = Length(k) - 1
    <3>1. Recipe[k].steps[n] = "link"
      BY <1>16 DEF Link, At
    <3> QED
      BY <1>1, <3>1 DEF Layout
  <2>2. current' = s /\ UNCHANGED <<dirs, older, service, conf, route>>
    BY <1>16 DEF Link
  <2>3. Newest(s)' <=> Newest(s)
    BY <2>2 DEF Newest
  <2>4. Leads(conf)' /\ Leads(route)'
    BY <1>3, <2>2 DEF Leads
  <2> HIDE DEF n, k
  <2> QED
    BY <1>3, <1>4, <1>7, <1>8, <2>1, <2>2, <2>3, <2>4
<1>17. CASE Prune(s)
  <2>1. n = Length(k)
    <3>1. Recipe[k].steps[n] = "prune"
      BY <1>17 DEF Prune, At
    <3> QED
      BY <1>1, <3>1 DEF Layout
  <2>2. dirs' = Kept /\ UNCHANGED <<current, service, conf, route>>
    BY <1>17 DEF Prune
  <2>3. /\ s \in dirs /\ Newest(s)
        /\ ServiceAt(k) # 0 => service = s
        /\ conf.release = s /\ conf.form \in Recipe[k].routes
        /\ route = conf /\ current = s
    <3>1. n > 2 /\ n > ServiceAt(k) /\ n > ConfAt(k) /\ n > ReloadAt(k) /\ n > Length(k) - 1
      BY <1>4, <1>7, <2>1
    <3> HIDE DEF n, k
    <3> QED
      BY <1>8, <3>1
  <2>4. dirs' = {s}
    <3>1. s \in Kept
      BY <2>3 DEF Kept
    <3> QED
      BY <2>2, <3>1, OneIsNewest DEF RouteInv, OrderInv
  <2>5. Newest(s)'
    BY <2>4 DEF Newest
  <2>6. conf.form \in {"proxy", "both"} => service = s
    BY <1>10, <2>3
  <2>7. Leads(conf)' /\ Leads(route)'
    BY <2>2, <2>3, <2>4, <2>6 DEF Leads
  <2> HIDE DEF n, k
  <2> QED
    BY <2>2, <2>3, <2>4, <2>5, <2>7
<1> QED
  BY <1>11, <1>12, <1>13, <1>14, <1>15, <1>16, <1>17 DEF Steps

LEMMA RouteStep == RouteInv /\ [ReleasesNext]_releaseVars => RouteInv'
<1> SUFFICES ASSUME RouteInv, [ReleasesNext]_releaseVars PROVE RouteInv'
  OBVIOUS
<1>1. OrderInv'
  BY OrderStep DEF RouteInv
<1> SUFFICES ASSUME ~disturbed'
             PROVE  /\ \A t \in Script : work'[t] = "working" => t = last'
                    /\ \A t \in Script :
                           t = last' /\ work'[t] \in {"working", "finished"} => Reached(t)'
                    /\ Leads(conf)' /\ Leads(route)'
                    /\ current' # NoScript => current' \in dirs'
  BY <1>1 DEF RouteInv
<1> DEFINE Held == /\ \A t \in Script : work'[t] = "working" => t = last'
                   /\ \A t \in Script :
                          t = last' /\ work'[t] \in {"working", "finished"} => Reached(t)'
                   /\ Leads(conf)' /\ Leads(route)'
                   /\ current' # NoScript => current' \in dirs'
<1>2. ASSUME NEW s \in Script, Steps(s) PROVE Held
  BY <1>2, StepReaches
<1>3. ASSUME UNCHANGED <<stack, pc, last, serverVars>>, ~disturbed,
             \A t \in Script : work'[t] \in {"working", "finished"} => work'[t] = work[t]
      PROVE  Held
  <2>1. \A t \in Script : Reached(t) => Reached(t)'
    BY <1>3 DEF Reached, Newest, serverVars
  <2>2. Leads(conf)' /\ Leads(route)'
    BY <1>3 DEF RouteInv, Leads, serverVars
  <2> QED
    BY <1>3, <2>1, <2>2 DEF RouteInv, serverVars
<1>4. ASSUME NEW s \in Script, NEW k \in Stack, Send(s, k) PROVE Held
  <2>1. /\ stack' = [stack EXCEPT ![s] = k] /\ pc' = [pc EXCEPT ![s] = 1]
        /\ work' = [work EXCEPT ![s] = "working"] /\ last' = s
        /\ UNCHANGED <<dirs, older, current, service, conf, route, erase>>
        /\ disturbed' = (disturbed \/ \E t \in Script : Working(t))
    BY <1>4 DEF Send, serverVars
  <2>2. ~disturbed /\ \A t \in Script : work[t] # "working"
    BY <2>1 DEF Working
  <2>3. pc'[s] = 1 /\ \A t \in Script : work'[t] = "working" => t = s
    BY <2>1, <2>2 DEF RouteInv, OrderInv, ScriptsInv, ReleasesTypeOK
  <2>4. Reached(s)'
    <3>1. /\ ~ (1 > 2) /\ ~ (ServiceAt(stack'[s]) # 0 /\ 1 > ServiceAt(stack'[s]))
          /\ ~ (1 > ConfAt(stack'[s])) /\ ~ (1 > ReloadAt(stack'[s]))
          /\ ~ (1 > Length(stack'[s]) - 1) /\ ~ (1 > Length(stack'[s]))
      BY Positions
    <3> QED
      BY <2>3, <3>1 DEF Reached
  <2>5. Leads(conf)' /\ Leads(route)'
    BY <2>1, <2>2 DEF RouteInv, Leads
  <2> QED
    BY <2>1, <2>2, <2>3, <2>4, <2>5 DEF RouteInv
<1>5. ASSUME NEW s \in Script, Stops(s) \/ SessionEnds(s) \/ SessionLost(s) PROVE Held
  <2>1. /\ UNCHANGED <<stack, pc, last, serverVars, erase, disturbed>>
        /\ work' \in {work, [work EXCEPT ![s] = "stopped"]}
    BY <1>5 DEF Stops, SessionEnds, SessionLost, cleanupVars
  <2>2. \A t \in Script : work'[t] \in {"working", "finished"} => work'[t] = work[t]
    BY <2>1 DEF RouteInv, OrderInv, ScriptsInv, ReleasesTypeOK
  <2> QED
    BY <1>3, <2>1, <2>2
<1>6. CASE OtherReload
  <2>1. /\ UNCHANGED <<stack, pc, work, last, dirs, older, current, service, conf, erase, disturbed>>
        /\ route' = conf
    BY <1>6 DEF OtherReload, scriptVars, diskVars, cleanupVars
  <2>2. ~disturbed
    BY <2>1
  <2>3. \A t \in Script : Reached(t) => Reached(t)'
    BY <2>1 DEF Reached, Newest
  <2>4. Leads(conf)' /\ Leads(route)'
    BY <2>1, <2>2 DEF RouteInv, Leads
  <2> QED
    BY <2>1, <2>2, <2>3, <2>4 DEF RouteInv
<1>7. ~ (BeginErase \/ EraseService \/ EraseConf \/ EraseFiles \/ EraseCut \/ AppWrites)
  <2>1. ~ (BeginErase \/ AppWrites)
    BY DEF BeginErase, AppWrites
  <2>2. ASSUME EraseService \/ EraseConf \/ EraseFiles \/ EraseCut PROVE FALSE
    <3>1. erase # "idle" /\ ~disturbed
      BY <2>2 DEF EraseService, EraseConf, EraseFiles, EraseCut
    <3> QED
      BY <3>1 DEF RouteInv, OrderInv, ScriptsInv
  <2> QED
    BY <2>1, <2>2
<1>8. CASE UNCHANGED releaseVars
  <2>1. UNCHANGED <<stack, pc, last, serverVars>> /\ UNCHANGED <<work, erase, disturbed>>
    BY <1>8 DEF releaseVars, serverVars
  <2> QED
    BY <1>3, <2>1
<1> QED
  BY <1>2, <1>4, <1>5, <1>6, <1>7, <1>8, ReleasesCases DEF Apart

(* Visitors are never sent to a release that is gone, whatever fails or is *)
(* lost, as long as nobody works beside a script or deletes the project.   *)
THEOREM RouteWorksAlways == ReleasesSpec => []RouteWorks
<1>1. RouteInv => RouteWorks
  BY DEF RouteInv, RouteWorks, Leads
<1> QED
  BY <1>1, RouteStartsWell, RouteStep, PTL DEF ReleasesSpec

(* What has ended with exit code 0 is what is served, and nothing else is  *)
(* left, whichever stacks the deployments of the project had.              *)
THEOREM SuccessIsServedAlways == ReleasesSpec => []SuccessIsServed
<1>1. RouteInv => SuccessIsServed
  <2> SUFFICES ASSUME RouteInv, ~disturbed, last # NoScript, verdict[last] = "ok",
                      last \notin lost
               PROVE  /\ current = last /\ dirs = {last}
                      /\ conf = route /\ route.release = last
                      /\ route.form \in {"proxy", "both"} => service = last
    BY DEF SuccessIsServed
  <2> DEFINE k == stack[last]
  <2>1. /\ last \in Script /\ work[last] = "finished" /\ pc[last] = Length(k) + 1
        /\ k \in DOMAIN Recipe /\ Layout(k)
    BY RecipeLayout DEF RouteInv, OrderInv, ScriptsInv, ReleasesTypeOK
  <2>2. Reached(last)
    BY <2>1 DEF RouteInv
  <2>3. /\ pc[last] > 2 /\ pc[last] > ServiceAt(k) /\ pc[last] > ConfAt(k)
        /\ pc[last] > ReloadAt(k) /\ pc[last] > Length(k) - 1 /\ pc[last] > Length(k)
    BY <2>1, Positions
  <2>4. /\ ServiceAt(k) # 0 => service = last
        /\ conf.release = last /\ conf.form \in Recipe[k].routes
        /\ route = conf /\ current = last /\ dirs = {last}
    BY <2>2, <2>3 DEF Reached
  <2>5. conf.form \in {"proxy", "both"} => service = last
    BY <2>1, <2>4 DEF Layout
  <2> QED
    BY <2>4, <2>5
<1> QED
  BY <1>1, RouteStartsWell, RouteStep, PTL DEF ReleasesSpec

----------------------------------------------------------------------------
(* Order: a script that was sent before another one is out of its session, *)
(* so that if it still works, it has lost it; and what nginx has on disk   *)
(* is not older than what it has loaded, unless such a script wrote it.    *)
TurnsInv ==
    /\ UsedInv
    /\ \A s \in Script :
           /\ work[s] = "working" /\ s \notin lost => verdict[s] = "none"
           /\ s \notin before[s]
           /\ \A t \in before[s] : verdict[t] # "none"
           /\ \A t \in before[s] \ lost : route.release = s => conf.release # t

LEMMA TurnsStartWell == ReleasesInit => TurnsInv
<1> SUFFICES ASSUME ReleasesInit PROVE TurnsInv
  OBVIOUS
<1>1. \A s \in Script : work[s] = "none" /\ before[s] = {}
  BY DEF ReleasesInit
<1> QED
  BY <1>1, UsedStartsWell DEF TurnsInv, ReleasesInit

(* A script puts nothing in place but its own release, or what is on disk; *)
(* one that was sent before another does so only without a session.        *)
LEMMA StepsPlaceTheirOwn ==
  ASSUME TurnsInv, NEW s \in Script, Steps(s)
  PROVE  /\ service' \in {service, s} /\ current' \in {current, s}
         /\ UNCHANGED <<before, lost, verdict>> /\ pc' = [pc EXCEPT ![s] = pc[s] + 1]
         /\ \/ route' = route /\ conf'.release \in {conf.release, s}
            \/ route' = conf /\ conf' = conf
         /\ \A t \in Script : s \in before[t] => s \in lost
         /\ \A t \in Script : work'[t] = "working" => work[t] = "working"
<1>1. ScriptsInv /\ work \in [Script -> {"none", "working", "finished", "stopped"}]
  BY DEF TurnsInv, UsedInv, ScriptsInv, ReleasesTypeOK
<1>2. /\ work[s] = "working" /\ UNCHANGED <<before, lost, verdict>>
      /\ pc' = [pc EXCEPT ![s] = pc[s] + 1]
      /\ work' = work \/ work' = [work EXCEPT ![s] = "finished"]
  BY <1>1, StepAdvances
<1>3. \A t \in Script : s \in before[t] => s \in lost
  BY <1>2 DEF TurnsInv
<1>4. \A t \in Script : work'[t] = "working" => work[t] = "working"
  BY <1>1, <1>2
<1>5. CASE Prepare(s) \/ Clone(s) \/ LinkEnv(s) \/ Build(s) \/ IncludeOrVerify(s) \/ Prune(s)
  BY <1>2, <1>3, <1>4, <1>5
     DEF Prepare, Clone, LinkEnv, Build, IncludeOrVerify, Prune, serverVars, diskVars
<1>6. CASE ConfigureService(s) \/ Link(s) \/ Reload(s)
  BY <1>2, <1>3, <1>4, <1>6 DEF ConfigureService, Link, Reload, diskVars
<1>7. CASE WriteConf(s)
  <2>1. UNCHANGED <<current, service, route>> /\ conf'.release = s
    BY <1>7 DEF WriteConf, diskVars
  <2> QED
    BY <1>2, <1>3, <1>4, <2>1
<1> QED
  BY <1>5, <1>6, <1>7 DEF Steps

(* What the rest does: it puts nothing in place, but for a reload.         *)
LEMMA OthersPlaceNothing ==
  ASSUME ReleasesTypeOK, Apart
  PROVE  /\ service' \in {service, NoScript} /\ current' \in {current, NoScript}
         /\ UNCHANGED <<before, lost, verdict, work, pc>>
         /\ conf' \in {NoRoute, conf} /\ route' \in {conf', route}
<1>1. CASE BeginErase \/ EraseService \/ EraseFiles \/ EraseCut
  BY <1>1 DEF BeginErase, EraseService, EraseFiles, EraseCut, scriptVars, serverVars, diskVars
<1>2. CASE EraseConf
  BY <1>2 DEF EraseConf, scriptVars, diskVars
<1>3. CASE AppWrites \/ OtherReload
  BY <1>3 DEF AppWrites, OtherReload, scriptVars, diskVars
<1> QED
  BY <1>1, <1>2, <1>3 DEF Apart

LEMMA TurnsStep == TurnsInv /\ [ReleasesNext]_releaseVars => TurnsInv'
<1> SUFFICES ASSUME TurnsInv, [ReleasesNext]_releaseVars PROVE TurnsInv'
  OBVIOUS
<1>1. /\ UsedInv /\ UsedInv' /\ ScriptsInv /\ ReleasesTypeOK
      /\ work \in [Script -> {"none", "working", "finished", "stopped"}]
      /\ verdict \in [Script -> {"none", "ok", "failed"}]
      /\ before \in [Script -> SUBSET Script]
      /\ pc \in [Script -> 0..11]
  BY UsedStep DEF TurnsInv, UsedInv, ScriptsInv, ReleasesTypeOK
<1>2. SUFFICES ASSUME NEW s \in Script
               PROVE  /\ work'[s] = "working" /\ s \notin lost' => verdict'[s] = "none"
                      /\ s \notin before'[s]
                      /\ \A t \in before'[s] : verdict'[t] # "none"
                      /\ \A t \in before'[s] \ lost' : route'.release = s => conf'.release # t
  BY <1>1 DEF TurnsInv
<1>3. ASSUME NEW r \in Script, NEW k \in Stack, Send(r, k)
      PROVE  /\ work'[s] = "working" /\ s \notin lost' => verdict'[s] = "none"
             /\ s \notin before'[s]
             /\ \A t \in before'[s] : verdict'[t] # "none"
             /\ \A t \in before'[s] \ lost' : route'.release = s => conf'.release # t
  <2>1. /\ pc[r] = 0 /\ work' = [work EXCEPT ![r] = "working"]
        /\ before' = [before EXCEPT ![r] = {t \in Script : pc[t] > 0}]
        /\ pc' = [pc EXCEPT ![r] = 1]
        /\ \A t \in Script : pc[t] > 0 => verdict[t] # "none"
        /\ UNCHANGED <<verdict, lost, conf, route>>
    BY <1>1, <1>3 DEF Send, Sent, InSession, NobodyInSession, serverVars
  <2>2. verdict[r] = "none"
    BY <1>1, <2>1 DEF ScriptsInv
  <2>3. route.release # r
    BY <2>1, <1>1 DEF UsedInv
  <2>4. CASE s = r
    BY <1>1, <2>1, <2>2, <2>3, <2>4
  <2>5. CASE s # r
    <3>1. work'[s] = work[s] /\ before'[s] = before[s]
      BY <1>1, <2>1, <2>5
    <3> QED
      BY <2>1, <3>1 DEF TurnsInv
  <2> QED
    BY <2>4, <2>5
<1>4. ASSUME NEW r \in Script, Steps(r)
      PROVE  /\ work'[s] = "working" /\ s \notin lost' => verdict'[s] = "none"
             /\ s \notin before'[s]
             /\ \A t \in before'[s] : verdict'[t] # "none"
             /\ \A t \in before'[s] \ lost' : route'.release = s => conf'.release # t
  <2>1. /\ UNCHANGED <<before, lost, verdict>> /\ pc' = [pc EXCEPT ![r] = pc[r] + 1]
        /\ work'[s] = "working" => work[s] = "working"
        /\ r \in before[s] => r \in lost
        /\ \/ route' = route /\ conf'.release \in {conf.release, r}
           \/ route' = conf /\ conf' = conf
    BY <1>4, StepsPlaceTheirOwn
  <2>2. \A t \in before[s] \ lost : route'.release = s => conf'.release # t
    BY <2>1 DEF TurnsInv
  <2> QED
    BY <2>1, <2>2 DEF TurnsInv
<1>5. ASSUME NEW r \in Script, Stops(r) \/ SessionEnds(r) \/ SessionLost(r)
      PROVE  /\ work'[s] = "working" /\ s \notin lost' => verdict'[s] = "none"
             /\ s \notin before'[s]
             /\ \A t \in before'[s] : verdict'[t] # "none"
             /\ \A t \in before'[s] \ lost' : route'.release = s => conf'.release # t
  <2>1. UNCHANGED <<before, route, conf>> /\ lost \subseteq lost'
    BY <1>5 DEF Stops, SessionEnds, SessionLost, serverVars
  <2>2. \A t \in Script : verdict[t] # "none" => verdict'[t] # "none"
    BY <1>1, <1>5 DEF Stops, SessionEnds, SessionLost
  <2>3. work'[s] = "working" /\ s \notin lost' => verdict'[s] = "none"
    <3>1. CASE Stops(r)
      BY <1>1, <3>1 DEF Stops, TurnsInv
    <3>2. CASE SessionEnds(r)
      BY <1>1, <3>2 DEF SessionEnds, Working, TurnsInv
    <3>3. CASE SessionLost(r)
      BY <1>1, <3>3 DEF SessionLost, TurnsInv
    <3> QED
      BY <1>5, <3>1, <3>2, <3>3
  <2> QED
    BY <1>1, <2>1, <2>2, <2>3 DEF TurnsInv
<1>6. CASE Apart
  <2>1. /\ UNCHANGED <<before, lost, verdict, work, pc>>
        /\ conf' \in {NoRoute, conf} /\ route' \in {conf', route}
    BY <1>1, <1>6, OthersPlaceNothing
  <2>2. \A t \in before[s] \ lost : route'.release = s => conf'.release # t
    BY <1>1, <2>1, NoScriptAssumption DEF TurnsInv, NoRoute
  <2> QED
    BY <2>1, <2>2 DEF TurnsInv
<1>7. CASE UNCHANGED releaseVars
  BY <1>7 DEF releaseVars, TurnsInv
<1> QED
  BY <1>3, <1>4, <1>5, <1>6, <1>7, ReleasesCases

(* With any number of deployments, lost, failed and beside a clean-up:     *)
(* only a script without a session brings back what a later deployment has *)
(* replaced.                                                               *)
THEOREM NeverGoesBackAlways == ReleasesSpec => NeverGoesBack
<1>1. ASSUME TurnsInv, [ReleasesNext]_releaseVars, NEW s \in Script, NEW t \in Script,
             t \in before[s], t \notin lost
      PROVE  /\ route.release = s => route'.release # t
             /\ service = s => service' # t
             /\ current = s => current' # t
  <2>1. s # t /\ t # NoScript
    BY <1>1, NoScriptAssumption DEF TurnsInv
  <2>2. route.release = s => conf.release # t
    BY <1>1 DEF TurnsInv
  <2>3. CASE UNCHANGED <<service, current, route>>
    BY <2>1, <2>3
  <2>4. ASSUME NEW r \in Script, Steps(r)
        PROVE  /\ route.release = s => route'.release # t
               /\ service = s => service' # t
               /\ current = s => current' # t
    <3>1. /\ service' \in {service, r} /\ current' \in {current, r}
          /\ route' \in {route, conf} /\ (r \in before[s] => r \in lost)
      BY <1>1, <2>4, StepsPlaceTheirOwn
    <3> QED
      BY <1>1, <2>1, <2>2, <3>1
  <2>5. CASE Apart
    <3>1. /\ service' \in {service, NoScript} /\ current' \in {current, NoScript}
          /\ route' \in {route, conf, NoRoute}
      BY <1>1, <2>5, OthersPlaceNothing DEF TurnsInv, UsedInv, ScriptsInv
    <3> QED
      BY <2>1, <2>2, <3>1 DEF NoRoute
  <2>6. CASE \E r \in Script : \/ \E k \in Stack : Send(r, k)
                              \/ Stops(r) \/ SessionEnds(r) \/ SessionLost(r)
    BY <2>3, <2>6 DEF Send, Stops, SessionEnds, SessionLost, serverVars
  <2>7. CASE UNCHANGED releaseVars
    BY <2>3, <2>7 DEF releaseVars
  <2> QED
    BY <1>1, <2>4, <2>5, <2>6, <2>7, ReleasesCases
<1>2. TurnsInv /\ [ReleasesNext]_releaseVars =>
        [\A s, t \in Script : t \in before[s] /\ t \notin lost =>
            /\ route.release = s => route'.release # t
            /\ service = s => service' # t
            /\ current = s => current' # t]_releaseVars
  BY <1>1
<1> QED
  BY <1>2, TurnsStartWell, TurnsStep, PTL DEF ReleasesSpec, NeverGoesBack
=============================================================================
