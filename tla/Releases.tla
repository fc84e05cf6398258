------------------------------ MODULE Releases ------------------------------
(***************************************************************************)
(* remote_executor.py and recipe_support.py: what the deployments and the  *)
(* deletion of one project do to its server.  A deployment is a bash       *)
(* script that runs over an SSH session; with `set -e` it stops at the     *)
(* first command that fails and leaves what it has done.  A script whose   *)
(* session is lost (time-out, cancellation, broken connection, crash of    *)
(* the bot) goes on until it next prints something, beside the next        *)
(* deployment.                                                             *)
(***************************************************************************)
EXTENDS Naturals, Sequences

CONSTANTS
    Script,   \* deployments of the project; also the ids of their releases
    Stack,    \* the stacks analyses may find, see Recipe
    NoScript

ASSUME NoScriptAssumption == NoScript \notin Script

----------------------------------------------------------------------------
(* The recipes: their steps, how nginx reaches the release ("files" of it, *)
(* a "proxy" to the project's service, or "both"), the steps that begin by *)
(* printing, and whether `|| true` follows the build (of the front end,    *)
(* for .NET), so that a build that fails does not end the script.          *)

CommonGitPrep == <<"prepare", "clone", "env">>
FinalizeRelease == <<"link", "prune">>
PrepSays == {"prepare", "clone"}

StaticSite ==
    [steps |-> CommonGitPrep \o <<"build", "conf", "include", "reload", "verify">>
               \o FinalizeRelease,
     routes |-> {"files"},
     says |-> PrepSays \cup {"build", "conf", "reload", "verify"},
     swallows |-> TRUE]

(* Mutant: the service is restarted before the release is built. *)
ServiceFirst ==
    CommonGitPrep \o <<"service", "build", "conf", "reload", "verify">> \o FinalizeRelease

ServiceSteps ==
    CommonGitPrep \o <<"build", "service", "conf", "reload", "verify">> \o FinalizeRelease
ServiceSays == PrepSays \cup {"build", "service", "conf", "verify"}

Service(r, swallowed) ==
    [steps |-> ServiceSteps, routes |-> r, says |-> ServiceSays, swallows |-> swallowed]

NodeSite == Service({"proxy", "both"}, TRUE)
PythonSite == Service({"proxy", "both"}, TRUE)
SpringBootSite == Service({"proxy"}, FALSE)
DotNetSite == Service({"proxy", "both"}, TRUE)

(* `composer install` is strict; what else fails before nginx is swallowed. *)
LaravelSite ==
    [steps |-> CommonGitPrep \o <<"build", "conf", "reload", "verify">>
               \o FinalizeRelease,
     routes |-> {"files"},
     says |-> PrepSays \cup {"build", "conf", "verify"},
     swallows |-> FALSE]

Universal ==
    [steps |-> CommonGitPrep \o <<"build", "conf", "reload">> \o FinalizeRelease,
     routes |-> {"files"},
     says |-> PrepSays,
     swallows |-> TRUE]

(* deploy(): the recipe of a stack; the React and Vite stacks are static. *)
Recipe == [static |-> StaticSite, node |-> NodeSite, python |-> PythonSite,
           spring_boot |-> SpringBootSite, dotnet |-> DotNetSite,
           laravel |-> LaravelSite, unknown |-> Universal]

ASSUME StackAssumption == Stack \subseteq DOMAIN Recipe

Route == [release : Script, form : {"files", "proxy", "both"}]
NoRoute == [release |-> NoScript, form |-> "none"]

----------------------------------------------------------------------------
VARIABLES
    stack,     \* stack[s]: the stack script s was written for
    pc,        \* pc[s]: its next step, 0 before it is sent
    work,      \* work[s]: what it is doing
    verdict,   \* verdict[s]: what deploy() made of it
    lost,      \* the scripts whose session was lost while they worked
    last,      \* the script sent last
    before,    \* before[s]: the scripts sent before s; for the properties only
    root,      \* whether the project's directory exists
    dirs,      \* the releases on disk
    older,     \* older[s]: the releases with an older directory than that of s
    current,   \* where the link `current` points
    unbuilt,   \* the releases whose build failed, and whose script went on
    service,   \* the release the systemd unit runs in
    conf,      \* the nginx include on disk
    route,     \* the include nginx has loaded
    erase,     \* the next step of cleanup_project
    met,       \* whether the clean-up has met a script of the project
    stuck,     \* the steps of the clean-up in which a command has failed, while
               \* it has met none; for the properties only
    disturbed  \* whether a script worked beside another, an application wrote into
               \* its release when there was a newer one, or a clean-up has begun

scriptVars == <<stack, pc, work, verdict, lost, last, before>>
diskVars == <<root, dirs, older, current, unbuilt>>
serverVars == <<root, dirs, older, current, unbuilt, service, conf, route>>
cleanupVars == <<erase, met, stuck>>
releaseVars == <<stack, pc, work, verdict, lost, last, before, root, dirs, older, current,
                 unbuilt, service, conf, route, erase, met, stuck, disturbed>>

ReleasesTypeOK ==
    /\ stack \in [Script -> DOMAIN Recipe]
    /\ pc \in [Script -> 0..11]
    /\ work \in [Script -> {"none", "working", "finished", "stopped"}]
    /\ verdict \in [Script -> {"none", "ok", "failed"}]
    /\ lost \in SUBSET Script
    /\ last \in Script \cup {NoScript}
    /\ before \in [Script -> SUBSET Script]
    /\ root \in BOOLEAN
    /\ dirs \in SUBSET Script
    /\ older \in [Script -> SUBSET Script]
    /\ current \in Script \cup {NoScript}
    /\ unbuilt \in SUBSET Script
    /\ service \in Script \cup {NoScript}
    /\ conf \in Route \cup {NoRoute}
    /\ route \in Route \cup {NoRoute}
    /\ erase \in {"idle", "service", "conf", "files", "done", "cut"}
    /\ met \in BOOLEAN
    /\ stuck \in SUBSET {"service", "conf", "files"}
    /\ disturbed \in BOOLEAN

ReleasesInit ==
    /\ stack = [s \in Script |-> "unknown"]
    /\ pc = [s \in Script |-> 0]
    /\ work = [s \in Script |-> "none"]
    /\ verdict = [s \in Script |-> "none"]
    /\ lost = {}
    /\ last = NoScript
    /\ before = [s \in Script |-> {}]
    /\ root = FALSE
    /\ dirs = {}
    /\ older = [s \in Script |-> {}]
    /\ current = NoScript
    /\ unbuilt = {}
    /\ service = NoScript
    /\ conf = NoRoute
    /\ route = NoRoute
    /\ erase = "idle"
    /\ met = FALSE
    /\ stuck = {}
    /\ disturbed = FALSE

----------------------------------------------------------------------------
(* The session: SSHClient.run and what deploy() makes of its exit code.    *)

Sent(s) == pc[s] > 0
Working(s) == work[s] = "working"
InSession(s) == Sent(s) /\ verdict[s] = "none"

(* Mutant: the coordinator admits a second one beside the first. *)
NobodyMinds == TRUE

NobodyInSession == \A t \in Script : ~InSession(t)

(* The coordinator admits one deployment of a project at a time, but knows *)
(* nothing of the scripts that have lost their session.                    *)
Send(s, k) ==
    /\ ~Sent(s)
    /\ NobodyInSession
    /\ stack' = [stack EXCEPT ![s] = k]
    /\ pc' = [pc EXCEPT ![s] = 1]
    /\ work' = [work EXCEPT ![s] = "working"]
    /\ last' = s
    /\ before' = [before EXCEPT ![s] = {t \in Script : Sent(t)}]
    /\ met' = (met \/ erase # "idle")
    /\ stuck' = IF met' THEN {} ELSE stuck
    /\ disturbed' = (disturbed \/ \E t \in Script : Working(t))
    /\ UNCHANGED <<verdict, lost, serverVars, erase>>

(* Mutant: the exit code is not looked at. *)
SessionEndsWell(s) ==
    /\ InSession(s) /\ ~Working(s)
    /\ verdict' = [verdict EXCEPT ![s] = "ok"]
    /\ UNCHANGED <<stack, pc, work, lost, last, before, serverVars, cleanupVars, disturbed>>

SessionEnds(s) ==
    /\ InSession(s) /\ ~Working(s)
    /\ verdict' = [verdict EXCEPT ![s] = IF work[s] = "finished" THEN "ok" ELSE "failed"]
    /\ UNCHANGED <<stack, pc, work, lost, last, before, serverVars, cleanupVars, disturbed>>

(* A time-out gives exit code 1, a cancellation raises, a crash ends       *)
(* deploy() with the bot.  A connection that breaks gives no exit code at  *)
(* all, which SSHClient.run takes for 0: the deployment is a success.      *)
SessionLost(s) ==
    /\ InSession(s) /\ Working(s)
    /\ \E v \in {"failed", "ok"} : verdict' = [verdict EXCEPT ![s] = v]
    /\ lost' = lost \cup {s}
    /\ UNCHANGED <<stack, pc, work, last, before, serverVars, cleanupVars, disturbed>>

----------------------------------------------------------------------------
(* The steps of a script.                                                  *)

At(s, step) ==
    /\ Working(s)
    /\ Recipe[stack[s]].steps[pc[s]] = step
    /\ s \in lost => step \notin Recipe[stack[s]].says

Advance(s) ==
    /\ pc' = [pc EXCEPT ![s] = @ + 1]
    /\ work' = IF pc[s] = Len(Recipe[stack[s]].steps)
               THEN [work EXCEPT ![s] = "finished"] ELSE work
    /\ UNCHANGED <<stack, verdict, lost, last, before, cleanupVars, disturbed>>

(* `set -e`: any command may fail, and ends the script.  So does printing  *)
(* to a session that is gone.                                              *)
Stops(s) ==
    /\ Working(s)
    /\ work' = [work EXCEPT ![s] = "stopped"]
    /\ UNCHANGED <<stack, pc, verdict, lost, last, before, serverVars, cleanupVars, disturbed>>

(* Mutant: the other releases do not get older. *)
TouchedAlone(s) == [older EXCEPT ![s] = dirs \ {s}]

(* An entry was created in the directory of release s: it is the newest. *)
Touched(s) == [d \in Script |-> IF d = s THEN dirs \ {s} ELSE older[d] \ {s}]

Newest(s) == s \in dirs /\ dirs \ {s} \subseteq older[s]

(* The modification times o put the releases D in a total order. *)
InOrder(o, D) ==
    /\ \A d, e \in D : d # e => (d \in o[e] <=> e \notin o[d])
    /\ \A d \in D : o[d] \subseteq D \ {d}
    /\ \A d, e \in D : d \in o[e] => o[d] \subseteq o[e]
    /\ D # {} => \E d \in D : D \ {d} \subseteq o[d]

Prepare(s) ==
    /\ At(s, "prepare")
    /\ root' = TRUE
    /\ Advance(s)
    /\ UNCHANGED <<dirs, older, current, unbuilt, service, conf, route>>

(* A clone that fails, or lacks the app path, leaves no directory: Stops.  *)
Clone(s) ==
    /\ At(s, "clone") /\ root
    /\ dirs' = dirs \cup {s}
    /\ older' = Touched(s)
    /\ Advance(s)
    /\ UNCHANGED <<root, current, unbuilt, service, conf, route>>

(* The link to the shared .env. *)
LinkEnv(s) ==
    /\ At(s, "env") /\ s \in dirs
    /\ older' = Touched(s)
    /\ Advance(s)
    /\ UNCHANGED <<root, dirs, current, unbuilt, service, conf, route>>

(* The dependencies and the build; one that fails ends the script (Stops), *)
(* unless the recipe swallows it.                                          *)
Build(s) ==
    /\ At(s, "build") /\ s \in dirs
    /\ older' = Touched(s)
    /\ \/ UNCHANGED unbuilt
       \/ Recipe[stack[s]].swallows /\ unbuilt' = unbuilt \cup {s}
    /\ Advance(s)
    /\ UNCHANGED <<root, dirs, current, service, conf, route>>

ConfigureService(s) ==
    /\ At(s, "service")
    /\ service' = s
    /\ Advance(s)
    /\ UNCHANGED <<diskVars, conf, route>>

WriteConf(s) ==
    /\ At(s, "conf")
    /\ \E f \in Recipe[stack[s]].routes : conf' = [release |-> s, form |-> f]
    /\ Advance(s)
    /\ UNCHANGED <<diskVars, service, route>>

(* Is the include part of a server block?  Does the URL answer?  The       *)
(* answer to the second is not used.                                       *)
IncludeOrVerify(s) ==
    /\ At(s, "include") \/ At(s, "verify")
    /\ Advance(s)
    /\ UNCHANGED serverVars

Reload(s) ==
    /\ At(s, "reload")
    /\ route' = conf
    /\ Advance(s)
    /\ UNCHANGED <<diskVars, service, conf>>

Link(s) ==
    /\ At(s, "link") /\ root
    /\ current' = s
    /\ Advance(s)
    /\ UNCHANGED <<root, dirs, older, unbuilt, service, conf, route>>

(* Mutant: `tail -n +1`. *)
KeepNone == {}

(* sort -nr | tail -n +2: what is not removed. *)
Kept == {d \in dirs : Newest(d)}

Prune(s) ==
    /\ At(s, "prune") /\ root
    /\ dirs' = Kept
    /\ older' = [d \in Script |-> older[d] \cap dirs']
    /\ Advance(s)
    /\ UNCHANGED <<root, current, unbuilt, service, conf, route>>

----------------------------------------------------------------------------
(* cleanup_project.  Its commands ignore failures: what one could not      *)
(* remove stays, the script goes on and ends with exit code 0.  Each step  *)
(* prints first, so that a clean-up whose session is lost stops.           *)
BeginErase ==
    /\ erase = "idle"
    /\ erase' = "service"
    /\ met' = \E s \in Script : Working(s)
    /\ disturbed' = TRUE
    /\ UNCHANGED <<scriptVars, serverVars, stuck>>

(* Mutant: the unit is stopped and stays. *)
StopService ==
    /\ erase = "service"
    /\ erase' = "conf"
    /\ UNCHANGED <<scriptVars, serverVars, met, stuck, disturbed>>

Fails(step) == stuck' = IF met THEN {} ELSE stuck \cup {step}

EraseService ==
    /\ erase = "service"
    /\ erase' = "conf"
    /\ \/ service' = NoScript /\ UNCHANGED stuck
       \/ service # NoScript /\ UNCHANGED service /\ Fails("service")
    /\ UNCHANGED <<scriptVars, diskVars, conf, route, met, disturbed>>

(* nginx is reloaded unless another project's include is broken. *)
EraseConf ==
    /\ erase = "conf"
    /\ erase' = "files"
    /\ \/ conf' = NoRoute /\ UNCHANGED stuck
       \/ conf # NoRoute /\ UNCHANGED conf /\ Fails("conf")
    /\ route' \in {conf', route}
    /\ UNCHANGED <<scriptVars, diskVars, service, met, disturbed>>

(* rm -rf removes the directory, or any part of what is in it, and touches *)
(* the directories it could not remove.                                    *)
EraseFiles ==
    /\ erase = "files"
    /\ erase' = "done"
    /\ \/ /\ root' = FALSE /\ dirs' = {} /\ current' = NoScript
          /\ older' = [s \in Script |-> {}]
          /\ UNCHANGED stuck
       \/ /\ root /\ UNCHANGED root
          /\ dirs' \in SUBSET dirs
          /\ current' \in {current, NoScript}
          /\ older' \in [Script -> SUBSET dirs'] /\ InOrder(older', dirs')
          /\ Fails("files")
    /\ UNCHANGED <<scriptVars, unbuilt, service, conf, route, met, disturbed>>

EraseCut ==
    /\ erase \in {"service", "conf", "files"}
    /\ erase' = "cut"
    /\ UNCHANGED <<scriptVars, serverVars, met, stuck, disturbed>>

----------------------------------------------------------------------------
(* The rest of the server: an application that writes into the release it  *)
(* runs in, and another project whose deployment reloads nginx.            *)
AppWrites ==
    /\ service \in dirs /\ ~Newest(service)
    /\ older' = Touched(service)
    /\ disturbed' = TRUE
    /\ UNCHANGED <<scriptVars, root, dirs, current, unbuilt, service, conf, route, cleanupVars>>

OtherReload ==
    /\ route # conf
    /\ route' = conf
    /\ UNCHANGED <<scriptVars, diskVars, service, conf, cleanupVars, disturbed>>

ScriptNext(s) ==
    \/ Prepare(s) \/ Clone(s) \/ LinkEnv(s) \/ Build(s)
    \/ ConfigureService(s) \/ WriteConf(s) \/ IncludeOrVerify(s)
    \/ Reload(s) \/ Link(s) \/ Prune(s) \/ Stops(s)

ReleasesNext ==
    \/ \E s \in Script, k \in Stack : Send(s, k)
    \/ \E s \in Script : ScriptNext(s) \/ SessionEnds(s) \/ SessionLost(s)
    \/ BeginErase \/ EraseService \/ EraseConf \/ EraseFiles \/ EraseCut
    \/ AppWrites \/ OtherReload

ReleasesSpec == ReleasesInit /\ [][ReleasesNext]_releaseVars
----------------------------------------------------------------------------
(* The modification times put the releases in a total order. *)
OlderIsAnOrder == InOrder(older, dirs)

ReleasesInv == ReleasesTypeOK /\ OlderIsAnOrder

BuildOver(s) == \E i \in 1..(pc[s] - 1) : Recipe[stack[s]].steps[i] = "build"

(* The stacks whose recipes do not swallow a failed build. *)
Strict == {"spring_boot", "laravel"}

(* Whatever fails, is lost or works beside what: nginx, systemd and the    *)
(* link never get to a release whose build is still to come or under way,  *)
(* nor, for Spring Boot and Laravel, to one whose build has failed.  The   *)
(* other recipes swallow the failure and use the release unbuilt.          *)
OnlyFinishedBuildsAreUsed ==
    \A s \in Script : s \in {current, service, conf.release, route.release} =>
        /\ BuildOver(s)
        /\ s \in unbuilt => stack[s] \notin Strict

(* Where nginx sends the visitors is there, and so is the current release, *)
(* at every moment of a deployment and after every failure of one, also of *)
(* one whose session was lost: as long as no two scripts work at once, no  *)
(* application writes into a release that is being replaced, and nobody    *)
(* deletes the project.                                                    *)
RouteWorks ==
    ~disturbed =>
        /\ route.form \in {"files", "both"} => route.release \in dirs
        /\ route.form \in {"proxy", "both"} => service \in dirs
        /\ current # NoScript => current \in dirs

(* Under the same condition a deployment whose script has ended with exit  *)
(* code 0 is what is served, whatever recipes it and the earlier ones      *)
(* used, and the releases of the earlier ones are gone.  The deployments   *)
(* reported successful are these and those whose connection broke, which   *)
(* may have got nowhere.                                                   *)
SuccessIsServed ==
    ~disturbed /\ last # NoScript /\ verdict[last] = "ok" /\ last \notin lost =>
        /\ current = last /\ dirs = {last}
        /\ conf = route /\ route.release = last
        /\ route.form \in {"proxy", "both"} => service = last

(* What a later deployment has put in place of an earlier one - the files  *)
(* nginx serves, the unit, the link - comes back by a script that had lost *)
(* its session, and by nothing else: not by another project's reload, nor  *)
(* by what failed deployments have left, disturbed or not.                 *)
NeverGoesBack ==
    [][\A s, t \in Script : t \in before[s] /\ t \notin lost =>
          /\ route.release = s => route'.release # t
          /\ service = s => service' # t
          /\ current = s => current' # t]_releaseVars

(* After a clean-up that has come to its end without meeting a deployment, *)
(* and so reports success, there are files, a service or an include only   *)
(* where its own command has failed, whatever failed deployments had left. *)
NothingIsLeft ==
    erase = "done" /\ ~met =>
        /\ root \/ dirs # {} \/ current # NoScript => "files" \in stuck
        /\ service # NoScript => "service" \in stuck
        /\ conf # NoRoute => "conf" \in stuck

----------------------------------------------------------------------------
(* "A successful release becomes the current symlink" (README): until the  *)
(* next deployment or a deletion the link points to it, and it is there -  *)
(* even if no session was ever lost.                                       *)
SuccessBecomesCurrent ==
    lost = {} /\ erase = "idle" /\ last # NoScript /\ verdict[last] = "ok" =>
        current = last /\ last \in dirs
=============================================================================
