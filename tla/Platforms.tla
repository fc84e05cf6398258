----------------------------- MODULE Platforms -----------------------------
(***************************************************************************)
(* platform_executors.py: the deployments of one project to Railway,       *)
(* Firebase Hosting and GitHub Pages, each a chain of CLI commands and, at *)
(* GitHub, of requests.  They come one after the other, as the coordinator *)
(* sees to (OneRunPerProject) - but a command whose deployment has been    *)
(* cancelled is not stopped, and goes on beside the next ones.             *)
(***************************************************************************)
EXTENDS Naturals

CONSTANTS
    MaxRun,     \* a bound: the deployments of the project
    Platform    \* the targets that have an executor here

ASSUME PlatformAssumption ==
    MaxRun \in Nat \ {0} /\ Platform \subseteq {"railway", "firebase", "pages"}

Run == 1..MaxRun

VARIABLES
    platform,  \* platform[r]: the target of deployment r
    command,   \* command[r]: what it waits for, or waited for when cut short
    ending,    \* ending[r]: how it ended
    killed,    \* the command has been killed; what it printed is still read
    tries,     \* the answers 409 or 422 of GitHub Pages
    railway,   \* railway[r]: the Railway project it uploads to
    dirs,      \* the deployments with directories in the workspace
    secrets,   \* those with a credentials or askpass file in /tmp
    orphans,   \* those whose last command goes on without them, as far as
               \* it changes anything outside of this machine
    config,    \* projects.target_config and the target it is for
    created,   \* Railway projects, named after the deployments that made them
    serves     \* the deployment that is served, by place

platformVars == <<platform, command, ending, killed, tries, railway, dirs, secrets,
                  orphans, config, created, serves>>
filesVars == <<dirs, secrets, orphans>>
worldVars == <<created, serves>>

Publishing == {"up", "firebase_deploy", "push"}
Cli == {"clone", "build", "init", "domain", "domain_list", "sites_list", "sites_create"}
           \cup Publishing
Request == {"pages_get", "pages_put", "pages_url"}
Place == [platform : Platform, railway : Run \cup {0}]
Config == Place \cup {[platform |-> "none", railway |-> 0]}

PlatformTypeOK ==
    /\ platform \in [Run -> Platform \cup {"none"}]
    /\ command \in [Run -> Cli \cup Request \cup {"none"}]
    /\ ending \in [Run -> {"none", "ok", "error", "timeout", "cancelled", "lost"}]
    /\ killed \in BOOLEAN
    /\ tries \in 0..2
    /\ railway \in [Run -> Run \cup {0}]
    /\ dirs \in SUBSET Run
    /\ secrets \in SUBSET Run
    /\ orphans \in SUBSET Run
    /\ config \in Config
    /\ created \in SUBSET Run
    /\ serves \in [Place -> Run \cup {0}]

PlatformInit ==
    /\ platform = [r \in Run |-> "none"]
    /\ command = [r \in Run |-> "none"]
    /\ ending = [r \in Run |-> "none"]
    /\ killed = FALSE
    /\ tries = 0
    /\ railway = [r \in Run |-> 0]
    /\ dirs = {} /\ secrets = {} /\ orphans = {}
    /\ config = [platform |-> "none", railway |-> 0]
    /\ created = {}
    /\ serves = [x \in Place |-> 0]
----------------------------------------------------------------------------
Working(r) == platform[r] # "none" /\ ending[r] = "none"

(* Where the upload of a deployment shows: in a Railway project, on the    *)
(* Firebase site of the project, or in the branch gh-pages.                *)
PlaceOf(r) == [platform |-> platform[r], railway |-> railway[r]]

(* What a command does outside of this machine, when it does it. *)
Works(r) ==
    /\ created' = IF command[r] = "init" THEN created \cup {r} ELSE created
    /\ serves' = IF command[r] \in Publishing THEN [serves EXCEPT ![PlaceOf(r)] = r]
                 ELSE serves

WorksOrNot(r) == Works(r) \/ UNCHANGED worldVars

(* deploy(), the use case: a change of target empties target_config. *)
Started(r, t) ==
    /\ platform[r] = "none"
    /\ \A q \in Run : ~Working(q) /\ (q < r => platform[q] # "none")
    /\ platform' = [platform EXCEPT ![r] = t]
    /\ config' = IF config.platform = t THEN config ELSE [platform |-> t, railway |-> 0]
    /\ UNCHANGED <<killed, tries, secrets, orphans, worldVars>>

Begin(r, t) ==
    /\ Started(r, t)
    /\ command' = [command EXCEPT ![r] = "clone"]
    /\ railway' = [railway EXCEPT ![r] = config'.railway]
    /\ dirs' = dirs \cup {r}
    /\ UNCHANGED ending

(* The credentials or the stack will not do: not even a clone is made. *)
Unfit(r, t) ==
    /\ Started(r, t)
    /\ ending' = [ending EXCEPT ![r] = "error"]
    /\ UNCHANGED <<command, railway, dirs>>

(* Mutant: a project that exists is only asked for its domain. *)
FollowsOnlyAsking(r, next) ==
    \/ /\ command[r] = "clone" /\ platform[r] = "railway"
       /\ next = IF railway[r] = 0 THEN "init" ELSE "domain"
    \/ command[r] = "init" /\ next = "up"
    \/ command[r] = "up" /\ next = "domain"

(* What comes after a command that succeeds.  A Firebase site that is      *)
(* listed is not created.                                                  *)
Follows(r, next) ==
    \/ /\ command[r] = "clone" /\ platform[r] = "railway"
       /\ next = IF railway[r] = 0 THEN "init" ELSE "up"
    \/ command[r] = "init" /\ next = "up"
    \/ command[r] = "up" /\ next = "domain"
    \/ command[r] = "clone" /\ platform[r] # "railway" /\ next = "build"
    \/ command[r] = "build" /\ next = IF platform[r] = "firebase" THEN "sites_list" ELSE "push"
    \/ command[r] = "sites_list" /\ next \in {"sites_create", "firebase_deploy"}
    \/ command[r] = "sites_create" /\ next = "firebase_deploy"
    \/ command[r] = "push" /\ next = "pages_get"
    \/ command[r] = "pages_get" /\ next = "pages_put"
    \/ command[r] = "pages_put" /\ next = "pages_url"

(* Before it builds, Firebase's executor writes the service account down;  *)
(* before it pushes, that of GitHub Pages the script git asks for a token. *)
NeedsSecret(r, next) == next = "push" \/ (next = "build" /\ platform[r] = "firebase")

Advance(r) ==
    /\ Working(r) /\ ~killed
    /\ \E next \in Cli \cup Request :
           /\ Follows(r, next)
           /\ command' = [command EXCEPT ![r] = next]
           /\ secrets' = IF NeedsSecret(r, next) THEN secrets \cup {r} ELSE secrets
    /\ Works(r)
    /\ railway' = IF command[r] = "init" THEN [railway EXCEPT ![r] = r] ELSE railway
    /\ tries' = 0
    /\ UNCHANGED <<platform, ending, killed, dirs, orphans, config>>

(* `railway domain` fails when there is a domain, which is listed then; *)
(* any failure of it is taken for that one, a time-out too.             *)
ListsDomains(r) ==
    /\ Working(r) /\ command[r] = "domain"
    /\ command' = [command EXCEPT ![r] = "domain_list"]
    /\ killed' = FALSE
    /\ UNCHANGED <<platform, ending, tries, railway, filesVars, config, worldVars>>

DomainExists(r) == ~killed /\ ListsDomains(r)
DomainTimesOut(r) == killed /\ ListsDomains(r)

(* 409 or 422 from GitHub: once more after a pause, twice. *)
PagesBusy(r) ==
    /\ Working(r) /\ command[r] = "pages_put" /\ tries < 2
    /\ tries' = tries + 1
    /\ UNCHANGED <<platform, command, ending, killed, railway, filesVars, config, worldVars>>

(* A command takes too long.  What it printed is read to the end, which    *)
(* children it leaves behind may put off.                                  *)
Kill(r) ==
    /\ Working(r) /\ ~killed /\ command[r] \in Cli
    /\ killed' = TRUE
    /\ WorksOrNot(r)
    /\ UNCHANGED <<platform, command, ending, tries, railway, filesVars, config>>
----------------------------------------------------------------------------
Ended(r, how) ==
    /\ Working(r)
    /\ ending' = [ending EXCEPT ![r] = how]
    /\ command' = IF how \in {"ok", "error"} THEN [command EXCEPT ![r] = "none"] ELSE command
    /\ killed' = FALSE /\ tries' = 0
    /\ UNCHANGED <<platform, railway>>

(* Mutant: the files are removed where the work is done, not in `finally`. *)
RemovesOnSuccess(r) ==
    IF ending'[r] = "ok" THEN dirs' = dirs \ {r} /\ secrets' = secrets \ {r}
    ELSE UNCHANGED <<dirs, secrets>>

(* `finally`; rmtree, which hides its errors, is taken to succeed. *)
Removes(r) == dirs' = dirs \ {r} /\ secrets' = secrets \ {r}

(* Mutant: what the executor returns as target_config is not stored. *)
ConfigAfterNothing(r) == config

(* target_config after a success names that place. *)
ConfigAfter(r) == PlaceOf(r)

Succeeds(r) ==
    /\ ~killed /\ command[r] \in {"domain", "domain_list", "firebase_deploy", "pages_url"}
    /\ Ended(r, "ok")
    /\ Works(r)
    /\ Removes(r)
    /\ config' = ConfigAfter(r)
    /\ UNCHANGED orphans

(* A command says that it failed, a request times out, or an answer makes  *)
(* no sense - whether the work is done or not.  git removes the clone that *)
(* failed.                                                                 *)
Fails(r) ==
    /\ ~killed
    /\ Ended(r, "error")
    /\ WorksOrNot(r)
    /\ Removes(r)
    /\ UNCHANGED <<orphans, config>>

(* The clone is made outside of the `try`: one that is killed stays. *)
Drained(r) ==
    /\ killed /\ command[r] # "domain"
    /\ Ended(r, "timeout")
    /\ IF command[r] = "clone" THEN UNCHANGED <<dirs, secrets>> ELSE Removes(r)
    /\ UNCHANGED <<orphans, config, worldVars>>

(* A command that nobody waits for goes on; if it was killed, the children *)
(* that still held its output do.                                          *)
Abandoned(r) == IF command[r] \in Publishing \cup {"init"} THEN orphans \cup {r} ELSE orphans

(* CancelledError is thrown into communicate(): the command is left alone, *)
(* and a clone or a build may write its directory again.                   *)
Cancel(r) ==
    /\ Ended(r, "cancelled")
    /\ \/ Removes(r)
       \/ command[r] \in {"clone", "build"} /\ secrets' = secrets \ {r} /\ UNCHANGED dirs
    /\ orphans' = Abandoned(r)
    /\ UNCHANGED <<config, worldVars>>

(* A command without a deployment comes to its end. *)
OrphanEnds(r) ==
    /\ r \in orphans
    /\ orphans' = orphans \ {r}
    /\ WorksOrNot(r)
    /\ UNCHANGED <<platform, command, ending, killed, tries, railway, dirs, secrets, config>>

(* The process dies; its command may survive it. *)
PlatformRestart(r) ==
    /\ Ended(r, "lost")
    /\ orphans' \in {orphans, Abandoned(r)}
    /\ UNCHANGED <<dirs, secrets, config, worldVars>>

Responds(r) == Advance(r) \/ DomainExists(r) \/ PagesBusy(r) \/ Kill(r)
               \/ Succeeds(r) \/ Fails(r)

PlatformNext ==
    \E r \in Run :
        \/ \E t \in Platform : Begin(r, t) \/ Unfit(r, t)
        \/ Responds(r) \/ DomainTimesOut(r) \/ Drained(r) \/ Cancel(r)
        \/ OrphanEnds(r) \/ PlatformRestart(r)

(* Commands and requests have time-outs.  What a killed command printed    *)
(* may take for ever to read.                                              *)
PlatformFairness == \A r \in Run : WF_platformVars(Responds(r))

PlatformSafety == PlatformInit /\ [][PlatformNext]_platformVars
PlatformSpec == PlatformSafety /\ PlatformFairness
----------------------------------------------------------------------------
CutShort(r) == ending[r] \in {"cancelled", "lost"}

(* Nothing stays on this machine but the directories of clones and builds  *)
(* that were cut short, and what a process that died could not remove:     *)
(* above all no credentials.                                               *)
FilesAreRemoved ==
    /\ \A r \in secrets : Working(r) \/ ending[r] = "lost"
    /\ \A r \in dirs :
           \/ Working(r) \/ ending[r] = "lost"
           \/ command[r] = "clone" /\ ending[r] = "timeout"
           \/ command[r] \in {"clone", "build"} /\ ending[r] = "cancelled"

(* The place a deployment says it is served at is a place that exists, and *)
(* shows this deployment, or a later one - or an earlier one that had been *)
(* cut short while it was publishing, and whose command went on.           *)
SuccessIsServedHere ==
    \A r \in Run : ending[r] = "ok" =>
        LET q == serves[PlaceOf(r)] IN
        /\ platform[r] = "railway" => railway[r] \in created
        /\ q # 0
        /\ q < r => CutShort(q) /\ command[q] \in Publishing

(* A project gets a second Railway project only because the deployment     *)
(* that created the first one failed after it had, or because the target   *)
(* was changed in between.                                                 *)
RailwayProjectsAreReused ==
    \A p, r \in created : p < r /\ ending[p] = "ok" =>
        \E q \in p..r : platform[q] # "railway"

PlatformInv ==
    /\ PlatformTypeOK
    /\ FilesAreRemoved
    /\ SuccessIsServedHere
    /\ RailwayProjectsAreReused
    /\ config.railway # 0 => /\ config.platform = "railway"
                             /\ ending[config.railway] # "none"

(* Every deployment to a platform comes to an end, or waits for ever for   *)
(* the children of a command it has killed.                                *)
PlatformEnds == \A r \in Run : Working(r) ~> ending[r] # "none" \/ []killed
=============================================================================
