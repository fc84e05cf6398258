---------------------------- MODULE DeployService ----------------------------
(***************************************************************************)
(* application/use_cases/deploy.py on SQLite: what a deployment, a change  *)
(* of the auto-deploy switch and a deletion do to the tables `projects`    *)
(* and `deployments`, around the coordinator.                              *)
(*                                                                         *)
(* A member of Call is one invocation of DeployProjectService.deploy.  The *)
(* SQLite repositories are coroutines that never suspend and the guard of  *)
(* the coordinator is never contended, so everything between two awaits of *)
(* a subprocess, a network call or the coordinator's task is one step.     *)
(* Every call of a repository is a transaction of its own, however, and    *)
(* the process may die between two of them: ServiceRestart says what such  *)
(* a step leaves.  The status Planning is seen only then.                  *)
(***************************************************************************)
EXTENDS Coordinator

CONSTANTS
    Project,   \* the ids uuid4() hands out
    Repo,      \* (repo_url, branch) pairs
    Kind,      \* DeploymentTarget
    Server,    \* the kind whose files delete_project cleans up
    Admin,     \* the super admins
    HasToken,  \* the users with a GitHub token
    Hosted,    \* the repositories on github.com
    Deletion,  \* the invocations of delete_project that may be under way at once
    MaxSha,    \* a branch receives at most MaxSha - 1 pushes
    Absent     \* no row, no request

ASSUME ServiceAssumption ==
    /\ Server \in Kind
    /\ Admin \subseteq User /\ HasToken \subseteq User /\ Hosted \subseteq Repo
    /\ Kind \X Project \subseteq Key
    /\ MaxSha \in Nat \ {0}

VARIABLES
    phase,        \* phase[c]: how far deploy() is before coordinator.run
    request,      \* request[c]: its arguments
    sha,          \* sha[c]: plan.commit_sha, 0 before the clone
    projectOf,    \* projectOf[c]: id of the Project object deploy() holds
    autoSeen,     \* autoSeen[c]: auto_deploy_enabled in that object
    projects,     \* the table projects, by id
    born,         \* the ids ever inserted
    record,       \* record[c]: status in c's row of the table deployments
    head,         \* head[r]: the commit the branch points at
    serverHolds,  \* the projects with files or services on the server
    deletion      \* deletion[d]: what a delete_project in its clean-up has read

deployVars == <<phase, request, sha, projectOf, autoSeen>>
tableVars == <<projects, born, record>>
worldVars == <<head, serverHolds, deletion>>
serviceVars == <<phase, request, sha, projectOf, autoSeen, projects, born, record,
                 head, serverHolds, deletion,
                 stage, result, userOf, keyOf, interrupted,
                 task, outcome, cancelling, userTasks, targetTasks>>

Sha == 0..MaxSha
Phase == {"idle", "analyzing", "cloned", "refused", "broken", "run", "lost", "torn"}
Status == {"none", "queued", "planning", "running", "successful", "failed", "cancelled"}
Request == [user : User, repo : Repo, kind : Kind]
Row == [owner : User, repo : Repo, kind : Kind, live : Call \cup {NoCall},
        deployed : Sha, triggered : Sha, auto : BOOLEAN]
Cleanup == [project : Project, cleans : BOOLEAN]

ASSUME AbsentAssumption == Absent \notin Project \cup Request \cup Row \cup Cleanup

DeployTypeOK ==
    /\ phase \in [Call -> Phase]
    /\ request \in [Call -> Request \cup {Absent}]
    /\ sha \in [Call -> Sha]
    /\ projectOf \in [Call -> Project \cup {Absent}]
    /\ autoSeen \in [Call -> BOOLEAN]
    /\ projects \in [Project -> Row \cup {Absent}]
    /\ born \in SUBSET Project
    /\ record \in [Call -> Status]
    /\ head \in [Repo -> Sha]
    /\ serverHolds \in SUBSET Project
    /\ deletion \in [Deletion -> Cleanup \cup {Absent}]

DeployInit ==
    /\ CoordinatorInit
    /\ phase = [c \in Call |-> "idle"]
    /\ request = [c \in Call |-> Absent]
    /\ sha = [c \in Call |-> 0]
    /\ projectOf = [c \in Call |-> Absent]
    /\ autoSeen = [c \in Call |-> FALSE]
    /\ projects = [p \in Project |-> Absent]
    /\ born = {}
    /\ record = [c \in Call |-> "none"]
    /\ head = [r \in Repo |-> 1]
    /\ serverHolds = {}
    /\ deletion = [d \in Deletion |-> Absent]

----------------------------------------------------------------------------
(* Starting: deploy(), deploy_existing() and the repository analysis.      *)

Exists(p) == projects[p] # Absent

(* project.user_id == user.id or user.is_super_admin *)
May(actor, p) == projects[p].owner = actor \/ actor \in Admin

Begin(c, u, r, k) ==
    /\ phase[c] = "idle"
    /\ phase' = [phase EXCEPT ![c] = "analyzing"]
    /\ request' = [request EXCEPT ![c] = [user |-> u, repo |-> r, kind |-> k]]
    /\ UNCHANGED <<sha, projectOf, autoSeen, tableVars, worldVars, coordinatorVars>>

StartDeploy(c, u, r, k) == Begin(c, u, r, k)

(* deploy_existing(): an admin's deployment runs as the project's owner. *)
StartExisting(c, actor, p) ==
    /\ Exists(p) /\ May(actor, p)
    /\ Begin(c, projects[p].owner, projects[p].repo, projects[p].kind)

(* analyze(): the clone has fixed the commit; the answer is still to come. *)
Cloned(c) ==
    /\ phase[c] = "analyzing"
    /\ phase' = [phase EXCEPT ![c] = "cloned"]
    /\ sha' = [sha EXCEPT ![c] = head[request[c].repo]]
    /\ UNCHANGED <<request, projectOf, autoSeen, tableVars, worldVars, coordinatorVars>>

(* analyze() raises: deploy() does too, and leaves no trace. *)
AnalysisFails(c) ==
    /\ phase[c] = "analyzing"
    /\ phase' = [phase EXCEPT ![c] = "refused"]
    /\ UNCHANGED <<request, sha, projectOf, autoSeen, tableVars, worldVars, coordinatorVars>>

----------------------------------------------------------------------------
(* From the analysis to coordinator.run.                                   *)

(* get_by_repo() *)
RowsFor(u, r) == {p \in Project : Exists(p) /\ projects[p].owner = u /\ projects[p].repo = r}

(* Mutant: the URL of the old target survives a change of target. *)
RowKeepsUrl(q, p) == IF Exists(p) THEN [projects[p] EXCEPT !.kind = q.kind]
                     ELSE [owner |-> q.user, repo |-> q.repo, kind |-> q.kind, live |-> NoCall,
                           deployed |-> 0, triggered |-> 0, auto |-> FALSE]

(* The row of the project a request is for: inserted when there is none,   *)
(* redirected - without its URL - when the request names another target.   *)
RowFor(q, p) ==
    IF ~Exists(p)
    THEN [owner |-> q.user, repo |-> q.repo, kind |-> q.kind, live |-> NoCall,
          deployed |-> 0, triggered |-> 0, auto |-> FALSE]
    ELSE IF projects[p].kind = q.kind THEN projects[p]
    ELSE [projects[p] EXCEPT !.kind = q.kind, !.live = NoCall]

SaveProject(c, p) ==
    /\ phase[c] = "cloned"
    /\ \/ p \in RowsFor(request[c].user, request[c].repo)
       \/ RowsFor(request[c].user, request[c].repo) = {} /\ p \notin born
    /\ projects' = [projects EXCEPT ![p] = RowFor(request[c], p)]
    /\ born' = born \cup {p}

Prepare(c, p, status) ==
    /\ SaveProject(c, p)
    /\ projectOf' = [projectOf EXCEPT ![c] = p]
    /\ autoSeen' = [autoSeen EXCEPT ![c] = RowFor(request[c], p).auto]
    /\ record' = [record EXCEPT ![c] = status]
    /\ UNCHANGED <<request, sha, worldVars>>

(* The row is Queued, the coordinator has created the task. *)
Admit(c, p) ==
    /\ Prepare(c, p, "queued")
    /\ phase' = [phase EXCEPT ![c] = "run"]
    /\ RunAdmitted(c, request[c].user, <<request[c].kind, p>>)

(* The coordinator refuses: the row is Failed before anyone can read it.   *)
(* The change of target is kept.                                           *)
Reject(c, p) ==
    /\ Prepare(c, p, "failed")
    /\ phase' = [phase EXCEPT ![c] = "run"]
    /\ RunRejected(c, request[c].user, <<request[c].kind, p>>)

(* load_all() cannot decrypt, outside the try: the row stays Queued. *)
CredentialsUnreadable(c, p) ==
    /\ Prepare(c, p, "queued")
    /\ phase' = [phase EXCEPT ![c] = "broken"]
    /\ UNCHANGED coordinatorVars

----------------------------------------------------------------------------
(* The run and its result.                                                 *)

(* Mutants: the UPDATE of a row inserts it when it is gone. *)
RecordedUpsert(c, status) == [record EXCEPT ![c] = status]
RewrittenUpsert(p, row) == [projects EXCEPT ![p] = row]

(* UPDATE ... WHERE id=?: a row deleted meanwhile stays deleted. *)
Recorded(c, status) == IF record[c] = "none" THEN record ELSE [record EXCEPT ![c] = status]
Rewritten(p, row) == IF Exists(p) THEN [projects EXCEPT ![p] = row] ELSE projects

TaskStarts(c) ==
    /\ FirstStep(c)
    /\ record' = Recorded(c, "running")
    /\ UNCHANGED <<deployVars, projects, born, worldVars>>

TaskCancelledEarly(c) ==
    /\ EndsBeforeStart(c)
    /\ UNCHANGED <<deployVars, tableVars, worldVars>>

(* executor.deploy() is over.  One that did not succeed may have left      *)
(* files on the server, too.                                               *)
TaskEnds(c) ==
    /\ Finish(c)
    /\ \/ /\ request[c].kind = Server
          /\ serverHolds' = serverHolds \cup {projectOf[c]}
       \/ /\ request[c].kind # Server \/ outcome'[c] # "ok"
          /\ UNCHANGED serverHolds
    /\ UNCHANGED <<deployVars, tableVars, head, deletion>>

(* Mutant: a cancellation is not told from a result. *)
VerdictIgnoresCancel(r) == IF r \in {"ok", "cancelled"} THEN "successful" ELSE "failed"

(* Mutant: one except clause for everything. *)
VerdictBlamesUser(r) == IF r = "ok" THEN "successful" ELSE "cancelled"

(* The except clauses of deploy(). *)
Verdict(r) == CASE r = "ok" -> "successful"
                [] r = "cancelled" -> "cancelled"
                [] OTHER -> "failed"

(* The Project object deploy() has held since Prepare, with the result. *)
RowAfterSuccess(c) ==
    [owner |-> request[c].user, repo |-> request[c].repo, kind |-> request[c].kind,
     live |-> c, deployed |-> sha[c], triggered |-> sha[c], auto |-> autoSeen[c]]

(* coordinator.run has returned or raised; both rows are written. *)
DeployReturns(c) ==
    /\ Resume(c)
    /\ record' = Recorded(c, Verdict(result'[c]))
    /\ projects' = IF result'[c] = "ok" THEN Rewritten(projectOf[c], RowAfterSuccess(c))
                   ELSE projects
    /\ UNCHANGED <<deployVars, born, worldVars>>

CancelCurrent(u) ==
    /\ CancelForUser(u)
    /\ UNCHANGED <<deployVars, tableVars, worldVars>>

----------------------------------------------------------------------------
(* set_auto_deploy(): the token asked for is the actor's. *)
SetAutoDeploy(actor, p, on) ==
    /\ Exists(p) /\ May(actor, p)
    /\ on => projects[p].repo \in Hosted /\ actor \in HasToken
    /\ projects' = [projects EXCEPT
           ![p].auto = on,
           ![p].triggered = IF on /\ @ = 0 THEN projects[p].deployed ELSE @]
    /\ UNCHANGED <<deployVars, born, record, worldVars, coordinatorVars>>

(* delete_project() up to the clean-up, which only a server project gets. *)
BeginDelete(d, actor, p) ==
    /\ deletion[d] = Absent
    /\ Exists(p) /\ May(actor, p)
    /\ deletion' = [deletion EXCEPT
           ![d] = [project |-> p, cleans |-> projects[p].kind = Server]]
    /\ UNCHANGED <<deployVars, tableVars, head, serverHolds, coordinatorVars>>

(* Mutant: the project goes, its deployments stay. *)
HistoryKept(p) == record
HistoryWithout(p) == [c \in Call |-> IF projectOf[c] = p THEN "none" ELSE record[c]]

(* The clean-up has worked or its error was swallowed; both tables lose    *)
(* the project.                                                            *)
EndDelete(d) ==
    /\ deletion[d] # Absent
    /\ \/ deletion[d].cleans /\ serverHolds' = serverHolds \ {deletion[d].project}
       \/ UNCHANGED serverHolds
    /\ record' = HistoryWithout(deletion[d].project)
    /\ projects' = [projects EXCEPT ![deletion[d].project] = Absent]
    /\ deletion' = [deletion EXCEPT ![d] = Absent]
    /\ UNCHANGED <<deployVars, born, head, coordinatorVars>>

----------------------------------------------------------------------------
(* What scripts are at work for on the server. *)
ScriptsRunning ==
    LET deploying == {c \in Call : task[c] = "running" /\ request[c].kind = Server}
    IN  {projectOf[c] : c \in deploying}
CleanupsRunning ==
    LET cleaning == {d \in Deletion : deletion[d] # Absent /\ deletion[d].cleans}
    IN  {deletion[d].project : d \in cleaning}

(* The process dies in the step that follows the clone: the project is     *)
(* there, or has lost its URL, and the deployment has no row.              *)
TornPreparation(c, p) ==
    /\ SaveProject(c, p)
    /\ UNCHANGED record

(* ... or in the first step of the task, between its two updates. *)
TornStart(c) ==
    /\ task[c] = "ready" /\ c \notin cancelling
    /\ record' = Recorded(c, "planning")
    /\ UNCHANGED <<projects, born>>

(* ... or after a success: the project has the new URL, the deployment's   *)
(* row has not heard of it.                                                *)
TornReturn(c) ==
    /\ stage[c] = "awaiting" /\ outcome[c] = "ok" /\ c \notin interrupted
    /\ Exists(projectOf[c])
    /\ projects' = Rewritten(projectOf[c], RowAfterSuccess(c))
    /\ UNCHANGED <<born, record>>

PhaseAfterDeath(torn) ==
    [c \in Call |-> IF c \in torn THEN "torn"
                    ELSE IF phase[c] \in {"analyzing", "cloned"} THEN "lost" ELSE phase[c]]

(* The process dies and starts again.  The tables keep what was committed, *)
(* be it the first half of a step (a death after deploy() has added its    *)
(* row, as late as before a refusal is noted, leaves what                  *)
(* CredentialsUnreadable does); a script already sent to the server may or *)
(* may not do its work.                                                    *)
ServiceRestart ==
    /\ Restart
    /\ \/ /\ \/ UNCHANGED tableVars
             \/ \E c \in Call : TornStart(c) \/ \E p \in Project : TornPreparation(c, p)
          /\ phase' = PhaseAfterDeath({})
       \/ \E c \in Call : TornReturn(c) /\ phase' = PhaseAfterDeath({c})
    /\ deletion' = [d \in Deletion |-> Absent]
    /\ \E left \in SUBSET ScriptsRunning, gone \in SUBSET CleanupsRunning :
           serverHolds' = (serverHolds \ gone) \cup left
    /\ UNCHANGED <<request, sha, projectOf, autoSeen, head>>

Push(r) ==
    /\ head[r] < MaxSha
    /\ head' = [head EXCEPT ![r] = @ + 1]
    /\ UNCHANGED <<deployVars, tableVars, serverHolds, deletion, coordinatorVars>>

RunNext(c) == TaskStarts(c) \/ TaskCancelledEarly(c) \/ TaskEnds(c) \/ DeployReturns(c)

DeployNext ==
    \/ \E c \in Call, u \in User, r \in Repo, k \in Kind : StartDeploy(c, u, r, k)
    \/ \E c \in Call, u \in User, p \in Project : StartExisting(c, u, p)
    \/ \E c \in Call : Cloned(c) \/ AnalysisFails(c) \/ RunNext(c)
    \/ \E c \in Call, p \in Project :
           Admit(c, p) \/ Reject(c, p) \/ CredentialsUnreadable(c, p)
    \/ \E u \in User : CancelCurrent(u)
    \/ \E u \in User, p \in Project, on \in BOOLEAN : SetAutoDeploy(u, p, on)
    \/ \E d \in Deletion, u \in User, p \in Project : BeginDelete(d, u, p)
    \/ \E d \in Deletion : EndDelete(d)
    \/ \E r \in Repo : Push(r)
    \/ ServiceRestart

(* As for the coordinator: the event loop runs what it can, and executors  *)
(* end when they are cancelled.  A run, a clone and a clean-up that nobody *)
(* cancels are not fair.                                                   *)
DeployFairness == \A c \in Call : WF_serviceVars(~Executing(c) /\ RunNext(c))

DeploySafety == DeployInit /\ [][DeployNext]_serviceVars
DeploySpec == DeploySafety /\ DeployFairness

----------------------------------------------------------------------------
(* The status in the deployments table tells the truth about the run: it   *)
(* is final exactly when deploy() has returned, and then it is the         *)
(* verdict; it is never Successful for a run whose cancellation had been   *)
(* accepted; what a crash or unreadable credentials interrupt stays        *)
(* unfinished, as the README says of a restart.                            *)
RecordsFollowRuns ==
    \A c \in Call : record[c] # "none" =>
        /\ phase[c] \in {"run", "broken", "torn"}
        /\ stage[c] = "returned" => record[c] = Verdict(result[c])
        /\ stage[c] # "returned" => record[c] \in {"queued", "planning", "running"}
        /\ record[c] = "planning" => task[c] = "killed"
        /\ task[c] = "ready" => record[c] = "queued"
        /\ task[c] = "running" => record[c] = "running"
        /\ c \in cancelling => record[c] # "successful"

(* A deployment's row exists exactly as long as the row of its project,    *)
(* which belongs to the user and the repository it was started for -       *)
(* whatever was deleted and deployed again in the meantime.                *)
HistoryBelongsToProjects ==
    \A c \in Call : phase[c] \in {"run", "broken", "torn"} =>
        /\ record[c] # "none" <=> Exists(projectOf[c])
        /\ Exists(projectOf[c]) => /\ projects[projectOf[c]].owner = request[c].user
                                   /\ projects[projectOf[c]].repo = request[c].repo

(* A deployment that has succeeded, as its caller was told - or would have *)
(* been, had the process not died between the project's row and its own.   *)
Succeeded(c) == result[c] = "ok" \/ phase[c] = "torn"

(* The URL a project shows is that of a deployment of this project that    *)
(* succeeded, with the target and the commit shown next to it.             *)
ShownUrlIsReal ==
    \A p \in Project : Exists(p) /\ projects[p].live # NoCall =>
        LET c == projects[p].live IN
        /\ Succeeded(c) /\ projectOf[c] = p
        /\ projects[p].kind = request[c].kind
        /\ projects[p].deployed = sha[c]

(* Two runs never work on one project, not even towards different targets, *)
(* whose target keys differ: its owner's entry in the coordinator keeps    *)
(* them apart, whoever pressed the button.                                 *)
OneRunPerProject ==
    \A c, d \in Call : Live(c) /\ Live(d) /\ c # d => projectOf[c] # projectOf[d]

(* A deleted project does not come back, nor does its history, when a      *)
(* deployment that was running during the deletion writes its result.      *)
DeletedStaysDeleted ==
    [][\A p \in Project : p \in born /\ ~Exists(p) =>
          /\ projects'[p] = Absent
          /\ \A c \in Call : projectOf[c] = p => record'[c] = "none"]_serviceVars

(* Refinement: what the two tables say. *)
ProjectIn(c) == IF record[c] = "none" THEN Absent ELSE projectOf[c]
ShownBy(p) == IF Exists(p) THEN projects[p].live ELSE NoCall
Torn == {c \in Call : phase[c] = "torn"}

History == INSTANCE DeploymentHistory WITH
               NoProject <- Absent,
               status <- record,
               of <- [c \in Call |-> ProjectIn(c)],
               present <- {p \in Project : Exists(p)},
               shown <- [p \in Project |-> ShownBy(p)],
               pending <- {c \in Call : projectOf[c] = Absent},
               fresh <- Project \ born,
               torn <- Torn

(* The use cases keep the promise of DeploymentHistory to whoever reads    *)
(* the tables: a deployment is recorded and concluded once, a success      *)
(* comes with its URL, a URL without its success tells that the process    *)
(* died in between, and what was deleted stays away.                       *)
ImplementsHistory == History!HistorySpec

(* How deploy(), the coordinator and the tables hang together; with the    *)
(* properties above an inductive invariant.                                *)
CallLinks ==
    \A c \in Call :
        /\ phase[c] = "idle" <=> request[c] = Absent
        /\ phase[c] \in {"run", "torn"} <=> stage[c] # "idle"
        /\ phase[c] \in {"run", "broken", "torn"} <=> projectOf[c] # Absent
        /\ phase[c] \notin {"run", "broken", "torn"} => record[c] = "none"
        /\ phase[c] \in {"run", "torn"} =>
               userOf[c] = request[c].user /\ keyOf[c] = <<request[c].kind, projectOf[c]>>
        /\ phase[c] = "torn" => stage[c] = "lost" /\ outcome[c] = "ok"

(* Ids come into the table before they come anywhere else. *)
IdsAreBorn ==
    /\ \A c \in Call : projectOf[c] # Absent => projectOf[c] \in born
    /\ \A p \in Project : Exists(p) => p \in born

(* A project id never changes hands: all deployments of it, those of a     *)
(* deleted project too, are of one user and one repository.                *)
IdsNeverChangeHands ==
    \A c, d \in Call :
        projectOf[c] = projectOf[d] /\ projectOf[c] # Absent =>
            request[c].user = request[d].user /\ request[c].repo = request[d].repo

DeployInv ==
    /\ DeployTypeOK
    /\ CallLinks
    /\ IdsAreBorn
    /\ IdsNeverChangeHands
    /\ RecordsFollowRuns
    /\ HistoryBelongsToProjects
    /\ ShownUrlIsReal

(* Every admitted deployment gives an answer to its caller and has a final *)
(* status then, or its row was deleted, unless the process dies first or   *)
(* the executor works for ever and nobody cancels it.                      *)
EveryDeploymentConcludes ==
    \A c \in Call : stage[c] = "awaiting" ~>
        \/ stage[c] = "returned" /\ record[c] \in {"none", "successful", "failed", "cancelled"}
        \/ stage[c] = "lost"
        \/ []Executing(c)

(* After "Cancelling the current deployment..." the deployment ends        *)
(* cancelled, or in the error its clean-up raised.                         *)
AcceptedCancelIsRecorded ==
    \A c \in Call : c \in cancelling ~>
        record[c] \in {"none", "failed", "cancelled"} \/ stage[c] = "lost"

----------------------------------------------------------------------------
(* What messages of the bot say, and the code does not keep.               *)

(* "Auto deploy disabled": it stays off until someone switches it on.      *)
AutoDeployStaysOff ==
    [][\A p \in Project :
          /\ Exists(p) /\ ~projects[p].auto
          /\ projects'[p] # Absent /\ projects'[p].auto
          => \E u \in User : SetAutoDeploy(u, p, TRUE)]_serviceVars

(* "All server resources and database records have been completely         *)
(* removed.", sent after every deletion.                                   *)
DeletedMeansRemoved == \A p \in born : ~Exists(p) => p \notin serverHolds
=============================================================================
