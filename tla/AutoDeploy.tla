----------------------------- MODULE AutoDeploy -----------------------------
(***************************************************************************)
(* infrastructure/deploy/auto_deploy.py and infrastructure/telegram/       *)
(* runner.py: the worker that polls GitHub and deploys what was pushed,    *)
(* beside the handlers, in a process that is started, stopped and killed.  *)
(*                                                                         *)
(* The worker awaits deploy() in its own task: what deploy() returns or    *)
(* raises reaches the worker in the same step.                             *)
(***************************************************************************)
EXTENDS DeployService

CONSTANT Served   \* the active users whose credentials can be decrypted

ASSUME ServedAssumption == Served \subseteq User

VARIABLES
    process,  \* whether the dispatcher polls Telegram, has stopped, or run_bot has returned
    worker,   \* where AutoDeployWorker.run is
    todo,     \* the projects of this cycle that are still to be checked
    held,     \* the project _check_project has read, and the head at that time
    job,      \* the call of deploy() the worker awaits
    asked     \* the calls whose user was answered "Cancelling the current deployment..."

workerVars == <<process, worker, todo, held, job, asked>>
autoVars == <<process, worker, todo, held, job, asked,
              phase, request, sha, projectOf, autoSeen, projects, born, record,
              head, serverHolds, deletion,
              stage, result, userOf, keyOf, interrupted,
              task, outcome, cancelling, userTasks, targetTasks>>

Held == [project : Project, row : Row, since : Sha]

ASSUME HeldAssumption == Absent \notin Held

AutoTypeOK ==
    /\ process \in {"up", "stopping", "exiting"}
    /\ worker \in {"asleep", "polling", "announcing", "deploying", "reporting", "stopped"}
    /\ todo \in SUBSET Project
    /\ held \in Held \cup {Absent}
    /\ job \in Call \cup {NoCall}
    /\ asked \in SUBSET Call

AutoInit ==
    /\ DeployInit
    /\ process = "up"
    /\ worker = "asleep"
    /\ todo = {}
    /\ held = Absent
    /\ job = NoCall
    /\ asked = {}

----------------------------------------------------------------------------
(* The loop of check_once, from one await to the next.                     *)

(* The start of _check_project, on the row as it is now. *)
Watched(p) == Exists(p) /\ projects[p].auto /\ projects[p].owner \in Served

(* Mutant: the project that was checked stays on the list. *)
GoOnAgain(rest) ==
    /\ job' = NoCall
    /\ \/ \E p \in {q \in rest : Watched(q)'} :
             /\ worker' = "polling"
             /\ todo' = rest
             /\ held' = [project |-> p, row |-> projects'[p], since |-> head[projects'[p].repo]]
       \/ /\ \A q \in rest : ~Watched(q)'
          /\ worker' = "asleep"
          /\ todo' = {}
          /\ held' = Absent

(* The next project that is watched is asked about; those before it are    *)
(* passed over.  When none is left the worker sleeps.                      *)
GoOn(rest) ==
    /\ job' = NoCall
    /\ \/ \E p \in {q \in rest : Watched(q)'},
             passed \in SUBSET {q \in rest : ~Watched(q)'} :
             /\ worker' = "polling"
             /\ todo' = rest \ (passed \cup {p})
             /\ held' = [project |-> p, row |-> projects'[p], since |-> head[projects'[p].repo]]
       \/ /\ \A q \in rest : ~Watched(q)'
          /\ worker' = "asleep"
          /\ todo' = {}
          /\ held' = Absent

(* Mutant: a project that was never deployed successfully is not listed. *)
ListedOnceDeployed == {p \in Project : Exists(p) /\ projects[p].auto /\ projects[p].deployed # 0}

(* list_auto_deploy() *)
Listed == {p \in Project : Exists(p) /\ projects[p].auto}

Wake ==
    /\ worker = "asleep"
    /\ UNCHANGED <<process, asked, serviceVars>>
    /\ GoOn(Listed)

(* What GitHub may answer: the head at some time since it was asked. *)
Answers == held.since..head[held.row.repo]

SeenAlready ==
    /\ worker = "polling"
    /\ held.row.triggered \in Answers
    /\ UNCHANGED <<process, asked, serviceVars>>
    /\ GoOn(todo)

(* No answer within 20 s, an error, or a row that cannot be asked about. *)
PollFails ==
    /\ worker = "polling"
    /\ UNCHANGED <<process, asked, serviceVars>>
    /\ GoOn(todo)

(* The row as it was read, with the new commit, is written back. *)
NewPush(h) ==
    /\ worker = "polling"
    /\ h \in Answers
    /\ h # held.row.triggered
    /\ worker' = "announcing"
    /\ held' = [held EXCEPT !.row.triggered = h]
    /\ projects' = Rewritten(held.project, held'.row)
    /\ UNCHANGED <<process, todo, job, asked,
                   deployVars, born, record, worldVars, coordinatorVars>>

(* send_message() raises: the push is forgotten. *)
AnnouncementFails ==
    /\ worker = "announcing"
    /\ UNCHANGED <<process, asked, serviceVars>>
    /\ GoOn(todo)

StartJob(c) ==
    /\ worker = "announcing"
    /\ Begin(c, held.row.owner, held.row.repo, held.row.kind)
    /\ worker' = "deploying"
    /\ job' = c
    /\ held' = Absent
    /\ UNCHANGED <<process, todo, asked>>

(* deploy() raises; check_once logs it. *)
JobRaises ==
    /\ worker = "deploying"
    /\ \/ AnalysisFails(job)
       \/ \E p \in Project : CredentialsUnreadable(job, p)
    /\ UNCHANGED <<process, asked>>
    /\ GoOn(todo)

(* deploy() returns a deployment, whatever became of it. *)
JobReturns ==
    /\ worker = "deploying"
    /\ \/ DeployReturns(job)
       \/ \E p \in Project : Reject(job, p)
    /\ worker' = "reporting"
    /\ job' = NoCall
    /\ UNCHANGED <<process, todo, held, asked>>

(* The report was sent, or was not. *)
Reported ==
    /\ worker = "reporting"
    /\ UNCHANGED <<process, asked, serviceVars>>
    /\ GoOn(todo)

----------------------------------------------------------------------------
(* Everybody else.                                                         *)

(* Updates from Telegram, while the dispatcher runs. *)
Handled ==
    /\ process = "up"
    /\ \/ /\ \/ \E c \in Call, u \in User, r \in Repo, k \in Kind : StartDeploy(c, u, r, k)
             \/ \E c \in Call, u \in User, p \in Project : StartExisting(c, u, p)
             \/ \E u \in User, p \in Project, on \in BOOLEAN : SetAutoDeploy(u, p, on)
             \/ \E d \in Deletion, u \in User, p \in Project : BeginDelete(d, u, p)
          /\ UNCHANGED workerVars
       \/ \E u \in User :
             /\ CancelCurrent(u)
             /\ asked' = asked \cup {userTasks[u]}
             /\ UNCHANGED <<process, worker, todo, held, job>>

(* Deployments up to the point where their caller is the one to go on. *)
Underway ==
    /\ \E c \in Call : Cloned(c) \/ \E p \in Project : Admit(c, p)
    /\ UNCHANGED workerVars

(* Deployments of the handlers that end before the coordinator. *)
TurnedDown ==
    /\ \E c \in Call \ {job} : \/ AnalysisFails(c)
                               \/ \E p \in Project : Reject(c, p) \/ CredentialsUnreadable(c, p)
    /\ UNCHANGED workerVars

(* The steps of a run, and of its caller if that is a handler. *)
Advances(c) ==
    /\ \/ TaskStarts(c) \/ TaskCancelledEarly(c) \/ TaskEnds(c)
       \/ c # job /\ DeployReturns(c)
    /\ UNCHANGED workerVars

Elsewhere ==
    /\ \/ \E d \in Deletion : EndDelete(d)
       \/ \E r \in Repo : Push(r)
    /\ UNCHANGED workerVars

----------------------------------------------------------------------------
(* The process.                                                            *)

(* Mutant: an analysis does not notice that it is cancelled. *)
AnalysesGoOn(S) == UNCHANGED phase

(* An analysis that is cancelled ends deploy() without a trace. *)
AnalysesCancelled(S) ==
    phase' = [c \in Call |-> IF c \in S /\ phase[c] \in {"analyzing", "cloned"}
                             THEN "refused" ELSE phase[c]]

(* The calls of deploy() that return a deployment when they are cancelled. *)
Outliving == {c \in Call : phase[c] = "run"}

WorkerStops ==
    /\ worker' = "stopped"
    /\ todo' = {}
    /\ held' = Absent
    /\ job' = NoCall

(* Polling ends and the worker is cancelled, once.  A deployment that runs *)
(* takes the cancellation for its own: the worker gets a result and stays. *)
StopPolling ==
    /\ process = "up"
    /\ process' = "stopping"
    /\ \/ /\ job \notin Outliving
          /\ WorkerStops
          /\ AnalysesCancelled({job})
          /\ UNCHANGED coordinatorVars
       \/ /\ job \in Outliving
          /\ CancelCallers({job})
          /\ UNCHANGED <<worker, todo, held, job, phase>>
    /\ UNCHANGED <<asked, request, sha, projectOf, autoSeen, tableVars, worldVars>>

(* The worker has ended, run_bot returns, and asyncio.run cancels what is  *)
(* left: deployments and the clean-ups of deletions.                       *)
Exit ==
    /\ process = "stopping"
    /\ worker = "stopped"
    /\ process' = "exiting"
    /\ CancelCallers({c \in Call : stage[c] = "awaiting"})
    /\ AnalysesCancelled(Call)
    /\ deletion' = [d \in Deletion |-> Absent]
    /\ \E gone \in SUBSET CleanupsRunning : serverHolds' = serverHolds \ gone
    /\ UNCHANGED <<worker, todo, held, job, asked,
                   request, sha, projectOf, autoSeen, tableVars, head>>

(* The process is killed, or has ended, and is started again. *)
AutoRestart ==
    /\ ServiceRestart
    /\ process' = "up"
    /\ worker' = "asleep"
    /\ todo' = {}
    /\ held' = Absent
    /\ job' = NoCall
    /\ UNCHANGED asked

PollEnds == SeenAlready \/ PollFails \/ \E h \in Sha : NewPush(h)
Announced == AnnouncementFails \/ \E c \in Call : StartJob(c)

AutoNext ==
    \/ Wake \/ PollEnds \/ Announced \/ JobRaises \/ JobReturns \/ Reported
    \/ Handled \/ Underway \/ TurnedDown \/ Elsewhere
    \/ \E c \in Call : Advances(c)
    \/ StopPolling \/ Exit \/ AutoRestart

(* Runs advance as in DeployService.  The sleep ends; GitHub is given 20   *)
(* seconds and Telegram the time-out of its client.                        *)
AutoFairness ==
    /\ \A c \in Call : WF_autoVars(~Executing(c) /\ Advances(c))
    /\ WF_autoVars(JobReturns)
    /\ WF_autoVars(Wake)
    /\ WF_autoVars(PollEnds)
    /\ WF_autoVars(Announced)
    /\ WF_autoVars(Reported)

AutoSafety == AutoInit /\ [][AutoNext]_autoVars
AutoSpec == AutoSafety /\ AutoFairness

----------------------------------------------------------------------------
(* The worker waits only for a deployment that is under way, and nobody    *)
(* else's; what it holds is a row of the table as it once was, of the same *)
(* owner and repository as now; and nothing is left running that was not   *)
(* told to stop when the process exits.                                    *)
AutoInv ==
    /\ AutoTypeOK
    /\ worker = "deploying" <=> job # NoCall
    /\ job # NoCall => phase[job] \in {"analyzing", "cloned"} \/ stage[job] = "awaiting"
    /\ worker \in {"polling", "announcing"} <=> held # Absent
    /\ held # Absent /\ Exists(held.project) =>
           /\ held.row.owner = projects[held.project].owner
           /\ held.row.repo = projects[held.project].repo
    /\ held # Absent => held.project \in born
    /\ process = "up" => worker # "stopped"
    /\ process = "exiting" =>
           /\ worker = "stopped"
           /\ \A c \in Call : /\ phase[c] \notin {"analyzing", "cloned"}
                              /\ Live(c) => c \in cancelling

(* The worker waits for an analysis or an executor, which no time-out ends.*)
HeldUp ==
    /\ worker = "deploying"
    /\ phase[job] \in {"analyzing", "cloned"} \/ Executing(job)

(* Whatever GitHub, Telegram and the deployments do, the worker comes back *)
(* to its sleep again and again, unless it is stopped, or the analysis or  *)
(* the executor of its own deployment never comes to an end.               *)
WorkerComesBack == []<>(worker \in {"asleep", "stopped"}) \/ <>[]HeldUp

(* A commit the worker has not noticed, on a branch it watches. *)
Lags(p) == Watched(p) /\ projects[p].triggered # head[projects[p].repo]

AnswersFor(p) == held # Absent /\ held.project = p /\ (SeenAlready \/ \E h \in Sha : NewPush(h))

(* No push is overlooked for ever: while GitHub now and then answers about *)
(* the project, and the process is not restarted all the time, it is       *)
(* noticed - whatever rows others write back - unless the worker is        *)
(* stopped, or held up by its own deployment for ever.                     *)
PushesAreNoticed ==
    \A p \in Project :
        SF_autoVars(AnswersFor(p)) /\ <>[][~AutoRestart]_autoVars =>
            []<>(~Lags(p) \/ worker = "stopped") \/ <>[]HeldUp

(* A deployment is recorded as cancelled only if a user has cancelled it,  *)
(* or while the bot is being stopped, which deploy() takes for the same.   *)
CancelledForAReason ==
    [][\A c \in Call : record'[c] = "cancelled" /\ record[c] # "cancelled"
                        => c \in asked \/ process # "up"]_record
=============================================================================
