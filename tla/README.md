# Verification of Army Deploy

TLA+ models of the Army Deploy bot (`src/src/armybot`), the TLC runs that check
them on small instances and TLAPS proofs of their main theorems. Paths below are
relative to `src/src/armybot` unless they start with `src/`.

## 1. The system

Army Deploy is a Telegram bot, one Python process on one asyncio event loop.
Users send it a repository; it clones and analyzes it, picks a recipe and runs
it over SSH on the user's server, or hands it to a hosting platform. A worker
polls GitHub and redeploys projects whose branch has moved. Users, credentials,
projects and deployments are kept in SQLite (or PostgreSQL).

| component | state | operations | talks to |
|---|---|---|---|
| Deployment coordinator (`infrastructure/deploy/coordinator.py`) | `_user_tasks`, `_target_tasks`: the asyncio task registered for a user and for a target; in memory | `run`, `cancel_for_user` | awaited by the use cases; awaits the executors |
| Deploy use cases (`application/use_cases/deploy.py`) with their tables (`infrastructure/database/sqlite_store.py`) | tables `projects`, `deployments`; the `Project` and `Deployment` objects an invocation holds across awaits | `deploy`, `deploy_existing`, `set_auto_deploy`, `cancel_current`, `delete_project` | analyzer, credentials, coordinator, executors |
| Auto-deploy worker (`infrastructure/deploy/auto_deploy.py`, `github_monitor.py`) | `last_triggered_sha` of each project; its own position | `run`, `check_once`, `_check_project`; cancelled by `infrastructure/telegram/runner.py` | GitHub, Telegram, `deploy` |
| Remote recipe executor (`remote_executor.py`, `recipe_support.py`, `ssh_client.py`) | on the server: release directories, the `current` link, systemd units, nginx locations | `deploy`, `cleanup_project` | SSH |
| Access control (`application/use_cases/access.py`) | tables `users`, `username_invites`, `phone_invites` | request, invite, approve, reject, suspend, un-reject | handlers |
| Credentials (`application/use_cases/credentials.py`, Fernet box) | table `user_credentials` | `save`, `load_all` | use cases |
| AI agents (`ai_agent.py`) | the conversation with the model, the commands already run | `deploy`, agent loop | model API, SSH |
| Platform executors (`platform_executors.py`) | work directories, remote services | `deploy` for Railway, Firebase, GitHub Pages | CLIs, HTTP |
| Analyzer (`analyzer.py`) | a temporary clone | `analyze` | git |
| Handlers (`presentation/telegram`) | chat state | one use case each | everything |

What is hard in it:

- *Interleaving.* Telegram updates are handled concurrently. Between two awaits
  a handler is atomic, at each await anything else may run: another deployment,
  a cancellation, a change of the auto-deploy switch, a deletion, the worker.
- *Objects held across awaits.* `deploy` reads a `Project`, waits for minutes
  and then writes all its columns back.
- *Tasks and callers.* The coordinator creates a task and waits for it. The task
  can be done before the caller runs its `finally`, can be cancelled before its
  first step, and the caller itself can be cancelled.
- *Crashes.* The registries are in memory, the tables are not, and each row is
  written in a transaction of its own; a script that was sent to a server outlives the process.
- *Statements.* On PostgreSQL every query suspends, and what a session has written is
  seen by others when it commits.
- *Commands that outlive their deployment*: a cancelled CLI command is not stopped.
- *Swallowed failures*: of builds, of clean-ups and of their commands, of announcements, of a worker's
  cycle, of a connection that breaks.
- *Waits without a time-out*: an executor may never come to an end.

Correctness, per component: the coordinator keeps deployments of one user and of
one target apart, reaches every live deployment with a cancellation, leaks no
entry and refuses nobody without a reason. The use cases keep the tables
truthful about what ran. The worker should notice every push, deploy what it
noticed, and stop when told to. The executor should leave a `current` release that
exists, and a deletion should leave nothing. Access control should let in exactly those
an admin let in. `PROJECT.json` lists the hazards at their lines.

## 2. Modules

| module | models | extends |
|---|---|---|
| `DeploymentClaims` | what the coordinator promises, without registries, tasks and clean-up | |
| `Coordinator` | `coordinator.py` on asyncio | refines `DeploymentClaims` |
| `CoordinatorProofs` | proofs about `Coordinator` | `Coordinator` |
| `DeploymentHistory` | what the tables `projects` and `deployments` promise their readers, without use cases, sessions and runs | |
| `DeployService` | `deploy.py` and the tables `projects`, `deployments` | `Coordinator`; refines `DeploymentHistory` |
| `DeployServiceProofs` | proofs about `DeployService` | `DeployService`, `CoordinatorProofs` |
| `AutoDeploy` | `auto_deploy.py`, `github_monitor.py`, `runner.py` beside the handlers | `DeployService` |
| `AutoDeployProofs` | proofs about `AutoDeploy` | `AutoDeploy`, `DeployServiceProofs` |
| `Releases` | `remote_executor.py`, `recipe_support.py`, `ssh_client.py`: one project on its server | |
| `ReleasesProofs` | proofs about `Releases` | `Releases` |
| `Membership` | what access control promises, without rows, roles and what is stored in them | |
| `Access` | `access.py`, its handlers and the tables of users and invites | refines `Membership` |
| `AccessProofs` | proofs about `Access` | `Access` |
| `DeployTransactions` | `deploy.py` on PostgreSQL: one statement of a session a step | `Coordinator`; refines `DeploymentHistory` |
| `DeployTransactionsProofs` | proofs about `DeployTransactions` | `DeployTransactions`, `CoordinatorProofs` |
| `AgentLoop` | the agents of `ai_agent.py` | |
| `AgentLoopProofs` | proofs about `AgentLoop` | `AgentLoop` |
| `Platforms` | `platform_executors.py`: the deployments of one project to Railway, Firebase and GitHub Pages | |
| `Executors` | which of the two a deployment gets | `AgentLoop`, `Platforms` |
| `ExecutorsProofs` | proofs about `Platforms` and about the two together | `Executors`, `AgentLoopProofs` |
| `MCDeployService`, `MCDeployTransactions`, `MCAutoDeploy`, `MCReleases`, `MCExecutors`, `MCAccess` | instances for TLC | |

`Releases`, `Access`, `AgentLoop` and `Platforms` stand alone. `Releases` details what `DeployService` abstracts to
`TaskEnds`, `EndDelete` and `serverHolds`; it takes from the coordinator only that one
deployment of a project has a session at a time (`Send`; `OneRunPerProject` and
`ExclusiveDeployments` are the reason). `Platforms` takes the same from it (`Started`).
`Access` decides who may call the use cases; `DeployService` takes its users as active.
`DeployService` and `DeployTransactions` are the same use cases on the two databases.

### Coordinator

A member of `Call` is one invocation of `run` with the task it creates. `stage`
is where the caller is (`awaiting` is the `await task` of line 46), `task` where
the task is. The sections under `self._guard` contain no await, and the guard is
therefore never contended: each is one step. What the module keeps apart is what
the event loop keeps apart:

- `RunRejected`, `RunAdmitted`: lines 24-43.
- `FirstStep`, `Finish`: the task. `EndsBeforeStart`: a task that was cancelled
  while `ready` gets `CancelledError` before the operation's first line.
- `Resume`: the caller runs its `finally` (lines 47-52), in a later step than the
  end of the task. A call admitted in between has overwritten the entries.
- `CancelForUser`: lines 54-60. `CancelCallers`: `Task.cancel()` on awaiting
  tasks, as `runner.py` does to the worker and `asyncio.run` to all tasks that are
  left: forwarded to a live task, thrown into the caller when the task is done.
- `Restart`: the process dies, the registries are empty again.

An operation need not end (`Executing`; see *Fairness* in section 3). One that is cancelled ends cancelled, or in an error raised by its
clean-up; none of the executors catches `CancelledError` (`Endings`).

`DeploymentClaims` knows only which requests were granted to a user or on a target, and
whether they are active; that one which was told to stop is concluded is its only liveness. `Coordinator` refines it with `status`, the claims and
`stopping` as functions of its own state (`Claims`, `AbstractStatus`).

### DeployService

A member of `Call` is one invocation of `deploy`, followed from the analysis
(`phase`) through the coordinator (`stage`, `task`, taken over from `Coordinator`)
to the writing of its result. `projects` is the table, by id; a row's `live` is
the call whose URL it shows. `record` is the status column of the call's row in
`deployments`, `none` where there is no row.

The SQLite repositories are coroutines that never suspend, so everything between
two awaits of a subprocess, the network or the coordinator's task is one step for the other tasks. It is not for
the death of the process: every repository call is a transaction of its own.

- `StartDeploy`, `StartExisting`, `Cloned`, `AnalysisFails`: up to the end of
  `analyze`; the commit is fixed by the clone, the answer comes later.
- `Prepare` (lines 54-109) looks the project up or inserts it, changes its
  target, and inserts the record; it continues into `Admit` or `Reject`, by the
  coordinator's `RunAdmitted` and `RunRejected`, or `CredentialsUnreadable`, all
  in the same step.
- `TaskStarts` writes Planning and then, without suspending, Running (lines 111-118); `TaskEnds`
  is the end of the executor; `DeployReturns` is the rest of `deploy` (lines 120-146).
- `ServiceRestart`: the process dies, between two steps or within one that commits twice. Then the first commit
  stays: the project without the deployment's row, or without the URL of its old target (`TornPreparation`, lines 65
  and 70 before 97), the status Planning (`TornStart`, line 114 before 117), the URL of a success
  without the success (`TornReturn`, line 136 before 145; `phase` is `torn` from then on).
- `SetAutoDeploy`; `BeginDelete` and `EndDelete` around the remote clean-up;
  `CancelCurrent`; `Push` on the Git host. The two `DELETE`s of a deletion are one transaction.

`May` is the permission check the use cases share. The target key is
`<<kind, project>>`: the owner's credentials contribute a host and a path, which
are the same for two deployments of one project to one target.

Of the server the module keeps only `serverHolds`, the projects of which
something is there: a successful run leaves files, one that failed, was cancelled or
was cut off by a crash may have, and a clean-up may remove them.

### DeploymentHistory

What a reader of the two tables may rely on, whichever database they are in: a deployment enters the
history of its project once (`Enter`: creating the project, keeping its row, or taking its URL away because the target is
another one), advances through `queued`, `planning`, `running` and is concluded once (`Conclude`), a success together with
its URL. What a death of the process may leave instead is named: a URL whose deployment is never concluded (`Tear`, `torn`)
and a project without a deployment (`Create`). A project that is deleted takes its history along and its id is
never used again (`Delete`, `fresh`); the URL it shows is always that of a success of its own, or of a torn deployment
(`Restore` is a row that is written back as it was earlier, or loses its URL). Ids and calls may be given up without a
trace (`GiveUp`).

`DeployService` and `DeployTransactions` refine it (`ImplementsHistory`): `status` is the table of
deployments, `of` the project of a call that has a row there, `present` and `shown` are the rows of projects. A call is
`pending` while it has no project (`DeployService`) or is before its `INSERT` into `deployments`
(`Unrecorded` in `DeployTransactions`, where only what is committed is seen, so that the steps of uncommitted
statements are stutters). On PostgreSQL nothing is ever torn (`torn <- {}`), because the project's row is only flushed and
committed together with the deployment's; on SQLite `torn` are the calls whose phase is. Whoever moves the bot from one
database to the other keeps this promise to the readers.

### DeployTransactions

The use cases of `DeployService` on PostgreSQL, where every query is an `await`. A member of
`Session` is a call of `deploy` or one of the other sessions that write `projects`
(`delete_project`, `set_auto_deploy`, the worker's check, which is the same statements as the
switch on another column); `at` is the statement it is before, or what it waits for instead.
The module looks at the tables through one user's one repository: `(user_id, repo_url, branch)` is
unique, so `projects` has one row at most, `table`.

- A statement sees what is committed; a write locks the row until its session commits
  (`writer`, `written`); writers wait. `deployments.add` and `deployments.update` commit,
  `projects.add` and `projects.update` only flush (`sqlalchemy_repositories.py:231`, `245`, `284`, `295`), so that what
  they wrote is committed by the next statement of `deployments`, or at the end of the scope (`ScopeEnds`).
- `Select`, `Flush`: `update()` SELECTs the row again and writes the columns in which the
  entity differs (`Merged`), by primary key; a row that has gone in between is `StaleDataError`, a row that was not there
  `LookupError`.
- `Insert` meets the unique key, `Record` the foreign key, `CascadeBlocks` the locks that a
  pending `DELETE` takes on the rows of `deployments`.
- `CutShort`: `/cancel` is thrown into a query of the task. The query may have been carried
  out or not, and the session may be of no use afterwards (`spoiled`): then the verdict is not
  written and the record keeps its unfinished status, which `RecordsTellTheRun` names as one of two
  ways to end like that.
- `TransactionsRestart`: the database rolls back what was not committed.

`MixtureNeedsARace` says when a row may show the URL of one target beside the
name of another: only after a commit between the SELECT and the UPDATE of `update()`. That this
happens is a fact of the code (`src/tests/test_deployment_targets.py:166` expects the target
of the deployment on a single writer). `Waits` says which
statements the database makes wait: writes, for the lock of the row, and writes of `deployments` for a pending `DELETE`.
`NobodyIsStuck` says that whoever waits waits for another session that does not (`WaitsEnd`), and that
`Waits` is the only reason for which a session before a statement cannot go on.

Not modelled here: the pool of 15 connections, of which a deployment holds one during its clone (its
run comes after the commit of Running);
users and invitations; the cancellation of callers at shutdown.

### AutoDeploy

The worker and the life of the process, composed with `DeployService`: the
worker's calls of `deploy` are members of `Call` like those of the handlers. The
worker runs `deploy` in its own task, so what a call returns or raises reaches it
in the same step (`JobReturns`, `JobRaises`); `job` is the call it waits for.

- `Wake` lists the watched projects; `GoOn` goes to the next one that still is
  (`Watched` is evaluated on the row of that moment) or back to sleep. `todo` is a set, because
  the order of the rows means nothing.
- While GitHub is asked (`polling`) and the push is announced, the worker keeps
  the row it has read (`held`). `NewPush` writes that row back with the new commit
  before the announcement. The answer is the head at any time since the question (`Answers`).
- `AnnouncementFails`, `PollFails`, `JobRaises` are the exceptions `check_once`
  swallows; each goes on to the next project.
- `StopPolling`: the dispatcher has ended and `runner.py:37` cancels the worker, once. Asleep,
  polling, announcing, reporting or waiting for an analysis it ends; waiting for a run
  it gets a deployment back and stays. `Exit`: the worker has ended, `run_bot`
  returns and `asyncio.run` cancels what is left. `AutoRestart`: the process is killed, or has
  ended, and is started again.
- Handlers act while the process is `up`; what they have started goes on after.

`Served` stands for the users that are active and whose credentials can be
decrypted. The setting `auto_deploy_enabled` of the process is on.

`deploy` takes every `CancelledError` for the user's (lines 137-139), so a deployment that
the end of the bot cancels is recorded as cancelled by the user; `CancelledForAReason` says that there
is no third way. A worker whose only cancellation was swallowed that way goes on polling, and
`run_bot` waits for it until the process is killed (`runner.py:38`).

### Releases

One project on its server: directories of releases with the order of their
modification times (`older`), the link `current`, the systemd unit (`service`: the release
it runs in), the nginx include on disk (`conf`) and the one nginx has loaded (`route`).

A deployment is a script of `Recipe`: a sequence of steps that the script of that
stack takes, in the order of its text. `set -e` ends it at any command that fails
(`Stops`), with everything done so far left in place. A build that fails ends the script only where the recipe does not
swallow it (`swallows`): with `|| true` (`remote_executor.py:192`, `428`, `452`, `660`, `663`, `757`, `1129`, `1376`) the script goes on
and uses the release `unbuilt`. The steps are the same in
most recipes - `prepare`, `clone`, `env`, `build`, `service`, `conf`, `reload`,
`verify`, `link`, `prune` - and differ in whether there is a service, whether nginx
checks its include, and whether the include serves files of the release, sends to
the service, or does both. What is abstracted: the build commands, ports, the contents of
units and includes other than the release they name, databases, `.env`.

- `Send`, `SessionEnds`, `SessionLost`: `deploy` and `SSHClient.run`. After a
  time-out, a cancellation or a crash the deployment has failed and the script goes on, until it next prints
  to the session that is gone (`says` lists the steps that begin with an `echo`; `At`). After a broken
  connection it does so, too, but the deployment is a success: asyncssh's `run` has no exit status then,
  `ssh_client.py:74` makes it 0, and `remote_executor.py:76` asks for nothing else.
- `AppWrites`: a running application creates a file in its release, which is then the
  newest. `OtherReload`: another project reloads nginx, and with it this one's include.
- `BeginErase` to `EraseFiles`: `cleanup_project`, without `set -e`. Each of its commands may fail (`Fails`): the unit or
  the include stays, nginx is not reloaded, `rm -rf` leaves any part of the files. The script goes on and ends with
  exit code 0. `EraseCut`: its session is lost.
- `disturbed`, `met` and `stuck` are history: whether two scripts worked at once, an application wrote
  at the wrong moment or a deletion began, whether the clean-up met a script, and which of its steps have failed. `before` is history, too: the scripts that
  were sent before each one. `NobodyInSession` is what `Send` takes from the coordinator.

`OnlyFinishedBuildsAreUsed` says what `set -e`, lost sessions and the order of the steps leave of "built": nothing is used
before its build is over, and with Spring Boot and Laravel, the two recipes that swallow no failed build
(`composer install`, `mvn package`), nothing whose build has failed. `SuccessIsServed` is about the deployments
whose script ended with exit code 0: those reported as successes because the connection broke are in `lost`, and may have
got nowhere. `NothingIsLeft` says of every thing that a clean-up leaves that its own command has failed.
`NeverGoesBack` says for which reason alone what an earlier deployment has put in place comes back after
a later one: the earlier one has lost its session and runs on. It is the reason to keep
`NobodyInSession`: two scripts that are both in session would overwrite each other in any order.

### Access

`account` is the table `users`, `nameInvites` and `phoneInvites` the tables of
invitations, which no code removes. Handlers do not suspend between reading and
writing a row: each operation is one step. `Loaded` is `_row_to_user`, which never loads the phone
(`"phone_number" in row` searches the values of a `sqlite3.Row`), so every update erases it.
`holds` is the username somebody has on Telegram (`Rename`), `seen` the usernames and phones
the bot has had from each person, `vouched` what admins have let in; the last two are history
variables of the properties. A restart changes nothing, as long as the settings keep
their super admins.

`Membership` states the promise without the tables: nobody becomes a member but a super admin of the settings, somebody whom
one lets in - for a sign that person has shown, or as this account -, and somebody with an invited sign; a username
helps only who comes for the first time, a phone also who was sent away; and only a super admin of the settings who is a
member decides. `Access` refines it (`ImplementsMembership`) with `standing` read off the row (`StandingOf`). What
the refinement is about is what `Membership` does not have: that `role` and `status` in the row
decide who may administer, that rows keep usernames of which others are the holders now, and that
each reading of a row loses its phone.

### AgentLoop

One deployment by a language model. Of the conversation the module keeps its shape: who
speaks, and how many calls a reply asks for. What a call is - a command (`RunCommand`), a
function that does not exist (`UnknownCall`), the end (`Complete`) - is decided when its
turn comes. `messages` holds what `_compact_messages` can still send: the last `Window`
messages of Groq's conversation, since nothing older is ever read again. Gemini's chat
object sends all of its own and is not followed. `Tries` are the attempts at one
request, `MaxCommands` is checked before a request only, so one reply may pass it (`AgentInv`
says by how much). `gave_up` is a return without an error: the caller records such a
deployment as successful.

### Platforms and Executors

A member of `Run` is one deployment of the project to a platform, numbered in their order.
`command` is the CLI command or HTTP request it waits for. `Follows` is the chain of each
platform, `Advance` its next link; the commands of a build, and those of git before the push, which happen in the
workspace only, are one link.

- `Works`: what a command does outside of this machine - `railway init` makes a project,
  `up`, `firebase deploy` and `git push` publish. A command that fails or is killed may have done
  so or not (`WorksOrNot`).
- `Kill`, `Drained`: the time-out of `_run`. After `kill()` it reads to the end what was printed, which
  children that live on may put off for ever (lines 79-80).
- `Cancel`: nobody kills the command; it goes on as an orphan (`orphans`, `OrphanEnds`), and a clone or a build may write the
  directory again that `finally` has removed. If the command was killed before, its children go on. A CLI command
  after the build is taken not to write the directory again, and `rmtree(ignore_errors=True)` to succeed. `PlatformRestart`: the process dies, its command need not.
- `ListsDomains`: any failure of `railway domain` leads to `domain list`. `PagesBusy`: 409 and 422, twice.
- `config` is `target_config`: the Railway project, as long as the target stays the same (`Started`).
  `serves` says which deployment a place shows; `PlaceOf` is the place a deployment goes to.

`SuccessIsServedHere`, `FilesAreRemoved` and `RailwayProjectsAreReused` say for which reasons alone
another deployment is shown, files remain and a second Railway project appears.

`Executors` composes the two: `container.py` gives a deployment to the server an agent when
`EXECUTION_MODE=ai`, and one to a platform its executor. They share no state, so a behaviour is of the
one kind or the other.

## 3. Runs

| run | specification and bounds | what it checks |
|---|---|---|
| `service` | `DeploySafety`; an owner and an admin, 2 projects, 1 repository, 2 targets, 2 calls, 1 deletion, 1 push | `RecordsFollowRuns`, `HistoryBelongsToProjects`, `ShownUrlIsReal`, `OneRunPerProject`; of the coordinator `CoordinatorInv` (with `LiveIsRegistered`, `EntriesAreHeld` and `AcceptedCancelSticks` among its parts), `ExclusiveDeployments`, `RefusedOnlyWhenBusy`; `ImplementsHistory` |
| `service_live` | `DeploySpec`; an owner and an admin, 1 project, 2 targets, 2 calls, 1 deletion, no push | `EveryDeploymentConcludes`, `AcceptedCancelIsRecorded`, `ImplementsClaims` |
| `postgres` | `TransactionsSpec`; 1 user, 1 repository, 2 targets, 2 calls, 1 other session, used again and again | `TransactionsInv`, `RecordsTellTheRun`, `NobodyIsStuck`, `SuccessIsSaved`, `MixtureNeedsARace`, `ImplementsHistory` |
| `auto` | `AutoSafety`; 1 user, 1 project, 1 target, 2 calls, 1 deletion, 1 push | `AutoInv`, `DeployInv`, `DeletedStaysDeleted`, `CancelledForAReason` |
| `auto_live` | `MCAutoSpec`; 1 user, 1 project, 1 target, 2 calls, no deletion, 1 push | `WorkerComesBack`, `PushesAreNoticed` |
| `executors` | `MCExecutorsSpec`; 3 deployments to any platforms, the third one to Railway; both agents, 3 commands, replies of up to 13 calls, a window of 12 | `FilesAreRemoved`, `SuccessIsServedHere`, `RailwayProjectsAreReused`; `AgentInv`, `RequestsAreConversations`, `AnswersAreSeen`; `DeploymentsEnd` |
| `releases` | `ReleasesSpec`; 2 scripts, 2 recipes (static, Spring Boot), 1 clean-up | `ReleasesInv`, `OnlyFinishedBuildsAreUsed`, `RouteWorks`, `SuccessIsServed`, `NothingIsLeft`, `NeverGoesBack` |
| `access` | `AccessSpec`; 1 super admin, 2 others, 1 username (`BossesAreUnnamed`), 1 phone | `AccessInv`, `ActiveWereLetIn`, `SentAwayStaysAway`, `ImplementsMembership` |
| `auto_switch_message` | `DeploySpec`; 1 user, 1 project, 2 targets, 2 calls, 1 deletion | finding: `AutoDeployStaysOff` is violated |
| `deletion_message` | as before, `DeploySafety` | finding: `DeletedMeansRemoved` is violated |
| `current_release` | `ReleasesSpec`; 2 scripts, Python | finding: `SuccessBecomesCurrent` is violated |
| `invited_start` | `AccessSpec`; 1 super admin, 1 other | finding: `InvitedStartActivates` is violated |

*Bounds.* `MaxSha` bounds the pushes, `MaxCalls` the calls of a reply; everything else is finite because a call is made
once. In the service two calls are enough for a run to
overlap an analysis, a change of target, a deletion and a redeployment under a new
id, which is why there are two project ids for one repository; one more call was
checked once for one user and one project without new results. The coordinator has one case that
takes three calls - one whose task is done and
whose clean-up is due, one that took its place, and one that is refused or admitted
because of the entry that is left; it was checked once without the service around it, and the theorems about
the coordinator hold for any number of calls. On PostgreSQL two calls
race for the row, and the other session may edit or delete between any two of their statements, any number of times. With the
worker, one call is a user's, creates the project and can be anywhere when the worker looks (`OneEach` keeps the two apart
where the calls cannot be interchanged), and the other is the worker's. In `Releases` two scripts are an old
deployment and a new one, one that lost its session and the one beside it. The two recipes of
the run are extremes: the static one serves files, checks its include and swallows a failed build,
Spring Boot's has a service and is strict about its build. The universal one, which prints least, so that a script that has lost its
session gets farthest, was checked once together with these two. Those of Node, Python and .NET are Spring Boot's with a build
that may be swallowed and a proxy that may serve files, too, Laravel's is the static one without its check and with a strict
build; the theorems about `Releases` hold for all seven. Two deployments to a platform are one that is cut off and one that
comes after it, and a third one leaves room for another target in between; only with Railway does the project
have something that outlives a deployment, so the third one goes there. In `Access` the two
others can hand the one username to each other; the bound `BossesAreUnnamed` keeps it from the
super admin. The window of the agents is the code's, and a reply may ask for more calls than
fit in it; 3 commands let the limit fall within a reply and after several. Deadlock is not checked in
`releases` and `executors`, which stop when all scripts and deployments are through. The theorems of section 5 hold for all
bounds.

*Fairness.* `CoordinatorFairness`, `DeployFairness` and `AutoFairness` let an admitted call
continue, because the event loop runs what is ready, but not the executor (`Executing`). An executor
need not come to an end: reading what a killed command has printed (`platform_executors.py:80`) and Gemini's requests
(`ai_agent.py:272`) have no time-out, and replies that ask only for unknown functions are not counted
(`ai_agent.py:268`, `353`). One that is cancelled does end: a cancellation interrupts each of these waits. Nobody has to
deploy, cancel, delete, push or restart. So `EveryDeploymentConcludes` excepts a deployment that executes for ever without
being cancelled, and `AcceptedCancelIsRecorded` needs no exception; `DeploymentClaims` is fair only to the deployments that were told
to stop. `AutoFairness` adds that the worker's sleep ends, that a question to GitHub ends within its 20
seconds, and that a message to Telegram is sent or times out. That GitHub ever answers is
not assumed: it is a premise inside `PushesAreNoticed`, and so is that the process is not restarted for ever. The analysis is not
fair either, since `git clone` has no timeout (`analyzer.py:58`), nor is a clean-up. A worker may therefore be held up for ever by the
analysis or the executor of its own deployment, and then overlooks the pushes of all projects: `HeldUp` is the exception
of `WorkerComesBack` and of `PushesAreNoticed`. `AgentFairness`: connections and commands have time-outs
and so have Groq's requests; Gemini's have none, which `AgentEnds` names as an exception. `PlatformFairness`: commands and
requests have time-outs; reading what a killed command printed has none, the exception in `PlatformEnds`. On PostgreSQL no fairness is
stated: liveness needs strong fairness of every statement that may wait for a row, and a run with it did not finish; instead
`NobodyIsStuck` says in every state that someone can go on, and `SessionsRunOutAlways` (section 5) that whoever
goes on comes nearer to the end.

## 4. Findings

- *A switch-off is undone* (`AutoDeployStaysOff`). `deploy` holds a `Project` from before the run
  and writes all its columns back on success (line 136), `auto_deploy_enabled`
  included. The user was told "Auto deploy disabled" (`handlers.py:1078`).
- *A deletion may leave everything on the server* (`DeletedMeansRemoved`). Errors of the clean-up are
  swallowed (lines 249-251), and a project whose target has moved from the
  server to a platform gets none (line 235); the bot says "All server
  resources and database records have been completely removed."
  (`handlers.py:1223`).
- *A successful deployment may remove its own release* (`SuccessBecomesCurrent`).
  `finalize_release` keeps the directory with the newest modification time and not
  the one `current` points to (`recipe_support.py:55`). An application that creates a file
  in its old release while the new one is being built makes the old one the newest;
  link, unit and include then point to nothing, and the exit code is 0. Nor are "the latest three
  releases" of `src/README.md:59` kept: `tail -n +2` keeps one.
- *An invited username is not always activated by Start* (`InvitedStartActivates`).
  Only someone without an account is looked up among the invitations
  (`access.py:19-28`). Who pressed Start before taking the invited username stays
  pending, against what the bot tells the admin (`handlers.py:1646`).

## 5. Proofs

The theorems hold for any sets of users, targets, calls, projects, repositories,
deletions, sessions, people, names, scripts and deployments. They use what the modules assume of their
constants: that the markers for "nothing" are not values (`NoneAssumption`,
`AbsentAssumption`, `HeldAssumption`, `NoScriptAssumption`, `NoAccountAssumption`, `AccessAssumption`), that super
admins are people (`AccessAssumption`), that the target keys `deploy` builds are keys
(`ServiceAssumption`, `TransactionsAssumption`), that there is a user, that calls and other sessions are apart,
and that no session and no row is a marker for none (`TransactionsAssumption`), that bounds are natural numbers (`AgentAssumption`,
`PlatformAssumption`), and that stacks, platforms and agents are among those the code has
(`StackAssumption`, `PlatformAssumption`, `AgentAssumption`).

`CoordinatorProofs`:

- `CoordinatorInvariant`: `CoordinatorInv` is inductive. Exclusion alone is not:
  it follows from `LiveIsRegistered`, since two live deployments of a user
  cannot both be the one entry under that user. `LiveIsRegistered` is preserved by `Resume`
  because a clean-up pops only its own entry (`ResumePopsItsOwn`), and by
  `RunAdmitted` because what it overwrites is not live.
  `TasksFollowCalls` ties stages, tasks and outcomes together, and
  `EntriesAreHeld` says an entry is under the arguments of its own call, without
  which a blocked request could not be traced to a deployment of the same user or target.
- `Exclusion`, `LiveIsRegisteredAlways`, `EntriesAreHeldAlways`, `RefusalIsJustified`: from that invariant.
- `AcceptedCancelSticksAlways`: with it, `AcceptedCancelSticks` is inductive, because `Finish` lets a
  task that was cancelled end in one of `Endings`, and no call is cancelled after it has its result.
- `CoordinatorImplementsClaims`: each step of the coordinator is a step of
  `DeploymentClaims` or leaves it unchanged, by cases; `Resume` and `FirstStep`
  are the stutters.

The last one, exclusion, `AcceptedCancelSticks` and the justified refusals are carried into the three systems
that contain the coordinator by `ServiceKeepsClaims`, `WorkerKeepsClaims` and
`TransactionsKeepClaims`: what holds of every behaviour of the coordinator holds of every behaviour of the
service, of the process with its worker, and of the use cases on PostgreSQL, because each is one
(`ServiceRunsCoordinator`, `WorkerRunsCoordinator`, `TransactionsRunCoordinator`). With the
worker there is one run of a project at a time, besides; without it, that is `ProjectsRunOneAtATime`.

`DeployServiceProofs`:

- `ServiceRunsCoordinator`: every step of the service is a step of the coordinator
  or leaves it alone, so `CoordinatorInv` and everything proved of the
  coordinator holds in the service.
- `ServiceInvariant`: `DeployInv` is inductive relative to `CoordinatorInv`. Its
  parts `CallLinks` (how phases, stages and arguments belong together), `IdsAreBorn` and
  `IdsNeverChangeHands` (an id stands for one user and one repository even after it was
  deleted) carry `RecordsFollowRuns`, `HistoryBelongsToProjects` and
  `ShownUrlIsReal`. `ShownUrlIsReal` needs `UPDATE ... WHERE id=?` to miss a deleted
  row, and needs a request for another target to take the URL away.
- `RecordsTellTheTruth`, `NoOrphanedHistory`, `UrlsAreReal`: parts of it.
- `ProjectsRunOneAtATime`: two runs of one project are of one user by
  `IdsNeverChangeHands`, and the coordinator excludes those.
- `DeletionIsFinal`: no step brings an id back.
- `ServiceImplementsHistory`: every step changes the tables as `DeploymentHistory` allows. `PrepareEnters`,
  `StartAdvances`, `ReturnConcludes` and `DeletionDeletes` are the four kinds of step that change what readers see;
  that a record is concluded once needs `RecordsFollowRuns`, and that an `UPDATE` after a deletion is a conclusion of
  nothing needs `HistoryBelongsToProjects`. `DeathShows` is what the death of the process may leave of a step: a project that is
  created or loses its URL (`SaveShows`), a deployment that advances to Planning, or one that is torn. `HistoryUnseen` says
  when a step is a stutter.
- A torn deployment has no result for its caller, so that `ShownUrlIsReal` speaks of `Succeeded`: the caller was told so, or the
  process died between the two rows. That it stays so after further deaths is `CallLinks` (a torn call is `lost`, its task
  ended well); `RestartWrites` and `RestartKeepsOwners` say what a death may do to the rows at all.

`DeployTransactionsProofs`. The inductive invariant is `TransactionsAll`, which no single use case would need:

- `PlacesInv` ties the statement a session is before to the stage and the task of its call, with which
  `TransactionsRunCoordinator` carries the coordinator's theorems over to PostgreSQL.
- `EntitiesInv` and `IdsInv`: an entity is there wherever it is used, and nobody has the id of a project that
  has not been inserted.
- `WriterInv`: who has written and not yet committed is before one of three statements, and what is written is its entity or,
  when somebody else has committed since it read the row, something with the same id. `MixtureNeedsARaceAlways` and
  `SuccessIsSavedAlways` come from it, and so does `NobodyWaitsInACircle`: a session before those
  statements waits for nothing.
- `LiveInv` and `SpoiledInv`: URLs are real wherever a row is kept - in the table, in entities, in what was read and what is
  written - and a session that can still write its verdict after a success has written its result. `RecordsTellTheRunAlways` needs
  the second: a record is left unfinished only by a session that a cancellation has spoiled.
- `TransactionsInvariant`, `RecordsTellTheRunAlways`, `DeletedProjectStaysDeletedAlways`: parts of it. The lemmas
  `CallFrame`, `OtherFrame`, `CallMoves`, `OtherMoves`, `RestartMoves` and `RowMoves` say once what the statements may do to
  each variable.
- `TransactionsImplementHistory`: every commit is one step of `DeploymentHistory`, and nothing else is seen. It needs
  `UnderWay` besides: a status query is before the status it writes, so that statuses come in their order, and the row
  that an `INSERT` of a deployment commits has no other URL than the committed one.
- `SessionsRunOutAlways`: `Left`, which is at most 15, counts the steps a session may still take. Each step of a
  session makes it smaller, and nothing that others do, no cancellation and no crash, makes that of a session under way larger. With
  `NobodyWaitsInACircle` it is the part of "every session ends" that needs no fairness: what is left
  is that a session that can go on does.

`AutoDeployProofs`. Every step but `NewPush`, `StopPolling` and `Exit` is a step of the service or leaves it alone
(`AutoServiceSteps`), so that the invariants of coordinator and service carry over. The three:

- `NewPush` writes back a row that may be as old as the poll. `WorkerInvariant` and `TablesSurviveTheWorker` therefore
  need `HeldWasReal`: the URL in that row is of a deployment of this very project that has `Succeeded`, and nothing
  about such a deployment changes any more (`SuccessStays`). The row belongs where it goes because an id
  never changes its owner or its repository (`SameOwner`, `RowsKeepOwners`).
- `StopPolling` and `Exit` cancel callers and analyses; `CancellingKeeps` says what that leaves alone.
- `DeletionIsFinalHere`: a row written back does not revive a project, because `UPDATE` misses it.
- `WorkerRunsCoordinator`: the process with its worker, its end and its restarts is a behaviour of the coordinator.
- `WorkerImplementsHistory`: the promise of `DeploymentHistory` is kept beside the worker. Its row written back is a `Restore`
  (`PushRestores`): the URL is that of an earlier success of the same project, whose record is still there, or of a torn
  deployment. `LostIsSilent` - a call cut off by a crash has no result - excludes that it is the URL of any other deployment
  without a recorded success.
- `CancelledForAReasonAlways`: `CancelsWereAsked` - while the bot is up, what is being cancelled was asked for, and no
  caller is interrupted - and a restart leaves no caller that could still record what was cancelled before.

`AccessProofs` (assumptions: super admins are people, the markers for "no username", "no phone"
and "no account" are not values):

- `AccessInvariant` and `OnlyThoseLetIn`: `AccessInv /\ ActiveWereLetIn` is inductive.
  `ActiveWereLetIn` needs two of the parts of `AccessInv`: an invitation that activates someone
  is an admin's (`InvitesAreVouched`), and the row an admin finds under a
  username or phone got it from its person (`RowsComeFromPeople`). The lemma
  `WritingOneRow` says what every operation that writes a row has to guarantee; each
  operation has a lemma that it does.
- `SentAwayIsForGood`: `Start` and `Rename` leave the status of a rejected or suspended
  account alone, and `ReceiveContact` needs an approved phone.
- `AccessImplementsMembership`: each operation is one of `Membership`, or a `Rename`, which it does not see.
  `RolesFollowSettings` is needed because the code asks the row who is an admin and `Membership` asks the settings
  (`AdminsDecide`), and `RowsComeFromPeople` because an admin finds an account by a username or
  phone in a row, and `LetIn` wants it to have come from that person (`SignsInvite`). `WrittenStanding` and
  `StandingsChange` say how writing a row changes what somebody is.

`ReleasesProofs`. `RecipeLayout` says of each recipe at which position the service, the include,
the reload, the link and the pruning come, and that nothing comes before the build or after the pruning; the
rest of the proofs uses positions only, so that they hold for any recipe laid out like that.

- `ReleasesInvariant`: `OlderIsAnOrder` is preserved because a release that is created or written to becomes the
  newest, and pruning keeps exactly one.
- `OnlyFinishedBuildsAreUsedAlways`: a release that link, service or nginx name is beyond the
  build, and one that is `unbuilt` is of a recipe that swallows failures (`UsedInv`, `StrictRecipes`). It holds through crashes,
  lost sessions, foreign reloads, concurrent scripts and clean-ups that fail.
- `RouteWorksAlways`, `SuccessIsServedAlways`: `RouteInv` says what the one script that works has
  established at each of its steps (`Reached`), and that what nginx has on disk, and what it has loaded, leads somewhere
  (`Leads`): both, because another project may reload nginx at any step. All this is under `~disturbed`, and a deletion disturbs. What is reported as a success is `lost` or has come to the end of its steps.
- `NothingIsLeftAlways`: while the clean-up is `Alone`, what it has removed stays away, and what it has passed and is still
  there is `stuck` (`OnlyStuck`, `LeftInv`).
- `NeverGoesBackAlways`: `TurnsInv` says that a script that was sent before another is out of its session, so that one that
  still works has lost it, and that what nginx has on disk is not older than what it has loaded unless such a script wrote it:
  without this, a reload - also that of another project - could bring an older include back.

`AgentLoopProofs`:

- `AgentInvariant`: `AgentInv` is inductive; `commands + todo < MaxCommands + replied` is what the limit
  becomes while a reply is being answered.
- `RequestsConverse`, `AnswersAreSeenAlways`: `Talk` describes any tail of a conversation whose last reply has been
  answered in part. `RecentTalks`: cutting the head keeps it. `RequestTalks`: when every call
  is answered, what is left after dropping the answers at the head is a conversation, however short the
  window. The first message that is no answer is found with the well-founded order of the numbers (`LeastNumber`).

`ExecutorsProofs`:

- `FilesAreRemovedAlways`: `FilesInv` adds that nobody has credentials before the clone.
- `SuccessIsServedHereAlways`: `PlacesInv` needs that deployments come one after the other (`InTurn`), that
  whoever has published is shown or was overtaken, and that orphans belong to deployments that were cut short.
- `RailwayProjectsAreReusedAlways`: `ConfigRemembers` - after a success with Railway `target_config` keeps the project
  until a deployment goes elsewhere - and whoever creates a project comes after such a detour (`ReuseInv`).
- `PlatformInvariant`: these and what `config` remembers (`RememberedInv`).
- `EachExecutorRuns`: a behaviour of `Executors` is one of `AgentLoop` and one of `Platforms`, since a step of either leaves
  the other's state alone. `AgentsConverse` and `PlatformsDeliver` are the theorems about the two for the
  process that has both, which is what the run `executors` checks.

Only model-checked, because they are out of reach of this prover: the liveness properties, with the liveness part of
`ImplementsClaims`, and of `NobodyIsStuck` the second half, which speaks of `ENABLED`. Every other property of the passing
runs is a theorem. The findings are counterexamples of TLC.

## 6. Not modelled, and the plan

What could be done next: `Releases` as the detail of `DeployService`, its sessions mapped to tasks and its
disk to `serverHolds`.

Left out on purpose: the contents of `.env` (hazard at `recipe_support.py:92`), what bash does with a script that is
overwritten while it runs, scripts killed by a signal, which `ssh_client.py:74` takes for successes just as it does a broken
connection, which is modelled. That a
recipe without a service leaves the unit of an earlier recipe running is in the model: after a
success the unit may name a release that is gone, but nginx no longer sends anyone there.

Not modelled, and why:

- On PostgreSQL the users, invitations and credentials, whose `update` may write back a stale
  status the way `projects.update` does; the limit of the connection pool; the cancellation of callers at
  shutdown. `DeployTransactions` is at the limit of what TLC explores with the two tables alone.
- The chat state of the handlers (which prompt is open for whom): each prompt leads to one use case, and it
  is the use cases that are modelled.
- Reading URLs, ids and error messages out of what CLIs print; the names of Firebase sites; the fallback
  from one branch to another in the analyzer; the stack detection and the texts of the recipes: functions of
  strings without state.
- Settings, redaction, keyboards and formatters; the dry-run executor, which changes nothing.
