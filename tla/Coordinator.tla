---------------------------- MODULE Coordinator ----------------------------
(***************************************************************************)
(* infrastructure/deploy/coordinator.py: the in-memory registry that lets  *)
(* one deployment at a time run for a user and for a target.               *)
(*                                                                         *)
(* A member of Call is one invocation of DeploymentCoordinator.run         *)
(* together with the asyncio task it creates.  The sections under          *)
(* self._guard contain no await, so on one event loop each is one step;    *)
(* between them the loop may run anybody: the task, the caller that awaits *)
(* it, another run, a cancel.  In particular a task is done() before its   *)
(* caller has been resumed to execute the finally clause.                  *)
(***************************************************************************)
EXTENDS Naturals, FiniteSets

CONSTANTS User, Key, Call,
          NoCall, NoUser, NoKey   \* "no entry" in the two registries and requests

ASSUME NoneAssumption == NoCall \notin Call /\ NoUser \notin User /\ NoKey \notin Key

VARIABLES
    stage,          \* stage[c]: how far the call of run() is
    task,           \* task[c]: the asyncio task of c
    outcome,        \* outcome[c]: how the task ended
    result,         \* result[c]: what run() returned or raised to its caller
    cancelling,     \* tasks whose cancel() was called while they were not done
    interrupted,    \* callers cancelled between the task's end and their resumption
    userOf, keyOf,  \* the arguments of run()
    userTasks,      \* self._user_tasks
    targetTasks     \* self._target_tasks

callVars == <<stage, result, userOf, keyOf, interrupted>>
taskVars == <<task, outcome, cancelling>>
registryVars == <<userTasks, targetTasks>>
coordinatorVars == <<stage, result, userOf, keyOf, interrupted,
                     task, outcome, cancelling, userTasks, targetTasks>>

Stage == {"idle", "awaiting", "returned", "lost"}
TaskState == {"none", "ready", "running", "done", "killed"}
Outcome == {"none", "ok", "error", "cancelled"}
Result == Outcome \cup {"rejected"}

CoordinatorTypeOK ==
    /\ stage \in [Call -> Stage]
    /\ task \in [Call -> TaskState]
    /\ outcome \in [Call -> Outcome]
    /\ result \in [Call -> Result]
    /\ cancelling \in SUBSET Call
    /\ interrupted \in SUBSET Call
    /\ userOf \in [Call -> User \cup {NoUser}]
    /\ keyOf \in [Call -> Key \cup {NoKey}]
    /\ userTasks \in [User -> Call \cup {NoCall}]
    /\ targetTasks \in [Key -> Call \cup {NoCall}]

CoordinatorInit ==
    /\ stage = [c \in Call |-> "idle"]
    /\ task = [c \in Call |-> "none"]
    /\ outcome = [c \in Call |-> "none"]
    /\ result = [c \in Call |-> "none"]
    /\ cancelling = {}
    /\ interrupted = {}
    /\ userOf = [c \in Call |-> NoUser]
    /\ keyOf = [c \in Call |-> NoKey]
    /\ userTasks = [u \in User |-> NoCall]
    /\ targetTasks = [k \in Key |-> NoCall]

----------------------------------------------------------------------------
(* not task.done() *)
Live(c) == task[c] \in {"ready", "running"}

(* Mutant: an entry blocks even when its task is done. *)
BusyForgetsDone(entry) == entry # NoCall

(* existing and not existing.done() *)
Busy(entry) == entry # NoCall /\ Live(entry)

(* Mutant: the check of the user is missing. *)
BlockedIgnoresUser(u, k) == Busy(targetTasks[k])

Blocked(u, k) == Busy(userTasks[u]) \/ Busy(targetTasks[k])

(* run(): the operation is closed unused and DeploymentAlreadyRunningError raised. *)
RunRejected(c, u, k) ==
    /\ stage[c] = "idle"
    /\ Blocked(u, k)
    /\ stage' = [stage EXCEPT ![c] = "returned"]
    /\ result' = [result EXCEPT ![c] = "rejected"]
    /\ userOf' = [userOf EXCEPT ![c] = u]
    /\ keyOf' = [keyOf EXCEPT ![c] = k]
    /\ UNCHANGED <<interrupted, taskVars, registryVars>>

(* run(): create_task, both registries, then `await task`. *)
RunAdmitted(c, u, k) ==
    /\ stage[c] = "idle"
    /\ ~Blocked(u, k)
    /\ stage' = [stage EXCEPT ![c] = "awaiting"]
    /\ userOf' = [userOf EXCEPT ![c] = u]
    /\ keyOf' = [keyOf EXCEPT ![c] = k]
    /\ task' = [task EXCEPT ![c] = "ready"]
    /\ userTasks' = [userTasks EXCEPT ![u] = c]
    /\ targetTasks' = [targetTasks EXCEPT ![k] = c]
    /\ UNCHANGED <<result, interrupted, outcome, cancelling>>

----------------------------------------------------------------------------
(* The task.  A task cancelled before its first step gets CancelledError   *)
(* thrown into an operation that never started.                            *)

FirstStep(c) ==
    /\ task[c] = "ready"
    /\ c \notin cancelling
    /\ task' = [task EXCEPT ![c] = "running"]
    /\ UNCHANGED <<callVars, outcome, cancelling, registryVars>>

(* Mutant: the cancellation of a task that has not started yet is lost. *)
EndsBeforeStartNever(c) == FALSE

EndsBeforeStart(c) ==
    /\ task[c] = "ready"
    /\ c \in cancelling
    /\ task' = [task EXCEPT ![c] = "done"]
    /\ outcome' = [outcome EXCEPT ![c] = "cancelled"]
    /\ UNCHANGED <<callVars, cancelling, registryVars>>

(* Mutant: an operation that swallows its cancellation and completes. *)
EndingsSwallowCancel(c) == IF c \in cancelling THEN {"cancelled", "error", "ok"}
                                               ELSE {"ok", "error"}

(* A cancelled operation ends cancelled, or in the error its clean-up raises. *)
Endings(c) == IF c \in cancelling THEN {"cancelled", "error"} ELSE {"ok", "error"}

Finish(c) ==
    /\ task[c] = "running"
    /\ task' = [task EXCEPT ![c] = "done"]
    /\ \E o \in Endings(c) : outcome' = [outcome EXCEPT ![c] = o]
    /\ UNCHANGED <<callVars, cancelling, registryVars>>

----------------------------------------------------------------------------
(* `if self._tasks.get(x) is task: pop(x)`, and its mutant: popping         *)
(* whatever is there.                                                       *)
PoppedBlindly(tasks, x, c) == [tasks EXCEPT ![x] = NoCall]
Popped(tasks, x, c) == IF tasks[x] = c THEN [tasks EXCEPT ![x] = NoCall] ELSE tasks

(* The caller is resumed: the finally clause, then the task's result - or  *)
(* CancelledError, if the caller itself was cancelled in between.          *)
Resume(c) ==
    /\ stage[c] = "awaiting"
    /\ task[c] = "done"
    /\ stage' = [stage EXCEPT ![c] = "returned"]
    /\ result' = [result EXCEPT ![c] =
                     IF c \in interrupted THEN "cancelled" ELSE outcome[c]]
    /\ userTasks' = Popped(userTasks, userOf[c], c)
    /\ targetTasks' = Popped(targetTasks, keyOf[c], c)
    /\ UNCHANGED <<userOf, keyOf, interrupted, taskVars>>

(* cancel_for_user() answering True.  Answering False changes nothing. *)
CancelForUser(u) ==
    /\ Busy(userTasks[u])
    /\ cancelling' = cancelling \cup {userTasks[u]}
    /\ UNCHANGED <<callVars, task, outcome, registryVars>>

(* Task.cancel() on tasks that await run(): runner.py does it to the       *)
(* auto-deploy worker, and asyncio.run to all that are left when run_bot   *)
(* has returned.  It is passed on to the awaited task, or, when that task  *)
(* is already done, thrown into the caller as it resumes.                  *)
CancelCallers(S) ==
    /\ S \subseteq {c \in Call : stage[c] = "awaiting"}
    /\ cancelling' = cancelling \cup {c \in S : Live(c)}
    /\ interrupted' = interrupted \cup {c \in S : task[c] = "done"}
    /\ UNCHANGED <<stage, result, userOf, keyOf, task, outcome, registryVars>>

(* The process dies; the next one starts with empty registries. *)
Restart ==
    /\ stage' = [c \in Call |-> IF stage[c] = "awaiting" THEN "lost" ELSE stage[c]]
    /\ task' = [c \in Call |-> IF Live(c) THEN "killed" ELSE task[c]]
    /\ userTasks' = [u \in User |-> NoCall]
    /\ targetTasks' = [k \in Key |-> NoCall]
    /\ UNCHANGED <<result, userOf, keyOf, interrupted, outcome, cancelling>>

CallNext(c) == FirstStep(c) \/ EndsBeforeStart(c) \/ Finish(c) \/ Resume(c)

CoordinatorNext ==
    \/ \E c \in Call, u \in User, k \in Key : RunRejected(c, u, k) \/ RunAdmitted(c, u, k)
    \/ \E c \in Call : CallNext(c)
    \/ \E u \in User : CancelForUser(u)
    \/ \E S \in SUBSET Call : CancelCallers(S)
    \/ Restart

(* The event loop runs whatever is ready.  An operation need not end: the  *)
(* output of a killed command (platform_executors.py:80) and an answer of  *)
(* Gemini (ai_agent.py:272) are awaited without a timeout, and calls of    *)
(* unknown functions are not counted (ai_agent.py:268, 353).  Cancelling   *)
(* it interrupts each of these waits.  Nobody has to deploy, cancel or     *)
(* restart.                                                                *)
Executing(c) == task[c] = "running" /\ c \notin cancelling

CoordinatorFairness == \A c \in Call : WF_coordinatorVars(~Executing(c) /\ CallNext(c))

CoordinatorSafety == CoordinatorInit /\ [][CoordinatorNext]_coordinatorVars
CoordinatorSpec == CoordinatorSafety /\ CoordinatorFairness

----------------------------------------------------------------------------
(* Two live deployments share neither user nor target (README: "Duplicate  *)
(* target protection"; "You already have a deployment queued or running"). *)
ExclusiveDeployments ==
    \A c, d \in Call :
        Live(c) /\ Live(d) /\ c # d => userOf[c] # userOf[d] /\ keyOf[c] # keyOf[d]

(* A live deployment is the entry under its own user and its own target:   *)
(* /cancel always reaches it, and the clean-up of an older call that ran   *)
(* for the same user or target has not thrown its entry away.              *)
LiveIsRegistered ==
    \A c \in Call :
        Live(c) => /\ stage[c] = "awaiting"
                   /\ userTasks[userOf[c]] = c
                   /\ targetTasks[keyOf[c]] = c

(* The registries leak nothing: an entry belongs to a call that is still   *)
(* waiting in run(), and sits under the user and target of that call.      *)
EntriesAreHeld ==
    /\ \A u \in User : userTasks[u] # NoCall =>
           stage[userTasks[u]] = "awaiting" /\ userOf[userTasks[u]] = u
    /\ \A k \in Key : targetTasks[k] # NoCall =>
           stage[targetTasks[k]] = "awaiting" /\ keyOf[targetTasks[k]] = k

(* Once a cancellation was accepted for a deployment, its caller is never  *)
(* told that it succeeded.                                                 *)
AcceptedCancelSticks ==
    \A c \in Call : c \in cancelling => outcome[c] # "ok" /\ result[c] # "ok"

(* run() refuses only because of a deployment that is really unfinished,   *)
(* never because of one whose caller has merely not cleaned up yet.        *)
RefusedOnlyWhenBusy ==
    [][\A c \in Call :
          stage[c] = "idle" /\ stage'[c] = "returned" =>
              \E d \in Call : Live(d) /\ (userOf[d] = userOf'[c] \/ keyOf[d] = keyOf'[c])
      ]_coordinatorVars

----------------------------------------------------------------------------
(* Refinement: the abstract status of a call.                              *)
AbstractStatus(c) ==
    CASE Live(c) -> "active"
      [] task[c] = "done" -> outcome[c]
      [] task[c] = "killed" -> "lost"
      [] result[c] = "rejected" -> "refused"
      [] OTHER -> "idle"

GrantedTo(u) == {c \in Call : userOf[c] = u /\ task[c] # "none"}
GrantedOn(k) == {c \in Call : keyOf[c] = k /\ task[c] # "none"}

Claims == INSTANCE DeploymentClaims WITH
              status <- [c \in Call |-> AbstractStatus(c)],
              claimUser <- [u \in User |-> GrantedTo(u)],
              claimKey <- [k \in Key |-> GrantedOn(k)],
              stopping <- cancelling

(* The coordinator keeps the promise of DeploymentClaims, its liveness     *)
(* included: whoever is told to stop does, started or not.                 *)
ImplementsClaims == Claims!ClaimSpec

(* Type correctness, exclusion and the links between registries, calls and *)
(* tasks that make them inductive.                                         *)
TasksFollowCalls ==
    \A c \in Call :
        /\ stage[c] = "idle" => task[c] = "none" /\ result[c] = "none"
        /\ stage[c] = "awaiting" => /\ task[c] \in {"ready", "running", "done"}
                                    /\ result[c] = "none"
                                    /\ userOf[c] \in User
                                    /\ keyOf[c] \in Key
        /\ task[c] = "none" => c \notin cancelling
        /\ task[c] # "none" => result[c] # "rejected"
        /\ task[c] = "done" <=> outcome[c] # "none"

CoordinatorInv ==
    /\ CoordinatorTypeOK
    /\ TasksFollowCalls
    /\ LiveIsRegistered
    /\ EntriesAreHeld
    /\ AcceptedCancelSticks
=============================================================================
