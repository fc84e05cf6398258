------------------------- MODULE CoordinatorProofs -------------------------
(***************************************************************************)
(* Proofs about the deployment coordinator, for every set of users, target *)
(* keys and calls: type correctness and the inductive invariant, mutual    *)
(* exclusion, the reason of a refusal, and that the coordinator implements *)
(* the safety part of DeploymentClaims.                                    *)
(***************************************************************************)
EXTENDS Coordinator, TLAPS

USE DEF Live

(* The invariant holds of the empty registries. *)
LEMMA InitInv == CoordinatorInit => CoordinatorInv
BY NoneAssumption
   DEF CoordinatorInit, CoordinatorInv, CoordinatorTypeOK, TasksFollowCalls,
       LiveIsRegistered, EntriesAreHeld, AcceptedCancelSticks,
       Stage, TaskState, Outcome, Result

(* What popping an entry by identity does to the other entries. *)
LEMMA PoppedKeepsOthers ==
    ASSUME NEW S, NEW tasks \in [S -> Call \cup {NoCall}], NEW x \in S, NEW c \in Call
    PROVE  /\ Popped(tasks, x, c) \in [S -> Call \cup {NoCall}]
           /\ \A y \in S :
                 \/ Popped(tasks, x, c)[y] = tasks[y]
                 \/ y = x /\ tasks[y] = c /\ Popped(tasks, x, c)[y] = NoCall
           /\ Popped(tasks, x, c)[x] # c
BY NoneAssumption DEF Popped

(* Resume removes from each registry the entry of the call that resumes,   *)
(* and no other.                                                           *)
LEMMA ResumePopsItsOwn ==
    ASSUME CoordinatorTypeOK, NEW c \in Call, userOf[c] \in User, keyOf[c] \in Key, Resume(c)
    PROVE  /\ \A u \in User :
                 \/ userTasks'[u] = userTasks[u]
                 \/ u = userOf[c] /\ userTasks[u] = c /\ userTasks'[u] = NoCall
           /\ userTasks'[userOf[c]] # c
           /\ \A k \in Key :
                 \/ targetTasks'[k] = targetTasks[k]
                 \/ k = keyOf[c] /\ targetTasks[k] = c /\ targetTasks'[k] = NoCall
           /\ targetTasks'[keyOf[c]] # c
<1>1. userTasks \in [User -> Call \cup {NoCall}] /\ targetTasks \in [Key -> Call \cup {NoCall}]
    BY DEF CoordinatorTypeOK
<1>2. /\ userTasks' = Popped(userTasks, userOf[c], c)
      /\ targetTasks' = Popped(targetTasks, keyOf[c], c)
    BY DEF Resume
<1> HIDE DEF Live
<1>3. /\ \A u \in User :
             \/ userTasks'[u] = userTasks[u]
             \/ u = userOf[c] /\ userTasks[u] = c /\ userTasks'[u] = NoCall
      /\ userTasks'[userOf[c]] # c
    BY <1>1, <1>2, NoneAssumption DEF Popped
<1>4. /\ \A k \in Key :
             \/ targetTasks'[k] = targetTasks[k]
             \/ k = keyOf[c] /\ targetTasks[k] = c /\ targetTasks'[k] = NoCall
      /\ targetTasks'[keyOf[c]] # c
    BY <1>1, <1>2, NoneAssumption DEF Popped
<1> QED BY <1>3, <1>4

(* Every step keeps the variables well typed. *)
LEMMA TypeStep == CoordinatorInv /\ [CoordinatorNext]_coordinatorVars => CoordinatorTypeOK'
<1> SUFFICES ASSUME CoordinatorInv, [CoordinatorNext]_coordinatorVars
             PROVE  CoordinatorTypeOK'
    OBVIOUS
<1> USE DEF CoordinatorInv, CoordinatorTypeOK, Stage, TaskState, Outcome, Result,
            callVars, taskVars, registryVars
<1>1. ASSUME NEW c \in Call, NEW u \in User, NEW k \in Key, RunRejected(c, u, k)
      PROVE  CoordinatorTypeOK'
    BY <1>1 DEF RunRejected
<1>2. ASSUME NEW c \in Call, NEW u \in User, NEW k \in Key, RunAdmitted(c, u, k)
      PROVE  CoordinatorTypeOK'
    BY <1>2 DEF RunAdmitted
<1>3. ASSUME NEW c \in Call, FirstStep(c)
      PROVE  CoordinatorTypeOK'
    BY <1>3 DEF FirstStep
<1>4. ASSUME NEW c \in Call, EndsBeforeStart(c)
      PROVE  CoordinatorTypeOK'
    BY <1>4 DEF EndsBeforeStart
<1>5. ASSUME NEW c \in Call, Finish(c)
      PROVE  CoordinatorTypeOK'
    BY <1>5 DEF Finish, Endings
<1>6. ASSUME NEW c \in Call, Resume(c)
      PROVE  CoordinatorTypeOK'
    <2>1. userOf[c] \in User /\ keyOf[c] \in Key
        BY <1>6 DEF Resume, TasksFollowCalls
    <2>2. /\ userTasks' \in [User -> Call \cup {NoCall}]
          /\ targetTasks' \in [Key -> Call \cup {NoCall}]
        BY <1>6, <2>1, PoppedKeepsOthers DEF Resume
    <2> QED BY <1>6, <2>2 DEF Resume
<1>7. ASSUME NEW u \in User, CancelForUser(u)
      PROVE  CoordinatorTypeOK'
    BY <1>7 DEF CancelForUser, Busy
<1>8. ASSUME NEW S \in SUBSET Call, CancelCallers(S)
      PROVE  CoordinatorTypeOK'
    BY <1>8 DEF CancelCallers
<1>9. CASE Restart
    BY <1>9 DEF Restart
<1>10. CASE UNCHANGED coordinatorVars
    BY <1>10 DEF coordinatorVars
<1> QED
    BY <1>1, <1>2, <1>3, <1>4, <1>5, <1>6, <1>7, <1>8, <1>9, <1>10
       DEF CoordinatorNext, CallNext

(* Every step keeps the states of calls and tasks in agreement. *)
LEMMA CallsStep == CoordinatorInv /\ [CoordinatorNext]_coordinatorVars => TasksFollowCalls'
<1> SUFFICES ASSUME CoordinatorInv, [CoordinatorNext]_coordinatorVars
             PROVE  TasksFollowCalls'
    OBVIOUS
<1> USE DEF CoordinatorInv, CoordinatorTypeOK, TasksFollowCalls, Stage, TaskState, Outcome,
            Result, callVars, taskVars, registryVars
<1>1. ASSUME NEW c \in Call, NEW u \in User, NEW k \in Key, RunRejected(c, u, k)
      PROVE  TasksFollowCalls'
    BY <1>1 DEF RunRejected
<1>2. ASSUME NEW c \in Call, NEW u \in User, NEW k \in Key, RunAdmitted(c, u, k)
      PROVE  TasksFollowCalls'
    BY <1>2 DEF RunAdmitted
<1>3. ASSUME NEW c \in Call, FirstStep(c)
      PROVE  TasksFollowCalls'
    BY <1>3 DEF FirstStep
<1>4. ASSUME NEW c \in Call, EndsBeforeStart(c)
      PROVE  TasksFollowCalls'
    BY <1>4 DEF EndsBeforeStart
<1>5. ASSUME NEW c \in Call, Finish(c)
      PROVE  TasksFollowCalls'
    BY <1>5 DEF Finish, Endings
<1>6. ASSUME NEW c \in Call, Resume(c)
      PROVE  TasksFollowCalls'
    BY <1>6 DEF Resume
<1>7. ASSUME NEW u \in User, CancelForUser(u)
      PROVE  TasksFollowCalls'
    BY <1>7 DEF CancelForUser, Busy
<1>8. ASSUME NEW S \in SUBSET Call, CancelCallers(S)
      PROVE  TasksFollowCalls'
    BY <1>8 DEF CancelCallers
<1>9. CASE Restart
    BY <1>9 DEF Restart
<1>10. CASE UNCHANGED coordinatorVars
    BY <1>10 DEF coordinatorVars
<1> QED
    BY <1>1, <1>2, <1>3, <1>4, <1>5, <1>6, <1>7, <1>8, <1>9, <1>10
       DEF CoordinatorNext, CallNext

(* Every step keeps live tasks registered and the registries free of the    *)
(* entries of others; Resume is why popping compares identities.           *)
LEMMA RegistriesStep ==
    CoordinatorInv /\ [CoordinatorNext]_coordinatorVars => LiveIsRegistered' /\ EntriesAreHeld'
<1> SUFFICES ASSUME CoordinatorInv, [CoordinatorNext]_coordinatorVars
             PROVE  LiveIsRegistered' /\ EntriesAreHeld'
    OBVIOUS
<1> USE NoneAssumption
    DEF CoordinatorInv, CoordinatorTypeOK, TasksFollowCalls, LiveIsRegistered, EntriesAreHeld,
        Stage, TaskState, Outcome, Result, callVars, taskVars, registryVars
<1>1. ASSUME NEW c \in Call, NEW u \in User, NEW k \in Key, RunRejected(c, u, k)
      PROVE  LiveIsRegistered' /\ EntriesAreHeld'
    BY <1>1 DEF RunRejected
<1>2. ASSUME NEW c \in Call, NEW u \in User, NEW k \in Key, RunAdmitted(c, u, k)
      PROVE  LiveIsRegistered' /\ EntriesAreHeld'
    BY <1>2 DEF RunAdmitted, Blocked, Busy
<1>3. ASSUME NEW c \in Call, FirstStep(c)
      PROVE  LiveIsRegistered' /\ EntriesAreHeld'
    BY <1>3 DEF FirstStep
<1>4. ASSUME NEW c \in Call, EndsBeforeStart(c)
      PROVE  LiveIsRegistered' /\ EntriesAreHeld'
    BY <1>4 DEF EndsBeforeStart
<1>5. ASSUME NEW c \in Call, Finish(c)
      PROVE  LiveIsRegistered' /\ EntriesAreHeld'
    BY <1>5 DEF Finish
<1>6. ASSUME NEW c \in Call, Resume(c)
      PROVE  LiveIsRegistered' /\ EntriesAreHeld'
    <2>1. userOf[c] \in User /\ keyOf[c] \in Key
        BY <1>6 DEF Resume
    <2>2. /\ \A u \in User :
                \/ userTasks'[u] = userTasks[u]
                \/ u = userOf[c] /\ userTasks[u] = c /\ userTasks'[u] = NoCall
          /\ userTasks'[userOf[c]] # c
        BY <1>6, <2>1, ResumePopsItsOwn
    <2>3. /\ \A k \in Key :
                \/ targetTasks'[k] = targetTasks[k]
                \/ k = keyOf[c] /\ targetTasks[k] = c /\ targetTasks'[k] = NoCall
          /\ targetTasks'[keyOf[c]] # c
        BY <1>6, <2>1, ResumePopsItsOwn
    <2>4. \A d \in Call : task'[d] = task[d] /\ (d # c => stage'[d] = stage[d])
        BY <1>6 DEF Resume
    <2>5. task[c] = "done" /\ userOf' = userOf /\ keyOf' = keyOf
        BY <1>6 DEF Resume
    <2>6. ASSUME NEW d \in Call, Live(d)'
          PROVE  /\ stage'[d] = "awaiting"
                 /\ userTasks'[userOf'[d]] = d
                 /\ targetTasks'[keyOf'[d]] = d
        <3>1. d # c /\ Live(d)
            BY <2>4, <2>5, <2>6
        <3>2. stage[d] = "awaiting" /\ userTasks[userOf[d]] = d /\ targetTasks[keyOf[d]] = d
            BY <3>1
        <3>3. userOf[d] \in User /\ keyOf[d] \in Key
            BY <3>2
        <3>4. userTasks'[userOf[d]] = d /\ targetTasks'[keyOf[d]] = d
            BY <2>2, <2>3, <3>1, <3>2, <3>3
        <3> QED BY <2>4, <2>5, <3>1, <3>2, <3>4
    <2>7. ASSUME NEW u \in User, userTasks'[u] # NoCall
          PROVE  stage'[userTasks'[u]] = "awaiting" /\ userOf'[userTasks'[u]] = u
        <3>1. userTasks'[u] = userTasks[u] /\ userTasks[u] \in Call
            BY <2>2, <2>7
        <3>2. stage[userTasks[u]] = "awaiting" /\ userOf[userTasks[u]] = u
            BY <2>7, <3>1
        <3>3. userTasks[u] # c
            BY <2>2, <3>1, <3>2
        <3> QED BY <2>4, <2>5, <3>1, <3>2, <3>3
    <2>8. ASSUME NEW k \in Key, targetTasks'[k] # NoCall
          PROVE  stage'[targetTasks'[k]] = "awaiting" /\ keyOf'[targetTasks'[k]] = k
        <3>1. targetTasks'[k] = targetTasks[k] /\ targetTasks[k] \in Call
            BY <2>3, <2>8
        <3>2. stage[targetTasks[k]] = "awaiting" /\ keyOf[targetTasks[k]] = k
            BY <2>8, <3>1
        <3>3. targetTasks[k] # c
            BY <2>3, <3>1, <3>2
        <3> QED BY <2>4, <2>5, <3>1, <3>2, <3>3
    <2> QED BY <2>6, <2>7, <2>8
<1>7. ASSUME NEW u \in User, CancelForUser(u)
      PROVE  LiveIsRegistered' /\ EntriesAreHeld'
    BY <1>7 DEF CancelForUser
<1>8. ASSUME NEW S \in SUBSET Call, CancelCallers(S)
      PROVE  LiveIsRegistered' /\ EntriesAreHeld'
    BY <1>8 DEF CancelCallers
<1>9. CASE Restart
    BY <1>9 DEF Restart
<1>10. CASE UNCHANGED coordinatorVars
    BY <1>10 DEF coordinatorVars
<1> QED
    BY <1>1, <1>2, <1>3, <1>4, <1>5, <1>6, <1>7, <1>8, <1>9, <1>10
       DEF CoordinatorNext, CallNext

(* Every step keeps accepted cancellations: only Finish ends a running     *)
(* task, and Endings leaves a cancelled one no way to succeed.             *)
LEMMA CancelStep ==
    CoordinatorInv /\ [CoordinatorNext]_coordinatorVars => AcceptedCancelSticks'
<1> SUFFICES ASSUME CoordinatorInv, [CoordinatorNext]_coordinatorVars
             PROVE  AcceptedCancelSticks'
    OBVIOUS
<1> USE DEF CoordinatorInv, CoordinatorTypeOK, TasksFollowCalls, LiveIsRegistered,
            AcceptedCancelSticks, Stage, TaskState, Outcome, Result,
            callVars, taskVars, registryVars
<1>1. ASSUME NEW c \in Call, NEW u \in User, NEW k \in Key, RunRejected(c, u, k)
      PROVE  AcceptedCancelSticks'
    BY <1>1 DEF RunRejected
<1>2. ASSUME NEW c \in Call, NEW u \in User, NEW k \in Key, RunAdmitted(c, u, k)
      PROVE  AcceptedCancelSticks'
    BY <1>2 DEF RunAdmitted
<1>3. ASSUME NEW c \in Call, FirstStep(c)
      PROVE  AcceptedCancelSticks'
    BY <1>3 DEF FirstStep
<1>4. ASSUME NEW c \in Call, EndsBeforeStart(c)
      PROVE  AcceptedCancelSticks'
    BY <1>4 DEF EndsBeforeStart
<1>5. ASSUME NEW c \in Call, Finish(c)
      PROVE  AcceptedCancelSticks'
    BY <1>5 DEF Finish, Endings
<1>6. ASSUME NEW c \in Call, Resume(c)
      PROVE  AcceptedCancelSticks'
    BY <1>6 DEF Resume
<1>7. ASSUME NEW u \in User, CancelForUser(u)
      PROVE  AcceptedCancelSticks'
    BY <1>7 DEF CancelForUser, Busy
<1>8. ASSUME NEW S \in SUBSET Call, CancelCallers(S)
      PROVE  AcceptedCancelSticks'
    BY <1>8 DEF CancelCallers
<1>9. CASE Restart
    BY <1>9 DEF Restart
<1>10. CASE UNCHANGED coordinatorVars
    BY <1>10 DEF coordinatorVars
<1> QED
    BY <1>1, <1>2, <1>3, <1>4, <1>5, <1>6, <1>7, <1>8, <1>9, <1>10
       DEF CoordinatorNext, CallNext

(* The inductive invariant: types, the links between calls, tasks and      *)
(* registries, and that an accepted cancellation sticks.                   *)
THEOREM CoordinatorInvariant == CoordinatorSafety => []CoordinatorInv
<1>1. CoordinatorInv /\ [CoordinatorNext]_coordinatorVars => CoordinatorInv'
    BY TypeStep, CallsStep, RegistriesStep, CancelStep DEF CoordinatorInv
<1> QED
    BY InitInv, <1>1, PTL DEF CoordinatorSafety

(* /cancel reaches every live deployment: no clean-up of an older call     *)
(* has thrown the entry of a newer one away.                               *)
THEOREM LiveIsRegisteredAlways == CoordinatorSafety => []LiveIsRegistered
<1>1. CoordinatorInv => LiveIsRegistered
    BY DEF CoordinatorInv
<1> QED
    BY CoordinatorInvariant, <1>1, PTL

(* The registries leak nothing, however many calls end in whatever order.  *)
THEOREM EntriesAreHeldAlways == CoordinatorSafety => []EntriesAreHeld
<1>1. CoordinatorInv => EntriesAreHeld
    BY DEF CoordinatorInv
<1> QED
    BY CoordinatorInvariant, <1>1, PTL

(* A deployment whose cancellation was accepted never reports success.     *)
THEOREM AcceptedCancelSticksAlways == CoordinatorSafety => []AcceptedCancelSticks
<1>1. CoordinatorInv => AcceptedCancelSticks
    BY DEF CoordinatorInv
<1> QED
    BY CoordinatorInvariant, <1>1, PTL

(* Two live deployments would both have to be the registered one of the    *)
(* user or of the target they share.                                       *)
LEMMA InvExcludes == CoordinatorInv => ExclusiveDeployments
BY DEF CoordinatorInv, LiveIsRegistered, ExclusiveDeployments

(* At most one live deployment per user and per target, whatever the       *)
(* number of users, targets and calls.                                     *)
THEOREM Exclusion == CoordinatorSafety => []ExclusiveDeployments
BY CoordinatorInvariant, InvExcludes, PTL

(* The entry that blocks a request belongs to a live deployment of the     *)
(* user or on the target that is asked for.                                *)
LEMMA BlockerIsLive ==
    ASSUME CoordinatorInv, NEW u \in User, NEW k \in Key, Blocked(u, k)
    PROVE  \E d \in Call : Live(d) /\ (userOf[d] = u \/ keyOf[d] = k)
<1>1. CASE Busy(userTasks[u])
    <2>1. userTasks[u] \in Call /\ Live(userTasks[u]) /\ userOf[userTasks[u]] = u
        BY <1>1 DEF Busy, CoordinatorInv, CoordinatorTypeOK, EntriesAreHeld
    <2> QED BY <2>1
<1>2. CASE Busy(targetTasks[k])
    <2>1. targetTasks[k] \in Call /\ Live(targetTasks[k]) /\ keyOf[targetTasks[k]] = k
        BY <1>2 DEF Busy, CoordinatorInv, CoordinatorTypeOK, EntriesAreHeld
    <2> QED BY <2>1
<1> QED BY <1>1, <1>2 DEF Blocked

(* A call that goes from idle to returned in one step was refused. *)
LEMMA RefusalStep ==
    ASSUME CoordinatorInv, [CoordinatorNext]_coordinatorVars,
           NEW c \in Call, stage[c] = "idle", stage'[c] = "returned"
    PROVE  \E d \in Call : Live(d) /\ (userOf[d] = userOf'[c] \/ keyOf[d] = keyOf'[c])
<1> USE DEF CoordinatorInv, CoordinatorTypeOK, Stage, callVars, taskVars, registryVars
<1>1. ASSUME NEW d \in Call, NEW u \in User, NEW k \in Key, RunRejected(d, u, k)
      PROVE  d = c /\ Blocked(u, k) /\ userOf'[c] = u /\ keyOf'[c] = k
    BY <1>1 DEF RunRejected
<1>2. ASSUME NEW d \in Call, NEW u \in User, NEW k \in Key, RunAdmitted(d, u, k)
      PROVE  FALSE
    BY <1>2 DEF RunAdmitted
<1>3. ASSUME NEW d \in Call, CallNext(d)
      PROVE  FALSE
    BY <1>3 DEF CallNext, FirstStep, EndsBeforeStart, Finish, Resume
<1>4. ASSUME NEW u \in User, CancelForUser(u)
      PROVE  FALSE
    BY <1>4 DEF CancelForUser
<1>5. ASSUME NEW S \in SUBSET Call, CancelCallers(S)
      PROVE  FALSE
    BY <1>5 DEF CancelCallers
<1>6. ~Restart /\ ~UNCHANGED coordinatorVars
    BY DEF Restart, coordinatorVars
<1>7. PICK d \in Call, u \in User, k \in Key : RunRejected(d, u, k)
    BY <1>2, <1>3, <1>4, <1>5, <1>6 DEF CoordinatorNext
<1> QED BY <1>1, <1>7, BlockerIsLive

(* run() refuses a request only while a live deployment holds its user or  *)
(* its target.                                                             *)
THEOREM RefusalIsJustified == CoordinatorSafety => RefusedOnlyWhenBusy
<1>1. CoordinatorInv /\ [CoordinatorNext]_coordinatorVars =>
          [\A c \in Call :
              stage[c] = "idle" /\ stage'[c] = "returned" =>
                  \E d \in Call : Live(d) /\ (userOf[d] = userOf'[c] \/ keyOf[d] = keyOf'[c])
          ]_coordinatorVars
    BY RefusalStep
<1> QED
    BY CoordinatorInvariant, <1>1, PTL DEF CoordinatorSafety, RefusedOnlyWhenBusy

----------------------------------------------------------------------------
(* Refinement.  The three facts below relate the two vocabularies once;    *)
(* every step of the simulation uses them instead of the definitions.      *)

(* The mapping, branch by branch: no two conditions of the CASE can hold.   *)
LEMMA StatusValues ==
    ASSUME CoordinatorInv, NEW c \in Call
    PROVE  /\ Live(c) => AbstractStatus(c) = "active"
           /\ task[c] = "done" => /\ AbstractStatus(c) = outcome[c]
                                  /\ outcome[c] \in {"ok", "error", "cancelled"}
           /\ task[c] = "killed" => AbstractStatus(c) = "lost"
           /\ task[c] = "none" =>
                  AbstractStatus(c) = IF result[c] = "rejected" THEN "refused" ELSE "idle"
<1>1. /\ task[c] # "none" => result[c] # "rejected"
      /\ task[c] = "done" => outcome[c] \in {"ok", "error", "cancelled"}
      /\ task[c] \in TaskState
    BY DEF CoordinatorInv, CoordinatorTypeOK, TasksFollowCalls, Outcome
<1> QED BY <1>1 DEF AbstractStatus, TaskState

(* Active is the status of live calls. *)
LEMMA ActiveIsLive ==
    ASSUME CoordinatorInv, NEW c \in Call
    PROVE  Claims!Active(c) <=> Live(c)
<1>1. task[c] \in TaskState
    BY DEF CoordinatorInv, CoordinatorTypeOK
<1> QED BY <1>1, StatusValues DEF Claims!Active, TaskState

(* The abstract claims are free exactly when the registries do not block. *)
LEMMA FreeIsNotBlocked ==
    ASSUME CoordinatorInv, NEW u \in User, NEW k \in Key
    PROVE  /\ Claims!UserFree(u) <=> ~Busy(userTasks[u])
           /\ Claims!KeyFree(k) <=> ~Busy(targetTasks[k])
<1>1. Claims!UserFree(u) <=> \A c \in Call : userOf[c] = u => ~Live(c)
    <2>1. \A c \in GrantedTo(u) : c \in Call /\ userOf[c] = u
        BY DEF GrantedTo
    <2>2. \A c \in Call : userOf[c] = u /\ Live(c) => c \in GrantedTo(u)
        BY DEF GrantedTo
    <2>3. Claims!UserFree(u) <=> \A c \in GrantedTo(u) : ~Claims!Active(c)
        BY DEF Claims!UserFree
    <2> HIDE DEF Live
    <2> QED BY <2>1, <2>2, <2>3, ActiveIsLive
<1>2. Claims!KeyFree(k) <=> \A c \in Call : keyOf[c] = k => ~Live(c)
    <2>1. \A c \in GrantedOn(k) : c \in Call /\ keyOf[c] = k
        BY DEF GrantedOn
    <2>2. \A c \in Call : keyOf[c] = k /\ Live(c) => c \in GrantedOn(k)
        BY DEF GrantedOn
    <2>3. Claims!KeyFree(k) <=> \A c \in GrantedOn(k) : ~Claims!Active(c)
        BY DEF Claims!KeyFree
    <2> HIDE DEF Live
    <2> QED BY <2>1, <2>2, <2>3, ActiveIsLive
<1>3. Busy(userTasks[u]) => userTasks[u] \in Call /\ userOf[userTasks[u]] = u
    BY DEF Busy, EntriesAreHeld, CoordinatorInv, CoordinatorTypeOK
<1>4. Busy(targetTasks[k]) => targetTasks[k] \in Call /\ keyOf[targetTasks[k]] = k
    BY DEF Busy, EntriesAreHeld, CoordinatorInv, CoordinatorTypeOK
<1>5. \A c \in Call : Live(c) => userTasks[userOf[c]] = c /\ targetTasks[keyOf[c]] = c
    BY DEF CoordinatorInv, LiveIsRegistered
<1> HIDE DEF Live
<1> QED BY <1>1, <1>2, <1>3, <1>4, <1>5, NoneAssumption DEF Busy

(* StatusValues in the state after a step. *)
LEMMA NextStatusValues ==
    ASSUME CoordinatorInv', NEW c \in Call
    PROVE  /\ Live(c)' => AbstractStatus(c)' = "active"
           /\ task'[c] = "done" => AbstractStatus(c)' = outcome'[c]
           /\ task'[c] = "killed" => AbstractStatus(c)' = "lost"
           /\ task'[c] = "none" =>
                  AbstractStatus(c)' = IF result'[c] = "rejected" THEN "refused" ELSE "idle"
<1>1. /\ task'[c] # "none" => result'[c] # "rejected"
      /\ task'[c] \in TaskState
    BY DEF CoordinatorInv, CoordinatorTypeOK, TasksFollowCalls
<1> QED BY <1>1 DEF AbstractStatus, TaskState

(* The initial states map to an initial state of DeploymentClaims. *)
LEMMA ClaimsInit == CoordinatorInit => Claims!ClaimInit
BY DEF CoordinatorInit, Claims!ClaimInit, AbstractStatus, GrantedTo, GrantedOn

(* run() refusing is Refuse. *)
LEMMA RejectedRefuses ==
    ASSUME CoordinatorInv, CoordinatorInv',
           NEW c \in Call, NEW u \in User, NEW k \in Key, RunRejected(c, u, k)
    PROVE  Claims!Refuse(c, u, k)
<1> USE DEF CoordinatorInv, CoordinatorTypeOK, RunRejected, taskVars, registryVars
<1>1. task[c] = "none" /\ result[c] = "none"
    BY DEF TasksFollowCalls
<1>2. AbstractStatus(c) = "idle" /\ AbstractStatus(c)' = "refused"
    BY <1>1, StatusValues, NextStatusValues
<1>3. \A d \in Call : d # c => AbstractStatus(d)' = AbstractStatus(d)
    BY DEF AbstractStatus
<1>4. /\ [v \in User |-> GrantedTo(v)]' = [v \in User |-> GrantedTo(v)]
      /\ [j \in Key |-> GrantedOn(j)]' = [j \in Key |-> GrantedOn(j)]
    BY <1>1 DEF GrantedTo, GrantedOn
<1>5. ~Claims!UserFree(u) \/ ~Claims!KeyFree(k)
    BY FreeIsNotBlocked DEF Blocked
<1>6. [d \in Call |-> AbstractStatus(d)]'
          = [[d \in Call |-> AbstractStatus(d)] EXCEPT ![c] = "refused"]
    BY <1>2, <1>3
<1>7. [d \in Call |-> AbstractStatus(d)][c] = "idle" /\ cancelling' = cancelling
    BY <1>2
<1> QED BY <1>4, <1>5, <1>6, <1>7 DEF Claims!Refuse

(* run() creating a task is Grant. *)
LEMMA AdmittedGrants ==
    ASSUME CoordinatorInv, CoordinatorInv',
           NEW c \in Call, NEW u \in User, NEW k \in Key, RunAdmitted(c, u, k)
    PROVE  Claims!Grant(c, u, k)
<1> USE DEF CoordinatorInv, CoordinatorTypeOK, RunAdmitted
<1>1. task[c] = "none" /\ result[c] = "none" /\ task'[c] = "ready"
    BY DEF TasksFollowCalls
<1>2. AbstractStatus(c) = "idle" /\ AbstractStatus(c)' = "active"
    BY <1>1, StatusValues, NextStatusValues
<1>3. \A d \in Call : d # c => AbstractStatus(d)' = AbstractStatus(d)
    BY DEF AbstractStatus
<1>4. /\ \A v \in User : GrantedTo(v)' = IF v = u THEN GrantedTo(v) \cup {c} ELSE GrantedTo(v)
      /\ \A j \in Key : GrantedOn(j)' = IF j = k THEN GrantedOn(j) \cup {c} ELSE GrantedOn(j)
    BY <1>1 DEF GrantedTo, GrantedOn
<1>5. /\ [v \in User |-> GrantedTo(v)]'
             = [[v \in User |-> GrantedTo(v)] EXCEPT ![u] = @ \cup {c}]
      /\ [j \in Key |-> GrantedOn(j)]'
             = [[j \in Key |-> GrantedOn(j)] EXCEPT ![k] = @ \cup {c}]
    BY <1>4
<1>6. Claims!UserFree(u) /\ Claims!KeyFree(k)
    BY FreeIsNotBlocked DEF Blocked
<1>7. [d \in Call |-> AbstractStatus(d)]'
          = [[d \in Call |-> AbstractStatus(d)] EXCEPT ![c] = "active"]
    BY <1>2, <1>3
<1>8. [d \in Call |-> AbstractStatus(d)][c] = "idle" /\ cancelling' = cancelling
    BY <1>2
<1> QED BY <1>5, <1>6, <1>7, <1>8 DEF Claims!Grant

(* The grants depend on the requests and on whether a task was created.    *)
LEMMA GrantsKept ==
    ASSUME userOf' = userOf, keyOf' = keyOf,
           \A d \in Call : task'[d] # "none" <=> task[d] # "none"
    PROVE  /\ [v \in User |-> GrantedTo(v)]' = [v \in User |-> GrantedTo(v)]
           /\ [j \in Key |-> GrantedOn(j)]' = [j \in Key |-> GrantedOn(j)]
BY DEF GrantedTo, GrantedOn

(* The end of a task is Conclude. *)
LEMMA EndConcludes ==
    ASSUME CoordinatorInv, CoordinatorInv', NEW c \in Call,
           EndsBeforeStart(c) \/ Finish(c)
    PROVE  \E v \in Claims!Verdict : Claims!Conclude(c, v)
<1> USE DEF CoordinatorInv, CoordinatorTypeOK, callVars, registryVars
<1>1. /\ Live(c) /\ task' = [task EXCEPT ![c] = "done"]
      /\ outcome' = [outcome EXCEPT ![c] = outcome'[c]]
      /\ outcome'[c] \in Claims!Verdict
      /\ outcome'[c] = "ok" => c \notin cancelling
    BY DEF EndsBeforeStart, Finish, Endings, Claims!Verdict
<1>2. /\ userOf' = userOf /\ keyOf' = keyOf /\ cancelling' = cancelling /\ result' = result
    BY DEF EndsBeforeStart, Finish
<1>3. AbstractStatus(c)' = outcome'[c]
    BY <1>1, NextStatusValues
<1>4. \A d \in Call : d # c => AbstractStatus(d)' = AbstractStatus(d)
    BY <1>1, <1>2 DEF AbstractStatus
<1>5. [d \in Call |-> AbstractStatus(d)]'
          = [[d \in Call |-> AbstractStatus(d)] EXCEPT ![c] = outcome'[c]]
    BY <1>3, <1>4
<1>6. /\ [v \in User |-> GrantedTo(v)]' = [v \in User |-> GrantedTo(v)]
      /\ [j \in Key |-> GrantedOn(j)]' = [j \in Key |-> GrantedOn(j)]
    BY <1>1, <1>2, GrantsKept
<1>7. Claims!Active(c)
    BY <1>1, ActiveIsLive
<1>8. Claims!Conclude(c, outcome'[c])
    BY <1>1, <1>2, <1>5, <1>6, <1>7 DEF Claims!Conclude
<1> QED BY <1>1, <1>8

(* A cancellation of live tasks is Stop. *)
LEMMA CancelStops ==
    ASSUME CoordinatorInv, NEW S \in SUBSET Call, \A c \in S : Live(c),
           cancelling' = cancelling \cup S,
           task' = task, outcome' = outcome, result' = result,
           userOf' = userOf, keyOf' = keyOf
    PROVE  Claims!Stop(S)
<1>1. [d \in Call |-> AbstractStatus(d)]' = [d \in Call |-> AbstractStatus(d)]
    BY DEF AbstractStatus
<1>2. /\ [v \in User |-> GrantedTo(v)]' = [v \in User |-> GrantedTo(v)]
      /\ [j \in Key |-> GrantedOn(j)]' = [j \in Key |-> GrantedOn(j)]
    BY GrantsKept
<1>3. \A c \in S : Claims!Active(c)
    BY ActiveIsLive
<1> QED BY <1>1, <1>2, <1>3 DEF Claims!Stop

(* Steps that the abstract specification does not see. *)
LEMMA Unseen ==
    ASSUME CoordinatorInv, CoordinatorInv',
           userOf' = userOf, keyOf' = keyOf, cancelling' = cancelling, outcome' = outcome,
           \A d \in Call : /\ Live(d)' <=> Live(d)
                           /\ task'[d] = task[d] \/ Live(d)
                           /\ task[d] = "none" => result'[d] = result[d]
    PROVE  UNCHANGED Claims!claimVars
<1> USE DEF CoordinatorInv, CoordinatorTypeOK, TaskState
<1>1. ASSUME NEW d \in Call
      PROVE  AbstractStatus(d)' = AbstractStatus(d)
    BY StatusValues, NextStatusValues
<1>2. \A d \in Call : task'[d] # "none" <=> task[d] # "none"
    OBVIOUS
<1>3. /\ [v \in User |-> GrantedTo(v)]' = [v \in User |-> GrantedTo(v)]
      /\ [j \in Key |-> GrantedOn(j)]' = [j \in Key |-> GrantedOn(j)]
    BY <1>2, GrantsKept
<1>4. [d \in Call |-> AbstractStatus(d)]' = [d \in Call |-> AbstractStatus(d)]
    BY <1>1
<1> QED BY <1>3, <1>4 DEF Claims!claimVars

(* A restart is LoseAll. *)
LEMMA RestartLosesAll ==
    ASSUME CoordinatorInv, CoordinatorInv', Restart
    PROVE  Claims!LoseAll
<1> USE DEF CoordinatorInv, CoordinatorTypeOK, TaskState, Restart
<1>1. ASSUME NEW d \in Call
      PROVE  AbstractStatus(d)' = IF Claims!Active(d) THEN "lost" ELSE AbstractStatus(d)
    <2>1. CASE Live(d)
        <3>1. task'[d] = "killed" /\ Claims!Active(d)
            BY <2>1, ActiveIsLive
        <3> QED BY <3>1, NextStatusValues
    <2>2. CASE ~Live(d)
        <3>1. task'[d] = task[d] /\ ~Claims!Active(d)
            BY <2>2, ActiveIsLive
        <3> QED BY <2>2, <3>1 DEF AbstractStatus
    <2> QED BY <2>1, <2>2
<1>2. \A d \in Call : task'[d] # "none" <=> task[d] # "none"
    OBVIOUS
<1>3. /\ [v \in User |-> GrantedTo(v)]' = [v \in User |-> GrantedTo(v)]
      /\ [j \in Key |-> GrantedOn(j)]' = [j \in Key |-> GrantedOn(j)]
    BY <1>2, GrantsKept
<1>4. [d \in Call |-> AbstractStatus(d)]'
          = [d \in Call |-> IF Claims!Active(d) THEN "lost"
                            ELSE [e \in Call |-> AbstractStatus(e)][d]]
    BY <1>1
<1> QED BY <1>3, <1>4 DEF Claims!LoseAll

(* Every step of the coordinator is a step of DeploymentClaims or a        *)
(* stuttering step.                                                        *)
LEMMA StepSimulates ==
    ASSUME CoordinatorInv, CoordinatorInv', [CoordinatorNext]_coordinatorVars
    PROVE  [Claims!ClaimNext]_Claims!claimVars
<1> USE DEF Claims!ClaimNext
<1>1. ASSUME NEW c \in Call, NEW u \in User, NEW k \in Key,
             RunRejected(c, u, k) \/ RunAdmitted(c, u, k)
      PROVE  Claims!ClaimNext
    BY <1>1, RejectedRefuses, AdmittedGrants
<1>2. ASSUME NEW c \in Call, EndsBeforeStart(c) \/ Finish(c)
      PROVE  Claims!ClaimNext
    BY <1>2, EndConcludes
<1>3. ASSUME NEW c \in Call, FirstStep(c)
      PROVE  UNCHANGED Claims!claimVars
    <2>1. /\ userOf' = userOf /\ keyOf' = keyOf /\ cancelling' = cancelling
          /\ outcome' = outcome /\ result' = result
          /\ Live(c) /\ task' = [task EXCEPT ![c] = "running"]
        BY <1>3 DEF FirstStep, callVars
    <2>2. \A d \in Call : /\ Live(d)' <=> Live(d)
                          /\ task'[d] = task[d] \/ Live(d)
        BY <2>1 DEF CoordinatorInv, CoordinatorTypeOK
    <2> QED BY <2>1, <2>2, Unseen
<1>4. ASSUME NEW c \in Call, Resume(c)
      PROVE  UNCHANGED Claims!claimVars
    <2>1. /\ userOf' = userOf /\ keyOf' = keyOf /\ cancelling' = cancelling
          /\ outcome' = outcome /\ task' = task
        BY <1>4 DEF Resume, taskVars
    <2>2. \A d \in Call : task[d] = "none" => result'[d] = result[d]
        BY <1>4 DEF Resume, CoordinatorInv, CoordinatorTypeOK
    <2> QED BY <2>1, <2>2, Unseen
<1>5. ASSUME NEW u \in User, CancelForUser(u)
      PROVE  Claims!ClaimNext
    <2>1. userTasks[u] \in Call /\ Live(userTasks[u])
        BY <1>5 DEF CancelForUser, Busy, CoordinatorInv, CoordinatorTypeOK
    <2>2. {userTasks[u]} \in SUBSET Call /\ \A c \in {userTasks[u]} : Live(c)
        BY <2>1
    <2>3. Claims!Stop({userTasks[u]})
        BY <1>5, <2>2, CancelStops DEF CancelForUser, callVars
    <2> QED BY <2>2, <2>3
<1>6. ASSUME NEW S \in SUBSET Call, CancelCallers(S)
      PROVE  Claims!ClaimNext
    <2> DEFINE T == {c \in S : Live(c)}
    <2>1. T \in SUBSET Call /\ \A c \in T : Live(c)
        OBVIOUS
    <2>2. /\ task' = task /\ outcome' = outcome /\ result' = result
          /\ userOf' = userOf /\ keyOf' = keyOf /\ cancelling' = cancelling \cup T
        BY <1>6 DEF CancelCallers
    <2> HIDE DEF T
    <2>3. Claims!Stop(T)
        BY <2>1, <2>2, CancelStops
    <2> QED BY <2>1, <2>3
<1>7. CASE Restart
    BY <1>7, RestartLosesAll
<1>8. CASE UNCHANGED coordinatorVars
    BY <1>8, Unseen DEF coordinatorVars
<1> QED
    BY <1>1, <1>2, <1>3, <1>4, <1>5, <1>6, <1>7, <1>8 DEF CoordinatorNext, CallNext

(* Every behaviour of the coordinator is one DeploymentClaims allows. *)
THEOREM CoordinatorImplementsClaims == CoordinatorSafety => Claims!ClaimSafety
<1>1. CoordinatorInv /\ CoordinatorInv' /\ [CoordinatorNext]_coordinatorVars
          => [Claims!ClaimNext]_Claims!claimVars
    BY StepSimulates
<1> QED
    BY CoordinatorInvariant, ClaimsInit, <1>1, PTL
       DEF CoordinatorSafety, Claims!ClaimSafety
=============================================================================
