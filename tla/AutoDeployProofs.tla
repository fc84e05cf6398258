-------------------------- MODULE AutoDeployProofs --------------------------
(***************************************************************************)
(* Proofs about AutoDeploy, for any number of users, projects and calls.   *)
(* All but three kinds of steps are steps of the service; NewPush writes a *)
(* row back that the worker has read before, StopPolling and Exit cancel   *)
(* callers and analyses.                                                   *)
(***************************************************************************)
EXTENDS AutoDeploy, DeployServiceProofs

(* What the worker holds was in the table once: the URL in it is that of a *)
(* deployment of this project that succeeded.                              *)
HeldWasReal ==
    held # Absent /\ held.row.live # NoCall =>
        /\ Succeeded(held.row.live)
        /\ projectOf[held.row.live] = held.project
        /\ held.row.kind = request[held.row.live].kind
        /\ held.row.deployed = sha[held.row.live]

AutoAll == CoordinatorInv /\ DeployInv /\ AutoInv /\ HeldWasReal

----------------------------------------------------------------------------
(* The service's steps, seen from the worker.                              *)

(* Nothing about a deployment that has succeeded changes any more. *)
Settled(c) ==
    /\ Succeeded(c)' /\ projectOf'[c] = projectOf[c]
    /\ request'[c] = request[c] /\ sha'[c] = sha[c]

LEMMA SuccessStays ==
    ASSUME CoordinatorInv, DeployInv, [DeployNext]_serviceVars, NEW c \in Call, Succeeded(c)
    PROVE  Settled(c)
<1> USE DEF deployVars, tableVars, worldVars, coordinatorVars, callVars, taskVars, registryVars
<1>0. /\ DeployTypeOK /\ CoordinatorTypeOK
      /\ stage[c] \notin {"idle", "awaiting"} /\ phase[c] \in {"run", "torn"}
    BY DEF DeployInv, CoordinatorInv, TasksFollowCalls, CallLinks, Succeeded
<1> USE <1>0 DEF DeployTypeOK, CoordinatorTypeOK
<1> DEFINE Stays == /\ result'[c] = result[c] /\ phase'[c] = phase[c]
                    /\ projectOf'[c] = projectOf[c]
                    /\ request'[c] = request[c] /\ sha'[c] = sha[c]
<1>1. ASSUME NEW d \in Call,
             \/ \E u \in User, r \in Repo, k \in Kind : Begin(d, u, r, k)
             \/ Cloned(d) \/ AnalysisFails(d)
      PROVE  Stays
    BY <1>1 DEF Begin, Cloned, AnalysisFails
<1>2. ASSUME NEW d \in Call, NEW p \in Project,
             Admit(d, p) \/ Reject(d, p) \/ CredentialsUnreadable(d, p)
      PROVE  Stays
    <2>1. d # c
        BY <1>2 DEF Admit, Reject, CredentialsUnreadable, Prepare, SaveProject
    <2> QED BY <1>2, <2>1
            DEF Admit, Reject, CredentialsUnreadable, Prepare, SaveProject, RunAdmitted, RunRejected
<1>3. ASSUME NEW d \in Call,
             TaskStarts(d) \/ TaskCancelledEarly(d) \/ TaskEnds(d) \/ DeployReturns(d)
      PROVE  Stays
    BY <1>3 DEF TaskStarts, FirstStep, TaskCancelledEarly, EndsBeforeStart, TaskEnds, Finish,
                DeployReturns, Resume
<1>4. ASSUME \/ \E u \in User : CancelCurrent(u)
             \/ \E u \in User, p \in Project, on \in BOOLEAN : SetAutoDeploy(u, p, on)
             \/ \E d \in Deletion, u \in User, p \in Project : BeginDelete(d, u, p)
             \/ \E d \in Deletion : EndDelete(d)
             \/ \E r \in Repo : Push(r)
             \/ UNCHANGED serviceVars
      PROVE  Stays
    BY <1>4 DEF CancelCurrent, CancelForUser, SetAutoDeploy, BeginDelete, EndDelete, Push,
                serviceVars
<1>5. ASSUME ServiceRestart
      PROVE  Settled(c)
    <2>1. UNCHANGED <<result, projectOf, request, sha>>
        BY <1>5 DEF ServiceRestart, Restart
    <2>2. \E torn \in SUBSET Call : phase' = PhaseAfterDeath(torn)
        BY <1>5 DEF ServiceRestart
    <2>3. phase[c] = "torn" => phase'[c] = "torn"
        BY <2>2 DEF PhaseAfterDeath
    <2> QED BY <2>1, <2>3 DEF Settled, Succeeded
<1>6. Stays => Settled(c)
    BY DEF Settled, Succeeded
<1> HIDE DEF Stays
<1> QED BY <1>1, <1>2, <1>3, <1>4, <1>5, <1>6, ServiceCases

(* A project id stays, if it stays, with its user and its repository. *)
SameOwner(p) ==
    projects'[p] # Absent => /\ Exists(p)
                             /\ projects'[p].owner = projects[p].owner
                             /\ projects'[p].repo = projects[p].repo

(* A step of the service leaves the ids of the past, and whose they are.   *)
LEMMA RowsKeepOwners ==
    ASSUME CoordinatorInv, DeployInv, DeployInv', [DeployNext]_serviceVars,
           NEW p \in Project, p \in born
    PROVE  p \in born' /\ SameOwner(p)
<1> USE DEF deployVars, tableVars, worldVars
<1>0. DeployTypeOK
    BY DEF DeployInv
<1>1. projects'[p] # Absent => Exists(p)
    BY DeletedKept
<1>2. ASSUME NEW c \in Call, NEW q \in Project,
             Admit(c, q) \/ Reject(c, q) \/ CredentialsUnreadable(c, q)
      PROVE  p \in born' /\ SameOwner(p)
    <2>1. PICK s : Prepare(c, q, s)
        BY <1>2 DEF Admit, Reject, CredentialsUnreadable
    <2>2. /\ projects' = [projects EXCEPT ![q] = RowFor(request[c], q)]
          /\ born' = born \cup {q}
        BY <2>1 DEF Prepare, SaveProject
    <2>3. /\ RowFor(request[c], q).owner = request[c].user
          /\ RowFor(request[c], q).repo = request[c].repo
          /\ Exists(q) => /\ projects[q].owner = request[c].user
                          /\ projects[q].repo = request[c].repo
        BY <2>1, PrepareFacts DEF RowsFor
    <2> QED BY <1>0, <1>1, <2>2, <2>3 DEF SameOwner, DeployTypeOK
<1>3. ASSUME NEW c \in Call, DeployReturns(c)
      PROVE  p \in born' /\ SameOwner(p)
    <2>1. /\ projectOf[c] \in Project
          /\ Exists(projectOf[c]) => /\ projects[projectOf[c]].owner = request[c].user
                                     /\ projects[projectOf[c]].repo = request[c].repo
        BY <1>3 DEF DeployReturns, Resume, DeployInv, DeployTypeOK, CallLinks,
                    HistoryBelongsToProjects
    <2>2. /\ RowAfterSuccess(c).owner = request[c].user
          /\ RowAfterSuccess(c).repo = request[c].repo
        BY DEF RowAfterSuccess
    <2>3. \/ projects'[p] = projects[p]
          \/ p = projectOf[c] /\ projects'[p] = RowAfterSuccess(c)
        BY <1>0, <1>3, <2>1, RewritesOneRow DEF DeployReturns
    <2>4. born' = born
        BY <1>3 DEF DeployReturns
    <2> QED BY <1>1, <2>1, <2>2, <2>3, <2>4 DEF SameOwner
<1>4. ASSUME NEW u \in User, NEW q \in Project, NEW on \in BOOLEAN, SetAutoDeploy(u, q, on)
      PROVE  p \in born' /\ SameOwner(p)
    <2>1. projects[q] \in Row
        BY <1>0, <1>4 DEF SetAutoDeploy, Exists, DeployTypeOK
    <2> QED BY <1>0, <1>1, <1>4, <2>1 DEF SetAutoDeploy, SameOwner, DeployTypeOK, Row
<1>5. ASSUME NEW d \in Deletion, EndDelete(d)
      PROVE  p \in born' /\ SameOwner(p)
    BY <1>0, <1>1, <1>5 DEF EndDelete, SameOwner, DeployTypeOK
<1>6. ASSUME \/ \E c \in Call, u \in User, r \in Repo, k \in Kind : Begin(c, u, r, k)
             \/ \E c \in Call : Cloned(c) \/ AnalysisFails(c)
             \/ \E c \in Call : TaskStarts(c) \/ TaskCancelledEarly(c) \/ TaskEnds(c)
             \/ \E u \in User : CancelCurrent(u)
             \/ \E d \in Deletion, u \in User, q \in Project : BeginDelete(d, u, q)
             \/ \E r \in Repo : Push(r)
             \/ UNCHANGED serviceVars
      PROVE  p \in born' /\ SameOwner(p)
    <2>1. projects' = projects /\ born' = born
        BY <1>6 DEF Begin, Cloned, AnalysisFails, TaskStarts, TaskCancelledEarly, TaskEnds,
                    CancelCurrent, BeginDelete, Push, serviceVars
    <2> QED BY <1>1, <2>1 DEF SameOwner
<1>7. ASSUME ServiceRestart
      PROVE  p \in born' /\ SameOwner(p)
    BY <1>1, <1>7, RestartKeepsOwners DEF SameOwner, SameProject
<1> QED BY <1>0, <1>2, <1>3, <1>4, <1>5, <1>6, <1>7, ServiceCases

----------------------------------------------------------------------------
(* The steps of AutoDeploy that are no steps of the service.               *)

(* All others are steps of the service: only NewPush, StopPolling and Exit *)
(* remain.                                                                 *)
LEMMA AutoServiceSteps ==
    ASSUME AutoTypeOK, DeployTypeOK, AutoInv, [AutoNext]_autoVars
    PROVE  \/ [DeployNext]_serviceVars
           \/ \E h \in Sha : NewPush(h)
           \/ StopPolling
           \/ Exit
<1>1. ASSUME Wake \/ SeenAlready \/ PollFails \/ AnnouncementFails \/ Reported
      PROVE  UNCHANGED serviceVars
    BY <1>1 DEF Wake, SeenAlready, PollFails, AnnouncementFails, Reported
<1>2. ASSUME NEW c \in Call, StartJob(c)
      PROVE  DeployNext
    <2>1. held \in Held
        BY <1>2 DEF StartJob, AutoInv, AutoTypeOK
    <2>2. held.row.owner \in User /\ held.row.repo \in Repo /\ held.row.kind \in Kind
        BY <2>1 DEF Held, Row
    <2> QED BY <1>2, <2>2 DEF StartJob, DeployNext, StartDeploy
<1>3. ASSUME JobRaises \/ JobReturns
      PROVE  DeployNext
    <2>1. job \in Call
        BY <1>3 DEF JobRaises, JobReturns, AutoInv, AutoTypeOK
    <2> QED BY <1>3, <2>1 DEF JobRaises, JobReturns, DeployNext, RunNext
<1>4. ASSUME Handled
      PROVE  DeployNext
    BY <1>4 DEF Handled, DeployNext
<1>5. ASSUME Underway \/ TurnedDown \/ Elsewhere
      PROVE  DeployNext
    BY <1>5 DEF Underway, TurnedDown, Elsewhere, DeployNext
<1>6. ASSUME NEW c \in Call, Advances(c)
      PROVE  DeployNext
    BY <1>6 DEF Advances, DeployNext, RunNext
<1>7. CASE AutoRestart
    BY <1>7 DEF AutoRestart, DeployNext
<1>8. CASE UNCHANGED autoVars
    BY <1>8 DEF autoVars, serviceVars
<1> QED
    BY <1>1, <1>2, <1>3, <1>4, <1>5, <1>6, <1>7, <1>8 DEF AutoNext, PollEnds, Announced

(* The row that NewPush writes back belongs where it goes, and so does its *)
(* URL, however old it is.                                                 *)
LEMMA PushKeeps ==
    ASSUME AutoAll, NEW h \in Sha, NewPush(h)
    PROVE  /\ UNCHANGED coordinatorVars
           /\ DeployInv'
           /\ held'.row \in Row /\ held' \in Held
           /\ \A p \in born : p \in born' /\ SameOwner(p)
           /\ UNCHANGED <<result, phase, projectOf, request, sha>>
<1> USE DEF deployVars, tableVars, worldVars, coordinatorVars, callVars, taskVars, registryVars
<1> DEFINE p == held.project
           row == held'.row
<1>1. held # Absent /\ held \in Held
    BY DEF NewPush, AutoAll, AutoInv, AutoTypeOK
<1>2. /\ held' \in Held /\ row \in Row /\ p \in Project /\ held'.project = p
      /\ row.owner = held.row.owner /\ row.repo = held.row.repo
      /\ row.kind = held.row.kind /\ row.live = held.row.live
      /\ row.deployed = held.row.deployed
    <2>1. held' = [held EXCEPT !.row.triggered = h]
        BY DEF NewPush
    <2> QED BY <1>1, <2>1 DEF Held, Row
<1>3. /\ projects' = Rewritten(p, row)
      /\ UNCHANGED <<phase, request, sha, projectOf, autoSeen, born, record,
                     head, serverHolds, deletion, coordinatorVars>>
    BY DEF NewPush
<1> HIDE DEF p, row
<1>4. DeployTypeOK /\ row # Absent
    BY <1>2, AbsentAssumption DEF AutoAll, DeployInv
<1>5. \A q \in Project : \/ projects'[q] = projects[q]
                         \/ q = p /\ Exists(p) /\ projects'[q] = row
    BY <1>2, <1>3, <1>4, RewritesOneRow
<1>6. Exists(p) => row.owner = projects[p].owner /\ row.repo = projects[p].repo
    BY <1>1, <1>2 DEF AutoAll, AutoInv, p
<1>7. DeployTypeOK'
    <2>1. projects' \in [Project -> Row \cup {Absent}]
        BY <1>2, <1>3, <1>4 DEF Rewritten, DeployTypeOK
    <2> QED BY <1>3, <1>4, <2>1 DEF DeployTypeOK
<1>8. \A q \in Project : projects'[q] # Absent <=> Exists(q)
    BY <1>4, <1>5 DEF Exists
<1>9. /\ CallLinks' /\ IdsNeverChangeHands' /\ RecordsFollowRuns'
    BY <1>3 DEF AutoAll, DeployInv, CallLinks, IdsNeverChangeHands, RecordsFollowRuns
<1>10. IdsAreBorn'
    BY <1>3, <1>8 DEF AutoAll, DeployInv, IdsAreBorn, Exists
<1>11. HistoryBelongsToProjects'
    <2> SUFFICES ASSUME NEW c \in Call, phase[c] \in {"run", "broken", "torn"}
                 PROVE  /\ record[c] # "none" <=> projects'[projectOf[c]] # Absent
                        /\ projects'[projectOf[c]] # Absent =>
                               /\ projects'[projectOf[c]].owner = request[c].user
                               /\ projects'[projectOf[c]].repo = request[c].repo
        BY <1>3 DEF HistoryBelongsToProjects, Exists
    <2>1. projectOf[c] \in Project
        BY <1>4 DEF AutoAll, DeployInv, CallLinks, DeployTypeOK
    <2>2. /\ record[c] # "none" <=> Exists(projectOf[c])
          /\ Exists(projectOf[c]) => /\ projects[projectOf[c]].owner = request[c].user
                                     /\ projects[projectOf[c]].repo = request[c].repo
        BY DEF AutoAll, DeployInv, HistoryBelongsToProjects
    <2> QED BY <1>5, <1>6, <1>8, <2>1, <2>2 DEF Exists
<1>12. ShownUrlIsReal'
    <2>1. row.live # NoCall => /\ Succeeded(row.live) /\ projectOf[row.live] = p
                               /\ row.kind = request[row.live].kind
                               /\ row.deployed = sha[row.live]
        BY <1>1, <1>2 DEF AutoAll, HeldWasReal, p
    <2>2. ASSUME NEW q \in Project, Exists(q), projects[q].live # NoCall
          PROVE  /\ Succeeded(projects[q].live) /\ projectOf[projects[q].live] = q
                 /\ projects[q].kind = request[projects[q].live].kind
                 /\ projects[q].deployed = sha[projects[q].live]
        BY <2>2 DEF AutoAll, DeployInv, ShownUrlIsReal
    <2>3. ASSUME NEW q \in Project, projects'[q] # Absent, projects'[q].live # NoCall
          PROVE  /\ Succeeded(projects'[q].live) /\ projectOf[projects'[q].live] = q
                 /\ projects'[q].kind = request[projects'[q].live].kind
                 /\ projects'[q].deployed = sha[projects'[q].live]
        BY <1>5, <2>1, <2>2, <2>3 DEF Exists
    <2>4. UNCHANGED <<result, phase, projectOf, request, sha>>
        BY <1>3
    <2> QED BY <2>3, <2>4 DEF ShownUrlIsReal, Succeeded, Exists
<1>13. DeployInv'
    BY <1>7, <1>9, <1>10, <1>11, <1>12 DEF DeployInv
<1>14. \A q \in born : q \in born' /\ SameOwner(q)
    <2>1. born \subseteq Project
        BY <1>4 DEF DeployTypeOK
    <2> QED BY <1>3, <1>5, <1>6, <1>8, <2>1 DEF SameOwner
<1> QED BY <1>2, <1>3, <1>13, <1>14 DEF row

(* What the end of the process cancels fits into the service. *)
LEMMA CancellingKeeps ==
    ASSUME CoordinatorInv, DeployInv, NEW S, NEW T,
           UNCHANGED coordinatorVars \/ CancelCallers(S),
           UNCHANGED phase \/ AnalysesCancelled(T),
           UNCHANGED <<request, sha, projectOf, autoSeen, tableVars, head>>,
           serverHolds' \in SUBSET Project,
           deletion' \in [Deletion -> Cleanup \cup {Absent}]
    PROVE  DeployInv'
<1> USE DEF deployVars, tableVars, worldVars, coordinatorVars, callVars, taskVars, registryVars
<1>0. /\ DeployTypeOK /\ CallLinks /\ CoordinatorTypeOK /\ TasksFollowCalls /\ LiveIsRegistered
      /\ RecordsFollowRuns
    BY DEF DeployInv, CoordinatorInv
<1>1. /\ stage' = stage /\ result' = result /\ userOf' = userOf /\ keyOf' = keyOf
      /\ task' = task /\ outcome' = outcome
      /\ \A c \in Call : c \in cancelling' => c \in cancelling \/ Live(c)
    BY DEF CancelCallers
<1>2. \A c \in Call : \/ phase'[c] = phase[c]
                      \/ phase[c] \in {"analyzing", "cloned"} /\ phase'[c] = "refused"
    BY DEF AnalysesCancelled
<1>3. DeployTypeOK'
    <2>1. phase' \in [Call -> Phase]
        BY <1>0 DEF AnalysesCancelled, DeployTypeOK, Phase
    <2> QED BY <1>0, <2>1 DEF DeployTypeOK
<1>4. CallLinks'
    BY <1>0, <1>1, <1>2 DEF CallLinks
<1>5. IdsAreBorn' /\ IdsNeverChangeHands'
    BY DEF DeployInv, IdsAreBorn, IdsNeverChangeHands, Exists
<1>6. RecordsFollowRuns'
    <2> SUFFICES ASSUME NEW c \in Call, record[c] # "none"
                 PROVE  /\ phase'[c] \in {"run", "broken", "torn"}
                        /\ stage[c] = "returned" => record[c] = Verdict(result[c])
                        /\ stage[c] # "returned" =>
                               record[c] \in {"queued", "planning", "running"}
                        /\ record[c] = "planning" => task[c] = "killed"
                        /\ task[c] = "ready" => record[c] = "queued"
                        /\ task[c] = "running" => record[c] = "running"
                        /\ c \in cancelling' => record[c] # "successful"
        BY <1>1 DEF RecordsFollowRuns
    <2>1. /\ phase[c] \in {"run", "broken", "torn"}
          /\ stage[c] = "returned" => record[c] = Verdict(result[c])
          /\ stage[c] # "returned" => record[c] \in {"queued", "planning", "running"}
          /\ record[c] = "planning" => task[c] = "killed"
          /\ task[c] = "ready" => record[c] = "queued"
          /\ task[c] = "running" => record[c] = "running"
          /\ c \in cancelling => record[c] # "successful"
        BY <1>0 DEF RecordsFollowRuns
    <2>2. Live(c) => stage[c] # "returned"
        BY <1>0 DEF LiveIsRegistered
    <2> QED BY <1>1, <1>2, <2>1, <2>2
<1>7. HistoryBelongsToProjects'
    <2>1. \A c \in Call : phase'[c] \in {"run", "broken", "torn"} => phase[c] \in {"run", "broken", "torn"}
        BY <1>2
    <2> QED BY <2>1 DEF DeployInv, HistoryBelongsToProjects, Exists
<1>8. ShownUrlIsReal'
    <2>1. \A c \in Call : phase[c] = "torn" => phase'[c] = "torn"
        BY <1>2
    <2>2. \A p \in Project : Exists(p) /\ projects[p].live # NoCall => projects[p].live \in Call
        BY <1>0 DEF DeployTypeOK, Exists, Row
    <2> QED BY <1>1, <2>1, <2>2 DEF DeployInv, ShownUrlIsReal, Succeeded, Exists
<1> QED BY <1>3, <1>4, <1>5, <1>6, <1>7, <1>8 DEF DeployInv

(* The invariants of the coordinator and the service, and what the others  *)
(* rely on, at every step.                                                 *)
LEMMA AutoKeepsService ==
    ASSUME AutoAll, [AutoNext]_autoVars
    PROVE  /\ CoordinatorInv' /\ DeployInv'
           /\ \A p \in born : p \in born' /\ SameOwner(p)
           /\ \A c \in Call : Succeeded(c) => Settled(c)
<1> DEFINE Kept == /\ CoordinatorInv' /\ DeployInv'
                   /\ \A p \in born : p \in born' /\ SameOwner(p)
                   /\ \A c \in Call : Succeeded(c) => Settled(c)
<1>0. CoordinatorInv /\ DeployInv /\ DeployTypeOK /\ AutoInv /\ AutoTypeOK
    BY DEF AutoAll, DeployInv, AutoInv
<1>1. [CoordinatorNext]_coordinatorVars => CoordinatorInv'
    BY <1>0, TypeStep, CallsStep, RegistriesStep, CancelStep DEF CoordinatorInv
<1>2. CASE [DeployNext]_serviceVars
    <2>1. CoordinatorInv' /\ DeployInv'
        BY <1>0, <1>1, <1>2, ServiceSteps, ServiceStepInv
    <2>2. \A p \in born : p \in born' /\ SameOwner(p)
        <3>1. born \subseteq Project
            BY <1>0 DEF DeployTypeOK
        <3> QED BY <1>0, <1>2, <2>1, <3>1, RowsKeepOwners
    <2> QED BY <1>0, <1>2, <2>1, <2>2, SuccessStays
<1>3. ASSUME NEW h \in Sha, NewPush(h)
      PROVE  Kept
    <2>1. \A c \in Call : Succeeded(c) => Settled(c)
        BY <1>3, PushKeeps DEF Settled, Succeeded
    <2> QED BY <1>1, <1>3, <2>1, PushKeeps
<1>4. ASSUME StopPolling \/ Exit
      PROVE  Kept
    <2>1. PICK S \in SUBSET Call, T \in SUBSET (Call \cup {NoCall}) :
              /\ UNCHANGED coordinatorVars \/ CancelCallers(S)
              /\ UNCHANGED phase \/ AnalysesCancelled(T)
        <3>1. CASE StopPolling
            <4>1. ASSUME job \in Outliving PROVE {job} \in SUBSET Call
                BY <4>1 DEF Outliving
            <4>2. {} \in SUBSET Call
                OBVIOUS
            <4>3. {job} \in SUBSET (Call \cup {NoCall})
                BY <1>0 DEF AutoTypeOK
            <4> QED BY <3>1, <4>1, <4>2, <4>3 DEF StopPolling
        <3>2. CASE Exit
            <4>1. {c \in Call : stage[c] = "awaiting"} \in SUBSET Call
                OBVIOUS
            <4>2. Call \in SUBSET (Call \cup {NoCall})
                OBVIOUS
            <4> QED BY <3>2, <4>1, <4>2 DEF Exit
        <3> QED BY <1>4, <3>1, <3>2
    <2>2. /\ UNCHANGED <<request, sha, projectOf, autoSeen, tableVars, head>>
          /\ serverHolds' \in SUBSET Project
          /\ deletion' \in [Deletion -> Cleanup \cup {Absent}]
        BY <1>0, <1>4 DEF StopPolling, Exit, worldVars, DeployTypeOK
    <2>3. CoordinatorInv'
        BY <1>1, <2>1 DEF CoordinatorNext
    <2>4. DeployInv'
        BY <1>0, <2>1, <2>2, CancellingKeeps
    <2>5. \A c \in Call : Succeeded(c) => Settled(c)
        <3>1. result' = result
            BY <2>1 DEF CancelCallers, coordinatorVars
        <3>2. \A c \in Call : phase[c] = "torn" => phase'[c] = "torn"
            BY <2>1 DEF AnalysesCancelled
        <3> QED BY <2>2, <3>1, <3>2 DEF Settled, Succeeded
    <2>6. \A p \in born : p \in born' /\ SameOwner(p)
        BY <2>2 DEF SameOwner, Exists, tableVars
    <2> QED BY <2>2, <2>3, <2>4, <2>5, <2>6
<1> HIDE DEF Kept
<1> QED BY <1>0, <1>2, <1>3, <1>4, AutoServiceSteps DEF Kept

----------------------------------------------------------------------------
(* The worker.                                                             *)

(* Going on to the next project, the worker holds its row of now. *)
LEMMA GoesOn ==
    ASSUME DeployTypeOK, DeployTypeOK', NEW rest \in SUBSET Project, GoOn(rest), head' = head
    PROVE  /\ job' = NoCall
           /\ worker' \in {"polling", "asleep"}
           /\ todo' \in SUBSET Project
           /\ worker' = "polling" <=> held' # Absent
           /\ held' # Absent => /\ held' \in Held
                                /\ projects'[held'.project] # Absent
                                /\ held'.row = projects'[held'.project]
<1>1. ASSUME NEW p \in Project, Watched(p)',
             held' = [project |-> p, row |-> projects'[p], since |-> head[projects'[p].repo]]
      PROVE  /\ held' \in Held
             /\ projects'[held'.project] # Absent
             /\ held'.row = projects'[held'.project]
    <2>1. projects'[p] # Absent
        BY <1>1 DEF Watched, Exists
    <2>2. projects'[p] \in Row
        BY <2>1 DEF DeployTypeOK
    <2>3. head[projects'[p].repo] \in Sha
        BY <2>2 DEF Row, DeployTypeOK
    <2> QED BY <1>1, <2>1, <2>2, <2>3 DEF Held
<1>2. CASE \E p \in {q \in rest : Watched(q)'}, passed \in SUBSET {q \in rest : ~Watched(q)'} :
              /\ worker' = "polling"
              /\ todo' = rest \ (passed \cup {p})
              /\ held' = [project |-> p, row |-> projects'[p], since |-> head[projects'[p].repo]]
    <2>1. PICK p \in Project, passed \in SUBSET rest :
              /\ Watched(p)'
              /\ worker' = "polling"
              /\ todo' = rest \ (passed \cup {p})
              /\ held' = [project |-> p, row |-> projects'[p], since |-> head[projects'[p].repo]]
        BY <1>2
    <2>2. held' \in Held /\ held' # Absent
        BY <1>1, <2>1, HeldAssumption
    <2> QED BY <1>1, <2>1, <2>2 DEF GoOn
<1>3. CASE worker' = "asleep" /\ todo' = {} /\ held' = Absent
    BY <1>3 DEF GoOn
<1> QED BY <1>2, <1>3 DEF GoOn

(* Whoever goes on, goes on from a state of the service. *)
GoesOnIn ==
    \/ /\ Wake \/ SeenAlready \/ PollFails \/ AnnouncementFails \/ Reported
       /\ UNCHANGED serviceVars
    \/ JobRaises

(* The worker that goes on holds no call, and the row of its project as it *)
(* is now.                                                                 *)
LEMMA GoesOnWell ==
    ASSUME AutoAll, CoordinatorInv', DeployInv', GoesOnIn
    PROVE  /\ process' = process
           /\ worker \notin {"stopped"}
           /\ job' = NoCall
           /\ worker' \in {"polling", "asleep"}
           /\ todo' \in SUBSET Project
           /\ worker' = "polling" <=> held' # Absent
           /\ held' # Absent => /\ held' \in Held
                                /\ projects'[held'.project] # Absent
                                /\ held'.row = projects'[held'.project]
           /\ asked' = asked
<1>0. DeployTypeOK /\ DeployTypeOK' /\ todo \in SUBSET Project
    BY DEF AutoAll, DeployInv, AutoInv, AutoTypeOK
<1>1. Listed \in SUBSET Project
    BY DEF Listed
<1>2. \E rest \in SUBSET Project : GoOn(rest)
    BY <1>0, <1>1 DEF GoesOnIn, Wake, SeenAlready, PollFails, AnnouncementFails, Reported, JobRaises
<1>3. head' = head
    BY DEF GoesOnIn, serviceVars, JobRaises, AnalysisFails, CredentialsUnreadable, Prepare, SaveProject, worldVars
<1>4. process' = process /\ asked' = asked /\ worker # "stopped"
    BY DEF GoesOnIn, Wake, SeenAlready, PollFails, AnnouncementFails, Reported, JobRaises
<1> QED BY <1>0, <1>2, <1>3, <1>4, GoesOn

(* The steps of the others. *)
Others == \/ Handled \/ Underway \/ TurnedDown \/ Elsewhere
          \/ \E c \in Call : Advances(c)

(* No step of the others takes from the worker what it waits for.          *)
LEMMA OthersStep ==
    ASSUME AutoAll, Others
    PROVE  /\ UNCHANGED <<process, worker, todo, held, job>>
           /\ asked' \in SUBSET Call
           /\ job # NoCall => phase'[job] \in {"analyzing", "cloned"} \/ stage'[job] = "awaiting"
           /\ process = "exiting" =>
                  \A c \in Call : /\ phase'[c] \notin {"analyzing", "cloned"}
                                  /\ task'[c] \in {"ready", "running"} => c \in cancelling'
<1> USE DEF deployVars, tableVars, worldVars, coordinatorVars, callVars, taskVars, registryVars,
            workerVars
<1>0. /\ DeployTypeOK /\ CoordinatorTypeOK /\ AutoTypeOK /\ TasksFollowCalls /\ CallLinks
      /\ job # NoCall => /\ job \in Call
                         /\ phase[job] \in {"analyzing", "cloned"} \/ stage[job] = "awaiting"
      /\ process = "exiting" =>
             \A c \in Call : /\ phase[c] \notin {"analyzing", "cloned"}
                             /\ Live(c) => c \in cancelling
    BY DEF AutoAll, DeployInv, CoordinatorInv, AutoInv, AutoTypeOK
<1>9. job # NoCall => phase[job] # "idle"
    BY <1>0 DEF CallLinks
<1> DEFINE Fine == /\ UNCHANGED <<process, worker, todo, held, job>>
                   /\ asked' \in SUBSET Call
                   /\ job # NoCall => phase'[job] \in {"analyzing", "cloned"}
                                      \/ stage'[job] = "awaiting"
                   /\ process = "exiting" =>
                          \A c \in Call : /\ phase'[c] \notin {"analyzing", "cloned"}
                                          /\ task'[c] \in {"ready", "running"} => c \in cancelling'
<1>1. CASE Handled
    <2>1. process # "exiting"
        BY <1>1 DEF Handled
    <2>2. ASSUME NEW c \in Call, NEW u, NEW r, NEW k, Begin(c, u, r, k)
          PROVE  /\ stage' = stage
                 /\ \A d \in Call : phase'[d] = phase[d] \/ (d = c /\ phase[d] = "idle")
        BY <1>0, <2>2 DEF Begin, DeployTypeOK
    <2>3. CASE /\ \/ \E c \in Call, u \in User, r \in Repo, k \in Kind : StartDeploy(c, u, r, k)
                  \/ \E c \in Call, u \in User, p \in Project : StartExisting(c, u, p)
               /\ UNCHANGED workerVars
        BY <1>0, <1>9, <2>1, <2>2, <2>3 DEF StartDeploy, StartExisting, AutoTypeOK
    <2>4. CASE /\ \/ \E u \in User, p \in Project, on \in BOOLEAN : SetAutoDeploy(u, p, on)
                  \/ \E d \in Deletion, u \in User, p \in Project : BeginDelete(d, u, p)
               /\ UNCHANGED workerVars
        BY <1>0, <2>1, <2>4 DEF SetAutoDeploy, BeginDelete, AutoTypeOK
    <2>5. ASSUME NEW u \in User, CancelCurrent(u), asked' = asked \cup {userTasks[u]},
                 UNCHANGED <<process, worker, todo, held, job>>
          PROVE  Fine
        <3>1. userTasks[u] \in Call
            BY <1>0, <2>5 DEF CancelCurrent, CancelForUser, Busy, CoordinatorTypeOK
        <3> QED BY <1>0, <2>1, <2>5, <3>1 DEF CancelCurrent, CancelForUser, AutoTypeOK
    <2> QED BY <1>1, <2>3, <2>4, <2>5 DEF Handled
<1>2. CASE Underway
    <2>1. ASSUME NEW c \in Call, Cloned(c)
          PROVE  /\ phase[c] = "analyzing" /\ UNCHANGED coordinatorVars
                 /\ phase' = [phase EXCEPT ![c] = "cloned"]
        BY <2>1 DEF Cloned
    <2>2. ASSUME NEW c \in Call, NEW p \in Project, Admit(c, p)
          PROVE  /\ phase[c] = "cloned"
                 /\ phase' = [phase EXCEPT ![c] = "run"]
                 /\ stage' = [stage EXCEPT ![c] = "awaiting"]
        BY <2>2 DEF Admit, Prepare, SaveProject, RunAdmitted
    <2>3. ASSUME NEW c \in Call, Cloned(c) PROVE Fine
        BY <1>0, <1>2, <2>1, <2>3 DEF Underway, AutoTypeOK, DeployTypeOK
    <2>4. ASSUME NEW c \in Call, NEW p \in Project, Admit(c, p) PROVE Fine
        BY <1>0, <1>2, <2>2, <2>4 DEF Underway, AutoTypeOK, DeployTypeOK, CoordinatorTypeOK
    <2> QED BY <1>2, <2>3, <2>4 DEF Underway
<1>3. CASE TurnedDown
    <2>1. PICK c \in Call \ {job} :
              AnalysisFails(c) \/ \E p \in Project : Reject(c, p) \/ CredentialsUnreadable(c, p)
        BY <1>3 DEF TurnedDown
    <2>2. /\ phase[c] \in {"analyzing", "cloned"}
          /\ \A d \in Call : d # c => phase'[d] = phase[d] /\ stage'[d] = stage[d]
        BY <1>0, <2>1 DEF AnalysisFails, Reject, CredentialsUnreadable, Prepare, SaveProject, RunRejected,
                          DeployTypeOK, CoordinatorTypeOK
    <2> QED BY <1>0, <1>3, <2>2 DEF TurnedDown, AutoTypeOK
<1>4. CASE Elsewhere
    BY <1>0, <1>4 DEF Elsewhere, EndDelete, Push, AutoTypeOK, Live
<1>5. ASSUME NEW c \in Call, Advances(c)
      PROVE  Fine
    <2>1. phase' = phase /\ UNCHANGED <<process, worker, todo, held, job, asked, cancelling>>
        BY <1>5 DEF Advances, TaskStarts, FirstStep, TaskCancelledEarly, EndsBeforeStart,
                    TaskEnds, Finish, DeployReturns, Resume
    <2>2. \A d \in Call : stage'[d] = stage[d] \/ (d = c /\ c # job)
        BY <1>0, <1>5 DEF Advances, TaskStarts, FirstStep, TaskCancelledEarly, EndsBeforeStart,
                    TaskEnds, Finish, DeployReturns, Resume, CoordinatorTypeOK
    <2>3. \A d \in Call : task'[d] \in {"ready", "running"} => Live(d)
        BY <1>0, <1>5 DEF Advances, TaskStarts, FirstStep, TaskCancelledEarly, EndsBeforeStart,
                    TaskEnds, Finish, DeployReturns, Resume, CoordinatorTypeOK, Live
    <2>4. asked' \in SUBSET Call
        BY <1>0, <2>1 DEF AutoTypeOK
    <2>5. job # NoCall => phase'[job] \in {"analyzing", "cloned"} \/ stage'[job] = "awaiting"
        BY <1>0, <2>1, <2>2
    <2> QED BY <1>0, <2>1, <2>3, <2>4, <2>5
<1> QED BY <1>1, <1>2, <1>3, <1>4, <1>5 DEF Others

(* The row of the worker after a step that leaves it in its hands. *)
HeldKept ==
    /\ held' # Absent => held' = held
    /\ held' # Absent /\ projects'[held'.project] # Absent =>
           /\ held'.row.owner = projects'[held'.project].owner
           /\ held'.row.repo = projects'[held'.project].repo
    /\ held' # Absent => held'.project \in born'
    /\ HeldWasReal'

(* A row that the worker keeps stays one the table could have had.         *)
LEMMA HeldStays ==
    ASSUME AutoAll, held' \in {held, Absent},
           \A p \in born : p \in born' /\ SameOwner(p),
           \A c \in Call : Succeeded(c) => Settled(c)
    PROVE  HeldKept
<1>1. CASE held' = Absent
    BY <1>1 DEF HeldKept, HeldWasReal
<1>2. CASE held' = held /\ held # Absent
    <2>1. /\ held \in Held /\ held.project \in born
          /\ Exists(held.project) => /\ held.row.owner = projects[held.project].owner
                                     /\ held.row.repo = projects[held.project].repo
        BY <1>2 DEF AutoAll, AutoInv, AutoTypeOK
    <2>2. held.row.live \in Call \cup {NoCall}
        BY <2>1 DEF Held, Row
    <2>3. held.project \in born' /\ SameOwner(held.project)
        BY <2>1
    <2>4. HeldWasReal'
        BY <1>2, <2>2 DEF AutoAll, HeldWasReal, Settled
    <2> QED BY <1>2, <2>1, <2>3, <2>4 DEF HeldKept, SameOwner
<1> QED BY <1>1, <1>2

(* AutoAll is inductive, by cases on who takes the step.                   *)
LEMMA AutoStep == AutoAll /\ [AutoNext]_autoVars => AutoAll'
<1> SUFFICES ASSUME AutoAll, [AutoNext]_autoVars PROVE AutoAll'
    OBVIOUS
<1> DEFINE Goal == AutoInv' /\ HeldWasReal'
<1>0. /\ CoordinatorInv' /\ DeployInv'
      /\ \A p \in born : p \in born' /\ SameOwner(p)
      /\ \A c \in Call : Succeeded(c) => Settled(c)
    BY AutoKeepsService
<1>1. /\ process \in {"up", "stopping", "exiting"}
      /\ worker \in {"asleep", "polling", "announcing", "deploying", "reporting", "stopped"}
      /\ todo \in SUBSET Project /\ held \in Held \cup {Absent}
      /\ job \in Call \cup {NoCall} /\ asked \in SUBSET Call
      /\ worker = "deploying" <=> job # NoCall
      /\ job # NoCall => phase[job] \in {"analyzing", "cloned"} \/ stage[job] = "awaiting"
      /\ worker \in {"polling", "announcing"} <=> held # Absent
      /\ process = "up" => worker # "stopped"
      /\ process = "exiting" =>
             /\ worker = "stopped"
             /\ \A c \in Call : /\ phase[c] \notin {"analyzing", "cloned"}
                                /\ task[c] \in {"ready", "running"} => c \in cancelling
    BY DEF AutoAll, AutoInv, AutoTypeOK, Live
<1>2. held' \in {held, Absent} => HeldKept
    BY <1>0, HeldStays
<1> SUFFICES Goal
    BY <1>0 DEF AutoAll
<1>3. CASE GoesOnIn
    <2>1. /\ process' = process /\ worker # "stopped" /\ job' = NoCall
          /\ worker' \in {"polling", "asleep"} /\ todo' \in SUBSET Project
          /\ worker' = "polling" <=> held' # Absent
          /\ held' # Absent => /\ held' \in Held
                               /\ projects'[held'.project] # Absent
                               /\ held'.row = projects'[held'.project]
          /\ asked' = asked
        BY <1>0, <1>3, GoesOnWell
    <2>2. held' # Absent => held'.project \in born'
        <3>1. \A p \in Project : projects'[p] # Absent => p \in born'
            BY <1>0 DEF DeployInv, IdsAreBorn, Exists
        <3> QED BY <2>1, <3>1 DEF Held
    <2>3. HeldWasReal'
        <3>1. \A p \in Project : projects'[p] # Absent /\ projects'[p].live # NoCall =>
                  /\ result'[projects'[p].live] = "ok" \/ phase'[projects'[p].live] = "torn"
                  /\ projectOf'[projects'[p].live] = p
                  /\ projects'[p].kind = request'[projects'[p].live].kind
                  /\ projects'[p].deployed = sha'[projects'[p].live]
            BY <1>0 DEF DeployInv, ShownUrlIsReal, Succeeded, Exists
        <3>2. held' # Absent => held'.project \in Project
            BY <2>1 DEF Held
        <3> QED BY <2>1, <3>1, <3>2 DEF HeldWasReal, Succeeded
    <2>4. AutoInv'
        BY <1>1, <2>1, <2>2 DEF AutoInv, AutoTypeOK, Exists, Live
    <2> QED BY <2>3, <2>4
<1>4. ASSUME NEW h \in Sha, NewPush(h)
      PROVE  Goal
    <2>1. /\ held' \in Held
          /\ UNCHANGED <<result, phase, projectOf, request, sha>>
        BY <1>4, PushKeeps
    <2>2. held # Absent /\ held \in Held /\ job = NoCall
        BY <1>1, <1>4 DEF NewPush
    <2>3. /\ held'.project = held.project
          /\ held'.row.owner = held.row.owner /\ held'.row.repo = held.row.repo
          /\ held'.row.kind = held.row.kind /\ held'.row.live = held.row.live
          /\ held'.row.deployed = held.row.deployed
        BY <1>4, <2>2 DEF NewPush, Held, Row
    <2>4. /\ worker' = "announcing" /\ UNCHANGED <<process, todo, job, asked>>
          /\ worker = "polling"
        BY <1>4 DEF NewPush
    <2>5. /\ held.project \in born
          /\ Exists(held.project) => /\ held.row.owner = projects[held.project].owner
                                     /\ held.row.repo = projects[held.project].repo
        BY <2>2 DEF AutoAll, AutoInv
    <2>6. /\ held'.project \in born'
          /\ projects'[held'.project] # Absent =>
                 /\ held'.row.owner = projects'[held'.project].owner
                 /\ held'.row.repo = projects'[held'.project].repo
        BY <1>0, <2>3, <2>5 DEF SameOwner
    <2>7. held' # Absent
        BY <2>1, HeldAssumption
    <2>8. HeldWasReal'
        BY <2>1, <2>2, <2>3 DEF AutoAll, HeldWasReal, Succeeded
    <2>9. AutoInv'
        BY <1>1, <2>1, <2>2, <2>4, <2>6, <2>7 DEF AutoInv, AutoTypeOK, Exists, Live
    <2> QED BY <2>8, <2>9
<1>5. ASSUME NEW c \in Call, StartJob(c)
      PROVE  Goal
    <2>1. phase'[c] = "analyzing"
        BY <1>5 DEF StartJob, Begin, AutoAll, DeployInv, DeployTypeOK
    <2>2. /\ worker = "announcing" /\ worker' = "deploying" /\ job' = c /\ held' = Absent
          /\ UNCHANGED <<process, todo, asked>>
        BY <1>5 DEF StartJob
    <2>3. AutoInv'
        BY <1>1, <2>1, <2>2, NoneAssumption DEF AutoInv, AutoTypeOK, Exists, Live
    <2> QED BY <1>2, <2>2, <2>3 DEF HeldKept
<1>6. CASE JobReturns
    <2>1. /\ worker = "deploying" /\ worker' = "reporting" /\ job' = NoCall
          /\ UNCHANGED <<process, todo, held, asked>>
        BY <1>6 DEF JobReturns
    <2>2. AutoInv'
        BY <1>1, <2>1 DEF AutoInv, AutoTypeOK, Exists, Live
    <2> QED BY <1>2, <2>1, <2>2 DEF HeldKept
<1>7. CASE Others
    <2>1. /\ UNCHANGED <<process, worker, todo, held, job>>
          /\ asked' \in SUBSET Call
          /\ job # NoCall => phase'[job] \in {"analyzing", "cloned"} \/ stage'[job] = "awaiting"
          /\ process = "exiting" =>
                 \A c \in Call : /\ phase'[c] \notin {"analyzing", "cloned"}
                                 /\ task'[c] \in {"ready", "running"} => c \in cancelling'
        BY <1>7, OthersStep
    <2>2. HeldKept
        BY <1>2, <2>1
    <2>3. AutoInv'
        BY <1>1, <2>1, <2>2 DEF HeldKept, AutoInv, AutoTypeOK, Exists, Live
    <2> QED BY <2>2, <2>3 DEF HeldKept
<1>8. CASE StopPolling
    <2>1. CASE WorkerStops
        <3>1. /\ worker' = "stopped" /\ todo' = {} /\ held' = Absent /\ job' = NoCall
              /\ process' = "stopping" /\ asked' = asked
            BY <1>8, <2>1 DEF StopPolling, WorkerStops
        <3>2. AutoInv'
            BY <1>1, <3>1 DEF AutoInv, AutoTypeOK, Exists, Live
        <3> QED BY <1>2, <3>1, <3>2 DEF HeldKept
    <2>2. CASE /\ job \in Outliving
               /\ CancelCallers({job})
               /\ UNCHANGED <<worker, todo, held, job, phase>>
        <3>1. /\ UNCHANGED <<worker, todo, held, job, phase, stage, asked>>
              /\ process' = "stopping"
            BY <1>8, <2>2 DEF StopPolling, CancelCallers
        <3>2. HeldKept
            BY <1>2, <3>1
        <3>3. process = "up"
            BY <1>8 DEF StopPolling
        <3>4. AutoInv'
            BY <1>1, <3>1, <3>2, <3>3 DEF HeldKept, AutoInv, AutoTypeOK, Exists, Live
        <3> QED BY <3>2, <3>4 DEF HeldKept
    <2> QED BY <1>8, <2>1, <2>2 DEF StopPolling
<1>9. CASE Exit
    <2>1. /\ worker = "stopped" /\ process' = "exiting"
          /\ UNCHANGED <<worker, todo, held, job, asked>>
        BY <1>9 DEF Exit
    <2>2. \A c \in Call : /\ phase'[c] \notin {"analyzing", "cloned"}
                          /\ task'[c] \in {"ready", "running"} => c \in cancelling'
        <3>1. \A c \in Call : phase'[c] \notin {"analyzing", "cloned"}
            BY <1>9 DEF Exit, AnalysesCancelled
        <3>2. \A c \in Call : task[c] \in {"ready", "running"} => stage[c] = "awaiting"
            BY DEF AutoAll, CoordinatorInv, LiveIsRegistered, Live
        <3> QED BY <1>9, <3>1, <3>2 DEF Exit, CancelCallers, Live
    <2>3. HeldKept
        BY <1>2, <2>1
    <2>4. AutoInv'
        BY <1>1, <2>1, <2>2, <2>3 DEF HeldKept, AutoInv, AutoTypeOK, Exists, Live
    <2> QED BY <2>3, <2>4 DEF HeldKept
<1>10. CASE AutoRestart
    <2>1. /\ process' = "up" /\ worker' = "asleep" /\ todo' = {} /\ held' = Absent
          /\ job' = NoCall /\ asked' = asked
        BY <1>10 DEF AutoRestart
    <2>2. AutoInv'
        BY <1>1, <2>1 DEF AutoInv, AutoTypeOK, Exists, Live
    <2> QED BY <1>2, <2>1, <2>2 DEF HeldKept
<1>11. CASE UNCHANGED autoVars
    <2>1. UNCHANGED <<process, worker, todo, held, job, asked, phase, stage, task, cancelling>>
        BY <1>11 DEF autoVars
    <2>2. HeldKept
        BY <1>2, <2>1
    <2>3. AutoInv'
        BY <1>1, <2>1, <2>2 DEF HeldKept, AutoInv, AutoTypeOK, Exists, Live
    <2> QED BY <2>2, <2>3 DEF HeldKept
<1> HIDE DEF Goal
<1>12. \/ GoesOnIn \/ (\E h \in Sha : NewPush(h)) \/ (\E c \in Call : StartJob(c))
       \/ JobReturns \/ Others \/ StopPolling \/ Exit \/ AutoRestart \/ UNCHANGED autoVars
    <2>1. Wake \/ SeenAlready \/ PollFails \/ AnnouncementFails \/ Reported => GoesOnIn
        BY DEF GoesOnIn, Wake, SeenAlready, PollFails, AnnouncementFails, Reported
    <2>2. JobRaises => GoesOnIn
        BY DEF GoesOnIn
    <2> QED BY <2>1, <2>2 DEF AutoNext, PollEnds, Announced, Others
<1> QED BY <1>3, <1>4, <1>5, <1>6, <1>7, <1>8, <1>9, <1>10, <1>11, <1>12

(* It holds when the bot is started for the first time.                    *)
LEMMA AutoStartsWell == AutoInit => AutoAll
<1> SUFFICES ASSUME AutoInit PROVE AutoAll
    OBVIOUS
<1>1. CoordinatorInv /\ DeployInv
    BY InitInv, ServiceInitInv DEF AutoInit, DeployInit
<1>2. AutoInv /\ HeldWasReal
    BY DEF AutoInit, AutoInv, AutoTypeOK, HeldWasReal
<1> QED BY <1>1, <1>2 DEF AutoAll

(* The worker waits only for what is under way, its row is one of the same *)
(* owner, and an exit leaves nothing running that was not told to stop.    *)
THEOREM WorkerInvariant == AutoSafety => []AutoInv
<1>1. AutoAll => AutoInv
    BY DEF AutoAll
<1> QED BY <1>1, AutoStartsWell, AutoStep, PTL DEF AutoSafety

(* The tables and the coordinator stay right beside a worker that writes   *)
(* back rows it read long ago, and a process that is stopped and killed.   *)
THEOREM TablesSurviveTheWorker == AutoSafety => [](CoordinatorInv /\ DeployInv)
<1>1. AutoAll => CoordinatorInv /\ DeployInv
    BY DEF AutoAll
<1> QED BY <1>1, AutoStartsWell, AutoStep, PTL DEF AutoSafety

----------------------------------------------------------------------------
(* Deletions.                                                              *)

(* A step that is not the service's brings nothing back either. *)
LEMMA DeletedKeptHere ==
    AutoAll /\ AutoAll' /\ [AutoNext]_autoVars =>
        \A p \in Project : p \in born /\ ~Exists(p) =>
            /\ projects'[p] = Absent
            /\ \A c \in Call : projectOf[c] = p => record'[c] = "none"
<1> SUFFICES ASSUME AutoAll, AutoAll', [AutoNext]_autoVars,
                    NEW p \in Project, p \in born, ~Exists(p)
             PROVE  /\ projects'[p] = Absent
                    /\ \A c \in Call : projectOf[c] = p => record'[c] = "none"
    OBVIOUS
<1>0. AutoTypeOK /\ DeployTypeOK /\ AutoInv /\ CoordinatorInv /\ DeployInv /\ DeployInv'
    BY DEF AutoAll, AutoInv, DeployInv
<1>1. CASE [DeployNext]_serviceVars
    BY <1>0, <1>1, DeletedKept
<1>2. CASE (\E h \in Sha : NewPush(h)) \/ StopPolling \/ Exit
    <2>1. record' = record /\ (projects' = projects \/ \E row : projects' = Rewritten(held.project, row))
        BY <1>2 DEF NewPush, StopPolling, Exit, tableVars
    <2>2. projects'[p] = projects[p]
        BY <1>0, <2>1 DEF Rewritten, Exists, DeployTypeOK
    <2>3. ASSUME NEW c \in Call, projectOf[c] = p PROVE record[c] = "none"
        <3>1. phase[c] \in {"run", "broken", "torn"}
            BY <1>0, <2>3, AbsentAssumption DEF DeployInv, CallLinks
        <3> QED BY <1>0, <2>3, <3>1 DEF DeployInv, HistoryBelongsToProjects
    <2> QED BY <2>1, <2>2, <2>3 DEF Exists
<1> QED BY <1>0, <1>1, <1>2, AutoServiceSteps

(* A deletion is final beside the worker, too, which may be about to write *)
(* the project's row back.                                                 *)
THEOREM DeletionIsFinalHere == AutoSafety => DeletedStaysDeleted
<1>1. AutoAll /\ AutoAll' /\ [AutoNext]_autoVars =>
        [\A p \in Project : p \in born /\ ~Exists(p) =>
            /\ projects'[p] = Absent
            /\ \A c \in Call : projectOf[c] = p => record'[c] = "none"]_serviceVars
    BY DeletedKeptHere
<1> QED BY <1>1, AutoStartsWell, AutoStep, PTL DEF AutoSafety, DeletedStaysDeleted

----------------------------------------------------------------------------
(* Cancellations.                                                          *)

(* Whoever is on the way to be recorded as cancelled while the bot is up   *)
(* was asked for by its user.                                              *)
CancelsWereAsked ==
    \A c \in Call :
        /\ stage[c] = "idle" => c \notin interrupted
        /\ process = "up" /\ stage[c] = "awaiting" =>
               /\ c \in cancelling \/ outcome[c] = "cancelled" => c \in asked
               /\ c \notin interrupted

Unrecorded == \A c \in Call : record'[c] = "cancelled" => record[c] = "cancelled"

(* What a step does to coordinator, records and process. *)
LEMMA WhoCancels ==
    ASSUME AutoAll, [AutoNext]_autoVars
    PROVE  \/ /\ process' = process /\ asked' = asked
              /\ \/ \E c \in Call, p \in Project : Admit(c, p) \/ Reject(c, p)
                 \/ \E c \in Call : \/ TaskStarts(c) \/ TaskCancelledEarly(c)
                                    \/ TaskEnds(c) \/ DeployReturns(c)
                 \/ UNCHANGED coordinatorVars /\ Unrecorded
           \/ /\ process' = process /\ record' = record
              /\ \E u \in User : CancelForUser(u) /\ asked' = asked \cup {userTasks[u]}
           \/ /\ process' # "up" /\ record' = record
              /\ \E S \in SUBSET Call : UNCHANGED coordinatorVars \/ CancelCallers(S)
           \/ Restart /\ Unrecorded
<1> USE DEF deployVars, tableVars, worldVars
<1>0. /\ DeployTypeOK /\ AutoTypeOK /\ job \in Call \cup {NoCall}
      /\ worker = "deploying" => job # NoCall
    BY DEF AutoAll, DeployInv, AutoInv, AutoTypeOK
<1> DEFINE Quiet == process' = process /\ asked' = asked /\ UNCHANGED coordinatorVars /\ Unrecorded
<1>1. CASE \/ Wake \/ SeenAlready \/ PollFails \/ AnnouncementFails \/ Reported
           \/ \E h \in Sha : NewPush(h)
    <2>1. Quiet
        BY <1>1 DEF Wake, SeenAlready, PollFails, AnnouncementFails, Reported, NewPush,
                    serviceVars, coordinatorVars, callVars, taskVars, registryVars, Unrecorded
    <2> QED BY <2>1
<1>2. ASSUME NEW c \in Call, NEW p \in Project, CredentialsUnreadable(c, p)
      PROVE  UNCHANGED coordinatorVars /\ Unrecorded
    BY <1>0, <1>2 DEF CredentialsUnreadable, Prepare, SaveProject, Unrecorded, DeployTypeOK
<1>3. ASSUME NEW c \in Call, \/ \E u \in User, r \in Repo, k \in Kind : Begin(c, u, r, k)
                             \/ Cloned(c) \/ AnalysisFails(c)
      PROVE  UNCHANGED coordinatorVars /\ Unrecorded
    BY <1>3 DEF Begin, Cloned, AnalysisFails, Unrecorded
<1>4. ASSUME NEW c \in Call, StartJob(c)
      PROVE  Quiet
    BY <1>4 DEF StartJob, Begin, Unrecorded
<1>5. CASE JobRaises
    <2>1. job \in Call
        BY <1>0, <1>5 DEF JobRaises
    <2>2. Quiet
        BY <1>2, <1>3, <1>5, <2>1 DEF JobRaises
    <2> QED BY <2>2
<1>6. CASE JobReturns
    <2>1. job \in Call
        BY <1>0, <1>6 DEF JobReturns
    <2> QED BY <1>6, <2>1 DEF JobReturns
<1>7. CASE Handled
    <2>1. ASSUME NEW c \in Call, NEW u \in User, NEW p \in Project, StartExisting(c, u, p)
          PROVE  UNCHANGED coordinatorVars /\ Unrecorded
        BY <2>1 DEF StartExisting, Begin, Unrecorded
    <2>2. ASSUME NEW c \in Call, NEW u \in User, NEW r \in Repo, NEW k \in Kind, StartDeploy(c, u, r, k)
          PROVE  UNCHANGED coordinatorVars /\ Unrecorded
        BY <2>2 DEF StartDeploy, Begin, Unrecorded
    <2>3. ASSUME \/ \E u \in User, p \in Project, on \in BOOLEAN : SetAutoDeploy(u, p, on)
                 \/ \E d \in Deletion, u \in User, p \in Project : BeginDelete(d, u, p)
          PROVE  UNCHANGED coordinatorVars /\ Unrecorded
        BY <2>3 DEF SetAutoDeploy, BeginDelete, Unrecorded
    <2>4. ASSUME NEW u \in User, CancelCurrent(u)
          PROVE  CancelForUser(u) /\ record' = record
        BY <2>4 DEF CancelCurrent
    <2> QED BY <1>7, <2>1, <2>2, <2>3, <2>4 DEF Handled, workerVars
<1>8. CASE Underway \/ TurnedDown
    BY <1>2, <1>3, <1>8 DEF Underway, TurnedDown, workerVars
<1>9. CASE Elsewhere
    <2>1. ASSUME NEW d \in Deletion, EndDelete(d)
          PROVE  UNCHANGED coordinatorVars /\ Unrecorded
        BY <1>0, <2>1 DEF EndDelete, HistoryWithout, Unrecorded
    <2>2. ASSUME NEW r \in Repo, Push(r)
          PROVE  UNCHANGED coordinatorVars /\ Unrecorded
        BY <2>2 DEF Push, Unrecorded
    <2> QED BY <1>9, <2>1, <2>2 DEF Elsewhere, workerVars
<1>10. ASSUME NEW c \in Call, Advances(c)
       PROVE  /\ process' = process /\ asked' = asked
              /\ TaskStarts(c) \/ TaskCancelledEarly(c) \/ TaskEnds(c) \/ DeployReturns(c)
    BY <1>10 DEF Advances, workerVars
<1>11. CASE StopPolling
    <2>1. {job} \in SUBSET Call \/ job \notin Outliving
        BY <1>0 DEF Outliving
    <2>2. {} \in SUBSET Call
        OBVIOUS
    <2> QED BY <1>11, <2>1, <2>2 DEF StopPolling
<1>12. CASE Exit
    <2>1. {c \in Call : stage[c] = "awaiting"} \in SUBSET Call
        OBVIOUS
    <2> QED BY <1>12, <2>1 DEF Exit
<1>13. CASE AutoRestart
    <2>1. Restart /\ (UNCHANGED record \/ \E c \in Call : record' = Recorded(c, "planning"))
        BY <1>13 DEF AutoRestart, ServiceRestart, TornPreparation, TornStart, TornReturn
    <2> QED BY <1>0, <2>1 DEF Recorded, Unrecorded, DeployTypeOK
<1>14. CASE UNCHANGED autoVars
    BY <1>14 DEF autoVars, coordinatorVars, callVars, taskVars, registryVars, Unrecorded
<1> QED
    BY <1>1, <1>4, <1>5, <1>6, <1>7, <1>8, <1>9, <1>10, <1>11, <1>12, <1>13, <1>14
    DEF AutoNext, PollEnds, Announced

(* A step keeps it so, and records as cancelled only who was asked for. *)
LEMMA AskedStep ==
    AutoAll /\ CancelsWereAsked /\ [AutoNext]_autoVars =>
        /\ CancelsWereAsked'
        /\ \A c \in Call : record'[c] = "cancelled" /\ record[c] # "cancelled" =>
               c \in asked \/ process # "up"
<1> SUFFICES ASSUME AutoAll, CancelsWereAsked, [AutoNext]_autoVars
             PROVE  /\ CancelsWereAsked'
                    /\ \A c \in Call : record'[c] = "cancelled" /\ record[c] # "cancelled" =>
                           c \in asked \/ process # "up"
    OBVIOUS
<1> USE DEF coordinatorVars, callVars, taskVars, registryVars
<1>0. CoordinatorTypeOK /\ DeployTypeOK /\ TasksFollowCalls
    BY DEF AutoAll, CoordinatorInv, DeployInv
<1> DEFINE Told == \A c \in Call : record'[c] = "cancelled" /\ record[c] # "cancelled" =>
                       c \in asked \/ process # "up"
<1>1. ASSUME process' = process, asked' = asked,
             NEW c \in Call, NEW p \in Project, Admit(c, p) \/ Reject(c, p)
      PROVE  CancelsWereAsked' /\ Told
    <2>1. Told
        BY <1>0, <1>1 DEF Admit, Reject, Prepare, SaveProject, DeployTypeOK
    <2>2. /\ stage[c] = "idle" /\ c \notin cancelling /\ outcome[c] = "none" /\ c \notin interrupted
        BY <1>0, <1>1 DEF Admit, Reject, RunAdmitted, RunRejected, TasksFollowCalls,
                          CoordinatorTypeOK, Outcome, CancelsWereAsked
    <2>3. /\ stage' = [stage EXCEPT ![c] = stage'[c]]
          /\ interrupted' = interrupted /\ cancelling' = cancelling /\ outcome' = outcome
        BY <1>0, <1>1 DEF Admit, Reject, RunAdmitted, RunRejected, CoordinatorTypeOK
    <2> QED BY <1>0, <1>1, <2>1, <2>2, <2>3 DEF CancelsWereAsked, CoordinatorTypeOK
<1>2. ASSUME process' = process, asked' = asked, NEW c \in Call, DeployReturns(c)
      PROVE  CancelsWereAsked' /\ Told
    <2>1. stage[c] = "awaiting" /\ stage' = [stage EXCEPT ![c] = "returned"]
          /\ interrupted' = interrupted /\ cancelling' = cancelling /\ outcome' = outcome
        BY <1>2 DEF DeployReturns, Resume
    <2>2. CancelsWereAsked'
        BY <1>0, <1>2, <2>1 DEF CancelsWereAsked, CoordinatorTypeOK
    <2>3. result'[c] = IF c \in interrupted THEN "cancelled" ELSE outcome[c]
        BY <1>0, <1>2 DEF DeployReturns, Resume, CoordinatorTypeOK
    <2>4. record' = Recorded(c, Verdict(result'[c]))
        BY <1>2 DEF DeployReturns
    <2>5. Verdict(result'[c]) = "cancelled" => result'[c] = "cancelled"
        BY DEF Verdict
    <2>6. \A d \in Call \ {c} : record'[d] = record[d]
        BY <1>0, <2>4 DEF Recorded, DeployTypeOK
    <2>7. record'[c] = "cancelled" /\ record[c] # "cancelled" => result'[c] = "cancelled"
        BY <1>0, <2>4, <2>5 DEF Recorded, DeployTypeOK
    <2> QED BY <2>1, <2>2, <2>3, <2>6, <2>7 DEF CancelsWereAsked
<1>3. ASSUME process' = process, asked' = asked, NEW c \in Call,
             TaskStarts(c) \/ TaskCancelledEarly(c) \/ TaskEnds(c)
      PROVE  CancelsWereAsked' /\ Told
    <2>1. Told
        BY <1>0, <1>3 DEF TaskStarts, TaskCancelledEarly, TaskEnds, Recorded, tableVars, DeployTypeOK
    <2>2. stage' = stage /\ interrupted' = interrupted /\ cancelling' = cancelling
        BY <1>3 DEF TaskStarts, TaskCancelledEarly, TaskEnds, FirstStep, EndsBeforeStart, Finish
    <2>3. \A d \in Call : outcome'[d] = "cancelled" => outcome[d] = "cancelled" \/ d \in cancelling
        BY <1>0, <1>3 DEF TaskStarts, TaskCancelledEarly, TaskEnds, FirstStep, EndsBeforeStart,
                          Finish, Endings, CoordinatorTypeOK
    <2> QED BY <1>3, <2>1, <2>2, <2>3 DEF CancelsWereAsked
<1>4. ASSUME process' = process, asked' = asked, UNCHANGED coordinatorVars, Unrecorded
      PROVE  CancelsWereAsked' /\ Told
    BY <1>4 DEF CancelsWereAsked, Unrecorded
<1>5. ASSUME process' = process, record' = record, NEW u \in User, CancelForUser(u),
             asked' = asked \cup {userTasks[u]}
      PROVE  CancelsWereAsked' /\ Told
    BY <1>5 DEF CancelForUser, CancelsWereAsked
<1>6. ASSUME process' # "up", record' = record,
             NEW S \in SUBSET Call, UNCHANGED coordinatorVars \/ CancelCallers(S)
      PROVE  CancelsWereAsked' /\ Told
    BY <1>6 DEF CancelCallers, CancelsWereAsked
<1>7. ASSUME Restart, Unrecorded
      PROVE  CancelsWereAsked' /\ Told
    <2>1. Told
        BY <1>7 DEF Unrecorded
    <2>2. CancelsWereAsked'
        BY <1>0, <1>7 DEF Restart, CancelsWereAsked, CoordinatorTypeOK
    <2> QED BY <2>1, <2>2
<1> QED BY <1>1, <1>2, <1>3, <1>4, <1>5, <1>6, <1>7, WhoCancels

(* Nobody's deployment is recorded as cancelled while the bot is up unless *)
(* its user has cancelled it.                                              *)
THEOREM CancelledForAReasonAlways == AutoSafety => CancelledForAReason
<1>1. AutoInit => CancelsWereAsked
    BY DEF AutoInit, DeployInit, CoordinatorInit, CancelsWereAsked
<1>2. AutoAll /\ CancelsWereAsked /\ [AutoNext]_autoVars =>
        /\ CancelsWereAsked'
        /\ [\A c \in Call : record'[c] = "cancelled" /\ record[c] # "cancelled"
                             => c \in asked \/ process # "up"]_record
    BY AskedStep
<1> QED BY <1>1, <1>2, AutoStartsWell, AutoStep, PTL DEF AutoSafety, CancelledForAReason

----------------------------------------------------------------------------
(* The coordinator.                                                        *)

(* Whatever the worker and the end of the process do, the coordinator sees *)
(* nothing but its own steps.                                              *)
LEMMA WorkerSteps ==
    ASSUME AutoAll, [AutoNext]_autoVars
    PROVE  [CoordinatorNext]_coordinatorVars
<1>0. DeployInv /\ DeployTypeOK /\ AutoInv /\ AutoTypeOK
    BY DEF AutoAll, DeployInv, AutoInv
<1>1. CASE [DeployNext]_serviceVars
    BY <1>0, <1>1, ServiceSteps
<1>2. CASE (\E h \in Sha : NewPush(h)) \/ StopPolling \/ Exit
    <2>1. \/ UNCHANGED coordinatorVars
          \/ job \in Outliving /\ CancelCallers({job})
          \/ CancelCallers({c \in Call : stage[c] = "awaiting"})
        BY <1>2 DEF NewPush, StopPolling, Exit
    <2>2. job \in Outliving => {job} \in SUBSET Call
        BY DEF Outliving
    <2> QED BY <2>1, <2>2 DEF CoordinatorNext
<1> QED BY <1>0, <1>1, <1>2, AutoServiceSteps

(* What is proved of the coordinator holds beside the worker and at every  *)
(* shutdown: exclusive deployments, registries that leak nothing, accepted *)
(* cancellations.                                                          *)
THEOREM WorkerRunsCoordinator == AutoSafety => CoordinatorSafety
<1>1. AutoInit => CoordinatorInit
    BY DEF AutoInit, DeployInit
<1>2. AutoAll /\ [AutoNext]_autoVars => [CoordinatorNext]_coordinatorVars
    BY WorkerSteps
<1> QED BY <1>1, <1>2, AutoStartsWell, AutoStep, PTL DEF AutoSafety, CoordinatorSafety

(* Neither a push that the worker deploys by itself nor a stop of the bot  *)
(* lets two deployments of a user, to a target or of a project run at      *)
(* once, or breaks the coordinator's promise.                              *)
THEOREM WorkerKeepsClaims ==
    AutoSafety => /\ Claims!ClaimSafety
                  /\ [](ExclusiveDeployments /\ AcceptedCancelSticks /\ OneRunPerProject)
                  /\ RefusedOnlyWhenBusy
<1>1. CoordinatorSafety => [](ExclusiveDeployments /\ AcceptedCancelSticks)
    BY Exclusion, AcceptedCancelSticksAlways, PTL
<1>2. AutoSafety => []OneRunPerProject
    BY TablesSurviveTheWorker, LinksExclude, PTL
<1>3. AutoSafety => [](ExclusiveDeployments /\ AcceptedCancelSticks /\ OneRunPerProject)
    BY <1>1, <1>2, WorkerRunsCoordinator, PTL
<1> QED BY <1>3, WorkerRunsCoordinator, CoordinatorImplementsClaims, RefusalIsJustified

----------------------------------------------------------------------------
(* The tables.                                                             *)

(* A call that was lost in a crash has told its caller nothing. *)
LostIsSilent == \A c \in Call : stage[c] = "lost" => result[c] = "none"

LEMMA LostStaysSilent == CoordinatorSafety => []LostIsSilent
<1>1. CoordinatorInit => LostIsSilent
    BY DEF CoordinatorInit, LostIsSilent
<1>2. CoordinatorInv /\ LostIsSilent /\ [CoordinatorNext]_coordinatorVars => LostIsSilent'
    <2> SUFFICES ASSUME CoordinatorInv, LostIsSilent, [CoordinatorNext]_coordinatorVars
                 PROVE  LostIsSilent'
        OBVIOUS
    <2>0. CoordinatorTypeOK /\ TasksFollowCalls
        BY DEF CoordinatorInv
    <2> USE DEF LostIsSilent, callVars, taskVars, registryVars, CoordinatorTypeOK
    <2>1. ASSUME NEW c \in Call, NEW u \in User, NEW k \in Key,
                 RunRejected(c, u, k) \/ RunAdmitted(c, u, k)
          PROVE  LostIsSilent'
        BY <2>0, <2>1 DEF RunRejected, RunAdmitted
    <2>2. ASSUME NEW c \in Call, CallNext(c)
          PROVE  LostIsSilent'
        BY <2>0, <2>2 DEF CallNext, FirstStep, EndsBeforeStart, Finish, Resume
    <2>3. CASE (\E u \in User : CancelForUser(u)) \/ (\E S \in SUBSET Call : CancelCallers(S))
        BY <2>3 DEF CancelForUser, CancelCallers
    <2>4. CASE Restart
        BY <2>0, <2>4 DEF Restart, TasksFollowCalls
    <2>5. CASE UNCHANGED coordinatorVars
        BY <2>5 DEF coordinatorVars
    <2> HIDE DEF LostIsSilent
    <2> QED BY <2>1, <2>2, <2>3, <2>4, <2>5 DEF CoordinatorNext
<1> QED BY <1>1, <1>2, CoordinatorInvariant, PTL DEF CoordinatorSafety

(* The row that the worker writes back shows nothing, or a success of this *)
(* project; a row that has been deleted is not written.                    *)
LEMMA PushRestores ==
    ASSUME AutoAll, LostIsSilent, NEW h \in Sha, NewPush(h)
    PROVE  History!HistoryNext \/ UNCHANGED History!historyVars
<1>1. /\ DeployTypeOK /\ held # Absent /\ held \in Held /\ held'.row \in Row
    BY PushKeeps DEF NewPush, AutoAll, AutoInv, AutoTypeOK, DeployInv
<1>2. PICK p \in Project : p = held.project
    BY <1>1 DEF Held
<1>3. PICK x \in Call \cup {NoCall} : x = held.row.live
    BY <1>1 DEF Held, Row
<1>4. held'.row.live = x /\ held'.row # Absent
    <2>1. held' = [held EXCEPT !.row.triggered = h]
        BY DEF NewPush
    <2> QED BY <1>1, <1>3, <2>1, AbsentAssumption DEF Held, Row
<1>5. /\ projects' = Rewritten(p, held'.row)
      /\ record' = record /\ projectOf' = projectOf /\ born' = born /\ Torn' = Torn
    BY <1>2 DEF NewPush, deployVars, Torn
<1>6. CASE ~Exists(p)
    <2>1. projects' = projects
        BY <1>5, <1>6 DEF Rewritten
    <2> QED BY <1>5, <2>1, HistoryUnseen DEF Exists, ShownBy
<1>7. CASE Exists(p)
    <2>1. x # NoCall => (record[x] = "successful" \/ x \in Torn) /\ ProjectIn(x) = p
        <3> SUFFICES ASSUME x # NoCall
                     PROVE  (record[x] = "successful" \/ x \in Torn) /\ ProjectIn(x) = p
            OBVIOUS
        <3>1. x \in Call /\ Succeeded(x) /\ projectOf[x] = p
            BY <1>1, <1>2, <1>3 DEF AutoAll, HeldWasReal
        <3>2. phase[x] \in {"run", "broken", "torn"}
            BY <3>1, <1>1, AbsentAssumption DEF AutoAll, DeployInv, CallLinks
        <3>3. record[x] # "none"
            BY <1>7, <3>1, <3>2 DEF AutoAll, DeployInv, HistoryBelongsToProjects
        <3>4. record[x] = "successful" \/ x \in Torn
            <4>1. CASE phase[x] = "torn"
                BY <3>1, <4>1 DEF Torn
            <4>2. CASE result[x] = "ok"
                <5>1. stage[x] = "returned"
                    BY <3>1, <4>2 DEF AutoAll, CoordinatorInv, CoordinatorTypeOK, Stage,
                                      TasksFollowCalls, LostIsSilent
                <5>2. record[x] = Verdict("ok")
                    BY <3>1, <3>3, <4>2, <5>1 DEF AutoAll, DeployInv, RecordsFollowRuns
                <5> QED BY <5>2 DEF Verdict
            <4> QED BY <3>1, <4>1, <4>2 DEF Succeeded
        <3> QED BY <3>1, <3>3, <3>4 DEF ProjectIn
    <2>2. \A q \in Project : projects'[q] = IF q = p THEN held'.row ELSE projects[q]
        BY <1>1, <1>5, <1>7 DEF Rewritten, DeployTypeOK
    <2>3. /\ \A q \in Project : Exists(q)' = Exists(q)
          /\ \A q \in Project : ShownBy(q)' = IF q = p THEN x ELSE ShownBy(q)
          /\ \A c \in Call : ProjectIn(c)' = ProjectIn(c)
        BY <1>4, <1>5, <1>7, <2>2 DEF Exists, ShownBy, ProjectIn
    <2>4. /\ p \in {q \in Project : Exists(q)}
          /\ {q \in Project : Exists(q)}' = {q \in Project : Exists(q)}
          /\ [q \in Project |-> ShownBy(q)]' = [[q \in Project |-> ShownBy(q)] EXCEPT ![p] = x]
          /\ [c \in Call |-> ProjectIn(c)]' = [c \in Call |-> ProjectIn(c)]
          /\ {c \in Call : projectOf[c] = Absent}' = {c \in Call : projectOf[c] = Absent}
          /\ (Project \ born)' = Project \ born
        BY <1>5, <1>7, <2>3
    <2>5. x = NoCall \/ (x \in Call /\ (record[x] = "successful" \/ x \in Torn)
                         /\ [c \in Call |-> ProjectIn(c)][x] = p)
        BY <2>1
    <2>6. History!Restore(p, x)
        BY <1>5, <2>4, <2>5 DEF History!Restore
    <2> QED BY <2>6 DEF History!HistoryNext
<1> QED BY <1>6, <1>7

(* The tables keep the promise of DeploymentHistory beside the worker, too,*)
(* and while the bot is being stopped.                                     *)
THEOREM WorkerImplementsHistory == AutoSafety => ImplementsHistory
<1>1. AutoInit => History!HistoryInit
    BY HistoryStarts DEF AutoInit
<1>2. AutoAll /\ LostIsSilent /\ [AutoNext]_autoVars
          => [History!HistoryNext]_History!historyVars
    <2> SUFFICES ASSUME AutoAll, LostIsSilent, [AutoNext]_autoVars
                 PROVE  [History!HistoryNext]_History!historyVars
        OBVIOUS
    <2>0. AutoTypeOK /\ DeployTypeOK /\ AutoInv /\ CoordinatorInv /\ DeployInv
        BY DEF AutoAll, AutoInv, DeployInv
    <2>1. CASE [DeployNext]_serviceVars
        BY <2>0, <2>1, StepKeepsPromise
    <2>2. ASSUME NEW h \in Sha, NewPush(h)
          PROVE  [History!HistoryNext]_History!historyVars
        BY <2>2, PushRestores
    <2>3. CASE StopPolling \/ Exit
        <3>1. UNCHANGED <<projects, born, record, projectOf>>
            BY <2>3 DEF StopPolling, Exit, tableVars
        <3>2. UNCHANGED phase \/ \E T \in SUBSET (Call \cup {NoCall}) : AnalysesCancelled(T)
            BY <2>0, <2>3 DEF StopPolling, Exit, AutoTypeOK
        <3>3. \A c \in Call : phase'[c] = "torn" <=> phase[c] = "torn"
            BY <3>2 DEF AnalysesCancelled
        <3>4. Torn' = Torn
            BY <3>3 DEF Torn
        <3> QED BY <3>1, <3>4, HistoryUnseen DEF Exists, ShownBy
    <2> QED BY <2>0, <2>1, <2>2, <2>3, AutoServiceSteps
<1> QED BY <1>1, <1>2, AutoStartsWell, AutoStep, WorkerRunsCoordinator, LostStaysSilent, PTL
        DEF AutoSafety, ImplementsHistory, History!HistorySpec
=============================================================================
