------------------------ MODULE DeployServiceProofs ------------------------
(***************************************************************************)
(* Proofs about the deployment service, for every set of users, projects,  *)
(* repositories, targets and calls.  The service only ever takes steps of  *)
(* the coordinator, so that everything proved of the coordinator holds of  *)
(* it; on top of that, the inductive invariant DeployInv ties the tables   *)
(* to the runs.                                                            *)
(***************************************************************************)
EXTENDS DeployService, CoordinatorProofs

(* The shapes a step of the service can have. *)
LEMMA ServiceCases ==
    ASSUME DeployTypeOK, [DeployNext]_serviceVars
    PROVE  \/ \E c \in Call, u \in User, r \in Repo, k \in Kind : Begin(c, u, r, k)
           \/ \E c \in Call : Cloned(c) \/ AnalysisFails(c)
           \/ \E c \in Call, p \in Project :
                 Admit(c, p) \/ Reject(c, p) \/ CredentialsUnreadable(c, p)
           \/ \E c \in Call :
                 TaskStarts(c) \/ TaskCancelledEarly(c) \/ TaskEnds(c) \/ DeployReturns(c)
           \/ \E u \in User : CancelCurrent(u)
           \/ \E u \in User, p \in Project, on \in BOOLEAN : SetAutoDeploy(u, p, on)
           \/ \E d \in Deletion, u \in User, p \in Project : BeginDelete(d, u, p)
           \/ \E d \in Deletion : EndDelete(d)
           \/ \E r \in Repo : Push(r)
           \/ ServiceRestart
           \/ UNCHANGED serviceVars
<1>1. ASSUME NEW c \in Call, NEW u \in User, NEW p \in Project, StartExisting(c, u, p)
      PROVE  \E v \in User, r \in Repo, k \in Kind : Begin(c, v, r, k)
    <2>1. projects[p] \in Row
        BY <1>1 DEF StartExisting, Exists, DeployTypeOK
    <2> QED BY <1>1, <2>1 DEF StartExisting, Row
<1> QED BY <1>1 DEF DeployNext, RunNext, StartDeploy

(* The row deploy() works with is a row of the requested user and repository. *)
LEMMA RowForIsTheirs ==
    ASSUME DeployTypeOK, NEW q \in Request, NEW p \in Project,
           Exists(p) => p \in RowsFor(q.user, q.repo)
    PROVE  /\ RowFor(q, p) \in Row
           /\ RowFor(q, p).owner = q.user
           /\ RowFor(q, p).repo = q.repo
           /\ RowFor(q, p).live # NoCall => /\ Exists(p)
                                            /\ projects[p].kind = q.kind
                                            /\ RowFor(q, p) = projects[p]
<1>1. CASE ~Exists(p)
    BY <1>1, ServiceAssumption DEF RowFor, Row, Request, Sha
<1>2. CASE Exists(p)
    <2>1. projects[p] \in Row
        BY <1>2 DEF Exists, DeployTypeOK
    <2> QED BY <1>2, <2>1 DEF RowFor, RowsFor, Row, Request
<1> QED BY <1>1, <1>2

(* What is known of a deployment whose project is being saved. *)
LEMMA SaveFacts ==
    ASSUME DeployInv, NEW c \in Call, NEW p \in Project, SaveProject(c, p)
    PROVE  /\ request[c] \in Request
           /\ request[c].user \in User
           /\ <<request[c].kind, p>> \in Key
           /\ projectOf[c] = Absent /\ record[c] = "none" /\ stage[c] = "idle"
           /\ Exists(p) => p \in RowsFor(request[c].user, request[c].repo)
           /\ RowFor(request[c], p) \in Row
           /\ RowFor(request[c], p).owner = request[c].user
           /\ RowFor(request[c], p).repo = request[c].repo
<1>1. request[c] \in Request
    BY DEF SaveProject, DeployInv, DeployTypeOK, CallLinks
<1>2. request[c].user \in User /\ request[c].kind \in Kind
    BY <1>1 DEF Request
<1>3. projectOf[c] = Absent /\ record[c] = "none" /\ stage[c] = "idle"
    BY DEF SaveProject, DeployInv, DeployTypeOK, CallLinks
<1>4. Exists(p) => p \in RowsFor(request[c].user, request[c].repo)
    BY DEF SaveProject, DeployInv, IdsAreBorn
<1>5. DeployTypeOK
    BY DEF DeployInv
<1>6. <<request[c].kind, p>> \in Key
    BY <1>2, ServiceAssumption
<1> QED BY <1>1, <1>2, <1>3, <1>4, <1>5, <1>6, RowForIsTheirs

(* What all three ways out of the preparation have in common. *)
LEMMA PrepareFacts ==
    ASSUME DeployInv, NEW c \in Call, NEW p \in Project, NEW s, Prepare(c, p, s)
    PROVE  /\ request[c] \in Request
           /\ request[c].user \in User
           /\ <<request[c].kind, p>> \in Key
           /\ projectOf[c] = Absent /\ record[c] = "none" /\ stage[c] = "idle"
           /\ Exists(p) => p \in RowsFor(request[c].user, request[c].repo)
           /\ RowFor(request[c], p) \in Row
           /\ RowFor(request[c], p).owner = request[c].user
           /\ RowFor(request[c], p).repo = request[c].repo
BY SaveFacts DEF Prepare

(* Whoever deployed the project before did so for the same user and        *)
(* repository.                                                             *)
LEMMA PrepareJoinsItsOwn ==
    ASSUME DeployInv, NEW c \in Call, NEW p \in Project, NEW s, Prepare(c, p, s),
           NEW d \in Call, projectOf[d] = p
    PROVE  /\ Exists(p) /\ phase[d] \in {"run", "broken", "torn"}
           /\ request[d].user = request[c].user /\ request[d].repo = request[c].repo
<1>1. Exists(p)
    <2>1. p \in born
        BY AbsentAssumption DEF DeployInv, IdsAreBorn
    <2> QED BY <2>1 DEF Prepare, SaveProject, RowsFor
<1>2. projects[p].owner = request[c].user /\ projects[p].repo = request[c].repo
    BY <1>1, PrepareFacts DEF RowsFor
<1>3. phase[d] \in {"run", "broken", "torn"}
    BY AbsentAssumption DEF DeployInv, CallLinks
<1>4. projects[p].owner = request[d].user /\ projects[p].repo = request[d].repo
    BY <1>1, <1>3 DEF DeployInv, HistoryBelongsToProjects
<1> QED BY <1>1, <1>2, <1>3, <1>4

(* An UPDATE changes at most the row it names, and only when it exists. *)
LEMMA RewritesOneRow ==
    ASSUME DeployTypeOK, NEW p \in Project, NEW row
    PROVE  \A q \in Project : \/ Rewritten(p, row)[q] = projects[q]
                              \/ q = p /\ Exists(p) /\ Rewritten(p, row)[q] = row
BY DEF Rewritten, DeployTypeOK

(* Preparing a deployment adds its row next to the row of its project, and *)
(* leaves those of the others with theirs.                                 *)
LEMMA PrepareKeepsHistory ==
    ASSUME DeployInv, NEW c \in Call, NEW p \in Project, NEW s \in Status \ {"none"},
           Prepare(c, p, s), NEW x, phase' = [phase EXCEPT ![c] = x]
    PROVE  HistoryBelongsToProjects'
<1>1. /\ projects' = [projects EXCEPT ![p] = RowFor(request[c], p)]
      /\ projectOf' = [projectOf EXCEPT ![c] = p]
      /\ record' = [record EXCEPT ![c] = s]
      /\ request' = request
    BY DEF Prepare, SaveProject
<1>2. DeployTypeOK /\ HistoryBelongsToProjects
    BY DEF DeployInv
<1>3. /\ projects'[p] # Absent
      /\ projects'[p].owner = request[c].user /\ projects'[p].repo = request[c].repo
    <2>1. projects'[p] = RowFor(request[c], p)
        BY <1>1, <1>2 DEF DeployTypeOK
    <2>2. RowFor(request[c], p) # Absent
        BY PrepareFacts, AbsentAssumption
    <2> QED BY <2>1, <2>2, PrepareFacts
<1>4. ASSUME NEW d \in Call, d # c, phase[d] \in {"run", "broken", "torn"}
      PROVE  /\ record[d] # "none" <=> projects'[projectOf[d]] # Absent
             /\ projects'[projectOf[d]] # Absent =>
                    /\ projects'[projectOf[d]].owner = request[d].user
                    /\ projects'[projectOf[d]].repo = request[d].repo
    <2>1. projectOf[d] \in Project
        BY <1>2, <1>4 DEF DeployInv, CallLinks, DeployTypeOK
    <2>2. CASE projectOf[d] = p
        <3>1. /\ Exists(p)
              /\ request[d].user = request[c].user /\ request[d].repo = request[c].repo
            BY <2>2, PrepareJoinsItsOwn
        <3> QED BY <1>2, <1>3, <1>4, <2>2, <3>1 DEF HistoryBelongsToProjects
    <2>3. CASE projectOf[d] # p
        <3>1. projects'[projectOf[d]] = projects[projectOf[d]]
            BY <1>1, <1>2, <2>1, <2>3 DEF DeployTypeOK
        <3> QED BY <1>2, <1>4, <3>1 DEF HistoryBelongsToProjects, Exists
    <2> QED BY <2>2, <2>3
<1>5. record'[c] # "none" /\ projectOf'[c] = p
    BY <1>1, <1>2 DEF DeployTypeOK
<1>6. \A d \in Call : d # c => /\ phase'[d] = phase[d] /\ projectOf'[d] = projectOf[d]
                               /\ record'[d] = record[d]
    BY <1>1, <1>2 DEF DeployTypeOK
<1> QED BY <1>1, <1>3, <1>4, <1>5, <1>6 DEF HistoryBelongsToProjects, Exists

(* A deployment whose URL is shown is over. *)
LEMMA ShownIsOver ==
    ASSUME CoordinatorInv, DeployInv, NEW p \in Project, Exists(p), projects[p].live # NoCall
    PROVE  /\ projects[p].live \in Call
           /\ stage[projects[p].live] \notin {"idle", "awaiting"}
           /\ phase[projects[p].live] \in {"run", "torn"}
<1>1. projects[p].live \in Call
    BY DEF DeployInv, DeployTypeOK, Exists, Row
<1>2. result[projects[p].live] = "ok" \/ phase[projects[p].live] = "torn"
    BY DEF DeployInv, ShownUrlIsReal, Succeeded
<1> QED BY <1>1, <1>2 DEF CoordinatorInv, TasksFollowCalls, DeployInv, CallLinks

(* What a death leaves in the table of projects: nothing new, a project    *)
(* saved for a deployment, or a success.                                   *)
LEMMA RestartWrites ==
    ASSUME ServiceRestart
    PROVE  \/ projects' = projects /\ born' = born
           \/ \E c \in Call, p \in Project : SaveProject(c, p)
           \/ \E c \in Call : TornReturn(c) /\ phase' = PhaseAfterDeath({c})
BY DEF ServiceRestart, TornPreparation, TornStart, tableVars

(* Rows that are saved or written with a success are rows. *)
LEMMA RowsSaved ==
    ASSUME CoordinatorInv, DeployInv
    PROVE  /\ \A c \in Call, p \in Project : SaveProject(c, p) =>
                  /\ projects' \in [Project -> Row \cup {Absent}]
                  /\ born' \in SUBSET Project
           /\ \A c \in Call : stage[c] = "awaiting" =>
                  /\ projectOf[c] \in Project /\ phase[c] = "run"
                  /\ RowAfterSuccess(c) \in Row /\ RowAfterSuccess(c) # Absent
           /\ \A c \in Call : TornReturn(c) =>
                  /\ projects' \in [Project -> Row \cup {Absent}]
                  /\ born' \in SUBSET Project
<1>1. DeployTypeOK
    BY DEF DeployInv
<1>2. ASSUME NEW c \in Call, NEW p \in Project, SaveProject(c, p)
      PROVE  /\ projects' \in [Project -> Row \cup {Absent}]
             /\ born' \in SUBSET Project
    <2>1. RowFor(request[c], p) \in Row
        BY <1>2, SaveFacts
    <2> QED BY <1>1, <1>2, <2>1 DEF SaveProject, DeployTypeOK
<1>3. ASSUME NEW c \in Call, stage[c] = "awaiting"
      PROVE  /\ projectOf[c] \in Project /\ phase[c] = "run"
             /\ RowAfterSuccess(c) \in Row /\ RowAfterSuccess(c) # Absent
    <2>1. projectOf[c] \in Project /\ request[c] \in Request /\ phase[c] = "run"
        BY <1>1, <1>3 DEF DeployInv, DeployTypeOK, CallLinks
    <2>2. RowAfterSuccess(c) \in Row
        BY <1>1, <2>1 DEF RowAfterSuccess, Row, Request, DeployTypeOK
    <2> QED BY <2>1, <2>2, AbsentAssumption
<1>4. ASSUME NEW c \in Call, TornReturn(c)
      PROVE  /\ projects' \in [Project -> Row \cup {Absent}]
             /\ born' \in SUBSET Project
    <2>1. projectOf[c] \in Project /\ RowAfterSuccess(c) \in Row
        BY <1>3, <1>4 DEF TornReturn
    <2> QED BY <1>1, <1>4, <2>1 DEF TornReturn, Rewritten, DeployTypeOK
<1> QED BY <1>2, <1>3, <1>4

(* A step of the service is a step of the coordinator, or none at all. *)
LEMMA ServiceSteps ==
    ASSUME DeployInv, [DeployNext]_serviceVars
    PROVE  [CoordinatorNext]_coordinatorVars
<1> USE DEF CoordinatorNext, CallNext
<1>1. ASSUME NEW c \in Call, NEW p \in Project,
             Admit(c, p) \/ Reject(c, p) \/ CredentialsUnreadable(c, p)
      PROVE  [CoordinatorNext]_coordinatorVars
    <2>1. request[c].user \in User /\ <<request[c].kind, p>> \in Key
        BY <1>1, PrepareFacts DEF Admit, Reject, CredentialsUnreadable
    <2> QED BY <1>1, <2>1 DEF Admit, Reject, CredentialsUnreadable
<1>2. ASSUME NEW c \in Call,
             TaskStarts(c) \/ TaskCancelledEarly(c) \/ TaskEnds(c) \/ DeployReturns(c)
      PROVE  CoordinatorNext
    BY <1>2 DEF TaskStarts, TaskCancelledEarly, TaskEnds, DeployReturns
<1>3. ASSUME NEW u \in User, CancelCurrent(u)
      PROVE  CoordinatorNext
    BY <1>3 DEF CancelCurrent
<1>4. CASE ServiceRestart
    BY <1>4 DEF ServiceRestart
<1>5. ASSUME NEW c \in Call,
             \/ \E u \in User, r \in Repo, k \in Kind : Begin(c, u, r, k)
             \/ Cloned(c) \/ AnalysisFails(c)
      PROVE  UNCHANGED coordinatorVars
    BY <1>5 DEF Begin, Cloned, AnalysisFails
<1>6. ASSUME \/ \E u \in User, p \in Project, on \in BOOLEAN : SetAutoDeploy(u, p, on)
             \/ \E d \in Deletion, u \in User, p \in Project : BeginDelete(d, u, p)
             \/ \E d \in Deletion : EndDelete(d)
             \/ \E r \in Repo : Push(r)
      PROVE  UNCHANGED coordinatorVars
    BY <1>6 DEF SetAutoDeploy, BeginDelete, EndDelete, Push
<1>7. CASE UNCHANGED serviceVars
    BY <1>7 DEF serviceVars, coordinatorVars
<1>8. DeployTypeOK
    BY DEF DeployInv
<1> HIDE DEF CoordinatorNext, CallNext
<1> QED BY <1>1, <1>2, <1>3, <1>4, <1>5, <1>6, <1>7, <1>8, ServiceCases

(* The conjuncts of DeployInv, one lemma each with one step per action. *)
(* Every step keeps the tables and the calls well typed.                *)
LEMMA TypeKept ==
    ASSUME CoordinatorInv, DeployInv, [DeployNext]_serviceVars
    PROVE  DeployTypeOK'
<1> USE DEF DeployInv, DeployTypeOK, deployVars, tableVars, worldVars, Phase, Status
<1>1. ASSUME NEW c \in Call, NEW u \in User, NEW r \in Repo, NEW k \in Kind,
             Begin(c, u, r, k)
      PROVE  DeployTypeOK'
    <2>1. [user |-> u, repo |-> r, kind |-> k] \in Request
        BY DEF Request
    <2> QED BY <1>1, <2>1 DEF Begin
<1>2. ASSUME NEW c \in Call, Cloned(c)
      PROVE  DeployTypeOK'
    <2>1. request[c] \in Request
        BY <1>2 DEF Cloned, CallLinks
    <2>2. head[request[c].repo] \in Sha
        BY <2>1 DEF Request
    <2> QED BY <1>2, <2>2 DEF Cloned
<1>3. ASSUME NEW c \in Call, AnalysisFails(c)
      PROVE  DeployTypeOK'
    BY <1>3 DEF AnalysisFails
<1>4. ASSUME NEW c \in Call, NEW p \in Project, Admit(c, p)
      PROVE  DeployTypeOK'
    BY <1>4, PrepareFacts DEF Admit, Prepare, SaveProject, Row
<1>5. ASSUME NEW c \in Call, NEW p \in Project, Reject(c, p)
      PROVE  DeployTypeOK'
    BY <1>5, PrepareFacts DEF Reject, Prepare, SaveProject, Row
<1>6. ASSUME NEW c \in Call, NEW p \in Project, CredentialsUnreadable(c, p)
      PROVE  DeployTypeOK'
    BY <1>6, PrepareFacts DEF CredentialsUnreadable, Prepare, SaveProject, Row
<1>7. ASSUME NEW c \in Call, TaskStarts(c)
      PROVE  DeployTypeOK'
    BY <1>7 DEF TaskStarts, Recorded
<1>8. ASSUME NEW c \in Call, TaskCancelledEarly(c)
      PROVE  DeployTypeOK'
    BY <1>8 DEF TaskCancelledEarly
<1>9. ASSUME NEW c \in Call, TaskEnds(c)
      PROVE  DeployTypeOK'
    <2>1. c \in Call /\ projectOf[c] \in Project
        BY <1>9 DEF TaskEnds, Finish, CallLinks, CoordinatorInv, TasksFollowCalls
    <2> QED BY <1>9, <2>1 DEF TaskEnds
<1>10. ASSUME NEW c \in Call, DeployReturns(c)
      PROVE  DeployTypeOK'
    <2>1. projectOf[c] \in Project /\ request[c] \in Request
        BY <1>10 DEF DeployReturns, Resume, CallLinks
    <2>2. RowAfterSuccess(c) \in Row
        BY <2>1 DEF RowAfterSuccess, Row, Request
    <2> QED BY <1>10, <2>1, <2>2 DEF DeployReturns, Recorded, Verdict, Rewritten
<1>11. ASSUME NEW u \in User, CancelCurrent(u)
      PROVE  DeployTypeOK'
    BY <1>11 DEF CancelCurrent
<1>12. ASSUME NEW u \in User, NEW p \in Project, NEW on \in BOOLEAN, SetAutoDeploy(u, p, on)
      PROVE  DeployTypeOK'
    <2>1. projects[p] \in Row
        BY <1>12 DEF SetAutoDeploy, Exists
    <2> QED BY <1>12, <2>1 DEF SetAutoDeploy, Row
<1>13. ASSUME NEW d \in Deletion, NEW u \in User, NEW p \in Project, BeginDelete(d, u, p)
      PROVE  DeployTypeOK'
    BY <1>13 DEF BeginDelete, Cleanup
<1>14. ASSUME NEW d \in Deletion, EndDelete(d)
      PROVE  DeployTypeOK'
    BY <1>14 DEF EndDelete, HistoryWithout, Cleanup
<1>15. ASSUME NEW r \in Repo, Push(r)
      PROVE  DeployTypeOK'
    BY <1>15, ServiceAssumption DEF Push, Sha
<1>16. CASE ServiceRestart
    <2>1. \A c \in Call : task[c] = "running" => projectOf[c] \in Project
        BY DEF CallLinks, CoordinatorInv, TasksFollowCalls
    <2>2. \A d \in Deletion : deletion[d] # Absent => deletion[d].project \in Project
        BY DEF Cleanup
    <2>3. serverHolds' \in SUBSET Project
        BY <1>16, <2>1, <2>2 DEF ServiceRestart, ScriptsRunning, CleanupsRunning
    <2>4. phase' \in [Call -> Phase]
        BY <1>16 DEF ServiceRestart, PhaseAfterDeath
    <2>5. projects' \in [Project -> Row \cup {Absent}] /\ born' \in SUBSET Project
        BY <1>16, RestartWrites, RowsSaved DEF Exists
    <2>6. record' \in [Call -> Status]
        BY <1>16 DEF ServiceRestart, TornPreparation, TornStart, TornReturn, Recorded
    <2> QED BY <1>16, <2>3, <2>4, <2>5, <2>6 DEF ServiceRestart
<1>17. CASE UNCHANGED serviceVars
    BY <1>17 DEF serviceVars
<1> QED
    BY <1>1, <1>2, <1>3, <1>4, <1>5, <1>6, <1>7, <1>8, <1>9, <1>10, <1>11, <1>12,
       <1>13, <1>14, <1>15, <1>16, <1>17, ServiceCases

(* Every step keeps deploy() in step with the coordinator. *)
LEMMA CallLinksKept ==
    ASSUME CoordinatorInv, DeployInv, [DeployNext]_serviceVars
    PROVE  CallLinks'
<1> USE DEF DeployInv, DeployTypeOK, CallLinks, CoordinatorInv, CoordinatorTypeOK,
            deployVars, tableVars, worldVars, coordinatorVars, callVars, taskVars, registryVars
<1>1. ASSUME NEW c \in Call, NEW u \in User, NEW r \in Repo, NEW k \in Kind,
             Begin(c, u, r, k)
      PROVE  CallLinks'
    BY <1>1, AbsentAssumption DEF Begin, Request
<1>2. ASSUME NEW c \in Call, Cloned(c)
      PROVE  CallLinks'
    BY <1>2 DEF Cloned
<1>3. ASSUME NEW c \in Call, AnalysisFails(c)
      PROVE  CallLinks'
    BY <1>3 DEF AnalysisFails
<1>4. ASSUME NEW c \in Call, NEW p \in Project, Admit(c, p)
      PROVE  CallLinks'
    BY <1>4, PrepareFacts, AbsentAssumption DEF Admit, Prepare, SaveProject, RunAdmitted
<1>5. ASSUME NEW c \in Call, NEW p \in Project, Reject(c, p)
      PROVE  CallLinks'
    BY <1>5, PrepareFacts, AbsentAssumption DEF Reject, Prepare, SaveProject, RunRejected
<1>6. ASSUME NEW c \in Call, NEW p \in Project, CredentialsUnreadable(c, p)
      PROVE  CallLinks'
    BY <1>6, PrepareFacts, AbsentAssumption DEF CredentialsUnreadable, Prepare, SaveProject
<1>7. ASSUME NEW c \in Call, TaskStarts(c)
      PROVE  CallLinks'
    BY <1>7 DEF TaskStarts, FirstStep, Recorded
<1>8. ASSUME NEW c \in Call, TaskCancelledEarly(c)
      PROVE  CallLinks'
    BY <1>8 DEF TaskCancelledEarly, EndsBeforeStart, LiveIsRegistered, Live
<1>9. ASSUME NEW c \in Call, TaskEnds(c)
      PROVE  CallLinks'
    BY <1>9 DEF TaskEnds, Finish, LiveIsRegistered, Live
<1>10. ASSUME NEW c \in Call, DeployReturns(c)
      PROVE  CallLinks'
    BY <1>10 DEF DeployReturns, Resume, Recorded, Rewritten
<1>11. ASSUME NEW u \in User, CancelCurrent(u)
      PROVE  CallLinks'
    BY <1>11 DEF CancelCurrent, CancelForUser
<1>12. ASSUME NEW u \in User, NEW p \in Project, NEW on \in BOOLEAN, SetAutoDeploy(u, p, on)
      PROVE  CallLinks'
    BY <1>12 DEF SetAutoDeploy
<1>13. ASSUME NEW d \in Deletion, NEW u \in User, NEW p \in Project, BeginDelete(d, u, p)
      PROVE  CallLinks'
    BY <1>13 DEF BeginDelete
<1>14. ASSUME NEW d \in Deletion, EndDelete(d)
      PROVE  CallLinks'
    BY <1>14 DEF EndDelete, HistoryWithout
<1>15. ASSUME NEW r \in Repo, Push(r)
      PROVE  CallLinks'
    BY <1>15 DEF Push
<1>16. CASE ServiceRestart
    <2>1. /\ UNCHANGED <<request, projectOf, userOf, keyOf, outcome>>
          /\ stage' = [c \in Call |-> IF stage[c] = "awaiting" THEN "lost" ELSE stage[c]]
        BY <1>16 DEF ServiceRestart, Restart
    <2>2. \A c \in Call : record[c] = "none" => record'[c] = "none"
        BY <1>16 DEF ServiceRestart, TornPreparation, TornStart, TornReturn, Recorded
    <2>3. \A c \in Call :
              \/ phase'[c] = phase[c] /\ phase[c] \notin {"analyzing", "cloned"}
              \/ phase[c] \in {"analyzing", "cloned"} /\ phase'[c] = "lost"
              \/ /\ phase[c] = "run" /\ phase'[c] = "torn"
                 /\ stage[c] = "awaiting" /\ outcome[c] = "ok"
        BY <1>16 DEF ServiceRestart, PhaseAfterDeath, TornReturn
    <2> QED BY <2>1, <2>2, <2>3
<1>17. CASE UNCHANGED serviceVars
    BY <1>17 DEF serviceVars
<1> QED
    BY <1>1, <1>2, <1>3, <1>4, <1>5, <1>6, <1>7, <1>8, <1>9, <1>10, <1>11, <1>12,
       <1>13, <1>14, <1>15, <1>16, <1>17, ServiceCases

(* No step uses an id the table has not seen. *)
LEMMA IdsAreBornKept ==
    ASSUME CoordinatorInv, DeployInv, [DeployNext]_serviceVars
    PROVE  IdsAreBorn'
<1> USE DEF DeployInv, DeployTypeOK, IdsAreBorn, Exists,
            deployVars, tableVars, worldVars, coordinatorVars
<1>1. ASSUME NEW c \in Call, NEW u \in User, NEW r \in Repo, NEW k \in Kind,
             Begin(c, u, r, k)
      PROVE  IdsAreBorn'
    BY <1>1 DEF Begin
<1>2. ASSUME NEW c \in Call, Cloned(c)
      PROVE  IdsAreBorn'
    BY <1>2 DEF Cloned
<1>3. ASSUME NEW c \in Call, AnalysisFails(c)
      PROVE  IdsAreBorn'
    BY <1>3 DEF AnalysisFails
<1>4. ASSUME NEW c \in Call, NEW p \in Project, Admit(c, p)
      PROVE  IdsAreBorn'
    BY <1>4, PrepareFacts, AbsentAssumption DEF Admit, Prepare, SaveProject, RunAdmitted
<1>5. ASSUME NEW c \in Call, NEW p \in Project, Reject(c, p)
      PROVE  IdsAreBorn'
    BY <1>5, PrepareFacts, AbsentAssumption DEF Reject, Prepare, SaveProject, RunRejected
<1>6. ASSUME NEW c \in Call, NEW p \in Project, CredentialsUnreadable(c, p)
      PROVE  IdsAreBorn'
    BY <1>6, PrepareFacts, AbsentAssumption DEF CredentialsUnreadable, Prepare, SaveProject
<1>7. ASSUME NEW c \in Call, TaskStarts(c)
      PROVE  IdsAreBorn'
    BY <1>7 DEF TaskStarts, FirstStep, Recorded
<1>8. ASSUME NEW c \in Call, TaskCancelledEarly(c)
      PROVE  IdsAreBorn'
    BY <1>8 DEF TaskCancelledEarly, EndsBeforeStart
<1>9. ASSUME NEW c \in Call, TaskEnds(c)
      PROVE  IdsAreBorn'
    BY <1>9 DEF TaskEnds, Finish
<1>10. ASSUME NEW c \in Call, DeployReturns(c)
      PROVE  IdsAreBorn'
    BY <1>10 DEF DeployReturns, Resume, Recorded, Rewritten
<1>11. ASSUME NEW u \in User, CancelCurrent(u)
      PROVE  IdsAreBorn'
    BY <1>11 DEF CancelCurrent, CancelForUser
<1>12. ASSUME NEW u \in User, NEW p \in Project, NEW on \in BOOLEAN, SetAutoDeploy(u, p, on)
      PROVE  IdsAreBorn'
    BY <1>12 DEF SetAutoDeploy
<1>13. ASSUME NEW d \in Deletion, NEW u \in User, NEW p \in Project, BeginDelete(d, u, p)
      PROVE  IdsAreBorn'
    BY <1>13 DEF BeginDelete
<1>14. ASSUME NEW d \in Deletion, EndDelete(d)
      PROVE  IdsAreBorn'
    BY <1>14 DEF EndDelete, HistoryWithout
<1>15. ASSUME NEW r \in Repo, Push(r)
      PROVE  IdsAreBorn'
    BY <1>15 DEF Push
<1>16. CASE ServiceRestart
    <2>1. projectOf' = projectOf
        BY <1>16 DEF ServiceRestart
    <2> QED BY <1>16, <2>1, RestartWrites DEF SaveProject, TornReturn, Rewritten
<1>17. CASE UNCHANGED serviceVars
    BY <1>17 DEF serviceVars
<1> QED
    BY <1>1, <1>2, <1>3, <1>4, <1>5, <1>6, <1>7, <1>8, <1>9, <1>10, <1>11, <1>12,
       <1>13, <1>14, <1>15, <1>16, <1>17, ServiceCases

(* No step gives a project id to another user or repository. *)
LEMMA IdsKeptInHand ==
    ASSUME CoordinatorInv, DeployInv, [DeployNext]_serviceVars
    PROVE  IdsNeverChangeHands'
<1> USE DEF deployVars, tableVars, worldVars, coordinatorVars
<1>0. DeployTypeOK /\ IdsNeverChangeHands
    BY DEF DeployInv
<1> USE <1>0 DEF DeployTypeOK, IdsNeverChangeHands
<1>1. ASSUME NEW c \in Call, NEW u \in User, NEW r \in Repo, NEW k \in Kind,
             Begin(c, u, r, k)
      PROVE  IdsNeverChangeHands'
    <2>1. projectOf[c] = Absent /\ projectOf' = projectOf
        BY <1>1 DEF Begin, DeployInv, CallLinks
    <2>2. \A d \in Call : d # c => request'[d] = request[d]
        BY <1>1 DEF Begin
    <2> QED BY <2>1, <2>2
<1>2. ASSUME NEW c \in Call, Cloned(c)
      PROVE  IdsNeverChangeHands'
    BY <1>2 DEF Cloned
<1>3. ASSUME NEW c \in Call, AnalysisFails(c)
      PROVE  IdsNeverChangeHands'
    BY <1>3 DEF AnalysisFails
<1>4. ASSUME NEW c \in Call, NEW p \in Project, Admit(c, p)
      PROVE  IdsNeverChangeHands'
    <2>1. projectOf' = [projectOf EXCEPT ![c] = p] /\ request' = request
        BY <1>4 DEF Admit, Prepare, SaveProject
    <2>2. \A d \in Call : projectOf[d] = p =>
             request[d].user = request[c].user /\ request[d].repo = request[c].repo
        BY <1>4, PrepareJoinsItsOwn DEF Admit
    <2> QED BY <2>1, <2>2
<1>5. ASSUME NEW c \in Call, NEW p \in Project, Reject(c, p)
      PROVE  IdsNeverChangeHands'
    <2>1. projectOf' = [projectOf EXCEPT ![c] = p] /\ request' = request
        BY <1>5 DEF Reject, Prepare, SaveProject
    <2>2. \A d \in Call : projectOf[d] = p =>
             request[d].user = request[c].user /\ request[d].repo = request[c].repo
        BY <1>5, PrepareJoinsItsOwn DEF Reject
    <2> QED BY <2>1, <2>2
<1>6. ASSUME NEW c \in Call, NEW p \in Project, CredentialsUnreadable(c, p)
      PROVE  IdsNeverChangeHands'
    <2>1. projectOf' = [projectOf EXCEPT ![c] = p] /\ request' = request
        BY <1>6 DEF CredentialsUnreadable, Prepare, SaveProject
    <2>2. \A d \in Call : projectOf[d] = p =>
             request[d].user = request[c].user /\ request[d].repo = request[c].repo
        BY <1>6, PrepareJoinsItsOwn DEF CredentialsUnreadable
    <2> QED BY <2>1, <2>2
<1>7. ASSUME NEW c \in Call, TaskStarts(c)
      PROVE  IdsNeverChangeHands'
    BY <1>7 DEF TaskStarts, FirstStep, Recorded
<1>8. ASSUME NEW c \in Call, TaskCancelledEarly(c)
      PROVE  IdsNeverChangeHands'
    BY <1>8 DEF TaskCancelledEarly, EndsBeforeStart
<1>9. ASSUME NEW c \in Call, TaskEnds(c)
      PROVE  IdsNeverChangeHands'
    BY <1>9 DEF TaskEnds, Finish
<1>10. ASSUME NEW c \in Call, DeployReturns(c)
      PROVE  IdsNeverChangeHands'
    BY <1>10 DEF DeployReturns, Resume, Recorded, Rewritten
<1>11. ASSUME NEW u \in User, CancelCurrent(u)
      PROVE  IdsNeverChangeHands'
    BY <1>11 DEF CancelCurrent, CancelForUser
<1>12. ASSUME NEW u \in User, NEW p \in Project, NEW on \in BOOLEAN, SetAutoDeploy(u, p, on)
      PROVE  IdsNeverChangeHands'
    BY <1>12 DEF SetAutoDeploy
<1>13. ASSUME NEW d \in Deletion, NEW u \in User, NEW p \in Project, BeginDelete(d, u, p)
      PROVE  IdsNeverChangeHands'
    BY <1>13 DEF BeginDelete
<1>14. ASSUME NEW d \in Deletion, EndDelete(d)
      PROVE  IdsNeverChangeHands'
    BY <1>14 DEF EndDelete, HistoryWithout
<1>15. ASSUME NEW r \in Repo, Push(r)
      PROVE  IdsNeverChangeHands'
    BY <1>15 DEF Push
<1>16. CASE ServiceRestart
    BY <1>16 DEF ServiceRestart, Restart
<1>17. CASE UNCHANGED serviceVars
    BY <1>17 DEF serviceVars
<1> QED
    BY <1>1, <1>2, <1>3, <1>4, <1>5, <1>6, <1>7, <1>8, <1>9, <1>10, <1>11, <1>12,
       <1>13, <1>14, <1>15, <1>16, <1>17, ServiceCases

(* Every step keeps the statuses truthful.  DeployReturns needs that an   *)
(* accepted cancellation sticks (Coordinator).                             *)
LEMMA RecordsKept ==
    ASSUME CoordinatorInv, DeployInv, [DeployNext]_serviceVars
    PROVE  RecordsFollowRuns'
<1> USE DEF deployVars, tableVars, worldVars, coordinatorVars, callVars, taskVars, registryVars
<1>0. /\ DeployTypeOK /\ CallLinks /\ RecordsFollowRuns
      /\ CoordinatorTypeOK /\ TasksFollowCalls /\ LiveIsRegistered /\ AcceptedCancelSticks
    BY DEF DeployInv, CoordinatorInv
<1> USE <1>0 DEF DeployTypeOK, CoordinatorTypeOK, RecordsFollowRuns
<1>1. ASSUME NEW c \in Call, NEW u \in User, NEW r \in Repo, NEW k \in Kind,
             Begin(c, u, r, k)
      PROVE  RecordsFollowRuns'
    BY <1>1 DEF Begin
<1>2. ASSUME NEW c \in Call, Cloned(c)
      PROVE  RecordsFollowRuns'
    BY <1>2 DEF Cloned
<1>3. ASSUME NEW c \in Call, AnalysisFails(c)
      PROVE  RecordsFollowRuns'
    BY <1>3 DEF AnalysisFails
<1>4. ASSUME NEW c \in Call, NEW p \in Project, Admit(c, p)
      PROVE  RecordsFollowRuns'
    BY <1>4 DEF CallLinks, TasksFollowCalls, LiveIsRegistered, Live, Verdict,
              Admit, Prepare, SaveProject, RunAdmitted
<1>5. ASSUME NEW c \in Call, NEW p \in Project, Reject(c, p)
      PROVE  RecordsFollowRuns'
    BY <1>5 DEF CallLinks, TasksFollowCalls, LiveIsRegistered, Live, Verdict,
              Reject, Prepare, SaveProject, RunRejected
<1>6. ASSUME NEW c \in Call, NEW p \in Project, CredentialsUnreadable(c, p)
      PROVE  RecordsFollowRuns'
    BY <1>6 DEF CallLinks, TasksFollowCalls, LiveIsRegistered, Live, Verdict,
              CredentialsUnreadable, Prepare, SaveProject
<1>7. ASSUME NEW c \in Call, TaskStarts(c)
      PROVE  RecordsFollowRuns'
    BY <1>7 DEF CallLinks, TasksFollowCalls, LiveIsRegistered, Live, Verdict,
              TaskStarts, FirstStep, Recorded
<1>8. ASSUME NEW c \in Call, TaskCancelledEarly(c)
      PROVE  RecordsFollowRuns'
    BY <1>8 DEF CallLinks, TasksFollowCalls, LiveIsRegistered, Live, Verdict,
              TaskCancelledEarly, EndsBeforeStart
<1>9. ASSUME NEW c \in Call, TaskEnds(c)
      PROVE  RecordsFollowRuns'
    BY <1>9 DEF CallLinks, TasksFollowCalls, LiveIsRegistered, Live, Verdict,
              TaskEnds, Finish
<1>10. ASSUME NEW c \in Call, DeployReturns(c)
      PROVE  RecordsFollowRuns'
    <2>1. /\ stage' = [stage EXCEPT ![c] = "returned"]
          /\ record' = Recorded(c, Verdict(result'[c]))
          /\ phase' = phase /\ task' = task /\ cancelling' = cancelling
          /\ \A d \in Call : d # c => result'[d] = result[d]
          /\ task[c] = "done"
        BY <1>10 DEF DeployReturns, Resume
    <2>2. c \in cancelling => result'[c] # "ok"
        BY <1>10 DEF DeployReturns, Resume, AcceptedCancelSticks
    <2>3. c \in cancelling => Verdict(result'[c]) # "successful"
        BY <2>2 DEF Verdict
    <2>4. record' = record \/ record' = [record EXCEPT ![c] = Verdict(result'[c])]
        BY <2>1 DEF Recorded
    <2>5. record[c] = "none" => record' = record
        BY <2>1 DEF Recorded
    <2>6. record[c] # "none" => record'[c] = Verdict(result'[c])
        BY <2>1 DEF Recorded
    <2>7. Verdict(result'[c]) # "planning"
        BY DEF Verdict
    <2>8. \A d \in Call : d # c =>
              /\ record'[d] = record[d] /\ stage'[d] = stage[d] /\ result'[d] = result[d]
              /\ phase'[d] = phase[d] /\ task'[d] = task[d]
        BY <2>1, <2>4
    <2>9. ASSUME record'[c] # "none"
          PROVE  /\ record'[c] = Verdict(result'[c]) /\ phase'[c] = phase[c]
                 /\ phase[c] \in {"run", "broken", "torn"}
        <3>1. record[c] # "none"
            BY <2>5, <2>9
        <3> QED BY <2>1, <2>6, <3>1
    <2> QED BY <2>1, <2>3, <2>7, <2>8, <2>9
<1>11. ASSUME NEW u \in User, CancelCurrent(u)
      PROVE  RecordsFollowRuns'
    BY <1>11 DEF LiveIsRegistered, Live, CancelCurrent, CancelForUser, Busy
<1>12. ASSUME NEW u \in User, NEW p \in Project, NEW on \in BOOLEAN, SetAutoDeploy(u, p, on)
      PROVE  RecordsFollowRuns'
    BY <1>12 DEF SetAutoDeploy
<1>13. ASSUME NEW d \in Deletion, NEW u \in User, NEW p \in Project, BeginDelete(d, u, p)
      PROVE  RecordsFollowRuns'
    BY <1>13 DEF BeginDelete
<1>14. ASSUME NEW d \in Deletion, EndDelete(d)
      PROVE  RecordsFollowRuns'
    BY <1>14 DEF EndDelete, HistoryWithout
<1>15. ASSUME NEW r \in Repo, Push(r)
      PROVE  RecordsFollowRuns'
    BY <1>15 DEF Push
<1>16. CASE ServiceRestart
    <2>1. /\ stage' = [c \in Call |-> IF stage[c] = "awaiting" THEN "lost" ELSE stage[c]]
          /\ task' = [c \in Call |-> IF Live(c) THEN "killed" ELSE task[c]]
          /\ result' = result /\ cancelling' = cancelling
        BY <1>16 DEF ServiceRestart, Restart
    <2>2. \A c \in Call :
              \/ record'[c] = record[c]
              \/ record'[c] = "planning" /\ record[c] # "none" /\ task[c] = "ready"
        BY <1>16 DEF ServiceRestart, TornPreparation, TornStart, TornReturn, Recorded
    <2>3. \A c \in Call : phase[c] \in {"run", "broken", "torn"} =>
                              phase'[c] \in {"run", "broken", "torn"}
        BY <1>16 DEF ServiceRestart, PhaseAfterDeath
    <2>4. \A c \in Call : task[c] = "ready" => stage[c] = "awaiting"
        BY DEF LiveIsRegistered, Live
    <2> QED BY <2>1, <2>2, <2>3, <2>4 DEF Live
<1>17. CASE UNCHANGED serviceVars
    BY <1>17 DEF serviceVars
<1> QED
    BY <1>1, <1>2, <1>3, <1>4, <1>5, <1>6, <1>7, <1>8, <1>9, <1>10, <1>11, <1>12,
       <1>13, <1>14, <1>15, <1>16, <1>17, ServiceCases

(* Whatever a death commits, the projects that were ever in the table stay *)
(* in it, or out of it, and with their users and repositories.             *)
SameProject(p) ==
    /\ projects'[p] # Absent <=> Exists(p)
    /\ Exists(p) => /\ projects'[p].owner = projects[p].owner
                    /\ projects'[p].repo = projects[p].repo

LEMMA RestartKeepsOwners ==
    ASSUME CoordinatorInv, DeployInv, ServiceRestart
    PROVE  /\ born \subseteq born'
           /\ \A p \in Project : p \in born => SameProject(p)
<1>0. DeployTypeOK
    BY DEF DeployInv
<1>1. CASE projects' = projects /\ born' = born
    BY <1>1 DEF SameProject, Exists
<1>2. ASSUME NEW c \in Call, NEW q \in Project, SaveProject(c, q)
      PROVE  /\ born \subseteq born'
             /\ \A p \in Project : p \in born => SameProject(p)
    <2>1. /\ projects' = [projects EXCEPT ![q] = RowFor(request[c], q)]
          /\ born' = born \cup {q}
          /\ q \in born => Exists(q)
        BY <1>2 DEF SaveProject, RowsFor
    <2>2. /\ RowFor(request[c], q) # Absent
          /\ RowFor(request[c], q).owner = request[c].user
          /\ RowFor(request[c], q).repo = request[c].repo
          /\ Exists(q) => /\ projects[q].owner = request[c].user
                          /\ projects[q].repo = request[c].repo
        BY <1>2, SaveFacts, AbsentAssumption DEF RowsFor
    <2> QED BY <1>0, <2>1, <2>2 DEF SameProject, Exists, DeployTypeOK
<1>3. ASSUME NEW c \in Call, TornReturn(c)
      PROVE  /\ born \subseteq born'
             /\ \A p \in Project : p \in born => SameProject(p)
    <2>1. /\ projectOf[c] \in Project /\ phase[c] = "run" /\ RowAfterSuccess(c) # Absent
          /\ Exists(projectOf[c]) /\ born' = born
          /\ projects' = Rewritten(projectOf[c], RowAfterSuccess(c))
        BY <1>3, RowsSaved DEF TornReturn
    <2>2. /\ projects[projectOf[c]].owner = request[c].user
          /\ projects[projectOf[c]].repo = request[c].repo
        BY <2>1 DEF DeployInv, HistoryBelongsToProjects
    <2>3. /\ RowAfterSuccess(c).owner = request[c].user
          /\ RowAfterSuccess(c).repo = request[c].repo
        BY DEF RowAfterSuccess
    <2> QED BY <1>0, <2>1, <2>2, <2>3, RewritesOneRow DEF SameProject, Exists
<1> QED BY <1>1, <1>2, <1>3, RestartWrites

(* Every step keeps the two tables together. *)
LEMMA HistoryStepKept ==
    ASSUME CoordinatorInv, DeployInv, [DeployNext]_serviceVars
    PROVE  HistoryBelongsToProjects'
<1> USE DEF deployVars, tableVars, worldVars, coordinatorVars
<1>0. DeployTypeOK /\ CallLinks /\ HistoryBelongsToProjects
    BY DEF DeployInv
<1> USE <1>0 DEF DeployTypeOK, HistoryBelongsToProjects, Exists
<1>1. ASSUME NEW c \in Call, NEW u \in User, NEW r \in Repo, NEW k \in Kind,
             Begin(c, u, r, k)
      PROVE  HistoryBelongsToProjects'
    BY <1>1 DEF Begin
<1>2. ASSUME NEW c \in Call, Cloned(c)
      PROVE  HistoryBelongsToProjects'
    BY <1>2 DEF Cloned
<1>3. ASSUME NEW c \in Call, AnalysisFails(c)
      PROVE  HistoryBelongsToProjects'
    BY <1>3 DEF AnalysisFails
<1>4. ASSUME NEW c \in Call, NEW p \in Project, Admit(c, p)
      PROVE  HistoryBelongsToProjects'
    <2>1. "queued" \in Status \ {"none"}
        BY DEF Status
    <2> QED BY <1>4, <2>1, PrepareKeepsHistory DEF Admit
<1>5. ASSUME NEW c \in Call, NEW p \in Project, Reject(c, p)
      PROVE  HistoryBelongsToProjects'
    <2>1. "failed" \in Status \ {"none"}
        BY DEF Status
    <2> QED BY <1>5, <2>1, PrepareKeepsHistory DEF Reject
<1>6. ASSUME NEW c \in Call, NEW p \in Project, CredentialsUnreadable(c, p)
      PROVE  HistoryBelongsToProjects'
    <2>1. "queued" \in Status \ {"none"}
        BY DEF Status
    <2> QED BY <1>6, <2>1, PrepareKeepsHistory DEF CredentialsUnreadable
<1>7. ASSUME NEW c \in Call, TaskStarts(c)
      PROVE  HistoryBelongsToProjects'
    BY <1>7 DEF TaskStarts, FirstStep, Recorded
<1>8. ASSUME NEW c \in Call, TaskCancelledEarly(c)
      PROVE  HistoryBelongsToProjects'
    BY <1>8 DEF TaskCancelledEarly, EndsBeforeStart
<1>9. ASSUME NEW c \in Call, TaskEnds(c)
      PROVE  HistoryBelongsToProjects'
    BY <1>9 DEF TaskEnds, Finish
<1>10. ASSUME NEW c \in Call, DeployReturns(c)
      PROVE  HistoryBelongsToProjects'
    <2>1. /\ phase' = phase /\ projectOf' = projectOf /\ request' = request
          /\ record' = Recorded(c, Verdict(result'[c]))
          /\ projects' = projects \/ projects' = Rewritten(projectOf[c], RowAfterSuccess(c))
        BY <1>10 DEF DeployReturns
    <2>2. phase[c] = "run" /\ projectOf[c] \in Project /\ request[c] \in Request
        BY <1>10 DEF DeployReturns, Resume, CallLinks
    <2>3. Verdict(result'[c]) # "none"
        BY DEF Verdict
    <2>4. \A d \in Call : record'[d] # "none" <=> record[d] # "none"
        BY <2>1, <2>3 DEF Recorded
    <2>5. RowAfterSuccess(c) # Absent
        BY <2>2, AbsentAssumption DEF RowAfterSuccess, Row, Request
    <2>6. \A p \in Project : projects'[p] # Absent <=> projects[p] # Absent
        BY <2>1, <2>5 DEF Rewritten
    <2>7. \A p \in Project : \/ projects'[p] = projects[p]
                             \/ p = projectOf[c] /\ projects'[p] = RowAfterSuccess(c)
        <3>1. CASE projects' = projects
            BY <3>1
        <3>2. CASE projects' = Rewritten(projectOf[c], RowAfterSuccess(c))
            BY <2>2, <3>2, RewritesOneRow
        <3> QED BY <2>1, <3>1, <3>2
    <2>8. \A d \in Call : projectOf[d] = projectOf[c] =>
             request[d].user = request[c].user /\ request[d].repo = request[c].repo
        BY <2>2, AbsentAssumption DEF DeployInv, IdsNeverChangeHands
    <2>9. \A d \in Call : phase[d] \in {"run", "broken", "torn"} => projectOf[d] \in Project
        BY DEF CallLinks
    <2>10. /\ RowAfterSuccess(c).owner = request[c].user
           /\ RowAfterSuccess(c).repo = request[c].repo
        BY DEF RowAfterSuccess
    <2> QED BY <2>1, <2>4, <2>6, <2>7, <2>8, <2>9, <2>10
<1>11. ASSUME NEW u \in User, CancelCurrent(u)
      PROVE  HistoryBelongsToProjects'
    BY <1>11 DEF CancelCurrent, CancelForUser
<1>12. ASSUME NEW u \in User, NEW p \in Project, NEW on \in BOOLEAN, SetAutoDeploy(u, p, on)
      PROVE  HistoryBelongsToProjects'
    <2>1. projects[p] \in Row
        BY <1>12 DEF SetAutoDeploy
    <2>2. projects'[p] \in Row /\ projects'[p].owner = projects[p].owner
                               /\ projects'[p].repo = projects[p].repo
        BY <1>12, <2>1 DEF SetAutoDeploy, Row
    <2>3. \A q \in Project : q # p => projects'[q] = projects[q]
        BY <1>12 DEF SetAutoDeploy
    <2>4. /\ phase' = phase /\ projectOf' = projectOf /\ request' = request /\ record' = record
          /\ \A d \in Call : phase[d] \in {"run", "broken", "torn"} => projectOf[d] \in Project
        BY <1>12 DEF SetAutoDeploy, CallLinks
    <2>5. projects[p] # Absent /\ projects'[p] # Absent
        BY <2>1, <2>2, AbsentAssumption
    <2> QED BY <2>2, <2>3, <2>4, <2>5
<1>13. ASSUME NEW d \in Deletion, NEW u \in User, NEW p \in Project, BeginDelete(d, u, p)
      PROVE  HistoryBelongsToProjects'
    BY <1>13 DEF BeginDelete
<1>14. ASSUME NEW d \in Deletion, EndDelete(d)
      PROVE  HistoryBelongsToProjects'
    <2>1. deletion[d].project \in Project
        BY <1>14 DEF EndDelete, Cleanup
    <2>2. /\ phase' = phase /\ projectOf' = projectOf /\ request' = request
          /\ record' = HistoryWithout(deletion[d].project)
          /\ projects' = [projects EXCEPT ![deletion[d].project] = Absent]
        BY <1>14 DEF EndDelete
    <2>3. \A e \in Call : phase[e] \in {"run", "broken", "torn"} => projectOf[e] \in Project
        BY DEF CallLinks
    <2> QED BY <2>1, <2>2, <2>3 DEF HistoryWithout
<1>15. ASSUME NEW r \in Repo, Push(r)
      PROVE  HistoryBelongsToProjects'
    BY <1>15 DEF Push
<1>16. CASE ServiceRestart
    <2>1. projectOf' = projectOf /\ request' = request
        BY <1>16 DEF ServiceRestart
    <2>2. \A c \in Call : record'[c] # "none" <=> record[c] # "none"
        BY <1>16 DEF ServiceRestart, TornPreparation, TornStart, TornReturn, Recorded
    <2>3. \A c \in Call : phase'[c] \in {"run", "broken", "torn"} =>
              /\ phase[c] \in {"run", "broken", "torn"}
              /\ projectOf[c] \in Project /\ projectOf[c] \in born
        BY <1>16, AbsentAssumption DEF ServiceRestart, PhaseAfterDeath, TornReturn, CallLinks,
                                       DeployInv, IdsAreBorn
    <2>4. \A p \in Project : p \in born =>
              /\ projects'[p] # Absent <=> projects[p] # Absent
              /\ projects[p] # Absent => /\ projects'[p].owner = projects[p].owner
                                         /\ projects'[p].repo = projects[p].repo
        BY <1>16, RestartKeepsOwners DEF SameProject
    <2> QED BY <2>1, <2>2, <2>3, <2>4
<1>17. CASE UNCHANGED serviceVars
    BY <1>17 DEF serviceVars
<1> QED
    BY <1>1, <1>2, <1>3, <1>4, <1>5, <1>6, <1>7, <1>8, <1>9, <1>10, <1>11, <1>12,
       <1>13, <1>14, <1>15, <1>16, <1>17, ServiceCases

(* Every step keeps the shown URLs real: a call whose URL is shown is over *)
(* and nothing about it changes any more.                                  *)
LEMMA UrlKept ==
    ASSUME CoordinatorInv, DeployInv, [DeployNext]_serviceVars
    PROVE  ShownUrlIsReal'
<1> USE DEF deployVars, tableVars, worldVars, coordinatorVars, callVars, taskVars, registryVars
<1>0. DeployTypeOK /\ CoordinatorTypeOK /\ ShownUrlIsReal /\ CallLinks
    BY DEF DeployInv, CoordinatorInv
<1>over. \A p \in Project : Exists(p) /\ projects[p].live # NoCall =>
            /\ projects[p].live \in Call
            /\ stage[projects[p].live] \notin {"idle", "awaiting"}
            /\ phase[projects[p].live] \in {"run", "torn"}
    BY ShownIsOver
<1> USE <1>0, <1>over DEF DeployTypeOK, CoordinatorTypeOK, ShownUrlIsReal, Succeeded, Exists
<1>1. ASSUME NEW c \in Call, NEW u \in User, NEW r \in Repo, NEW k \in Kind,
             Begin(c, u, r, k)
      PROVE  ShownUrlIsReal'
    <2>1. /\ phase[c] = "idle" /\ projects' = projects /\ result' = result
          /\ projectOf' = projectOf /\ sha' = sha
          /\ \A d \in Call : d # c => request'[d] = request[d] /\ phase'[d] = phase[d]
        BY <1>1 DEF Begin
    <2> QED BY <2>1
<1>2. ASSUME NEW c \in Call, Cloned(c)
      PROVE  ShownUrlIsReal'
    <2>1. /\ phase[c] = "analyzing" /\ projects' = projects /\ result' = result
          /\ projectOf' = projectOf /\ request' = request
          /\ \A d \in Call : d # c => sha'[d] = sha[d] /\ phase'[d] = phase[d]
        BY <1>2 DEF Cloned
    <2> QED BY <2>1
<1>3. ASSUME NEW c \in Call, AnalysisFails(c)
      PROVE  ShownUrlIsReal'
    BY <1>3 DEF AnalysisFails
<1>4. ASSUME NEW c \in Call, NEW p \in Project, Admit(c, p)
      PROVE  ShownUrlIsReal'
    <2>1. /\ phase[c] = "cloned" /\ stage[c] = "idle" /\ request' = request /\ sha' = sha
          /\ projectOf' = [projectOf EXCEPT ![c] = p]
          /\ projects' = [projects EXCEPT ![p] = RowFor(request[c], p)]
          /\ \A d \in Call : d # c => result'[d] = result[d] /\ phase'[d] = phase[d]
        BY <1>4, PrepareFacts DEF Admit, Prepare, SaveProject, RunAdmitted, RunRejected
    <2>2. RowFor(request[c], p).live # NoCall =>
             Exists(p) /\ RowFor(request[c], p) = projects[p]
        <3>1. /\ request[c] \in Request
              /\ Exists(p) => p \in RowsFor(request[c].user, request[c].repo)
            BY <1>4, PrepareFacts DEF Admit
        <3> QED BY <3>1, RowForIsTheirs
    <2>3. \A q \in Project : q # p => projects'[q] = projects[q]
        BY <2>1
    <2>4. \A q \in Project : projects'[q] # Absent /\ projects'[q].live # NoCall =>
              projects[q] # Absent /\ projects'[q] = projects[q]
        BY <2>1, <2>2, <2>3
    <2> QED BY <2>1, <2>4
<1>5. ASSUME NEW c \in Call, NEW p \in Project, Reject(c, p)
      PROVE  ShownUrlIsReal'
    <2>1. /\ phase[c] = "cloned" /\ stage[c] = "idle" /\ request' = request /\ sha' = sha
          /\ projectOf' = [projectOf EXCEPT ![c] = p]
          /\ projects' = [projects EXCEPT ![p] = RowFor(request[c], p)]
          /\ \A d \in Call : d # c => result'[d] = result[d] /\ phase'[d] = phase[d]
        BY <1>5, PrepareFacts DEF Reject, Prepare, SaveProject, RunAdmitted, RunRejected
    <2>2. RowFor(request[c], p).live # NoCall =>
             Exists(p) /\ RowFor(request[c], p) = projects[p]
        <3>1. /\ request[c] \in Request
              /\ Exists(p) => p \in RowsFor(request[c].user, request[c].repo)
            BY <1>5, PrepareFacts DEF Reject
        <3> QED BY <3>1, RowForIsTheirs
    <2>3. \A q \in Project : q # p => projects'[q] = projects[q]
        BY <2>1
    <2>4. \A q \in Project : projects'[q] # Absent /\ projects'[q].live # NoCall =>
              projects[q] # Absent /\ projects'[q] = projects[q]
        BY <2>1, <2>2, <2>3
    <2> QED BY <2>1, <2>4
<1>6. ASSUME NEW c \in Call, NEW p \in Project, CredentialsUnreadable(c, p)
      PROVE  ShownUrlIsReal'
    <2>1. /\ phase[c] = "cloned" /\ stage[c] = "idle" /\ request' = request /\ sha' = sha
          /\ projectOf' = [projectOf EXCEPT ![c] = p]
          /\ projects' = [projects EXCEPT ![p] = RowFor(request[c], p)]
          /\ \A d \in Call : d # c => result'[d] = result[d] /\ phase'[d] = phase[d]
        <3>1. Prepare(c, p, "queued")
            BY <1>6 DEF CredentialsUnreadable
        <3>2. stage[c] = "idle"
            BY <3>1, PrepareFacts
        <3> QED BY <1>6, <3>1, <3>2 DEF CredentialsUnreadable, Prepare, SaveProject
    <2>2. RowFor(request[c], p).live # NoCall =>
             Exists(p) /\ RowFor(request[c], p) = projects[p]
        <3>1. /\ request[c] \in Request
              /\ Exists(p) => p \in RowsFor(request[c].user, request[c].repo)
            BY <1>6, PrepareFacts DEF CredentialsUnreadable
        <3> QED BY <3>1, RowForIsTheirs
    <2>3. \A q \in Project : q # p => projects'[q] = projects[q]
        BY <2>1
    <2>4. \A q \in Project : projects'[q] # Absent /\ projects'[q].live # NoCall =>
              projects[q] # Absent /\ projects'[q] = projects[q]
        BY <2>1, <2>2, <2>3
    <2> QED BY <2>1, <2>4
<1>7. ASSUME NEW c \in Call, TaskStarts(c)
      PROVE  ShownUrlIsReal'
    BY <1>7 DEF TaskStarts, FirstStep, Recorded
<1>8. ASSUME NEW c \in Call, TaskCancelledEarly(c)
      PROVE  ShownUrlIsReal'
    BY <1>8 DEF TaskCancelledEarly, EndsBeforeStart
<1>9. ASSUME NEW c \in Call, TaskEnds(c)
      PROVE  ShownUrlIsReal'
    BY <1>9 DEF TaskEnds, Finish
<1>10. ASSUME NEW c \in Call, DeployReturns(c)
      PROVE  ShownUrlIsReal'
    <2>1. /\ projectOf' = projectOf /\ request' = request /\ sha' = sha /\ phase' = phase
          /\ \A d \in Call : d # c => result'[d] = result[d]
          /\ stage[c] = "awaiting"
          /\ projects' = IF result'[c] = "ok" THEN Rewritten(projectOf[c], RowAfterSuccess(c))
                         ELSE projects
        BY <1>10 DEF DeployReturns, Resume
    <2>2. projectOf[c] \in Project
        BY <2>1 DEF CallLinks
    <2>3. \A q \in Project : \/ projects'[q] = projects[q]
                             \/ /\ q = projectOf[c] /\ result'[c] = "ok"
                                /\ projects'[q] = RowAfterSuccess(c)
        BY <2>1, <2>2, RewritesOneRow
    <2>4. /\ RowAfterSuccess(c).live = c /\ RowAfterSuccess(c).kind = request[c].kind
          /\ RowAfterSuccess(c).deployed = sha[c]
        BY DEF RowAfterSuccess
    <2> QED BY <2>1, <2>3, <2>4
<1>11. ASSUME NEW u \in User, CancelCurrent(u)
      PROVE  ShownUrlIsReal'
    BY <1>11 DEF CancelCurrent, CancelForUser
<1>12. ASSUME NEW u \in User, NEW p \in Project, NEW on \in BOOLEAN, SetAutoDeploy(u, p, on)
      PROVE  ShownUrlIsReal'
    BY <1>12 DEF SetAutoDeploy
<1>13. ASSUME NEW d \in Deletion, NEW u \in User, NEW p \in Project, BeginDelete(d, u, p)
      PROVE  ShownUrlIsReal'
    BY <1>13 DEF BeginDelete
<1>14. ASSUME NEW d \in Deletion, EndDelete(d)
      PROVE  ShownUrlIsReal'
    BY <1>14 DEF EndDelete, HistoryWithout
<1>15. ASSUME NEW r \in Repo, Push(r)
      PROVE  ShownUrlIsReal'
    BY <1>15 DEF Push
<1>16. CASE ServiceRestart
    <2>1. UNCHANGED <<request, sha, projectOf, result>>
        BY <1>16 DEF ServiceRestart, Restart
    <2>2. \A c \in Call : /\ phase[c] = "torn" => phase'[c] = "torn"
                          /\ phase' = PhaseAfterDeath({c}) => phase'[c] = "torn"
        BY <1>16 DEF ServiceRestart, PhaseAfterDeath
    <2> DEFINE Kept(q) == \/ projects'[q] = projects[q]
                          \/ projects'[q].live = NoCall
                          \/ \E c \in Call : /\ q = projectOf[c] /\ phase'[c] = "torn"
                                             /\ projects'[q] = RowAfterSuccess(c)
    <2>3. ASSUME NEW c \in Call, NEW p \in Project, SaveProject(c, p)
          PROVE  \A q \in Project : Kept(q)
        <3>1. projects' = [projects EXCEPT ![p] = RowFor(request[c], p)]
            BY <2>3 DEF SaveProject
        <3>2. RowFor(request[c], p).live # NoCall =>
                  Exists(p) /\ RowFor(request[c], p) = projects[p]
            <4>1. /\ request[c] \in Request
                  /\ Exists(p) => p \in RowsFor(request[c].user, request[c].repo)
                BY <2>3, SaveFacts
            <4> QED BY <4>1, RowForIsTheirs
        <3> QED BY <3>1, <3>2
    <2>4. ASSUME NEW c \in Call, TornReturn(c), phase' = PhaseAfterDeath({c})
          PROVE  \A q \in Project : Kept(q)
        <3>1. projectOf[c] \in Project /\ projects' = Rewritten(projectOf[c], RowAfterSuccess(c))
            BY <2>4, RowsSaved DEF TornReturn
        <3>2. \A q \in Project : \/ projects'[q] = projects[q]
                                 \/ q = projectOf[c] /\ projects'[q] = RowAfterSuccess(c)
            BY <3>1, RewritesOneRow
        <3>3. phase'[c] = "torn"
            BY <2>2, <2>4
        <3> QED BY <3>2, <3>3
    <2>5. projects' = projects => \A q \in Project : Kept(q)
        OBVIOUS
    <2>6. \A q \in Project : Kept(q)
        <3> HIDE DEF Kept
        <3> QED BY <1>16, <2>3, <2>4, <2>5, RestartWrites
    <2>7. \A c \in Call : /\ RowAfterSuccess(c).live = c
                          /\ RowAfterSuccess(c).kind = request[c].kind
                          /\ RowAfterSuccess(c).deployed = sha[c]
        BY DEF RowAfterSuccess
    <2>8. \A q \in Project : projects'[q] # Absent /\ projects'[q].live # NoCall =>
              /\ result'[projects'[q].live] = "ok" \/ phase'[projects'[q].live] = "torn"
              /\ projectOf'[projects'[q].live] = q
              /\ projects'[q].kind = request'[projects'[q].live].kind
              /\ projects'[q].deployed = sha'[projects'[q].live]
        <3>1. ASSUME NEW q \in Project, projects'[q] # Absent, projects'[q].live # NoCall,
                     projects'[q] = projects[q]
              PROVE  /\ result'[projects'[q].live] = "ok" \/ phase'[projects'[q].live] = "torn"
                     /\ projectOf'[projects'[q].live] = q
                     /\ projects'[q].kind = request'[projects'[q].live].kind
                     /\ projects'[q].deployed = sha'[projects'[q].live]
            BY <2>1, <2>2, <3>1
        <3>2. ASSUME NEW q \in Project, NEW c \in Call, q = projectOf[c], phase'[c] = "torn",
                     projects'[q] = RowAfterSuccess(c)
              PROVE  /\ result'[projects'[q].live] = "ok" \/ phase'[projects'[q].live] = "torn"
                     /\ projectOf'[projects'[q].live] = q
                     /\ projects'[q].kind = request'[projects'[q].live].kind
                     /\ projects'[q].deployed = sha'[projects'[q].live]
            BY <2>1, <2>7, <3>2
        <3> QED BY <2>6, <3>1, <3>2
    <2> QED BY <2>8
<1>17. CASE UNCHANGED serviceVars
    BY <1>17 DEF serviceVars
<1> QED
    BY <1>1, <1>2, <1>3, <1>4, <1>5, <1>6, <1>7, <1>8, <1>9, <1>10, <1>11, <1>12,
       <1>13, <1>14, <1>15, <1>16, <1>17, ServiceCases

(* The empty tables satisfy the invariant. *)
LEMMA ServiceInitInv == DeployInit => DeployInv
<1> SUFFICES ASSUME DeployInit PROVE DeployInv
    OBVIOUS
<1> USE DEF DeployInit, CoordinatorInit
<1>1. DeployTypeOK
    BY ServiceAssumption DEF DeployTypeOK, Phase, Status, Sha
<1>2. CallLinks /\ IdsAreBorn /\ IdsNeverChangeHands
    BY DEF CallLinks, IdsAreBorn, IdsNeverChangeHands, Exists
<1>3. RecordsFollowRuns /\ HistoryBelongsToProjects /\ ShownUrlIsReal
    BY DEF RecordsFollowRuns, HistoryBelongsToProjects, ShownUrlIsReal, Exists
<1> QED BY <1>1, <1>2, <1>3 DEF DeployInv

(* DeployInv is inductive, given the coordinator's invariant. *)
LEMMA ServiceStepInv ==
    CoordinatorInv /\ DeployInv /\ [DeployNext]_serviceVars => DeployInv'
<1> SUFFICES ASSUME CoordinatorInv, DeployInv, [DeployNext]_serviceVars PROVE DeployInv'
    OBVIOUS
<1> QED
    BY TypeKept, CallLinksKept, IdsAreBornKept, IdsKeptInHand, RecordsKept, HistoryStepKept,
       UrlKept DEF DeployInv

(* The tables, the calls of deploy() and the coordinator agree in every    *)
(* reachable state, and every step of the service is one the coordinator   *)
(* allows, or leaves it alone.                                             *)
THEOREM ServiceInvariant == DeploySafety => [](CoordinatorInv /\ DeployInv)
<1>1. DeployInit => CoordinatorInv /\ DeployInv
    BY InitInv, ServiceInitInv DEF DeployInit
<1>2. CoordinatorInv /\ DeployInv /\ [DeployNext]_serviceVars => (CoordinatorInv /\ DeployInv)'
    BY ServiceSteps, TypeStep, CallsStep, RegistriesStep, CancelStep, ServiceStepInv
       DEF CoordinatorInv
<1> QED BY <1>1, <1>2, PTL DEF DeploySafety

(* DeployProjectService uses the coordinator as the coordinator's own      *)
(* specification says: what is proved of the coordinator holds here.       *)
THEOREM ServiceRunsCoordinator == DeploySafety => CoordinatorSafety
<1>1. DeployInit => CoordinatorInit
    BY DEF DeployInit
<1>2. CoordinatorInv /\ DeployInv /\ [DeployNext]_serviceVars
          => [CoordinatorNext]_coordinatorVars
    BY ServiceSteps
<1> QED BY <1>1, <1>2, ServiceInvariant, PTL DEF DeploySafety, CoordinatorSafety

(* What the coordinator promises holds around the use cases that call it:  *)
(* deployments of a user, or to a target, are granted one at a time,       *)
(* concluded once and never as a success after an accepted cancellation,   *)
(* and refused only because of one that is under way.                      *)
THEOREM ServiceKeepsClaims ==
    DeploySafety => /\ Claims!ClaimSafety
                    /\ [](ExclusiveDeployments /\ AcceptedCancelSticks)
                    /\ RefusedOnlyWhenBusy
<1>1. CoordinatorSafety => [](ExclusiveDeployments /\ AcceptedCancelSticks)
    BY Exclusion, AcceptedCancelSticksAlways, PTL
<1> QED BY <1>1, ServiceRunsCoordinator, CoordinatorImplementsClaims, RefusalIsJustified

(* The history of deployments: final exactly when deploy() has returned,   *)
(* and never Successful after an accepted cancellation.                    *)
THEOREM RecordsTellTheTruth == DeploySafety => []RecordsFollowRuns
BY ServiceInvariant, PTL DEF DeployInv

(* Rows of deployments exist exactly as long as their project's row.       *)
THEOREM NoOrphanedHistory == DeploySafety => []HistoryBelongsToProjects
BY ServiceInvariant, PTL DEF DeployInv

(* A shown URL comes from a successful deployment of that project.         *)
THEOREM UrlsAreReal == DeploySafety => []ShownUrlIsReal
BY ServiceInvariant, PTL DEF DeployInv

(* Two live runs of one project would be two live runs of one user. *)
LEMMA LinksExclude == CoordinatorInv /\ DeployInv => OneRunPerProject
<1> SUFFICES ASSUME CoordinatorInv, DeployInv,
                    NEW c \in Call, NEW d \in Call, Live(c), Live(d), c # d,
                    projectOf[c] = projectOf[d]
             PROVE  FALSE
    BY DEF OneRunPerProject
<1>1. stage[c] = "awaiting" /\ stage[d] = "awaiting"
    BY DEF CoordinatorInv, LiveIsRegistered
<1>2. phase[c] = "run" /\ phase[d] = "run"
    BY <1>1 DEF DeployInv, CallLinks
<1>3. /\ userOf[c] = request[c].user /\ userOf[d] = request[d].user
      /\ projectOf[c] # Absent
    BY <1>2 DEF DeployInv, CallLinks
<1>4. request[c].user = request[d].user
    BY <1>3 DEF DeployInv, IdsNeverChangeHands
<1>5. userOf[c] # userOf[d]
    BY InvExcludes DEF ExclusiveDeployments
<1> QED BY <1>3, <1>4, <1>5

(* Two runs never work on the same project, whatever their targets.        *)
THEOREM ProjectsRunOneAtATime == DeploySafety => []OneRunPerProject
BY ServiceInvariant, LinksExclude, PTL

(* No step brings back a deleted row or its history. *)
LEMMA DeletedKept ==
    CoordinatorInv /\ DeployInv /\ DeployInv' /\ [DeployNext]_serviceVars =>
        \A p \in Project : p \in born /\ ~Exists(p) =>
            /\ projects'[p] = Absent
            /\ \A c \in Call : projectOf[c] = p => record'[c] = "none"
<1> SUFFICES ASSUME CoordinatorInv, DeployInv, DeployInv', [DeployNext]_serviceVars,
                    NEW p \in Project, p \in born, ~Exists(p)
             PROVE  /\ projects'[p] = Absent
                    /\ \A c \in Call : projectOf[c] = p => record'[c] = "none"
    OBVIOUS
<1>1. DeployTypeOK
    BY DEF DeployInv
<1>2. projects'[p] = Absent
    <2> USE <1>1 DEF DeployTypeOK, Exists, tableVars
    <2>1. ASSUME NEW c \in Call, NEW q \in Project, NEW s, Prepare(c, q, s)
          PROVE  projects'[p] = Absent
        BY <2>1 DEF Prepare, SaveProject, RowsFor
    <2>2. ASSUME NEW c \in Call, NEW q \in Project,
                 Admit(c, q) \/ Reject(c, q) \/ CredentialsUnreadable(c, q)
          PROVE  projects'[p] = Absent
        BY <2>1, <2>2 DEF Admit, Reject, CredentialsUnreadable
    <2>3. ASSUME NEW c \in Call, DeployReturns(c)
          PROVE  projects'[p] = Absent
        BY <2>3 DEF DeployReturns, Rewritten
    <2>4. ASSUME NEW u \in User, NEW q \in Project, NEW on \in BOOLEAN, SetAutoDeploy(u, q, on)
          PROVE  projects'[p] = Absent
        BY <2>4 DEF SetAutoDeploy
    <2>5. ASSUME NEW d \in Deletion, EndDelete(d)
          PROVE  projects'[p] = Absent
        BY <2>5 DEF EndDelete
    <2>6. ASSUME \/ \E c \in Call, u \in User, r \in Repo, k \in Kind : Begin(c, u, r, k)
                 \/ \E c \in Call : Cloned(c) \/ AnalysisFails(c)
                 \/ \E c \in Call : TaskStarts(c) \/ TaskCancelledEarly(c) \/ TaskEnds(c)
                 \/ \E u \in User : CancelCurrent(u)
                 \/ \E d \in Deletion, u \in User, q \in Project : BeginDelete(d, u, q)
                 \/ \E r \in Repo : Push(r)
                 \/ UNCHANGED serviceVars
          PROVE  projects' = projects
        BY <2>6 DEF Begin, Cloned, AnalysisFails, TaskStarts, TaskCancelledEarly, TaskEnds,
                    CancelCurrent, BeginDelete, Push, serviceVars
    <2> HIDE DEF DeployTypeOK, Exists, tableVars
    <2>7. projects[p] = Absent
        BY DEF Exists
    <2>8. CASE ServiceRestart
        BY <2>8, RestartKeepsOwners DEF SameProject
    <2> QED BY <2>2, <2>3, <2>4, <2>5, <2>6, <2>7, <2>8, ServiceCases
<1>3. ASSUME NEW c \in Call, projectOf[c] = p
      PROVE  record'[c] = "none"
    <2>1. phase[c] \in {"run", "broken", "torn"} /\ projectOf[c] # Absent
        BY <1>3, AbsentAssumption DEF DeployInv, CallLinks
    <2>2. projectOf'[c] = projectOf[c] /\ phase'[c] \in {"run", "broken", "torn"}
        <3>1. ASSUME NEW e \in Call, NEW q \in Project,
                     Admit(e, q) \/ Reject(e, q) \/ CredentialsUnreadable(e, q)
              PROVE  e # c /\ projectOf'[c] = projectOf[c] /\ phase'[c] \in {"run", "broken", "torn"}
            <4>1. phase[e] = "cloned"
                BY <3>1 DEF Admit, Reject, CredentialsUnreadable, Prepare, SaveProject
            <4>2. e # c
                BY <2>1, <4>1
            <4> QED BY <1>1, <2>1, <3>1, <4>2
                    DEF Admit, Reject, CredentialsUnreadable, Prepare, SaveProject, DeployTypeOK
        <3>2. ASSUME NEW e \in Call,
                     \/ \E u \in User, r \in Repo, k \in Kind : Begin(e, u, r, k)
                     \/ Cloned(e) \/ AnalysisFails(e)
              PROVE  projectOf'[c] = projectOf[c] /\ phase'[c] \in {"run", "broken", "torn"}
            BY <1>1, <2>1, <3>2 DEF Begin, Cloned, AnalysisFails, DeployTypeOK
        <3>3. ASSUME ServiceRestart
              PROVE  projectOf'[c] = projectOf[c] /\ phase'[c] \in {"run", "broken", "torn"}
            <4>1. \E torn \in SUBSET Call : phase' = PhaseAfterDeath(torn)
                BY <3>3 DEF ServiceRestart
            <4>2. projectOf' = projectOf
                BY <3>3 DEF ServiceRestart
            <4> QED BY <2>1, <4>1, <4>2 DEF PhaseAfterDeath
        <3>4. ASSUME \/ \E e \in Call : \/ TaskStarts(e) \/ TaskCancelledEarly(e)
                                        \/ TaskEnds(e) \/ DeployReturns(e)
                     \/ \E u \in User : CancelCurrent(u)
                     \/ \E u \in User, q \in Project, on \in BOOLEAN : SetAutoDeploy(u, q, on)
                     \/ \E d \in Deletion, u \in User, q \in Project : BeginDelete(d, u, q)
                     \/ \E d \in Deletion : EndDelete(d)
                     \/ \E r \in Repo : Push(r)
                     \/ UNCHANGED serviceVars
              PROVE  projectOf' = projectOf /\ phase' = phase
            BY <3>4 DEF TaskStarts, TaskCancelledEarly, TaskEnds, DeployReturns, CancelCurrent,
                        SetAutoDeploy, BeginDelete, EndDelete, Push, serviceVars, deployVars
        <3> QED BY <1>1, <2>1, <3>1, <3>2, <3>3, <3>4, ServiceCases
    <2>3. record'[c] # "none" <=> projects'[projectOf'[c]] # Absent
        BY <2>1, <2>2 DEF DeployInv, HistoryBelongsToProjects, Exists
    <2> QED BY <1>2, <1>3, <2>2, <2>3
<1> QED BY <1>2, <1>3

(* A deletion is final: neither the project nor its history comes back.    *)
THEOREM DeletionIsFinal == DeploySafety => DeletedStaysDeleted
<1>1. CoordinatorInv /\ DeployInv /\ DeployInv' /\ [DeployNext]_serviceVars =>
        [\A p \in Project : p \in born /\ ~Exists(p) =>
            /\ projects'[p] = Absent
            /\ \A c \in Call : projectOf[c] = p => record'[c] = "none"]_serviceVars
    BY DeletedKept
<1> QED BY <1>1, ServiceInvariant, PTL DEF DeploySafety, DeletedStaysDeleted
----------------------------------------------------------------------------
(* The tables keep the promise of DeploymentHistory, action by action.     *)
(* They begin empty.                                                       *)
LEMMA HistoryStarts == DeployInit => History!HistoryInit
BY DEF DeployInit, History!HistoryInit, ProjectIn, ShownBy, Exists, Torn

(* A project that is saved is in the table, and keeps its URL or loses it. *)
LEMMA SaveShows ==
    ASSUME DeployInv, NEW c \in Call, NEW p \in Project, SaveProject(c, p)
    PROVE  /\ p # Absent /\ p \in {q \in Project : Exists(q)} \cup (Project \ born)
           /\ {q \in Project : Exists(q)}' = {q \in Project : Exists(q)} \cup {p}
           /\ (Project \ born)' \subseteq (Project \ born) \ {p}
           /\ \A q \in Project : q # p => ShownBy(q)' = ShownBy(q)
           /\ ShownBy(p)' \in {ShownBy(p), NoCall}
           /\ ~Exists(p) => ShownBy(p)' = NoCall
<1>1. DeployTypeOK
    BY DEF DeployInv
<1>2. RowFor(request[c], p) \in Row
    BY SaveFacts
<1>3. /\ projects' = [projects EXCEPT ![p] = RowFor(request[c], p)]
      /\ born' = born \cup {p}
    BY DEF SaveProject
<1>4. p # Absent /\ RowFor(request[c], p) # Absent
    BY <1>2, AbsentAssumption
<1>5. p \in {q \in Project : Exists(q)} \cup (Project \ born)
    BY DEF SaveProject, RowsFor
<1>6. {q \in Project : Exists(q)}' = {q \in Project : Exists(q)} \cup {p}
    BY <1>1, <1>3, <1>4 DEF Exists, DeployTypeOK
<1>7. ASSUME NEW q \in Project, q # p
      PROVE  ShownBy(q)' = ShownBy(q)
    BY <1>1, <1>3, <1>7 DEF ShownBy, Exists, DeployTypeOK
<1>8. ShownBy(p)' = RowFor(request[c], p).live
    BY <1>1, <1>3, <1>4 DEF ShownBy, Exists, DeployTypeOK
<1>9. CASE ~Exists(p)
    BY <1>3, <1>4, <1>5, <1>6, <1>7, <1>8, <1>9 DEF RowFor
<1>10. CASE Exists(p)
    <2>1. projects[p] \in Row
        BY <1>1, <1>10 DEF Exists, DeployTypeOK
    <2>2. RowFor(request[c], p).live \in {projects[p].live, NoCall}
        BY <1>10, <2>1 DEF RowFor, Row
    <2> QED BY <1>3, <1>4, <1>5, <1>6, <1>7, <1>8, <1>10, <2>2 DEF ShownBy
<1> QED BY <1>9, <1>10

(* Whichever way deploy() comes out of its preparation, a deployment that  *)
(* had no row enters the history of a project that is there, or of a new   *)
(* one.                                                                    *)
LEMMA PrepareEnters ==
    ASSUME DeployInv, NEW c \in Call, NEW p \in Project, NEW s \in {"queued", "failed"},
           Prepare(c, p, s), Torn' = Torn
    PROVE  History!Enter(c, p, s)
<1>1. DeployTypeOK
    BY DEF DeployInv
<1>2. projectOf[c] = Absent /\ record[c] = "none"
    BY PrepareFacts
<1>3. /\ SaveProject(c, p)
      /\ projectOf' = [projectOf EXCEPT ![c] = p]
      /\ record' = [record EXCEPT ![c] = s]
    BY DEF Prepare
<1>4. /\ p # Absent /\ p \in {q \in Project : Exists(q)} \cup (Project \ born)
      /\ {q \in Project : Exists(q)}' = {q \in Project : Exists(q)} \cup {p}
      /\ (Project \ born)' \subseteq (Project \ born) \ {p}
      /\ \A q \in Project : q # p => ShownBy(q)' = ShownBy(q)
      /\ ShownBy(p)' \in {ShownBy(p), NoCall}
      /\ ~Exists(p) => ShownBy(p)' = NoCall
    BY <1>3, SaveShows
<1>5. c \in {d \in Call : projectOf[d] = Absent}
    BY <1>2
<1>7. [d \in Call |-> ProjectIn(d)]' = [[d \in Call |-> ProjectIn(d)] EXCEPT ![c] = p]
    BY <1>1, <1>3 DEF ProjectIn, DeployTypeOK
<1>10. /\ [q \in Project |-> ShownBy(q)]'
             \in {[q \in Project |-> ShownBy(q)],
                  [[q \in Project |-> ShownBy(q)] EXCEPT ![p] = NoCall]}
       /\ p \notin {q \in Project : Exists(q)} => [q \in Project |-> ShownBy(q)]'[p] = NoCall
    <2> DEFINE before == [q \in Project |-> ShownBy(q)]
               after == [q \in Project |-> ShownBy(q)']
    <2>1. /\ after \in {before, [before EXCEPT ![p] = NoCall]}
          /\ p \notin {q \in Project : Exists(q)} => after[p] = NoCall
        BY <1>4
    <2> QED BY <2>1
<1>11. {d \in Call : projectOf[d] = Absent}' \subseteq {d \in Call : projectOf[d] = Absent} \ {c}
    BY <1>1, <1>3, <1>4 DEF DeployTypeOK
<1> QED BY <1>3, <1>4, <1>5, <1>7, <1>10, <1>11 DEF History!Enter

(* What does not touch statuses, ids and URLs is not seen. *)
LEMMA HistoryUnseen ==
    ASSUME record' = record, projectOf' = projectOf, born' = born, Torn' = Torn,
           \A p \in Project : Exists(p)' = Exists(p) /\ ShownBy(p)' = ShownBy(p)
    PROVE  UNCHANGED History!historyVars
<1>1. \A c \in Call : ProjectIn(c)' = ProjectIn(c)
    BY DEF ProjectIn
<1>2. /\ [c \in Call |-> ProjectIn(c)]' = [c \in Call |-> ProjectIn(c)]
      /\ {p \in Project : Exists(p)}' = {p \in Project : Exists(p)}
      /\ [p \in Project |-> ShownBy(p)]' = [p \in Project |-> ShownBy(p)]
      /\ {c \in Call : projectOf[c] = Absent}' = {c \in Call : projectOf[c] = Absent}
      /\ (Project \ born)' = Project \ born
      /\ Torn' = Torn
    BY <1>1
<1> QED BY <1>2 DEF History!historyVars

(* The first step of the task advances the deployment, unless its row has  *)
(* been deleted.                                                           *)
LEMMA StartAdvances ==
    ASSUME CoordinatorInv, DeployInv, NEW c \in Call, TaskStarts(c)
    PROVE  History!Advance(c, "running") \/ UNCHANGED History!historyVars
<1>1. DeployTypeOK
    BY DEF DeployInv
<1>2. /\ record' = Recorded(c, "running")
      /\ UNCHANGED <<projects, born, projectOf>>
      /\ Torn' = Torn
    BY DEF TaskStarts, deployVars, Torn
<1>3. \A p \in Project : Exists(p)' = Exists(p) /\ ShownBy(p)' = ShownBy(p)
    BY <1>2 DEF Exists, ShownBy
<1>4. CASE record[c] \in {"none", "running"}
    <2>1. record' = record
        BY <1>1, <1>2, <1>4 DEF Recorded, DeployTypeOK
    <2> QED BY <1>2, <1>3, <2>1, HistoryUnseen
<1>5. CASE record[c] \notin {"none", "running"}
    <2>1. stage[c] = "awaiting" /\ task[c] = "ready"
        BY DEF TaskStarts, FirstStep, CoordinatorInv, LiveIsRegistered, Live
    <2>2. record[c] = "queued"
        BY <1>5, <2>1 DEF DeployInv, RecordsFollowRuns
    <2>3. record' = [record EXCEPT ![c] = "running"]
        BY <1>2, <2>2 DEF Recorded
    <2>4. [d \in Call |-> ProjectIn(d)]' = [d \in Call |-> ProjectIn(d)]
        BY <1>1, <1>2, <2>2, <2>3 DEF ProjectIn, DeployTypeOK
    <2>5. /\ {p \in Project : Exists(p)}' = {p \in Project : Exists(p)}
          /\ [p \in Project |-> ShownBy(p)]' = [p \in Project |-> ShownBy(p)]
          /\ {d \in Call : projectOf[d] = Absent}' = {d \in Call : projectOf[d] = Absent}
          /\ (Project \ born)' = Project \ born
        BY <1>2, <1>3
    <2> QED BY <1>2, <2>2, <2>3, <2>4, <2>5 DEF History!Advance, History!Follows
<1> QED BY <1>4, <1>5

(* What deploy() writes at its end is a verdict and, with a success, the   *)
(* URL; nothing when the project has been deleted.                         *)
LEMMA ReturnConcludes ==
    ASSUME CoordinatorInv, DeployInv, NEW c \in Call, DeployReturns(c)
    PROVE  \/ \E v \in History!Final : History!Conclude(c, v)
           \/ UNCHANGED History!historyVars
<1>1. DeployTypeOK
    BY DEF DeployInv
<1>2. /\ record' = Recorded(c, Verdict(result'[c]))
      /\ projects' = IF result'[c] = "ok" THEN Rewritten(projectOf[c], RowAfterSuccess(c))
                     ELSE projects
      /\ UNCHANGED <<born, projectOf>>
      /\ stage[c] = "awaiting" /\ task[c] = "done" /\ Torn' = Torn
    BY DEF DeployReturns, Resume, deployVars, Torn
<1>3. /\ phase[c] = "run"
      /\ projectOf[c] \in Project
      /\ record[c] # "none" <=> Exists(projectOf[c])
    BY <1>1, <1>2 DEF DeployInv, CallLinks, HistoryBelongsToProjects, DeployTypeOK
<1>4. CASE record[c] = "none"
    <2>1. record' = record /\ projects' = projects
        BY <1>2, <1>3, <1>4 DEF Recorded, Rewritten
    <2> QED BY <1>2, <2>1, HistoryUnseen DEF Exists, ShownBy
<1>5. CASE record[c] # "none"
    <2> PICK v : v = Verdict(result'[c])
        OBVIOUS
    <2> PICK p \in Project : p = projectOf[c]
        BY <1>3
    <2>1. record[c] \in {"queued", "running"}
        BY <1>2, <1>5 DEF DeployInv, RecordsFollowRuns
    <2>2. v \in History!Final /\ (v = "successful" <=> result'[c] = "ok")
        BY DEF Verdict, History!Final
    <2>3. record' = [record EXCEPT ![c] = v]
        BY <1>2, <1>5 DEF Recorded
    <2>4. [d \in Call |-> ProjectIn(d)]' = [d \in Call |-> ProjectIn(d)]
        BY <1>1, <1>2, <1>5, <2>2, <2>3 DEF ProjectIn, DeployTypeOK, History!Final
    <2>5. [d \in Call |-> ProjectIn(d)][c] = p
        BY <1>5 DEF ProjectIn
    <2>6. Exists(p)
        BY <1>3, <1>5
    <2>7. RowAfterSuccess(c) # Absent /\ RowAfterSuccess(c).live = c
        <3>1. request[c] \in Request
            BY <1>1, <1>3 DEF DeployInv, CallLinks, DeployTypeOK
        <3>2. RowAfterSuccess(c) \in Row
            BY <1>1, <3>1 DEF RowAfterSuccess, Row, Request, DeployTypeOK
        <3> QED BY <3>2, AbsentAssumption DEF RowAfterSuccess
    <2>8. /\ \A q \in Project : Exists(q)' = Exists(q)
          /\ \A q \in Project : q # p => ShownBy(q)' = ShownBy(q)
          /\ ShownBy(p)' = IF v = "successful" THEN c ELSE ShownBy(p)
        <3>1. CASE result'[c] = "ok"
            <4>1. projects' = [projects EXCEPT ![p] = RowAfterSuccess(c)]
                BY <1>2, <2>6, <3>1 DEF Rewritten
            <4>2. \A q \in Project :
                      projects'[q] = IF q = p THEN RowAfterSuccess(c) ELSE projects[q]
                BY <1>1, <4>1 DEF DeployTypeOK
            <4>3. v = "successful"
                BY <2>2, <3>1
            <4> QED BY <1>3, <2>6, <2>7, <4>2, <4>3 DEF Exists, ShownBy
        <3>2. CASE result'[c] # "ok"
            BY <1>2, <2>2, <3>2 DEF Exists, ShownBy
        <3> QED BY <3>1, <3>2
    <2>9. /\ {q \in Project : Exists(q)}' = {q \in Project : Exists(q)}
          /\ {d \in Call : projectOf[d] = Absent}' = {d \in Call : projectOf[d] = Absent}
          /\ (Project \ born)' = Project \ born
        BY <1>2, <2>8
    <2>10. [q \in Project |-> ShownBy(q)]'
               = IF v = "successful" THEN [[q \in Project |-> ShownBy(q)] EXCEPT ![p] = c]
                 ELSE [q \in Project |-> ShownBy(q)]
        <3> DEFINE before == [q \in Project |-> ShownBy(q)]
                   after == [q \in Project |-> ShownBy(q)']
        <3>1. CASE v = "successful"
            <4>1. \A q \in Project : ShownBy(q)' = IF q = p THEN c ELSE ShownBy(q)
                BY <2>8, <3>1
            <4>2. after = [before EXCEPT ![p] = c]
                BY <4>1
            <4> QED BY <3>1, <4>2
        <3>2. CASE v # "successful"
            <4>1. \A q \in Project : ShownBy(q)' = ShownBy(q)
                BY <2>8, <3>2
            <4>2. after = before
                BY <4>1
            <4> QED BY <3>2, <4>2
        <3> QED BY <3>1, <3>2
    <2>11. History!Conclude(c, v)
        BY <1>2, <1>3, <2>1, <2>2, <2>3, <2>4, <2>5, <2>9, <2>10
           DEF Torn, History!Conclude, History!Unfinished
    <2> QED BY <2>2, <2>11
<1> QED BY <1>4, <1>5

(* The end of delete_project takes the project and its history, if another *)
(* deletion has not done so before.                                        *)
LEMMA DeletionDeletes ==
    ASSUME DeployInv, NEW d \in Deletion, EndDelete(d)
    PROVE  \/ \E p \in Project : History!Delete(p)
           \/ UNCHANGED History!historyVars
<1>1. DeployTypeOK
    BY DEF DeployInv
<1>2. deletion[d] \in Cleanup
    BY <1>1 DEF EndDelete, DeployTypeOK
<1>3. PICK p \in Project : p = deletion[d].project
    BY <1>2 DEF Cleanup
<1>4. /\ record' = HistoryWithout(p)
      /\ projects' = [projects EXCEPT ![p] = Absent]
      /\ UNCHANGED <<born, projectOf>>
      /\ Torn' = Torn
    BY <1>3 DEF EndDelete, deployVars, Torn
<1>5. p # Absent
    BY AbsentAssumption
<1>6. /\ \A q \in Project : q # p => Exists(q)' = Exists(q) /\ ShownBy(q)' = ShownBy(q)
      /\ Exists(p)' = FALSE /\ ShownBy(p)' = NoCall
    BY <1>1, <1>4 DEF Exists, ShownBy, DeployTypeOK
<1>7. CASE Exists(p)
    <2>1. \A c \in Call : ProjectIn(c) = p => projectOf[c] = p
        BY <1>5 DEF ProjectIn
    <2>2. \A c \in Call : /\ record'[c] = IF ProjectIn(c) = p THEN "none" ELSE record[c]
                          /\ ProjectIn(c)' = IF ProjectIn(c) = p THEN Absent ELSE ProjectIn(c)
        BY <1>1, <1>4 DEF ProjectIn, HistoryWithout, DeployTypeOK
    <2>3. record' = [c \in Call |-> IF [e \in Call |-> ProjectIn(e)][c] = p THEN "none"
                                    ELSE record[c]]
        <3>1. record' = [c \in Call |-> record'[c]]
            BY <1>4 DEF HistoryWithout
        <3> QED BY <2>2, <3>1
    <2>4. [c \in Call |-> ProjectIn(c)]'
              = [c \in Call |-> IF [e \in Call |-> ProjectIn(e)][c] = p THEN Absent
                                ELSE [e \in Call |-> ProjectIn(e)][c]]
        BY <2>2
    <2>5. [q \in Project |-> ShownBy(q)]' = [[q \in Project |-> ShownBy(q)] EXCEPT ![p] = NoCall]
        BY <1>6
    <2>6. {q \in Project : Exists(q)}' = {q \in Project : Exists(q)} \ {p}
        BY <1>6
    <2>7. /\ {c \in Call : projectOf[c] = Absent}' = {c \in Call : projectOf[c] = Absent}
          /\ (Project \ born)' = Project \ born
        BY <1>4
    <2> QED BY <1>4, <1>7, <2>3, <2>4, <2>5, <2>6, <2>7 DEF History!Delete
<1>8. CASE ~Exists(p)
    <2>1. projects' = projects
        BY <1>1, <1>4, <1>8 DEF Exists, DeployTypeOK
    <2>2. \A c \in Call : projectOf[c] = p => record[c] = "none"
        BY <1>5, <1>8 DEF DeployInv, CallLinks, HistoryBelongsToProjects
    <2>3. record' = record
        BY <1>1, <1>4, <2>2 DEF HistoryWithout, DeployTypeOK
    <2> QED BY <1>4, <2>1, <2>3, HistoryUnseen DEF Exists, ShownBy
<1> QED BY <1>7, <1>8

(* Nothing else shows in the tables: the switch is no part of the promise. *)
LEMMA OthersUnseen ==
    ASSUME DeployInv,
           \/ \E c \in Call, u \in User, r \in Repo, k \in Kind : Begin(c, u, r, k)
           \/ \E c \in Call : \/ Cloned(c) \/ AnalysisFails(c)
                              \/ TaskCancelledEarly(c) \/ TaskEnds(c)
           \/ \E u \in User : CancelCurrent(u)
           \/ \E u \in User, p \in Project, on \in BOOLEAN : SetAutoDeploy(u, p, on)
           \/ \E d \in Deletion, u \in User, p \in Project : BeginDelete(d, u, p)
           \/ \E r \in Repo : Push(r)
           \/ UNCHANGED serviceVars
    PROVE  UNCHANGED History!historyVars
<1>1. record' = record /\ projectOf' = projectOf /\ born' = born
    BY DEF Begin, Cloned, AnalysisFails, TaskCancelledEarly, TaskEnds, CancelCurrent,
           SetAutoDeploy, BeginDelete, Push, serviceVars, deployVars, tableVars
<1>3. Torn' = Torn
    <2>1. ASSUME NEW c \in Call,
                 \/ \E u \in User, r \in Repo, k \in Kind : Begin(c, u, r, k)
                 \/ Cloned(c) \/ AnalysisFails(c)
          PROVE  Torn' = Torn
        BY <2>1 DEF Begin, Cloned, AnalysisFails, Torn, DeployInv, DeployTypeOK
    <2>2. CASE phase' = phase
        BY <2>2 DEF Torn
    <2> QED BY <2>1, <2>2 DEF TaskCancelledEarly, TaskEnds, CancelCurrent, SetAutoDeploy,
            BeginDelete, Push, serviceVars, deployVars
<1>2. \A p \in Project : Exists(p)' = Exists(p) /\ ShownBy(p)' = ShownBy(p)
    <2>1. ASSUME NEW u \in User, NEW p \in Project, NEW on \in BOOLEAN, SetAutoDeploy(u, p, on)
          PROVE  \A q \in Project : Exists(q)' = Exists(q) /\ ShownBy(q)' = ShownBy(q)
        <3>1. projects \in [Project -> Row \cup {Absent}]
            BY DEF DeployInv, DeployTypeOK
        <3>2. projects[p] \in Row
            BY <2>1, <3>1 DEF SetAutoDeploy, Exists
        <3>3. \E t \in Sha : projects' = [projects EXCEPT
                                  ![p] = [projects[p] EXCEPT !.auto = on, !.triggered = t]]
            BY <2>1, <3>1, <3>2 DEF SetAutoDeploy, Row
        <3>4. \A t \in Sha :
                  /\ [projects[p] EXCEPT !.auto = on, !.triggered = t] \in Row
                  /\ [projects[p] EXCEPT !.auto = on, !.triggered = t].live = projects[p].live
            BY <3>2 DEF Row
        <3>5. /\ projects'[p] \in Row /\ projects'[p].live = projects[p].live
              /\ \A q \in Project : q # p => projects'[q] = projects[q]
            BY <3>1, <3>3, <3>4
        <3> QED BY <3>2, <3>5, AbsentAssumption DEF Exists, ShownBy
    <2>2. CASE projects' = projects
        BY <2>2 DEF Exists, ShownBy
    <2> QED BY <2>1, <2>2 DEF Begin, Cloned, AnalysisFails, TaskCancelledEarly, TaskEnds,
            CancelCurrent, BeginDelete, Push, serviceVars, tableVars
<1> QED BY <1>1, <1>2, <1>3, HistoryUnseen

(* A death leaves of a step what was committed: a project without a        *)
(* deployment or a URL taken away, a deployment that was being started, or *)
(* a deployment torn in two.                                               *)
LEMMA DeathShows ==
    ASSUME CoordinatorInv, DeployInv, ServiceRestart
    PROVE  History!HistoryNext \/ UNCHANGED History!historyVars
<1> USE DEF History!HistoryNext
<1>1. DeployTypeOK /\ projectOf' = projectOf
    BY DEF DeployInv, ServiceRestart
<1>2. ASSUME phase' = PhaseAfterDeath({})
      PROVE  Torn' = Torn
    <2>1. \A c \in Call : phase'[c] = "torn" <=> phase[c] = "torn"
        BY <1>2 DEF PhaseAfterDeath
    <2> QED BY <2>1 DEF Torn
<1>3. CASE UNCHANGED tableVars /\ phase' = PhaseAfterDeath({})
    BY <1>1, <1>2, <1>3, HistoryUnseen DEF tableVars, Exists, ShownBy
<1>4. ASSUME NEW c \in Call, TornStart(c), phase' = PhaseAfterDeath({})
      PROVE  History!HistoryNext \/ UNCHANGED History!historyVars
    <2>1. /\ record' = Recorded(c, "planning") /\ projects' = projects /\ born' = born
          /\ stage[c] = "awaiting" /\ task[c] = "ready"
        BY <1>4 DEF TornStart, CoordinatorInv, LiveIsRegistered, Live
    <2>2. \A p \in Project : Exists(p)' = Exists(p) /\ ShownBy(p)' = ShownBy(p)
        BY <2>1 DEF Exists, ShownBy
    <2>3. CASE record[c] = "none"
        BY <1>1, <1>2, <1>4, <2>1, <2>2, <2>3, HistoryUnseen DEF Recorded
    <2>4. CASE record[c] # "none"
        <3>1. record[c] = "queued"
            BY <2>1, <2>4 DEF DeployInv, RecordsFollowRuns
        <3>2. record' = [record EXCEPT ![c] = "planning"]
            BY <2>1, <2>4 DEF Recorded
        <3>3. [d \in Call |-> ProjectIn(d)]' = [d \in Call |-> ProjectIn(d)]
            BY <1>1, <3>1, <3>2 DEF ProjectIn, DeployTypeOK
        <3>4. /\ {p \in Project : Exists(p)}' = {p \in Project : Exists(p)}
              /\ [p \in Project |-> ShownBy(p)]' = [p \in Project |-> ShownBy(p)]
              /\ {d \in Call : projectOf[d] = Absent}' = {d \in Call : projectOf[d] = Absent}
              /\ (Project \ born)' = Project \ born
            BY <1>1, <2>1, <2>2
        <3>5. History!Advance(c, "planning")
            BY <1>2, <1>4, <3>1, <3>2, <3>3, <3>4 DEF History!Advance, History!Follows
        <3> QED BY <3>5 DEF History!Unfinished
    <2> QED BY <2>3, <2>4
<1>5. ASSUME NEW c \in Call, NEW p \in Project, TornPreparation(c, p),
             phase' = PhaseAfterDeath({})
      PROVE  History!HistoryNext \/ UNCHANGED History!historyVars
    <2>1. SaveProject(c, p) /\ record' = record /\ born' = born \cup {p}
        BY <1>5 DEF TornPreparation, SaveProject
    <2>2. /\ p \in {q \in Project : Exists(q)} \cup (Project \ born)
          /\ {q \in Project : Exists(q)}' = {q \in Project : Exists(q)} \cup {p}
          /\ (Project \ born)' \subseteq (Project \ born) \ {p}
          /\ \A q \in Project : q # p => ShownBy(q)' = ShownBy(q)
          /\ ShownBy(p)' \in {ShownBy(p), NoCall}
          /\ ~Exists(p) => ShownBy(p)' = NoCall
        BY <2>1, SaveShows
    <2>3. /\ [d \in Call |-> ProjectIn(d)]' = [d \in Call |-> ProjectIn(d)]
          /\ {d \in Call : projectOf[d] = Absent}' = {d \in Call : projectOf[d] = Absent}
        BY <1>1, <2>1 DEF ProjectIn
    <2>4. CASE ~Exists(p)
        <3>1. ShownBy(p) = NoCall
            BY <2>4 DEF ShownBy
        <3>2. [q \in Project |-> ShownBy(q)]' = [q \in Project |-> ShownBy(q)]
            BY <2>2, <2>4, <3>1
        <3>3. History!Create(p)
            BY <1>2, <1>5, <2>1, <2>2, <2>3, <2>4, <3>2 DEF History!Create
        <3> QED BY <3>3
    <2>5. CASE Exists(p)
        <3>1. /\ p \in {q \in Project : Exists(q)}
              /\ {q \in Project : Exists(q)}' = {q \in Project : Exists(q)}
              /\ born' = born
            BY <2>1, <2>2, <2>5 DEF DeployInv, IdsAreBorn
        <3>2. CASE ShownBy(p)' = ShownBy(p)
            <4>1. [q \in Project |-> ShownBy(q)]' = [q \in Project |-> ShownBy(q)]
                BY <2>2, <3>2
            <4>2. (Project \ born)' = Project \ born
                BY <3>1
            <4> QED BY <1>2, <1>5, <2>1, <2>3, <3>1, <4>1, <4>2 DEF History!historyVars
        <3>3. CASE ShownBy(p)' = NoCall
            <4>1. [q \in Project |-> ShownBy(q)]'
                      = [[q \in Project |-> ShownBy(q)] EXCEPT ![p] = NoCall]
                BY <2>2, <3>3
            <4>2. (Project \ born)' = Project \ born
                BY <3>1
            <4>3. History!Restore(p, NoCall)
                BY <1>2, <1>5, <2>1, <2>3, <3>1, <4>1, <4>2 DEF History!Restore
            <4> QED BY <4>3
        <3> QED BY <2>2, <3>2, <3>3
    <2> QED BY <2>4, <2>5
<1>6. ASSUME NEW c \in Call, TornReturn(c), phase' = PhaseAfterDeath({c})
      PROVE  History!HistoryNext
    <2>1. /\ stage[c] = "awaiting" /\ Exists(projectOf[c])
          /\ projects' = Rewritten(projectOf[c], RowAfterSuccess(c))
          /\ born' = born /\ record' = record
        BY <1>6 DEF TornReturn
    <2>2. /\ projectOf[c] \in Project /\ phase[c] = "run" /\ RowAfterSuccess(c) # Absent
          /\ RowAfterSuccess(c).live = c
        BY <2>1, RowsSaved DEF RowAfterSuccess
    <2> PICK p \in Project : p = projectOf[c]
        BY <2>2
    <2>3. record[c] # "none"
        BY <2>1, <2>2 DEF DeployInv, HistoryBelongsToProjects
    <2>4. record[c] \in {"queued", "planning", "running"}
        BY <2>1, <2>3 DEF DeployInv, RecordsFollowRuns
    <2>5. \A q \in Project :
              projects'[q] = IF q = p THEN RowAfterSuccess(c) ELSE projects[q]
        BY <1>1, <2>1 DEF Rewritten, DeployTypeOK
    <2>6. \A q \in Project : /\ Exists(q)' = Exists(q)
                             /\ ShownBy(q)' = IF q = p THEN c ELSE ShownBy(q)
        BY <2>1, <2>2, <2>5 DEF Exists, ShownBy
    <2>7. [d \in Call |-> ProjectIn(d)][c] = p
        BY <2>3 DEF ProjectIn
    <2>8. /\ [d \in Call |-> ProjectIn(d)]' = [d \in Call |-> ProjectIn(d)]
          /\ {q \in Project : Exists(q)}' = {q \in Project : Exists(q)}
          /\ [q \in Project |-> ShownBy(q)]' = [[q \in Project |-> ShownBy(q)] EXCEPT ![p] = c]
          /\ {d \in Call : projectOf[d] = Absent}' = {d \in Call : projectOf[d] = Absent}
          /\ (Project \ born)' = Project \ born
        BY <1>1, <2>1, <2>6 DEF ProjectIn
    <2>9. Torn' = Torn \cup {c}
        BY <1>1, <1>6 DEF Torn, PhaseAfterDeath, DeployTypeOK
    <2>10. History!Tear(c)
        BY <2>1, <2>4, <2>7, <2>8, <2>9 DEF History!Tear, History!Unfinished
    <2> QED BY <2>10
<1> HIDE DEF History!HistoryNext
<1> QED BY <1>3, <1>4, <1>5, <1>6 DEF ServiceRestart

(* Every step of the service is a step of DeploymentHistory, or unseen.    *)
LEMMA StepKeepsPromise ==
    ASSUME CoordinatorInv, DeployInv, [DeployNext]_serviceVars
    PROVE  [History!HistoryNext]_History!historyVars
<1> USE DEF History!HistoryNext
<1>5. DeployTypeOK
    BY DEF DeployInv
<1>1. ASSUME NEW c \in Call, NEW p \in Project,
             Admit(c, p) \/ Reject(c, p) \/ CredentialsUnreadable(c, p)
      PROVE  History!HistoryNext
    <2>0. Torn' = Torn
        BY <1>1, <1>5 DEF Admit, Reject, CredentialsUnreadable, Prepare, SaveProject, Torn,
                          DeployTypeOK
    <2>1. \E s \in {"queued", "failed"} : History!Enter(c, p, s)
        BY <1>1, <2>0, PrepareEnters DEF Admit, Reject, CredentialsUnreadable
    <2> QED BY <2>1
<1>2. ASSUME NEW c \in Call, TaskStarts(c)
      PROVE  [History!HistoryNext]_History!historyVars
    BY <1>2, StartAdvances DEF History!Unfinished
<1>3. ASSUME NEW c \in Call, DeployReturns(c)
      PROVE  [History!HistoryNext]_History!historyVars
    BY <1>3, ReturnConcludes
<1>4. ASSUME NEW d \in Deletion, EndDelete(d)
      PROVE  [History!HistoryNext]_History!historyVars
    BY <1>4, DeletionDeletes
<1> HIDE DEF History!HistoryNext
<1> QED BY <1>1, <1>2, <1>3, <1>4, <1>5, ServiceCases, OthersUnseen, DeathShows

(* deploy(), deploy_existing(), set_auto_deploy() and delete_project()     *)
(* together keep the promise of DeploymentHistory on SQLite.               *)
THEOREM ServiceImplementsHistory == DeploySafety => ImplementsHistory
<1>1. DeployInit => History!HistoryInit
    BY HistoryStarts
<1>2. CoordinatorInv /\ DeployInv /\ [DeployNext]_serviceVars
          => [History!HistoryNext]_History!historyVars
    BY StepKeepsPromise
<1> QED BY <1>1, <1>2, ServiceInvariant, PTL
        DEF DeploySafety, ImplementsHistory, History!HistorySpec
=============================================================================
