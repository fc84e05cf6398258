------------------------- MODULE DeployTransactions -------------------------
(***************************************************************************)
(* application/use_cases/deploy.py on PostgreSQL, as in production: the    *)
(* same use cases as in DeployService, but every query suspends its        *)
(* coroutine, and a session's writes are seen by others when it commits.   *)
(* One step is one statement, or one commit.                               *)
(*                                                                         *)
(* The tables are seen through one user's one repository.  Its branch and  *)
(* its owner are the unique key of `projects`, so the table has one row at *)
(* most, and all writes to it wait for one another.  uuid4() gives the     *)
(* project that call c inserts the id c.                                   *)
(***************************************************************************)
EXTENDS Coordinator

CONSTANTS
    Kind,      \* DeploymentTarget
    Other,     \* sessions of delete_project, set_auto_deploy or the worker's
               \* check, one after the other
    Absent,    \* no row, no entity
    NoSession  \* nobody has written without committing

Session == Call \cup Other
Row == [id : Call, kind : Kind, live : Call \cup {NoCall}, auto : BOOLEAN]

ASSUME TransactionsAssumption ==
    /\ User # {}
    /\ Kind \X Call \subseteq Key
    /\ Call \cap Other = {}
    /\ NoSession \notin Session
    /\ Absent \notin Row

VARIABLES
    at,        \* at[s]: the statement, or the wait, session s is before
    kindOf,    \* kindOf[c]: the target asked of c
    held,      \* held[s]: the Project entity the use case holds
    read,      \* read[s]: the row update() has SELECTed again
    spoiled,   \* the calls whose session can only be rolled back
    record,    \* record[c]: the committed status of c's row of deployments
    table,     \* the committed row of projects
    writer,    \* the session whose write holds the lock of that row
    written    \* what it has written

sessionVars == <<kindOf, held, read, spoiled>>
dbVars == <<record, table, writer, written>>
transactionVars == <<at, kindOf, held, read, spoiled, record, table, writer, written,
                     stage, result, userOf, keyOf, interrupted,
                     task, outcome, cancelling, userTasks, targetTasks>>

Owner == CHOOSE u \in User : TRUE

Unfinished == {"queued", "planning", "running"}
Final == {"successful", "failed", "cancelled"}

(* Waiting for something other than the database. *)
Elsewhere == {"idle", "analyzing", "cleaning", "run", "over", "lost"}
Statement == {"lookup", "insert", "redirect_read", "redirect", "record", "load", "planning",
              "running", "save_read", "save", "finish", "delete", "edit_read", "edit", "commit"}

TransactionsTypeOK ==
    /\ CoordinatorTypeOK
    /\ at \in [Session -> Elsewhere \cup Statement]
    /\ kindOf \in [Call -> Kind \cup {Absent}]
    /\ held \in [Session -> Row \cup {Absent}]
    /\ read \in [Session -> Row \cup {Absent}]
    /\ spoiled \in SUBSET Call
    /\ record \in [Call -> {"none"} \cup Unfinished \cup Final]
    /\ table \in Row \cup {Absent}
    /\ writer \in Session \cup {NoSession}
    /\ written \in Row \cup {Absent}

TransactionsInit ==
    /\ CoordinatorInit
    /\ at = [s \in Session |-> "idle"]
    /\ kindOf = [c \in Call |-> Absent]
    /\ held = [s \in Session |-> Absent]
    /\ read = [s \in Session |-> Absent]
    /\ spoiled = {}
    /\ record = [c \in Call |-> "none"]
    /\ table = Absent
    /\ writer = NoSession
    /\ written = Absent
----------------------------------------------------------------------------
(* READ COMMITTED, and the unit of work.                                   *)

Goto(s, place) == at' = [at EXCEPT ![s] = place]

Committed(s) == table # Absent /\ table.id = held[s].id
Deleting(s) == writer \notin {s, NoSession} /\ written = Absent

(* SELECT, by session.get: what is committed, also while it is being       *)
(* changed.  Without a row update() raises LookupError.                    *)
Select(s, found, missing) ==
    /\ read' = [read EXCEPT ![s] = IF Committed(s) THEN table ELSE Absent]
    /\ Goto(s, IF Committed(s) THEN found ELSE missing)
    /\ UNCHANGED <<kindOf, held, spoiled, dbVars>>

(* UPDATE names the columns in which the entity differs from what was      *)
(* SELECTed; the others keep what has been committed since.                *)
Merged(current, seen, new) ==
    [column \in {"id", "kind", "live", "auto"} |->
         IF new[column] # seen[column] THEN new[column] ELSE current[column]]

(* Mutant: the UPDATE of a row inserts it when it is gone. *)
FlushUpserts(s, done, failed) ==
    /\ Goto(s, done)
    /\ writer = NoSession /\ writer' = s
    /\ written' = IF Committed(s) THEN Merged(table, read[s], held[s]) ELSE held[s]
    /\ UNCHANGED <<sessionVars, record, table>>

(* flush(): nothing to say, no statement; no row, StaleDataError and a     *)
(* session that is of no use; else the row is locked and written.          *)
Flush(s, done, failed) ==
    IF held[s] = read[s]
    THEN Goto(s, done) /\ UNCHANGED <<sessionVars, dbVars>>
    ELSE /\ writer = NoSession
         /\ IF Committed(s)
            THEN /\ Goto(s, done)
                 /\ writer' = s
                 /\ written' = Merged(table, read[s], held[s])
                 /\ UNCHANGED <<sessionVars, record, table>>
            ELSE /\ Goto(s, failed)
                 /\ spoiled' = spoiled \cup (Call \cap {s})
                 /\ UNCHANGED <<kindOf, held, read, dbVars>>

(* Mutant: a repository that flushes where it should commit. *)
CommitFlushes(s) == UNCHANGED <<table, writer, written>>

(* COMMIT: everyone sees what s has written. *)
Commit(s) ==
    IF writer = s
    THEN table' = written /\ writer' = NoSession /\ written' = Absent
    ELSE UNCHANGED <<table, writer, written>>

(* Mutant: a session waits for its own writes, too. *)
CascadeBlocksSelf(c) == writer # NoSession /\ Committed(c)

(* A pending DELETE of the project has locked its rows of `deployments`,   *)
(* and a new one of that project waits for it as well.                     *)
CascadeBlocks(c) == Deleting(c) /\ Committed(c)
----------------------------------------------------------------------------
(* deploy() as far as coordinator.run.  It raises in "over".               *)

Begin(c, k) ==
    /\ at[c] = "idle"
    /\ Goto(c, "analyzing")
    /\ kindOf' = [kindOf EXCEPT ![c] = k]
    /\ UNCHANGED <<held, read, spoiled, dbVars, coordinatorVars>>

Analyzed(c) ==
    /\ at[c] = "analyzing"
    /\ Goto(c, "lookup") \/ Goto(c, "over")
    /\ UNCHANGED <<sessionVars, dbVars, coordinatorVars>>

(* Mutant: the URL of the old target survives a change of target. *)
EntityKeepsUrl(c) ==
    IF table = Absent THEN [id |-> c, kind |-> kindOf[c], live |-> NoCall, auto |-> FALSE]
    ELSE [table EXCEPT !.kind = kindOf[c]]

(* The Project that deploy() goes on with. *)
Entity(c) ==
    IF table = Absent THEN [id |-> c, kind |-> kindOf[c], live |-> NoCall, auto |-> FALSE]
    ELSE IF table.kind = kindOf[c] THEN table
    ELSE [table EXCEPT !.kind = kindOf[c], !.live = NoCall]

(* get_by_repo(). *)
Lookup(c) ==
    /\ at[c] = "lookup"
    /\ held' = [held EXCEPT ![c] = Entity(c)]
    /\ Goto(c, IF table = Absent THEN "insert"
               ELSE IF table.kind = kindOf[c] THEN "record" ELSE "redirect_read")
    /\ UNCHANGED <<kindOf, read, spoiled, dbVars, coordinatorVars>>

(* projects.add(): IntegrityError when another session was faster. *)
Insert(c) ==
    /\ at[c] = "insert"
    /\ writer = NoSession
    /\ IF table = Absent
       THEN Goto(c, "record") /\ writer' = c /\ written' = held[c]
       ELSE Goto(c, "over") /\ UNCHANGED <<writer, written>>
    /\ UNCHANGED <<sessionVars, record, table, coordinatorVars>>

Redirect(c) ==
    /\ \/ at[c] = "redirect_read" /\ Select(c, "redirect", "over")
       \/ at[c] = "redirect" /\ Flush(c, "record", "over")
    /\ UNCHANGED coordinatorVars

HasProject(c) == Committed(c) \/ writer = c

(* deployments.add(), which commits the project, too.  The foreign key     *)
(* refuses a deployment whose project is gone.                             *)
Record(c) ==
    /\ at[c] = "record"
    /\ ~CascadeBlocks(c)
    /\ IF HasProject(c)
       THEN Goto(c, "load") /\ record' = [record EXCEPT ![c] = "queued"] /\ Commit(c)
       ELSE Goto(c, "over") /\ UNCHANGED dbVars
    /\ read' = [read EXCEPT ![c] = Absent]
    /\ UNCHANGED <<kindOf, held, spoiled, coordinatorVars>>

TargetKey(c) == <<kindOf[c], held[c].id>>

(* load_all() and coordinator.run; a load_all() that cannot decrypt raises *)
(* past every except clause.                                               *)
Load(c) ==
    /\ at[c] = "load"
    /\ \/ Goto(c, "over") /\ UNCHANGED coordinatorVars
       \/ Goto(c, "run") /\ RunAdmitted(c, Owner, TargetKey(c))
       \/ Goto(c, "finish") /\ RunRejected(c, Owner, TargetKey(c))
    /\ UNCHANGED <<sessionVars, dbVars>>
----------------------------------------------------------------------------
(* execute(): the statuses Planning and Running, each with a COMMIT of its *)
(* own, and the executor.                                                  *)

TaskStarts(c) ==
    /\ FirstStep(c)
    /\ Goto(c, "planning")
    /\ UNCHANGED <<sessionVars, dbVars>>

TaskCancelledEarly(c) ==
    /\ EndsBeforeStart(c)
    /\ UNCHANGED <<at, sessionVars, dbVars>>

(* deployments.update() in the task: LookupError when the row is gone. *)
Progress(c) ==
    /\ at[c] \in {"planning", "running"}
    /\ c \notin cancelling
    /\ IF record[c] = "none"
       THEN /\ Goto(c, "run")
            /\ Finish(c) /\ outcome'[c] = "error"
            /\ UNCHANGED record
       ELSE /\ ~CascadeBlocks(c)
            /\ Goto(c, IF at[c] = "planning" THEN "running" ELSE "run")
            /\ record' = [record EXCEPT ![c] = at[c]]
            /\ UNCHANGED coordinatorVars
    /\ UNCHANGED <<sessionVars, table, writer, written>>

(* The cancellation is thrown into the query, which may have been carried  *)
(* out, and may cost the session its connection.                           *)
CutShort(c) ==
    /\ at[c] \in {"planning", "running"}
    /\ c \in cancelling
    /\ Goto(c, "run")
    /\ Finish(c) /\ outcome'[c] = "cancelled"
    /\ spoiled' \in {spoiled, spoiled \cup {c}}
    /\ \/ record[c] # "none" /\ ~CascadeBlocks(c) /\ record' = [record EXCEPT ![c] = at[c]]
       \/ UNCHANGED record
    /\ UNCHANGED <<kindOf, held, read, table, writer, written>>

ExecutorEnds(c) ==
    /\ at[c] = "run"
    /\ Finish(c)
    /\ UNCHANGED <<at, sessionVars, dbVars>>
----------------------------------------------------------------------------
(* coordinator.run has returned or raised. *)
DeployResumes(c) ==
    /\ at[c] = "run"
    /\ Resume(c)
    /\ IF result'[c] = "ok"
       THEN Goto(c, "save_read") /\ held' = [held EXCEPT ![c].live = c]
       ELSE Goto(c, "finish") /\ UNCHANGED held
    /\ UNCHANGED <<kindOf, read, spoiled, dbVars>>

(* Mutant: projects.update() commits by itself. *)
SaveCommits(c) ==
    /\ \/ at[c] = "save_read" /\ Select(c, "save", "finish")
       \/ /\ at[c] = "save" /\ Goto(c, "finish") /\ writer = NoSession
          /\ table' = IF Committed(c) THEN Merged(table, read[c], held[c]) ELSE table
          /\ UNCHANGED <<sessionVars, record, writer, written>>
    /\ UNCHANGED coordinatorVars

(* projects.update() with the result.  If it fails the project is gone,    *)
(* and its deployments with it.                                            *)
Save(c) ==
    /\ \/ at[c] = "save_read" /\ Select(c, "save", "finish")
       \/ at[c] = "save" /\ Flush(c, "finish", "finish")
    /\ UNCHANGED coordinatorVars

(* The except clauses of deploy(). *)
Verdict(r) == CASE r = "ok" -> "successful"
                [] r = "cancelled" -> "cancelled"
                [] OTHER -> "failed"

(* Mutant: no except clause takes CancelledError. *)
GetsVerdictUnlessCancelled(c) ==
    record[c] # "none" /\ c \notin spoiled /\ result[c] # "cancelled"

(* The row is there, and the session can write it. *)
GetsVerdict(c) == record[c] # "none" /\ c \notin spoiled

(* The last deployments.update(), which commits both rows, or raises. *)
Conclude(c) ==
    /\ at[c] = "finish"
    /\ Goto(c, "over")
    /\ read' = [read EXCEPT ![c] = Absent]
    /\ IF GetsVerdict(c)
       THEN /\ ~CascadeBlocks(c)
            /\ record' = [record EXCEPT ![c] = Verdict(result[c])]
            /\ Commit(c)
       ELSE UNCHANGED dbVars
    /\ UNCHANGED <<kindOf, held, spoiled, coordinatorVars>>

CancelCurrent ==
    /\ CancelForUser(Owner)
    /\ UNCHANGED <<at, sessionVars, dbVars>>
----------------------------------------------------------------------------
(* The other use cases that write the row.                                 *)

BeginDelete(d) ==
    /\ at[d] = "idle" /\ table # Absent
    /\ Goto(d, "cleaning")
    /\ held' = [held EXCEPT ![d] = table]
    /\ UNCHANGED <<kindOf, read, spoiled, dbVars, coordinatorVars>>

Cleaned(d) ==
    /\ at[d] = "cleaning"
    /\ Goto(d, "delete")
    /\ UNCHANGED <<sessionVars, dbVars, coordinatorVars>>

(* projects.delete() *)
DeleteRow(d) ==
    /\ at[d] = "delete"
    /\ writer = NoSession
    /\ Goto(d, "commit")
    /\ writer' = IF Committed(d) THEN d ELSE NoSession
    /\ UNCHANGED <<sessionVars, record, table, written, coordinatorVars>>

(* The switch is turned; or the worker stores a commit, which is another   *)
(* column of the same row.                                                 *)
BeginEdit(e) ==
    /\ at[e] = "idle" /\ table # Absent
    /\ Goto(e, "edit_read")
    /\ held' = [held EXCEPT ![e] = [table EXCEPT !.auto = ~@]]
    /\ UNCHANGED <<kindOf, read, spoiled, dbVars, coordinatorVars>>

Edit(e) ==
    /\ \/ at[e] = "edit_read" /\ Select(e, "edit", "idle")
       \/ at[e] = "edit" /\ Flush(e, "commit", "idle")
    /\ UNCHANGED coordinatorVars

(* session_scope() commits; ON DELETE CASCADE takes the history along. *)
ScopeEnds(s) ==
    /\ at[s] = "commit"
    /\ Goto(s, "idle")
    /\ record' = IF writer = s /\ written = Absent
                 THEN [c \in Call |-> IF held[c] # Absent /\ held[c].id = held[s].id
                                      THEN "none" ELSE record[c]]
                 ELSE record
    /\ Commit(s)
    /\ held' = [held EXCEPT ![s] = Absent]
    /\ read' = [read EXCEPT ![s] = Absent]
    /\ UNCHANGED <<kindOf, spoiled, coordinatorVars>>

(* The process dies, the database rolls back what was not committed. *)
TransactionsRestart ==
    /\ Restart
    /\ at' = [s \in Session |->
                 IF s \notin Call THEN "idle"
                 ELSE IF at[s] \in {"idle", "over"} THEN at[s] ELSE "lost"]
    /\ held' = [s \in Session |-> IF s \in Call THEN held[s] ELSE Absent]
    /\ read' = [s \in Session |-> Absent]
    /\ writer' = NoSession /\ written' = Absent
    /\ UNCHANGED <<kindOf, spoiled, record, table>>
----------------------------------------------------------------------------
CallStatement(c) == Lookup(c) \/ Insert(c) \/ Redirect(c) \/ Record(c) \/ Load(c)
                    \/ Save(c) \/ Conclude(c)
TaskStep(c) == TaskStarts(c) \/ TaskCancelledEarly(c) \/ Progress(c) \/ CutShort(c)
               \/ ExecutorEnds(c) \/ DeployResumes(c)
OtherStatement(s) == DeleteRow(s) \/ Edit(s) \/ ScopeEnds(s)

(* What the database, or the task behind a call, can do for session s. *)
Step(s) == \/ s \in Call /\ (CallStatement(s) \/ TaskStep(s))
           \/ s \in Other /\ OtherStatement(s)

TransactionsNext ==
    \/ \E c \in Call : (\E k \in Kind : Begin(c, k)) \/ Analyzed(c)
    \/ \E s \in Other : BeginDelete(s) \/ Cleaned(s) \/ BeginEdit(s)
    \/ \E s \in Session : Step(s)
    \/ CancelCurrent
    \/ TransactionsRestart

TransactionsSpec == TransactionsInit /\ [][TransactionsNext]_transactionVars
----------------------------------------------------------------------------
(* A write that is not committed yet never waits for anything but the      *)
(* database: not for a clone, a clean-up, the coordinator or an executor,  *)
(* where it would hold up everyone who wants to write this project.        *)
LocksAreShort ==
    writer # NoSession =>
        /\ at[writer] \in {"record", "finish", "commit"}
        /\ written = Absent \/ written.id = held[writer].id
        /\ writer \in Call /\ at[writer] = "finish" => result[writer] = "ok"

(* What the table deployments says of a run: a final status is its verdict,*)
(* never Successful once its cancellation was accepted; the executor works *)
(* under Running only; and a deployment that is over keeps an unfinished   *)
(* status for two reasons: credentials that cannot be decrypted, and a     *)
(* cancellation that hit a query, after which the session cannot write the *)
(* verdict any more.                                                       *)
RecordsTellTheRun ==
    \A c \in Call : record[c] # "none" =>
        /\ record[c] \in Final => at[c] = "over" /\ record[c] = Verdict(result[c])
        /\ record[c] = "successful" => c \notin cancelling
        /\ at[c] = "run" /\ task[c] = "running" => record[c] = "running"
        /\ at[c] = "over" /\ record[c] \in Unfinished =>
               result[c] = "none" \/ (c \in spoiled /\ result[c] = "cancelled")

(* A deployment has its row for as long as its project has one, whatever   *)
(* is deleted, inserted or interrupted between its statements.             *)
HistoryBelongsToProject ==
    \A c \in Call :
        /\ record[c] # "none" => Committed(c)
        /\ at[c] \in {"load", "planning", "running", "run", "save_read", "save", "finish"}
               => (Committed(c) => record[c] # "none")

(* The URL a project shows is that of a deployment of this project whose   *)
(* record says Successful.                                                 *)
ShownUrlSucceeded ==
    table # Absent /\ table.live # NoCall =>
        record[table.live] = "successful" /\ held[table.live].id = table.id

TransactionsInv ==
    /\ TransactionsTypeOK
    /\ LocksAreShort
    /\ RecordsTellTheRun
    /\ HistoryBelongsToProject
    /\ ShownUrlSucceeded

(* A deployment becomes Successful in the transaction that saves its       *)
(* result: no reader and no crash finds one without the other.             *)
SuccessIsSaved ==
    [][\A c \in Call : record[c] # "successful" /\ record'[c] = "successful" =>
          table' # Absent /\ table'.id = held[c].id /\ table'.live = c]_transactionVars

(* A project enters the table by the INSERT of the call it is named after, *)
(* so none that was deleted comes back with a late result.                 *)
DeletedProjectStaysDeleted ==
    [][\A p \in Call : (table = Absent \/ table.id # p) /\ table' # Absent /\ table'.id = p
          => at[p] = "record" /\ at'[p] = "load"]_transactionVars

Fits(row) == row # Absent /\ row.live # NoCall => row.kind = kindOf[row.live]

(* The URL and the target of a project come apart in one way only: another *)
(* transaction commits between the SELECT and the UPDATE of update(), and  *)
(* the row becomes a mixture of the two - or someone who turns the switch  *)
(* has read such a mixture before and writes it back.                      *)
MixtureNeedsARace ==
    [][Fits(table) /\ ~Fits(table') =>
          \/ writer # NoSession /\ read[writer] # table
          \/ writer \in Other /\ ~Fits(held[writer])]_transactionVars

(* Refinement: what is committed in the two tables.  A call that has given *)
(* up before it was recorded, or has been, will not be recorded any more.  *)
Preparing == {"idle", "analyzing", "lookup", "insert", "redirect_read", "redirect", "record"}
Unrecorded == {c \in Call : at[c] \in Preparing}
InTable(p) == table # Absent /\ table.id = p
ProjectIn(c) == IF record[c] = "none" THEN Absent ELSE held[c].id
ShownBy(p) == IF InTable(p) THEN table.live ELSE NoCall

History == INSTANCE DeploymentHistory WITH
               Project <- Call,
               NoProject <- Absent,
               status <- record,
               of <- [c \in Call |-> ProjectIn(c)],
               present <- {p \in Call : InTable(p)},
               shown <- [p \in Call |-> ShownBy(p)],
               pending <- Unrecorded,
               fresh <- Unrecorded,
               torn <- {}

(* Statement by statement, with other writers between them, the use cases  *)
(* keep the promise of DeploymentHistory, and more than on SQLite: no      *)
(* deployment is torn.  It is recorded and concluded once, a success comes *)
(* with its URL and the URL with its success, and what was deleted stays   *)
(* away, whatever late results are written.                                *)
ImplementsHistory == History!HistorySpec

(* What the database makes statements wait for: the lock of the row, and,  *)
(* for the rows of `deployments`, a pending DELETE of their project.       *)
Waits(s) ==
    \/ at[s] \in {"insert", "delete"} /\ writer # NoSession
    \/ at[s] \in {"redirect", "save", "edit"} /\ held[s] # read[s] /\ writer # NoSession
    \/ at[s] = "record" /\ CascadeBlocks(s)
    \/ at[s] \in {"planning", "running"} /\ s \notin cancelling
       /\ record[s] # "none" /\ CascadeBlocks(s)
    \/ at[s] = "finish" /\ GetsVerdict(s) /\ CascadeBlocks(s)

(* Whoever waits, waits for another session, and that one does not wait.   *)
WaitsEnd ==
    \A s \in Session : Waits(s) => writer \in Session \ {s} /\ ~Waits(writer)

(* No two sessions wait for each other, or for themselves: a statement can *)
(* be carried out at once, or waits for a session whose own next statement *)
(* can.                                                                    *)
NobodyIsStuck ==
    /\ WaitsEnd
    /\ \A s \in Session : at[s] \in Statement => (ENABLED Step(s) <=> ~Waits(s))
=============================================================================
