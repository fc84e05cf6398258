----------------------- MODULE DeployTransactionsProofs -----------------------
(***************************************************************************)
(* Proofs about DeployTransactions: what is committed in the two tables is *)
(* right, for any number of calls, targets and other sessions.             *)
(*                                                                         *)
(* TransactionsAll is the inductive invariant.  Its parts say where a      *)
(* session may be while its call is in a given state of the coordinator,   *)
(* what its entity is there, that the names of calls which have not        *)
(* inserted their project yet are unused, and what the one session that    *)
(* has written may have written.                                           *)
(***************************************************************************)
EXTENDS DeployTransactions, CoordinatorProofs

(* The places of a call, and of another session. *)
CallPlace == Preparing \cup {"load", "planning", "running", "run", "save_read", "save",
                             "finish", "over", "lost"}
OtherPlace == {"idle", "cleaning", "delete", "edit_read", "edit", "commit"}

(* Where a use case is, and how far its call is in the coordinator. *)
PlacesInv ==
    /\ interrupted = {}
    /\ \A d \in Other : at[d] \in OtherPlace
    /\ \A c \in Call :
        /\ at[c] \in CallPlace
        /\ at[c] \in Preparing \cup {"load"} => stage[c] = "idle"
        /\ at[c] \in {"planning", "running"} => stage[c] = "awaiting" /\ task[c] = "running"
        /\ at[c] = "run" => stage[c] = "awaiting"
        /\ at[c] \in {"save_read", "save", "finish"} => stage[c] = "returned" /\ result[c] # "none"
        /\ at[c] \in {"save_read", "save"} => result[c] = "ok"
        /\ at[c] = "over" => stage[c] \in {"idle", "returned"}
        /\ at[c] = "lost" => stage[c] # "awaiting"
        /\ stage[c] = "returned" => result[c] = IF task[c] = "done" THEN outcome[c] ELSE "rejected"
        /\ stage[c] \in {"idle"} => result[c] = "none"

(* What the entity of a call is, by the place the call is at. *)
EntityFits(c) ==
    /\ at[c] # "idle" => kindOf[c] \in Kind
    /\ at[c] \in {"idle", "analyzing", "lookup"} => held[c] = Absent
    /\ at[c] \notin {"idle", "analyzing", "lookup", "over", "lost"} => held[c] # Absent
    /\ record[c] # "none" => held[c] # Absent
    /\ held[c] # Absent => held[c].kind = kindOf[c]
    /\ at[c] = "insert" => held[c].id = c
    /\ at[c] \in {"insert", "redirect_read", "redirect"} => held[c].live = NoCall
    /\ at[c] \in {"save_read", "save"} => held[c].live = c
    /\ at[c] = "finish" /\ result[c] = "ok" => held[c].live = c

(* There is an entity, and a row to compare it with, wherever one is used. *)
EntitiesInv ==
    /\ \A c \in Call : EntityFits(c)
    /\ \A d \in Other : at[d] # "idle" => held[d] # Absent
    /\ \A s \in Session : at[s] \in {"redirect", "save", "edit"} => read[s] # Absent

(* Nobody has the project of a call that has not inserted it. *)
IdsInv ==
    \A p \in Call : at[p] \in Preparing =>
        /\ record[p] = "none"
        /\ table # Absent => table.id # p
        /\ \A s \in Session : s # p /\ held[s] # Absent => held[s].id # p
        /\ held[p] # Absent /\ held[p].id = p =>
              at[p] = "insert" \/ (at[p] = "record" /\ writer = p)

(* The session that has written, and what: its own entity, or, when somebody *)
(* else has committed since it read the row, something with the same id.     *)
WriterInv ==
    /\ writer = NoSession => written = Absent
    /\ writer # NoSession =>
        /\ at[writer] \in {"record", "finish", "commit"}
        /\ held[writer] # Absent
        /\ written = Absent => writer \in Other
        /\ written # Absent => /\ written.id = held[writer].id
                               /\ read[writer] = table => written = held[writer]
        /\ IF at[writer] = "record" /\ held[writer].id = writer
           THEN table = Absent ELSE table # Absent /\ table.id = held[writer].id
        /\ at[writer] = "record" => held[writer].live = NoCall
        /\ at[writer] = "finish" => /\ result[writer] = "ok"
                                    /\ GetsVerdict(writer)
                                    /\ written.live = writer

(* The URL in a row, if any, is of a call that has ended with that project,  *)
(* and with success, as far as the table still has the project.              *)
Real(row) ==
    row # Absent /\ row.live # NoCall =>
        /\ at[row.live] = "over"
        /\ held[row.live] # Absent
        /\ held[row.live].id = row.id
        /\ table # Absent /\ table.id = row.id => record[row.live] = "successful"

(* URLs are real wherever rows are kept; what is written may be the result   *)
(* of the call that is about to commit it.                                   *)
LiveInv ==
    /\ Real(table)
    /\ \A s \in Session : Real(read[s]) /\ (s \in Other => Real(held[s]))
    /\ written # Absent => Real(written) \/ (writer \in Call /\ at[writer] = "finish")

(* Why a session cannot write its verdict; a call that can, and succeeded,   *)
(* has written its result.                                                   *)
SpoiledInv ==
    \A c \in Call :
        /\ c \in spoiled =>
              \/ outcome[c] = "cancelled" /\ at[c] \in {"run", "finish", "over", "lost"}
              \/ record[c] = "none" /\ at[c] \in {"finish", "over", "lost"}
        /\ at[c] = "finish" /\ result[c] = "ok" /\ GetsVerdict(c) => writer = c

(* The steps of a call, and of the sessions of other use cases. *)
CallStep(c) ==
    \/ (\E k \in Kind : Begin(c, k)) \/ Analyzed(c) \/ CallStatement(c) \/ TaskStep(c)

OtherStep(d) == BeginDelete(d) \/ Cleaned(d) \/ BeginEdit(d) \/ OtherStatement(d)

(* The kinds of steps. *)
LEMMA Cases ==
    ASSUME [TransactionsNext]_transactionVars
    PROVE  \/ \E c \in Call : CallStep(c)
           \/ \E d \in Other : OtherStep(d)
           \/ CancelCurrent
           \/ TransactionsRestart
           \/ UNCHANGED transactionVars
BY DEF TransactionsNext, Step, CallStep, OtherStep

(* The coordinator sees only its own steps. *)
LEMMA RunsCoordinator ==
    ASSUME TransactionsTypeOK, EntitiesInv, [TransactionsNext]_transactionVars
    PROVE  [CoordinatorNext]_coordinatorVars
<1> USE DEF coordinatorVars, callVars, taskVars, registryVars
<1>1. ASSUME NEW c \in Call, Load(c)
      PROVE  [CoordinatorNext]_coordinatorVars
    <2>1. Owner \in User
        BY TransactionsAssumption DEF Owner
    <2>2. TargetKey(c) \in Key
        <3>1. kindOf[c] \in Kind /\ held[c] \in Row
            BY <1>1 DEF Load, EntitiesInv, EntityFits, TransactionsTypeOK, Session
        <3>2. held[c].id \in Call
            BY <3>1 DEF Row
        <3> QED BY <3>1, <3>2, TransactionsAssumption DEF TargetKey
    <2> QED BY <1>1, <2>1, <2>2 DEF Load, CoordinatorNext
<1>2. ASSUME NEW c \in Call, \/ (\E k \in Kind : Begin(c, k)) \/ Analyzed(c)
                             \/ Lookup(c) \/ Insert(c)
                             \/ Redirect(c) \/ Record(c) \/ Save(c) \/ Conclude(c)
      PROVE  UNCHANGED coordinatorVars
    BY <1>2 DEF Begin, Analyzed, Lookup, Insert, Redirect, Record, Save, Conclude
<1>3. ASSUME NEW d \in Other, \/ BeginDelete(d) \/ Cleaned(d) \/ DeleteRow(d)
                              \/ BeginEdit(d) \/ Edit(d) \/ ScopeEnds(d)
      PROVE  UNCHANGED coordinatorVars
    BY <1>3 DEF BeginDelete, Cleaned, DeleteRow, BeginEdit, Edit, ScopeEnds
<1>4. ASSUME NEW c \in Call, \/ TaskStarts(c) \/ TaskCancelledEarly(c) \/ Progress(c) \/ CutShort(c)
                             \/ ExecutorEnds(c) \/ DeployResumes(c)
      PROVE  UNCHANGED coordinatorVars \/ CallNext(c)
    BY <1>4 DEF TaskStarts, TaskCancelledEarly, Progress, CutShort, ExecutorEnds, DeployResumes,
                CallNext
<1>5. CASE CancelCurrent
    <2>1. Owner \in User
        BY TransactionsAssumption DEF Owner
    <2> QED BY <1>5, <2>1 DEF CancelCurrent, CoordinatorNext
<1>6. CASE TransactionsRestart
    BY <1>6 DEF TransactionsRestart, CoordinatorNext
<1>7. CASE UNCHANGED transactionVars
    BY <1>7 DEF transactionVars
<1> QED BY <1>1, <1>2, <1>3, <1>4, <1>5, <1>6, <1>7, Cases
    DEF CallStep, CallStatement, TaskStep, OtherStep, OtherStatement, CoordinatorNext

(* A row that is merged is a row. *)
LEMMA MergedRow ==
    ASSUME NEW t \in Row, NEW o \in Row, NEW n \in Row
    PROVE  /\ Merged(t, o, n) \in Row
           /\ Merged(t, o, n).id = IF n.id # o.id THEN n.id ELSE t.id
           /\ Merged(t, o, n).kind = IF n.kind # o.kind THEN n.kind ELSE t.kind
           /\ Merged(t, o, n).live = IF n.live # o.live THEN n.live ELSE t.live
           /\ t = o => Merged(t, o, n) = n
<1>1. /\ Merged(t, o, n) \in Row
      /\ Merged(t, o, n).id = IF n.id # o.id THEN n.id ELSE t.id
      /\ Merged(t, o, n).kind = IF n.kind # o.kind THEN n.kind ELSE t.kind
      /\ Merged(t, o, n).live = IF n.live # o.live THEN n.live ELSE t.live
      /\ Merged(t, o, n).auto = IF n.auto # o.auto THEN n.auto ELSE t.auto
    BY DEF Merged, Row
<1>2. ASSUME t = o PROVE Merged(t, o, n) = n
    BY <1>1, <1>2 DEF Row
<1> QED BY <1>1, <1>2

(* The project with which deploy() goes on from the row it finds. *)
LEMMA EntityOf ==
    ASSUME NEW c \in Call, kindOf[c] \in Kind, table \in Row \cup {Absent}
    PROVE  /\ Entity(c) \in Row /\ Entity(c) # Absent /\ Entity(c).kind = kindOf[c]
           /\ table = Absent => Entity(c).id = c /\ Entity(c).live = NoCall
           /\ table # Absent => /\ Entity(c).id = table.id
                                /\ Entity(c).live = IF table.kind = kindOf[c] THEN table.live
                                                    ELSE NoCall
<1>1. CASE table = Absent
    <2>1. Entity(c) = [id |-> c, kind |-> kindOf[c], live |-> NoCall, auto |-> FALSE]
        BY <1>1 DEF Entity
    <2>2. Entity(c) \in Row
        BY <2>1 DEF Row
    <2>3. Entity(c).kind = kindOf[c] /\ Entity(c).id = c /\ Entity(c).live = NoCall
        BY <2>1
    <2>4. Entity(c) # Absent
        BY <2>2, TransactionsAssumption
    <2> QED BY <1>1, <2>2, <2>3, <2>4
<1>2. CASE table # Absent /\ table.kind = kindOf[c]
    BY <1>2 DEF Entity, Row
<1>3. CASE table # Absent /\ table.kind # kindOf[c]
    <2>1. Entity(c) = [table EXCEPT !.kind = kindOf[c], !.live = NoCall]
        BY <1>3 DEF Entity
    <2> QED BY <1>3, <2>1, TransactionsAssumption DEF Row
<1> QED BY <1>1, <1>2, <1>3

(* The inductive invariant. *)
TransactionsAll ==
    /\ CoordinatorInv /\ TransactionsTypeOK /\ PlacesInv /\ EntitiesInv
    /\ IdsInv /\ WriterInv /\ HistoryBelongsToProject /\ LiveInv /\ SpoiledInv
    /\ RecordsTellTheRun

(* What a flush may do. *)
LEMMA FlushTypes ==
    ASSUME TransactionsTypeOK, EntitiesInv, NEW s \in Session,
           NEW done \in Elsewhere \cup Statement, NEW failed \in Elsewhere \cup Statement,
           at[s] \in {"redirect", "save", "edit"}, held[s] # Absent, Flush(s, done, failed)
    PROVE  /\ at' \in [Session -> Elsewhere \cup Statement]
           /\ spoiled' \in SUBSET Call
           /\ writer' \in Session \cup {NoSession}
           /\ written' \in Row \cup {Absent}
           /\ UNCHANGED <<kindOf, held, read, record, table>>
<1>1. held[s] \in Row /\ read[s] \in Row
    BY DEF TransactionsTypeOK, EntitiesInv, EntityFits
<1>2. CASE held[s] = read[s]
    BY <1>2 DEF Flush, Goto, TransactionsTypeOK, sessionVars, dbVars
<1>3. CASE held[s] # read[s] /\ Committed(s)
    <2>1. table \in Row
        BY <1>3 DEF Committed, TransactionsTypeOK
    <2>2. Merged(table, read[s], held[s]) \in Row
        BY <1>1, <2>1, MergedRow
    <2> QED BY <1>3, <2>2 DEF Flush, Goto, TransactionsTypeOK, sessionVars
<1>4. CASE held[s] # read[s] /\ ~Committed(s)
    BY <1>4 DEF Flush, Goto, TransactionsTypeOK, dbVars
<1> QED BY <1>2, <1>3, <1>4

(* Every step keeps the types. *)
LEMMA TransactionsTypeStep ==
    TransactionsAll /\ CoordinatorInv' /\ [TransactionsNext]_transactionVars => TransactionsTypeOK'
<1> SUFFICES ASSUME TransactionsAll, CoordinatorInv', [TransactionsNext]_transactionVars
             PROVE  TransactionsTypeOK'
    OBVIOUS
<1> DEFINE Typed ==
        /\ at' \in [Session -> Elsewhere \cup Statement]
        /\ kindOf' \in [Call -> Kind \cup {Absent}]
        /\ held' \in [Session -> Row \cup {Absent}]
        /\ read' \in [Session -> Row \cup {Absent}]
        /\ spoiled' \in SUBSET Call
        /\ record' \in [Call -> {"none"} \cup Unfinished \cup Final]
        /\ table' \in Row \cup {Absent}
        /\ writer' \in Session \cup {NoSession}
        /\ written' \in Row \cup {Absent}
<1>0. TransactionsTypeOK /\ EntitiesInv /\ Call \subseteq Session /\ Other \subseteq Session
    BY DEF TransactionsAll, Session
<1> SUFFICES Typed
    BY DEF TransactionsTypeOK, CoordinatorInv
<1> USE DEF Goto, sessionVars, dbVars
<1>1. ASSUME NEW c \in Call, NEW k \in Kind, Begin(c, k)
      PROVE  Typed
    BY <1>0, <1>1 DEF Begin, TransactionsTypeOK, Elsewhere
<1>2. ASSUME NEW c \in Call, Analyzed(c) \/ TaskStarts(c) \/ TaskCancelledEarly(c)
                             \/ ExecutorEnds(c) \/ Load(c)
      PROVE  Typed
    BY <1>0, <1>2 DEF Analyzed, TaskStarts, TaskCancelledEarly, ExecutorEnds, Load,
                      TransactionsTypeOK, Elsewhere, Statement
<1>3. ASSUME NEW c \in Call, Lookup(c)
      PROVE  Typed
    <2>1. kindOf[c] \in Kind
        BY <1>0, <1>3 DEF Lookup, EntitiesInv, EntityFits
    <2>2. Entity(c) \in Row
        BY <1>0, <2>1, EntityOf DEF TransactionsTypeOK
    <2> QED BY <1>0, <1>3, <2>2 DEF Lookup, TransactionsTypeOK, Statement
<1>4. ASSUME NEW c \in Call, Insert(c)
      PROVE  Typed
    BY <1>0, <1>4 DEF Insert, TransactionsTypeOK, Elsewhere, Statement
<1>5. ASSUME NEW s \in Session, NEW found \in Statement, NEW missing \in Elsewhere \cup Statement,
             Select(s, found, missing)
      PROVE  Typed
    BY <1>0, <1>5 DEF Select, Committed, TransactionsTypeOK
<1>6. ASSUME NEW c \in Call, Redirect(c) \/ Save(c)
      PROVE  Typed
    <2>1. /\ {"redirect", "save", "record", "finish"} \subseteq Statement
          /\ {"over", "record", "finish"} \subseteq Elsewhere \cup Statement
        BY DEF Elsewhere, Statement
    <2>2. CASE at[c] \in {"redirect_read", "save_read"}
        BY <1>0, <1>5, <1>6, <2>1, <2>2 DEF Redirect, Save
    <2>3. CASE at[c] \in {"redirect", "save"}
        <3>1. c \in Session /\ held[c] # Absent
            BY <1>0, <2>3 DEF EntitiesInv, EntityFits
        <3>2. Flush(c, "record", "over") \/ Flush(c, "finish", "finish")
            BY <1>6, <2>3 DEF Redirect, Save
        <3> QED BY <1>0, <2>1, <2>3, <3>1, <3>2, FlushTypes DEF TransactionsTypeOK
    <2> QED BY <1>6, <2>2, <2>3 DEF Redirect, Save
<1>7. ASSUME NEW d \in Other, Edit(d)
      PROVE  Typed
    <2>1. "edit" \in Statement /\ {"idle", "commit"} \subseteq Elsewhere \cup Statement
        BY DEF Elsewhere, Statement
    <2>2. CASE at[d] = "edit_read"
        BY <1>0, <1>5, <1>7, <2>1, <2>2 DEF Edit
    <2>3. CASE at[d] = "edit"
        <3>1. d \in Session /\ held[d] # Absent
            BY <1>0, <2>3 DEF EntitiesInv, EntityFits
        <3> QED BY <1>0, <1>7, <2>1, <2>3, <3>1, FlushTypes DEF TransactionsTypeOK, Edit
    <2> QED BY <1>7, <2>2, <2>3 DEF Edit
<1>8. ASSUME NEW c \in Call, Record(c)
      PROVE  Typed
    BY <1>0, <1>8 DEF Record, Commit, TransactionsTypeOK, Elsewhere, Statement, Unfinished
<1>9. ASSUME NEW c \in Call, Progress(c) \/ CutShort(c)
      PROVE  Typed
    BY <1>0, <1>9 DEF Progress, CutShort, TransactionsTypeOK, Elsewhere, Statement, Unfinished
<1>10. ASSUME NEW c \in Call, DeployResumes(c)
       PROVE  Typed
    <2>1. at[c] = "run" /\ held[c] \in Row
        BY <1>0, <1>10 DEF DeployResumes, EntitiesInv, EntityFits, TransactionsTypeOK
    <2>2. [held[c] EXCEPT !.live = c] \in Row
        BY <2>1 DEF Row
    <2> QED BY <1>0, <1>10, <2>2 DEF DeployResumes, TransactionsTypeOK, Statement
<1>11. ASSUME NEW c \in Call, Conclude(c)
       PROVE  Typed
    <2>1. Verdict(result[c]) \in Final
        BY DEF Verdict, Final
    <2> QED BY <1>0, <1>11, <2>1 DEF Conclude, Commit, TransactionsTypeOK, Elsewhere
<1>12. ASSUME NEW d \in Other, BeginDelete(d) \/ Cleaned(d) \/ DeleteRow(d)
       PROVE  Typed
    BY <1>0, <1>12 DEF BeginDelete, Cleaned, DeleteRow, TransactionsTypeOK, Elsewhere, Statement
<1>13. ASSUME NEW d \in Other, BeginEdit(d)
       PROVE  Typed
    <2>1. [table EXCEPT !.auto = ~@] \in Row
        BY <1>0, <1>13 DEF BeginEdit, TransactionsTypeOK, Row
    <2> QED BY <1>0, <1>13, <2>1 DEF BeginEdit, TransactionsTypeOK, Statement
<1>14. ASSUME NEW d \in Other, ScopeEnds(d)
       PROVE  Typed
    BY <1>0, <1>14 DEF ScopeEnds, Commit, TransactionsTypeOK, Elsewhere
<1>15. CASE CancelCurrent \/ UNCHANGED transactionVars
    BY <1>0, <1>15 DEF CancelCurrent, transactionVars, TransactionsTypeOK
<1>16. CASE TransactionsRestart
    BY <1>0, <1>16 DEF TransactionsRestart, TransactionsTypeOK, Elsewhere
<1> QED BY <1>1, <1>2, <1>3, <1>4, <1>6, <1>7, <1>8, <1>9, <1>10, <1>11, <1>12, <1>13,
           <1>14, <1>15, <1>16, Cases
    DEF CallStep, CallStatement, TaskStep, OtherStep, OtherStatement

(* Where a session is, and its call in the coordinator. *)
LEMMA PlacesStep ==
    TransactionsAll /\ CoordinatorInv' /\ [TransactionsNext]_transactionVars => PlacesInv'
<1> SUFFICES ASSUME TransactionsAll, CoordinatorInv', [TransactionsNext]_transactionVars
             PROVE  PlacesInv'
    OBVIOUS
<1>0. /\ CoordinatorTypeOK /\ TasksFollowCalls /\ LiveIsRegistered /\ AcceptedCancelSticks
      /\ TransactionsTypeOK /\ PlacesInv
      /\ Call \subseteq Session /\ Other \subseteq Session /\ Call \cap Other = {}
    BY TransactionsAssumption DEF TransactionsAll, CoordinatorInv, Session
<1> USE DEF Goto, sessionVars, dbVars, coordinatorVars, callVars, taskVars, registryVars
<1>1. ASSUME NEW c \in Call, \/ (\E k \in Kind : Begin(c, k)) \/ Analyzed(c)
                             \/ Lookup(c) \/ Insert(c)
                             \/ Redirect(c) \/ Record(c) \/ Save(c) \/ Conclude(c)
      PROVE  PlacesInv'
    <2>1. /\ UNCHANGED coordinatorVars
          /\ \A s \in Session : s # c => at'[s] = at[s]
        BY <1>0, <1>1 DEF Begin, Analyzed, Lookup, Insert, Redirect, Record, Save, Conclude,
                    Select, Flush, TransactionsTypeOK
    <2>2. /\ at[c] \in Preparing => at'[c] \in Preparing \cup {"load", "over"}
          /\ at[c] \notin Preparing => at[c] \in {"save_read", "save", "finish"}
                                 /\ at'[c] \in {"save", "finish", "over"}
        BY <1>0, <1>1 DEF Begin, Analyzed, Lookup, Insert, Redirect, Record, Save, Conclude,
                    Select, Flush, TransactionsTypeOK, Preparing
    <2>3. at'[c] = "save" => at[c] = "save_read"
        BY <1>0, <1>1 DEF Begin, Analyzed, Lookup, Insert, Redirect, Record, Save, Conclude,
                    Select, Flush, TransactionsTypeOK, Preparing
    <2> QED BY <1>0, <2>1, <2>2, <2>3 DEF PlacesInv, Preparing, CallPlace
<1>2. ASSUME NEW c \in Call, Load(c)
      PROVE  PlacesInv'
    <2>1. /\ interrupted' = interrupted
          /\ \A s \in Session : s # c => at'[s] = at[s]
          /\ \A d \in Call : d # c => /\ stage'[d] = stage[d] /\ task'[d] = task[d]
                                      /\ result'[d] = result[d] /\ outcome'[d] = outcome[d]
        BY <1>0, <1>2 DEF Load, RunAdmitted, RunRejected, TransactionsTypeOK, CoordinatorTypeOK
    <2>2. \/ at'[c] = "over" /\ stage'[c] = "idle" /\ result'[c] = "none"
          \/ at'[c] = "run" /\ stage'[c] = "awaiting"
          \/ /\ at'[c] = "finish" /\ stage'[c] = "returned"
             /\ result'[c] = "rejected" /\ task'[c] = "none"
        BY <1>0, <1>2 DEF Load, RunAdmitted, RunRejected, TransactionsTypeOK, CoordinatorTypeOK,
                          PlacesInv, TasksFollowCalls
    <2> QED BY <1>0, <2>1, <2>2 DEF PlacesInv, Preparing, CallPlace
<1>3. ASSUME NEW c \in Call, TaskStarts(c) \/ TaskCancelledEarly(c) \/ Progress(c) \/ CutShort(c)
                             \/ ExecutorEnds(c)
      PROVE  PlacesInv'
    <2>1. /\ UNCHANGED callVars
          /\ \A s \in Session : s # c => at'[s] = at[s]
          /\ \A d \in Call : d # c => task'[d] = task[d] /\ outcome'[d] = outcome[d]
        BY <1>0, <1>3 DEF TaskStarts, TaskCancelledEarly, Progress, CutShort, ExecutorEnds,
                    FirstStep, EndsBeforeStart, Finish, TransactionsTypeOK, CoordinatorTypeOK
    <2>2. stage[c] = "awaiting"
        BY <1>0, <1>3 DEF TaskStarts, TaskCancelledEarly, Progress, CutShort, ExecutorEnds,
                    FirstStep, EndsBeforeStart, PlacesInv, LiveIsRegistered, Live
    <2>3. at[c] \in {"planning", "running", "run"}
        BY <1>0, <2>2 DEF PlacesInv, CallPlace
    <2>4. \/ at'[c] = "run"
          \/ at'[c] \in {"planning", "running"} /\ task'[c] = "running"
        BY <1>0, <1>3, <2>3 DEF TaskStarts, TaskCancelledEarly, Progress, CutShort, ExecutorEnds,
                    FirstStep, EndsBeforeStart, PlacesInv, TransactionsTypeOK, CoordinatorTypeOK
    <2> QED BY <1>0, <2>1, <2>2, <2>4 DEF PlacesInv, Preparing, CallPlace
<1>4. ASSUME NEW c \in Call, DeployResumes(c)
      PROVE  PlacesInv'
    <2>1. /\ \A s \in Session : s # c => at'[s] = at[s]
          /\ \A d \in Call : d # c => stage'[d] = stage[d] /\ result'[d] = result[d]
          /\ UNCHANGED <<task, outcome, interrupted>>
        BY <1>0, <1>4 DEF DeployResumes, Resume, TransactionsTypeOK, CoordinatorTypeOK
    <2>2. /\ stage'[c] = "returned" /\ task[c] = "done" /\ result'[c] = outcome[c]
          /\ outcome[c] # "none"
        BY <1>0, <1>4 DEF DeployResumes, Resume, TransactionsTypeOK, CoordinatorTypeOK, PlacesInv,
                          TasksFollowCalls
    <2>3. at'[c] = IF result'[c] = "ok" THEN "save_read" ELSE "finish"
        BY <1>0, <1>4 DEF DeployResumes, TransactionsTypeOK
    <2> QED BY <1>0, <2>1, <2>2, <2>3 DEF PlacesInv, Preparing, CallPlace
<1>5. ASSUME NEW d \in Other, \/ BeginDelete(d) \/ Cleaned(d) \/ DeleteRow(d)
                              \/ BeginEdit(d) \/ Edit(d) \/ ScopeEnds(d)
      PROVE  PlacesInv'
    <2>1. /\ UNCHANGED coordinatorVars
          /\ \A s \in Session : s # d => at'[s] = at[s]
          /\ at'[d] \in OtherPlace
        BY <1>0, <1>5 DEF BeginDelete, Cleaned, DeleteRow, BeginEdit, Edit, ScopeEnds,
                    Select, Flush, TransactionsTypeOK, OtherPlace
    <2> QED BY <1>0, <2>1 DEF PlacesInv
<1>6. CASE CancelCurrent \/ UNCHANGED transactionVars
    BY <1>0, <1>6 DEF CancelCurrent, CancelForUser, transactionVars, PlacesInv
<1>7. CASE TransactionsRestart
    <2>1. /\ interrupted' = interrupted /\ result' = result /\ outcome' = outcome
          /\ \A d \in Other : at'[d] = "idle"
          /\ \A c \in Call : /\ at'[c] = IF at[c] \in {"idle", "over"} THEN at[c] ELSE "lost"
                             /\ stage'[c] = IF stage[c] = "awaiting" THEN "lost" ELSE stage[c]
                             /\ task'[c] = "done" <=> task[c] = "done"
        BY <1>0, <1>7 DEF TransactionsRestart, Restart, Live
    <2> QED BY <1>0, <2>1 DEF PlacesInv, Preparing, CallPlace, OtherPlace
<1> QED BY <1>1, <1>2, <1>3, <1>4, <1>5, <1>6, <1>7, Cases
    DEF CallStep, CallStatement, TaskStep, OtherStep, OtherStatement

(* A step of a call leaves the other sessions and calls alone. *)
LEMMA CallFrame ==
    ASSUME TransactionsTypeOK, CoordinatorTypeOK, NEW c \in Call, CallStep(c)
    PROVE  /\ \A s \in Session : s # c =>
                  at'[s] = at[s] /\ held'[s] = held[s] /\ read'[s] = read[s]
           /\ \A d \in Call : d # c =>
                  /\ kindOf'[d] = kindOf[d] /\ record'[d] = record[d]
                  /\ (d \in spoiled' <=> d \in spoiled)
                  /\ stage'[d] = stage[d] /\ result'[d] = result[d]
                  /\ task'[d] = task[d] /\ outcome'[d] = outcome[d]
           /\ UNCHANGED <<cancelling, interrupted>>
<1>0. Call \subseteq Session
    BY DEF Session
<1> USE DEF Goto, sessionVars, dbVars, coordinatorVars, callVars, taskVars, registryVars,
            TransactionsTypeOK, CoordinatorTypeOK
<1>1. ASSUME \/ (\E k \in Kind : Begin(c, k)) \/ Analyzed(c)
             \/ Lookup(c) \/ Insert(c) \/ Record(c) \/ Conclude(c)
      PROVE  /\ \A s \in Session : s # c =>
                    at'[s] = at[s] /\ held'[s] = held[s] /\ read'[s] = read[s]
             /\ \A d \in Call : d # c => kindOf'[d] = kindOf[d] /\ record'[d] = record[d]
             /\ UNCHANGED <<spoiled, coordinatorVars>>
    BY <1>0, <1>1 DEF Begin, Analyzed, Lookup, Insert, Record, Conclude
<1>2. ASSUME Redirect(c) \/ Save(c)
      PROVE  /\ \A s \in Session : s # c =>
                    at'[s] = at[s] /\ held'[s] = held[s] /\ read'[s] = read[s]
             /\ \A d \in Call : d # c => (d \in spoiled' <=> d \in spoiled)
             /\ UNCHANGED <<kindOf, record, coordinatorVars>>
    BY <1>0, <1>2 DEF Redirect, Save, Select, Flush
<1>3. ASSUME Load(c) \/ TaskStarts(c) \/ TaskCancelledEarly(c) \/ Progress(c) \/ CutShort(c)
             \/ ExecutorEnds(c) \/ DeployResumes(c)
      PROVE  /\ \A s \in Session : s # c =>
                    at'[s] = at[s] /\ held'[s] = held[s] /\ read'[s] = read[s]
             /\ \A d \in Call : d # c => record'[d] = record[d] /\ (d \in spoiled' <=> d \in spoiled)
             /\ UNCHANGED kindOf
    BY <1>0, <1>3 DEF Load, TaskStarts, TaskCancelledEarly, Progress, CutShort, ExecutorEnds,
                      DeployResumes
<1>4. ASSUME Load(c) \/ TaskStarts(c) \/ TaskCancelledEarly(c) \/ Progress(c) \/ CutShort(c)
             \/ ExecutorEnds(c) \/ DeployResumes(c)
      PROVE  /\ \A d \in Call : d # c =>
                    /\ stage'[d] = stage[d] /\ result'[d] = result[d]
                    /\ task'[d] = task[d] /\ outcome'[d] = outcome[d]
             /\ UNCHANGED <<cancelling, interrupted>>
    BY <1>4 DEF Load, TaskStarts, TaskCancelledEarly, Progress, CutShort, ExecutorEnds,
                DeployResumes, RunAdmitted, RunRejected, FirstStep, EndsBeforeStart, Finish, Resume
<1> QED BY <1>1, <1>2, <1>3, <1>4 DEF CallStep, CallStatement, TaskStep

(* Nor does one of another session; of calls it knows nothing. *)
LEMMA OtherFrame ==
    ASSUME TransactionsTypeOK, NEW d \in Other, OtherStep(d)
    PROVE  /\ \A s \in Session : s # d =>
                  at'[s] = at[s] /\ held'[s] = held[s] /\ read'[s] = read[s]
           /\ UNCHANGED <<kindOf, spoiled, coordinatorVars>>
<1>0. Other \subseteq Session /\ d \notin Call
    BY TransactionsAssumption DEF Session
<1> USE DEF Goto, sessionVars, dbVars, TransactionsTypeOK
<1>1. ASSUME BeginDelete(d) \/ Cleaned(d) \/ BeginEdit(d) \/ DeleteRow(d) \/ ScopeEnds(d)
      PROVE  /\ \A s \in Session : s # d =>
                    at'[s] = at[s] /\ held'[s] = held[s] /\ read'[s] = read[s]
             /\ UNCHANGED <<kindOf, spoiled, coordinatorVars>>
    BY <1>0, <1>1 DEF BeginDelete, Cleaned, BeginEdit, DeleteRow, ScopeEnds
<1>2. ASSUME Edit(d)
      PROVE  /\ \A s \in Session : s # d =>
                    at'[s] = at[s] /\ held'[s] = held[s] /\ read'[s] = read[s]
             /\ UNCHANGED <<kindOf, spoiled, coordinatorVars>>
    <2>1. Call \cap {d} = {}
        BY <1>0
    <2>2. spoiled' = spoiled
        BY <1>2, <2>1 DEF Edit, Select, Flush
    <2> QED BY <1>0, <1>2, <2>2 DEF Edit, Select, Flush
<1> QED BY <1>1, <1>2 DEF OtherStep, OtherStatement

(* A task takes its steps while its call awaits it. *)
LEMMA TaskPlace ==
    ASSUME CoordinatorInv, TransactionsTypeOK, PlacesInv, NEW c \in Call, TaskStep(c)
    PROVE  at[c] \in {"planning", "running", "run"}
<1>1. stage[c] = "awaiting" \/ at[c] \in {"planning", "running", "run"}
    BY DEF TaskStep, TaskStarts, TaskCancelledEarly, Progress, CutShort, ExecutorEnds, DeployResumes,
           FirstStep, EndsBeforeStart, CoordinatorInv, LiveIsRegistered, Live
<1> QED BY <1>1 DEF PlacesInv, CallPlace

(* The entities of the use cases. *)
LEMMA EntitiesStep ==
    TransactionsAll /\ [TransactionsNext]_transactionVars => EntitiesInv'
<1> SUFFICES ASSUME TransactionsAll, [TransactionsNext]_transactionVars
             PROVE  EntitiesInv'
    OBVIOUS
<1>0. /\ CoordinatorInv /\ CoordinatorTypeOK /\ TransactionsTypeOK /\ PlacesInv /\ EntitiesInv
      /\ Call \subseteq Session /\ Other \subseteq Session /\ Call \cap Other = {}
    BY TransactionsAssumption DEF TransactionsAll, CoordinatorInv, Session
<1> USE DEF Goto, sessionVars, dbVars
<1>1. ASSUME NEW c \in Call, CallStep(c)
      PROVE  EntitiesInv'
    <2>0. EntityFits(c) /\ at[c] \in CallPlace /\ c \in Session
        BY <1>0 DEF EntitiesInv, PlacesInv
    <2> DEFINE Goal == /\ EntityFits(c)'
                       /\ at'[c] \in {"redirect", "save", "edit"} => read'[c] # Absent
    <2>a. at[c] \in {"redirect", "save", "edit"} => read[c] # Absent
        BY <1>0, <2>0 DEF EntitiesInv
    <2> SUFFICES Goal
        <3>1. \A s \in Session : s # c =>
                  at'[s] = at[s] /\ held'[s] = held[s] /\ read'[s] = read[s]
            BY <1>0, <1>1, CallFrame
        <3>2. \A d \in Call : d # c => EntityFits(d)'
            BY <1>0, <1>1, CallFrame DEF EntitiesInv, EntityFits
        <3> QED BY <1>0, <3>1, <3>2 DEF EntitiesInv
    <2>1. CASE (\E k \in Kind : Begin(c, k)) \/ Analyzed(c)
        BY <1>0, <2>0, <2>a, <2>1 DEF Begin, Analyzed, TransactionsTypeOK, EntityFits
    <2>2. CASE Lookup(c)
        <3>1. kindOf[c] \in Kind /\ table \in Row \cup {Absent}
            BY <1>0, <2>0, <2>2 DEF Lookup, EntityFits, TransactionsTypeOK
        <3>2. held'[c] = Entity(c) /\ UNCHANGED <<kindOf, record, result>>
            BY <1>0, <2>0, <2>2 DEF Lookup, TransactionsTypeOK, coordinatorVars, callVars
        <3>3. at'[c] = IF table = Absent THEN "insert"
                       ELSE IF table.kind = kindOf[c] THEN "record" ELSE "redirect_read"
            BY <1>0, <2>0, <2>2 DEF Lookup, TransactionsTypeOK
        <3> QED BY <3>1, <3>2, <3>3, EntityOf DEF EntityFits
    <2>3. CASE Insert(c) \/ Record(c)
        BY <1>0, <2>0, <2>a, <2>3 DEF Insert, Record, Commit, TransactionsTypeOK, EntityFits
    <2>4. CASE Redirect(c) \/ Save(c)
        <3>1. /\ \/ at[c] = "redirect_read" /\ at'[c] \in {"redirect", "over"}
                 \/ at[c] = "redirect" /\ at'[c] \in {"record", "over"}
                 \/ at[c] = "save_read" /\ at'[c] \in {"save", "finish"}
                 \/ at[c] = "save" /\ at'[c] = "finish"
              /\ UNCHANGED <<kindOf, held, record, result>>
              /\ at'[c] \in {"redirect", "save"} => read'[c] # Absent
            BY <1>0, <2>0, <2>a, <2>4, TransactionsAssumption
               DEF Redirect, Save, Select, Flush, Committed, TransactionsTypeOK,
                   coordinatorVars, callVars
        <3> QED BY <2>0, <3>1 DEF EntityFits
    <2>5. CASE Load(c)
        BY <1>0, <2>0, <2>a, <2>5 DEF Load, RunRejected, RunAdmitted, TransactionsTypeOK,
                                      CoordinatorTypeOK, EntityFits
    <2>6. CASE TaskStarts(c) \/ TaskCancelledEarly(c) \/ ExecutorEnds(c)
        <3>1. /\ at[c] \in {"run", "planning", "running"} /\ at'[c] \in {"run", "planning", "running"}
              /\ UNCHANGED <<kindOf, held, record>>
            BY <1>0, <2>0, <2>6, TaskPlace DEF TaskStep, TaskStarts, TaskCancelledEarly, ExecutorEnds,
               TransactionsTypeOK
        <3> QED BY <2>0, <3>1 DEF EntityFits
    <2>7. CASE Progress(c) \/ CutShort(c)
        BY <1>0, <2>0, <2>a, <2>7 DEF Progress, CutShort, TransactionsTypeOK, EntityFits
    <2>8. CASE DeployResumes(c)
        <3>1. at[c] = "run" /\ held[c] \in Row /\ UNCHANGED <<kindOf, record>>
            BY <1>0, <2>0, <2>8 DEF DeployResumes, TransactionsTypeOK, EntityFits
        <3>2. CASE result'[c] = "ok"
            <4>1. held'[c] = [held[c] EXCEPT !.live = c] /\ at'[c] = "save_read"
                BY <1>0, <2>0, <2>8, <3>2 DEF DeployResumes, TransactionsTypeOK
            <4>2. held'[c] \in Row /\ held'[c].live = c /\ held'[c].kind = held[c].kind
                BY <3>1, <4>1 DEF Row
            <4> QED BY <2>0, <3>1, <4>1, <4>2, TransactionsAssumption DEF EntityFits
        <3>3. CASE result'[c] # "ok"
            <4>1. held'[c] = held[c] /\ at'[c] = "finish"
                BY <1>0, <2>0, <2>8, <3>3 DEF DeployResumes, TransactionsTypeOK
            <4> QED BY <2>0, <3>1, <3>3, <4>1 DEF EntityFits
        <3> QED BY <3>2, <3>3
    <2>9. CASE Conclude(c)
        BY <1>0, <2>0, <2>a, <2>9 DEF Conclude, TransactionsTypeOK, EntityFits
    <2> QED BY <1>1, <2>1, <2>2, <2>3, <2>4, <2>5, <2>6, <2>7, <2>8, <2>9
            DEF CallStep, CallStatement, TaskStep
<1>2. ASSUME NEW d \in Other, OtherStep(d)
      PROVE  EntitiesInv'
    <2>1. d \notin Call /\ d \in Session
        BY <1>0
    <2>2. \A c \in Call : EntityFits(c)'
        <3>1. \A c \in Call : record'[c] # "none" => record[c] # "none"
            BY <1>0, <1>2 DEF OtherStep, OtherStatement, BeginDelete, Cleaned, DeleteRow, BeginEdit,
                Edit, Select, Flush, ScopeEnds, TransactionsTypeOK
        <3>2. \A c \in Call : EntityFits(c)
            BY <1>0 DEF EntitiesInv
        <3> QED BY <1>0, <1>2, <2>1, <3>1, <3>2, OtherFrame DEF EntityFits, coordinatorVars, callVars
    <2>3. /\ at'[d] # "idle" => held'[d] # Absent
          /\ at'[d] \in {"redirect", "save", "edit"} => read'[d] # Absent
        <3>1. at[d] \in OtherPlace /\ (at[d] # "idle" => held[d] # Absent)
            BY <1>0 DEF PlacesInv, EntitiesInv
        <3>2. table # Absent => [table EXCEPT !.auto = ~@] \in Row
            BY <1>0 DEF TransactionsTypeOK, Row
        <3>3. CASE BeginDelete(d) \/ Cleaned(d) \/ DeleteRow(d) \/ BeginEdit(d) \/ ScopeEnds(d)
            BY <1>0, <2>1, <3>1, <3>2, <3>3, TransactionsAssumption
               DEF BeginDelete, Cleaned, DeleteRow, BeginEdit, ScopeEnds, TransactionsTypeOK
        <3>4. CASE Edit(d)
            BY <1>0, <2>1, <3>1, <3>4, TransactionsAssumption
               DEF Edit, Select, Flush, Committed, TransactionsTypeOK
        <3> QED BY <1>2, <3>3, <3>4 DEF OtherStep, OtherStatement
    <2> QED BY <1>0, <1>2, <2>2, <2>3, OtherFrame DEF EntitiesInv
<1>3. CASE CancelCurrent \/ UNCHANGED transactionVars
    BY <1>0, <1>3 DEF CancelCurrent, CancelForUser, callVars, transactionVars, EntitiesInv, EntityFits
<1>4. CASE TransactionsRestart
    <2>1. \A c \in Call : at'[c] = IF at[c] \in {"idle", "over"} THEN at[c] ELSE "lost"
        BY <1>0, <1>4 DEF TransactionsRestart
    <2>2. \A s \in Session \ Call : at'[s] = "idle"
        BY <1>4 DEF TransactionsRestart
    <2>3. \A c \in Call : held'[c] = held[c]
        BY <1>0, <1>4 DEF TransactionsRestart
    <2>4. UNCHANGED <<kindOf, record, result>>
        BY <1>4 DEF TransactionsRestart, Restart
    <2> QED BY <1>0, <2>1, <2>2, <2>3, <2>4 DEF EntitiesInv, EntityFits
<1> QED BY <1>1, <1>2, <1>3, <1>4, Cases

----------------------------------------------------------------------------
(* What a step of session s does to the row, to the history, and to what   *)
(* the use cases hold.                                                     *)

Acts(s) == (s \in Call /\ CallStep(s)) \/ (s \in Other /\ OtherStep(s))

(* s writes, and has the lock from now on. *)
Takes(s) ==
    /\ writer = NoSession /\ writer' = s /\ table' = table /\ record' = record
    /\ held' = held /\ read' = read /\ spoiled' = spoiled
    /\ UNCHANGED coordinatorVars
    /\ \/ /\ at[s] = "insert" /\ at'[s] = "record" /\ s \in Call
          /\ table = Absent /\ written' = held[s]
       \/ /\ \/ at[s] = "redirect" /\ at'[s] = "record" /\ s \in Call
             \/ at[s] = "save" /\ at'[s] = "finish" /\ s \in Call
             \/ at[s] = "edit" /\ at'[s] = "commit" /\ s \in Other
          /\ Committed(s) /\ written' = Merged(table, read[s], held[s])
       \/ /\ at[s] = "delete" /\ at'[s] = "commit" /\ s \in Other
          /\ Committed(s) /\ written' = written

(* s commits what it has written. *)
Commits(s) ==
    /\ writer = s /\ table' = written /\ writer' = NoSession /\ written' = Absent
    /\ \/ at[s] = "record" /\ at'[s] = "load" /\ s \in Call
       \/ at[s] = "finish" /\ at'[s] = "over" /\ s \in Call
       \/ at[s] = "commit" /\ at'[s] = "idle" /\ s \in Other

(* Every statement of a session that has written ends its transaction. *)
LEMMA RowMoves ==
    ASSUME TransactionsAll, NEW s \in Session, Acts(s)
    PROVE  \/ writer # s /\ UNCHANGED <<table, writer, written>>
           \/ Takes(s)
           \/ Commits(s)
<1>0. /\ CoordinatorInv /\ TransactionsTypeOK /\ PlacesInv /\ EntitiesInv /\ WriterInv
      /\ NoSession \notin Session /\ Call \cap Other = {}
    BY TransactionsAssumption DEF TransactionsAll
<1>1. writer = s => at[s] \in {"record", "finish", "commit"}
    BY <1>0 DEF WriterInv
<1> USE DEF Goto, sessionVars, dbVars
<1> DEFINE Quiet == writer # s /\ UNCHANGED <<table, writer, written>>
<1>2. CASE s \in Call /\ ((\E k \in Kind : Begin(s, k)) \/ Analyzed(s) \/ Lookup(s) \/ Load(s))
    <2>1. Quiet
        BY <1>1, <1>2 DEF Begin, Analyzed, Lookup, Load
    <2> QED BY <2>1
<1>3. CASE s \in Call /\ Insert(s)
    <2>1. /\ at[s] = "insert" /\ writer = NoSession
          /\ UNCHANGED <<sessionVars, record, table, coordinatorVars>>
        BY <1>3 DEF Insert
    <2>2. CASE table = Absent
        <3>1. at'[s] = "record" /\ writer' = s /\ written' = held[s]
            BY <1>0, <1>3, <2>2 DEF Insert, TransactionsTypeOK
        <3> QED BY <1>3, <2>1, <2>2, <3>1 DEF Takes
    <2>3. CASE table # Absent
        BY <1>0, <1>3, <2>1, <2>3 DEF Insert
    <2> QED BY <2>2, <2>3
<1>4. ASSUME at[s] \in {"redirect", "save", "edit"}, NEW done, NEW failed, Flush(s, done, failed),
             \/ at[s] = "redirect" /\ done = "record" /\ s \in Call
             \/ at[s] = "save" /\ done = "finish" /\ s \in Call
             \/ at[s] = "edit" /\ done = "commit" /\ s \in Other,
             UNCHANGED coordinatorVars
      PROVE  Quiet \/ Takes(s)
    <2>1. writer # s
        BY <1>1, <1>4
    <2>2. CASE held[s] = read[s]
        BY <1>4, <2>1, <2>2 DEF Flush
    <2>3. CASE held[s] # read[s] /\ ~Committed(s)
        BY <1>4, <2>1, <2>3 DEF Flush
    <2>4. CASE held[s] # read[s] /\ Committed(s)
        <3>1. /\ writer = NoSession /\ writer' = s /\ written' = Merged(table, read[s], held[s])
              /\ UNCHANGED <<sessionVars, record, table>> /\ at' = [at EXCEPT ![s] = done]
            BY <1>4, <2>4 DEF Flush
        <3>2. at'[s] = done
            BY <1>0, <3>1 DEF TransactionsTypeOK
        <3> QED BY <1>4, <2>4, <3>1, <3>2 DEF Takes
    <2> QED BY <2>2, <2>3, <2>4
<1>5. CASE s \in Call /\ (Redirect(s) \/ Save(s))
    <2>1. CASE at[s] \in {"redirect_read", "save_read"}
        BY <1>1, <1>5, <2>1 DEF Redirect, Save, Select
    <2>2. CASE at[s] \in {"redirect", "save"}
        <3>1. UNCHANGED coordinatorVars
            BY <1>5 DEF Redirect, Save
        <3>2. \/ at[s] = "redirect" /\ Flush(s, "record", "over")
              \/ at[s] = "save" /\ Flush(s, "finish", "finish")
            BY <1>5, <2>2 DEF Redirect, Save
        <3> QED BY <1>4, <1>5, <3>1, <3>2
    <2> QED BY <1>5, <2>1, <2>2 DEF Redirect, Save
<1>6. CASE s \in Call /\ Record(s)
    <2>1. /\ at[s] = "record"
          /\ \/ at' = [at EXCEPT ![s] = "load"] /\ Commit(s)
             \/ UNCHANGED dbVars /\ ~HasProject(s)
        BY <1>6 DEF Record
    <2>2. CASE writer = s
        <3>1. at'[s] = "load" /\ table' = written /\ writer' = NoSession /\ written' = Absent
            BY <1>0, <2>1, <2>2 DEF HasProject, Commit, TransactionsTypeOK
        <3> QED BY <1>6, <2>1, <2>2, <3>1 DEF Commits
    <2>3. CASE writer # s
        BY <2>1, <2>3 DEF Commit
    <2> QED BY <2>2, <2>3
<1>7. CASE s \in Call /\ TaskStep(s)
    <2>1. writer # s
        BY <1>0, <1>1, <1>7, TaskPlace
    <2> QED BY <1>7, <2>1 DEF TaskStep, TaskStarts, TaskCancelledEarly, Progress, CutShort,
                              ExecutorEnds, DeployResumes
<1>8. CASE s \in Call /\ Conclude(s)
    <2>1. /\ at[s] = "finish" /\ at' = [at EXCEPT ![s] = "over"]
          /\ IF GetsVerdict(s) THEN Commit(s) ELSE UNCHANGED dbVars
        BY <1>8 DEF Conclude
    <2>2. CASE writer = s
        <3>1. GetsVerdict(s)
            BY <1>0, <2>1, <2>2 DEF WriterInv
        <3>2. at'[s] = "over" /\ table' = written /\ writer' = NoSession /\ written' = Absent
            BY <1>0, <2>1, <2>2, <3>1 DEF Commit, TransactionsTypeOK
        <3> QED BY <1>8, <2>1, <2>2, <3>2 DEF Commits
    <2>3. CASE writer # s
        BY <2>1, <2>3 DEF Commit
    <2> QED BY <2>2, <2>3
<1>9. CASE s \in Other /\ (BeginDelete(s) \/ Cleaned(s) \/ BeginEdit(s))
    BY <1>1, <1>9 DEF BeginDelete, Cleaned, BeginEdit
<1>10. CASE s \in Other /\ DeleteRow(s)
    <2>1. /\ at[s] = "delete" /\ writer = NoSession /\ at'[s] = "commit"
          /\ writer' = IF Committed(s) THEN s ELSE NoSession
          /\ UNCHANGED <<sessionVars, record, table, written, coordinatorVars>>
        BY <1>0, <1>10 DEF DeleteRow, TransactionsTypeOK
    <2>2. CASE Committed(s)
        BY <1>10, <2>1, <2>2 DEF Takes
    <2>3. CASE ~Committed(s)
        BY <1>0, <2>1, <2>3
    <2> QED BY <2>2, <2>3
<1>11. CASE s \in Other /\ Edit(s)
    <2>1. CASE at[s] = "edit_read"
        BY <1>1, <1>11, <2>1 DEF Edit, Select
    <2>2. CASE at[s] = "edit"
        <3>1. UNCHANGED coordinatorVars /\ Flush(s, "commit", "idle")
            BY <1>11, <2>2 DEF Edit
        <3> QED BY <1>4, <1>11, <2>2, <3>1
    <2> QED BY <1>11, <2>1, <2>2 DEF Edit
<1>12. CASE s \in Other /\ ScopeEnds(s)
    <2>1. at[s] = "commit" /\ at'[s] = "idle" /\ Commit(s)
        BY <1>0, <1>12 DEF ScopeEnds, TransactionsTypeOK
    <2>2. CASE writer = s
        BY <1>12, <2>1, <2>2 DEF Commit, Commits
    <2>3. CASE writer # s
        BY <2>1, <2>3 DEF Commit
    <2> QED BY <2>2, <2>3
<1> QED BY <1>2, <1>3, <1>5, <1>6, <1>7, <1>8, <1>9, <1>10, <1>11, <1>12
        DEF Acts, CallStep, CallStatement, OtherStep, OtherStatement

(* What a step of a call does to its own record and its own entity. *)
LEMMA CallMoves ==
    ASSUME TransactionsAll, NEW c \in Call, CallStep(c)
    PROVE  /\ at[c] \notin {"over", "lost"}
           /\ at'[c] \in Preparing => at[c] \in Preparing
           /\ at[c] \in Preparing => at'[c] \in Preparing \cup {"load", "over"}
           /\ at'[c] # "idle" /\ (at'[c] = "load" => at[c] = "record")
           /\ \/ record'[c] = record[c]
              \/ /\ at[c] = "record" /\ HasProject(c) /\ record'[c] = "queued"
              \/ /\ at[c] \in {"planning", "running"} /\ record[c] # "none"
                 /\ record'[c] = at[c]
              \/ /\ at[c] = "finish" /\ at'[c] = "over" /\ GetsVerdict(c)
                 /\ record'[c] = Verdict(result[c])
           /\ at[c] = "record" => \/ at'[c] = "load" /\ record'[c] = "queued"
                                  \/ at'[c] = "over" /\ record'[c] = record[c]
           /\ at[c] = "finish" /\ GetsVerdict(c) => record'[c] = Verdict(result[c])
           /\ \/ held'[c] = held[c]
              \/ at[c] = "lookup" /\ held'[c] = Entity(c) /\ kindOf[c] \in Kind
                 /\ at'[c] = IF table = Absent THEN "insert"
                             ELSE IF table.kind = kindOf[c] THEN "record" ELSE "redirect_read"
              \/ /\ at[c] = "run" /\ held[c] # Absent /\ held'[c] # Absent
                 /\ held'[c].id = held[c].id
           /\ read'[c] \in {read[c], Absent, table}
<1>0. /\ CoordinatorInv /\ TransactionsTypeOK /\ PlacesInv /\ EntitiesInv
      /\ c \in Session /\ EntityFits(c)
    BY DEF TransactionsAll, Session, EntitiesInv
<1> USE DEF Goto, sessionVars, dbVars
<1>1. CASE (\E k \in Kind : Begin(c, k)) \/ Analyzed(c) \/ Insert(c) \/ Load(c)
    BY <1>0, <1>1 DEF Begin, Analyzed, Insert, Load, TransactionsTypeOK, Preparing
<1>2. CASE Lookup(c)
    <2>1. kindOf[c] \in Kind
        BY <1>0, <1>2 DEF Lookup, EntityFits
    <2> QED BY <1>0, <1>2, <2>1 DEF Lookup, TransactionsTypeOK, Preparing
<1>3. CASE Redirect(c) \/ Save(c)
    BY <1>0, <1>3 DEF Redirect, Save, Select, Flush, TransactionsTypeOK, Preparing
<1>4. CASE Record(c)
    BY <1>0, <1>4 DEF Record, TransactionsTypeOK, Preparing
<1>5. CASE TaskStarts(c) \/ TaskCancelledEarly(c) \/ Progress(c) \/ CutShort(c) \/ ExecutorEnds(c)
    <2>1. at[c] \in {"planning", "running", "run"}
        BY <1>0, <1>5, TaskPlace DEF TaskStep
    <2> QED BY <1>0, <1>5, <2>1 DEF TaskStarts, TaskCancelledEarly, Progress, CutShort,
            ExecutorEnds, TransactionsTypeOK, Preparing
<1>6. CASE DeployResumes(c)
    <2>1. at[c] = "run" /\ held[c] \in Row /\ held[c] # Absent
        BY <1>0, <1>6 DEF DeployResumes, EntityFits, TransactionsTypeOK
    <2>2. [held[c] EXCEPT !.live = c] \in Row /\ [held[c] EXCEPT !.live = c].id = held[c].id
        BY <2>1 DEF Row
    <2>3. held'[c] # Absent /\ held'[c].id = held[c].id
        BY <1>0, <1>6, <2>1, <2>2, TransactionsAssumption DEF DeployResumes, TransactionsTypeOK
    <2>4. /\ at'[c] \in {"save_read", "finish"} /\ record' = record /\ read' = read
        BY <1>0, <1>6 DEF DeployResumes, TransactionsTypeOK
    <2> QED BY <2>1, <2>3, <2>4 DEF Preparing
<1>7. CASE Conclude(c)
    BY <1>0, <1>7 DEF Conclude, TransactionsTypeOK, Preparing
<1> QED BY <1>1, <1>2, <1>3, <1>4, <1>5, <1>6, <1>7 DEF CallStep, CallStatement, TaskStep

(* The same for another session, which deletes histories. *)
LEMMA OtherMoves ==
    ASSUME TransactionsAll, NEW d \in Other, OtherStep(d)
    PROVE  /\ \/ held'[d] \in {held[d], Absent}
              \/ /\ table # Absent /\ held'[d] # Absent /\ held'[d].id = table.id
                 /\ held'[d].live = table.live
           /\ read'[d] \in {read[d], Absent, table}
           /\ IF Commits(d) /\ written = Absent
              THEN \A c \in Call : record'[c] = IF held[c] # Absent /\ held[c].id = held[d].id
                                                THEN "none" ELSE record[c]
              ELSE record' = record
<1>0. TransactionsTypeOK /\ EntitiesInv /\ d \in Session /\ Call \cap Other = {}
    BY TransactionsAssumption DEF TransactionsAll, Session
<1> USE DEF Goto, sessionVars, dbVars
<1>a. Commits(d) => at[d] = "commit" /\ at'[d] = "idle" /\ writer = d
    BY <1>0 DEF Commits
<1>1. CASE BeginDelete(d) \/ Cleaned(d) \/ DeleteRow(d)
    BY <1>0, <1>a, <1>1 DEF BeginDelete, Cleaned, DeleteRow, TransactionsTypeOK
<1>2. CASE BeginEdit(d)
    <2>1. table \in Row
        BY <1>0, <1>2 DEF BeginEdit, TransactionsTypeOK
    <2>2. /\ [table EXCEPT !.auto = ~@] \in Row /\ [table EXCEPT !.auto = ~@].id = table.id
          /\ [table EXCEPT !.auto = ~@].live = table.live
        BY <2>1 DEF Row
    <2>3. held'[d] = [table EXCEPT !.auto = ~@] /\ read' = read /\ record' = record
        BY <1>0, <1>2 DEF BeginEdit, TransactionsTypeOK
    <2>4. ~Commits(d)
        BY <1>a, <1>2 DEF BeginEdit
    <2> QED BY <2>1, <2>2, <2>3, <2>4, TransactionsAssumption
<1>3. CASE Edit(d)
    BY <1>0, <1>a, <1>3 DEF Edit, Select, Flush, TransactionsTypeOK
<1>4. CASE ScopeEnds(d)
    <2>1. held'[d] = Absent /\ read'[d] = Absent
        BY <1>0, <1>4 DEF ScopeEnds, TransactionsTypeOK
    <2>2. at[d] = "commit" /\ at'[d] = "idle" /\ Commit(d)
        BY <1>0, <1>4 DEF ScopeEnds, TransactionsTypeOK
    <2>3. CASE writer = d /\ written = Absent
        <3>1. Commits(d)
            BY <2>2, <2>3 DEF Commit, Commits
        <3>2. record' = [c \in Call |-> IF held[c] # Absent /\ held[c].id = held[d].id
                                        THEN "none" ELSE record[c]]
            BY <1>4, <2>3 DEF ScopeEnds
        <3> QED BY <2>1, <2>3, <3>1, <3>2
    <2>4. CASE ~(writer = d /\ written = Absent)
        <3>1. record' = record
            BY <1>4, <2>4 DEF ScopeEnds
        <3>2. ~(Commits(d) /\ written = Absent)
            BY <1>a, <2>4
        <3> QED BY <2>1, <3>1, <3>2
    <2> QED BY <2>3, <2>4
<1> QED BY <1>1, <1>2, <1>3, <1>4 DEF OtherStep, OtherStatement

(* The row is another one only when it is deleted, or inserted by the call *)
(* that it is named after.                                                 *)
LEMMA RowChange ==
    ASSUME TransactionsAll, NEW s \in Session, Acts(s)
    PROVE  \/ table' = table
           \/ table' = Absent /\ s \in Other /\ Commits(s) /\ written = Absent
              /\ held[s] # Absent /\ table # Absent /\ table.id = held[s].id
           \/ table # Absent /\ table' # Absent /\ table'.id = table.id
              /\ table'.id = held[s].id /\ table' = written /\ Commits(s)
           \/ /\ s \in Call /\ table = Absent /\ table' # Absent /\ table'.id = s
              /\ held[s] # Absent /\ held[s].id = s /\ at[s] = "record" /\ at'[s] = "load"
              /\ table' = written /\ Commits(s)
<1>0. WriterInv /\ NoSession \notin Session /\ Call \cap Other = {}
    BY TransactionsAssumption DEF TransactionsAll
<1>1. CASE (writer # s /\ UNCHANGED <<table, writer, written>>) \/ Takes(s)
    BY <1>1 DEF Takes
<1>2. CASE Commits(s)
    BY <1>0, <1>2 DEF WriterInv, Commits
<1> QED BY <1>1, <1>2, RowMoves

(* A crash, seen from each session. *)
LEMMA RestartMoves ==
    ASSUME TransactionsAll, TransactionsRestart
    PROVE  /\ \A c \in Call : /\ at'[c] = IF at[c] \in {"idle", "over"} THEN at[c] ELSE "lost"
                              /\ held'[c] = held[c] /\ read'[c] = Absent
           /\ \A d \in Other : at'[d] = "idle" /\ held'[d] = Absent /\ read'[d] = Absent
           /\ writer' = NoSession /\ written' = Absent
           /\ UNCHANGED <<kindOf, spoiled, record, table, result, outcome, cancelling>>
BY TransactionsAssumption DEF TransactionsRestart, Restart, Session

(* A call inserts its project, or gives up. *)
LEMMA InsertMoves ==
    ASSUME TransactionsAll, NEW c \in Call, CallStep(c), at[c] = "insert"
    PROVE  at'[c] = "over" \/ (at'[c] = "record" /\ writer' = c)
<1>1. CoordinatorInv /\ PlacesInv /\ TransactionsTypeOK /\ Call \subseteq Session
    BY DEF TransactionsAll, Session
<1>2. ~TaskStep(c)
    BY <1>1, TaskPlace
<1>3. Insert(c)
    BY <1>2 DEF CallStep, CallStatement, Begin, Analyzed, Lookup, Redirect, Record, Load, Save,
                Conclude
<1> QED BY <1>1, <1>3 DEF Insert, Goto, TransactionsTypeOK

(* The name of a call that has not inserted its project yet is unused. *)
LEMMA IdsStep ==
    TransactionsAll /\ [TransactionsNext]_transactionVars => IdsInv'
<1> SUFFICES ASSUME TransactionsAll, [TransactionsNext]_transactionVars
             PROVE  IdsInv'
    OBVIOUS
<1>0. /\ CoordinatorTypeOK /\ TransactionsTypeOK /\ IdsInv
      /\ Call \subseteq Session /\ Other \subseteq Session /\ Call \cap Other = {}
      /\ NoSession \notin Session
    BY TransactionsAssumption DEF TransactionsAll, CoordinatorInv, Session
<1>1. ASSUME NEW c \in Call, CallStep(c), NEW p \in Call, at'[p] \in Preparing
      PROVE  /\ record'[p] = "none"
             /\ table' # Absent => table'.id # p
             /\ \A s \in Session : s # p /\ held'[s] # Absent => held'[s].id # p
             /\ held'[p] # Absent /\ held'[p].id = p =>
                    at'[p] = "insert" \/ (at'[p] = "record" /\ writer' = p)
    <2>0. c \in Session /\ Acts(c)
        BY <1>0, <1>1 DEF Acts
    <2>1. at[p] \in Preparing
        BY <1>0, <1>1, CallFrame, CallMoves
    <2>2. /\ record[p] = "none"
          /\ table # Absent => table.id # p
          /\ \A s \in Session : s # p /\ held[s] # Absent => held[s].id # p
          /\ held[p] # Absent /\ held[p].id = p =>
                 at[p] = "insert" \/ (at[p] = "record" /\ writer = p)
        BY <1>0, <2>1 DEF IdsInv
    <2>3. record'[p] = "none"
        <3>1. CASE p = c
            BY <1>1, <2>1, <2>2, <3>1, CallMoves DEF Preparing
        <3>2. CASE p # c
            BY <1>0, <1>1, <2>2, <3>2, CallFrame
        <3> QED BY <3>1, <3>2
    <2>4. table' # Absent => table'.id # p
        BY <1>1, <2>0, <2>2, RowChange DEF Preparing
    <2>5. ASSUME at[c] = "lookup", kindOf[c] \in Kind
          PROVE  Entity(c).id \in {c, table.id} /\ (table # Absent => Entity(c).id = table.id)
        BY <1>0, <2>5, EntityOf DEF TransactionsTypeOK
    <2>6. \A s \in Session : s # p /\ held'[s] # Absent => held'[s].id # p
        <3>1. c # p /\ held'[c] # Absent => held'[c].id # p
            <4>1. CASE held'[c] = held[c]
                BY <2>0, <2>2, <4>1
            <4>2. CASE at[c] = "lookup" /\ held'[c] = Entity(c) /\ kindOf[c] \in Kind
                <5>1. CASE table = Absent
                    BY <1>0, <4>2, <5>1, EntityOf
                <5>2. CASE table # Absent
                    BY <2>2, <2>5, <4>2, <5>2
                <5> QED BY <5>1, <5>2
            <4>3. CASE at[c] = "run" /\ held[c] # Absent /\ held'[c].id = held[c].id
                BY <2>0, <2>2, <4>3
            <4> QED BY <1>1, <4>1, <4>2, <4>3, CallMoves
        <3> QED BY <1>0, <1>1, <2>2, <3>1, CallFrame
    <2>7. ASSUME held'[p] # Absent, held'[p].id = p
          PROVE  at'[p] = "insert" \/ (at'[p] = "record" /\ writer' = p)
        <3>1. CASE p # c
            <4>1. held[p] # Absent /\ held[p].id = p /\ at'[p] = at[p]
                BY <1>0, <1>1, <2>7, <3>1, CallFrame
            <4>2. writer = p => writer' = p
                BY <1>0, <2>0, <3>1, RowMoves DEF Takes, Commits
            <4> QED BY <2>2, <4>1, <4>2
        <3>2. CASE p = c /\ held'[c] = held[c]
            <4>1. at[c] = "insert"
                BY <1>1, <2>2, <2>7, <3>2, CallMoves DEF Preparing
            <4> QED BY <1>1, <3>2, <4>1, InsertMoves DEF Preparing
        <3>3. CASE p = c /\ held'[c] # held[c]
            <4>1. at[c] = "lookup" /\ held'[c] = Entity(c) /\ kindOf[c] \in Kind
                  /\ at'[c] = IF table = Absent THEN "insert"
                              ELSE IF table.kind = kindOf[c] THEN "record" ELSE "redirect_read"
                BY <1>1, <2>1, <3>3, CallMoves DEF Preparing
            <4> QED BY <2>2, <2>5, <2>7, <3>3, <4>1
        <3> QED BY <3>1, <3>2, <3>3
    <2> QED BY <2>3, <2>4, <2>6, <2>7
<1>2. ASSUME NEW d \in Other, OtherStep(d), NEW p \in Call, at'[p] \in Preparing
      PROVE  /\ record'[p] = "none"
             /\ table' # Absent => table'.id # p
             /\ \A s \in Session : s # p /\ held'[s] # Absent => held'[s].id # p
             /\ held'[p] # Absent /\ held'[p].id = p =>
                    at'[p] = "insert" \/ (at'[p] = "record" /\ writer' = p)
    <2>0. d \in Session /\ Acts(d) /\ p # d /\ p \in Session /\ d \notin Call
        BY <1>0, <1>2 DEF Acts
    <2>1. at'[p] = at[p] /\ held'[p] = held[p]
        BY <1>0, <1>2, <2>0, OtherFrame
    <2>2. /\ record[p] = "none"
          /\ table # Absent => table.id # p
          /\ \A s \in Session : s # p /\ held[s] # Absent => held[s].id # p
          /\ held[p] # Absent /\ held[p].id = p =>
                 at[p] = "insert" \/ (at[p] = "record" /\ writer = p)
        BY <1>0, <1>2, <2>1 DEF IdsInv
    <2>3. record'[p] = "none"
        BY <1>2, <2>2, OtherMoves
    <2>4. table' # Absent => table'.id # p
        BY <2>0, <2>2, RowChange
    <2>5. \A s \in Session : s # p /\ held'[s] # Absent => held'[s].id # p
        <3>1. held'[d] # Absent => held'[d].id # p
            BY <1>2, <2>0, <2>2, OtherMoves
        <3> QED BY <1>0, <1>2, <2>2, <3>1, OtherFrame
    <2>6. writer = p => writer' = p
        BY <1>0, <2>0, RowMoves DEF Takes, Commits
    <2> QED BY <2>1, <2>2, <2>3, <2>4, <2>5, <2>6
<1>3. CASE CancelCurrent \/ UNCHANGED transactionVars
    BY <1>0, <1>3 DEF CancelCurrent, transactionVars, sessionVars, dbVars, IdsInv
<1>4. CASE TransactionsRestart
    <2>1. \A p \in Call : at'[p] \in Preparing => at'[p] = "idle" /\ at[p] = "idle"
        BY <1>4, RestartMoves DEF Preparing
    <2>2. \A s \in Session : held'[s] \in {held[s], Absent}
        BY <1>4, RestartMoves DEF Session
    <2>3. record' = record /\ table' = table
        BY <1>4, RestartMoves
    <2> QED BY <1>0, <2>1, <2>2, <2>3 DEF IdsInv, Preparing
<1> QED BY <1>1, <1>2, <1>3, <1>4, Cases DEF IdsInv

(* The lock and what is written under it, once a statement has taken it. *)
LEMMA TakenRow ==
    ASSUME TransactionsAll, NEW s \in Session, Takes(s)
    PROVE  /\ at'[s] \in {"record", "finish", "commit"}
           /\ held[s] # Absent
           /\ written' = Absent => s \in Other
           /\ written' # Absent => /\ written'.id = held[s].id
                                   /\ read[s] = table => written' = held[s]
           /\ IF at'[s] = "record" /\ held[s].id = s
              THEN table = Absent ELSE table # Absent /\ table.id = held[s].id
           /\ at'[s] = "record" => held[s].live = NoCall
           /\ at'[s] = "finish" => /\ s \in Call /\ result[s] = "ok" /\ GetsVerdict(s)
                                   /\ at[s] = "save" /\ written'.live = s
<1>0. /\ TransactionsTypeOK /\ PlacesInv /\ EntitiesInv /\ IdsInv /\ WriterInv
      /\ HistoryBelongsToProject /\ LiveInv /\ SpoiledInv
      /\ Call \cap Other = {} /\ Absent \notin Row /\ NoCall \notin Call
    BY TransactionsAssumption, NoneAssumption DEF TransactionsAll
<1>1. CASE at[s] = "insert"
    <2>1. s \in Call /\ EntityFits(s) /\ at'[s] = "record" /\ table = Absent /\ written' = held[s]
        BY <1>0, <1>1 DEF Takes, EntitiesInv
    <2> QED BY <1>1, <2>1 DEF EntityFits
<1>2. CASE at[s] \in {"redirect", "save", "edit"}
    <2>1. /\ Committed(s) /\ written' = Merged(table, read[s], held[s])
          /\ \/ at[s] = "redirect" /\ at'[s] = "record" /\ s \in Call
             \/ at[s] = "save" /\ at'[s] = "finish" /\ s \in Call
             \/ at[s] = "edit" /\ at'[s] = "commit" /\ s \in Other
        BY <1>2 DEF Takes
    <2>2. table \in Row /\ table # Absent /\ held[s] \in Row /\ held[s] # Absent /\ read[s] \in Row
          /\ held[s].id = table.id
        BY <1>0, <1>2, <2>1 DEF TransactionsTypeOK, EntitiesInv, EntityFits, Committed
    <2>3. /\ written' \in Row /\ written'.id = held[s].id
          /\ written'.live = IF held[s].live # read[s].live THEN held[s].live ELSE table.live
          /\ table = read[s] => written' = held[s]
        BY <2>1, <2>2, MergedRow
    <2>4. CASE at[s] = "redirect"
        <3>1. EntityFits(s) /\ s \in Call
            BY <1>0, <2>1, <2>4 DEF EntitiesInv
        <3>2. held[s].id # s
            BY <1>0, <2>2, <2>4, <3>1 DEF IdsInv, Preparing
        <3> QED BY <1>0, <2>1, <2>2, <2>3, <2>4, <3>1, <3>2 DEF EntityFits
    <2>5. CASE at[s] = "save"
        <3>1. EntityFits(s) /\ s \in Call /\ at'[s] = "finish"
            BY <1>0, <2>1, <2>5 DEF EntitiesInv
        <3>2. result[s] = "ok" /\ held[s].live = s
            BY <1>0, <2>5, <3>1 DEF PlacesInv, EntityFits
        <3>3. record[s] # "none" /\ s \notin spoiled
            BY <1>0, <2>1, <2>5, <3>1 DEF HistoryBelongsToProject, SpoiledInv
        <3>4. read[s].live # s
            BY <1>0, <2>2, <2>5, <3>1 DEF LiveInv, Real
        <3> QED BY <1>0, <2>2, <2>3, <2>5, <3>1, <3>2, <3>3, <3>4 DEF GetsVerdict
    <2>6. CASE at[s] = "edit"
        BY <1>0, <2>1, <2>2, <2>3, <2>6
    <2> QED BY <1>2, <2>4, <2>5, <2>6
<1>3. CASE at[s] = "delete"
    <2>1. s \in Other /\ at'[s] = "commit" /\ Committed(s) /\ written' = Absent
        BY <1>0, <1>3 DEF Takes, WriterInv
    <2> QED BY <1>0, <1>3, <2>1 DEF EntitiesInv, Committed
<1> QED BY <1>1, <1>2, <1>3 DEF Takes

(* What is written, and by whom. *)
LEMMA WriterStep ==
    TransactionsAll /\ [TransactionsNext]_transactionVars => WriterInv'
<1> SUFFICES ASSUME TransactionsAll, [TransactionsNext]_transactionVars
             PROVE  WriterInv'
    OBVIOUS
<1>0. /\ CoordinatorTypeOK /\ TransactionsTypeOK /\ PlacesInv /\ WriterInv
      /\ Call \subseteq Session /\ Other \subseteq Session /\ Call \cap Other = {}
      /\ NoSession \notin Session /\ writer \in Session \cup {NoSession}
    BY TransactionsAssumption DEF TransactionsAll, CoordinatorInv, TransactionsTypeOK, Session
<1>1. ASSUME NEW s \in Session, Acts(s)
      PROVE  WriterInv'
    <2>1. CASE Takes(s)
        <3>1. /\ writer' = s /\ table' = table /\ record' = record
              /\ held' = held /\ read' = read /\ spoiled' = spoiled /\ result' = result
            BY <2>1 DEF Takes, coordinatorVars
        <3>2. s # NoSession
            BY <1>0
        <3> QED BY <2>1, <3>1, <3>2, TakenRow DEF WriterInv, GetsVerdict
    <2>2. CASE Commits(s)
        BY <2>2 DEF Commits, WriterInv
    <2>3. CASE writer # s /\ UNCHANGED <<table, writer, written>>
        <3>1. CASE writer = NoSession
            BY <1>0, <2>3, <3>1 DEF WriterInv
        <3>2. CASE writer # NoSession
            <4>1. /\ at'[writer] = at[writer] /\ held'[writer] = held[writer]
                  /\ read'[writer] = read[writer]
                BY <1>0, <1>1, <2>3, <3>2, CallFrame, OtherFrame DEF Acts
            <4>2. at[writer] = "finish" => writer \in Call
                BY <1>0, <3>2 DEF PlacesInv, OtherPlace, Session
            <4>3. ~Commits(s)
                BY <2>3 DEF Commits
            <4>4. writer \in Call => /\ result'[writer] = result[writer]
                                     /\ record'[writer] = record[writer]
                                     /\ (writer \in spoiled' <=> writer \in spoiled)
                <5>1. CASE s \in Call /\ CallStep(s)
                    BY <1>0, <2>3, <5>1, CallFrame
                <5>2. CASE s \in Other /\ OtherStep(s)
                    BY <1>0, <1>1, <4>3, <5>2, OtherFrame, OtherMoves DEF coordinatorVars
                <5> QED BY <1>1, <5>1, <5>2 DEF Acts
            <4> QED BY <1>0, <2>3, <3>2, <4>1, <4>2, <4>4 DEF WriterInv, GetsVerdict
        <3> QED BY <3>1, <3>2
    <2> QED BY <1>1, <2>1, <2>2, <2>3, RowMoves
<1>2. CASE CancelCurrent \/ UNCHANGED transactionVars
    BY <1>0, <1>2 DEF CancelCurrent, CancelForUser, callVars, transactionVars, sessionVars, dbVars,
       WriterInv, GetsVerdict
<1>3. CASE TransactionsRestart
    BY <1>3, RestartMoves DEF WriterInv
<1> QED BY <1>0, <1>1, <1>2, <1>3, Cases DEF Acts

(* Deployments are in the table for as long as their project is. *)
LEMMA HistoryStep ==
    TransactionsAll /\ [TransactionsNext]_transactionVars => HistoryBelongsToProject'
<1> DEFINE Places == {"load", "planning", "running", "run", "save_read", "save", "finish"}
<1> SUFFICES ASSUME TransactionsAll, [TransactionsNext]_transactionVars
             PROVE  \A c \in Call :
                        /\ record'[c] # "none" => table' # Absent /\ table'.id = held'[c].id
                        /\ at'[c] \in Places /\ table' # Absent /\ table'.id = held'[c].id
                               => record'[c] # "none"
    BY DEF HistoryBelongsToProject, Committed
<1>0. /\ CoordinatorTypeOK /\ TransactionsTypeOK /\ PlacesInv /\ EntitiesInv /\ WriterInv /\ IdsInv
      /\ Call \subseteq Session /\ Other \subseteq Session /\ Call \cap Other = {}
      /\ NoSession \notin Session
    BY TransactionsAssumption DEF TransactionsAll, CoordinatorInv, Session
<1>a. \A c \in Call :
          /\ record[c] # "none" => table # Absent /\ table.id = held[c].id
          /\ at[c] \in Places /\ table # Absent /\ table.id = held[c].id => record[c] # "none"
          /\ record[c] # "none" => held[c] # Absent /\ at[c] \notin Preparing
          /\ at[c] \in Places => held[c] # Absent
    BY <1>0 DEF TransactionsAll, HistoryBelongsToProject, Committed, IdsInv, EntitiesInv, EntityFits
<1>1. ASSUME NEW s \in Call, CallStep(s), NEW c \in Call, c # s
      PROVE  /\ record'[c] # "none" => table' # Absent /\ table'.id = held'[c].id
             /\ at'[c] \in Places /\ table' # Absent /\ table'.id = held'[c].id
                    => record'[c] # "none"
    <2>0. s \in Session /\ Acts(s) /\ s \notin Other /\ c \in Session
        BY <1>0, <1>1 DEF Acts
    <2>1. at'[c] = at[c] /\ held'[c] = held[c] /\ record'[c] = record[c]
        BY <1>0, <1>1, <2>0, CallFrame
    <2>2. at[s] = "record" => (held[c] # Absent => held[c].id # s)
        BY <1>0, <1>1, <2>0 DEF IdsInv, Preparing
    <2>3. \/ table' = table
          \/ table # Absent /\ table' # Absent /\ table'.id = table.id
          \/ table = Absent /\ table' # Absent /\ table'.id = s /\ at[s] = "record"
        BY <2>0, RowChange
    <2> QED BY <1>a, <2>1, <2>2, <2>3
<1>2. ASSUME NEW c \in Call, CallStep(c)
      PROVE  /\ record'[c] # "none" => table' # Absent /\ table'.id = held'[c].id
             /\ at'[c] \in Places /\ table' # Absent /\ table'.id = held'[c].id
                    => record'[c] # "none"
    <2>0. c \in Session /\ Acts(c) /\ c \notin Other
        BY <1>0, <1>2 DEF Acts
    <2>1. \/ table' = table
          \/ table # Absent /\ table' # Absent /\ table'.id = table.id
          \/ table = Absent /\ at[c] = "record"
        BY <2>0, RowChange
    <2>2. at[c] # "lookup" => held'[c] = held[c] \/ held'[c].id = held[c].id
        BY <1>2, CallMoves
    <2>3. record[c] # "none" => table' # Absent /\ table'.id = held'[c].id
        BY <1>a, <2>1, <2>2 DEF Preparing
    <2>4. ASSUME at[c] = "record", HasProject(c)
          PROVE  table' # Absent /\ table'.id = held'[c].id
        <3>1. CASE writer = c
            <4>1. table' = written
                BY <1>0, <2>0, <3>1, RowMoves DEF Takes, Commits
            <4> QED BY <1>0, <2>0, <2>2, <2>4, <3>1, <4>1 DEF WriterInv
        <3>2. CASE writer # c
            <4>1. table' = table
                BY <2>0, <3>2, RowMoves DEF Takes, Commits
            <4> QED BY <2>2, <2>4, <3>2, <4>1 DEF HasProject, Committed
        <3> QED BY <3>1, <3>2
    <2>5. record'[c] # "none" => record[c] # "none" \/ (at[c] = "record" /\ HasProject(c))
        BY <1>2, CallMoves DEF GetsVerdict
    <2>6. ASSUME at'[c] \in Places, table' # Absent, table'.id = held'[c].id
          PROVE  record'[c] # "none"
        <3>1. CASE at[c] \in Preparing
            BY <1>2, <2>6, <3>1, CallMoves DEF Preparing
        <3>2. CASE at[c] \notin Preparing
            <4>1. at[c] \in Places
                BY <1>0, <1>2, <3>2, CallMoves DEF PlacesInv, CallPlace
            <4>2. table # Absent /\ table.id = held[c].id
                BY <2>1, <2>2, <2>6, <4>1
            <4>3. record[c] # "none"
                BY <1>a, <4>1, <4>2
            <4>4. Verdict(result[c]) # "none"
                BY DEF Verdict
            <4> QED BY <1>2, <4>1, <4>3, <4>4, CallMoves
        <3> QED BY <3>1, <3>2
    <2> QED BY <2>3, <2>4, <2>5, <2>6
<1>3. ASSUME NEW d \in Other, OtherStep(d), NEW c \in Call
      PROVE  /\ record'[c] # "none" => table' # Absent /\ table'.id = held'[c].id
             /\ at'[c] \in Places /\ table' # Absent /\ table'.id = held'[c].id
                    => record'[c] # "none"
    <2>0. d \in Session /\ Acts(d) /\ d \notin Call /\ c \in Session /\ c # d
        BY <1>0, <1>3 DEF Acts
    <2>1. at'[c] = at[c] /\ held'[c] = held[c]
        BY <1>0, <1>3, <2>0, OtherFrame
    <2>2. CASE Commits(d) /\ written = Absent
        <3>1. table' = Absent
            BY <2>2 DEF Commits
        <3>2. table # Absent => table.id = held[d].id
            BY <2>0, <2>2, <3>1, RowChange
        <3>3. record'[c] = IF held[c] # Absent /\ held[c].id = held[d].id THEN "none" ELSE record[c]
            BY <1>3, <2>2, OtherMoves
        <3> QED BY <1>a, <3>1, <3>2, <3>3
    <2>3. CASE ~(Commits(d) /\ written = Absent)
        <3>1. \/ table' = table
              \/ table # Absent /\ table' # Absent /\ table'.id = table.id
            BY <2>0, <2>3, RowChange
        <3>2. record' = record
            BY <1>3, <2>3, OtherMoves
        <3> QED BY <1>a, <2>1, <3>1, <3>2
    <2> QED BY <2>2, <2>3
<1>4. CASE CancelCurrent \/ UNCHANGED transactionVars
    BY <1>a, <1>4 DEF CancelCurrent, transactionVars, sessionVars, dbVars
<1>5. CASE TransactionsRestart
    BY <1>a, <1>5, RestartMoves
<1> QED BY <1>1, <1>2, <1>3, <1>4, <1>5, Cases

(* Real(row)', for a row that is given. *)
RealNext(row) ==
    row # Absent /\ row.live # NoCall =>
        /\ at'[row.live] = "over"
        /\ held'[row.live] # Absent
        /\ held'[row.live].id = row.id
        /\ table' # Absent /\ table'.id = row.id => record'[row.live] = "successful"

(* A URL stays that of a successful deployment, wherever the row is kept. *)
LEMMA RealStays ==
    ASSUME TransactionsAll, [TransactionsNext]_transactionVars,
           NEW row \in Row \cup {Absent}, Real(row)
    PROVE  RealNext(row)
<1> SUFFICES ASSUME row # Absent, row.live # NoCall
             PROVE  /\ at'[row.live] = "over"
                    /\ held'[row.live] # Absent
                    /\ held'[row.live].id = row.id
                    /\ table' # Absent /\ table'.id = row.id => record'[row.live] = "successful"
    BY DEF RealNext
<1> DEFINE l == row.live
<1>0. /\ CoordinatorTypeOK /\ TransactionsTypeOK /\ PlacesInv /\ IdsInv
      /\ Call \subseteq Session /\ Other \subseteq Session /\ Call \cap Other = {}
    BY TransactionsAssumption DEF TransactionsAll, CoordinatorInv, Session
<1>1. /\ l \in Call /\ l \in Session
      /\ at[l] = "over" /\ held[l] # Absent /\ held[l].id = row.id
      /\ table # Absent /\ table.id = row.id => record[l] = "successful"
    BY <1>0 DEF Real, Row
<1> HIDE DEF l
<1>2. ASSUME NEW c \in Call, CallStep(c)
      PROVE  /\ at'[l] = "over" /\ held'[l] # Absent /\ held'[l].id = row.id
             /\ table' # Absent /\ table'.id = row.id => record'[l] = "successful"
    <2>0. c \in Session /\ Acts(c) /\ c \notin Other
        BY <1>0, <1>2 DEF Acts
    <2>1. l # c
        BY <1>1, <1>2, CallMoves
    <2>2. at'[l] = at[l] /\ held'[l] = held[l] /\ record'[l] = record[l]
        BY <1>0, <1>1, <1>2, <2>1, CallFrame
    <2>3. at[c] = "record" => held[l].id # c
        BY <1>0, <1>1, <1>2, <2>1 DEF IdsInv, Preparing
    <2>4. \/ table' = table
          \/ table # Absent /\ table'.id = table.id
          \/ table' # Absent /\ table'.id = c /\ at[c] = "record"
        BY <2>0, RowChange
    <2> QED BY <1>1, <2>2, <2>3, <2>4
<1>3. ASSUME NEW d \in Other, OtherStep(d)
      PROVE  /\ at'[l] = "over" /\ held'[l] # Absent /\ held'[l].id = row.id
             /\ table' # Absent /\ table'.id = row.id => record'[l] = "successful"
    <2>0. d \in Session /\ Acts(d) /\ d \notin Call /\ l # d
        BY <1>0, <1>1, <1>3 DEF Acts
    <2>1. at'[l] = at[l] /\ held'[l] = held[l]
        BY <1>0, <1>1, <1>3, <2>0, OtherFrame
    <2>2. CASE Commits(d) /\ written = Absent
        BY <1>1, <2>1, <2>2 DEF Commits
    <2>3. CASE ~(Commits(d) /\ written = Absent)
        <3>1. record' = record
            BY <1>3, <2>3, OtherMoves
        <3>2. table' = table \/ (table # Absent /\ table'.id = table.id)
            BY <2>0, <2>3, RowChange
        <3> QED BY <1>1, <2>1, <3>1, <3>2
    <2> QED BY <2>2, <2>3
<1>4. CASE CancelCurrent \/ UNCHANGED transactionVars
    BY <1>1, <1>4 DEF CancelCurrent, transactionVars, sessionVars, dbVars, l
<1>5. CASE TransactionsRestart
    BY <1>1, <1>5, RestartMoves DEF l
<1> QED BY <1>2, <1>3, <1>4, <1>5, Cases DEF l

(* The deployment a project shows has succeeded. *)
LEMMA LiveStep ==
    TransactionsAll /\ [TransactionsNext]_transactionVars => LiveInv'
<1> SUFFICES ASSUME TransactionsAll, [TransactionsNext]_transactionVars
             PROVE  /\ RealNext(table')
                    /\ \A s \in Session : RealNext(read'[s]) /\ (s \in Other => RealNext(held'[s]))
                    /\ written' # Absent =>
                           RealNext(written') \/ (writer' \in Call /\ at'[writer'] = "finish")
    BY DEF LiveInv, Real, RealNext
<1>0. /\ CoordinatorTypeOK /\ TransactionsTypeOK /\ PlacesInv /\ EntitiesInv /\ WriterInv /\ LiveInv
      /\ Call \subseteq Session /\ Other \subseteq Session /\ Call \cap Other = {}
      /\ NoSession \notin Session /\ Absent \notin Row
    BY TransactionsAssumption DEF TransactionsAll, CoordinatorInv, Session
<1>1. RealNext(table) /\ RealNext(Absent)
    BY <1>0, RealStays DEF LiveInv, TransactionsTypeOK, RealNext
<1>2. \A s \in Session : RealNext(read[s]) /\ (s \in Other => RealNext(held[s]))
    BY <1>0, RealStays DEF LiveInv, TransactionsTypeOK
<1>3. ASSUME written # Absent
      PROVE  RealNext(written) \/ (writer \in Call /\ at[writer] = "finish")
    BY <1>0, <1>3, RealStays DEF LiveInv, TransactionsTypeOK
<1>4. ASSUME NEW s \in Session, Acts(s)
      PROVE  RealNext(table')
    <2>1. CASE table' = table \/ table' = Absent
        BY <1>1, <2>1
    <2>2. CASE table' = written /\ Commits(s) /\ written # Absent
        <3>1. CASE RealNext(written)
            BY <2>2, <3>1
        <3>2. CASE s \in Call /\ at[s] = "finish" /\ CallStep(s)
            <4>1. /\ result[s] = "ok" /\ GetsVerdict(s) /\ written.live = s
                  /\ written.id = held[s].id /\ held[s] # Absent /\ at'[s] = "over"
                BY <1>0, <2>2, <3>2 DEF WriterInv, Commits
            <4>2. held'[s] = held[s] /\ record'[s] = "successful"
                BY <3>2, <4>1, CallMoves DEF Verdict
            <4> QED BY <2>2, <4>1, <4>2 DEF RealNext
        <3>3. s \in Call => CallStep(s)
            BY <1>0, <1>4 DEF Acts
        <3> QED BY <1>3, <2>2, <3>1, <3>2, <3>3 DEF Commits
    <2> QED BY <1>4, <2>1, <2>2, RowChange
<1>5. ASSUME NEW s \in Session, Acts(s)
      PROVE  /\ \A r \in Session : RealNext(read'[r]) /\ (r \in Other => RealNext(held'[r]))
    <2>1. \A r \in Session : r # s => read'[r] = read[r] /\ held'[r] = held[r]
        BY <1>0, <1>5, CallFrame, OtherFrame DEF Acts
    <2>2. read'[s] \in {read[s], Absent, table}
        BY <1>5, CallMoves, OtherMoves DEF Acts
    <2>3. s \in Other => RealNext(held'[s])
        <3>1. s \in Other => OtherStep(s)
            BY <1>0, <1>5 DEF Acts
        <3>2. CASE held'[s] \in {held[s], Absent}
            BY <1>1, <1>2, <3>2
        <3>3. CASE table # Absent /\ held'[s].id = table.id /\ held'[s].live = table.live
            BY <1>1, <3>3 DEF RealNext
        <3> QED BY <3>1, <3>2, <3>3, OtherMoves
    <2> QED BY <1>1, <1>2, <2>1, <2>2, <2>3
<1>6. ASSUME NEW s \in Session, Acts(s), written' # Absent
      PROVE  RealNext(written') \/ (writer' \in Call /\ at'[writer'] = "finish")
    <2>1. CASE writer # s /\ UNCHANGED <<table, writer, written>>
        <3>1. writer \in Call => at'[writer] = at[writer]
            BY <1>0, <1>6, <2>1, CallFrame, OtherFrame DEF Acts
        <3> QED BY <1>3, <1>6, <2>1, <3>1
    <2>2. CASE Takes(s)
        <3>1. writer' = s
            BY <2>2 DEF Takes
        <3>2. CASE at[s] = "insert"
            <4>1. s \in Call /\ EntityFits(s) /\ written' = held[s]
                BY <1>0, <2>2, <3>2 DEF Takes, EntitiesInv
            <4> QED BY <3>2, <4>1 DEF EntityFits, RealNext
        <3>3. CASE at[s] \in {"redirect", "save", "edit"}
            <4>1. /\ Committed(s) /\ written' = Merged(table, read[s], held[s])
                  /\ \/ at[s] = "redirect" /\ s \in Call
                     \/ at[s] = "save" /\ at'[s] = "finish" /\ s \in Call
                     \/ at[s] = "edit" /\ s \in Other
                BY <2>2, <3>3 DEF Takes
            <4>2. table \in Row /\ table # Absent /\ held[s] \in Row /\ held[s] # Absent
                  /\ read[s] \in Row /\ held[s].id = table.id
                BY <1>0, <3>3, <4>1 DEF TransactionsTypeOK, EntitiesInv, EntityFits, Committed
            <4>3. /\ written'.id = table.id
                  /\ written'.live \in {held[s].live, table.live}
                BY <4>1, <4>2, MergedRow
            <4>4. CASE at[s] = "redirect"
                <5>1. s \in Call /\ held[s].live = NoCall
                    BY <1>0, <4>1, <4>4 DEF EntitiesInv, EntityFits
                <5> QED BY <1>1, <4>2, <4>3, <5>1 DEF RealNext
            <4>5. CASE at[s] = "save"
                BY <3>1, <4>1, <4>5
            <4>6. CASE at[s] = "edit"
                <5>1. RealNext(held[s])
                    BY <1>2, <4>1, <4>6
                <5> QED BY <1>1, <4>2, <4>3, <5>1 DEF RealNext
            <4> QED BY <3>3, <4>4, <4>5, <4>6
        <3>4. CASE at[s] = "delete"
            BY <1>0, <1>6, <2>2, <3>4 DEF Takes, WriterInv
        <3> QED BY <2>2, <3>2, <3>3, <3>4 DEF Takes
    <2>3. CASE Commits(s)
        BY <1>6, <2>3 DEF Commits
    <2> QED BY <1>6, <2>1, <2>2, <2>3, RowMoves
<1>7. CASE CancelCurrent \/ UNCHANGED transactionVars
    BY <1>1, <1>2, <1>3, <1>7 DEF CancelCurrent, transactionVars, sessionVars, dbVars
<1>8. CASE TransactionsRestart
    <2>1. /\ table' = table /\ written' = Absent
          /\ \A s \in Session : read'[s] = Absent /\ (s \in Other => held'[s] = Absent)
        BY <1>8, RestartMoves DEF Session
    <2> QED BY <1>1, <2>1
<1> QED BY <1>0, <1>4, <1>5, <1>6, <1>7, <1>8, Cases DEF Acts

(* What a call is before when a session is spoiled, or may still write.    *)
LEMMA SpoiledStep ==
    TransactionsAll /\ [TransactionsNext]_transactionVars => SpoiledInv'
<1> DEFINE Lost(c) == \/ outcome'[c] = "cancelled" /\ at'[c] \in {"run", "finish", "over", "lost"}
                      \/ record'[c] = "none" /\ at'[c] \in {"finish", "over", "lost"}
           Writes(c) == at'[c] = "finish" /\ result'[c] = "ok" /\ record'[c] # "none"
                        /\ c \notin spoiled'
<1> SUFFICES ASSUME TransactionsAll, [TransactionsNext]_transactionVars
             PROVE  \A c \in Call : (c \in spoiled' => Lost(c)) /\ (Writes(c) => writer' = c)
    BY DEF SpoiledInv, GetsVerdict
<1>0. /\ CoordinatorTypeOK /\ TransactionsTypeOK /\ PlacesInv /\ EntitiesInv /\ IdsInv
      /\ HistoryBelongsToProject /\ SpoiledInv /\ TasksFollowCalls
      /\ Call \subseteq Session /\ Other \subseteq Session /\ Call \cap Other = {}
      /\ NoSession \notin Session /\ NoCall \notin Call
    BY TransactionsAssumption, NoneAssumption DEF TransactionsAll, CoordinatorInv, Session
<1>a. \A c \in Call :
          /\ c \in spoiled =>
                 \/ outcome[c] = "cancelled" /\ at[c] \in {"run", "finish", "over", "lost"}
                 \/ record[c] = "none" /\ at[c] \in {"finish", "over", "lost"}
          /\ at[c] = "finish" /\ result[c] = "ok" /\ record[c] # "none" /\ c \notin spoiled
                 => writer = c
    BY <1>0 DEF SpoiledInv, GetsVerdict
<1>b. ASSUME NEW s \in Session, Acts(s), NEW c \in Session, c # s, writer = c
      PROVE  writer' = c
    BY <1>0, <1>b, RowMoves DEF Takes, Commits
<1>1. ASSUME NEW s \in Call, CallStep(s), NEW c \in Call, c # s
      PROVE  (c \in spoiled' => Lost(c)) /\ (Writes(c) => writer' = c)
    <2>1. /\ at'[c] = at[c] /\ record'[c] = record[c] /\ result'[c] = result[c]
          /\ outcome'[c] = outcome[c] /\ (c \in spoiled' <=> c \in spoiled)
        BY <1>0, <1>1, CallFrame
    <2>2. writer = c => writer' = c
        BY <1>0, <1>1, <1>b DEF Acts
    <2> QED BY <1>a, <2>1, <2>2
<1>2. ASSUME NEW c \in Call, CallStep(c)
      PROVE  (c \in spoiled' => Lost(c)) /\ (Writes(c) => writer' = c)
    <2> USE DEF Goto, sessionVars, dbVars
    <2>0. /\ c \in Session /\ at[c] \notin {"over", "lost"}
          /\ ~Committed(c) => record[c] = "none"
        BY <1>0, <1>2, CallMoves DEF HistoryBelongsToProject
    <2>1. CASE (\E k \in Kind : Begin(c, k)) \/ Analyzed(c) \/ Lookup(c) \/ Insert(c) \/ Record(c)
        <3>1. /\ at[c] \in Preparing /\ at'[c] # "finish" /\ spoiled' = spoiled
            BY <1>0, <2>0, <2>1 DEF Begin, Analyzed, Lookup, Insert, Record, TransactionsTypeOK,
                                    Preparing
        <3> QED BY <1>a, <3>1 DEF Preparing
    <2>2. CASE Load(c)
        <3>1. at[c] = "load" /\ spoiled' = spoiled /\ (at'[c] = "finish" => result'[c] # "ok")
            BY <1>0, <2>0, <2>2 DEF Load, RunRejected, TransactionsTypeOK, CoordinatorTypeOK
        <3> QED BY <1>a, <3>1
    <2>3. CASE at[c] = "redirect_read" /\ Redirect(c)
        <3>1. at'[c] # "finish" /\ spoiled' = spoiled
            BY <1>0, <2>0, <2>3 DEF Redirect, Select, TransactionsTypeOK
        <3> QED BY <1>a, <2>3, <3>1
    <2>4. CASE at[c] = "redirect" /\ Redirect(c)
        <3>1. \/ spoiled' = spoiled /\ at'[c] = "record"
              \/ at'[c] = "over" /\ record' = record
            BY <1>0, <2>0, <2>4 DEF Redirect, Flush, TransactionsTypeOK
        <3>2. c \notin spoiled /\ record[c] = "none"
            BY <1>0, <1>a, <2>4 DEF IdsInv, Preparing
        <3> QED BY <3>1, <3>2
    <2>5. CASE at[c] = "save_read" /\ Save(c)
        <3>1. /\ spoiled' = spoiled /\ record' = record
              /\ at'[c] = "finish" => ~Committed(c)
            BY <1>0, <2>0, <2>5 DEF Save, Select, TransactionsTypeOK
        <3> QED BY <1>a, <2>0, <2>5, <3>1
    <2>6. CASE at[c] = "save" /\ Save(c)
        <3>1. held[c].live = c /\ read[c].live # c
            <4>1. read[c] # Absent /\ Real(read[c])
                BY <1>0, <2>0, <2>6 DEF EntitiesInv, LiveInv, TransactionsAll
            <4> QED BY <1>0, <2>0, <2>6, <4>1 DEF EntitiesInv, EntityFits, Real
        <3>2. /\ record' = record /\ at'[c] = "finish"
              /\ \/ spoiled' = spoiled /\ writer' = c
                 \/ c \in spoiled' /\ ~Committed(c)
            BY <1>0, <2>0, <2>6, <3>1 DEF Save, Flush, TransactionsTypeOK
        <3> QED BY <1>a, <2>0, <2>6, <3>2
    <2>7. CASE TaskStarts(c) \/ TaskCancelledEarly(c) \/ Progress(c) \/ CutShort(c) \/ ExecutorEnds(c)
        <3>a. at[c] \in {"planning", "running", "run"}
            BY <1>0, <2>7, TaskPlace DEF TaskStep, TransactionsAll
        <3>b. task[c] # "done"
            BY <1>0, <2>7, <3>a DEF TaskStarts, TaskCancelledEarly, Progress, CutShort, ExecutorEnds,
               FirstStep, EndsBeforeStart, Finish, PlacesInv
        <3>1. at[c] \in {"planning", "running", "run"} /\ outcome[c] # "cancelled"
            BY <1>0, <3>a, <3>b DEF TasksFollowCalls
        <3>2. at'[c] \in {"planning", "running", "run"}
            BY <1>0, <2>0, <2>7, <3>1 DEF TaskStarts, TaskCancelledEarly, Progress, CutShort,
               ExecutorEnds, TransactionsTypeOK
        <3>3. c \notin spoiled
            BY <1>a, <3>1
        <3>4. c \in spoiled' => at'[c] = "run" /\ outcome'[c] = "cancelled"
            BY <1>0, <2>0, <2>7, <3>3 DEF TaskStarts, TaskCancelledEarly, Progress, CutShort,
               ExecutorEnds, TransactionsTypeOK
        <3> QED BY <3>2, <3>4
    <2>8. CASE DeployResumes(c)
        <3>1. /\ at[c] = "run" /\ spoiled' = spoiled /\ outcome' = outcome /\ result'[c] = outcome[c]
              /\ at'[c] = IF result'[c] = "ok" THEN "save_read" ELSE "finish"
            BY <1>0, <2>0, <2>8 DEF DeployResumes, Resume, taskVars, PlacesInv, TransactionsTypeOK,
               CoordinatorTypeOK
        <3> QED BY <1>a, <3>1
    <2>9. CASE Conclude(c)
        <3>1. /\ at[c] = "finish" /\ at'[c] = "over" /\ spoiled' = spoiled /\ outcome' = outcome
              /\ c \in spoiled => record' = record
            BY <1>0, <2>0, <2>9 DEF Conclude, GetsVerdict, coordinatorVars, TransactionsTypeOK
        <3> QED BY <1>a, <3>1
    <2> QED BY <1>2, <2>1, <2>2, <2>3, <2>4, <2>5, <2>6, <2>7, <2>8, <2>9
            DEF CallStep, CallStatement, TaskStep, Redirect, Save
<1>3. ASSUME NEW d \in Other, OtherStep(d), NEW c \in Call
      PROVE  (c \in spoiled' => Lost(c)) /\ (Writes(c) => writer' = c)
    <2>0. d \in Session /\ Acts(d) /\ c \in Session /\ c # d
        BY <1>0, <1>3 DEF Acts
    <2>1. /\ at'[c] = at[c] /\ result' = result /\ outcome' = outcome /\ spoiled' = spoiled
        BY <1>0, <1>3, <2>0, OtherFrame DEF coordinatorVars
    <2>2. record'[c] = "none" \/ record'[c] = record[c]
        BY <1>3, OtherMoves
    <2>3. writer = c => writer' = c
        BY <2>0, <1>b
    <2> QED BY <1>a, <2>1, <2>2, <2>3
<1>4. CASE CancelCurrent \/ UNCHANGED transactionVars
    BY <1>a, <1>4 DEF CancelCurrent, CancelForUser, callVars, transactionVars, sessionVars, dbVars
<1>5. CASE TransactionsRestart
    BY <1>a, <1>5, RestartMoves
<1> QED BY <1>1, <1>2, <1>3, <1>4, <1>5, Cases

(* Only a run that ended well is successful. *)
LEMMA SuccessIsOk ==
    ASSUME NEW r, Verdict(r) = "successful"
    PROVE  r = "ok"
<1>1. CASE r = "cancelled"
    BY <1>1 DEF Verdict
<1>2. CASE r # "ok" /\ r # "cancelled"
    BY <1>2 DEF Verdict
<1> QED BY <1>1, <1>2

(* The record of a call and the way it runs. *)
LEMMA RecordsStep ==
    TransactionsAll /\ CoordinatorInv' /\ [TransactionsNext]_transactionVars => RecordsTellTheRun'
<1> DEFINE Told(c) ==
        /\ record'[c] \in Final => at'[c] = "over" /\ record'[c] = Verdict(result'[c])
        /\ at'[c] = "run" /\ task'[c] = "running" => record'[c] = "running"
        /\ at'[c] = "over" /\ record'[c] \in Unfinished =>
               result'[c] = "none" \/ (c \in spoiled' /\ result'[c] = "cancelled")
<1> SUFFICES ASSUME TransactionsAll, CoordinatorInv', [TransactionsNext]_transactionVars
             PROVE  RecordsTellTheRun'
    OBVIOUS
<1> SUFFICES \A c \in Call : record'[c] # "none" => Told(c)
    <2>1. \A c \in Call : Verdict(result'[c]) = "successful" => c \notin cancelling'
        BY SuccessIsOk DEF CoordinatorInv, AcceptedCancelSticks
    <2> QED BY <2>1 DEF RecordsTellTheRun, Final
<1>0. /\ CoordinatorTypeOK /\ TransactionsTypeOK /\ PlacesInv /\ IdsInv
      /\ SpoiledInv /\ TasksFollowCalls
      /\ Call \subseteq Session /\ Other \subseteq Session /\ Call \cap Other = {}
    BY TransactionsAssumption DEF TransactionsAll, CoordinatorInv, Session
<1>a. \A c \in Call : record[c] # "none" =>
          /\ record[c] \in Final => at[c] = "over" /\ record[c] = Verdict(result[c])
          /\ at[c] = "run" /\ task[c] = "running" => record[c] = "running"
          /\ at[c] = "over" /\ record[c] \in Unfinished =>
                 result[c] = "none" \/ (c \in spoiled /\ result[c] = "cancelled")
    BY DEF TransactionsAll, RecordsTellTheRun
<1>1. ASSUME NEW s \in Call, CallStep(s), NEW c \in Call, c # s, record'[c] # "none"
      PROVE  Told(c)
    <2>1. /\ at'[c] = at[c] /\ record'[c] = record[c] /\ result'[c] = result[c]
          /\ task'[c] = task[c] /\ (c \in spoiled' <=> c \in spoiled)
        BY <1>0, <1>1, CallFrame
    <2> QED BY <1>a, <1>1, <2>1
<1>2. ASSUME NEW c \in Call, CallStep(c), record'[c] # "none"
      PROVE  Told(c)
    <2> USE DEF Goto, sessionVars, dbVars
    <2>0. c \in Session /\ at[c] \notin {"over", "lost"} /\ record[c] \notin Final
        BY <1>0, <1>a, <1>2, CallMoves DEF Final
    <2>1. CASE (\E k \in Kind : Begin(c, k)) \/ Analyzed(c) \/ Lookup(c) \/ Insert(c)
               \/ Redirect(c)
        <3>1. at[c] \in Preparing \ {"record"} /\ record' = record
            BY <1>0, <2>1 DEF Begin, Analyzed, Lookup, Insert, Redirect, Select, Flush, Preparing
        <3> QED BY <1>0, <1>2, <3>1 DEF IdsInv
    <2>2. CASE Record(c)
        <3>1. at[c] = "record" /\ record[c] = "none"
            BY <1>0, <2>2 DEF Record, IdsInv, Preparing
        <3>2. at'[c] = "load" /\ record'[c] = "queued"
            BY <1>2, <3>1, CallMoves
        <3> QED BY <3>2 DEF Final
    <2>3. CASE Load(c)
        <3>1. /\ record' = record /\ at'[c] \in {"over", "run", "finish"}
              /\ at'[c] = "over" => result'[c] = "none"
              /\ at'[c] = "run" => task'[c] = "ready"
            BY <1>0, <2>0, <2>3 DEF Load, RunAdmitted, RunRejected, coordinatorVars, callVars,
               PlacesInv, Preparing, TransactionsTypeOK, CoordinatorTypeOK
        <3> QED BY <2>0, <3>1
    <2>4. CASE Save(c)
        <3>1. at'[c] \in {"save", "finish"} /\ record' = record
            BY <1>0, <2>0, <2>4 DEF Save, Select, Flush, TransactionsTypeOK
        <3> QED BY <2>0, <3>1
    <2>5. CASE TaskStarts(c) \/ TaskCancelledEarly(c) \/ CutShort(c) \/ ExecutorEnds(c)
        <3>1. at'[c] # "over"
            BY <1>0, <2>0, <2>5 DEF TaskStarts, TaskCancelledEarly, CutShort, ExecutorEnds,
               TransactionsTypeOK
        <3>2. at'[c] = "run" => task'[c] = "done"
            BY <1>0, <2>0, <2>5 DEF TaskStarts, TaskCancelledEarly, CutShort, ExecutorEnds,
               EndsBeforeStart, Finish, TransactionsTypeOK, CoordinatorTypeOK
        <3>3. record'[c] = record[c] \/ record'[c] \in {"planning", "running"}
            BY <1>0, <2>0, <2>5 DEF TaskStarts, TaskCancelledEarly, CutShort, ExecutorEnds,
               TransactionsTypeOK
        <3> QED BY <2>0, <3>1, <3>2, <3>3 DEF Final
    <2>6. CASE Progress(c)
        <3>1. CASE record[c] = "none"
            BY <1>2, <2>6, <3>1 DEF Progress
        <3>2. CASE record[c] # "none"
            BY <1>0, <2>0, <2>6, <3>2 DEF Progress, TransactionsTypeOK, Final
        <3> QED BY <3>1, <3>2
    <2>7. CASE DeployResumes(c)
        <3>1. at'[c] \in {"save_read", "finish"} /\ record' = record
            BY <1>0, <2>0, <2>7 DEF DeployResumes, TransactionsTypeOK
        <3> QED BY <2>0, <3>1
    <2>8. CASE Conclude(c)
        <3>1. /\ at[c] = "finish" /\ at'[c] = "over" /\ result' = result /\ spoiled' = spoiled
              /\ IF GetsVerdict(c) THEN record'[c] = Verdict(result[c]) ELSE record' = record
            BY <1>0, <2>0, <2>8 DEF Conclude, coordinatorVars, callVars, TransactionsTypeOK
        <3>2. CASE GetsVerdict(c)
            <4>1. record'[c] = Verdict(result'[c])
                BY <3>1, <3>2
            <4>2. record'[c] \notin Unfinished
                BY <4>1 DEF Verdict, Unfinished
            <4> QED BY <3>1, <4>1, <4>2
        <3>3. CASE ~GetsVerdict(c)
            <4>1. c \in spoiled /\ record[c] # "none"
                BY <1>2, <3>1, <3>3 DEF GetsVerdict
            <4>2. outcome[c] = "cancelled"
                BY <1>0, <4>1 DEF SpoiledInv
            <4>3. task[c] = "done" /\ stage[c] = "returned"
                BY <1>0, <3>1, <4>2 DEF TasksFollowCalls, PlacesInv
            <4>4. result[c] = "cancelled"
                BY <1>0, <4>2, <4>3 DEF PlacesInv
            <4> QED BY <2>0, <3>1, <3>3, <4>1, <4>4
        <3> QED BY <3>2, <3>3
    <2> QED BY <1>2, <2>1, <2>2, <2>3, <2>4, <2>5, <2>6, <2>7, <2>8
            DEF CallStep, CallStatement, TaskStep
<1>3. ASSUME NEW d \in Other, OtherStep(d), NEW c \in Call, record'[c] # "none"
      PROVE  Told(c)
    <2>1. at'[c] = at[c] /\ UNCHANGED <<spoiled, coordinatorVars>>
        BY <1>0, <1>3, OtherFrame
    <2>2. record'[c] = record[c]
        BY <1>3, OtherMoves
    <2> QED BY <1>a, <1>3, <2>1, <2>2 DEF coordinatorVars
<1>4. CASE CancelCurrent \/ UNCHANGED transactionVars
    BY <1>a, <1>4 DEF CancelCurrent, CancelForUser, callVars, transactionVars, sessionVars, dbVars
<1>5. CASE TransactionsRestart
    BY <1>a, <1>5, RestartMoves
<1> QED BY <1>1, <1>2, <1>3, <1>4, <1>5, Cases

----------------------------------------------------------------------------
(* All of it holds at first, when there is nothing.                        *)
LEMMA TransactionsStart == TransactionsInit => TransactionsAll
<1> SUFFICES ASSUME TransactionsInit
             PROVE  TransactionsAll
    OBVIOUS
<1> USE DEF TransactionsInit
<1>1. CoordinatorInv
    BY InitInv
<1>2. TransactionsTypeOK
    BY <1>1 DEF CoordinatorInv, TransactionsTypeOK, Elsewhere
<1>3. PlacesInv /\ SpoiledInv /\ RecordsTellTheRun
    BY DEF CoordinatorInit, PlacesInv, SpoiledInv, RecordsTellTheRun, GetsVerdict, Session,
           Preparing, CallPlace, OtherPlace
<1>4. EntitiesInv /\ IdsInv /\ HistoryBelongsToProject
    BY DEF EntitiesInv, EntityFits, IdsInv, HistoryBelongsToProject, Session
<1>5. WriterInv /\ LiveInv
    BY DEF WriterInv, LiveInv, Real, Session
<1> QED BY <1>1, <1>2, <1>3, <1>4, <1>5 DEF TransactionsAll

(* Every statement keeps it. *)
LEMMA TransactionsStep ==
    TransactionsAll /\ [TransactionsNext]_transactionVars => TransactionsAll'
<1> SUFFICES ASSUME TransactionsAll, [TransactionsNext]_transactionVars
             PROVE  TransactionsAll'
    OBVIOUS
<1>1. CoordinatorInv /\ [CoordinatorNext]_coordinatorVars
    BY RunsCoordinator DEF TransactionsAll
<1>2. CoordinatorInv'
    BY <1>1, TypeStep, CallsStep, RegistriesStep, CancelStep DEF CoordinatorInv
<1> QED BY <1>2, TransactionsTypeStep, PlacesStep, EntitiesStep, IdsStep, WriterStep, HistoryStep,
           LiveStep, SpoiledStep, RecordsStep
        DEF TransactionsAll

(* What it says of locks, records and URLs. *)
LEMMA TransactionsSafe == TransactionsAll => TransactionsInv
<1> SUFFICES ASSUME TransactionsAll
             PROVE  TransactionsInv
    OBVIOUS
<1>1. LocksAreShort
    BY DEF TransactionsAll, WriterInv, LocksAreShort
<1>2. ShownUrlSucceeded
    BY DEF TransactionsAll, LiveInv, Real, ShownUrlSucceeded
<1> QED BY <1>1, <1>2 DEF TransactionsAll, TransactionsInv

(* The invariant holds in every state. *)
LEMMA TransactionsAlways == TransactionsSpec => []TransactionsAll
BY TransactionsStart, TransactionsStep, PTL DEF TransactionsSpec

(* Locks are short, records tell how their runs went, deployments last as    *)
(* long as their project, and the URL of a project is that of a success.     *)
THEOREM TransactionsInvariant == TransactionsSpec => []TransactionsInv
BY TransactionsAlways, TransactionsSafe, PTL

(* What the table deployments says of a run is its verdict, unless a crash,  *)
(* unreadable credentials or a query that was cut short has prevented it.    *)
THEOREM RecordsTellTheRunAlways == TransactionsSpec => []RecordsTellTheRun
<1>1. TransactionsInv => RecordsTellTheRun
    BY DEF TransactionsInv
<1> QED BY <1>1, TransactionsInvariant, PTL

(* The lock of the row is never in a circle of waiting sessions. *)
LEMMA WritersDoNotWait == TransactionsAll => WaitsEnd
<1> SUFFICES ASSUME TransactionsAll, NEW s \in Session, Waits(s)
             PROVE  writer \in Session \ {s} /\ ~Waits(writer)
    BY DEF WaitsEnd
<1>1. writer # NoSession => writer \in Session /\ at[writer] \in {"record", "finish", "commit"}
    BY DEF TransactionsAll, TransactionsTypeOK, WriterInv
<1>2. writer # NoSession /\ writer # s
    BY <1>1 DEF Waits, CascadeBlocks, Deleting
<1>3. ~CascadeBlocks(writer)
    BY DEF CascadeBlocks, Deleting
<1> QED BY <1>1, <1>2, <1>3 DEF Waits

(* Whoever waits for the row, or for a DELETE, waits for a session that      *)
(* waits for nobody.                                                         *)
THEOREM NobodyWaitsInACircle == TransactionsSpec => []WaitsEnd
BY TransactionsAlways, WritersDoNotWait, PTL

(* On PostgreSQL, too, every step is one of the coordinator or leaves it     *)
(* alone: what is proved of the coordinator holds here.                      *)
THEOREM TransactionsRunCoordinator == TransactionsSpec => CoordinatorSafety
<1>1. TransactionsInit => CoordinatorInit
    BY DEF TransactionsInit
<1>2. TransactionsAll /\ [TransactionsNext]_transactionVars => [CoordinatorNext]_coordinatorVars
    BY RunsCoordinator DEF TransactionsAll
<1> QED BY <1>1, <1>2, TransactionsAlways, PTL DEF TransactionsSpec, CoordinatorSafety

(* With every statement a step of its own, the coordinator still keeps its   *)
(* promise, and two runs of the repository never overlap.                    *)
THEOREM TransactionsKeepClaims ==
    TransactionsSpec => /\ Claims!ClaimSafety
                        /\ [](ExclusiveDeployments /\ AcceptedCancelSticks)
                        /\ RefusedOnlyWhenBusy
<1>1. CoordinatorSafety => [](ExclusiveDeployments /\ AcceptedCancelSticks)
    BY Exclusion, AcceptedCancelSticksAlways, PTL
<1> QED BY <1>1, TransactionsRunCoordinator, CoordinatorImplementsClaims, RefusalIsJustified

(* The transaction that makes a deployment successful. *)
LEMMA SavingStep ==
    ASSUME TransactionsAll, [TransactionsNext]_transactionVars, NEW c \in Call,
           record[c] # "successful", record'[c] = "successful"
    PROVE  table' # Absent /\ table'.id = held[c].id /\ table'.live = c
<1>0. /\ CoordinatorTypeOK /\ TransactionsTypeOK /\ WriterInv /\ SpoiledInv
      /\ Call \subseteq Session /\ Call \cap Other = {} /\ NoSession \notin Session
    BY TransactionsAssumption DEF TransactionsAll, CoordinatorInv, Session
<1>1. CASE CallStep(c)
    <2>1. at[c] = "finish" /\ GetsVerdict(c) /\ Verdict(result[c]) = "successful"
        BY <1>1, CallMoves
    <2>2. result[c] = "ok"
        BY <2>1, SuccessIsOk
    <2>3. writer = c
        BY <1>0, <2>1, <2>2 DEF SpoiledInv
    <2>4. table' = written
        BY <1>0, <1>1, <2>3, RowMoves DEF Acts, Takes, Commits
    <2>5. written # Absent /\ written.id = held[c].id /\ written.live = c
        BY <1>0, <2>1, <2>3 DEF WriterInv
    <2> QED BY <2>4, <2>5
<1>2. ASSUME NEW s \in Call, CallStep(s), s # c
      PROVE  FALSE
    BY <1>0, <1>2, CallFrame
<1>3. ASSUME NEW d \in Other, OtherStep(d)
      PROVE  FALSE
    BY <1>3, OtherMoves
<1>4. CASE CancelCurrent \/ TransactionsRestart \/ UNCHANGED transactionVars
    BY <1>4, RestartMoves DEF CancelCurrent, transactionVars, dbVars
<1> QED BY <1>1, <1>2, <1>3, <1>4, Cases

(* A deployment becomes Successful together with its result.                 *)
THEOREM SuccessIsSavedAlways == TransactionsSpec => SuccessIsSaved
<1>1. TransactionsAll /\ [TransactionsNext]_transactionVars =>
          [\A c \in Call : record[c] # "successful" /\ record'[c] = "successful" =>
              table' # Absent /\ table'.id = held[c].id /\ table'.live = c]_transactionVars
    BY SavingStep
<1> QED BY <1>1, TransactionsAlways, PTL DEF TransactionsSpec, SuccessIsSaved

(* The step that brings a project into the table. *)
LEMMA InsertingStep ==
    ASSUME TransactionsAll, [TransactionsNext]_transactionVars, NEW p \in Call,
           table = Absent \/ table.id # p, table' # Absent, table'.id = p
    PROVE  at[p] = "record" /\ at'[p] = "load"
<1>1. ASSUME NEW s \in Session, Acts(s)
      PROVE  at[p] = "record" /\ at'[p] = "load"
    BY <1>1, RowChange
<1>2. CASE CancelCurrent \/ TransactionsRestart \/ UNCHANGED transactionVars
    BY <1>2, RestartMoves DEF CancelCurrent, transactionVars, dbVars
<1> QED BY <1>1, <1>2, Cases DEF Acts, Session

(* No late result brings a deleted project back.                             *)
THEOREM DeletedProjectStaysDeletedAlways == TransactionsSpec => DeletedProjectStaysDeleted
<1>1. TransactionsAll /\ [TransactionsNext]_transactionVars =>
          [\A p \in Call : (table = Absent \/ table.id # p) /\ table' # Absent /\ table'.id = p
              => at[p] = "record" /\ at'[p] = "load"]_transactionVars
    BY InsertingStep
<1> QED BY <1>1, TransactionsAlways, PTL DEF TransactionsSpec, DeletedProjectStaysDeleted

(* The step that parts the URL from the target. *)
LEMMA MixingStep ==
    ASSUME TransactionsAll, [TransactionsNext]_transactionVars, Fits(table), ~Fits(table')
    PROVE  \/ writer # NoSession /\ read[writer] # table
           \/ writer \in Other /\ ~Fits(held[writer])
<1>0. /\ WriterInv /\ EntitiesInv /\ Call \cap Other = {} /\ NoSession \notin Session
    BY TransactionsAssumption DEF TransactionsAll
<1>1. ASSUME NEW s \in Session, Acts(s)
      PROVE  \/ writer # NoSession /\ read[writer] # table
             \/ writer \in Other /\ ~Fits(held[writer])
    <2>1. writer = s /\ table' = written /\ Commits(s) /\ written # Absent
        BY <1>1, RowMoves DEF Takes, Commits, Fits
    <2>2. SUFFICES ASSUME read[s] = table
                   PROVE  s \in Other /\ ~Fits(held[s])
        BY <1>0, <1>1, <2>1
    <2>3. written = held[s] /\ ~Fits(held[s])
        BY <1>0, <1>1, <2>1, <2>2 DEF WriterInv
    <2>4. CASE s \in Call
        <3>1. CASE at[s] = "record"
            <4>1. held[s].live = NoCall
                BY <1>0, <1>1, <2>1, <3>1 DEF WriterInv
            <4> QED BY <2>3, <4>1 DEF Fits
        <3>2. CASE at[s] = "finish"
            <4>1. held[s].live = s
                BY <1>0, <1>1, <2>1, <2>3, <3>2 DEF WriterInv
            <4>2. held[s] # Absent => held[s].kind = kindOf[s]
                BY <1>0, <2>4 DEF EntitiesInv, EntityFits
            <4> QED BY <2>3, <4>1, <4>2 DEF Fits
        <3> QED BY <1>0, <2>1, <2>4, <3>1, <3>2 DEF Commits
    <2> QED BY <1>1, <2>3, <2>4 DEF Session
<1>2. CASE CancelCurrent \/ TransactionsRestart \/ UNCHANGED transactionVars
    BY <1>2, RestartMoves DEF CancelCurrent, transactionVars, dbVars
<1> QED BY <1>1, <1>2, Cases DEF Acts, Session

(* URL and target of a project come apart only by a commit between a SELECT  *)
(* and its UPDATE, or by the copy of a row in which they had.                *)
THEOREM MixtureNeedsARaceAlways == TransactionsSpec => MixtureNeedsARace
<1>1. TransactionsAll /\ [TransactionsNext]_transactionVars =>
          [Fits(table) /\ ~Fits(table') =>
              \/ writer # NoSession /\ read[writer] # table
              \/ writer \in Other /\ ~Fits(held[writer])]_transactionVars
    BY MixingStep
<1> QED BY <1>1, TransactionsAlways, PTL DEF TransactionsSpec, MixtureNeedsARace
----------------------------------------------------------------------------
(* How far the record of a call is that has not concluded, and what a      *)
(* redirected project shows: nothing any more, or what it did.             *)
UnderWay ==
    /\ \A c \in Call :
        /\ at[c] \in {"load", "planning"} => record[c] \in {"none", "queued"}
        /\ at[c] = "run" /\ task[c] = "ready" => record[c] \in {"none", "queued"}
        /\ at[c] = "running" => record[c] \in {"none", "planning"}
    /\ writer # NoSession /\ at[writer] = "record" =>
          written.live = NoCall \/ (table # Absent /\ written.live = table.live)

(* The statuses come in their order. *)
LEMMA StatusesInOrder ==
    ASSUME TransactionsAll, UnderWay, NEW c \in Call, CallStep(c)
    PROVE  /\ at'[c] \in {"load", "planning"} => record'[c] \in {"none", "queued"}
           /\ at'[c] = "run" /\ task'[c] = "ready" => record'[c] \in {"none", "queued"}
           /\ at'[c] = "running" => record'[c] \in {"none", "planning"}
<1>0. /\ CoordinatorTypeOK /\ CoordinatorInv /\ TransactionsTypeOK /\ PlacesInv
      /\ c \in Session
    BY DEF TransactionsAll, CoordinatorInv, Session
<1>a. /\ at[c] \in {"load", "planning"} => record[c] \in {"none", "queued"}
      /\ at[c] = "run" /\ task[c] = "ready" => record[c] \in {"none", "queued"}
      /\ at[c] = "running" => record[c] \in {"none", "planning"}
    BY DEF UnderWay
<1> USE DEF Goto, sessionVars, dbVars
<1>1. CASE (\E k \in Kind : Begin(c, k)) \/ Analyzed(c) \/ Lookup(c) \/ Insert(c)
    BY <1>0, <1>1 DEF Begin, Analyzed, Lookup, Insert, TransactionsTypeOK
<1>2. CASE Redirect(c) \/ Save(c)
    BY <1>0, <1>2 DEF Redirect, Save, Select, Flush, TransactionsTypeOK
<1>3. CASE Record(c)
    BY <1>0, <1>3 DEF Record, TransactionsTypeOK
<1>4. CASE Load(c)
    BY <1>0, <1>a, <1>4 DEF Load, TransactionsTypeOK
<1>5. CASE TaskStarts(c)
    <2>1. at[c] = "run" /\ task[c] = "ready"
        BY <1>0, <1>5, TaskPlace DEF TaskStep, TaskStarts, FirstStep, PlacesInv
    <2>2. at'[c] = "planning" /\ record' = record
        BY <1>0, <1>5 DEF TaskStarts, TransactionsTypeOK
    <2> QED BY <1>a, <2>1, <2>2
<1>6. CASE TaskCancelledEarly(c) \/ ExecutorEnds(c)
    <2>1. task'[c] = "done" /\ at' = at /\ record' = record
        BY <1>0, <1>6 DEF TaskCancelledEarly, ExecutorEnds, EndsBeforeStart, Finish,
           CoordinatorTypeOK
    <2> QED BY <1>a, <2>1
<1>7. CASE Progress(c)
    <2>1. task[c] = "running" /\ at[c] \in {"planning", "running"}
        BY <1>0, <1>7 DEF Progress, PlacesInv
    <2>2. CASE record[c] = "none"
        BY <1>0, <1>7, <2>2 DEF Progress, TransactionsTypeOK
    <2>3. CASE record[c] # "none"
        <3>1. /\ at'[c] = IF at[c] = "planning" THEN "running" ELSE "run"
              /\ record'[c] = at[c] /\ task' = task
            BY <1>0, <1>7, <2>3 DEF Progress, TransactionsTypeOK, coordinatorVars
        <3> QED BY <2>1, <3>1
    <2> QED BY <2>2, <2>3
<1>8. CASE CutShort(c)
    <2>1. task'[c] = "done" /\ at'[c] = "run"
        BY <1>0, <1>8 DEF CutShort, Finish, TransactionsTypeOK, CoordinatorTypeOK
    <2> QED BY <2>1
<1>9. CASE DeployResumes(c) \/ Conclude(c)
    BY <1>0, <1>9 DEF DeployResumes, Conclude, TransactionsTypeOK
<1> QED BY <1>1, <1>2, <1>3, <1>4, <1>5, <1>6, <1>7, <1>8, <1>9
        DEF CallStep, CallStatement, TaskStep

(* UnderWay is inductive. *)
LEMMA UnderWayStep ==
    TransactionsAll /\ UnderWay /\ [TransactionsNext]_transactionVars => UnderWay'
<1> DEFINE InOrder(c) ==
        /\ at'[c] \in {"load", "planning"} => record'[c] \in {"none", "queued"}
        /\ at'[c] = "run" /\ task'[c] = "ready" => record'[c] \in {"none", "queued"}
        /\ at'[c] = "running" => record'[c] \in {"none", "planning"}
           Redirected ==
        writer' # NoSession /\ at'[writer'] = "record" =>
            written'.live = NoCall \/ (table' # Absent /\ written'.live = table'.live)
<1> SUFFICES ASSUME TransactionsAll, UnderWay, [TransactionsNext]_transactionVars
             PROVE  (\A c \in Call : InOrder(c)) /\ Redirected
    BY DEF UnderWay
<1>0. /\ CoordinatorTypeOK /\ TransactionsTypeOK /\ EntitiesInv /\ WriterInv
      /\ Call \subseteq Session /\ Other \subseteq Session /\ Call \cap Other = {}
      /\ NoSession \notin Session /\ Absent \notin Row
    BY TransactionsAssumption DEF TransactionsAll, CoordinatorInv, Session
<1>1. ASSUME NEW s \in Call, CallStep(s), NEW c \in Call
      PROVE  InOrder(c)
    <2>1. CASE c = s
        BY <1>1, <2>1, StatusesInOrder
    <2>2. CASE c # s
        BY <1>0, <1>1, <2>2, CallFrame DEF UnderWay
    <2> QED BY <2>1, <2>2
<1>2. ASSUME NEW d \in Other, OtherStep(d), NEW c \in Call
      PROVE  InOrder(c)
    <2>1. at'[c] = at[c] /\ task' = task
        BY <1>0, <1>2, OtherFrame DEF coordinatorVars
    <2>2. record'[c] \in {record[c], "none"}
        BY <1>2, OtherMoves
    <2> QED BY <2>1, <2>2 DEF UnderWay
<1>3. ASSUME NEW s \in Session, Acts(s)
      PROVE  Redirected
    <2>1. CASE writer # s /\ UNCHANGED <<table, writer, written>>
        <3>1. writer # NoSession => at'[writer] = at[writer]
            BY <1>0, <1>3, <2>1, CallFrame, OtherFrame DEF Acts, TransactionsTypeOK
        <3> QED BY <2>1, <3>1 DEF UnderWay
    <2>2. CASE Takes(s)
        <3>1. writer' = s /\ table' = table
            BY <2>2 DEF Takes
        <3>2. CASE at[s] = "insert"
            <4>1. EntityFits(s) /\ written' = held[s]
                BY <1>0, <2>2, <3>2 DEF Takes, EntitiesInv
            <4> QED BY <3>2, <4>1 DEF EntityFits
        <3>3. CASE at[s] = "redirect"
            <4>1. s \in Call /\ Committed(s) /\ written' = Merged(table, read[s], held[s])
                BY <2>2, <3>3 DEF Takes
            <4>2. EntityFits(s) /\ held[s].live = NoCall
                BY <1>0, <3>3, <4>1 DEF EntitiesInv, EntityFits
            <4>3. table \in Row /\ held[s] \in Row /\ read[s] \in Row
                BY <1>0, <3>3, <4>1, <4>2
                   DEF TransactionsTypeOK, EntitiesInv, EntityFits, Committed
            <4>4. written'.live \in {held[s].live, table.live}
                BY <4>1, <4>3, MergedRow
            <4> QED BY <1>0, <3>1, <4>2, <4>3, <4>4
        <3>4. CASE at'[s] # "record"
            BY <3>1, <3>4
        <3> QED BY <2>2, <3>2, <3>3, <3>4 DEF Takes
    <2>3. CASE Commits(s)
        BY <2>3 DEF Commits
    <2> QED BY <1>3, <2>1, <2>2, <2>3, RowMoves
<1>4. CASE CancelCurrent \/ UNCHANGED transactionVars
    BY <1>4 DEF CancelCurrent, CancelForUser, transactionVars, sessionVars, dbVars, UnderWay
<1>5. CASE TransactionsRestart
    BY <1>5, RestartMoves
<1> QED BY <1>0, <1>1, <1>2, <1>3, <1>4, <1>5, Cases DEF Acts

LEMMA UnderWayAlways == TransactionsSpec => []UnderWay
<1>1. TransactionsInit => UnderWay
    BY DEF TransactionsInit, UnderWay, Session
<1>2. TransactionsAll /\ UnderWay /\ [TransactionsNext]_transactionVars => UnderWay'
    BY UnderWayStep
<1> QED BY <1>1, <1>2, TransactionsAlways, PTL DEF TransactionsSpec

(* The committed tables keep the promise of DeploymentHistory, statement   *)
(* by statement.                                                           *)
LEMMA CommittedStarts == TransactionsInit => History!HistoryInit
BY DEF TransactionsInit, Session, History!HistoryInit, ProjectIn, InTable, ShownBy, Unrecorded,
       Preparing

(* What is not committed is not seen; at most a call has given up.         *)
LEMMA UncommittedUnseen ==
    ASSUME record' = record, table' = table,
           \A c \in Call : record[c] # "none" => held'[c].id = held[c].id,
           \A c \in Call : at'[c] \in Preparing => at[c] \in Preparing
    PROVE  History!GiveUp
<1>1. /\ \A c \in Call : ProjectIn(c)' = ProjectIn(c)
      /\ \A p \in Call : InTable(p)' = InTable(p) /\ ShownBy(p)' = ShownBy(p)
    BY DEF ProjectIn, InTable, ShownBy
<1>2. /\ [c \in Call |-> ProjectIn(c)]' = [c \in Call |-> ProjectIn(c)]
      /\ {p \in Call : InTable(p)}' = {p \in Call : InTable(p)}
      /\ [p \in Call |-> ShownBy(p)]' = [p \in Call |-> ShownBy(p)]
    BY <1>1
<1>3. Unrecorded' \subseteq Unrecorded
    BY DEF Unrecorded
<1> QED BY <1>2, <1>3 DEF History!GiveUp

(* A record is a record after a step, too. *)
LEMMA RecordsTyped ==
    ASSUME TransactionsAll, NEW s \in Session, Acts(s)
    PROVE  record' \in [Call -> {"none"} \cup Unfinished \cup Final]
<1>1. TransactionsNext
    BY DEF Acts, CallStep, OtherStep, TransactionsNext, Step
<1>2. TransactionsAll'
    BY <1>1, TransactionsStep
<1> QED BY <1>2 DEF TransactionsAll, TransactionsTypeOK

(* The commit of deployments.add(): the deployment enters the history of   *)
(* the project in the table, or of the one that comes with it.             *)
LEMMA RecordEnters ==
    ASSUME TransactionsAll, UnderWay, NEW c \in Call, CallStep(c),
           at[c] = "record", record'[c] = "queued"
    PROVE  \E p \in Call : History!Enter(c, p, "queued")
<1>0. /\ CoordinatorTypeOK /\ TransactionsTypeOK /\ EntitiesInv /\ IdsInv /\ WriterInv
      /\ c \in Session /\ Call \subseteq Session /\ Call \cap Other = {}
      /\ NoSession \notin Session /\ Absent \notin Row
    BY TransactionsAssumption DEF TransactionsAll, CoordinatorInv, Session
<1>1. held[c] \in Row /\ held[c] # Absent /\ record[c] = "none"
    BY <1>0 DEF EntitiesInv, EntityFits, TransactionsTypeOK, IdsInv, Preparing
<1>2. PICK p \in Call : p = held[c].id
    BY <1>1 DEF Row
<1>3. /\ at'[c] = "load" /\ held'[c] = held[c]
      /\ Committed(c) \/ writer = c
    BY <1>1, CallMoves DEF HasProject, Preparing
<1>4. /\ \A d \in Call : d # c => /\ at'[d] = at[d] /\ held'[d] = held[d]
                                  /\ record'[d] = record[d]
      /\ record' \in [Call -> {"none"} \cup Unfinished \cup Final]
    BY <1>0, CallFrame, RecordsTyped DEF Acts
<1>5. record' = [record EXCEPT ![c] = "queued"]
    BY <1>0, <1>4 DEF TransactionsTypeOK
<1>6. [d \in Call |-> ProjectIn(d)]' = [[d \in Call |-> ProjectIn(d)] EXCEPT ![c] = p]
    <2>1. \A d \in Call : ProjectIn(d)' = IF d = c THEN p ELSE ProjectIn(d)
        BY <1>2, <1>3, <1>4 DEF ProjectIn
    <2> QED BY <2>1
<1>7. c \in Unrecorded /\ Unrecorded' \subseteq Unrecorded \ {c} /\ p \notin Unrecorded'
    <2>1. Unrecorded' = Unrecorded \ {c} /\ c \in Unrecorded
        BY <1>3, <1>4 DEF Unrecorded, Preparing
    <2>2. p # c => p \notin Unrecorded
        BY <1>0, <1>1, <1>2 DEF Unrecorded, IdsInv
    <2> QED BY <2>1, <2>2
<1>8. /\ InTable(p) \/ (p = c /\ table = Absent)
      /\ table' # Absent /\ table'.id = p
      /\ table'.live \in {ShownBy(p), NoCall}
    <2>1. CASE writer = c
        <3>1. /\ written # Absent /\ written.id = p
              /\ IF p = c THEN table = Absent ELSE table # Absent /\ table.id = p
              /\ written.live = NoCall \/ (table # Absent /\ written.live = table.live)
            BY <1>0, <1>2, <2>1 DEF WriterInv, UnderWay
        <3>2. table' = written
            BY <1>0, <2>1, RowMoves DEF Acts, Takes, Commits
        <3> QED BY <3>1, <3>2 DEF InTable, ShownBy
    <2>2. CASE writer # c
        <3>1. table' = table
            BY <1>0, <1>3, <2>2, RowMoves DEF Acts, Takes, Commits
        <3> QED BY <1>2, <1>3, <2>2, <3>1 DEF Committed, InTable, ShownBy
    <2> QED BY <2>1, <2>2
<1>9. /\ p \in {q \in Call : InTable(q)} \cup Unrecorded
      /\ {q \in Call : InTable(q)}' = {q \in Call : InTable(q)} \cup {p}
    <2>1. \A q \in Call : InTable(q) => q = p
        BY <1>8 DEF InTable
    <2>2. \A q \in Call : InTable(q)' <=> q = p
        BY <1>8 DEF InTable
    <2> QED BY <1>7, <1>8, <2>1, <2>2
<1>10. /\ [q \in Call |-> ShownBy(q)]'
             \in {[q \in Call |-> ShownBy(q)],
                  [[q \in Call |-> ShownBy(q)] EXCEPT ![p] = NoCall]}
       /\ p \notin {q \in Call : InTable(q)} => [q \in Call |-> ShownBy(q)]'[p] = NoCall
    <2> DEFINE before == [q \in Call |-> ShownBy(q)]
               after == [q \in Call |-> ShownBy(q)']
    <2>1. /\ \A q \in Call : q # p => ShownBy(q)' = NoCall /\ ShownBy(q) = NoCall
          /\ ShownBy(p)' = table'.live
          /\ ~InTable(p) => ShownBy(p) = NoCall
        BY <1>8 DEF ShownBy, InTable
    <2>2. \/ \A q \in Call : ShownBy(q)' = ShownBy(q)
          \/ \A q \in Call : ShownBy(q)' = IF q = p THEN NoCall ELSE ShownBy(q)
        BY <1>8, <2>1
    <2>3. after \in {before, [before EXCEPT ![p] = NoCall]}
        BY <2>2
    <2>4. ~InTable(p) => ShownBy(p)' = NoCall
        BY <1>8, <2>1
    <2> QED BY <2>3, <2>4
<1> QED BY <1>5, <1>6, <1>7, <1>9, <1>10 DEF History!Enter

(* A status that the task commits is the next one.                         *)
LEMMA ProgressAdvances ==
    ASSUME TransactionsAll, UnderWay, NEW c \in Call, CallStep(c),
           at[c] \in {"planning", "running"}, record[c] # "none", record'[c] = at[c]
    PROVE  History!Advance(c, at[c])
<1>0. /\ CoordinatorTypeOK /\ TransactionsTypeOK /\ WriterInv
      /\ c \in Session /\ Call \subseteq Session /\ NoSession \notin Session
    BY TransactionsAssumption DEF TransactionsAll, CoordinatorInv, Session
<1>1. table' = table
    BY <1>0, RowMoves DEF Acts, Takes, Commits
<1>2. /\ \A d \in Call : d # c => /\ at'[d] = at[d] /\ held'[d] = held[d]
                                  /\ record'[d] = record[d]
      /\ held'[c].id = held[c].id
      /\ at'[c] \notin Preparing /\ at[c] \notin Preparing
    BY <1>0, CallFrame, CallMoves DEF Preparing
<1>3. record' = [record EXCEPT ![c] = at[c]]
    BY <1>0, <1>2, RecordsTyped DEF Acts, TransactionsTypeOK
<1>4. /\ \A d \in Call : ProjectIn(d)' = ProjectIn(d)
      /\ \A p \in Call : InTable(p)' = InTable(p) /\ ShownBy(p)' = ShownBy(p)
    BY <1>1, <1>2 DEF ProjectIn, InTable, ShownBy
<1>5. /\ [d \in Call |-> ProjectIn(d)]' = [d \in Call |-> ProjectIn(d)]
      /\ {p \in Call : InTable(p)}' = {p \in Call : InTable(p)}
      /\ [p \in Call |-> ShownBy(p)]' = [p \in Call |-> ShownBy(p)]
      /\ Unrecorded' = Unrecorded
    BY <1>2, <1>4 DEF Unrecorded
<1>6. History!Follows(record[c], at[c])
    BY DEF UnderWay, History!Follows
<1> QED BY <1>3, <1>5, <1>6 DEF History!Advance

(* The last commit of deploy(): the verdict, with the URL of a success.    *)
LEMMA VerdictConcludes ==
    ASSUME TransactionsAll, NEW c \in Call, CallStep(c), at[c] = "finish", GetsVerdict(c)
    PROVE  \E v \in History!Final : History!Conclude(c, v)
<1>0. /\ CoordinatorTypeOK /\ TransactionsTypeOK /\ EntitiesInv /\ WriterInv /\ SpoiledInv
      /\ HistoryBelongsToProject /\ RecordsTellTheRun /\ Absent \notin Row
      /\ c \in Session /\ Call \subseteq Session /\ NoSession \notin Session
    BY TransactionsAssumption DEF TransactionsAll, CoordinatorInv, Session
<1>1. PICK v : v = Verdict(result[c])
    OBVIOUS
<1>2. v \in History!Final /\ (v = "successful" <=> result[c] = "ok")
    BY <1>1 DEF Verdict, History!Final
<1>3. /\ \A d \in Call : d # c => /\ at'[d] = at[d] /\ held'[d] = held[d]
                                  /\ record'[d] = record[d]
      /\ held'[c] = held[c] /\ record'[c] = v
      /\ at'[c] \notin Preparing /\ at[c] \notin Preparing
    BY <1>0, <1>1, CallFrame, CallMoves DEF Preparing
<1>4. record' = [record EXCEPT ![c] = v]
    BY <1>0, <1>3, RecordsTyped DEF Acts, TransactionsTypeOK
<1>5. record[c] \in Unfinished
    BY <1>0 DEF GetsVerdict, RecordsTellTheRun, TransactionsTypeOK
<1>6. Committed(c) /\ held[c] \in Row
    BY <1>0 DEF GetsVerdict, HistoryBelongsToProject, EntitiesInv, EntityFits, TransactionsTypeOK
<1>7. PICK p \in Call : p = held[c].id
    BY <1>6 DEF Row
<1>8. /\ table' # Absent /\ table'.id = p
      /\ table'.live = IF v = "successful" THEN c ELSE table.live
    <2>1. CASE v = "successful"
        <3>1. writer = c
            BY <1>0, <1>2, <2>1 DEF SpoiledInv
        <3>2. table' = written
            BY <1>0, <3>1, RowMoves DEF Acts, Takes, Commits
        <3> QED BY <1>0, <1>7, <2>1, <3>1, <3>2, TransactionsAssumption
                DEF WriterInv, Session, TransactionsAll, PlacesInv, OtherPlace
    <2>2. CASE v # "successful"
        <3>1. writer # c
            BY <1>0, <1>2, <2>2 DEF WriterInv
        <3>2. table' = table
            BY <1>0, <3>1, RowMoves DEF Acts, Takes, Commits
        <3> QED BY <1>6, <1>7, <2>2, <3>2 DEF Committed
    <2> QED BY <2>1, <2>2
<1>9. /\ \A d \in Call : ProjectIn(d)' = ProjectIn(d)
      /\ ProjectIn(c) = p
    BY <1>2, <1>3, <1>5, <1>7 DEF ProjectIn, Unfinished, History!Final
<1>10. /\ \A q \in Call : InTable(q)' = InTable(q)
       /\ \A q \in Call : ShownBy(q)' = IF v = "successful" /\ q = p THEN c ELSE ShownBy(q)
    BY <1>6, <1>7, <1>8 DEF InTable, ShownBy, Committed
<1>11. /\ [d \in Call |-> ProjectIn(d)]' = [d \in Call |-> ProjectIn(d)]
       /\ [d \in Call |-> ProjectIn(d)][c] = p
       /\ {q \in Call : InTable(q)}' = {q \in Call : InTable(q)}
       /\ Unrecorded' = Unrecorded
    BY <1>3, <1>9, <1>10 DEF Unrecorded
<1>12. [q \in Call |-> ShownBy(q)]'
           = IF v = "successful" THEN [[q \in Call |-> ShownBy(q)] EXCEPT ![p] = c]
             ELSE [q \in Call |-> ShownBy(q)]
    BY <1>10
<1>13. record[c] \in History!Unfinished
    BY <1>5 DEF Unfinished, History!Unfinished
<1>14. History!Conclude(c, v)
    BY <1>2, <1>4, <1>11, <1>12, <1>13 DEF History!Conclude
<1> QED BY <1>2, <1>14

(* Nothing else that a call does is seen.                                  *)
LEMMA CallKeepsPromise ==
    ASSUME TransactionsAll, UnderWay, NEW c \in Call, CallStep(c)
    PROVE  History!HistoryNext
<1>0. /\ CoordinatorTypeOK /\ TransactionsTypeOK /\ EntitiesInv /\ IdsInv /\ WriterInv
      /\ c \in Session /\ Call \subseteq Session /\ Call \cap Other = {}
      /\ NoSession \notin Session
    BY TransactionsAssumption DEF TransactionsAll, CoordinatorInv, Session
<1>1. CASE at[c] = "record" /\ record'[c] = "queued"
    BY <1>1, RecordEnters DEF History!HistoryNext
<1>2. CASE at[c] \in {"planning", "running"} /\ record[c] # "none" /\ record'[c] = at[c]
    BY <1>2, ProgressAdvances DEF History!HistoryNext, History!Unfinished
<1>3. CASE at[c] = "finish" /\ GetsVerdict(c)
    BY <1>3, VerdictConcludes DEF History!HistoryNext
<1>4. CASE /\ record'[c] = record[c]
           /\ at[c] = "finish" => ~GetsVerdict(c)
           /\ at[c] = "record" => at'[c] = "over"
    <2>1. record' = record
        BY <1>0, <1>4, CallFrame, RecordsTyped DEF Acts, TransactionsTypeOK
    <2>2. ~Commits(c)
        <3>1. writer = c /\ at[c] = "finish" => GetsVerdict(c)
            BY <1>0 DEF WriterInv
        <3> QED BY <1>0, <1>4, <3>1 DEF Commits
    <2>3. table' = table
        BY <1>0, <2>2, RowMoves DEF Acts, Takes
    <2>4. \A d \in Call : /\ record[d] # "none" => held'[d].id = held[d].id
                          /\ at'[d] \in Preparing => at[d] \in Preparing
        <3>1. record[c] # "none" => at[c] # "lookup"
            BY <1>0 DEF IdsInv, Preparing
        <3> QED BY <1>0, <3>1, CallFrame, CallMoves
    <2>5. History!GiveUp
        BY <2>1, <2>3, <2>4, UncommittedUnseen
    <2> QED BY <2>5 DEF History!HistoryNext
<1> QED BY <1>1, <1>2, <1>3, <1>4, CallMoves

(* Another session deletes the project or writes back an earlier row, when *)
(* it commits.                                                             *)
LEMMA OtherKeepsPromise ==
    ASSUME TransactionsAll, NEW d \in Other, OtherStep(d)
    PROVE  History!HistoryNext
<1>0. /\ TransactionsTypeOK /\ EntitiesInv /\ WriterInv /\ LiveInv /\ HistoryBelongsToProject
      /\ d \in Session /\ d \notin Call /\ Call \subseteq Session /\ Acts(d)
      /\ NoSession \notin Session /\ Absent \notin Row
    BY TransactionsAssumption DEF TransactionsAll, Session, Acts
<1>1. \A c \in Call : at'[c] = at[c] /\ held'[c] = held[c]
    BY <1>0, OtherFrame
<1>2. Unrecorded' = Unrecorded
    BY <1>1 DEF Unrecorded
<1>3. CASE Commits(d) /\ written = Absent
    <2>1. /\ table' = Absent /\ table # Absent /\ table.id = held[d].id /\ table \in Row
        BY <1>0, <1>3 DEF Commits, WriterInv, TransactionsTypeOK
    <2>2. PICK p \in Call : p = table.id
        BY <2>1 DEF Row
    <2>3. \A c \in Call :
              /\ record'[c] = IF ProjectIn(c) = p THEN "none" ELSE record[c]
              /\ ProjectIn(c)' = IF ProjectIn(c) = p THEN Absent ELSE ProjectIn(c)
        BY <1>0, <1>1, <1>3, <2>1, <2>2, OtherMoves DEF ProjectIn, EntitiesInv, EntityFits
    <2>4. record' = [c \in Call |-> IF [e \in Call |-> ProjectIn(e)][c] = p THEN "none"
                                    ELSE record[c]]
        <3>1. record' = [c \in Call |-> record'[c]]
            BY <1>0, RecordsTyped
        <3> QED BY <2>3, <3>1
    <2>5. [c \in Call |-> ProjectIn(c)]'
              = [c \in Call |-> IF [e \in Call |-> ProjectIn(e)][c] = p THEN Absent
                                ELSE [e \in Call |-> ProjectIn(e)][c]]
        BY <2>3
    <2>6. /\ \A q \in Call : InTable(q) <=> q = p
          /\ \A q \in Call : ~InTable(q)'
          /\ \A q \in Call : ShownBy(q)' = NoCall
          /\ \A q \in Call : q # p => ShownBy(q) = NoCall
        BY <2>1, <2>2 DEF InTable, ShownBy
    <2>7. /\ p \in {q \in Call : InTable(q)}
          /\ {q \in Call : InTable(q)}' = {q \in Call : InTable(q)} \ {p}
          /\ [q \in Call |-> ShownBy(q)]' = [[q \in Call |-> ShownBy(q)] EXCEPT ![p] = NoCall]
        BY <2>6
    <2>8. History!Delete(p)
        BY <1>2, <2>4, <2>5, <2>7 DEF History!Delete
    <2> QED BY <2>8 DEF History!HistoryNext
<1>4. CASE ~(Commits(d) /\ written = Absent)
    <2>1. record' = record
        BY <1>4, OtherMoves
    <2>2. \A c \in Call : ProjectIn(c)' = ProjectIn(c)
        BY <1>1, <2>1 DEF ProjectIn
    <2>3. CASE table' = table
        <3>1. /\ \A c \in Call : record[c] # "none" => held'[c].id = held[c].id
              /\ \A c \in Call : at'[c] \in Preparing => at[c] \in Preparing
            BY <1>1
        <3>2. History!GiveUp
            BY <2>1, <2>3, <3>1, UncommittedUnseen
        <3> QED BY <3>2 DEF History!HistoryNext
    <2>4. CASE table' # table
        <3>1. /\ table # Absent /\ table' # Absent /\ table'.id = table.id
              /\ table' = written /\ Commits(d) /\ table' \in Row
            BY <1>0, <1>4, <2>4, RowChange DEF TransactionsTypeOK
        <3>2. PICK p \in Call : p = table.id
            BY <3>1 DEF Row
        <3>3. PICK x \in Call \cup {NoCall} : x = table'.live
            BY <3>1 DEF Row
        <3>4. Real(written)
            BY <1>0, <3>1 DEF LiveInv, Commits
        <3>5. x # NoCall => x \in Call /\ record[x] = "successful" /\ ProjectIn(x) = p
            BY <3>1, <3>2, <3>3, <3>4 DEF Real, ProjectIn
        <3>6. /\ \A q \in Call : InTable(q)' = InTable(q)
              /\ \A q \in Call : ShownBy(q)' = IF q = p THEN x ELSE ShownBy(q)
              /\ InTable(p)
            BY <3>1, <3>2, <3>3 DEF InTable, ShownBy
        <3>7. /\ [c \in Call |-> ProjectIn(c)]' = [c \in Call |-> ProjectIn(c)]
              /\ {q \in Call : InTable(q)}' = {q \in Call : InTable(q)}
              /\ [q \in Call |-> ShownBy(q)]' = [[q \in Call |-> ShownBy(q)] EXCEPT ![p] = x]
              /\ p \in {q \in Call : InTable(q)}
            BY <2>2, <3>6
        <3>8. x # NoCall => [c \in Call |-> ProjectIn(c)][x] = p
            BY <3>5
        <3>9. History!Restore(p, x)
            BY <1>2, <2>1, <3>5, <3>7, <3>8 DEF History!Restore
        <3> QED BY <3>9 DEF History!HistoryNext
    <2> QED BY <2>3, <2>4
<1> QED BY <1>3, <1>4

(* Statement by statement, and whatever others commit between them, the    *)
(* use cases keep the promise of DeploymentHistory on PostgreSQL.          *)
THEOREM TransactionsImplementHistory == TransactionsSpec => ImplementsHistory
<1>1. TransactionsInit => History!HistoryInit
    BY CommittedStarts
<1>2. TransactionsAll /\ UnderWay /\ [TransactionsNext]_transactionVars
          => [History!HistoryNext]_History!historyVars
    <2> SUFFICES ASSUME TransactionsAll, UnderWay, [TransactionsNext]_transactionVars
                 PROVE  [History!HistoryNext]_History!historyVars
        OBVIOUS
    <2>1. CASE CancelCurrent \/ TransactionsRestart \/ UNCHANGED transactionVars
        <3>1. /\ record' = record /\ table' = table
              /\ \A c \in Call : /\ held'[c] = held[c]
                                 /\ at'[c] \in Preparing => at[c] \in Preparing
            BY <2>1, RestartMoves DEF CancelCurrent, transactionVars, sessionVars, dbVars, Preparing
        <3>2. /\ \A c \in Call : record[c] # "none" => held'[c].id = held[c].id
              /\ \A c \in Call : at'[c] \in Preparing => at[c] \in Preparing
            BY <3>1
        <3>3. History!GiveUp
            BY <3>1, <3>2, UncommittedUnseen
        <3> QED BY <3>3 DEF History!HistoryNext
    <2> QED BY <2>1, Cases, CallKeepsPromise, OtherKeepsPromise
<1> QED BY <1>1, <1>2, TransactionsAlways, UnderWayAlways, PTL
        DEF TransactionsSpec, ImplementsHistory, History!HistorySpec

----------------------------------------------------------------------------
(* Why every session ends.  Fairness and ENABLED are not in reach of a     *)
(* proof; that there is no way back and a last step is.                    *)

(* How many statements, and steps of its task, session s may still take.   *)
Left(s) ==
    CASE at[s] = "lookup" -> 15
      [] at[s] = "redirect_read" -> 14
      [] at[s] \in {"insert", "redirect"} -> 13
      [] at[s] = "record" -> 12
      [] at[s] = "load" -> 11
      [] at[s] = "run" -> IF task[s] = "ready" THEN 10 ELSE IF task[s] = "running" THEN 7 ELSE 6
      [] at[s] = "planning" -> 9
      [] at[s] = "running" -> 8
      [] at[s] = "save_read" -> 5
      [] at[s] = "save" -> 4
      [] at[s] \in {"finish", "edit_read"} -> 3
      [] at[s] \in {"edit", "delete"} -> 2
      [] at[s] = "commit" -> 1
      [] OTHER -> 0

(* Whatever session s does brings it nearer to its end, and nothing that   *)
(* others do, a cancellation or a crash, sets back one that is under way.  *)
SessionsRunOut ==
    [][\A s \in Session :
          /\ Step(s) => Left(s)' < Left(s)
          /\ at[s] \in Statement \cup {"run"} => Left(s)' <= Left(s)]_transactionVars

LEMMA CallRunsOut ==
    ASSUME TransactionsAll, NEW c \in Call, CallStatement(c) \/ TaskStep(c)
    PROVE  Left(c)' < Left(c)
<1>0. /\ CoordinatorTypeOK /\ TransactionsTypeOK /\ PlacesInv /\ c \in Session
    BY DEF TransactionsAll, CoordinatorInv, Session
<1> USE DEF Goto, Left
<1>1. CASE Lookup(c) \/ Insert(c) \/ Record(c) \/ Conclude(c)
    BY <1>0, <1>1 DEF Lookup, Insert, Record, Conclude, TransactionsTypeOK
<1>2. CASE Redirect(c) \/ Save(c)
    BY <1>0, <1>2 DEF Redirect, Save, Select, Flush, TransactionsTypeOK
<1>3. CASE Load(c)
    BY <1>0, <1>3 DEF Load, RunAdmitted, TransactionsTypeOK, CoordinatorTypeOK
<1>4. CASE TaskStarts(c) \/ TaskCancelledEarly(c)
    <2>1. at[c] \in {"planning", "running", "run"}
        BY <1>4, TaskPlace DEF TaskStep, TransactionsAll
    <2>2. at[c] = "run" /\ task[c] = "ready"
        BY <1>0, <1>4, <2>1 DEF TaskStarts, TaskCancelledEarly, FirstStep, EndsBeforeStart, PlacesInv
    <2> QED BY <1>0, <1>4, <2>2 DEF TaskStarts, TaskCancelledEarly, FirstStep, EndsBeforeStart,
                          TransactionsTypeOK, CoordinatorTypeOK
<1>5. CASE Progress(c) \/ CutShort(c)
    <2>1. task[c] = "running" /\ task'[c] \in {"running", "done"}
        BY <1>0, <1>5 DEF Progress, CutShort, Finish, PlacesInv, CoordinatorTypeOK,
                          coordinatorVars
    <2>2. at'[c] = "run" \/ (at[c] = "planning" /\ at'[c] = "running")
        BY <1>0, <1>5 DEF Progress, CutShort, TransactionsTypeOK
    <2>3. at[c] \in {"planning", "running"}
        BY <1>5 DEF Progress, CutShort
    <2> QED BY <2>1, <2>2, <2>3
<1>6. CASE ExecutorEnds(c)
    BY <1>0, <1>6 DEF ExecutorEnds, Finish, CoordinatorTypeOK
<1>7. CASE DeployResumes(c)
    BY <1>0, <1>7 DEF DeployResumes, Resume, TransactionsTypeOK
<1> QED BY <1>1, <1>2, <1>3, <1>4, <1>5, <1>6, <1>7 DEF CallStatement, TaskStep

LEMMA OtherRunsOut ==
    ASSUME TransactionsAll, NEW d \in Other, OtherStatement(d)
    PROVE  Left(d)' < Left(d)
<1>0. TransactionsTypeOK /\ d \in Session
    BY DEF TransactionsAll, Session
<1>1. CASE DeleteRow(d) \/ ScopeEnds(d)
    BY <1>0, <1>1 DEF DeleteRow, ScopeEnds, Goto, Left, TransactionsTypeOK
<1>2. CASE Edit(d)
    BY <1>0, <1>2 DEF Edit, Select, Flush, Goto, Left, TransactionsTypeOK
<1> QED BY <1>1, <1>2 DEF OtherStatement

(* A session is where it was, its task too, or it has been ended.          *)
LEMMA OthersSetNobodyBack ==
    ASSUME TransactionsAll, [TransactionsNext]_transactionVars, NEW s \in Session, ~Acts(s)
    PROVE  \/ at'[s] = at[s] /\ (s \in Call => task'[s] = task[s])
           \/ at'[s] \in {"idle", "over", "lost"}
<1>0. /\ CoordinatorTypeOK /\ TransactionsTypeOK
      /\ Call \cap Other = {} /\ Session = Call \cup Other
    BY TransactionsAssumption DEF TransactionsAll, CoordinatorInv, Session
<1>1. ASSUME NEW c \in Call, CallStep(c)
      PROVE  at'[s] = at[s] /\ (s \in Call => task'[s] = task[s])
    <2>1. s # c
        BY <1>1 DEF Acts
    <2> QED BY <1>0, <1>1, <2>1, CallFrame
<1>2. ASSUME NEW d \in Other, OtherStep(d)
      PROVE  at'[s] = at[s] /\ (s \in Call => task'[s] = task[s])
    <2>1. s # d
        BY <1>2 DEF Acts
    <2> QED BY <1>0, <1>2, <2>1, OtherFrame DEF coordinatorVars
<1>3. CASE CancelCurrent \/ UNCHANGED transactionVars
    BY <1>3 DEF CancelCurrent, CancelForUser, transactionVars
<1>4. CASE TransactionsRestart
    BY <1>0, <1>4, RestartMoves
<1> QED BY <1>1, <1>2, <1>3, <1>4, Cases

(* Every session that has begun its statements comes to its end within     *)
(* fifteen steps of its own, if only it is let go on: and that nobody      *)
(* keeps it waiting for ever is what NobodyWaitsInACircle is about.        *)
THEOREM SessionsRunOutAlways == TransactionsSpec => SessionsRunOut
<1>1. TransactionsAll /\ [TransactionsNext]_transactionVars =>
          [\A s \in Session :
              /\ Step(s) => Left(s)' < Left(s)
              /\ at[s] \in Statement \cup {"run"} => Left(s)' <= Left(s)]_transactionVars
    <2> SUFFICES ASSUME TransactionsAll, [TransactionsNext]_transactionVars, NEW s \in Session
                 PROVE  /\ Step(s) => Left(s)' < Left(s)
                        /\ at[s] \in Statement \cup {"run"} => Left(s)' <= Left(s)
        OBVIOUS
    <2>1. Left(s) \in Nat /\ Left(s)' \in Nat
        BY DEF Left
    <2>2. Step(s) => Left(s)' < Left(s)
        BY CallRunsOut, OtherRunsOut DEF Step
    <2>3. ASSUME at[s] \in Statement \cup {"run"}
          PROVE  Left(s)' <= Left(s)
        <3>1. CASE Acts(s)
            <4>1. at[s] \notin {"idle", "analyzing", "cleaning"}
                BY <2>3 DEF Statement
            <4>2. Step(s)
                BY <3>1, <4>1 DEF Acts, CallStep, OtherStep, Step, Begin, Analyzed, BeginDelete,
                                  Cleaned, BeginEdit
            <4> QED BY <2>1, <2>2, <4>2
        <3>2. CASE ~Acts(s)
            <4>1. CASE at'[s] \in {"idle", "over", "lost"}
                BY <2>1, <4>1 DEF Left
            <4>2. CASE at'[s] = at[s] /\ (s \in Call => task'[s] = task[s])
                <5>1. at[s] = "run" => s \in Call
                    BY DEF TransactionsAll, PlacesInv, OtherPlace, Session
                <5> QED BY <2>1, <4>2, <5>1 DEF Left
            <4> QED BY <3>2, <4>1, <4>2, OthersSetNobodyBack
        <3> QED BY <3>1, <3>2
    <2> QED BY <2>2, <2>3
<1> QED BY <1>1, TransactionsAlways, PTL DEF TransactionsSpec, SessionsRunOut
=============================================================================
