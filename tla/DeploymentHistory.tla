------------------------- MODULE DeploymentHistory -------------------------
(***************************************************************************)
(* What the tables `projects` and `deployments` promise whoever reads      *)
(* them, without the use cases, sessions and runs that write them: a       *)
(* deployment enters the history of its project once, advances, and is     *)
(* concluded once; a success is there together with its URL; a project     *)
(* that was deleted took its history along, and never comes back; and the  *)
(* URL it shows is always that of a success of its own, or of a deployment *)
(* torn in two: its URL was saved, its row will never be concluded.        *)
(***************************************************************************)
CONSTANTS Call,      \* deployments
          Project,   \* ids of projects
          NoCall,    \* no URL
          NoProject  \* of a deployment without a row

VARIABLES status,    \* status[c]: the row of deployment c, "none" without one
          of,        \* of[c]: the project in that row
          present,   \* the ids in the table of projects
          shown,     \* shown[p]: the deployment whose URL p shows
          pending,   \* the deployments that may still enter
          fresh,     \* the ids that may still be given to a project
          torn       \* the deployments whose URL was saved, and nothing more

historyVars == <<status, of, present, shown, pending, fresh, torn>>

Unfinished == {"queued", "planning", "running"}
Final == {"successful", "failed", "cancelled"}

HistoryInit ==
    /\ status = [c \in Call |-> "none"]
    /\ of = [c \in Call |-> NoProject]
    /\ present = {}
    /\ shown = [p \in Project |-> NoCall]
    /\ pending = Call
    /\ fresh = Project
    /\ torn = {}

(* A deployment of p enters the history: p is created with it, or stays,   *)
(* with its URL, or without when the deployment has another target.  A     *)
(* deployment that is refused enters failed.                               *)
Enter(c, p, s) ==
    /\ c \in pending
    /\ s \in {"queued", "failed"}
    /\ p \in present \cup fresh
    /\ status' = [status EXCEPT ![c] = s]
    /\ of' = [of EXCEPT ![c] = p]
    /\ present' = present \cup {p}
    /\ shown' \in {shown, [shown EXCEPT ![p] = NoCall]}
    /\ p \notin present => shown'[p] = NoCall
    /\ pending' \subseteq pending \ {c}
    /\ fresh' \subseteq fresh \ {p}
    /\ UNCHANGED torn

Follows(s, t) == <<s, t>> \in {<<"queued", "planning">>, <<"queued", "running">>,
                               <<"planning", "running">>}

Advance(c, s) ==
    /\ Follows(status[c], s)
    /\ status' = [status EXCEPT ![c] = s]
    /\ UNCHANGED <<of, present, shown, pending, fresh, torn>>

(* The verdict and, with a success, the URL. *)
Conclude(c, v) ==
    /\ status[c] \in Unfinished /\ c \notin torn
    /\ v \in Final
    /\ status' = [status EXCEPT ![c] = v]
    /\ shown' = IF v = "successful" THEN [shown EXCEPT ![of[c]] = c] ELSE shown
    /\ UNCHANGED <<of, present, pending, fresh, torn>>

(* The URL is saved, and the verdict never will be. *)
Tear(c) ==
    /\ status[c] \in Unfinished
    /\ torn' = torn \cup {c}
    /\ shown' = [shown EXCEPT ![of[c]] = c]
    /\ UNCHANGED <<status, of, present, pending, fresh>>

(* A project whose first deployment never enters. *)
Create(p) ==
    /\ p \in fresh \ present
    /\ present' = present \cup {p}
    /\ fresh' \subseteq fresh \ {p}
    /\ UNCHANGED <<status, of, shown, pending, torn>>

(* Someone writes back the row as it was earlier, or takes its URL away. *)
Restore(p, x) ==
    /\ p \in present
    /\ x # NoCall => /\ x \in Call /\ of[x] = p
                     /\ status[x] = "successful" \/ x \in torn
    /\ shown' = [shown EXCEPT ![p] = x]
    /\ UNCHANGED <<status, of, present, pending, fresh, torn>>

Delete(p) ==
    /\ p \in present
    /\ present' = present \ {p}
    /\ shown' = [shown EXCEPT ![p] = NoCall]
    /\ status' = [c \in Call |-> IF of[c] = p THEN "none" ELSE status[c]]
    /\ of' = [c \in Call |-> IF of[c] = p THEN NoProject ELSE of[c]]
    /\ UNCHANGED <<pending, fresh, torn>>

(* Deployments end without a trace, ids are thrown away. *)
GiveUp ==
    /\ pending' \subseteq pending
    /\ fresh' \subseteq fresh
    /\ UNCHANGED <<status, of, present, shown, torn>>

HistoryNext ==
    \/ \E c \in Call, p \in Project, s \in {"queued", "failed"} : Enter(c, p, s)
    \/ \E c \in Call, s \in Unfinished : Advance(c, s)
    \/ \E c \in Call, v \in Final : Conclude(c, v)
    \/ \E p \in Project, x \in Call \cup {NoCall} : Restore(p, x)
    \/ \E c \in Call : Tear(c)
    \/ \E p \in Project : Create(p) \/ Delete(p)
    \/ GiveUp

HistorySpec == HistoryInit /\ [][HistoryNext]_historyVars
=============================================================================
