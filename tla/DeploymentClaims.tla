-------------------------- MODULE DeploymentClaims --------------------------
(***************************************************************************)
(* What the deployment coordinator promises its callers, without the       *)
(* registries, the asyncio tasks and the clean-up that keep the promise:   *)
(* a deployment is granted a claim on its user and on its target, no two   *)
(* active deployments share either, a request is refused only because of   *)
(* an active one, and a deployment that was told to stop never succeeds.   *)
(***************************************************************************)
CONSTANTS User,      \* owners of deployments
          Key,       \* target keys (target, host, base path, deployment name)
          Call       \* requests, each made at most once

VARIABLES status,    \* status[c]: where request c stands
          claimUser, \* claimUser[u]: the requests ever granted to user u
          claimKey,  \* claimKey[k]: the requests ever granted on target k
          stopping   \* requests told to stop while active

claimVars == <<status, claimUser, claimKey, stopping>>

Verdict == {"ok", "error", "cancelled"}
Status == {"idle", "active", "refused", "lost"} \cup Verdict

Active(c) == status[c] = "active"
UserFree(u) == \A c \in claimUser[u] : ~Active(c)
KeyFree(k) == \A c \in claimKey[k] : ~Active(c)

ClaimInit ==
    /\ status = [c \in Call |-> "idle"]
    /\ claimUser = [u \in User |-> {}]
    /\ claimKey = [k \in Key |-> {}]
    /\ stopping = {}

Grant(c, u, k) ==
    /\ status[c] = "idle"
    /\ UserFree(u)
    /\ KeyFree(k)
    /\ status' = [status EXCEPT ![c] = "active"]
    /\ claimUser' = [claimUser EXCEPT ![u] = @ \cup {c}]
    /\ claimKey' = [claimKey EXCEPT ![k] = @ \cup {c}]
    /\ UNCHANGED stopping

Refuse(c, u, k) ==
    /\ status[c] = "idle"
    /\ ~UserFree(u) \/ ~KeyFree(k)
    /\ status' = [status EXCEPT ![c] = "refused"]
    /\ UNCHANGED <<claimUser, claimKey, stopping>>

(* Only active requests can be told to stop. *)
Stop(S) ==
    /\ \A c \in S : Active(c)
    /\ stopping' = stopping \cup S
    /\ UNCHANGED <<status, claimUser, claimKey>>

Conclude(c, v) ==
    /\ Active(c)
    /\ v = "ok" => c \notin stopping
    /\ status' = [status EXCEPT ![c] = v]
    /\ UNCHANGED <<claimUser, claimKey, stopping>>

(* The process dies: every active deployment is lost with it. *)
LoseAll ==
    /\ status' = [c \in Call |-> IF Active(c) THEN "lost" ELSE status[c]]
    /\ UNCHANGED <<claimUser, claimKey, stopping>>

ClaimNext ==
    \/ \E c \in Call, u \in User, k \in Key : Grant(c, u, k) \/ Refuse(c, u, k)
    \/ \E S \in SUBSET Call : Stop(S)
    \/ \E c \in Call, v \in Verdict : Conclude(c, v)
    \/ LoseAll

ClaimSafety == ClaimInit /\ [][ClaimNext]_claimVars

(* An active deployment that was told to stop is concluded sooner or       *)
(* later.  One that nobody stops may go on for ever.                       *)
ClaimSpec ==
    /\ ClaimSafety
    /\ \A c \in Call :
           WF_claimVars(c \in stopping /\ \E v \in Verdict : Conclude(c, v))
=============================================================================
