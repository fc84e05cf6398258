----------------------------- MODULE Executors -----------------------------
(***************************************************************************)
(* deploy() hands a deployment to the executor of its target, and to the   *)
(* one of the server for a target that has none.  With EXECUTION_MODE=ai   *)
(* that one is an agent.  The two kinds share nothing but the callers; so  *)
(* a behaviour is either that of an agent during one deployment, or that   *)
(* of the platform executors during several ones of a project.             *)
(***************************************************************************)
EXTENDS AgentLoop, Platforms

VARIABLE executor   \* platform_executors.get(target, self.executor)

executorsVars == <<executor, agentVars, platformVars>>

ExecutorsInit ==
    /\ executor \in {"agent", "platform"}
    /\ AgentInit
    /\ executor = "platform" => agent = CHOOSE a \in Agent : TRUE
    /\ PlatformInit

AgentStep == executor = "agent" /\ AgentNext /\ UNCHANGED <<executor, platformVars>>
PlatformStep == executor = "platform" /\ PlatformNext /\ UNCHANGED <<executor, agentVars>>

ExecutorsNext == AgentStep \/ PlatformStep

(* The fairness of the executor that is at work. *)
ExecutorsFairness ==
    /\ WF_agentVars(executor = "agent" /\ Connecting)
    /\ WF_agentVars(executor = "agent" /\ Answering)
    /\ WF_agentVars(executor = "agent" /\ agent = "groq" /\ Asking)
    /\ \A r \in Run : WF_platformVars(executor = "platform" /\ Responds(r))

ExecutorsSpec == ExecutorsInit /\ [][ExecutorsNext]_executorsVars /\ ExecutorsFairness

(* Whichever executor a deployment gets, it comes to an end, but for what  *)
(* AgentEnds and PlatformEnds except.                                      *)
DeploymentsEnd ==
    /\ executor = "agent" => AgentEnds
    /\ executor = "platform" => PlatformEnds
=============================================================================
