----------------------------- MODULE AgentLoop -----------------------------
(***************************************************************************)
(* ai_agent.py: a deployment by a language model, which asks for commands  *)
(* and is told what they print, until it says that it is done.  Of the     *)
(* conversation only its shape is kept: who speaks, and how many calls a   *)
(* reply of the model asks for.  What a call is (a command, the end, or a  *)
(* function that does not exist) is decided when its turn comes.           *)
(***************************************************************************)
EXTENDS Naturals, Sequences, FiniteSetsExt

CONSTANTS
    Agent,         \* AIDeployAgent ("gemini") and GroqDeployAgent ("groq")
    MaxCommands,   \* max_commands
    MaxCalls,      \* a bound: the calls of one reply
    Window         \* the messages _compact_messages() keeps, 12

ASSUME AgentAssumption ==
    /\ Agent \subseteq {"gemini", "groq"}
    /\ MaxCommands \in Nat /\ MaxCalls \in Nat /\ Window \in Nat

(* The requests an agent makes before it gives up on the provider. *)
Tries == [gemini |-> 6, groq |-> 5]

VARIABLES
    agent,
    state,      \* "answering" are the calls of a reply
    attempt,    \* requests that have failed since the last reply
    replied,    \* the calls of the last reply
    todo,       \* those that are still to be answered
    commands,   \* command_count
    messages,   \* the conversation after its two fixed messages; of Groq's
                \* what a later request can still contain, of Gemini's nothing
    outcome

agentVars == <<agent, state, attempt, replied, todo, commands, messages, outcome>>

Message == [role : {"assistant"}, calls : 1..MaxCalls] \cup [role : {"tool"}, calls : {0}]
Answer == [role |-> "tool", calls |-> 0]

AgentTypeOK ==
    /\ agent \in Agent
    /\ state \in {"connecting", "asking", "answering", "ended"}
    /\ attempt \in 0..5
    /\ replied \in 0..MaxCalls
    /\ todo \in 0..MaxCalls
    /\ commands \in Nat
    /\ messages \in Seq(Message)
    /\ outcome \in {"none", "completed", "gave_up", "raised", "cancelled"}

AgentInit ==
    /\ agent \in Agent
    /\ state = "connecting"
    /\ attempt = 0
    /\ replied = 0 /\ todo = 0
    /\ commands = 0
    /\ messages = <<>>
    /\ outcome = "none"

----------------------------------------------------------------------------
(* Mutant: one message too few. *)
RecentLess(m) == SubSeq(m, IF Len(m) < Window THEN 1 ELSE Len(m) - Window + 2, Len(m))

(* tail[-12:] *)
Recent(m) == SubSeq(m, IF Len(m) <= Window THEN 1 ELSE Len(m) - Window + 1, Len(m))

(* Mutant: the tail is sent as it is. *)
WholeTail(m) == Recent(m)

(* _compact_messages(): answers whose question is gone are not sent. *)
Compacted(m) ==
    LET tail == Recent(m)
        spoken == {i \in DOMAIN tail : tail[i].role # "tool"}
    IN IF spoken = {} THEN <<>> ELSE SubSeq(tail, Min(spoken), Len(tail))

Saying(m) == messages' = IF agent = "groq" THEN Recent(Append(messages, m)) ELSE <<>>

Ends(o) ==
    /\ state' = "ended"
    /\ outcome' = o
    /\ UNCHANGED <<agent, attempt, replied, todo, commands, messages>>

----------------------------------------------------------------------------
Connect ==
    /\ state = "connecting"
    /\ state' = "answering"
    /\ UNCHANGED <<agent, attempt, replied, todo, commands, messages, outcome>>

ConnectFails == state = "connecting" /\ Ends("raised")

(* Mutant: `<=`. *)
AsksOnceMore ==
    /\ state = "answering" /\ todo = 0 /\ commands <= MaxCommands
    /\ state' = "asking"
    /\ UNCHANGED <<agent, attempt, replied, todo, commands, messages, outcome>>

(* `while command_count < self.max_commands` *)
AsksAgain ==
    /\ state = "answering" /\ todo = 0 /\ commands < MaxCommands
    /\ state' = "asking"
    /\ UNCHANGED <<agent, attempt, replied, todo, commands, messages, outcome>>

LimitReached ==
    state = "answering" /\ todo = 0 /\ commands >= MaxCommands /\ Ends("gave_up")

(* A quota that is used up; with Groq any error that has a response, and   *)
(* any response that makes no sense.                                       *)
TryAgain ==
    /\ state = "asking" /\ attempt + 1 < Tries[agent]
    /\ attempt' = attempt + 1
    /\ UNCHANGED <<agent, state, replied, todo, commands, messages, outcome>>

LastTryFails ==
    /\ state = "asking" /\ attempt + 1 = Tries[agent]
    /\ Ends(IF agent = "groq" THEN "raised" ELSE "gave_up")

(* Any other error. *)
RequestRaises == state = "asking" /\ Ends("raised")

(* A reply that asks for nothing; with Gemini also one without candidates. *)
NothingAsked == state = "asking" /\ Ends("gave_up")

Reply(n) ==
    /\ state = "asking"
    /\ state' = "answering"
    /\ attempt' = 0
    /\ replied' = n /\ todo' = n
    /\ Saying([role |-> "assistant", calls |-> n])
    /\ UNCHANGED <<agent, commands, outcome>>

(* Mutant: command_count starts again with each reply. *)
RunCountsPerReply ==
    /\ state = "answering" /\ todo > 0
    /\ todo' = todo - 1
    /\ commands' = 1 + replied - todo
    /\ Saying(Answer)
    /\ UNCHANGED <<agent, state, attempt, replied, outcome>>

(* run_ssh_command: what it printed, that it timed out, or that it is not  *)
(* allowed.                                                                *)
RunCommand ==
    /\ state = "answering" /\ todo > 0
    /\ todo' = todo - 1
    /\ commands' = commands + 1
    /\ Saying(Answer)
    /\ UNCHANGED <<agent, state, attempt, replied, outcome>>

SessionBreaks == state = "answering" /\ todo > 0 /\ Ends("raised")

(* A function that does not exist. *)
UnknownCall ==
    /\ state = "answering" /\ todo > 0
    /\ todo' = todo - 1
    /\ Saying(Answer)
    /\ UNCHANGED <<agent, state, attempt, replied, commands, outcome>>

(* deployment_complete: the calls after it are not looked at. *)
Complete == state = "answering" /\ todo > 0 /\ Ends("completed")

Cancelled == state # "ended" /\ Ends("cancelled")

Asking == TryAgain \/ LastTryFails \/ RequestRaises \/ NothingAsked \/ \E n \in 1..MaxCalls : Reply(n)
Answering == AsksAgain \/ LimitReached \/ RunCommand \/ SessionBreaks \/ UnknownCall \/ Complete
Connecting == Connect \/ ConnectFails

AgentNext == Connecting \/ Asking \/ Answering \/ Cancelled

(* Connections and commands have time-outs, and so have Groq's requests;   *)
(* Gemini's have none.                                                     *)
AgentFairness ==
    /\ WF_agentVars(Connecting)
    /\ WF_agentVars(Answering)
    /\ WF_agentVars(agent = "groq" /\ Asking)

AgentSafety == AgentInit /\ [][AgentNext]_agentVars
AgentSpec == AgentSafety /\ AgentFairness
----------------------------------------------------------------------------
(* The limit of commands may be passed within one reply, and by no more    *)
(* than that reply asks for.                                               *)
AgentInv ==
    /\ AgentTypeOK
    /\ attempt < Tries[agent]
    /\ state = "asking" => commands < MaxCommands /\ todo = 0
    /\ todo <= replied
    /\ replied > 0 => commands + todo < MaxCommands + replied
    /\ replied = 0 => commands = 0
    /\ state = "ended" <=> outcome # "none"

(* Every request Groq gets is a conversation: each answer follows the      *)
(* reply that asked for it, and each reply has all its answers - wherever  *)
(* the tail was cut.  The provider refuses anything else, for ever.        *)
IsConversation(m) ==
    /\ m # <<>> => m[1].role = "assistant"
    /\ \A i \in DOMAIN m : m[i].role = "assistant" =>
           LET last == i + m[i].calls IN
           /\ last <= Len(m)
           /\ \A j \in (i + 1)..last : m[j].role = "tool"
           /\ last < Len(m) => m[last + 1].role = "assistant"

RequestsAreConversations == state = "asking" => IsConversation(Compacted(messages))

(* The model is told the answers to its last reply, unless these alone are *)
(* as many as Window: then it is told nothing of the deployment at all.    *)
AnswersAreSeen ==
    agent = "groq" /\ state = "asking" /\ replied > 0 =>
        LET request == Compacted(messages) IN
        IF replied < Window
        THEN /\ replied < Len(request)
             /\ request[Len(request) - replied].role = "assistant"
        ELSE request = <<>>

(* Whatever the model and the provider answer, the agent comes to an end,  *)
(* unless the model asks for functions that do not exist again and again,  *)
(* which no limit counts, or Gemini never answers.                         *)
AgentEnds ==
    \/ <>(state = "ended")
    \/ []<><<UnknownCall>>_agentVars
    \/ <>[](agent = "gemini" /\ state = "asking")
=============================================================================
