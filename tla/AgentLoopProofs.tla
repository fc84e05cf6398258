-------------------------- MODULE AgentLoopProofs --------------------------
(***************************************************************************)
(* Proofs about AgentLoop, for any limit of commands, any number of calls  *)
(* in a reply and any window.                                              *)
(***************************************************************************)
EXTENDS AgentLoop, WellFoundedInduction, TLAPS

LEMMA LoopStartsWell == AgentInit => AgentInv
BY AgentAssumption DEF AgentInit, AgentInv, AgentTypeOK, Tries, Message

(* What is kept of a longer conversation are messages. *)
LEMMA RecentIsTyped ==
  ASSUME AgentTypeOK, NEW x \in Message, Saying(x)
  PROVE  messages' \in Seq(Message)
<1>1. Append(messages, x) \in Seq(Message) /\ Window \in Nat
  BY AgentAssumption DEF AgentTypeOK
<1>2. \A m \in Seq(Message) : Recent(m) \in Seq(Message)
  BY <1>1 DEF Recent
<1>3. <<>> \in Seq(Message)
  OBVIOUS
<1> QED
  BY <1>1, <1>2, <1>3 DEF Saying

LEMMA LoopStep == AgentInv /\ [AgentNext]_agentVars => AgentInv'
<1> SUFFICES ASSUME AgentInv, [AgentNext]_agentVars PROVE AgentInv'
  OBVIOUS
<1> USE AgentAssumption
<1>1. CASE UNCHANGED agentVars
  BY <1>1 DEF agentVars, AgentInv, AgentTypeOK
<1>2. ASSUME NEW o \in {"completed", "gave_up", "raised", "cancelled"}, Ends(o), state # "ended"
      PROVE  AgentInv'
  BY <1>2 DEF Ends, AgentInv, AgentTypeOK
<1>3. CASE Connect \/ AsksAgain
  BY <1>3 DEF Connect, AsksAgain, AgentInv, AgentTypeOK
<1>4. CASE TryAgain
  BY <1>4 DEF TryAgain, AgentInv, AgentTypeOK, Tries
<1>5. ASSUME NEW n \in 1..MaxCalls, Reply(n) PROVE AgentInv'
  <2>1. messages' \in Seq(Message)
    BY <1>5, RecentIsTyped DEF Reply, Message, AgentInv
  <2> QED
    BY <1>5, <2>1 DEF Reply, AgentInv, AgentTypeOK, Tries
<1>6. CASE RunCommand \/ UnknownCall
  <2>1. messages' \in Seq(Message)
    BY <1>6, RecentIsTyped DEF RunCommand, UnknownCall, Answer, Message, AgentInv
  <2>2. /\ state = "answering" /\ todo > 0 /\ todo' = todo - 1
        /\ commands' \in {commands, commands + 1}
        /\ UNCHANGED <<agent, state, attempt, replied, outcome>>
    BY <1>6 DEF RunCommand, UnknownCall
  <2>3. /\ todo \in Nat /\ replied \in Nat /\ commands \in Nat /\ replied > 0
        /\ MaxCommands \in Nat /\ todo <= replied
        /\ commands + todo < MaxCommands + replied
    BY <2>2 DEF AgentInv, AgentTypeOK
  <2>4. AgentTypeOK'
    BY <2>1, <2>2, <2>3 DEF AgentInv, AgentTypeOK
  <2>5. /\ todo' <= replied' /\ replied' > 0
        /\ commands' + todo' < MaxCommands + replied'
    <3>1. replied' = replied /\ todo' = todo - 1
      BY <2>2
    <3>2. CASE commands' = commands
      BY <2>3, <3>1, <3>2
    <3>3. CASE commands' = commands + 1
      BY <2>3, <3>1, <3>3
    <3> QED
      BY <2>2, <3>2, <3>3
  <2>6. attempt' < Tries[agent']
    BY <2>2 DEF AgentInv
  <2>7. state' = "answering" /\ outcome' = "none" /\ replied' # 0
    BY <2>2, <2>3 DEF AgentInv
  <2> QED
    BY <2>4, <2>5, <2>6, <2>7 DEF AgentInv
<1>7. CASE \/ ConnectFails \/ LimitReached \/ LastTryFails \/ RequestRaises
           \/ NothingAsked \/ SessionBreaks \/ Complete \/ Cancelled
  BY <1>2, <1>7 DEF ConnectFails, LimitReached, LastTryFails, RequestRaises,
                    NothingAsked, SessionBreaks, Complete, Cancelled
<1> QED
  BY <1>1, <1>3, <1>4, <1>5, <1>6, <1>7 DEF AgentNext, Connecting, Asking, Answering

(* The agent passes its limit of commands by less than one reply, and      *)
(* gives up on the provider after as many requests as it says.             *)
THEOREM AgentInvariant == AgentSafety => []AgentInv
BY LoopStartsWell, LoopStep, PTL DEF AgentSafety

----------------------------------------------------------------------------
(* What can be said of a tail of the conversation while t of the n calls   *)
(* of the last reply are to be answered: after a reply come its answers,   *)
(* and then the next reply; the last answers are those to the last reply,  *)
(* which stands before them unless the tail begins after it.               *)
Talk(m, n, t) ==
    /\ m \in Seq(Message)
    /\ \A i \in 1..Len(m) : m[i].role = "assistant" =>
           /\ \A j \in (i + 1)..Len(m) : j <= i + m[i].calls => m[j].role = "tool"
           /\ i + m[i].calls < Len(m) => m[i + m[i].calls + 1].role = "assistant"
           /\ i + m[i].calls <= Len(m) + t
    /\ \A j \in 1..Len(m) : j > Len(m) - (n - t) => m[j].role = "tool"
    /\ n > 0 /\ n - t < Len(m) => /\ m[Len(m) - (n - t)].role = "assistant"
                                  /\ m[Len(m) - (n - t)].calls = n

LEMMA RestTalks ==
  ASSUME NEW n \in Nat, NEW t \in 0..n, NEW m, Talk(m, n, t), NEW s \in 1..(Len(m) + 1)
  PROVE  Talk(SubSeq(m, s, Len(m)), n, t)
<1> DEFINE rest == SubSeq(m, s, Len(m))
<1>1. m \in Seq(Message)
  BY DEF Talk
<1>2. /\ rest \in Seq(Message)
      /\ Len(rest) = Len(m) - s + 1
      /\ \A i \in 1..Len(rest) : rest[i] = m[i + s - 1] /\ i + s - 1 \in 1..Len(m)
  BY <1>1
<1>3. \A i \in 1..Len(m) : m[i].role = "assistant" => m[i].calls \in Nat \ {0}
  BY <1>1, AgentAssumption DEF Message
<1> HIDE DEF rest
<1>4. ASSUME NEW i \in 1..Len(rest), rest[i].role = "assistant"
      PROVE  /\ \A j \in (i + 1)..Len(rest) : j <= i + rest[i].calls => rest[j].role = "tool"
             /\ i + rest[i].calls < Len(rest) => rest[i + rest[i].calls + 1].role = "assistant"
             /\ i + rest[i].calls <= Len(rest) + t
  <2> DEFINE k == i + s - 1
             c == m[k].calls
  <2>1. /\ k \in 1..Len(m) /\ rest[i] = m[k] /\ c \in Nat \ {0} /\ m[k].role = "assistant"
        /\ Len(m) \in Nat /\ Len(rest) \in Nat
    BY <1>1, <1>2, <1>3, <1>4
  <2>2. /\ \A j \in (k + 1)..Len(m) : j <= k + c => m[j].role = "tool"
        /\ k + c < Len(m) => m[k + c + 1].role = "assistant"
        /\ k + c <= Len(m) + t
    BY <2>1 DEF Talk
  <2>3. k = i + s - 1
    OBVIOUS
  <2> HIDE DEF k, c
  <2>4. ASSUME NEW j \in (i + 1)..Len(rest), j <= i + c PROVE rest[j].role = "tool"
    <3>1. j + s - 1 \in (k + 1)..Len(m) /\ j + s - 1 <= k + c /\ rest[j] = m[j + s - 1]
      BY <1>2, <2>1, <2>3, <2>4
    <3> QED
      BY <2>2, <3>1
  <2>5. ASSUME i + c < Len(rest) PROVE rest[i + c + 1].role = "assistant"
    <3>1. k + c < Len(m) /\ rest[i + c + 1] = m[i + c + 1 + s - 1] /\ i + c + 1 + s - 1 = k + c + 1
      BY <1>2, <2>1, <2>3, <2>5
    <3> QED
      BY <2>2, <3>1
  <2>6. i + c <= Len(rest) + t /\ rest[i].calls = c
    BY <1>2, <2>1, <2>2, <2>3 DEF c
  <2> QED
    BY <2>4, <2>5, <2>6
<1>5. ASSUME NEW j \in 1..Len(rest), j > Len(rest) - (n - t) PROVE rest[j].role = "tool"
  BY <1>1, <1>2, <1>5 DEF Talk
<1>6. ASSUME n > 0, n - t < Len(rest)
      PROVE  /\ rest[Len(rest) - (n - t)].role = "assistant"
             /\ rest[Len(rest) - (n - t)].calls = n
  <2>1. /\ Len(rest) - (n - t) \in 1..Len(rest) /\ n - t < Len(m)
        /\ Len(rest) - (n - t) + s - 1 = Len(m) - (n - t)
    BY <1>1, <1>2, <1>6
  <2>2. rest[Len(rest) - (n - t)] = m[Len(m) - (n - t)]
    BY <1>2, <2>1
  <2> QED
    BY <1>6, <2>1, <2>2 DEF Talk
<1>7. Talk(rest, n, t)
  BY <1>2, <1>4, <1>5, <1>6 DEF Talk
<1> QED
  BY <1>7 DEF rest

(* A new reply, after the last call was answered. *)
LEMMA ReplyTalks ==
  ASSUME NEW old \in Nat, NEW m, Talk(m, old, 0), NEW n \in 1..MaxCalls
  PROVE  Talk(Append(m, [role |-> "assistant", calls |-> n]), n, n)
<1> DEFINE x == [role |-> "assistant", calls |-> n]
           l == Append(m, x)
<1>1. m \in Seq(Message) /\ x \in Message /\ x.role = "assistant" /\ x.calls = n /\ n \in Nat
  BY AgentAssumption DEF Talk, Message
<1>2. /\ l \in Seq(Message) /\ Len(l) = Len(m) + 1 /\ l[Len(m) + 1] = x /\ Len(m) \in Nat
      /\ \A i \in 1..Len(m) : l[i] = m[i]
  BY <1>1
<1>3. \A i \in 1..Len(m) : m[i].role = "assistant" => m[i].calls \in Nat \ {0}
  BY <1>1, AgentAssumption DEF Message
<1> HIDE DEF x, l
<1>4. ASSUME NEW i \in 1..Len(l), l[i].role = "assistant"
      PROVE  /\ \A j \in (i + 1)..Len(l) : j <= i + l[i].calls => l[j].role = "tool"
             /\ i + l[i].calls < Len(l) => l[i + l[i].calls + 1].role = "assistant"
             /\ i + l[i].calls <= Len(l) + n
  <2>1. CASE i = Len(m) + 1
    BY <1>1, <1>2, <2>1
  <2>2. CASE i \in 1..Len(m)
    <3>1. /\ l[i] = m[i] /\ m[i].calls \in Nat \ {0}
          /\ \A j \in (i + 1)..Len(m) : j <= i + m[i].calls => m[j].role = "tool"
          /\ i + m[i].calls < Len(m) => m[i + m[i].calls + 1].role = "assistant"
          /\ i + m[i].calls <= Len(m)
      BY <1>2, <1>3, <1>4, <2>2 DEF Talk
    <3>2. ASSUME NEW j \in (i + 1)..Len(l), j <= i + l[i].calls PROVE l[j].role = "tool"
      <4>1. j \in (i + 1)..Len(m) /\ j \in 1..Len(m) /\ j <= i + m[i].calls
        BY <1>2, <3>1, <3>2, <2>2
      <4> QED
        BY <1>2, <3>1, <4>1
    <3>3. ASSUME i + l[i].calls < Len(l) PROVE l[i + l[i].calls + 1].role = "assistant"
      <4>1. CASE i + l[i].calls = Len(m)
        <5>1. i + l[i].calls + 1 = Len(m) + 1
          BY <4>1
        <5> QED
          BY <1>1, <1>2, <5>1
      <4>2. CASE i + l[i].calls # Len(m)
        <5> DEFINE c == m[i].calls
        <5>1. c \in Nat /\ i \in Nat /\ Len(m) \in Nat /\ l[i].calls = c
          BY <1>2, <2>2, <3>1
        <5>2. i + c <= Len(m) /\ i + c # Len(m)
          BY <3>1, <4>2, <5>1
        <5>3. i + c < Len(m) => m[i + c + 1].role = "assistant"
          BY <3>1
        <5> HIDE DEF c
        <5>4. i + c < Len(m) /\ i + c + 1 \in 1..Len(m)
          BY <5>1, <5>2
        <5>5. l[i + c + 1] = m[i + c + 1]
          BY <1>2, <5>4
        <5> QED
          BY <5>1, <5>3, <5>4, <5>5
      <4> QED BY <4>1, <4>2
    <3>4. i + l[i].calls <= Len(l) + n
      BY <1>1, <1>2, <3>1
    <3> QED
      BY <3>2, <3>3, <3>4
  <2> QED
    BY <1>2, <2>1, <2>2
<1>5. l[Len(l) - (n - n)].role = "assistant" /\ l[Len(l) - (n - n)].calls = n
  BY <1>1, <1>2
<1>6. \A j \in 1..Len(l) : j > Len(l) - (n - n) => l[j].role = "tool"
  BY <1>1, <1>2
<1>7. Talk(l, n, n)
  BY <1>2, <1>4, <1>5, <1>6 DEF Talk
<1> QED
  BY <1>7 DEF l, x

(* One more answer to the last reply. *)
LEMMA AnswerTalks ==
  ASSUME NEW n \in Nat, NEW t \in 1..n, NEW m, Talk(m, n, t)
  PROVE  Talk(Append(m, Answer), n, t - 1)
<1> DEFINE l == Append(m, Answer)
<1>1. m \in Seq(Message) /\ Answer \in Message /\ Answer.role = "tool"
  BY DEF Talk, Message, Answer
<1>2. /\ l \in Seq(Message) /\ Len(l) = Len(m) + 1 /\ l[Len(m) + 1] = Answer /\ Len(m) \in Nat
      /\ \A i \in 1..Len(m) : l[i] = m[i]
  BY <1>1
<1>3. \A i \in 1..Len(m) : m[i].role = "assistant" => m[i].calls \in Nat \ {0}
  BY <1>1, AgentAssumption DEF Message
<1> HIDE DEF l
<1>4. ASSUME NEW i \in 1..Len(m), m[i].role = "assistant"
      PROVE  i + m[i].calls # Len(m)
  <2>1. /\ \A j \in (i + 1)..Len(m) : j <= i + m[i].calls => m[j].role = "tool"
        /\ \A j \in 1..Len(m) : j > Len(m) - (n - t) => m[j].role = "tool"
    BY <1>4 DEF Talk
  <2>2. i <= Len(m) - (n - t) /\ n - t < Len(m) /\ n > 0
    BY <1>2, <1>4, <2>1
  <2>3. m[Len(m) - (n - t)].role = "assistant" /\ m[Len(m) - (n - t)].calls = n
    BY <2>2 DEF Talk
  <2>4. CASE i = Len(m) - (n - t)
    BY <1>2, <2>3, <2>4
  <2>5. CASE i < Len(m) - (n - t)
    <3>1. Len(m) - (n - t) \in (i + 1)..Len(m) /\ m[i].calls \in Nat
      BY <1>2, <1>3, <1>4, <2>5
    <3>2. ~ (Len(m) - (n - t) <= i + m[i].calls)
      BY <2>1, <2>3, <3>1
    <3> QED
      BY <1>2, <3>1, <3>2
  <2> QED
    BY <1>2, <2>2, <2>4, <2>5
<1>5. ASSUME NEW i \in 1..Len(l), l[i].role = "assistant"
      PROVE  /\ \A j \in (i + 1)..Len(l) : j <= i + l[i].calls => l[j].role = "tool"
             /\ i + l[i].calls < Len(l) => l[i + l[i].calls + 1].role = "assistant"
             /\ i + l[i].calls <= Len(l) + (t - 1)
  <2>1. i \in 1..Len(m)
    BY <1>1, <1>2, <1>5
  <2>2. /\ l[i] = m[i] /\ m[i].calls \in Nat \ {0} /\ m[i].role = "assistant"
        /\ i + m[i].calls # Len(m)
    BY <1>2, <1>3, <1>4, <1>5, <2>1
  <2>3. /\ \A j \in (i + 1)..Len(m) : j <= i + m[i].calls => m[j].role = "tool"
        /\ i + m[i].calls < Len(m) => m[i + m[i].calls + 1].role = "assistant"
        /\ i + m[i].calls <= Len(m) + t
    BY <2>1, <2>2 DEF Talk
  <2>4. ASSUME NEW j \in (i + 1)..Len(l), j <= i + l[i].calls PROVE l[j].role = "tool"
    <3>1. CASE j = Len(m) + 1
      BY <1>1, <1>2, <3>1
    <3>2. CASE j # Len(m) + 1
      <4>1. j \in (i + 1)..Len(m) /\ j \in 1..Len(m) /\ j <= i + m[i].calls
        BY <1>2, <2>1, <2>2, <2>4, <3>2
      <4> QED
        BY <1>2, <2>3, <4>1
    <3> QED
      BY <3>1, <3>2
  <2>5. ASSUME i + l[i].calls < Len(l) PROVE l[i + l[i].calls + 1].role = "assistant"
    <3>1. i + m[i].calls < Len(m) /\ i + m[i].calls + 1 \in 1..Len(m)
      <4>1. i + m[i].calls < Len(m) + 1
        BY <1>2, <2>2, <2>5
      <4>2. /\ i \in 1..Len(m) /\ Len(m) \in Nat
            /\ m[i].calls \in Nat \ {0} /\ i + m[i].calls # Len(m)
        BY <1>2, <2>1, <2>2
      <4> QED
        BY <4>1, <4>2
    <3> QED
      BY <1>2, <2>2, <2>3, <3>1
  <2>6. i + l[i].calls <= Len(l) + (t - 1)
    BY <1>2, <2>1, <2>2, <2>3
  <2> QED
    BY <2>4, <2>5, <2>6
<1>6. ASSUME NEW j \in 1..Len(l), j > Len(l) - (n - (t - 1)) PROVE l[j].role = "tool"
  <2>1. CASE j = Len(m) + 1
    BY <1>1, <1>2, <2>1
  <2>2. CASE j # Len(m) + 1
    <3>1. j \in 1..Len(m) /\ j > Len(m) - (n - t)
      BY <1>2, <1>6, <2>2
    <3> QED
      BY <1>2, <3>1 DEF Talk
  <2> QED
    BY <2>1, <2>2
<1>7. ASSUME n > 0, n - (t - 1) < Len(l)
      PROVE  /\ l[Len(l) - (n - (t - 1))].role = "assistant"
             /\ l[Len(l) - (n - (t - 1))].calls = n
  <2>1. /\ n - t < Len(m) /\ Len(l) - (n - (t - 1)) = Len(m) - (n - t)
        /\ Len(m) - (n - t) \in 1..Len(m)
    BY <1>2, <1>7
  <2> QED
    BY <1>2, <1>7, <2>1 DEF Talk
<1>8. Talk(l, n, t - 1)
  BY <1>2, <1>5, <1>6, <1>7 DEF Talk
<1> QED
  BY <1>8 DEF l

(* The window cuts off the head of a conversation. *)
LEMMA RecentTalks ==
  ASSUME NEW n \in Nat, NEW t \in 0..n, NEW m, Talk(m, n, t), Len(m) <= Window + 1
  PROVE  /\ Talk(Recent(m), n, t)
         /\ Len(Recent(m)) = IF Len(m) <= Window THEN Len(m) ELSE Window
<1>1. m \in Seq(Message) /\ Len(m) \in Nat /\ Window \in Nat
  BY AgentAssumption DEF Talk
<1>2. CASE Len(m) <= Window
  <2>1. Recent(m) = SubSeq(m, 1, Len(m))
    BY <1>2 DEF Recent
  <2>2. 1 \in 1..(Len(m) + 1) /\ Len(SubSeq(m, 1, Len(m))) = Len(m)
    BY <1>1
  <2>3. Talk(SubSeq(m, 1, Len(m)), n, t)
    BY <2>2, RestTalks
  <2> QED
    BY <1>2, <2>1, <2>2, <2>3
<1>3. CASE ~ (Len(m) <= Window)
  <2>1. Len(m) - Window + 1 = 2 /\ Len(m) = Window + 1
    BY <1>1, <1>3
  <2>2. Recent(m) = SubSeq(m, 2, Len(m))
    BY <1>3, <2>1 DEF Recent
  <2>3. 2 \in 1..(Len(m) + 1) /\ Len(SubSeq(m, 2, Len(m))) = Window
    BY <1>1, <2>1
  <2>4. Talk(SubSeq(m, 2, Len(m)), n, t)
    BY <2>3, RestTalks
  <2> QED
    BY <1>3, <2>2, <2>3, <2>4
<1> QED
  BY <1>2, <1>3

(* The messages that are kept of the conversation are such a tail, with    *)
(* the last reply in it, if its answers alone do not fill the window.      *)
TalkInv ==
    /\ AgentInv
    /\ Talk(messages, replied, todo)
    /\ Len(messages) <= Window
    /\ agent = "groq" /\ replied > 0 /\ replied - todo < Window
           => replied - todo < Len(messages)

LEMMA TalkStartsWell == AgentInit => TalkInv
<1> SUFFICES ASSUME AgentInit PROVE TalkInv
  OBVIOUS
<1>1. messages = <<>> /\ replied = 0 /\ todo = 0
  BY DEF AgentInit
<1>2. Talk(<<>>, 0, 0)
  BY DEF Talk
<1> QED
  BY <1>1, <1>2, LoopStartsWell, AgentAssumption DEF TalkInv

(* What a message more leaves of the conversation. *)
LEMMA SayingTalks ==
  ASSUME TalkInv, NEW x, Saying(x), NEW n \in Nat, NEW t \in 0..n,
         Talk(Append(messages, x), n, t),
         agent = "groq" /\ n > 0 /\ n - t < Window => n - t < Len(messages) + 1
  PROVE  /\ Talk(messages', n, t)
         /\ Len(messages') <= Window
         /\ agent = "groq" /\ n > 0 /\ n - t < Window => n - t < Len(messages')
<1> DEFINE l == Append(messages, x)
<1>1. Len(l) = Len(messages) + 1 /\ Len(messages) \in Nat /\ Window \in Nat
  BY AgentAssumption DEF TalkInv, Talk
<1> HIDE DEF l
<1>2. CASE agent = "groq"
  <2>1. messages' = Recent(l)
    BY <1>2 DEF Saying, l
  <2>2. Talk(l, n, t) /\ Len(l) <= Window + 1
    BY <1>1 DEF TalkInv, l
  <2>3. /\ Talk(Recent(l), n, t)
        /\ Len(Recent(l)) = IF Len(l) <= Window THEN Len(l) ELSE Window
    BY <2>2, RecentTalks
  <2> QED
    BY <1>1, <2>1, <2>3
<1>3. CASE agent # "groq"
  <2>1. messages' = <<>>
    BY <1>3 DEF Saying
  <2>2. Talk(<<>>, n, t)
    BY DEF Talk
  <2> QED
    BY <1>1, <1>3, <2>1, <2>2
<1> QED
  BY <1>2, <1>3

LEMMA TalkStep == TalkInv /\ [AgentNext]_agentVars => TalkInv'
<1> SUFFICES ASSUME TalkInv, [AgentNext]_agentVars PROVE TalkInv'
  OBVIOUS
<1>1. AgentInv'
  BY LoopStep DEF TalkInv
<1>2. /\ replied \in Nat /\ todo \in 0..replied /\ replied' \in Nat /\ todo' \in 0..replied'
  BY <1>1, AgentAssumption DEF TalkInv, AgentInv, AgentTypeOK
<1>3. ASSUME UNCHANGED <<agent, replied, todo, messages>> PROVE TalkInv'
  <2>1. Talk(messages', replied', todo')
    BY <1>3 DEF TalkInv
  <2> QED
    BY <1>1, <1>3, <2>1 DEF TalkInv
<1>4. ASSUME NEW x, Saying(x), agent' = agent, Talk(Append(messages, x), replied', todo'),
             \/ replied' - todo' = replied - todo + 1 /\ replied' = replied
             \/ replied' = todo'
      PROVE  TalkInv'
  <2>1. Len(messages) \in Nat
    BY DEF TalkInv, Talk
  <2>2. agent = "groq" /\ replied' > 0 /\ replied' - todo' < Window
            => replied' - todo' < Len(messages) + 1
    <3>1. CASE replied' = todo'
      BY <1>2, <2>1, <3>1
    <3>2. CASE replied' - todo' = replied - todo + 1 /\ replied' = replied /\ replied' # todo'
      <4>1. agent = "groq" /\ replied > 0 /\ replied - todo < Window
                => replied - todo < Len(messages)
        BY DEF TalkInv
      <4>2. ASSUME agent = "groq", replied' > 0, replied' - todo' < Window
            PROVE  replied' - todo' < Len(messages) + 1
        <5>1. replied \in Int /\ todo \in Int /\ Window \in Int /\ replied > 0
          BY <1>2, <3>2, <4>2, AgentAssumption
        <5>2. replied - todo + 1 < Window
          BY <3>2, <4>2
        <5>3. replied - todo < Len(messages)
          BY <4>1, <4>2, <5>1, <5>2
        <5>4. replied - todo + 1 < Len(messages) + 1
          BY <2>1, <5>1, <5>3
        <5> QED
          BY <3>2, <5>4
      <4> QED
        BY <4>2
    <3> QED
      BY <1>4, <3>1, <3>2
  <2>3. /\ Talk(messages', replied', todo')
        /\ Len(messages') <= Window
        /\ agent = "groq" /\ replied' > 0 /\ replied' - todo' < Window
               => replied' - todo' < Len(messages')
    BY <1>2, <1>4, <2>2, SayingTalks
  <2> QED
    BY <1>1, <1>4, <2>3 DEF TalkInv
<1>5. ASSUME NEW n \in 1..MaxCalls, Reply(n) PROVE TalkInv'
  <2> DEFINE x == [role |-> "assistant", calls |-> n]
  <2>1. Saying(x) /\ agent' = agent /\ replied' = n /\ todo' = n /\ todo = 0
    BY <1>5 DEF Reply, TalkInv, AgentInv
  <2>2. Talk(Append(messages, x), n, n)
    <3>1. Talk(messages, replied, 0)
      BY <2>1 DEF TalkInv
    <3> QED
      BY <1>2, <3>1, ReplyTalks
  <2> QED
    BY <1>4, <2>1, <2>2
<1>6. CASE RunCommand \/ UnknownCall
  <2>1. /\ Saying(Answer) /\ agent' = agent /\ replied' = replied
        /\ todo' = todo - 1 /\ todo \in 1..replied
    BY <1>2, <1>6 DEF RunCommand, UnknownCall
  <2>2. Talk(Append(messages, Answer), replied, todo - 1)
    BY <1>2, <2>1, AnswerTalks DEF TalkInv
  <2>3. replied' - todo' = replied - todo + 1
    BY <1>2, <2>1
  <2> QED
    BY <1>4, <2>1, <2>2, <2>3
<1>7. CASE UNCHANGED agentVars
  BY <1>3, <1>7 DEF agentVars
<1>8. CASE \/ Connect \/ AsksAgain \/ TryAgain
           \/ ConnectFails \/ LimitReached \/ LastTryFails \/ RequestRaises
           \/ NothingAsked \/ SessionBreaks \/ Complete \/ Cancelled
  BY <1>3, <1>8 DEF Connect, AsksAgain, TryAgain, ConnectFails, LimitReached, LastTryFails,
                    RequestRaises, NothingAsked, SessionBreaks, Complete, Cancelled, Ends
<1> QED
  BY <1>5, <1>6, <1>7, <1>8 DEF AgentNext, Connecting, Asking, Answering

(* Of some numbers one is the least. *)
LEMMA LeastNumber ==
  ASSUME NEW T, T \subseteq Nat, T # {}
  PROVE  \E s \in T : \A i \in T : s <= i
<1> DEFINE R == OpToRel(<, Nat)
<1>1. PICK s \in T : \A i \in T : ~ (<<i, s>> \in R)
  <2>1. IsWellFoundedOn(R, Nat)
    BY NatLessThanWellFounded
  <2> HIDE DEF R
  <2> QED
    BY <2>1, WFMin
<1>2. \A i \in Nat, k \in Nat : i < k => <<i, k>> \in R
  BY DEF OpToRel
<1> HIDE DEF R
<1>3. ASSUME NEW i \in T PROVE s <= i
  <2>1. ~ (i < s)
    BY <1>1, <1>2
  <2> QED
    BY <2>1
<1> QED
  BY <1>3

(* A request to Groq is such a tail from its first reply on. *)
LEMMA RequestTalks ==
  ASSUME TalkInv
  PROVE  \/ Compacted(messages) = <<>> /\ \A i \in 1..Len(messages) : messages[i].role = "tool"
         \/ \E s \in 1..Len(messages) :
               /\ messages[s].role = "assistant"
               /\ \A i \in 1..(s - 1) : messages[i].role = "tool"
               /\ Compacted(messages) = SubSeq(messages, s, Len(messages))
<1> DEFINE spoken == {i \in DOMAIN messages : messages[i].role # "tool"}
<1>1. /\ messages \in Seq(Message) /\ Len(messages) <= Window /\ Window \in Nat
      /\ Len(messages) \in Nat /\ DOMAIN messages = 1..Len(messages)
  BY AgentAssumption DEF TalkInv, Talk
<1>2. Recent(messages) = messages
  <2>1. Recent(messages) = SubSeq(messages, 1, Len(messages))
    BY <1>1 DEF Recent
  <2> QED
    BY <1>1, <2>1
<1>3. Compacted(messages) =
        IF spoken = {} THEN <<>> ELSE SubSeq(messages, Min(spoken), Len(messages))
  BY <1>2 DEF Compacted
<1>4. \A i \in 1..Len(messages) : messages[i].role \in {"assistant", "tool"}
  BY <1>1 DEF Message
<1>5. CASE spoken = {}
  BY <1>1, <1>3, <1>5
<1>6. CASE spoken # {}
  <2>1. spoken \subseteq Nat
    BY <1>1
  <2>2. \E s \in spoken : \A i \in spoken : s <= i
    BY <1>6, <2>1, LeastNumber
  <2>3. Min(spoken) \in spoken /\ \A i \in spoken : Min(spoken) <= i
    BY <2>2 DEF Min
  <2>4. /\ Min(spoken) \in 1..Len(messages)
        /\ messages[Min(spoken)].role = "assistant"
        /\ \A i \in 1..(Min(spoken) - 1) : messages[i].role = "tool"
    <3> DEFINE s == Min(spoken)
    <3>1. s \in 1..Len(messages) /\ messages[s].role # "tool"
      BY <1>1, <2>3
    <3>2. \A i \in 1..Len(messages) : messages[i].role # "tool" => s <= i
      BY <1>1, <2>3
    <3> HIDE DEF s
    <3>3. \A i \in 1..(s - 1) : messages[i].role = "tool"
      BY <1>1, <3>1, <3>2
    <3>4. messages[s].role = "assistant"
      BY <1>4, <3>1
    <3> QED
      BY <3>1, <3>3, <3>4 DEF s
  <2> HIDE DEF spoken
  <2> QED
    BY <1>3, <1>6, <2>4
<1> QED
  BY <1>5, <1>6

LEMMA TalkConverses == TalkInv => RequestsAreConversations
<1> SUFFICES ASSUME TalkInv, state = "asking" PROVE IsConversation(Compacted(messages))
  BY DEF RequestsAreConversations
<1> DEFINE c == Compacted(messages)
<1>1. replied \in Nat /\ todo = 0 /\ Talk(messages, replied, todo)
  BY AgentAssumption DEF TalkInv, AgentInv, AgentTypeOK
<1>2. CASE c = <<>>
  BY <1>2 DEF IsConversation
<1>3. CASE c # <<>>
  <2>1. PICK s \in 1..Len(messages) :
          messages[s].role = "assistant" /\ c = SubSeq(messages, s, Len(messages))
    BY <1>3, RequestTalks
  <2>2. Talk(c, replied, 0)
    <3>1. messages \in Seq(Message) /\ Len(messages) \in Nat
      BY <1>1 DEF Talk
    <3>2. s \in 1..(Len(messages) + 1)
      BY <3>1
    <3> QED
      BY <1>1, <2>1, <3>2, RestTalks
  <2>3. c[1].role = "assistant"
    <3>1. messages \in Seq(Message) /\ Len(messages) \in Nat
      BY <1>1 DEF Talk
    <3>2. SubSeq(messages, s, Len(messages))[1] = messages[s]
      BY <3>1
    <3> QED
      BY <2>1, <3>2
  <2> HIDE DEF c
  <2>4. c \in Seq(Message) /\ DOMAIN c = 1..Len(c) /\ Len(c) \in Nat
    BY <2>2 DEF Talk
  <2>5. ASSUME NEW i \in DOMAIN c, c[i].role = "assistant"
        PROVE  LET last == i + c[i].calls IN
               /\ last <= Len(c)
               /\ \A j \in (i + 1)..last : c[j].role = "tool"
               /\ last < Len(c) => c[last + 1].role = "assistant"
    <3>1. /\ \A j \in (i + 1)..Len(c) : j <= i + c[i].calls => c[j].role = "tool"
          /\ i + c[i].calls < Len(c) => c[i + c[i].calls + 1].role = "assistant"
          /\ i + c[i].calls <= Len(c)
      BY <2>2, <2>4, <2>5 DEF Talk
    <3>2. c[i].calls \in Nat
      BY <2>4, <2>5, AgentAssumption DEF Message
    <3> QED
      BY <2>4, <3>1, <3>2
  <2>6. IsConversation(c)
    BY <2>3, <2>5 DEF IsConversation
  <2> QED
    BY <2>6 DEF c
<1> QED
  BY <1>2, <1>3

(* Every request Groq gets is a well-formed conversation, for any window   *)
(* and any sizes of the replies.                                           *)
THEOREM RequestsConverse == AgentSafety => []RequestsAreConversations
BY TalkStartsWell, TalkStep, TalkConverses, PTL DEF AgentSafety

LEMMA TalkIsSeen == TalkInv => AnswersAreSeen
<1> SUFFICES ASSUME TalkInv, agent = "groq", state = "asking", replied > 0
             PROVE  LET request == Compacted(messages) IN
                    IF replied < Window
                    THEN /\ replied < Len(request)
                         /\ request[Len(request) - replied].role = "assistant"
                    ELSE request = <<>>
  BY DEF AnswersAreSeen
<1> DEFINE c == Compacted(messages)
<1>1. /\ replied \in Nat /\ todo = 0 /\ Talk(messages, replied, todo)
      /\ messages \in Seq(Message) /\ Len(messages) \in Nat /\ Window \in Nat
      /\ Len(messages) <= Window
  BY AgentAssumption DEF TalkInv, AgentInv, AgentTypeOK, Talk
<1>2. \A j \in 1..Len(messages) : j > Len(messages) - replied => messages[j].role = "tool"
  BY <1>1 DEF Talk
<1>3. CASE replied < Window
  <2>1. replied < Len(messages)
    BY <1>1, <1>3 DEF TalkInv
  <2>2. messages[Len(messages) - replied].role = "assistant"
    BY <1>1, <2>1 DEF Talk
  <2>3. Len(messages) - replied \in 1..Len(messages)
    BY <1>1, <2>1
  <2>4. PICK s \in 1..Len(messages) : /\ \A i \in 1..(s - 1) : messages[i].role = "tool"
                                      /\ c = SubSeq(messages, s, Len(messages))
    BY <2>2, <2>3, RequestTalks
  <2>5. s <= Len(messages) - replied
    BY <1>1, <2>2, <2>3, <2>4
  <2>6. Len(c) = Len(messages) - s + 1
    BY <1>1, <2>4
  <2> HIDE DEF c
  <2>7. replied < Len(c) /\ Len(c) - replied \in 1..Len(c)
    BY <1>1, <2>5, <2>6
  <2>8. c[Len(c) - replied] = messages[Len(messages) - replied]
    <3>1. \A k \in 1..Len(c) : SubSeq(messages, s, Len(messages))[k] = messages[k + s - 1]
      BY <1>1, <2>6
    <3>2. Len(c) - replied + s - 1 = Len(messages) - replied
      BY <1>1, <2>6
    <3> QED
      BY <2>4, <2>7, <3>1, <3>2
  <2> QED
    BY <1>3, <2>2, <2>7, <2>8 DEF c
<1>4. CASE ~ (replied < Window)
  <2>1. \A j \in 1..Len(messages) : messages[j].role = "tool"
    BY <1>1, <1>2, <1>4
  <2>2. c = <<>>
    BY <2>1, RequestTalks
  <2> QED
    BY <1>4, <2>2
<1> QED
  BY <1>3, <1>4

(* The model is told the answers to its last reply, unless they alone fill *)
(* the window: then it is told nothing.                                    *)
THEOREM AnswersAreSeenAlways == AgentSafety => []AnswersAreSeen
BY TalkStartsWell, TalkStep, TalkIsSeen, PTL DEF AgentSafety
=============================================================================
