--------------------------- MODULE CommandProofs ----------------------------
(***************************************************************************)
(* Proofs about tool-gate with its client `cvm tool send-email`, about     *)
(* llmattest with the daemon it starts, and about the registry that a      *)
(* command loads.  They have no state in common.                           *)
(***************************************************************************)
EXTENDS ToolGate, CaptureStart, Registry, NaturalsInduction, WellFoundedInduction, TLAPS

(***************************************************************************)
(* tool-gate: its two invariants for any number of agents, tasks, keys,    *)
(* kills and any length of the challenge list.                             *)
(***************************************************************************)
GateType ==
  /\ up \in BOOLEAN
  /\ recent \in Seq(Agent \cup {Other})
  /\ issuer \in Nat
  /\ spent \in SUBSET (Nat \X Agent)
  /\ mails \in [Agent -> Nat]
  /\ sent \in SUBSET (Agent \X Agent)
  /\ dry \in BOOLEAN
  /\ apc \in [Agent -> {"start", "challenged", "posted", "failed"} \cup Answer]
  /\ epoch \in [Agent -> Nat]
  /\ net \in SUBSET Agent
  /\ pc \in [Task -> {"idle", "lookup", "key", "spend", "mail"} \cup Answer]
  /\ job \in [Task -> Agent \cup {None}]
  /\ body \in [Task -> Agent \cup {None}]
  /\ since \in [Agent -> Nat]

\* A task serves a token that was posted, with some email, and an agent has one
\* token: the key that signed it is settled.
PostsOK ==
  /\ \A t \in Task : pc[t] # "idle" => job[t] \in net /\ body[t] \in Agent
  /\ \A a \in net : apc[a] \notin {"start", "challenged"}

\* A mail that was sent, or that a task is about to send, has its token spent;
\* one task at most is about to send it, and then it was not sent before.
SpentOK ==
  /\ \A a \in Agent : mails[a] # 0 => mails[a] = 1 /\ a \in net /\ <<epoch[a], a>> \in spent
  /\ \A t \in Task : pc[t] = "mail" => Token(t) \in spent /\ mails[job[t]] = 0
  /\ \A t, u \in Task : pc[t] = "mail" /\ pc[u] = "mail" /\ job[t] = job[u] => t = u

\* The email m was sent with the token of a, and no other with it.
SentWith(a, m) == m \in Allowed /\ (dry \/ (mails[a] = 1 /\ <<a, m>> \in sent))

\* Who says 200 had the mail sent, unless this is a dry run.
AnswersOK ==
  /\ \A s \in sent : s[2] \in Allowed
  /\ dry => \A a \in Agent : mails[a] = 0
  /\ \A t \in Task : pc[t] = "200" => SentWith(job[t], body[t])
  /\ \A a \in Agent : apc[a] = "200" => SentWith(a, a)

MailInv == GateType /\ PostsOK /\ SpentOK /\ AnswersOK

\* The challenge of an agent stands as many places from the end of the list as
\* challenges were registered after it.
RecentInv ==
  /\ Len(recent) <= MaxRecent
  /\ \A a \in Agent : since[a] < MaxRecent =>
       since[a] < Len(recent) /\ recent[Len(recent) - since[a]] = a
-----------------------------------------------------------------------------
\* Types, at the start of the gate.
LEMMA GateTypeInit == Init => GateType
BY ToolGateAssumption DEF Init, GateType

\* What register_challenge keeps: the end of the list, at its old distance
\* from the end.
LEMMA DropKeepsEnd ==
  ASSUME NEW S, NEW s \in Seq(S)
  PROVE  /\ DropOldest(s) \in Seq(S)
         /\ Len(DropOldest(s)) = IF Len(s) > MaxRecent THEN MaxRecent ELSE Len(s)
         /\ \A k \in Nat : k < Len(DropOldest(s)) =>
              DropOldest(s)[Len(DropOldest(s)) - k] = s[Len(s) - k]
<1> USE ToolGateAssumption
<1>1. CASE Len(s) > MaxRecent
  <2>1. PICK m \in Nat : m = Len(s) - MaxRecent + 1
    BY <1>1
  <2>2. DropOldest(s) = SubSeq(s, m, Len(s)) /\ m \in 1..Len(s)
    BY <1>1, <2>1 DEF DropOldest
  <2>3. /\ SubSeq(s, m, Len(s)) \in Seq(S)
        /\ Len(SubSeq(s, m, Len(s))) = MaxRecent
        /\ \A i \in 1..MaxRecent : SubSeq(s, m, Len(s))[i] = s[m + i - 1]
    BY <2>1, <2>2
  <2> DEFINE d == SubSeq(s, m, Len(s))
  <2> HIDE DEF d
  <2>4. ASSUME NEW k \in Nat, k < MaxRecent PROVE d[MaxRecent - k] = s[Len(s) - k]
    <3>1. MaxRecent - k \in 1..MaxRecent /\ m + (MaxRecent - k) - 1 = Len(s) - k
      BY <2>1, <2>2, <2>4
    <3> QED
      BY <2>3, <3>1 DEF d
  <2> QED
    BY ZenonT(30), <1>1, <2>2, <2>3, <2>4 DEF d
<1>2. CASE ~(Len(s) > MaxRecent)
  BY ZenonT(30), <1>2 DEF DropOldest
<1> QED
  BY ZenonT(30), <1>1, <1>2

\* What Send does to the counts and to the pairs has their types.
LEMMA SendType ==
  ASSUME mails \in [Agent -> Nat], sent \in SUBSET (Agent \X Agent), NEW t \in Task,
         job[t] \in Agent, body[t] \in Agent, Send(t)
  PROVE  mails' \in [Agent -> Nat] /\ sent' \in SUBSET (Agent \X Agent)
<1>1. \/ UNCHANGED <<mails, sent>>
      \/ /\ mails' = [mails EXCEPT ![job[t]] = mails[job[t]] + 1]
         /\ sent' = sent \cup {<<job[t], body[t]>>}
  BY ZenonT(30) DEF Send
<1> QED
  BY <1>1

\* Types of the gate, over every step.
LEMMA GateTypeStep ==
  ASSUME GateType, PostsOK, [Next]_vars
  PROVE  GateType'
<1> USE ToolGateAssumption DEF GateType, Goto, gate, world, agent, task
<1>1. ASSUME NEW c \in Agent \cup {Other}, Register(c)
      PROVE  recent' \in Seq(Agent \cup {Other}) /\ since' \in [Agent -> Nat] /\ up' = up
  <2>1. Append(recent, c) \in Seq(Agent \cup {Other})
    OBVIOUS
  <2>2. recent' \in Seq(Agent \cup {Other})
    BY ZenonT(30), <1>1, <2>1, DropKeepsEnd DEF Register
  <2> QED
    BY <1>1, <2>2 DEF Register
<1>2. ASSUME NEW a \in Agent, FetchChallenge(a) PROVE GateType'
  BY ZenonT(30), <1>1, <1>2 DEF FetchChallenge
<1>3. ASSUME NEW a \in Agent, MintAndPost(a) PROVE GateType'
  BY ZenonT(30), <1>3 DEF MintAndPost
<1>4. ASSUME NEW a \in Agent, AgentFails(a) PROVE GateType'
  BY ZenonT(30), <1>4 DEF AgentFails
<1>5. ASSUME NEW t \in Task, Receive(t) PROVE GateType'
  BY ZenonT(30), <1>5 DEF Receive
<1>6. ASSUME NEW t \in Task, Lookup(t) PROVE GateType'
  BY ZenonT(30), <1>6 DEF Lookup, Answer
<1>7. ASSUME NEW t \in Task, KeyFor(t) PROVE GateType'
  BY ZenonT(30), <1>7 DEF KeyFor, Answer
<1>8. ASSUME NEW t \in Task, Spend(t) PROVE GateType'
  <2>1. Token(t) \in Nat \X Agent
    BY ZenonT(30), <1>8 DEF Spend, PostsOK, Token
  <2> QED
    BY ZenonT(30), <1>8, <2>1 DEF Spend, OnRedeemerDown, Answer
<1>9. ASSUME NEW t \in Task, Send(t) PROVE GateType'
  <2>1. job[t] \in Agent /\ body[t] \in Agent
    BY ZenonT(30), <1>9 DEF Send, PostsOK
  <2>2. mails' \in [Agent -> Nat] /\ sent' \in SUBSET (Agent \X Agent)
    BY ZenonT(30), <1>9, <2>1, SendType
  <2>3. pc' \in [Task -> {"idle", "lookup", "key", "spend", "mail"} \cup Answer]
    <3>1. pc' = [pc EXCEPT ![t] = "200"] \/ pc' = [pc EXCEPT ![t] = "500"]
      BY ZenonT(30), <1>9 DEF Send, OnMailError
    <3> QED
      BY ZenonT(30), <3>1 DEF Answer
  <2> QED
    BY ZenonT(30), <1>9, <2>2, <2>3 DEF Send
<1>10. ASSUME NEW t \in Task, Respond(t) PROVE GateType'
  BY ZenonT(30), <1>10 DEF Respond, Answer
<1>11. CASE OtherChallenge
  BY ZenonT(30), <1>1, <1>11 DEF OtherChallenge
<1>12. CASE Rotate
  BY <1>12 DEF Rotate
<1>13. CASE Crash
  <2>1. /\ pc' \in [Task -> {"idle", "lookup", "key", "spend", "mail"} \cup Answer]
        /\ job' \in [Task -> Agent \cup {None}] /\ body' \in [Task -> Agent \cup {None}]
    BY ZenonT(30), <1>13 DEF Crash
  <2>2. up' = FALSE /\ recent' = <<>> /\ since' = [a \in Agent |-> MaxRecent]
    BY ZenonT(30), <1>13 DEF Crash
  <2>3. UNCHANGED <<issuer, spent, mails, sent, dry, apc, epoch, net>>
    BY ZenonT(30), <1>13 DEF Crash
  <2>4. recent' \in Seq(Agent \cup {Other})
    BY <2>2
  <2>5. up' \in BOOLEAN
    BY ZenonT(30), <2>2
  <2>6. since' \in [Agent -> Nat]
    BY ZenonT(30), <2>2
  <2> QED
    BY ZenonT(30), <2>1, <2>3, <2>4, <2>5, <2>6
<1>14. CASE Restart
  BY ZenonT(30), <1>14 DEF Restart
<1>15. CASE UNCHANGED vars
  BY ZenonT(30), <1>15 DEF vars
<1> QED
  BY ZenonT(30), <1>2, <1>3, <1>4, <1>5, <1>6, <1>7, <1>8, <1>9, <1>10, <1>11, <1>12, <1>13, <1>14, <1>15
     DEF Next

\* PostsOK, over every step.
LEMMA PostsStep ==
  ASSUME GateType, PostsOK, [Next]_vars
  PROVE  PostsOK'
<1> USE ToolGateAssumption DEF GateType, PostsOK, Goto, gate, world, agent, task
<1>1. ASSUME NEW a \in Agent, FetchChallenge(a) PROVE PostsOK'
  BY ZenonT(30), <1>1 DEF FetchChallenge
<1>2. ASSUME NEW a \in Agent, MintAndPost(a) PROVE PostsOK'
  BY ZenonT(30), <1>2 DEF MintAndPost
<1>3. ASSUME NEW a \in Agent, AgentFails(a) PROVE PostsOK'
  BY ZenonT(30), <1>3 DEF AgentFails
<1>4. ASSUME NEW t \in Task, Receive(t) PROVE PostsOK'
  BY ZenonT(30), <1>4 DEF Receive
<1>5. ASSUME NEW t \in Task, Lookup(t) \/ KeyFor(t) \/ Spend(t) \/ Send(t) PROVE PostsOK'
  <2>1. pc[t] # "idle" /\ UNCHANGED <<apc, net, job, body>>
    BY ZenonT(30), <1>5 DEF Lookup, KeyFor, Spend, Send
  <2>2. \A u \in Task : u # t => pc'[u] = pc[u]
    BY ZenonT(30), <1>5 DEF Lookup, KeyFor, Spend, Send
  <2> QED
    BY ZenonT(30), <2>1, <2>2
<1>6. ASSUME NEW t \in Task, Respond(t) PROVE PostsOK'
  BY ZenonT(30), <1>6 DEF Respond, Answer
<1>7. CASE OtherChallenge \/ Rotate \/ Restart
  BY ZenonT(30), <1>7 DEF OtherChallenge, Rotate, Restart
<1>8. CASE Crash
  BY ZenonT(30), <1>8 DEF Crash
<1>9. CASE UNCHANGED vars
  BY ZenonT(30), <1>9 DEF vars
<1> QED
  BY ZenonT(30), <1>1, <1>2, <1>3, <1>4, <1>5, <1>6, <1>7, <1>8, <1>9 DEF Next

\* Nothing that SpentOK speaks of changes but a task that goes where it has no
\* mail to send.
LEMMA SpentStays ==
  ASSUME GateType, SpentOK, UNCHANGED <<mails, epoch, net>>, spent \subseteq spent',
         \A t \in Task : pc'[t] = "mail" => pc[t] = "mail" /\ job'[t] = job[t]
  PROVE  SpentOK'
BY ZenonT(30) DEF GateType, SpentOK, Token

\* SpentOK, over every step.
LEMMA SpentStep ==
  ASSUME GateType, PostsOK, SpentOK, [Next]_vars
  PROVE  SpentOK'
<1> USE ToolGateAssumption DEF Goto, gate, world, agent, task
<1>1. ASSUME NEW a \in Agent, FetchChallenge(a) \/ AgentFails(a) PROVE SpentOK'
  BY ZenonT(30), <1>1, SpentStays DEF FetchChallenge, AgentFails
<1>2. ASSUME NEW a \in Agent, MintAndPost(a) PROVE SpentOK'
  <2>1. a \notin net /\ \A t \in Task : pc[t] = "mail" => job[t] # a
    BY ZenonT(30), <1>2 DEF MintAndPost, PostsOK
  <2>2. \A b \in Agent : b # a => epoch'[b] = epoch[b]
    BY ZenonT(30), <1>2 DEF MintAndPost, GateType
  <2>3. net \subseteq net' /\ UNCHANGED <<spent, mails, pc, job>>
    BY ZenonT(30), <1>2 DEF MintAndPost
  <2>4. \A t \in Task : pc[t] = "mail" => Token(t)' = Token(t)
    BY ZenonT(30), <2>1, <2>2, <2>3 DEF PostsOK, GateType, Token
  <2>5. \A b \in Agent : mails[b] # 0 => b # a
    BY ZenonT(30), <2>1 DEF SpentOK
  <2> QED
    BY ZenonT(30), <2>2, <2>3, <2>4, <2>5 DEF SpentOK
<1>3. ASSUME NEW t \in Task, Receive(t) \/ Lookup(t) \/ KeyFor(t) \/ Respond(t) PROVE SpentOK'
  <2>1. UNCHANGED <<mails, epoch, net, spent>> /\ pc'[t] # "mail"
    BY ZenonT(30), <1>3 DEF Receive, Lookup, KeyFor, Respond, GateType
  <2>2. \A u \in Task : u # t => pc'[u] = pc[u] /\ job'[u] = job[u]
    BY ZenonT(30), <1>3 DEF Receive, Lookup, KeyFor, Respond, GateType
  <2> QED
    BY ZenonT(30), <2>1, <2>2, SpentStays
<1>4. ASSUME NEW t \in Task, Spend(t) PROVE SpentOK'
  <2>1. /\ UNCHANGED <<mails, epoch, net, job>> /\ spent \subseteq spent'
        /\ \A u \in Task : u # t => pc'[u] = pc[u]
    BY ZenonT(30), <1>4 DEF Spend, GateType
  <2>2. CASE pc'[t] # "mail"
    BY ZenonT(30), <2>1, <2>2, SpentStays
  <2>3. CASE pc'[t] = "mail"
    <3>1. Token(t) \notin spent /\ Token(t) \in spent' /\ job[t] \in Agent
      BY ZenonT(30), <1>4, <2>3 DEF Spend, OnRedeemerDown, GateType, PostsOK
    <3>2. mails[job[t]] = 0
      BY ZenonT(30), <3>1 DEF SpentOK, Token
    <3>3. \A u \in Task : pc[u] = "mail" => job[u] # job[t]
      BY ZenonT(30), <3>1 DEF SpentOK, Token
    <3>4. \A u \in Task : Token(u)' = Token(u)
      BY ZenonT(30), <2>1 DEF Token
    <3> QED
      BY ZenonT(30), <2>1, <3>1, <3>2, <3>3, <3>4 DEF SpentOK
  <2> QED
    BY ZenonT(30), <2>2, <2>3
<1>5. ASSUME NEW t \in Task, Send(t) PROVE SpentOK'
  <2>1. /\ UNCHANGED <<spent, epoch, net, job>> /\ pc[t] = "mail" /\ pc'[t] # "mail"
        /\ \A u \in Task : u # t => pc'[u] = pc[u]
    BY ZenonT(30), <1>5 DEF Send, GateType, OnMailError
  <2>2. job[t] \in net /\ job[t] \in Agent /\ Token(t) \in spent /\ mails[job[t]] = 0
    BY ZenonT(30), <2>1 DEF PostsOK, SpentOK, GateType
  <2>a. mails' = mails \/ mails' = [mails EXCEPT ![job[t]] = mails[job[t]] + 1]
    BY ZenonT(30), <1>5 DEF Send
  <2>3. \A a \in Agent : mails'[a] # mails[a] => a = job[t] /\ mails'[a] = 1
    BY <2>a, <2>2 DEF GateType
  <2>4. \A u \in Task : pc'[u] = "mail" => pc[u] = "mail" /\ job[u] # job[t]
    BY ZenonT(30), <2>1 DEF SpentOK
  <2>5. \A u \in Task : Token(u)' = Token(u)
    BY ZenonT(30), <2>1 DEF Token
  <2>6. \A u \in Task : pc[u] = "mail" => job[u] \in Agent
    BY ZenonT(30) DEF PostsOK, GateType
  <2>7. \A a \in Agent : mails'[a] # 0 => mails'[a] = 1 /\ a \in net /\ <<epoch[a], a>> \in spent
    BY ZenonT(30), <2>2, <2>3 DEF SpentOK, Token
  <2>8. \A u \in Task : pc'[u] = "mail" => Token(u) \in spent /\ mails'[job[u]] = 0
    BY ZenonT(30), <2>3, <2>4, <2>6 DEF SpentOK
  <2> QED
    BY ZenonT(30), <2>1, <2>4, <2>5, <2>7, <2>8 DEF SpentOK
<1>6. CASE OtherChallenge \/ Rotate \/ Restart
  BY ZenonT(30), <1>6, SpentStays DEF OtherChallenge, Rotate, Restart
<1>7. CASE Crash
  BY ZenonT(30), <1>7, SpentStays DEF Crash
<1>8. CASE UNCHANGED vars
  BY ZenonT(30), <1>8, SpentStays DEF vars
<1> QED
  BY ZenonT(30), <1>1, <1>2, <1>3, <1>4, <1>5, <1>6, <1>7, <1>8 DEF Next

\* AnswersOK when nothing is sent: an answer is one that was there, in the task of the
\* agent's post if not with the agent.
LEMMA AnswersFrame ==
  ASSUME AnswersOK, UNCHANGED <<mails, sent, dry>>,
         \A t \in Task : pc'[t] = "200" => pc[t] = "200" /\ job'[t] = job[t] /\ body'[t] = body[t],
         \A a \in Agent : apc'[a] = "200" =>
           \/ apc[a] = "200"
           \/ \E t \in Task : a = job[t] /\ a = body[t] /\ pc[t] = "200"
  PROVE  AnswersOK'
<1>1. ASSUME NEW t \in Task, pc'[t] = "200" PROVE SentWith(job[t], body[t])'
  BY <1>1 DEF AnswersOK, SentWith
<1>2. ASSUME NEW a \in Agent, apc'[a] = "200" PROVE SentWith(a, a)'
  BY <1>2 DEF AnswersOK, SentWith
<1> QED
  BY ZenonT(30), <1>1, <1>2 DEF AnswersOK

\* AnswersOK, over every step.
LEMMA AnswersStep ==
  ASSUME GateType, PostsOK, SpentOK, AnswersOK, [Next]_vars
  PROVE  AnswersOK'
<1> USE ToolGateAssumption DEF GateType, AnswersOK, Goto, gate, world, agent, task
<1> USE DEF SentWith
<1>1. ASSUME NEW a \in Agent, FetchChallenge(a) \/ MintAndPost(a) \/ AgentFails(a)
      PROVE  AnswersOK'
  <2>1. UNCHANGED <<mails, sent, dry, pc, job, body>>
    BY ZenonT(30), <1>1 DEF FetchChallenge, MintAndPost, AgentFails
  <2>2. \A b \in Agent : apc'[b] = "200" => apc[b] = "200"
    BY ZenonT(30), <1>1 DEF FetchChallenge, MintAndPost, AgentFails
  <2> QED
    BY ZenonT(30), <2>1, <2>2, AnswersFrame
<1>2. ASSUME NEW t \in Task, Receive(t) \/ Lookup(t) \/ KeyFor(t) \/ Spend(t) PROVE AnswersOK'
  <2>1. UNCHANGED <<mails, sent, dry, apc>> /\ pc'[t] # "200"
    BY ZenonT(30), <1>2 DEF Receive, Lookup, KeyFor, Spend, OnRedeemerDown
  <2>2. \A u \in Task : u # t => pc'[u] = pc[u] /\ job'[u] = job[u] /\ body'[u] = body[u]
    BY ZenonT(30), <1>2 DEF Receive, Lookup, KeyFor, Spend
  <2> QED
    BY ZenonT(30), <2>1, <2>2, AnswersFrame
<1>3. ASSUME NEW t \in Task, Send(t) PROVE AnswersOK'
  <2>1. job[t] \in Agent /\ body[t] \in Agent /\ mails[job[t]] = 0
    BY ZenonT(30), <1>3 DEF Send, PostsOK, SpentOK
  <2>2. /\ UNCHANGED <<apc, job, body, dry>> /\ \A u \in Task : u # t => pc'[u] = pc[u]
        /\ pc'[t] \in {"200", "500"}
    BY ZenonT(30), <1>3 DEF Send, OnMailError
  <2>3. CASE /\ body[t] \in Allowed /\ ~dry
             /\ mails' = [mails EXCEPT ![job[t]] = mails[job[t]] + 1]
             /\ sent' = sent \cup {<<job[t], body[t]>>}
    <3>1. mails'[job[t]] = 1 /\ \A a \in Agent : mails[a] = 1 => mails'[a] = 1
      BY <2>1, <2>3
    <3>2. sent \subseteq sent' /\ <<job[t], body[t]>> \in sent'
      BY ZenonT(30), <2>3
    <3>3. \A s \in sent' : s[2] \in Allowed
      <4>1. <<job[t], body[t]>>[2] = body[t]
        OBVIOUS
      <4> QED
        BY ZenonT(30), <2>3, <4>1
    <3>4. \A u \in Task : pc[u] = "200" => job[u] \in Agent
      BY ZenonT(30) DEF PostsOK
    <3>5. \A u \in Task : pc'[u] = "200" => SentWith(job[u], body[u])'
      BY ZenonT(30), <2>2, <2>3, <3>1, <3>2, <3>4
    <3>6. \A a \in Agent : apc'[a] = "200" => SentWith(a, a)'
      BY ZenonT(30), <2>2, <2>3, <3>1, <3>2
    <3> QED
      BY ZenonT(30), <2>2, <2>3, <3>3, <3>5, <3>6
  <2>4. CASE UNCHANGED <<mails, sent>> /\ (pc'[t] = "200" => dry /\ body[t] \in Allowed)
    BY ZenonT(30), <2>2, <2>4
  <2> QED
    BY ZenonT(30), <1>3, <2>3, <2>4 DEF Send, OnMailError
<1>4. ASSUME NEW t \in Task, Respond(t) PROVE AnswersOK'
  <2>1. /\ UNCHANGED <<mails, sent, dry>> /\ pc'[t] # "200"
        /\ \A u \in Task : u # t => pc'[u] = pc[u] /\ job'[u] = job[u] /\ body'[u] = body[u]
    BY ZenonT(30), <1>4 DEF Respond
  <2>2. \A a \in Agent : apc'[a] = "200" =>
          \/ apc[a] = "200"
          \/ a = job[t] /\ a = body[t] /\ pc[t] = "200"
    BY ZenonT(30), <1>4 DEF Respond
  <2> QED
    BY ZenonT(30), <2>1, <2>2, AnswersFrame
<1>5. CASE OtherChallenge \/ Rotate \/ Restart
  <2>1. UNCHANGED <<mails, sent, dry, pc, job, body, apc>>
    BY ZenonT(30), <1>5 DEF OtherChallenge, Rotate, Restart
  <2> QED
    BY ZenonT(30), <2>1, AnswersFrame
<1>6. CASE Crash
  <2>1. UNCHANGED <<mails, sent, dry, apc>> /\ \A t \in Task : pc'[t] # "200"
    BY ZenonT(30), <1>6 DEF Crash
  <2> QED
    BY ZenonT(30), <2>1, AnswersFrame
<1>7. CASE UNCHANGED vars
  <2>1. UNCHANGED <<mails, sent, dry, pc, job, body, apc>>
    BY ZenonT(30), <1>7 DEF vars
  <2> QED
    BY ZenonT(30), <2>1, AnswersFrame
<1> QED
  BY ZenonT(30), <1>1, <1>2, <1>3, <1>4, <1>5, <1>6, <1>7 DEF Next

\* Registering a challenge moves the others one place from the end.
LEMMA RegisterKeepsRecent ==
  ASSUME GateType, RecentInv, NEW c \in Agent \cup {Other}, Register(c)
  PROVE  RecentInv'
<1> USE ToolGateAssumption
<1>1. recent \in Seq(Agent \cup {Other}) /\ since \in [Agent -> Nat]
  BY ZenonT(30) DEF GateType
<1> DEFINE more == Append(recent, c)
<1>2. /\ more \in Seq(Agent \cup {Other}) /\ Len(more) = Len(recent) + 1
      /\ more[Len(recent) + 1] = c /\ \A i \in 1..Len(recent) : more[i] = recent[i]
  BY <1>1
<1>3. recent' = DropOldest(more)
  BY ZenonT(30) DEF Register
<1> HIDE DEF more
<1>4. Len(recent') = IF Len(more) > MaxRecent THEN MaxRecent ELSE Len(more)
  BY ZenonT(30), <1>2, <1>3, DropKeepsEnd
<1>5. \A k \in Nat : k < Len(recent') => recent'[Len(recent') - k] = more[Len(more) - k]
  BY ZenonT(30), <1>2, <1>3, DropKeepsEnd
<1>6. ASSUME NEW a \in Agent, since'[a] < MaxRecent
      PROVE  since'[a] < Len(recent') /\ recent'[Len(recent') - since'[a]] = a
  <2>1. CASE a = c
    <3>1. since'[a] = 0
      BY ZenonT(30), <1>6, <2>1 DEF Register
    <3> QED
      BY SMTT(30), Z3T(30), <1>1, <1>2, <1>4, <1>5, <2>1, <3>1
  <2>2. CASE a # c
    <3>1. since'[a] = since[a] + 1 /\ since[a] < MaxRecent /\ since[a] \in Nat
      BY ZenonT(30), <1>1, <1>6, <2>2 DEF Register
    <3>2. since[a] < Len(recent) /\ recent[Len(recent) - since[a]] = a
      BY ZenonT(30), <3>1 DEF RecentInv
    <3>3. more[Len(more) - (since[a] + 1)] = a
      <4>1. /\ Len(more) - (since[a] + 1) = Len(recent) - since[a]
            /\ Len(recent) - since[a] \in 1..Len(recent)
        BY SMTT(30), Z3T(30), <1>1, <1>2, <3>1, <3>2
      <4> QED
        BY ZenonT(30), <1>2, <3>2, <4>1
    <3>4. since'[a] < Len(recent')
      BY SMTT(30), Z3T(30), <1>1, <1>2, <1>4, <1>6, <3>1, <3>2
    <3> QED
      BY SMTT(30), Z3T(30), <1>5, <3>1, <3>3, <3>4
  <2> QED
    BY ZenonT(30), <2>1, <2>2
<1>7. Len(recent') <= MaxRecent
  BY SMTT(30), Z3T(30), <1>1, <1>2, <1>4
<1> QED
  BY ZenonT(30), <1>6, <1>7 DEF RecentInv

\* RecentInv, over every step.
LEMMA RecentStep ==
  ASSUME GateType, GateType', RecentInv, [Next]_vars
  PROVE  RecentInv'
<1>1. ASSUME NEW a \in Agent, FetchChallenge(a) PROVE RecentInv'
  BY ZenonT(30), <1>1, RegisterKeepsRecent DEF FetchChallenge
<1>2. CASE OtherChallenge
  BY ZenonT(30), <1>2, RegisterKeepsRecent DEF OtherChallenge
<1>3. CASE Crash
  BY <1>3, ToolGateAssumption DEF Crash, RecentInv
<1>4. CASE UNCHANGED <<recent, since>>
  BY ZenonT(30), <1>4 DEF RecentInv
<1> QED
  BY ZenonT(30), <1>1, <1>2, <1>3, <1>4
     DEF Next, vars, gate, MintAndPost, AgentFails, Receive, Lookup, KeyFor, Spend, Send,
         Respond, Rotate, Restart
-----------------------------------------------------------------------------
\* The state of tool-gate, of its agents and of the redeemer keeps its type, and
\* every mail sent or about to be sent stands behind a token spent for it alone.
THEOREM MailsCorrect == Spec => []MailInv
<1>1. Init => PostsOK /\ SpentOK /\ AnswersOK
  BY ZenonT(30) DEF Init, PostsOK, SpentOK, AnswersOK
<1> QED
  BY <1>1, GateTypeInit, GateTypeStep, PostsStep, SpentStep, AnswersStep, PTL DEF Spec, MailInv

\* A token never sends two mails, however and with whatever emails it is posted and
\* wherever the gate is killed; an agent told 200 had its own email sent with it,
\* unless the gate runs dry and sends none.
THEOREM OneMail == Spec => []OneMailPerToken
<1>1. MailInv => OneMailPerToken
  <2> SUFFICES ASSUME MailInv PROVE OneMailPerToken
    OBVIOUS
  <2>1. \A a \in Agent : mails[a] \in {0, 1} /\ (dry => mails[a] = 0)
    BY ZenonT(30) DEF MailInv, SpentOK, AnswersOK
  <2>2. \A a \in Agent : mails[a] <= (IF dry THEN 0 ELSE 1)
    BY <2>1
  <2> QED
    BY ZenonT(30), <2>2 DEF MailInv, AnswersOK, SentWith, OneMailPerToken
<1> QED
  BY <1>1, MailsCorrect, PTL

\* register_challenge forgets a challenge only after MaxRecent later ones: the
\* lookup of a younger one by challenge_for_digest succeeds.
THEOREM RecentKnown == Spec => []RecentIsKnown
<1>1. Init => RecentInv
  BY ToolGateAssumption DEF Init, RecentInv
<1>2. GateType /\ RecentInv => RecentIsKnown
  <2> SUFFICES ASSUME GateType, RecentInv, NEW a \in Agent, since[a] < MaxRecent
               PROVE  a \in Range(recent)
    BY ZenonT(30) DEF RecentInv, RecentIsKnown
  <2>1. since[a] \in Nat /\ recent \in Seq(Agent \cup {Other})
    BY ZenonT(30) DEF GateType
  <2>2. since[a] < Len(recent) /\ recent[Len(recent) - since[a]] = a
    BY ZenonT(30) DEF RecentInv
  <2>3. Len(recent) - since[a] \in DOMAIN recent
    BY <2>1, <2>2
  <2> QED
    BY ZenonT(30), <2>2, <2>3 DEF Range
<1>3. Spec => []GateType
  BY MailsCorrect, PTL DEF MailInv
<1> QED
  BY <1>1, <1>2, <1>3, RecentStep, PTL DEF Spec
-----------------------------------------------------------------------------
(***************************************************************************)
(* llmattest: its two invariants for any number of runs over one config and *)
(* one port, and any teams.                                                *)
(***************************************************************************)
Place == {"new", "save", "fill", "load", "spawn", "poll", "health", "smoke", "started",
          "command", "waiting", "ended"}

Locals == [mode : {"start", "init", "smoke", "run"}, payload : Team \cup {Nothing},
           cfg : Team \cup {Nothing}, polls : Nat, answered : Run \cup {Nothing},
           started : Nat]

StartType ==
  /\ config \in Team \cup {Nothing, Torn} /\ now \in Nat
  /\ place \in [Run -> Place] /\ loc \in [Run -> Locals]
  /\ child \in [Run -> {"none", "booting", "loaded", "bound", "exited"}]
  /\ team \in [Run -> Team \cup {Nothing}] /\ port \in Run \cup {Nothing}

\* A run has no child before it spawned one; the daemon on the port is bound.
ChildOK(r) ==
  /\ place[r] \in {"new", "save", "fill", "load", "spawn"} => child[r] = "none"
  /\ port = r => child[r] = "bound"

\* Which commands have a payload, and which of them go on after they saved it.
ModeOK(r) ==
  /\ loc[r].mode \in {"smoke", "run"} => loc[r].payload = Nothing
  /\ place[r] \in {"save", "fill"} => loc[r].payload # Nothing
  /\ place[r] \notin {"new", "save", "fill", "ended"} => loc[r].mode # "init"
  /\ place[r] = "new" => loc[r].answered = Nothing

\* The payload of a start that is not disturbed is in the config until its child
\* has loaded it, then in the child.
PayloadOK(r) ==
  loc[r].payload # Nothing /\ r \notin overwritten =>
    /\ place[r] = "load" => config = loc[r].payload
    /\ place[r] \in {"spawn", "poll", "health"} /\ child[r] \in {"none", "booting"} =>
         config = loc[r].payload
    /\ place[r] \in {"poll", "health"} /\ child[r] \in {"loaded", "bound"} =>
         team[r] = loc[r].payload
    /\ place[r] \in {"spawn", "poll", "health", "smoke", "started", "command", "waiting"} =>
         loc[r].cfg = loc[r].payload
    /\ loc[r].answered = r => child[r] \in {"bound", "exited"} /\ team[r] = loc[r].payload

\* EndedLeavesNothing, of one run.
EndedOK(r) ==
  place[r] = "ended" /\ child[r] \in {"booting", "loaded", "bound"} => r \in abandoned

RunOK(r) == ChildOK(r) /\ ModeOK(r) /\ PayloadOK(r) /\ EndedOK(r)

StartInv == StartType /\ \A r \in Run : RunOK(r)
-----------------------------------------------------------------------------
\* The steps of a run and its child.
RunStep(r) ==
  \/ Begin(r) \/ Save(r) \/ Fill(r) \/ Load(r) \/ Spawn(r)
  \/ ChildLoads(r) \/ Boot(r) \/ DaemonEnds(r)
  \/ Poll(r) \/ PollFails(r) \/ Health(r) \/ Smoke(r) \/ Started(r)
  \/ CommandReturns(r) \/ CommandExits(r) \/ Wait(r) \/ Interrupt(r)

\* Types of a run that has not begun.
LEMMA NoLocalsType == NoLocals \in Locals
BY ZenonT(30) DEF NoLocals, Locals

\* What posting an event, or not, leaves alone.
LEMMA PostKeepsTime ==
  ASSUME NEW report, NEW started,
         Posted(report, started) \/ PostFails(report, started) \/ UNCHANGED service
  PROVE  now' = now
BY ZenonT(30) DEF Posted, PostFails, Accept, service

\* A step of one run leaves the others as they are; it writes the config only over
\* runs that are then counted as overwritten.
LEMMA OthersKeep ==
  ASSUME StartType, NEW r \in Run, RunStep(r)
  PROVE  /\ \A s \in Run \ {r} :
              /\ place'[s] = place[s] /\ loc'[s] = loc[s]
              /\ child'[s] = child[s] /\ team'[s] = team[s]
              /\ port' = s => port = s
              /\ config' = config \/ (s \in Disturbed(r) => s \in overwritten')
         /\ overwritten \subseteq overwritten' /\ abandoned \subseteq abandoned'
<1> USE DEF StartType, Move, Ends, Kill, Drop, childVars, runVars, ghosts
<1>1. CASE Begin(r) \/ Save(r) \/ Fill(r) \/ Load(r) \/ Spawn(r)
  BY ZenonT(30), <1>1 DEF Begin, Save, Fill, Load, Spawn
<1>2. CASE ChildLoads(r) \/ Boot(r) \/ DaemonEnds(r)
  BY ZenonT(30), <1>2, CaptureStartAssumption DEF ChildLoads, Boot, DaemonEnds
<1>3. CASE Poll(r) \/ PollFails(r) \/ Health(r)
  BY ZenonT(30), <1>3, CaptureStartAssumption DEF Poll, PollFails, Health, OnPollsUsedUp
<1>4. CASE Smoke(r) \/ Started(r) \/ CommandReturns(r) \/ CommandExits(r)
  BY ZenonT(30), <1>4, CaptureStartAssumption DEF Smoke, Started, CommandReturns, CommandExits
<1>5. CASE Wait(r) \/ Interrupt(r)
  BY ZenonT(30), <1>5, CaptureStartAssumption DEF Wait, Interrupt
<1> QED
  BY ZenonT(30), <1>1, <1>2, <1>3, <1>4, <1>5 DEF RunStep

\* Types, over the steps of a run and its child.
LEMMA TypeOfRun ==
  ASSUME StartInv, NEW r \in Run, RunStep(r)
  PROVE  StartType'
<1> USE CaptureStartAssumption, NoLocalsType DEF StartType, Move, Ends, Kill, Drop, childVars, runVars, ghosts, Place
<1>0. StartType /\ RunOK(r)
  BY ZenonT(30) DEF StartInv
<1>a. loc[r] \in Locals
  BY ZenonT(30), <1>0
<1>b. ASSUME NEW f \in Locals, loc' = [loc EXCEPT ![r] = f] PROVE loc' \in [Run -> Locals]
  BY ZenonT(30), <1>0, <1>b
<1>1. CASE Begin(r)
  <2>1. CASE Ends(r)
    BY ZenonT(30), <1>0, <1>1, <2>1 DEF Begin, service
  <2>2. CASE ~Ends(r)
    <3>1. PICK m \in {"start", "init", "smoke", "run"}, p \in Team \cup {Nothing} :
            /\ Move(r, Entry(m, p))
            /\ loc' = [loc EXCEPT ![r].mode = m, ![r].payload = p]
      BY ZenonT(30), <1>1, <2>2 DEF Begin
    <3> DEFINE f == [loc[r] EXCEPT !.mode = m, !.payload = p]
    <3>2. f \in Locals
      BY ZenonT(30), <1>a DEF Locals
    <3>3. loc' = [loc EXCEPT ![r] = f]
      BY ZenonT(30), <3>1
    <3>4. loc' \in [Run -> Locals]
      BY ZenonT(30), <1>b, <3>2, <3>3
    <3>5. place' \in [Run -> Place]
      BY ZenonT(30), <1>0, <3>1 DEF Entry
    <3> QED
      BY ZenonT(30), <1>0, <1>1, <3>4, <3>5 DEF Begin, service
  <2> QED
    BY ZenonT(30), <2>1, <2>2
<1>2. CASE Save(r)
  BY ZenonT(30), <1>0, <1>2 DEF Save, service
<1>3. CASE Fill(r)
  <2>1. loc[r].payload \in Team \cup {Nothing}
    BY ZenonT(30), <1>0 DEF Locals
  <2> QED
    BY <1>0, <1>3, <2>1 DEF Fill, service
<1>4. CASE Load(r)
  <2>1. AfterLoad[loc[r].mode] \in Place
    BY <1>0, <1>4 DEF Load, RunOK, ModeOK, AfterLoad, Locals
  <2>2. CASE Ends(r)
    BY ZenonT(30), <1>0, <1>4, <2>2 DEF Load, service
  <2>3. CASE ~Ends(r)
    <3> DEFINE f == [loc[r] EXCEPT !.cfg = config, !.started = now]
    <3>1. f \in Locals
      BY ZenonT(30), <1>0, <1>4, <1>a, <2>3 DEF Load, Locals
    <3>2. loc' = [loc EXCEPT ![r] = f]
      BY ZenonT(30), <1>4, <2>3 DEF Load
    <3>3. loc' \in [Run -> Locals]
      BY ZenonT(30), <1>b, <3>1, <3>2
    <3> QED
      BY ZenonT(30), <1>0, <1>4, <2>1, <2>3, <3>3 DEF Load, service
  <2> QED
    BY ZenonT(30), <2>2, <2>3
<1>5. CASE Spawn(r)
  BY <1>0, <1>5 DEF Spawn, service
<1>6. CASE ChildLoads(r) \/ Boot(r) \/ DaemonEnds(r)
  BY <1>0, <1>6 DEF ChildLoads, Boot, DaemonEnds, service
<1>7. CASE Poll(r) \/ PollFails(r)
  BY <1>0, <1>7 DEF Poll, PollFails, OnPollsUsedUp, service
<1>8. CASE Health(r)
  <2>1. [loc[r] EXCEPT !.answered = port] \in Locals
    BY ZenonT(30), <1>0, <1>a DEF Locals
  <2>2. [loc[r] EXCEPT !.polls = loc[r].polls + 1] \in Locals
    BY <1>0, <1>a DEF Locals
  <2>3. \/ loc' = [loc EXCEPT ![r] = [loc[r] EXCEPT !.answered = port]]
        \/ loc' = [loc EXCEPT ![r] = [loc[r] EXCEPT !.polls = loc[r].polls + 1]]
    BY ZenonT(30), <1>8 DEF Health
  <2>4. loc' \in [Run -> Locals]
    BY ZenonT(30), <1>b, <2>1, <2>2, <2>3
  <2> QED
    BY ZenonT(30), <1>0, <1>8, <2>4 DEF Health, service
<1>9. CASE Smoke(r)
  <2>1. now' = now
    BY ZenonT(30), <1>9, PostKeepsTime DEF Smoke
  <2> QED
    BY <1>0, <1>9, <2>1 DEF Smoke
<1>10. CASE Started(r)
  <2>1. [loc[r] EXCEPT !.started = now] \in Locals
    BY ZenonT(30), <1>0, <1>a DEF Locals
  <2>2. loc' \in [Run -> Locals]
    BY ZenonT(30), <1>10, <1>b, <2>1 DEF Started
  <2> QED
    BY ZenonT(30), <1>0, <1>10, <2>2 DEF Started, service
<1>11. CASE CommandReturns(r) \/ CommandExits(r)
  <2>1. now' = now
    BY ZenonT(30), <1>11, PostKeepsTime DEF CommandReturns, CommandExits
  <2> QED
    BY <1>0, <1>11, <2>1 DEF CommandReturns, CommandExits
<1>12. CASE Wait(r) \/ Interrupt(r)
  BY <1>0, <1>12 DEF Wait, Interrupt, service
<1> QED
  BY ZenonT(30), <1>1, <1>2, <1>3, <1>4, <1>5, <1>6, <1>7, <1>8, <1>9, <1>10, <1>11, <1>12 DEF RunStep

\* A step of another run.
LEMMA OtherRun ==
  ASSUME StartInv, NEW r \in Run, RunStep(r), NEW s \in Run \ {r}
  PROVE  RunOK(s)'
<1>1. /\ place'[s] = place[s] /\ loc'[s] = loc[s] /\ child'[s] = child[s] /\ team'[s] = team[s]
      /\ port' = s => port = s
      /\ config' = config \/ (s \in Disturbed(r) => s \in overwritten')
      /\ overwritten \subseteq overwritten' /\ abandoned \subseteq abandoned'
  BY ZenonT(30), OthersKeep DEF StartInv
<1>2. RunOK(s)
  BY ZenonT(30) DEF StartInv
<1>3. ChildOK(s)' /\ ModeOK(s)' /\ EndedOK(s)'
  BY ZenonT(30), <1>1, <1>2 DEF RunOK, ChildOK, ModeOK, EndedOK
<1>4. PayloadOK(s)'
  BY ZenonT(30), <1>1, <1>2 DEF RunOK, ChildOK, PayloadOK, Disturbed
<1> QED
  BY ZenonT(30), <1>3, <1>4 DEF RunOK

\* A run that ends is fine if it leaves no child that is not accounted for.
LEMMA EndsWell ==
  ASSUME StartType, NEW r \in Run, Ends(r), port' = r => child'[r] = "bound",
         child'[r] \in {"booting", "loaded", "bound"} => r \in abandoned'
  PROVE  RunOK(r)'
<1>1. place'[r] = "ended" /\ loc'[r] = NoLocals
  BY ZenonT(30) DEF StartType, Ends, Move
<1> QED
  BY <1>1 DEF RunOK, ChildOK, ModeOK, PayloadOK, EndedOK, NoLocals

\* The child is killed, or there is none.
LEMMA KillsChild ==
  ASSUME StartType, NEW r \in Run, ChildOK(r), Kill(r) \/ Drop(r)
  PROVE  child'[r] \in {"none", "exited"} /\ port' # r /\ team'[r] = team[r]
BY ZenonT(30), CaptureStartAssumption DEF StartType, ChildOK, Kill, Drop, childVars

\* A run saves, loads and spawns.
LEMMA OwnBefore ==
  ASSUME StartInv, NEW r \in Run, Begin(r) \/ Save(r) \/ Fill(r) \/ Load(r) \/ Spawn(r)
  PROVE  RunOK(r)'
<1> USE CaptureStartAssumption DEF childVars, ghosts
<1>1. StartType /\ ChildOK(r) /\ ModeOK(r) /\ PayloadOK(r) /\ EndedOK(r)
  BY ZenonT(30) DEF StartInv, RunOK
<1>2. CASE Ends(r)
  <2>1. child[r] = "none" /\ port # r
    BY ZenonT(30), <1>1 DEF ChildOK, Begin, Save, Fill, Load, Spawn
  <2>2. child' = child /\ port' = port
    BY ZenonT(30), <1>1, <1>2 DEF Begin, Save, Fill, Load, Spawn, Ends, Move, StartType
  <2> QED
    BY ZenonT(30), <1>1, <1>2, <2>1, <2>2, EndsWell
<1> SUFFICES ASSUME ~Ends(r) PROVE RunOK(r)'
  BY ZenonT(30), <1>2
<1> USE DEF Move, RunOK, ChildOK, ModeOK, EndedOK
<1>3. CASE Begin(r)
  <2>1. PICK m \in {"start", "init", "smoke", "run"}, p \in Team \cup {Nothing} :
          /\ m = "init" => p # Nothing
          /\ m \in {"smoke", "run"} => p = Nothing
          /\ Move(r, Entry(m, p))
          /\ loc' = [loc EXCEPT ![r].mode = m, ![r].payload = p]
    BY ZenonT(30), <1>3 DEF Begin
  <2>2. place[r] = "new" /\ UNCHANGED <<config, child, team, port, overwritten, abandoned>>
    BY ZenonT(30), <1>3 DEF Begin
  <2>3. /\ place'[r] = IF p = Nothing THEN "load" ELSE "save"
        /\ loc'[r].mode = m /\ loc'[r].payload = p
    BY <1>1, <2>1 DEF StartType, Locals, Entry
  <2>4. loc'[r].answered = loc[r].answered
    BY <1>1, <2>1 DEF StartType, Locals
  <2> QED
    BY <1>1, <2>1, <2>2, <2>3, <2>4 DEF PayloadOK
<1>4. CASE Save(r)
  BY ZenonT(30), <1>1, <1>4 DEF Save, StartType, PayloadOK, Disturbed
<1>5. CASE Fill(r)
  BY ZenonT(30), <1>1, <1>5 DEF Fill, StartType, PayloadOK, Disturbed
<1>6. CASE Load(r)
  <2>1. /\ place[r] = "load" /\ config \in Team /\ place'[r] = AfterLoad[loc[r].mode]
        /\ loc' = [loc EXCEPT ![r].cfg = config, ![r].started = now]
        /\ UNCHANGED <<config, child, team, port, overwritten, abandoned>>
    BY ZenonT(30), <1>1, <1>6 DEF Load, StartType
  <2>2. /\ loc'[r].mode = loc[r].mode /\ loc'[r].payload = loc[r].payload
        /\ loc'[r].answered = loc[r].answered /\ loc'[r].cfg = config
    BY <1>1, <2>1 DEF StartType, Locals
  <2>3. place'[r] \in {"spawn", "smoke", "command"} /\ loc[r].mode # "init"
    BY <1>1, <2>1 DEF StartType, Locals, AfterLoad
  <2> QED
    BY ZenonT(30), <1>1, <2>1, <2>2, <2>3 DEF PayloadOK
<1>7. CASE Spawn(r)
  BY ZenonT(30), <1>1, <1>7 DEF Spawn, StartType, PayloadOK
<1> QED
  BY ZenonT(30), <1>3, <1>4, <1>5, <1>6, <1>7

\* The child loads the config, boots and ends.
LEMMA OwnChild ==
  ASSUME StartInv, NEW r \in Run, ChildLoads(r) \/ Boot(r) \/ DaemonEnds(r)
  PROVE  RunOK(r)'
<1> USE CaptureStartAssumption DEF runVars, ghosts, RunOK, ChildOK, ModeOK, EndedOK
<1>1. StartType /\ ChildOK(r) /\ ModeOK(r) /\ PayloadOK(r) /\ EndedOK(r)
  BY ZenonT(30) DEF StartInv
<1>2. CASE ChildLoads(r)
  BY ZenonT(30), <1>1, <1>2 DEF ChildLoads, StartType, PayloadOK
<1>3. CASE Boot(r)
  BY ZenonT(30), <1>1, <1>3 DEF Boot, StartType, PayloadOK
<1>4. CASE DaemonEnds(r)
  <2>1. child[r] = "bound" /\ child'[r] = "exited" /\ port' # r /\ team' = team
    BY ZenonT(30), <1>1, <1>4 DEF DaemonEnds, Kill, StartType
  <2>2. UNCHANGED <<config, place, loc, abandoned, overwritten>>
    BY ZenonT(30), <1>4 DEF DaemonEnds
  <2> QED
    BY ZenonT(30), <1>1, <2>1, <2>2 DEF PayloadOK
<1> QED
  BY ZenonT(30), <1>2, <1>3, <1>4

\* A run polls, and goes on to its command or to its end.
LEMMA OwnAfter ==
  ASSUME StartInv, NEW r \in Run,
         \/ Poll(r) \/ PollFails(r) \/ Health(r) \/ Smoke(r) \/ Started(r)
         \/ CommandReturns(r) \/ CommandExits(r) \/ Wait(r) \/ Interrupt(r)
  PROVE  RunOK(r)'
<1> USE CaptureStartAssumption DEF childVars, ghosts
<1>1. StartType /\ ChildOK(r) /\ ModeOK(r) /\ PayloadOK(r) /\ EndedOK(r)
  BY ZenonT(30) DEF StartInv, RunOK
<1>2. ASSUME Ends(r), Kill(r) \/ Drop(r) PROVE RunOK(r)'
  BY ZenonT(30), <1>1, <1>2, KillsChild, EndsWell
<1>3. ASSUME Ends(r), UNCHANGED childVars, child[r] = "exited" \/ r \in abandoned' PROVE RunOK(r)'
  BY ZenonT(30), <1>1, <1>3, EndsWell DEF ChildOK
<1>4. ASSUME NEW l \in {"poll", "health", "started", "command", "waiting"},
             place[r] \in {"poll", "health", "smoke", "started"}, place'[r] = l,
             l \in {"poll", "health"} => place[r] \in {"poll", "health"},
             loc'[r].mode = loc[r].mode, loc'[r].payload = loc[r].payload,
             loc'[r].cfg = loc[r].cfg, loc'[r].answered = loc[r].answered,
             UNCHANGED <<config, child, team, port, abandoned, overwritten>>
      PROVE  RunOK(r)'
  BY ZenonT(30), <1>1, <1>4 DEF RunOK, ChildOK, ModeOK, PayloadOK, EndedOK
<1>5. CASE Poll(r)
  BY ZenonT(30), <1>1, <1>2, <1>3, <1>4, <1>5 DEF Poll, OnPollsUsedUp, Move, StartType
<1>6. CASE PollFails(r)
  BY ZenonT(30), <1>3, <1>6 DEF PollFails
<1>7. CASE Health(r)
  <2>1. /\ place[r] = "health" /\ UNCHANGED <<config, child, team, port, abandoned, overwritten>>
    BY ZenonT(30), <1>7 DEF Health
  <2>2. \/ /\ port # Nothing /\ place'[r] = "smoke"
           /\ loc' = [loc EXCEPT ![r].answered = port]
        \/ /\ place'[r] = "poll"
           /\ loc' = [loc EXCEPT ![r].polls = @ + 1]
    BY ZenonT(30), <1>1, <1>7 DEF Health, Move, StartType
  <2>3. CASE place'[r] = "poll"
    <3>1. /\ loc'[r].mode = loc[r].mode /\ loc'[r].payload = loc[r].payload
          /\ loc'[r].cfg = loc[r].cfg /\ loc'[r].answered = loc[r].answered
      BY <1>1, <2>2, <2>3 DEF StartType, Locals
    <3> QED
      BY ZenonT(30), <1>4, <2>1, <2>3, <3>1
  <2>4. CASE place'[r] = "smoke"
    <3>1. /\ loc'[r].mode = loc[r].mode /\ loc'[r].payload = loc[r].payload
          /\ loc'[r].cfg = loc[r].cfg /\ loc'[r].answered = port
      BY <1>1, <2>2, <2>4 DEF StartType, Locals
    <3> QED
      BY ZenonT(30), <1>1, <2>1, <2>4, <3>1 DEF RunOK, ChildOK, ModeOK, PayloadOK, EndedOK
  <2> QED
    BY ZenonT(30), <2>2, <2>3, <2>4
<1>8. CASE Smoke(r)
  <2>1. \/ Ends(r) /\ Drop(r)
        \/ place[r] = "smoke" /\ place'[r] = "started" /\ UNCHANGED <<loc, child, team, port>>
    BY ZenonT(30), <1>1, <1>8 DEF Smoke, Move, StartType
  <2>2. UNCHANGED <<config, abandoned, overwritten>>
    BY ZenonT(30), <1>8 DEF Smoke
  <2> QED
    BY ZenonT(30), <1>2, <1>4, <2>1, <2>2
<1>9. CASE Started(r)
  <2>1. /\ place[r] = "started" /\ place'[r] \in {"command", "waiting"}
        /\ loc' = [loc EXCEPT ![r].started = now]
        /\ UNCHANGED <<config, child, team, port, abandoned, overwritten>>
    BY ZenonT(30), <1>1, <1>9 DEF Started, Move, StartType
  <2>2. /\ loc'[r].mode = loc[r].mode /\ loc'[r].payload = loc[r].payload
        /\ loc'[r].cfg = loc[r].cfg /\ loc'[r].answered = loc[r].answered
    BY <1>1, <2>1 DEF StartType, Locals
  <2> QED
    BY ZenonT(30), <1>4, <2>1, <2>2
<1>10. CASE CommandReturns(r) \/ Interrupt(r)
  BY ZenonT(30), <1>2, <1>10 DEF CommandReturns, Interrupt
<1>11. CASE CommandExits(r) \/ Wait(r)
  BY ZenonT(30), <1>3, <1>11 DEF CommandExits, Wait
<1> QED
  BY ZenonT(30), <1>5, <1>6, <1>7, <1>8, <1>9, <1>10, <1>11

\* The others, the clock and the reader touch no run.
LEMMA WorldKeeps ==
  ASSUME StartInv,
         \/ Arrive \/ Tick \/ RestartGateway \/ FetchProof \/ FetchReceipts
         \/ UNCHANGED startVars
  PROVE  StartInv'
<1>1. UNCHANGED <<config, place, loc, child, team, port, abandoned, overwritten>>
  BY ZenonT(30) DEF Arrive, Tick, RestartGateway, FetchProof, FetchReceipts,
     startVars, runVars, childVars, ghosts
<1>2. now' \in Nat
  BY PostKeepsTime DEF StartInv, StartType, Arrive, Tick, RestartGateway, FetchProof,
     FetchReceipts, startVars, service
<1> QED
  BY ZenonT(30), <1>1, <1>2 DEF StartInv, StartType, RunOK, ChildOK, ModeOK, PayloadOK, EndedOK

\* StartInv, over every step.
LEMMA StartStep ==
  ASSUME StartInv, [StartNext]_startVars
  PROVE  StartInv'
<1>1. ASSUME NEW r \in Run, RunStep(r) PROVE StartInv'
  <2>1. RunOK(r)'
    BY ZenonT(30), <1>1, OwnBefore, OwnChild, OwnAfter DEF RunStep
  <2> QED
    BY ZenonT(30), <1>1, <2>1, OtherRun, TypeOfRun DEF StartInv
<1> QED
  BY ZenonT(30), <1>1, WorldKeeps DEF StartNext, RunStep
-----------------------------------------------------------------------------
\* The inductive invariant of llmattest: where a run is, what its child is doing
\* and where the payload it was given has got to.
THEOREM StartsCorrect == StartSpec => []StartInv
<1>1. StartInit => StartInv
  <2> SUFFICES ASSUME StartInit PROVE StartInv
    OBVIOUS
  <2>1. StartType
    BY ZenonT(30), NoLocalsType DEF StartInit, StartType, Place
  <2>2. ASSUME NEW r \in Run PROVE RunOK(r)
    <3>1. loc[r] = NoLocals /\ child[r] = "none" /\ port = Nothing /\ place[r] \in {"new", "ended"}
      BY ZenonT(30) DEF StartInit
    <3> QED
      BY <3>1, CaptureStartAssumption DEF RunOK, ChildOK, ModeOK, PayloadOK, EndedOK, NoLocals
  <2> QED
    BY ZenonT(30), <2>1, <2>2 DEF StartInv
<1> QED
  BY <1>1, StartStep, PTL DEF StartSpec

\* Whichever way a run of llmattest ends, it leaves no daemon behind, except after
\* a failed command (std::process::exit) and when it could not poll its child.
THEOREM NoDaemonLeft == StartSpec => []EndedLeavesNothing
<1>1. StartInv => EndedLeavesNothing
  BY ZenonT(30) DEF StartInv, RunOK, EndedOK, EndedLeavesNothing
<1> QED
  BY <1>1, StartsCorrect, PTL

\* What start_capture reports is of the payload it was given, however the runs
\* that share the config and the port interleave, unless one of them wrote over
\* the config before the child had loaded it.
THEOREM ReportsItsPayload == StartSpec => []StartIsOfItsPayload
<1>1. StartInv => StartIsOfItsPayload
  BY ZenonT(30) DEF StartInv, RunOK, PayloadOK, StartIsOfItsPayload
<1> QED
  BY <1>1, StartsCorrect, PTL
-----------------------------------------------------------------------------
(***************************************************************************)
(* The registry: its glob matcher, and what a load of it comes to, for any *)
(* patterns, directories, legacy files and trust roots.                    *)
(***************************************************************************)
\* A nonempty set of naturals has a least element.
LEMMA LeastNatural ==
  ASSUME NEW T \in SUBSET Nat, T # {}
  PROVE  \E x \in T : \A y \in T : x <= y
<1> DEFINE R == OpToRel(<, Nat)
<1>1. \E x \in T : \A y \in T : ~(<<y, x>> \in R)
  BY Zenon, NatLessThanWellFounded, WFMin
<1>2. \A x, y \in Nat : y < x => <<y, x>> \in R
  BY Zenon DEF OpToRel
<1> HIDE DEF R
<1>3. \E x \in T : \A y \in T : ~(y < x)
  BY Zenon, <1>1, <1>2
<1> QED
  BY <1>3

\* The cut points of a match of the pattern from i on with the value from j on.
Cut(p, v, i, j, cut) ==
  /\ cut \in [i - 1..Len(p) -> 0..Len(v)]
  /\ cut[i - 1] = j - 1 /\ cut[Len(p)] = Len(v)
  /\ \A l \in i..Len(p) :
       IF p[l] = "*" THEN cut[l] >= cut[l - 1]
       ELSE cut[l] = cut[l - 1] + 1 /\ v[cut[l]] = p[l]

Matches(p, v, i, j) == \E cut : Cut(p, v, i, j, cut)

\* The end of the pattern matches the end of the value.
LEMMA MatchEnd ==
  ASSUME NEW p, NEW v, Len(p) \in Nat, Len(v) \in Nat, NEW j \in 1..Len(v) + 1
  PROVE  Matches(p, v, Len(p) + 1, j) <=> j > Len(v)
<1> DEFINE i == Len(p) + 1
<1>1. ASSUME Matches(p, v, i, j) PROVE j > Len(v)
  <2>1. PICK cut : Cut(p, v, i, j, cut)
    BY ZenonT(30), <1>1 DEF Matches
  <2> QED
    BY <2>1 DEF Cut
<1>2. ASSUME j > Len(v) PROVE Matches(p, v, i, j)
  <2> DEFINE cut == [l \in i - 1..Len(p) |-> Len(v)]
  <2>1. Cut(p, v, i, j, cut)
    BY <1>2 DEF Cut
  <2> QED
    BY ZenonT(30), <2>1 DEF Matches
<1> QED
  BY ZenonT(30), <1>1, <1>2

\* The rest of the cuts are a match of the rest.
LEMMA CutRest ==
  ASSUME NEW p, NEW v, Len(p) \in Nat, Len(v) \in Nat,
         NEW i \in 1..Len(p), NEW j \in 1..Len(v) + 1, NEW cut, Cut(p, v, i, j, cut)
  PROVE  cut[i] \in 0..Len(v) /\ Matches(p, v, i + 1, cut[i] + 1)
<1> DEFINE rest == [l \in i..Len(p) |-> cut[l]]
<1>1. cut[i] \in 0..Len(v)
  BY DEF Cut
<1>2. \A l \in i..Len(p) : rest[l] = cut[l] /\ cut[l] \in 0..Len(v)
  BY DEF Cut
<1>3. rest \in [i..Len(p) -> 0..Len(v)]
  BY ZenonT(30), <1>2
<1> HIDE DEF rest
<1>4. Cut(p, v, i + 1, cut[i] + 1, rest)
  <2>1. \A l \in i + 1..Len(p) : l \in i..Len(p) /\ l - 1 \in i..Len(p)
    OBVIOUS
  <2>2. \A l \in i + 1..Len(p) :
          IF p[l] = "*" THEN rest[l] >= rest[l - 1]
          ELSE rest[l] = rest[l - 1] + 1 /\ v[rest[l]] = p[l]
    BY ZenonT(30), <1>2, <2>1 DEF Cut
  <2>3. rest[i] = cut[i] /\ rest[Len(p)] = Len(v)
    BY <1>2 DEF Cut
  <2> QED
    BY <1>1, <1>3, <2>2, <2>3 DEF Cut
<1> QED
  BY ZenonT(30), <1>1, <1>4 DEF Matches

\* A cut before a match of the rest makes a match.
LEMMA CutMore ==
  ASSUME NEW p, NEW v, Len(p) \in Nat, Len(v) \in Nat,
         NEW i \in 1..Len(p), NEW j \in 1..Len(v) + 1, NEW k \in 1..Len(v) + 1,
         Matches(p, v, i + 1, k),
         IF p[i] = "*" THEN k >= j ELSE k = j + 1 /\ v[j] = p[i]
  PROVE  Matches(p, v, i, j)
<1>1. PICK rest : Cut(p, v, i + 1, k, rest)
  BY ZenonT(30) DEF Matches
<1> DEFINE cut == [l \in i - 1..Len(p) |-> IF l = i - 1 THEN j - 1 ELSE rest[l]]
<1>2. \A l \in i..Len(p) : cut[l] = rest[l] /\ rest[l] \in 0..Len(v)
  BY <1>1 DEF Cut
<1>3. cut[i - 1] = j - 1 /\ rest[i] = k - 1 /\ rest[Len(p)] = Len(v)
  BY <1>1 DEF Cut
<1>4. cut \in [i - 1..Len(p) -> 0..Len(v)]
  <2>1. \A l \in i - 1..Len(p) : l = i - 1 \/ l \in i..Len(p)
    OBVIOUS
  <2>2. ASSUME NEW l \in i - 1..Len(p) PROVE cut[l] \in 0..Len(v)
    <3>1. j - 1 \in 0..Len(v)
      OBVIOUS
    <3>2. l = i - 1 => cut[l] = j - 1
      BY ZenonT(30), <1>3
    <3> QED
      BY ZenonT(30), <1>2, <2>1, <3>1, <3>2
  <2> QED
    BY ZenonT(30), <2>2
<1> HIDE DEF cut
<1>5. ASSUME NEW l \in i..Len(p)
      PROVE  IF p[l] = "*" THEN cut[l] >= cut[l - 1]
             ELSE cut[l] = cut[l - 1] + 1 /\ v[cut[l]] = p[l]
  <2>1. CASE l = i
    BY <1>2, <1>3, <2>1
  <2>2. CASE l # i
    <3>1. l \in i + 1..Len(p) /\ l - 1 \in i..Len(p)
      BY <2>2
    <3>2. cut[l] = rest[l] /\ cut[l - 1] = rest[l - 1]
      BY ZenonT(30), <1>2, <3>1
    <3> QED
      BY ZenonT(30), <1>1, <3>1, <3>2 DEF Cut
  <2> QED
    BY ZenonT(30), <2>1, <2>2
<1>6. cut[Len(p)] = Len(v)
  BY <1>2, <1>3
<1>7. Cut(p, v, i, j, cut)
  BY ZenonT(30), <1>3, <1>4, <1>5, <1>6 DEF Cut
<1> QED
  BY ZenonT(30), <1>7 DEF Matches

\* A star, or one character, and the rest.
LEMMA MatchOne ==
  ASSUME NEW p, NEW v, Len(p) \in Nat, Len(v) \in Nat,
         NEW i \in 1..Len(p), NEW j \in 1..Len(v) + 1
  PROVE  /\ p[i] = "*" =>
              (Matches(p, v, i, j) <=> \E k \in j..Len(v) + 1 : Matches(p, v, i + 1, k))
         /\ p[i] # "*" =>
              (Matches(p, v, i, j) <=> j <= Len(v) /\ p[i] = v[j] /\ Matches(p, v, i + 1, j + 1))
<1>1. ASSUME Matches(p, v, i, j)
      PROVE  /\ p[i] = "*" => \E k \in j..Len(v) + 1 : Matches(p, v, i + 1, k)
             /\ p[i] # "*" => j <= Len(v) /\ p[i] = v[j] /\ Matches(p, v, i + 1, j + 1)
  <2>1. PICK cut : Cut(p, v, i, j, cut)
    BY ZenonT(30), <1>1 DEF Matches
  <2>2. cut[i] \in 0..Len(v) /\ Matches(p, v, i + 1, cut[i] + 1)
    BY ZenonT(30), <2>1, CutRest
  <2>3. p[i] = "*" => cut[i] + 1 \in j..Len(v) + 1
    BY <2>1, <2>2 DEF Cut
  <2>4. p[i] # "*" => cut[i] = j /\ v[j] = p[i]
    BY <2>1, <2>2 DEF Cut
  <2> QED
    BY <2>2, <2>3, <2>4
<1>2. ASSUME p[i] = "*", NEW k \in j..Len(v) + 1, Matches(p, v, i + 1, k)
      PROVE  Matches(p, v, i, j)
  <2>1. k \in 1..Len(v) + 1 /\ k >= j
    OBVIOUS
  <2> QED
    BY ZenonT(30), <1>2, <2>1, CutMore
<1>3. ASSUME p[i] # "*", j <= Len(v), p[i] = v[j], Matches(p, v, i + 1, j + 1)
      PROVE  Matches(p, v, i, j)
  <2>1. j + 1 \in 1..Len(v) + 1
    BY <1>3
  <2> QED
    BY ZenonT(30), <1>3, <2>1, CutMore
<1> QED
  BY ZenonT(30), <1>1, <1>2, <1>3

\* The run of stars at i ends before n.
StarRun(p, i, n) ==
  /\ n \in i + 1..Len(p) + 1
  /\ \A l \in i..n - 1 : p[l] = "*"
  /\ n > Len(p) \/ p[n] # "*"

\* A run of stars ends.
LEMMA RunExists ==
  ASSUME NEW p, Len(p) \in Nat, NEW i \in 1..Len(p), p[i] = "*"
  PROVE  \E n \in i + 1..Len(p) + 1 : StarRun(p, i, n)
<1> DEFINE T == {n \in i + 1..Len(p) + 1 : n > Len(p) \/ p[n] # "*"}
<1>1. T \in SUBSET Nat /\ Len(p) + 1 \in T
  OBVIOUS
<1>2. PICK n \in T : \A m \in T : n <= m
  BY ZenonT(30), <1>1, LeastNatural
<1>3. ASSUME NEW l \in i..n - 1 PROVE p[l] = "*"
  <2>1. l = i \/ l \in i + 1..Len(p) + 1
    BY <1>2
  <2> QED
    BY <1>2, <2>1
<1> QED
  BY ZenonT(30), <1>2, <1>3 DEF StarRun

\* A run of stars is as good as one.
LEMMA MatchRun ==
  ASSUME NEW p, NEW v, Len(p) \in Nat, Len(v) \in Nat,
         NEW i \in 1..Len(p), NEW j \in 1..Len(v) + 1, NEW n, StarRun(p, i, n)
  PROVE  Matches(p, v, i, j) <=> n > Len(p) \/ \E k \in j..Len(v) + 1 : Matches(p, v, n, k)
<1> DEFINE Same(m) == Matches(p, v, i, j) <=> \E k \in j..Len(v) + 1 : Matches(p, v, m, k)
           T == {m \in i + 1..n : ~Same(m)}
<1>0. n \in i + 1..Len(p) + 1 /\ \A l \in i..n - 1 : p[l] = "*"
  BY ZenonT(30) DEF StarRun
<1>1. Same(i + 1)
  BY <1>0, MatchOne
<1>2. ASSUME NEW m \in i + 1..n - 1, Same(m) PROVE Same(m + 1)
  <2>1. m \in 1..Len(p) /\ p[m] = "*"
    BY <1>0
  <2>2. \A k \in j..Len(v) + 1 : k \in 1..Len(v) + 1
    OBVIOUS
  <2>3. \A k \in j..Len(v) + 1 :
          Matches(p, v, m, k) <=> \E h \in k..Len(v) + 1 : Matches(p, v, m + 1, h)
    BY ZenonT(30), <2>1, <2>2, MatchOne
  <2>4. \A h \in j..Len(v) + 1 : h \in h..Len(v) + 1
    OBVIOUS
  <2>5. \A k \in j..Len(v) + 1 : \A h \in k..Len(v) + 1 : h \in j..Len(v) + 1
    OBVIOUS
  <2> QED
    BY ZenonT(30), <1>2, <2>3, <2>4, <2>5
<1>3. T = {}
  <2> SUFFICES ASSUME T # {} PROVE FALSE
    OBVIOUS
  <2>1. T \in SUBSET Nat
    BY <1>0
  <2> HIDE DEF Same
  <2>2. PICK m \in T : \A l \in T : m <= l
    BY ZenonT(30), <2>1, LeastNatural
  <2>3. m \in i + 1..n /\ ~Same(m) /\ m # i + 1
    BY ZenonT(30), <1>1, <2>2
  <2>4. m - 1 \in i + 1..n - 1 /\ (m - 1) + 1 = m /\ m - 1 \in i + 1..n
    BY <1>0, <2>3
  <2>5. m - 1 \notin T
    BY <1>0, <2>2, <2>4
  <2>6. Same(m - 1)
    BY ZenonT(30), <2>4, <2>5
  <2>7. Same((m - 1) + 1)
    BY ZenonT(30), <1>2, <2>4, <2>6
  <2> QED
    BY ZenonT(30), <2>3, <2>4, <2>7
<1>4. Same(n)
  BY <1>0, <1>3
<1>5. ASSUME n > Len(p) PROVE Matches(p, v, i, j)
  <2>1. n = Len(p) + 1 /\ Len(v) + 1 \in j..Len(v) + 1 /\ Len(v) + 1 \in 1..Len(v) + 1
    BY <1>0, <1>5
  <2>2. Matches(p, v, n, Len(v) + 1)
    BY <2>1, MatchEnd
  <2> QED
    BY ZenonT(30), <1>4, <2>1, <2>2
<1> QED
  BY ZenonT(30), <1>4, <1>5

\* The equation of rec in glob_match.
Rec(p, v, f) ==
  f = [i \in 1..Len(p) + 1 |->
        [j \in 1..Len(v) + 1 |->
          IF i > Len(p) THEN j > Len(v)
          ELSE IF p[i] = "*"
               THEN Skip(p, i) > Len(p) \/ \E k \in j..Len(v) + 1 : f[Skip(p, i)][k]
          ELSE j <= Len(v) /\ p[i] = v[j] /\ f[i + 1][j + 1]]]

\* Skip finds that end.
LEMMA SkipIsRun ==
  ASSUME NEW p, Len(p) \in Nat, NEW i \in 1..Len(p), p[i] = "*"
  PROVE  StarRun(p, i, Skip(p, i))
<1> DEFINE n == Skip(p, i)
<1>1. n = CHOOSE m \in i + 1..Len(p) + 1 : StarRun(p, i, m)
  BY ZenonT(30) DEF Skip, StarRun
<1> QED
  BY ZenonT(30), <1>1, RunExists

\* What rec computes: whether the rest of the pattern matches the rest of the value.
Table(p, v) == [i \in 1..Len(p) + 1 |-> [j \in 1..Len(v) + 1 |-> Matches(p, v, i, j)]]

\* The table of what matches solves the equation of rec.
LEMMA TableIsRec ==
  ASSUME NEW p, NEW v, Len(p) \in Nat, Len(v) \in Nat
  PROVE  Rec(p, v, Table(p, v))
<1> DEFINE f == Table(p, v)
<1>1. \A i \in 1..Len(p) + 1 : \A j \in 1..Len(v) + 1 : f[i][j] = Matches(p, v, i, j)
  BY ZenonT(30) DEF Table
<1>2. f = [i \in 1..Len(p) + 1 |-> [j \in 1..Len(v) + 1 |-> Matches(p, v, i, j)]]
  BY ZenonT(30) DEF Table
<1> HIDE DEF f
<1> DEFINE Step(i, j) ==
             IF i > Len(p) THEN j > Len(v)
             ELSE IF p[i] = "*"
                  THEN Skip(p, i) > Len(p) \/ \E k \in j..Len(v) + 1 : f[Skip(p, i)][k]
             ELSE j <= Len(v) /\ p[i] = v[j] /\ f[i + 1][j + 1]
<1>3. ASSUME NEW i \in 1..Len(p) + 1, NEW j \in 1..Len(v) + 1
      PROVE  Matches(p, v, i, j) = Step(i, j)
  <2>1. CASE i > Len(p)
    <3>1. i = Len(p) + 1
      BY <2>1
    <3>2. Matches(p, v, i, j) <=> j > Len(v)
      BY ZenonT(30), <3>1, MatchEnd
    <3>3. j > Len(v) => Step(i, j) = TRUE
      BY ZenonT(30), <2>1
    <3>4. ~(j > Len(v)) => Step(i, j) = FALSE
      BY <2>1
    <3> HIDE DEF Step
    <3> QED
      BY ZenonT(30), <3>2, <3>3, <3>4 DEF Matches
  <2>2. CASE i <= Len(p) /\ p[i] = "*"
    <3>1. i \in 1..Len(p) /\ ~(i > Len(p))
      BY <2>2
    <3>2. StarRun(p, i, Skip(p, i))
      BY ZenonT(30), <2>2, <3>1, SkipIsRun
    <3>3. Skip(p, i) \in 1..Len(p) + 1
      BY <3>2 DEF StarRun
    <3>4. \A k \in j..Len(v) + 1 : k \in 1..Len(v) + 1
      OBVIOUS
    <3>5. \A k \in j..Len(v) + 1 : f[Skip(p, i)][k] = Matches(p, v, Skip(p, i), k)
      BY ZenonT(30), <1>1, <3>3, <3>4
    <3>6. Matches(p, v, i, j) <=>
            Skip(p, i) > Len(p) \/ \E k \in j..Len(v) + 1 : Matches(p, v, Skip(p, i), k)
      BY ZenonT(30), <3>1, <3>2, MatchRun
    <3>7. Matches(p, v, i, j) <=>
            Skip(p, i) > Len(p) \/ \E k \in j..Len(v) + 1 : f[Skip(p, i)][k]
      BY ZenonT(30), <3>5, <3>6
    <3> QED
      BY ZenonT(30), <2>2, <3>1, <3>7 DEF Matches
  <2>3. CASE i <= Len(p) /\ p[i] # "*"
    <3>1. i \in 1..Len(p) /\ ~(i > Len(p)) /\ i + 1 \in 1..Len(p) + 1
      BY <2>3
    <3>2. Matches(p, v, i, j) <=> j <= Len(v) /\ p[i] = v[j] /\ Matches(p, v, i + 1, j + 1)
      BY ZenonT(30), <2>3, <3>1, MatchOne
    <3>3. j <= Len(v) => j + 1 \in 1..Len(v) + 1
      OBVIOUS
    <3>4. Matches(p, v, i, j) <=> j <= Len(v) /\ p[i] = v[j] /\ f[i + 1][j + 1]
      BY ZenonT(30), <1>1, <3>1, <3>2, <3>3
    <3> QED
      BY ZenonT(30), <2>3, <3>1, <3>4 DEF Matches
  <2> QED
    BY <2>1, <2>2, <2>3
<1> HIDE DEF Step
<1>4. f = [i \in 1..Len(p) + 1 |-> [j \in 1..Len(v) + 1 |-> Step(i, j)]]
  <2>1. \A i \in 1..Len(p) + 1 :
          [j \in 1..Len(v) + 1 |-> Matches(p, v, i, j)] = [j \in 1..Len(v) + 1 |-> Step(i, j)]
    BY ZenonT(30), <1>3
  <2> QED
    BY ZenonT(30), <1>2, <2>1
<1>5. Rec(p, v, f)
  BY ZenonT(30), <1>4 DEF Rec, Step
<1> QED
  BY ZenonT(30), <1>5 DEF f

\* rec at i depends on rec beyond i only: the equation has one solution.
LEMMA RecUnique ==
  ASSUME NEW p, NEW v, Len(p) \in Nat, Len(v) \in Nat, NEW f, NEW g, Rec(p, v, f), Rec(p, v, g)
  PROVE  f = g
<1> DEFINE Step(h, i) ==
        [j \in 1..Len(v) + 1 |->
          IF i > Len(p) THEN j > Len(v)
          ELSE IF p[i] = "*"
               THEN Skip(p, i) > Len(p) \/ \E k \in j..Len(v) + 1 : h[Skip(p, i)][k]
          ELSE j <= Len(v) /\ p[i] = v[j] /\ h[i + 1][j + 1]]
<1>1. f = [i \in 1..Len(p) + 1 |-> Step(f, i)] /\ g = [i \in 1..Len(p) + 1 |-> Step(g, i)]
  BY ZenonT(30) DEF Rec
<1>2. ASSUME NEW i \in 1..Len(p) + 1, \A m \in i + 1..Len(p) + 1 : f[m] = g[m]
      PROVE  Step(f, i) = Step(g, i)
  <2>1. CASE i > Len(p)
    BY ZenonT(30), <2>1
  <2>2. CASE i <= Len(p) /\ p[i] = "*"
    <3>1. i \in 1..Len(p) /\ ~(i > Len(p))
      BY <2>2
    <3>2. StarRun(p, i, Skip(p, i))
      BY ZenonT(30), <2>2, <3>1, SkipIsRun
    <3>3. f[Skip(p, i)] = g[Skip(p, i)]
      BY ZenonT(30), <1>2, <3>2 DEF StarRun
    <3> QED
      BY ZenonT(30), <2>2, <3>3
  <2>3. CASE i <= Len(p) /\ p[i] # "*"
    <3>1. f[i + 1] = g[i + 1]
      BY <1>2, <2>3
    <3> QED
      BY ZenonT(30), <2>3, <3>1
  <2>4. i > Len(p) \/ i <= Len(p)
    OBVIOUS
  <2> HIDE DEF Step
  <2> QED
    BY ZenonT(30), <2>1, <2>2, <2>3, <2>4
<1> HIDE DEF Step
<1>3. \A i \in 1..Len(p) + 1 : f[i] = Step(f, i) /\ g[i] = Step(g, i)
  BY ZenonT(30), <1>1
<1> DEFINE T == {n \in 0..Len(p) : f[Len(p) + 1 - n] # g[Len(p) + 1 - n]}
<1>4. T = {}
  <2> SUFFICES ASSUME T # {} PROVE FALSE
    OBVIOUS
  <2>1. T \in SUBSET Nat
    OBVIOUS
  <2>2. PICK n \in T : \A l \in T : n <= l
    BY ZenonT(30), <2>1, LeastNatural
  <2> DEFINE i == Len(p) + 1 - n
  <2>3. i \in 1..Len(p) + 1 /\ f[i] # g[i]
    BY <2>2
  <2>4. ASSUME NEW m \in i + 1..Len(p) + 1 PROVE f[m] = g[m]
    <3>1. Len(p) + 1 - m \in 0..Len(p) /\ Len(p) + 1 - m < n /\ Len(p) + 1 - (Len(p) + 1 - m) = m
      BY <2>2
    <3>2. Len(p) + 1 - m \notin T
      BY <2>2, <3>1
    <3> QED
      BY ZenonT(30), <3>1, <3>2
  <2>5. Step(f, i) = Step(g, i)
    BY ZenonT(30), <1>2, <2>3, <2>4
  <2> QED
    BY ZenonT(30), <1>3, <2>3, <2>5
<1>5. \A i \in 1..Len(p) + 1 : f[i] = g[i]
  <2> TAKE i \in 1..Len(p) + 1
  <2>1. Len(p) + 1 - i \in 0..Len(p) /\ Len(p) + 1 - (Len(p) + 1 - i) = i
    OBVIOUS
  <2> QED
    BY ZenonT(30), <1>4, <2>1
<1>6. \A i \in 1..Len(p) + 1 : Step(f, i) = Step(g, i)
  BY ZenonT(30), <1>3, <1>5
<1> QED
  BY ZenonT(30), <1>1, <1>6

\* glob_match (registry.rs) finds a match exactly when there is one, however its
\* backtracking over stars goes: for every pattern and value.
THEOREM GlobCorrect ==
  ASSUME NEW p, NEW v, Len(p) \in Nat, Len(v) \in Nat
  PROVE  GlobMatch(p, v) <=> GlobReference(p, v)
<1> DEFINE rec[i \in 1..Len(p) + 1] ==
        [j \in 1..Len(v) + 1 |->
          IF i > Len(p) THEN j > Len(v)
          ELSE IF p[i] = "*"
               THEN Skip(p, i) > Len(p) \/ \E k \in j..Len(v) + 1 : rec[Skip(p, i)][k]
          ELSE j <= Len(v) /\ p[i] = v[j] /\ rec[i + 1][j + 1]]
<1>1. GlobMatch(p, v) = rec[1][1]
  BY ZenonT(30) DEF GlobMatch
<1>2. rec = CHOOSE f : Rec(p, v, f)
  BY ZenonT(30) DEF Rec
<1> HIDE DEF rec
<1>3. Rec(p, v, rec)
  BY ZenonT(30), <1>2, TableIsRec
<1>4. rec = Table(p, v)
  BY ZenonT(30), <1>3, TableIsRec, RecUnique
<1>5. GlobMatch(p, v) = Matches(p, v, 1, 1)
  <2>1. 1 \in 1..Len(p) + 1 /\ 1 \in 1..Len(v) + 1
    OBVIOUS
  <2> QED
    BY ZenonT(30), <1>1, <1>4, <2>1 DEF Table
<1>6. ASSUME NEW cut
      PROVE  Cut(p, v, 1, 1, cut) <=>
               /\ cut \in Cuts(p, v)
               /\ cut[0] = 0 /\ cut[Len(p)] = Len(v)
               /\ \A i \in 1..Len(p) :
                    IF p[i] = "*" THEN cut[i] >= cut[i - 1]
                    ELSE cut[i] = cut[i - 1] + 1 /\ v[cut[i]] = p[i]
  BY DEF Cut, Cuts
<1>7. Matches(p, v, 1, 1) <=> GlobReference(p, v)
  BY ZenonT(30), <1>6 DEF Matches, GlobReference
<1> QED
  BY ZenonT(30), <1>5, <1>7
-----------------------------------------------------------------------------
\* An entry as a lookup finds it.
Found == [status : Status, signature : {"Missing", "Verified", "Untrusted"}]

RegistryType ==
  /\ dir \in Dirs /\ legacy \in Legacies /\ trust \in TrustRoots
  /\ todo \subseteq DOMAIN dir
  /\ entries \in [ListedX -> Found \cup {NotFound}]
  /\ stage \in {"dir", "done", "error"}

\* What was read so far: the directory's entries are there, and no others.
Seen == DOMAIN dir \ todo

ReadOK ==
  stage = "dir" =>
    /\ \A f \in Seen : dir[f].json => dir[f].parses
    /\ \A x \in ListedX :
         IF Named(x) \cap Seen # {} THEN entries[x] \in {EntryOf(f) : f \in Named(x) \cap Seen}
         ELSE entries[x] = NotFound

RegistryInv == RegistryType /\ ReadOK /\ LoadedIsReference
-----------------------------------------------------------------------------
\* What a load finds is never mistaken for nothing.
LEMMA FoundIsFound == NotFound \notin Found
<1> SUFFICES ASSUME NotFound \in Found PROVE FALSE
  OBVIOUS
<1>1. "signature" \in DOMAIN NotFound
  BY ZenonT(30) DEF Found
<1> QED
  BY ZenonT(30), <1>1 DEF NotFound

\* A signature verifies exactly if the trust root says so.
LEMMA VerifiedIsTrusted ==
  ASSUME NEW id \in TrustedIdentity, NEW s \in Sidecar, s.parses
  PROVE  VerifyAgainst(id, s) <=> Trusted(id, s)
<1>1. CASE id \in [kind : {"raw"}, key : STRING]
  <2>1. id.kind = "raw"
    BY ZenonT(30), <1>1
  <2> QED
    BY ZenonT(30), <2>1 DEF VerifyAgainst, Trusted
<1>2. CASE id \in [kind : {"keyless"}, issuer : STRING, subject_pattern : Seq(STRING)]
  <2>1. id.kind = "keyless" /\ Len(id.subject_pattern) \in Nat
    BY <1>2
  <2>2. CASE s.cert = <<>>
    BY ZenonT(30), <2>1, <2>2 DEF VerifyAgainst, Trusted
  <2>3. CASE s.cert # <<>>
    <3>1. s.cert[1] \in Cert
      BY <2>3 DEF Sidecar
    <3>2. \A uri \in s.cert[1].sans : Len(uri) \in Nat
      BY <3>1 DEF Cert
    <3>3. \A uri \in s.cert[1].sans :
            GlobMatch(id.subject_pattern, uri) <=> GlobReference(id.subject_pattern, uri)
      BY ZenonT(30), <2>1, <3>2, GlobCorrect
    <3>4. (\E uri \in s.cert[1].sans : GlobMatch(id.subject_pattern, uri)) <=>
            \E uri \in s.cert[1].sans : GlobReference(id.subject_pattern, uri)
      BY ZenonT(30), <3>3
    <3> QED
      BY ZenonT(30), <2>1, <2>3, <3>4 DEF VerifyAgainst, CertIdentityMatches, Trusted
  <2> QED
    BY ZenonT(30), <2>2, <2>3
<1> QED
  BY ZenonT(30), <1>1, <1>2 DEF TrustedIdentity

\* check_sidecar says of a file what the trust root says of its sidecar.
LEMMA SidecarChecked ==
  ASSUME RegistryType, NEW f \in DOMAIN dir
  PROVE  /\ CheckSidecar(dir[f]) = SignatureReference(f)
         /\ SignatureReference(f) \in {"Missing", "Verified", "Untrusted"}
<1>1. dir[f] \in File /\ \A s, t \in dir[f].sidecar : s = t
  BY ZenonT(30), RegistryAssumption DEF RegistryType
<1>2. trust \subseteq TrustedIdentity
  BY ZenonT(30), RegistryAssumption DEF RegistryType
<1>3. CASE dir[f].sidecar = {}
  BY ZenonT(30), <1>3 DEF CheckSidecar, SignatureReference
<1>4. CASE dir[f].sidecar # {}
  <2> DEFINE s == CHOOSE s \in dir[f].sidecar : TRUE
  <2>1. s \in dir[f].sidecar /\ dir[f].sidecar = {s}
    BY ZenonT(30), <1>1, <1>4
  <2>2. s \in Sidecar
    BY ZenonT(30), <1>1, <2>1 DEF File
  <2> HIDE DEF s
  <2>3. SignatureReference(f) =
          IF \E id \in trust : Trusted(id, s) THEN "Verified" ELSE "Untrusted"
    <3>1. (\E id \in trust, t \in dir[f].sidecar : Trusted(id, t)) <=>
            \E id \in trust : Trusted(id, s)
      BY ZenonT(30), <2>1
    <3> QED
      BY ZenonT(30), <1>4, <3>1 DEF SignatureReference
  <2>4. CheckSidecar(dir[f]) =
          IF ~s.parses THEN "Untrusted"
          ELSE IF \E id \in trust : VerifyAgainst(id, s) THEN "Verified" ELSE "Untrusted"
    BY ZenonT(30), <1>4 DEF CheckSidecar, s
  <2>5. s.parses => \A id \in trust : VerifyAgainst(id, s) <=> Trusted(id, s)
    BY ZenonT(30), <1>2, <2>2, VerifiedIsTrusted
  <2>6. ~s.parses => ~\E id \in trust : Trusted(id, s)
    BY ZenonT(30) DEF Trusted
  <2> QED
    BY ZenonT(30), <2>3, <2>4, <2>5, <2>6
<1> QED
  BY ZenonT(30), <1>3, <1>4
-----------------------------------------------------------------------------
\* The equation of the legacy file's merge, entry after entry.
Merging(f) ==
  f = [n \in 0..Len(legacy) |->
        IF n = 0 THEN entries
        ELSE [f[n - 1] EXCEPT ![legacy[n].value_x] = Merge(@, legacy[n])]]

\* The first entry of x in the legacy file.
FirstRaw(x) == CHOOSE n \in Raws(x) : \A l \in Raws(x) : n <= l

LegacyEntry(n) == [status |-> LegacyStatus(legacy[n]), signature |-> "Missing"]

\* What the merge of the first n entries comes to.
Merged(n) ==
  [x \in ListedX |-> IF entries[x] = NotFound /\ Raws(x) # {} /\ FirstRaw(x) <= n
                     THEN LegacyEntry(FirstRaw(x)) ELSE entries[x]]

\* A Value X of the legacy file has a first entry there.
LEMMA FirstIs ==
  ASSUME RegistryType, NEW x, Raws(x) # {}
  PROVE  FirstRaw(x) \in Raws(x) /\ \A l \in Raws(x) : FirstRaw(x) <= l
<1>1. Raws(x) \in SUBSET Nat
  BY RegistryAssumption DEF RegistryType, Raws
<1>2. \E n \in Raws(x) : \A l \in Raws(x) : n <= l
  BY ZenonT(30), <1>1, LeastNatural
<1> QED
  BY ZenonT(30), <1>2 DEF FirstRaw

\* An entry of the legacy file is one that a lookup finds.
LEMMA LegacyEntryFound ==
  ASSUME NEW n
  PROVE  LegacyEntry(n) \in Found /\ LegacyEntry(n) # NotFound
<1>1. LegacyStatus(legacy[n]) \in Status
  BY ZenonT(30) DEF LegacyStatus, Status
<1>2. LegacyEntry(n) \in Found
  BY ZenonT(30), <1>1 DEF LegacyEntry, Found
<1> QED
  BY ZenonT(30), <1>2, FoundIsFound

\* The merge keeps what the directory gave, and the first of what the file gives.
LEMMA MergedIsMerging ==
  ASSUME RegistryType, \A n \in 1..Len(legacy) : legacy[n].value_x \in ListedX
  PROVE  Merging([n \in 0..Len(legacy) |-> Merged(n)])
<1> DEFINE f == [n \in 0..Len(legacy) |-> Merged(n)]
<1>0. Len(legacy) \in Nat /\ entries \in [ListedX -> Found \cup {NotFound}]
  BY RegistryAssumption DEF RegistryType
<1>1. ASSUME NEW x \in ListedX, Raws(x) # {} PROVE FirstRaw(x) \in 1..Len(legacy)
  BY ZenonT(30), <1>1, FirstIs DEF Raws
<1>2. Merged(0) = entries
  <2>1. \A x \in ListedX : Merged(0)[x] = entries[x]
    BY <1>0, <1>1 DEF Merged
  <2> QED
    BY ZenonT(30), <1>0, <2>1 DEF Merged
<1>3. ASSUME NEW n \in 1..Len(legacy)
      PROVE  Merged(n) = [Merged(n - 1) EXCEPT ![legacy[n].value_x] = Merge(@, legacy[n])]
  <2> DEFINE y == legacy[n].value_x
             g == Merged(n - 1)
  <2>1. y \in ListedX /\ n \in Raws(y)
    BY ZenonT(30) DEF Raws
  <2>2. ASSUME NEW x \in ListedX, x # y PROVE Merged(n)[x] = g[x]
    <3>1. n \notin Raws(x)
      BY ZenonT(30), <2>2 DEF Raws
    <3>2. Raws(x) # {} => FirstRaw(x) # n /\ FirstRaw(x) \in Nat
      BY <1>1, <3>1, FirstIs
    <3>3. Raws(x) # {} => (FirstRaw(x) <= n <=> FirstRaw(x) <= n - 1)
      BY <1>0, <3>2
    <3> QED
      BY ZenonT(30), <3>3 DEF Merged
  <2>3. Merged(n)[y] = Merge(g[y], legacy[n])
    <3>1. FirstRaw(y) \in Raws(y) /\ FirstRaw(y) <= n /\ FirstRaw(y) \in 1..Len(legacy)
      BY ZenonT(30), <1>1, <2>1, FirstIs
    <3>2. Merged(n)[y] = IF entries[y] = NotFound THEN LegacyEntry(FirstRaw(y)) ELSE entries[y]
      BY ZenonT(30), <2>1, <3>1 DEF Merged
    <3>3. CASE FirstRaw(y) = n
      <4>1. g[y] = entries[y]
        BY <1>0, <2>1, <3>3 DEF Merged
      <4> QED
        BY ZenonT(30), <3>2, <3>3, <4>1 DEF Merge, LegacyEntry
    <3>4. CASE FirstRaw(y) # n
      <4>1. FirstRaw(y) <= n - 1
        BY <1>0, <3>1, <3>4
      <4>2. g[y] = Merged(n)[y]
        BY ZenonT(30), <2>1, <3>2, <4>1 DEF Merged
      <4>3. g[y] # NotFound
        BY ZenonT(30), <3>2, <4>2, LegacyEntryFound
      <4> QED
        BY ZenonT(30), <4>2, <4>3 DEF Merge
    <3> QED
      BY ZenonT(30), <3>3, <3>4
  <2>4. Merged(n) = [x \in ListedX |-> Merged(n)[x]] /\ g = [x \in ListedX |-> g[x]]
    BY ZenonT(30) DEF Merged
  <2> HIDE DEF y, g
  <2>5. Merged(n) = [g EXCEPT ![y] = Merge(@, legacy[n])]
    BY ZenonT(30), <2>1, <2>2, <2>3, <2>4
  <2> QED
    BY ZenonT(30), <2>5 DEF y, g
<1>4. \A n \in 0..Len(legacy) :
        f[n] = IF n = 0 THEN entries
               ELSE [f[n - 1] EXCEPT ![legacy[n].value_x] = Merge(@, legacy[n])]
  <2> TAKE n \in 0..Len(legacy)
  <2>1. CASE n = 0
    BY ZenonT(30), <1>2, <2>1
  <2>2. CASE n # 0
    <3>1. n \in 1..Len(legacy) /\ n - 1 \in 0..Len(legacy)
      BY <1>0, <2>2
    <3>2. f[n] = Merged(n) /\ f[n - 1] = Merged(n - 1)
      BY ZenonT(30), <3>1
    <3> QED
      BY ZenonT(30), <1>3, <2>2, <3>1, <3>2
  <2> QED
    BY ZenonT(30), <2>1, <2>2
<1>5. f = [n \in 0..Len(legacy) |-> f[n]]
  OBVIOUS
<1> HIDE DEF f
<1>6. Merging(f)
  BY ZenonT(30), <1>4, <1>5 DEF Merging
<1> QED
  BY ZenonT(30), <1>6 DEF f

\* Each entry of the legacy file builds on those before it: the equation has one
\* solution.
LEMMA MergingUnique ==
  ASSUME RegistryType, NEW f, NEW g, Merging(f), Merging(g)
  PROVE  f = g
<1> DEFINE Step(h, n) == IF n = 0 THEN entries
                         ELSE [h[n - 1] EXCEPT ![legacy[n].value_x] = Merge(@, legacy[n])]
<1>0. Len(legacy) \in Nat
  BY RegistryAssumption DEF RegistryType
<1>1. f = [n \in 0..Len(legacy) |-> Step(f, n)] /\ g = [n \in 0..Len(legacy) |-> Step(g, n)]
  BY ZenonT(30) DEF Merging
<1>2. ASSUME NEW n, n = 0 \/ f[n - 1] = g[n - 1] PROVE Step(f, n) = Step(g, n)
  BY ZenonT(30), <1>2
<1> HIDE DEF Step
<1>3. \A n \in 0..Len(legacy) : f[n] = Step(f, n) /\ g[n] = Step(g, n)
  BY ZenonT(30), <1>1
<1> DEFINE T == {n \in 0..Len(legacy) : f[n] # g[n]}
<1>4. T = {}
  <2> SUFFICES ASSUME T # {} PROVE FALSE
    OBVIOUS
  <2>1. T \in SUBSET Nat
    OBVIOUS
  <2>2. PICK n \in T : \A l \in T : n <= l
    BY ZenonT(30), <2>1, LeastNatural
  <2>3. n \in 0..Len(legacy) /\ f[n] # g[n]
    BY ZenonT(30), <2>2
  <2>4. n = 0 \/ f[n - 1] = g[n - 1]
    <3> SUFFICES ASSUME n # 0 PROVE f[n - 1] = g[n - 1]
      OBVIOUS
    <3>1. n - 1 \in 0..Len(legacy) /\ n - 1 < n
      BY <1>0, <2>3
    <3>2. n - 1 \notin T
      BY <1>0, <2>2, <3>1
    <3> QED
      BY ZenonT(30), <3>1, <3>2
  <2>5. Step(f, n) = Step(g, n)
    BY ZenonT(30), <1>2, <2>4
  <2> QED
    BY ZenonT(30), <1>3, <2>3, <2>5
<1>5. \A n \in 0..Len(legacy) : f[n] = g[n]
  BY ZenonT(30), <1>4
<1>6. \A n \in 0..Len(legacy) : Step(f, n) = Step(g, n)
  BY ZenonT(30), <1>3, <1>5
<1> QED
  BY ZenonT(30), <1>1, <1>6

\* The legacy file fills the gaps with its first entry of each Value X.
LEMMA LegacyFills ==
  ASSUME RegistryType, LoadLegacy, stage' = "done"
  PROVE  entries' = Merged(Len(legacy))
<1>0. Len(legacy) \in Nat /\ legacy \in Seq(Raw)
  BY RegistryAssumption DEF RegistryType
<1> DEFINE after[n \in 0..Len(legacy)] ==
             IF n = 0 THEN entries
             ELSE [after[n - 1] EXCEPT ![legacy[n].value_x] = Merge(@, legacy[n])]
<1>1. ~\E n \in 1..Len(legacy) : legacy[n].value_x = NoValueX
  BY ZenonT(30) DEF LoadLegacy
<1>2. entries' = after[Len(legacy)]
  BY ZenonT(30), <1>1 DEF LoadLegacy
<1>3. after = CHOOSE f : Merging(f)
  BY ZenonT(30) DEF Merging
<1> HIDE DEF after
<1>4. \A n \in 1..Len(legacy) : legacy[n].value_x \in ListedX
  <2> TAKE n \in 1..Len(legacy)
  <2>1. legacy[n] \in Raw
    BY <1>0
  <2>2. legacy[n].value_x \in ListedX \cup {NoValueX}
    BY ZenonT(30), <2>1 DEF Raw
  <2> QED
    BY ZenonT(30), <1>1, <2>2
<1>5. Merging([n \in 0..Len(legacy) |-> Merged(n)])
  BY ZenonT(30), <1>4, MergedIsMerging
<1>6. Merging(after)
  BY ZenonT(30), <1>3, <1>5
<1>7. after = [n \in 0..Len(legacy) |-> Merged(n)]
  BY ZenonT(30), <1>5, <1>6, MergingUnique
<1>8. Len(legacy) \in 0..Len(legacy)
  BY <1>0
<1> QED
  BY ZenonT(30), <1>2, <1>7, <1>8
-----------------------------------------------------------------------------
\* What a file adds.
LEMMA FileAdds ==
  ASSUME RegistryInv, NEW f \in todo, LoadFile(f)
  PROVE  RegistryInv'
<1>0. /\ dir \in Dirs /\ legacy \in Legacies /\ trust \in TrustRoots
      /\ todo \subseteq DOMAIN dir /\ stage = "dir"
      /\ entries \in [ListedX -> Found \cup {NotFound}]
  BY ZenonT(30) DEF RegistryInv, RegistryType, LoadFile
<1>1. f \in DOMAIN dir /\ dir[f] \in File
  BY ZenonT(30), <1>0, RegistryAssumption
<1>2. /\ dir' = dir /\ legacy' = legacy /\ trust' = trust /\ todo' = todo \ {f}
  BY ZenonT(30) DEF LoadFile, input
<1>3. \A x : Named(x)' = Named(x)
  BY ZenonT(30), <1>2 DEF Named
<1>4. \A g : EntryOf(g)' = EntryOf(g)
  BY ZenonT(30), <1>2 DEF EntryOf, SignatureReference, Trusted
<1>5. Seen' = Seen \cup {f} /\ f \notin Seen
  BY ZenonT(30), <1>0, <1>1, <1>2 DEF Seen
<1>6. CASE ~dir[f].json
  <2>1. entries' = entries /\ stage' = "dir"
    BY ZenonT(30), <1>0, <1>6 DEF LoadFile
  <2>2. \A x : f \notin Named(x)
    BY ZenonT(30), <1>6 DEF Named
  <2>3. \A x : Named(x) \cap Seen' = Named(x) \cap Seen
    BY ZenonT(30), <1>5, <2>2
  <2>4. RegistryType'
    BY ZenonT(30), <1>0, <1>2, <2>1 DEF RegistryType
  <2>5. ReadOK'
    <3>1. \A g \in Seen' : dir[g].json => dir[g].parses
      BY ZenonT(30), <1>0, <1>5, <1>6 DEF RegistryInv, ReadOK
    <3>2. \A x \in ListedX :
            IF Named(x) \cap Seen' # {}
            THEN entries[x] \in {EntryOf(g) : g \in Named(x) \cap Seen'}
            ELSE entries[x] = NotFound
      BY ZenonT(30), <1>0, <2>3 DEF RegistryInv, ReadOK
    <3> QED
      BY ZenonT(30), <1>2, <1>3, <1>4, <2>1, <3>1, <3>2 DEF ReadOK
  <2> QED
    BY ZenonT(30), <2>1, <2>4, <2>5 DEF RegistryInv, LoadedIsReference
<1>7. CASE dir[f].json /\ ~dir[f].parses
  <2>1. entries' = entries /\ stage' = "error"
    BY ZenonT(30), <1>7 DEF LoadFile
  <2> QED
    BY ZenonT(30), <1>0, <1>2, <2>1 DEF RegistryInv, RegistryType, ReadOK, LoadedIsReference
<1>8. CASE dir[f].json /\ dir[f].parses
  <2> DEFINE y == dir[f].value_x
  <2>1. /\ stage' = "dir" /\ y \in ListedX /\ f \in Named(y)
        /\ \A x \in ListedX : x # y => f \notin Named(x)
    BY ZenonT(30), <1>0, <1>1, <1>8 DEF LoadFile, Named, File
  <2>2. /\ CheckSidecar(dir[f]) = SignatureReference(f)
        /\ SignatureReference(f) \in {"Missing", "Verified", "Untrusted"}
    BY ZenonT(30), <1>1, SidecarChecked DEF RegistryInv
  <2>3. entries' = [entries EXCEPT ![y] = EntryOf(f)]
    BY ZenonT(30), <1>8, <2>2 DEF LoadFile, EntryOf
  <2>4. EntryOf(f) \in Found
    BY ZenonT(30), <1>1, <2>2 DEF EntryOf, Found, File
  <2> HIDE DEF y
  <2>5. entries' \in [ListedX -> Found \cup {NotFound}]
    BY ZenonT(30), <1>0, <2>1, <2>3, <2>4
  <2>6. RegistryType'
    BY ZenonT(30), <1>0, <1>2, <2>1, <2>5 DEF RegistryType
  <2>7. \A g \in Seen' : dir[g].json => dir[g].parses
    BY ZenonT(30), <1>0, <1>5, <1>8 DEF RegistryInv, ReadOK
  <2>8. ASSUME NEW x \in ListedX
        PROVE  IF Named(x) \cap Seen' # {}
               THEN entries'[x] \in {EntryOf(g) : g \in Named(x) \cap Seen'}
               ELSE entries'[x] = NotFound
    <3>1. CASE x = y
      <4>1. f \in Named(x) \cap Seen'
        BY ZenonT(30), <1>5, <2>1, <3>1
      <4>2. entries'[x] = EntryOf(f)
        BY ZenonT(30), <1>0, <2>3, <3>1
      <4> QED
        BY ZenonT(30), <4>1, <4>2
    <3>2. CASE x # y
      <4>1. Named(x) \cap Seen' = Named(x) \cap Seen
        BY ZenonT(30), <1>5, <2>1, <3>2
      <4>2. entries'[x] = entries[x]
        BY ZenonT(30), <1>0, <2>3, <3>2
      <4> QED
        BY ZenonT(30), <1>0, <4>1, <4>2 DEF RegistryInv, ReadOK
    <3> QED
      BY ZenonT(30), <3>1, <3>2
  <2>9. ReadOK'
    BY ZenonT(30), <1>2, <1>3, <1>4, <2>1, <2>7, <2>8 DEF ReadOK
  <2> QED
    BY ZenonT(30), <2>1, <2>6, <2>9 DEF RegistryInv, LoadedIsReference
<1> QED
  BY ZenonT(30), <1>6, <1>7, <1>8

\* LoadLegacy ends the load with what the reference says.
LEMMA LegacyStep ==
  ASSUME RegistryInv, LoadLegacy
  PROVE  RegistryInv'
<1>0. /\ dir \in Dirs /\ legacy \in Legacies /\ trust \in TrustRoots
      /\ todo = {} /\ stage = "dir"
      /\ entries \in [ListedX -> Found \cup {NotFound}]
  BY ZenonT(30) DEF RegistryInv, RegistryType, LoadLegacy
<1>1. dir' = dir /\ legacy' = legacy /\ trust' = trust /\ todo' = todo
  BY ZenonT(30) DEF LoadLegacy, input
<1>2. CASE stage' = "error"
  <2>1. entries' = entries
    BY ZenonT(30), <1>2 DEF LoadLegacy
  <2> QED
    BY ZenonT(30), <1>0, <1>1, <1>2, <2>1 DEF RegistryInv, RegistryType, ReadOK, LoadedIsReference
<1>3. CASE stage' = "done"
  <2>1. entries' = Merged(Len(legacy))
    BY ZenonT(30), <1>3, LegacyFills DEF RegistryInv
  <2>2. \A x \in ListedX :
          entries'[x] = IF entries[x] = NotFound /\ Raws(x) # {} /\ FirstRaw(x) <= Len(legacy)
                        THEN LegacyEntry(FirstRaw(x)) ELSE entries[x]
    BY ZenonT(30), <2>1 DEF Merged
  <2>3. entries' \in [ListedX -> Found \cup {NotFound}]
    <3>1. entries' = [x \in ListedX |-> entries'[x]]
      BY ZenonT(30), <2>1 DEF Merged
    <3>2. \A x \in ListedX : entries'[x] \in Found \cup {NotFound}
      BY ZenonT(30), <1>0, <2>2, LegacyEntryFound
    <3> QED
      BY ZenonT(30), <3>1, <3>2
  <2>4. RegistryType'
    BY ZenonT(30), <1>0, <1>1, <1>3, <2>3 DEF RegistryType
  <2>5. \A x : Named(x)' = Named(x) /\ Raws(x)' = Raws(x)
    BY ZenonT(30), <1>1 DEF Named, Raws
  <2>6. \A g : EntryOf(g)' = EntryOf(g)
    BY ZenonT(30), <1>1 DEF EntryOf, SignatureReference
  <2>7. ASSUME NEW x \in ListedX
        PROVE  IF Named(x) # {} THEN entries'[x] \in {EntryOf(f) : f \in Named(x)}
               ELSE IF Raws(x) # {}
               THEN \E n \in Raws(x) : /\ \A l \in Raws(x) : n <= l
                                       /\ entries'[x] = LegacyEntry(n)
               ELSE entries'[x] = NotFound
    <3>1. Named(x) \cap Seen = Named(x)
      BY ZenonT(30), <1>0 DEF Named, Seen
    <3>2. IF Named(x) # {} THEN entries[x] \in {EntryOf(f) : f \in Named(x)}
          ELSE entries[x] = NotFound
      BY ZenonT(30), <1>0, <3>1 DEF RegistryInv, ReadOK
    <3>3. CASE Named(x) # {}
      <4>1. PICK f \in Named(x) : entries[x] = EntryOf(f)
        BY ZenonT(30), <3>2, <3>3
      <4>2. entries[x] # NotFound
        BY <4>1 DEF EntryOf, NotFound
      <4>3. entries'[x] = EntryOf(f)
        BY ZenonT(30), <2>2, <4>1, <4>2
      <4> QED
        BY ZenonT(30), <3>3, <4>3
    <3>4. CASE Named(x) = {} /\ Raws(x) # {}
      <4>1. FirstRaw(x) \in Raws(x) /\ \A l \in Raws(x) : FirstRaw(x) <= l
        BY ZenonT(30), <3>4, FirstIs DEF RegistryInv
      <4>2. FirstRaw(x) <= Len(legacy)
        BY <4>1 DEF Raws
      <4>3. entries'[x] = LegacyEntry(FirstRaw(x))
        BY ZenonT(30), <2>2, <3>2, <3>4, <4>2
      <4> QED
        BY ZenonT(30), <3>4, <4>1, <4>3
    <3>5. CASE Named(x) = {} /\ Raws(x) = {}
      BY ZenonT(30), <2>2, <3>2, <3>5
    <3> QED
      BY ZenonT(30), <3>3, <3>4, <3>5
  <2>8. LoadedIsReference'
    BY ZenonT(30), <1>1, <2>5, <2>6, <2>7 DEF LoadedIsReference, LegacyEntry
  <2>9. ReadOK'
    BY ZenonT(30), <1>3 DEF ReadOK
  <2> QED
    BY ZenonT(30), <2>4, <2>8, <2>9 DEF RegistryInv
<1> QED
  BY ZenonT(30), <1>2, <1>3 DEF LoadLegacy

\* Registry::load_default keeps the invariant, whatever order the directory is
\* read in, and whatever files, legacy entries and trust root there are.
THEOREM RegistryCorrect == RegistrySpec => []RegistryInv
<1>1. RegistryInit => RegistryInv
  <2> SUFFICES ASSUME RegistryInit PROVE RegistryInv
    OBVIOUS
  <2>1. \A x \in ListedX : entries[x] = NotFound
    BY ZenonT(30) DEF RegistryInit
  <2>2. Seen = {}
    BY ZenonT(30) DEF RegistryInit, Seen
  <2>3. ReadOK
    BY ZenonT(30), <2>1, <2>2 DEF ReadOK
  <2>4. RegistryType /\ LoadedIsReference
    BY ZenonT(30) DEF RegistryInit, RegistryType, LoadedIsReference
  <2> QED
    BY ZenonT(30), <2>3, <2>4 DEF RegistryInv
<1>2. RegistryInv /\ [RegistryNext]_registryVars => RegistryInv'
  <2> SUFFICES ASSUME RegistryInv, [RegistryNext]_registryVars PROVE RegistryInv'
    OBVIOUS
  <2>1. ASSUME NEW f \in todo, LoadFile(f) PROVE RegistryInv'
    BY ZenonT(30), <2>1, FileAdds
  <2>2. CASE LoadLegacy
    BY ZenonT(30), <2>2, LegacyStep
  <2>3. CASE UNCHANGED registryVars
    <3>1. /\ dir' = dir /\ legacy' = legacy /\ trust' = trust /\ todo' = todo
          /\ entries' = entries /\ stage' = stage
      BY ZenonT(30), <2>3 DEF registryVars
    <3>2. /\ \A x : Named(x)' = Named(x) /\ Raws(x)' = Raws(x)
          /\ \A g : EntryOf(g)' = EntryOf(g)
          /\ Seen' = Seen
      BY ZenonT(30), <3>1 DEF Named, Raws, EntryOf, SignatureReference, Seen
    <3>3. RegistryType'
      BY ZenonT(30), <3>1 DEF RegistryInv, RegistryType
    <3>4. ReadOK'
      BY ZenonT(30), <3>1, <3>2 DEF RegistryInv, ReadOK
    <3>5. LoadedIsReference'
      BY ZenonT(30), <3>1, <3>2 DEF RegistryInv, LoadedIsReference
    <3> QED
      BY ZenonT(30), <3>3, <3>4, <3>5 DEF RegistryInv
  <2> QED
    BY ZenonT(30), <2>1, <2>2, <2>3 DEF RegistryNext
<1> QED
  BY <1>1, <1>2, PTL DEF RegistrySpec

\* What a lookup finds is what the files say: the directory's entry of a Value X,
\* or the first one of the legacy file, with the signature state that the trust
\* root gives it.
THEOREM LoadsAsFiled == RegistrySpec => []LoadedIsReference
<1>1. RegistryInv => LoadedIsReference
  BY ZenonT(30) DEF RegistryInv
<1> QED
  BY <1>1, RegistryCorrect, PTL
=============================================================================
