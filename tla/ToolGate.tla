------------------------------- MODULE ToolGate -------------------------------
(***************************************************************************)
(* tool-gate and its client `cvm tool send-email`: an agent fetches a      *)
(* challenge for one email, mints a token for it at the eat-pass issuer    *)
(* and posts both; the gate checks the token, spends it at the redeemer    *)
(* and sends the mail.                                                     *)
(*                                                                         *)
(* An agent is one run of the command: it stands for its email, for the    *)
(* challenge bound to that email and, with the epoch of the key that       *)
(* signed it, for its token.  Whoever has the token may post it with any   *)
(* email: email_send does not compare the two.  Issuer, redeemer and mail  *)
(* server are external: a call to them may fail before or after it took    *)
(* effect.  A post that email_send answers with 400 changes nothing and is *)
(* left out; one without a token only registers a challenge.               *)
(***************************************************************************)
EXTENDS Naturals, Sequences, Functions

CONSTANTS
  Agent,
  Allowed,     \* the emails whose recipient TOOL_GATE_ALLOWED_TO admits
  Task,        \* the gate's concurrent requests
  Other,       \* a challenge some other visitor asked for
  None,
  MaxRecent,   \* MAX_RECENT_CHALLENGES
  MaxTurns     \* bound: rotations of the issuer's key and kills of the gate, together

ASSUME ToolGateAssumption ==
  /\ Allowed \subseteq Agent
  /\ Other \notin Agent /\ None \notin Agent
  /\ MaxRecent \in Nat \ {0}
  /\ MaxTurns \in Nat

VARIABLES
  up,
  recent,     \* recent_challenges
  keys,       \* the epochs in EatPassGate.keys
  issuer,     \* the epoch of the issuer's current key
  spent,      \* the redeemer's tokens: <<epoch, agent>>
  mails,      \* mails sent with an agent's token: agent -> how many
  sent,       \* which: <<agent, email>>
  dry,        \* TOOL_GATE_DRY_RUN
  apc, epoch, \* an agent's place, and the key that signed its token
  net,        \* the agents whose token is under way, or was delivered
  pc, job,    \* a task's place, and the agent whose token it was posted
  body,       \* the email it was posted
  crashes,
  since       \* history: challenges this run of the gate registered since the
              \* agent's, or MaxRecent

gate  == <<up, recent, keys>>
world == <<issuer, spent, mails, sent, dry>>
agent == <<apc, epoch, net>>
task  == <<pc, job, body>>
vars  == <<gate, world, agent, task, crashes, since>>
-----------------------------------------------------------------------------
Answer == {"200", "403", "409", "500", "503"}

Init ==
  /\ up = TRUE /\ recent = <<>> /\ keys = {0} /\ issuer = 0
  /\ net = {} /\ spent = {} /\ mails = [a \in Agent |-> 0] /\ sent = {}
  /\ dry \in BOOLEAN
  /\ apc = [a \in Agent |-> "start"] /\ epoch = [a \in Agent |-> 0]
  /\ pc = [t \in Task |-> "idle"]
  /\ job = [t \in Task |-> None] /\ body = [t \in Task |-> None]
  /\ crashes = 0
  /\ since = [a \in Agent |-> MaxRecent]
-----------------------------------------------------------------------------
\* Variant: the list is cut to one less than its limit.
DropOneMore(s) ==
  IF Len(s) >= MaxRecent THEN SubSeq(s, Len(s) - MaxRecent + 2, Len(s)) ELSE s

\* register_challenge keeps the last MaxRecent.
DropOldest(s) ==
  IF Len(s) > MaxRecent THEN SubSeq(s, Len(s) - MaxRecent + 1, Len(s)) ELSE s

Register(c) ==
  /\ up
  /\ recent' = DropOldest(Append(recent, c))
  /\ since' = [a \in Agent |->
                 IF a = c THEN 0
                 ELSE IF since[a] < MaxRecent THEN since[a] + 1 ELSE since[a]]
  /\ UNCHANGED <<up, keys>>

\* fetch_email_challenge, and issue_email_challenge at the gate.
FetchChallenge(a) ==
  /\ apc[a] = "start"
  /\ Register(a)
  /\ apc' = [apc EXCEPT ![a] = "challenged"]
  /\ UNCHANGED <<world, epoch, net, task, crashes>>

\* challenge_response for anybody else.
OtherChallenge ==
  /\ Register(Other)
  /\ UNCHANGED <<world, agent, task, crashes>>

\* mint_email_send_token with the issuer's current key; then the post.
MintAndPost(a) ==
  /\ apc[a] = "challenged"
  /\ apc' = [apc EXCEPT ![a] = "posted"]
  /\ epoch' = [epoch EXCEPT ![a] = issuer]
  /\ net' = net \cup {a}
  /\ UNCHANGED <<gate, world, task, crashes, since>>

\* A call to the gate, the issuer or the attester fails: the command ends.
AgentFails(a) ==
  /\ apc[a] \in {"start", "challenged", "posted"}
  /\ apc' = [apc EXCEPT ![a] = "failed"]
  /\ UNCHANGED <<gate, world, epoch, net, task, crashes, since>>
-----------------------------------------------------------------------------
Goto(t, l) == pc' = [pc EXCEPT ![t] = l]

\* A token and an email arrive at email_send; a post may be delivered more than
\* once, and a token posted with several emails.
Receive(t) ==
  /\ up /\ pc[t] = "idle"
  /\ \E a \in net, m \in Agent :
       job' = [job EXCEPT ![t] = a] /\ body' = [body EXCEPT ![t] = m]
  /\ Goto(t, "lookup")
  /\ UNCHANGED <<gate, world, agent, crashes, since>>

\* verify_and_spend: challenge_for_digest.
Lookup(t) ==
  /\ pc[t] = "lookup"
  /\ Goto(t, IF job[t] \in Range(recent) THEN "key" ELSE "403")
  /\ UNCHANGED <<gate, world, agent, job, body, crashes, since>>

\* key_for: from the cache, or from the transparency log and the issuer, which
\* keeps its old keys; then Verifier::verify.
KeyFor(t) ==
  /\ pc[t] = "key"
  /\ \/ keys' = keys \cup {epoch[job[t]]} /\ Goto(t, "spend")
     \/ epoch[job[t]] \notin keys /\ UNCHANGED keys /\ Goto(t, "403")
  /\ UNCHANGED <<up, recent, world, agent, job, body, crashes, since>>

Token(t) == <<epoch[job[t]], job[t]>>

\* Variant: a redeemer that does not answer counts as success.
OnRedeemerDownGoOn == "mail"

OnRedeemerDown == "503"

\* spend_centrally: the redeemer takes a token once.  When its answer is not
\* heard, or is an error, the gate does not know whether it did.
Spend(t) ==
  /\ pc[t] = "spend"
  /\ \/ Token(t) \notin spent /\ spent' = spent \cup {Token(t)} /\ Goto(t, "mail")
     \/ Token(t) \in spent /\ UNCHANGED spent /\ Goto(t, "409")
     \/ spent' \in {spent, spent \cup {Token(t)}} /\ Goto(t, OnRedeemerDown)
  /\ UNCHANGED <<gate, issuer, mails, sent, dry, agent, job, body, crashes, since>>

OnMailError == "500"

\* Mailer::send: the recipient is checked; a dry run ends there, with success, or
\* the mail server is asked, whose answer, too, can get lost.
Send(t) ==
  /\ pc[t] = "mail"
  /\ \/ /\ body[t] \in Allowed /\ ~dry
        /\ mails' = [mails EXCEPT ![job[t]] = @ + 1]
        /\ sent' = sent \cup {<<job[t], body[t]>>}
        /\ Goto(t, "200") \/ Goto(t, OnMailError)
     \/ body[t] \in Allowed /\ dry /\ UNCHANGED <<mails, sent>> /\ Goto(t, "200")
     \/ (body[t] \notin Allowed \/ ~dry) /\ UNCHANGED <<mails, sent>> /\ Goto(t, OnMailError)
  /\ UNCHANGED <<gate, issuer, spent, dry, agent, job, body, crashes, since>>

\* The answer reaches the agent, if the post was its own and it is still waiting,
\* or nobody.
Respond(t) ==
  /\ pc[t] \in Answer
  /\ \/ /\ apc[job[t]] = "posted" /\ body[t] = job[t]
        /\ apc' = [apc EXCEPT ![job[t]] = pc[t]]
     \/ UNCHANGED apc
  /\ Goto(t, "idle")
  /\ job' = [job EXCEPT ![t] = None] /\ body' = [body EXCEPT ![t] = None]
  /\ UNCHANGED <<gate, world, epoch, net, crashes, since>>
-----------------------------------------------------------------------------
\* The issuer moves to its next key.
Rotate ==
  /\ issuer + crashes < MaxTurns
  /\ issuer' = issuer + 1
  /\ UNCHANGED <<gate, spent, mails, sent, dry, agent, task, crashes, since>>

\* The gate's challenges, keys and requests are in memory.
Crash ==
  /\ up /\ issuer + crashes < MaxTurns
  /\ up' = FALSE /\ crashes' = crashes + 1
  /\ recent' = <<>> /\ keys' = {} /\ since' = [a \in Agent |-> MaxRecent]
  /\ pc' = [t \in Task |-> "idle"]
  /\ job' = [t \in Task |-> None] /\ body' = [t \in Task |-> None]
  /\ UNCHANGED <<world, agent>>

\* bootstrap fetches the issuer's current key.
Restart ==
  /\ ~up
  /\ up' = TRUE /\ keys' = {issuer}
  /\ UNCHANGED <<recent, world, agent, task, crashes, since>>

Next ==
  \/ \E a \in Agent : FetchChallenge(a) \/ MintAndPost(a) \/ AgentFails(a)
  \/ \E t \in Task : Receive(t) \/ Lookup(t) \/ KeyFor(t) \/ Spend(t) \/ Send(t) \/ Respond(t)
  \/ OtherChallenge \/ Rotate \/ Crash \/ Restart

Spec == Init /\ [][Next]_vars
-----------------------------------------------------------------------------
\* "one email per capability" (bin/tool-gate.rs:340): a token never sends two
\* mails, over posts delivered twice and served at the same time, tokens posted
\* with several emails, lost answers of redeemer and mail server, rotated keys,
\* kills and restarts; no mail goes to a recipient that is not allowed.  An agent
\* told 200 had its own email, and no other, sent with its token, unless the gate
\* runs dry and sends none.  An agent that was not told 200 knows less: its token
\* may have sent an email that its challenge was not for.
OneMailPerToken ==
  /\ \A s \in sent : s[2] \in Allowed
  /\ \A a \in Agent :
       /\ mails[a] <= (IF dry THEN 0 ELSE 1)
       /\ apc[a] = "200" => a \in Allowed /\ (dry \/ (mails[a] = 1 /\ <<a, a>> \in sent))

\* A challenge is forgotten only when the gate restarts or after MaxRecent
\* later ones: until then every lookup of it succeeds, and the list stays short.
RecentIsKnown ==
  /\ Len(recent) <= MaxRecent
  /\ \A a \in Agent : since[a] < MaxRecent => a \in Range(recent)
=============================================================================
