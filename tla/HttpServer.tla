----------------------------- MODULE HttpServer -----------------------------
(***************************************************************************)
(* The server the four services share (http_service.rs): serve_hyper       *)
(* takes a permit, accepts a connection and gives both to a task, which    *)
(* serves one request after the other until the connection ends; the       *)
(* permit goes back with the task.  Bodies are read up to a limit and for  *)
(* a limited time.  Nothing limits how long a connection may be idle.      *)
(*                                                                         *)
(* Time is left out: the read timeout may strike whenever a body is being  *)
(* read.                                                                   *)
(***************************************************************************)
EXTENDS Naturals, Sequences, FiniteSets

CONSTANTS
  Conn,             \* client connections
  MaxConnections,   \* permits of the semaphore
  Limit,            \* body_limit_bytes
  MaxBody,          \* bound: the longest body a client sends
  Tls               \* whether a TLS acceptor is configured

ASSUME HttpServerAssumption ==
  /\ IsFiniteSet(Conn)
  /\ MaxConnections \in Nat \ {0} /\ Limit \in Nat /\ MaxBody \in Nat
  /\ Tls \in BOOLEAN

VARIABLES
  acceptor,  \* "acquire", "accept", or "stopped" once accept failed
  permits,   \* free permits of the semaphore
  backlog,   \* connections the system holds for accept
  st,        \* where each connection is
  body,      \* bytes of the request's body read so far
  declared,  \* its content-length; MaxBody + 1 if it has none
  answer     \* the status of the last response

vars == <<acceptor, permits, backlog, st, body, declared, answer>>

\* The states in which a task holds a connection, and so a permit.
Held == {"tls", "head", "body", "handler"}
Live == {c \in Conn : st[c] \in Held}
Chunked == MaxBody + 1

Init ==
  /\ acceptor = "acquire" /\ permits = MaxConnections /\ backlog = <<>>
  /\ st = [c \in Conn |-> "away"]
  /\ body = [c \in Conn |-> 0]
  /\ declared = [c \in Conn |-> 0]
  /\ answer = [c \in Conn |-> "none"]

Goto(c, s) == st' = [st EXCEPT ![c] = s]

\* A client connects.
Connect(c) ==
  /\ st[c] = "away" /\ acceptor # "stopped"
  /\ Goto(c, "backlog") /\ backlog' = Append(backlog, c)
  /\ answer' = [answer EXCEPT ![c] = "none"]
  /\ UNCHANGED <<acceptor, permits, body, declared>>

\* serve_hyper: the permit first ...
Acquire ==
  /\ acceptor = "acquire" /\ permits > 0
  /\ permits' = permits - 1 /\ acceptor' = "accept"
  /\ UNCHANGED <<backlog, st, body, declared, answer>>

\* ... then a connection, and a task for both.
Accept ==
  /\ acceptor = "accept" /\ backlog # <<>>
  /\ Goto(Head(backlog), IF Tls THEN "tls" ELSE "head")
  /\ backlog' = Tail(backlog) /\ acceptor' = "acquire"
  /\ UNCHANGED <<permits, body, declared, answer>>

\* accept fails: `?` ends serve_hyper, and with it the process.
AcceptFails ==
  /\ acceptor = "accept"
  /\ acceptor' = "stopped" /\ backlog' = <<>>
  /\ permits' = MaxConnections
  /\ st' = [c \in Conn |-> "away"]
  /\ UNCHANGED <<body, declared, answer>>

\* Variant: the permit is released only by a connection that was served.
ReleaseUnlessTls(c) == IF st[c] = "tls" THEN permits ELSE permits + 1

\* The task ends and drops its permit.
Release(c) == permits + 1

\* The connection ends: the client closes it, or the TLS handshake fails.
Close(c) ==
  /\ st[c] \in Held
  /\ permits' = Release(c)
  /\ Goto(c, "away")
  /\ UNCHANGED <<acceptor, backlog, body, declared, answer>>

Handshake(c) ==
  /\ st[c] = "tls" /\ Goto(c, "head")
  /\ UNCHANGED <<acceptor, permits, backlog, body, declared, answer>>

\* The response is written and the connection waits for the next request.
Answer(c, s) ==
  /\ answer' = [answer EXCEPT ![c] = s]
  /\ Goto(c, "head")

\* hyper has a request's head; request_from_hyper refuses a declared length
\* beyond the limit.
Request(c) ==
  /\ st[c] = "head"
  /\ \E n \in 0..Chunked :
       /\ declared' = [declared EXCEPT ![c] = n]
       /\ IF n # Chunked /\ n > Limit
          THEN Answer(c, "400")
          ELSE Goto(c, "body") /\ answer' = [answer EXCEPT ![c] = "none"]
  /\ body' = [body EXCEPT ![c] = 0]
  /\ UNCHANGED <<acceptor, permits, backlog>>

OverLimit(n) == n > Limit

\* Limited: one more byte of the body, up to the declared length if there is one.
Read(c) ==
  /\ st[c] = "body" /\ body[c] < declared[c] /\ body[c] < MaxBody
  /\ IF OverLimit(body[c] + 1)
     THEN Answer(c, "400") /\ UNCHANGED body
     ELSE body' = [body EXCEPT ![c] = @ + 1] /\ UNCHANGED <<st, answer>>
  /\ UNCHANGED <<acceptor, permits, backlog, declared>>

\* Variant: a body that ends early is taken as it is.
CallEarly(c) ==
  /\ st[c] = "body"
  /\ Goto(c, "handler")
  /\ UNCHANGED <<acceptor, permits, backlog, body, declared, answer>>

\* The body is complete and the handler is called.
Call(c) ==
  /\ st[c] = "body" /\ declared[c] \in {body[c], Chunked}
  /\ Goto(c, "handler")
  /\ UNCHANGED <<acceptor, permits, backlog, body, declared, answer>>

\* tokio::time::timeout around the whole read
Timeout(c) ==
  /\ st[c] = "body"
  /\ Answer(c, "400")
  /\ UNCHANGED <<acceptor, permits, backlog, body, declared>>

\* hyper_request: the handler's response, 204 if it wrote none, or 500.
Return(c) ==
  /\ st[c] = "handler"
  /\ \E s \in {"handler", "204", "500"} : Answer(c, s)
  /\ UNCHANGED <<acceptor, permits, backlog, body, declared>>

Next ==
  \/ Acquire \/ Accept \/ AcceptFails
  \/ \E c \in Conn :
       \/ Connect(c) \/ Close(c) \/ Handshake(c) \/ Request(c)
       \/ Read(c) \/ Call(c) \/ Timeout(c) \/ Return(c)

Spec == Init /\ [][Next]_vars

\* The runtime runs the accept loop.  Clients and handlers are promised nothing.
FairSpec == Spec /\ WF_vars(Acquire) /\ WF_vars(Accept)
-----------------------------------------------------------------------------
\* No permit is lost or made, whichever way a connection ends: those free, the
\* one the accept loop holds and one for each live connection are all of them.
PermitsConserved ==
  permits + Cardinality(Live) + (IF acceptor = "accept" THEN 1 ELSE 0) = MaxConnections

\* A handler sees no body beyond the limit, declared or chunked, and one with a
\* declared length only in full.
BodyWithinLimit ==
  \A c \in Conn : st[c] = "handler" =>
    body[c] <= Limit /\ (declared[c] # Chunked => body[c] = declared[c])

\* If every client that is connected leaves in the end, and accept does not fail,
\* every waiting client is accepted.
WaitingIsAccepted ==
  ([](acceptor # "stopped") /\ \A c \in Conn : []<>(c \notin Live)) =>
    \A c \in Conn : (st[c] = "backlog") ~> (st[c] # "backlog")
=============================================================================
