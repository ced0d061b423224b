---------------------------- MODULE CaptureDaemon ----------------------------
(***************************************************************************)
(* llm-capture-daemon: signs the capture reports of a participant's        *)
(* machine, appends each to an event log, posts it to the event service    *)
(* and, when that fails, appends it to a queue file that a replay task     *)
(* posts again every few seconds.                                          *)
(*                                                                         *)
(* Handlers and the replay task share the queue file with no lock: each    *)
(* file-system call is a step of its own.                                  *)
(***************************************************************************)
EXTENDS LineLog, Functions

CONSTANTS
  Handler,
  Rejected,     \* bodies the event service answers with an error for ever
  Attempts,     \* posts a handler makes before it queues (3 in the code)
  None,
  MaxCrashes,   \* bound: process kills
  MaxFaults     \* bound: file-system calls that return an error

ASSUME CaptureDaemonAssumption ==
  /\ Rejected \subseteq Body
  /\ Attempts \in Nat \ {0}
  /\ None \notin Body
  /\ MaxCrashes \in Nat /\ MaxFaults \in Nat

VARIABLES
  up,         \* the process is running
  evlog,      \* the event log
  pending,    \* the queue file; <<>> when there is none
  exists,     \* there is a queue file
  pc,         \* where a handler is
  body,       \* the event it works on
  tries,      \* posts it has made
  live,       \* its open queue file is the one at the path
  rpc,        \* where the replay task is
  snap,       \* the queue file as the task read it
  pos,        \* the task's place in snap
  remaining,  \* the lines the task will keep
  sink,       \* the events the event service has acknowledged to someone
  answered,   \* what clients were told: body -> "delivered", "queued"
  used,       \* the bodies made so far
  crashes, faults,
  overlap,    \* history: appends to the queue overlapped a replay or another
  cut         \* history: a rewrite or a line of the queue was left half done

queue       == <<pending, exists>>
handlerVars == <<pc, body, tries, live, used>>
replayVars  == <<rpc, snap, pos, remaining>>
bounds      == <<crashes, faults>>
vars == <<up, evlog, queue, handlerVars, replayVars, sink, answered, bounds,
          overlap, cut>>
-----------------------------------------------------------------------------
HStep == {"idle", "logtext", "lognl", "send", "open", "text", "nl",
          "delivered", "queued", "fail"}
RStep == {"sleep", "send", "rewrite"}

Appending == {"text", "nl"}  \* the queue file is open

Init ==
  /\ up = TRUE /\ exists = FALSE /\ overlap = FALSE /\ cut = FALSE
  /\ evlog = <<>> /\ pending = <<>> /\ snap = <<>> /\ remaining = <<>>
  /\ pc = [h \in Handler |-> "idle"] /\ body = [h \in Handler |-> None]
  /\ tries = [h \in Handler |-> 0] /\ live = [h \in Handler |-> FALSE]
  /\ rpc = "sleep" /\ pos = 0
  /\ sink = {} /\ used = {}
  /\ answered = [b \in Body |-> "no"]
  /\ crashes = 0 /\ faults = 0
-----------------------------------------------------------------------------
(***************************************************************************)
(* capture_report                                                          *)
(***************************************************************************)
Goto(h, l) == pc' = [pc EXCEPT ![h] = l]

\* Variant: the event is posted before it is logged.
FirstStepSend == "send"

FirstStep == "logtext"

\* The report is decoded, given its defaults and signed: a new event.
Capture(h) ==
  /\ up /\ pc[h] = "idle"
  /\ \E b \in Body \ used :
       /\ body' = [body EXCEPT ![h] = b]
       /\ used' = used \cup {b}
  /\ tries' = [tries EXCEPT ![h] = 0]
  /\ Goto(h, FirstStep)
  /\ UNCHANGED <<up, evlog, queue, live, replayVars, sink, answered, bounds,
                 overlap, cut>>

\* append_event on the event log: the two writes of a line.
LogText(h) ==
  /\ pc[h] = "logtext"
  /\ evlog' = Append(evlog, body[h])
  /\ Goto(h, "lognl")
  /\ UNCHANGED <<up, queue, body, tries, live, used, replayVars, sink, answered,
                 bounds, overlap, cut>>

LogNewline(h) ==
  /\ pc[h] = "lognl"
  /\ evlog' = Append(evlog, NL)
  /\ Goto(h, "send")
  /\ UNCHANGED <<up, queue, body, tries, live, used, replayVars, sink, answered,
                 bounds, overlap, cut>>

\* The event service acknowledges a post: new or not, it has the event.
Accepts(b) == b \notin Rejected /\ sink' = sink \cup {b}

\* One post of send_event_with_backoff, answered with success.
SendOk(h) ==
  /\ pc[h] = "send"
  /\ Accepts(body[h])
  /\ Goto(h, "delivered")
  /\ UNCHANGED <<up, evlog, queue, body, tries, live, used, replayVars, answered,
                 bounds, overlap, cut>>

GivenUp == "open"

Again(n) == n < Attempts

\* The post fails: an error status, no connection, or an answer that is lost
\* after the event service took the event.  The handler sleeps and tries again,
\* and gives up after Attempts posts.
SendFails(h) ==
  /\ pc[h] = "send"
  /\ Accepts(body[h]) \/ UNCHANGED sink
  /\ tries' = [tries EXCEPT ![h] = @ + 1]
  /\ Goto(h, IF Again(tries'[h]) THEN "send" ELSE GivenUp)
  /\ UNCHANGED <<up, evlog, queue, body, live, used, replayVars, answered, bounds,
                 overlap, cut>>

\* Another task is using the queue file.
Busy(h) == rpc # "sleep" \/ \E g \in Handler \ {h} : pc[g] \in Appending

\* append_event on the queue file: open or create it, then the two writes of
\* a line.  A file that was removed meanwhile takes the writes with it.
QueueOpen(h) ==
  /\ pc[h] = "open"
  /\ exists' = TRUE
  /\ live' = [live EXCEPT ![h] = TRUE]
  /\ overlap' = (overlap \/ Busy(h))
  /\ Goto(h, "text")
  /\ UNCHANGED <<up, evlog, pending, body, tries, used, replayVars, sink, answered,
                 bounds, cut>>

ToQueue(h, x) ==
  /\ pending' = IF live[h] THEN Append(pending, x) ELSE pending
  /\ UNCHANGED exists

QueueText(h) ==
  /\ pc[h] = "text"
  /\ ToQueue(h, body[h])
  /\ Goto(h, "nl")
  /\ UNCHANGED <<up, evlog, body, tries, live, used, replayVars, sink, answered,
                 bounds, overlap, cut>>

QueueNewline(h) ==
  /\ pc[h] = "nl"
  /\ ToQueue(h, NL)
  /\ Goto(h, "queued")
  /\ live' = [live EXCEPT ![h] = FALSE]
  /\ UNCHANGED <<up, evlog, body, tries, used, replayVars, sink, answered, bounds,
                 overlap, cut>>

\* A file-system call of either append fails: the handler returns the error.
AppendFails(h) ==
  /\ faults < MaxFaults
  /\ pc[h] \in {"logtext", "lognl", "open", "text", "nl"}
  /\ faults' = faults + 1
  /\ Goto(h, "fail")
  /\ live' = [live EXCEPT ![h] = FALSE]
  /\ cut' = (cut \/ pc[h] = "nl")
  /\ UNCHANGED <<up, evlog, queue, body, tries, used, replayVars, sink,
                 answered, crashes, overlap>>

Leave(h) ==
  /\ Goto(h, "idle")
  /\ body' = [body EXCEPT ![h] = None]
  /\ UNCHANGED <<up, evlog, queue, tries, live, used, replayVars, bounds, overlap,
                 cut>>

\* 202 with `queued`, or 500.
Respond(h) ==
  /\ pc[h] \in {"delivered", "queued", "fail"}
  /\ answered' = IF pc[h] = "fail" THEN answered
                 ELSE [answered EXCEPT ![body[h]] = pc[h]]
  /\ UNCHANGED sink
  /\ Leave(h)

\* The client goes away: hyper drops the handler at the await of a post,
\* which the event service may still take, or drops its answer.
Disconnect(h) ==
  /\ pc[h] \in {"send", "delivered", "queued", "fail"}
  /\ (pc[h] = "send" /\ Accepts(body[h])) \/ UNCHANGED sink
  /\ UNCHANGED answered
  /\ Leave(h)
-----------------------------------------------------------------------------
(***************************************************************************)
(* replay_loop                                                             *)
(***************************************************************************)

\* The first line at or after position k, or the end of the file.
LineFrom(f, k) ==
  CHOOSE i \in LineStarts(f) \cup {Len(f) + 1} :
    /\ i >= k
    /\ \A j \in LineStarts(f) : j >= k => i <= j

\* replay_pending_events finds no queue.
ReplayIdle == up /\ rpc = "sleep" /\ ~exists /\ UNCHANGED vars

ReplayRead ==
  /\ up /\ rpc = "sleep" /\ exists
  /\ snap' = pending /\ pos' = LineFrom(pending, 1) /\ remaining' = <<>>
  /\ rpc' = "send"
  /\ overlap' = (overlap \/ \E h \in Handler : pc[h] \in Appending)
  /\ UNCHANGED <<up, evlog, queue, handlerVars, sink, answered, bounds, cut>>

Line == LineAt(snap, pos)

Advance ==
  /\ pos' = LineFrom(snap, pos + Len(Line))
  /\ rpc' = "send"

Sending == rpc = "send" /\ pos <= Len(snap)

\* A line that cannot be decoded ends the replay; the queue stays as it is.
ReplayStuck ==
  /\ Sending /\ Undecodable(Line)
  /\ rpc' = "sleep"
  /\ UNCHANGED <<up, evlog, queue, handlerVars, snap, pos, remaining, sink, answered,
                 bounds, overlap, cut>>

\* A decodable line is posted; the event service reads its first body.
ReplayDelivers(b) ==
  /\ Sending /\ ~Undecodable(Line) /\ Line[1] = b
  /\ Accepts(b)
  /\ Advance
  /\ UNCHANGED <<up, evlog, queue, handlerVars, snap, remaining, answered, bounds,
                 overlap, cut>>

\* Variant: a line whose post failed is not kept.
KeepNothing == remaining

Keep == remaining \o Append(Line, NL)

\* Variant: the first failure ends the replay.
ReplayFailsStops ==
  /\ Sending /\ ~Undecodable(Line)
  /\ Accepts(Line[1]) \/ UNCHANGED sink
  /\ rpc' = "sleep"
  /\ UNCHANGED <<up, evlog, queue, handlerVars, snap, pos, remaining, answered, bounds,
                 overlap, cut>>

ReplayFails ==
  /\ Sending /\ ~Undecodable(Line)
  /\ Accepts(Line[1]) \/ UNCHANGED sink
  /\ remaining' = Keep
  /\ Advance
  /\ UNCHANGED <<up, evlog, queue, handlerVars, snap, answered, bounds, overlap, cut>>

Sent == rpc = "send" /\ pos > Len(snap)

\* Nothing remains: the file is removed, under the feet of whoever has it open.
ReplayRemove ==
  /\ Sent /\ remaining = <<>>
  /\ pending' = <<>> /\ exists' = FALSE
  /\ live' = [h \in Handler |-> FALSE]
  /\ rpc' = "sleep"
  /\ UNCHANGED <<up, evlog, pc, body, tries, used, snap, pos, remaining, sink, answered,
                 bounds, overlap, cut>>

\* Otherwise std::fs::write: open with truncation ...
ReplayTruncate ==
  /\ Sent /\ remaining # <<>>
  /\ pending' = <<>>
  /\ rpc' = "rewrite"
  /\ UNCHANGED <<up, evlog, exists, handlerVars, snap, pos, remaining, sink, answered,
                 bounds, overlap, cut>>

\* ... and write from the start of the file, over what was appended since.
ReplayRewrite ==
  /\ rpc = "rewrite"
  /\ pending' = remaining \o SubSeq(pending, Len(remaining) + 1, Len(pending))
  /\ rpc' = "sleep"
  /\ UNCHANGED <<up, evlog, exists, handlerVars, snap, pos, remaining, sink, answered,
                 bounds, overlap, cut>>

\* The removal (whose error is dropped), the open or the write fails.
ReplayFault ==
  /\ faults < MaxFaults
  /\ Sent \/ rpc = "rewrite"
  /\ faults' = faults + 1
  /\ cut' = (cut \/ rpc = "rewrite")
  /\ rpc' = "sleep"
  /\ UNCHANGED <<up, evlog, queue, handlerVars, snap, pos, remaining, sink, answered,
                 crashes, overlap>>
-----------------------------------------------------------------------------
Crash ==
  /\ up /\ crashes < MaxCrashes
  /\ up' = FALSE
  /\ crashes' = crashes + 1
  /\ pc' = [h \in Handler |-> "idle"] /\ body' = [h \in Handler |-> None]
  /\ live' = [h \in Handler |-> FALSE]
  /\ rpc' = "sleep"
  /\ cut' = (cut \/ rpc = "rewrite" \/ \E h \in Handler : pc[h] = "nl")
  /\ UNCHANGED <<evlog, queue, tries, used, snap, pos, remaining, sink, answered, faults,
                 overlap>>

Restart ==
  /\ ~up
  /\ up' = TRUE
  /\ UNCHANGED <<evlog, queue, handlerVars, replayVars, sink, answered, bounds, overlap,
                 cut>>

Handle(h) ==
  \/ Capture(h) \/ LogText(h) \/ LogNewline(h) \/ SendOk(h) \/ SendFails(h)
  \/ QueueOpen(h) \/ QueueText(h) \/ QueueNewline(h) \/ AppendFails(h)
  \/ Respond(h) \/ Disconnect(h)

Replay ==
  \/ ReplayIdle \/ ReplayRead \/ ReplayStuck \/ ReplayFails
  \/ (\E b \in Body : ReplayDelivers(b))
  \/ ReplayRemove \/ ReplayTruncate \/ ReplayRewrite \/ ReplayFault

Next == (\E h \in Handler : Handle(h)) \/ Replay \/ Crash \/ Restart

Spec == Init /\ [][Next]_vars

\* The replay task runs whenever it is not waiting for the event service.
FairSpec == Spec /\ WF_vars(~Sending /\ Replay)
-----------------------------------------------------------------------------
\* "The companion appends every accepted capture to an event log before
\* delivery" (LLM_ATTESTED.md:300): what was posted, queued or answered is in
\* the event log, whatever was retried, lost or killed since.
LoggedBeforeDelivery ==
  sink \cup Written(pending) \cup Written(remaining)
    \cup {b \in Body : answered[b] # "no"} \subseteq Written(evlog)

InQueue(b) ==
  b \in Written(pending) \/ (rpc = "rewrite" /\ b \in Written(remaining))

\* What a client was told stays true.  `queued: false`: the event service has the
\* event, although posts fail and their answers get lost.  `queued: true`: as long as
\* no append to the queue file overlapped a replay or another append, and no rewrite
\* was cut short, the event is in the queue or with the event service; failed and
\* lost posts, rejected events, kills and restarts lose nothing.
AnsweredIsKept ==
  \A b \in Body :
    /\ answered[b] = "delivered" => b \in sink
    /\ answered[b] = "queued" /\ ~overlap /\ ~cut => InQueue(b) \/ b \in sink

\* "If the event service is unavailable, it returns `queued: true`, writes the
\* event to a pending queue, and retries with backoff" (LLM_ATTESTED.md:301):
\* an event so answered is in the queue until the event service has it.
QueuedIsKept ==
  \A b \in Body : answered[b] = "queued" => InQueue(b) \/ b \in sink

\* If a killed daemon is started again, every post of the replay ends (the HTTP
\* client has no timeout), and the event service acknowledges what it is offered
\* again and again and does not reject, then every queued event is delivered,
\* even when others of the queue are rejected for ever; unless appends overlapped
\* or the queue file was cut short.
QueuedIsDelivered ==
  ([]<>up /\ []<>~Sending /\ \A b \in Body : SF_vars(ReplayDelivers(b))) =>
    \A b \in Body \ Rejected :
      (answered[b] = "queued") ~> (b \in sink \/ overlap \/ cut)
=============================================================================
