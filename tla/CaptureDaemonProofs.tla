------------------------- MODULE CaptureDaemonProofs -------------------------
(***************************************************************************)
(* Proofs about the capture daemon: events are logged before they go       *)
(* anywhere, and what a client was told stays true, for any number of      *)
(* handlers, events, attempts, kills and failed file-system calls.         *)
(***************************************************************************)
EXTENDS CaptureDaemon, LineLogProofs

TypeOK ==
  /\ evlog \in File /\ pending \in File /\ snap \in File /\ remaining \in File
  /\ pc \in [Handler -> HStep]
  /\ body \in [Handler -> Body \cup {None}]
  /\ tries \in [Handler -> Nat]
  /\ live \in [Handler -> BOOLEAN]
  /\ rpc \in RStep
  /\ sink \in SUBSET Body
  /\ answered \in [Body -> {"no", "delivered", "queued"}]
  /\ \A h \in Handler : pc[h] # "idle" => body[h] \in Body
  /\ rpc = "send" => pos \in LineStarts(snap) \cup {Len(snap) + 1}

\* What the replay task read was logged, and so is the event of every handler
\* that has come past the two writes of the event log.
LoggedOK ==
  /\ \A h \in Handler : pc[h] \notin {"idle", "logtext", "fail"} => body[h] \in Written(evlog)
  /\ Written(snap) \subseteq Written(evlog)
  /\ LoggedBeforeDelivery

DeliveredOK ==
  /\ \A h \in Handler : pc[h] = "delivered" => body[h] \in sink
  /\ \A b \in Body : answered[b] = "delivered" => b \in sink

\* One at a time uses the queue file, and the file is at the path.
AppendersOK ==
  /\ \A h \in Handler : pc[h] \in Appending => rpc = "sleep" /\ live[h]
  /\ \A g, h \in Handler : pc[g] \in Appending /\ pc[h] \in Appending => g = h

\* The queue file is whole lines, but for the one that is being written.
QueueOK ==
  /\ ~Glued(pending)
  /\ Unterminated(pending) => \E h \in Handler : pc[h] = "nl"
  /\ \A h \in Handler : pc[h] = "nl" => body[h] \in Written(pending)

\* The replay task has delivered or kept every line it has passed.
ReplayOK ==
  /\ rpc \in {"send", "rewrite"} => ~Glued(remaining) /\ ~Unterminated(remaining)
  /\ rpc = "send" =>
       /\ snap = pending
       /\ \A i \in LineStarts(snap) : i < pos => snap[i] \in sink \cup Written(remaining)
  /\ rpc = "rewrite" => pending = <<>>

Kept(b) == InQueue(b) \/ b \in sink

KeptOK ==
  /\ \A h \in Handler : pc[h] = "queued" => Kept(body[h])
  /\ \A b \in Body : answered[b] = "queued" => Kept(b)

Undisturbed == ~overlap /\ ~cut

KeptInv == Undisturbed => AppendersOK /\ QueueOK /\ ReplayOK /\ KeptOK

IInv == TypeOK /\ LoggedOK /\ DeliveredOK /\ KeptInv
-----------------------------------------------------------------------------
(***************************************************************************)
(* The lines the replay task walks over.                                   *)
(***************************************************************************)
LEMMA LineFromProperties ==
  ASSUME NEW f \in File, NEW k \in 1..(Len(f) + 1)
  PROVE  /\ LineFrom(f, k) \in LineStarts(f) \cup {Len(f) + 1}
         /\ LineFrom(f, k) >= k
         /\ \A j \in LineStarts(f) : j >= k => LineFrom(f, k) <= j
<1> DEFINE T == {i \in LineStarts(f) \cup {Len(f) + 1} : i >= k}
<1>1. Len(f) \in Nat /\ LineStarts(f) \subseteq 1..Len(f)
  BY DEF File, LineStarts
<1>2. T \in SUBSET Nat /\ T # {}
  BY <1>1
<1>3. \E i \in T : \A y \in T : i <= y
  BY ZenonT(30), <1>2, LeastNatural
<1>4. \E i \in LineStarts(f) \cup {Len(f) + 1} :
        i >= k /\ \A j \in LineStarts(f) : j >= k => i <= j
  BY <1>3
<1> QED
  BY <1>4 DEF LineFrom

\* The line being posted starts with the event the event service will read;
\* what is kept of it is bodies of the queue.
LEMMA LineProperties ==
  ASSUME TypeOK, Sending
  PROVE  /\ pos \in LineStarts(snap)
         /\ Line \in Seq(Body) /\ Len(Line) \in Nat \ {0} /\ Line[1] = snap[pos]
         /\ snap[pos] \in Written(snap) /\ snap[pos] \in Body
         /\ Written(Line) \subseteq Written(snap)
         /\ pos + Len(Line) \in 1..(Len(snap) + 1)
         /\ ~Glued(snap) => Len(Line) = 1
<1>1. snap \in File /\ Len(snap) \in Nat /\ pos \in LineStarts(snap)
  BY DEF TypeOK, Sending, File
<1>2. pos \in 1..Len(snap) /\ snap[pos] # NL /\ snap[pos] \in Body
  BY <1>1 DEF LineStarts, File
<1>3. snap[pos] \in Written(snap)
  BY <1>2 DEF Written
<1>4. /\ Line \in Seq(Body) /\ Len(Line) \in Nat \ {0} /\ Line[1] = snap[pos]
      /\ pos + Len(Line) <= Len(snap) + 1
  BY <1>1, LineAtProperties DEF Line
<1>5. \A j \in 1..Len(Line) : Line[j] \in Written(snap)
  BY <1>1, LineAtProperties DEF Line
<1>6. ~Glued(snap) => Len(Line) = 1
  BY <1>1, LineAtProperties DEF Line
<1>7. Written(Line) \subseteq Written(snap)
  BY <1>5 DEF Written
<1>8. pos + Len(Line) \in 1..(Len(snap) + 1)
  BY <1>1, <1>2, <1>4
<1> QED
  BY <1>1, <1>2, <1>3, <1>4, <1>6, <1>7, <1>8

\* What is kept for the rewrite: the lines kept so far, and this one.
LEMMA KeepProperties ==
  ASSUME TypeOK, Sending
  PROVE  /\ Keep \in File
         /\ Written(Keep) = Written(remaining) \cup Written(Line)
<1>1. Line \in Seq(Body) /\ remaining \in File
  BY LineProperties DEF TypeOK
<1>2. Line \in File /\ Append(Line, NL) \in File
  BY <1>1 DEF File
<1>3. Written(Append(Line, NL)) = Written(Line) \cup ({NL} \ {NL})
  BY <1>2, WrittenAppend
<1> QED
  BY <1>1, <1>2, <1>3, WrittenConcat DEF Keep

\* The replay task goes on to the next line, and skips none.
LEMMA AdvanceProperties ==
  ASSUME TypeOK, Sending, Advance
  PROVE  /\ rpc' = "send" /\ pos' \in LineStarts(snap) \cup {Len(snap) + 1}
         /\ ~Glued(snap) => \A j \in LineStarts(snap) : j < pos' => j <= pos
<1>1. snap \in File /\ Len(snap) \in Nat /\ pos + Len(Line) \in 1..(Len(snap) + 1)
  BY LineProperties DEF TypeOK, File
<1>2. /\ rpc' = "send" /\ pos' \in LineStarts(snap) \cup {Len(snap) + 1}
      /\ \A j \in LineStarts(snap) : j >= pos + Len(Line) => pos' <= j
  BY <1>1, LineFromProperties DEF Advance
<1>3. ASSUME ~Glued(snap), NEW j \in LineStarts(snap), j < pos' PROVE j <= pos
  <2>1. Len(Line) = 1 /\ pos \in Nat /\ j \in Nat
    BY <1>3, LineProperties DEF LineStarts
  <2>2. pos' \in Nat
    BY <1>1, <1>2 DEF LineStarts
  <2> QED
    BY <1>2, <1>3, <2>1, <2>2
<1> QED
  BY <1>2, <1>3
-----------------------------------------------------------------------------
(***************************************************************************)
(* Types, and the event log.                                               *)
(***************************************************************************)

\* A step of one handler that goes on with its event.
LEMMA GoOn ==
  ASSUME TypeOK, NEW h \in Handler, pc[h] # "idle", NEW l \in HStep, Goto(h, l), UNCHANGED body
  PROVE  pc' \in [Handler -> HStep] /\ \A g \in Handler : pc'[g] # "idle" => body'[g] \in Body
BY DEF TypeOK, Goto

\* Types: the steps of a handler.
LEMMA TypeHandle ==
  ASSUME TypeOK, NEW h \in Handler, Handle(h)
  PROVE  TypeOK'
<1> USE CaptureDaemonAssumption, LineLogAssumption DEF queue, replayVars, bounds
<1>1. CASE Capture(h)
  <2>1. /\ pc' \in [Handler -> HStep] /\ body' \in [Handler -> Body \cup {None}]
        /\ \A g \in Handler : pc'[g] # "idle" => body'[g] \in Body
        /\ tries' \in [Handler -> Nat]
    BY <1>1 DEF Capture, Goto, FirstStep, HStep, TypeOK
  <2> QED
    BY <1>1, <2>1 DEF Capture, TypeOK
<1>2. CASE LogText(h) \/ LogNewline(h)
  <2>1. /\ pc' \in [Handler -> HStep]
        /\ \A g \in Handler : pc'[g] # "idle" => body'[g] \in Body
    BY <1>2, GoOn DEF LogText, LogNewline, HStep
  <2>2. evlog' \in File
    <3>1. evlog \in File /\ body[h] \in Body
      BY <1>2 DEF LogText, LogNewline, TypeOK
    <3> QED
      BY <1>2, <3>1 DEF LogText, LogNewline, File
  <2> QED
    BY <1>2, <2>1, <2>2 DEF LogText, LogNewline, TypeOK
<1>3. CASE SendOk(h)
  <2>1. /\ pc' \in [Handler -> HStep]
        /\ \A g \in Handler : pc'[g] # "idle" => body'[g] \in Body
    BY <1>3, GoOn DEF SendOk, HStep
  <2>2. sink' \in SUBSET Body
    BY <1>3 DEF SendOk, Accepts, TypeOK
  <2> QED
    BY <1>3, <2>1, <2>2 DEF SendOk, TypeOK
<1>4. CASE SendFails(h)
  <2>1. /\ pc' \in [Handler -> HStep]
        /\ \A g \in Handler : pc'[g] # "idle" => body'[g] \in Body
    BY <1>4, GoOn DEF SendFails, GivenUp, HStep
  <2>2. sink' \in SUBSET Body
    BY <1>4 DEF SendFails, Accepts, TypeOK
  <2>3. tries' \in [Handler -> Nat]
    BY <1>4 DEF SendFails, TypeOK
  <2> QED
    BY <1>4, <2>1, <2>2, <2>3 DEF SendFails, TypeOK
<1>5. CASE QueueOpen(h)
  <2>1. /\ pc' \in [Handler -> HStep]
        /\ \A g \in Handler : pc'[g] # "idle" => body'[g] \in Body
    BY <1>5, GoOn DEF QueueOpen, HStep
  <2> QED
    BY ZenonT(30), <1>5, <2>1 DEF QueueOpen, TypeOK
<1>6. CASE QueueText(h) \/ QueueNewline(h)
  <2>1. /\ pc' \in [Handler -> HStep]
        /\ \A g \in Handler : pc'[g] # "idle" => body'[g] \in Body
    BY <1>6, GoOn DEF QueueText, QueueNewline, HStep
  <2>2. pending' \in File
    <3>1. pending \in File /\ body[h] \in Body
      BY <1>6 DEF QueueText, QueueNewline, TypeOK
    <3> QED
      BY <1>6, <3>1 DEF QueueText, QueueNewline, ToQueue, File
  <2>3. live' \in [Handler -> BOOLEAN]
    BY ZenonT(30), <1>6 DEF QueueText, QueueNewline, TypeOK
  <2> QED
    BY <1>6, <2>1, <2>2, <2>3 DEF QueueText, QueueNewline, TypeOK
<1>7. CASE AppendFails(h)
  <2>1. /\ pc' \in [Handler -> HStep]
        /\ \A g \in Handler : pc'[g] # "idle" => body'[g] \in Body
    BY <1>7, GoOn DEF AppendFails, HStep
  <2> QED
    BY ZenonT(30), <1>7, <2>1 DEF AppendFails, TypeOK
<1>8. CASE Respond(h) \/ Disconnect(h)
  <2>1. /\ pc' \in [Handler -> HStep] /\ body' \in [Handler -> Body \cup {None}]
        /\ \A g \in Handler : pc'[g] # "idle" => body'[g] \in Body
    BY ZenonT(30), <1>8 DEF Respond, Disconnect, Leave, Goto, HStep, TypeOK
  <2>2. sink' \in SUBSET Body
    BY <1>8 DEF Respond, Disconnect, Accepts, TypeOK
  <2>3. answered' \in [Body -> {"no", "delivered", "queued"}]
    BY <1>8 DEF Respond, Disconnect, TypeOK
  <2> QED
    BY <1>8, <2>1, <2>2, <2>3 DEF Respond, Disconnect, Leave, TypeOK
<1> QED
  BY <1>1, <1>2, <1>3, <1>4, <1>5, <1>6, <1>7, <1>8 DEF Handle

\* Types: the steps of the replay task.
LEMMA TypeReplay ==
  ASSUME TypeOK, Replay
  PROVE  TypeOK'
<1> USE CaptureDaemonAssumption, LineLogAssumption DEF queue, handlerVars, bounds
<1>1. CASE ReplayIdle
  BY <1>1 DEF ReplayIdle, vars, replayVars, TypeOK
<1>2. CASE ReplayRead
  <2>1. snap' = pending /\ remaining' = <<>> /\ pos' = LineFrom(pending, 1) /\ pending \in File
    BY <1>2 DEF ReplayRead, TypeOK
  <2>2. 1 \in 1..(Len(pending) + 1)
    BY <2>1 DEF File
  <2>3. pos' \in LineStarts(snap') \cup {Len(snap') + 1}
    BY <2>1, <2>2, LineFromProperties
  <2>4. remaining' \in File /\ rpc' \in RStep
    BY <1>2, <2>1 DEF ReplayRead, File, RStep
  <2> QED
    BY <1>2, <2>1, <2>3, <2>4 DEF ReplayRead, TypeOK
<1>3. CASE \E b \in Body : ReplayDelivers(b)
  <2>1. rpc' = "send" /\ pos' \in LineStarts(snap) \cup {Len(snap) + 1}
    BY <1>3, AdvanceProperties DEF ReplayDelivers
  <2>2. sink' \in SUBSET Body
    BY <1>3 DEF ReplayDelivers, Accepts, TypeOK
  <2> QED
    BY <1>3, <2>1, <2>2 DEF ReplayDelivers, TypeOK, RStep
<1>4. CASE ReplayFails
  <2>1. rpc' = "send" /\ pos' \in LineStarts(snap) \cup {Len(snap) + 1}
    BY <1>4, AdvanceProperties DEF ReplayFails
  <2>2. sink' \in SUBSET Body
    BY <1>4, LineProperties DEF ReplayFails, Accepts, TypeOK
  <2>3. remaining' \in File
    BY <1>4, KeepProperties DEF ReplayFails
  <2> QED
    BY <1>4, <2>1, <2>2, <2>3 DEF ReplayFails, TypeOK, RStep
<1>5. CASE ReplayStuck \/ ReplayFault
  BY <1>5 DEF ReplayStuck, ReplayFault, TypeOK, RStep
<1>6. CASE ReplayRemove
  BY <1>6 DEF ReplayRemove, TypeOK, RStep, File
<1>7. CASE ReplayTruncate
  BY <1>7 DEF ReplayTruncate, TypeOK, RStep, File
<1>8. CASE ReplayRewrite
  <2>1. remaining \in File /\ pending \in File /\ Len(remaining) \in Nat
    BY DEF TypeOK, File
  <2>2. SubSeq(pending, Len(remaining) + 1, Len(pending)) \in File
    BY <2>1 DEF File
  <2>3. pending' \in File
    BY <1>8, <2>1, <2>2, WrittenConcat DEF ReplayRewrite
  <2> QED
    BY <1>8, <2>3 DEF ReplayRewrite, TypeOK, RStep
<1> QED
  BY <1>1, <1>2, <1>3, <1>4, <1>5, <1>6, <1>7, <1>8 DEF Replay

\* Types, over every step.
LEMMA TypeStep ==
  ASSUME TypeOK, [Next]_vars
  PROVE  TypeOK'
<1> USE CaptureDaemonAssumption DEF queue, handlerVars, replayVars, bounds
<1>1. CASE Crash
  <2>1. /\ pc' \in [Handler -> HStep] /\ body' \in [Handler -> Body \cup {None}]
        /\ \A g \in Handler : pc'[g] = "idle"
    BY <1>1 DEF Crash, HStep
  <2>2. live' \in [Handler -> BOOLEAN]
    BY <1>1 DEF Crash
  <2> QED
    BY <1>1, <2>1, <2>2 DEF Crash, TypeOK, RStep
<1>2. CASE Restart \/ UNCHANGED vars
  BY <1>2 DEF Restart, vars, TypeOK
<1> QED
  BY <1>1, <1>2, TypeHandle, TypeReplay DEF Next

\* What a step of a handler does to the event log and to what is posted: a body is
\* posted or answered for only after its handler has logged it.
LEMMA LoggedHandle ==
  ASSUME TypeOK, LoggedOK, NEW h \in Handler, Handle(h)
  PROVE  LoggedOK'
<1> USE LineLogAssumption DEF queue, replayVars
<1>1. /\ evlog \in File /\ pending \in File /\ pc \in [Handler -> HStep]
      /\ body \in [Handler -> Body \cup {None}]
  BY DEF TypeOK
<1>2. /\ Written(evlog) \subseteq Written(evlog')
      /\ LogText(h) => body[h] \in Written(evlog')
  <2>1. CASE LogText(h)
    <3>1. body[h] \in Body /\ evlog' = Append(evlog, body[h])
      BY <2>1 DEF LogText, TypeOK
    <3> QED
      BY <1>1, <3>1, WrittenAppend
  <2>2. CASE LogNewline(h)
    <3>1. evlog' = Append(evlog, NL)
      BY <2>2 DEF LogNewline
    <3> QED
      BY <1>1, <2>2, <3>1, WrittenAppend DEF LogNewline, LogText
  <2>3. CASE ~LogText(h) /\ ~LogNewline(h)
    <3>1. UNCHANGED evlog
      BY <2>3 DEF Handle, Capture, SendOk, SendFails, QueueOpen, QueueText, QueueNewline,
                  AppendFails, Respond, Disconnect, Leave
    <3> QED
      BY ZenonT(30), <2>3, <3>1
  <2> QED
    BY <2>1, <2>2, <2>3
<1>3. \A g \in Handler : pc'[g] \notin {"idle", "logtext", "fail"} => body'[g] \in Written(evlog')
  <2>1. \A g \in Handler \ {h} : pc'[g] = pc[g] /\ body'[g] = body[g]
    BY <1>1 DEF Handle, Capture, LogText, LogNewline, SendOk, SendFails, QueueOpen, QueueText,
                QueueNewline, AppendFails, Respond, Disconnect, Leave, Goto
  <2>2. CASE LogText(h)
    BY <1>1, <1>2, <2>1, <2>2 DEF LogText, LoggedOK
  <2>3. CASE ~LogText(h)
    <3>1. \/ pc'[h] \in {"idle", "logtext", "fail"}
          \/ pc[h] \notin {"idle", "logtext", "fail"} /\ body'[h] = body[h]
      BY <1>1, <2>3 DEF Handle, Capture, FirstStep, LogNewline, SendOk, SendFails, QueueOpen,
                  QueueText, QueueNewline, AppendFails, Respond, Disconnect, Leave, Goto
    <3> QED
      BY ZenonT(30), <1>2, <2>1, <3>1 DEF LoggedOK
  <2> QED
    BY ZenonT(30), <2>2, <2>3
<1>4. Written(pending') \subseteq Written(evlog)
  <2>0. Written(pending) \subseteq Written(evlog)
    BY DEF LoggedOK, LoggedBeforeDelivery
  <2>1. CASE QueueText(h)
    <3>1. body[h] \in Written(evlog) /\ body[h] \in Body
      BY ZenonT(30), <2>1 DEF QueueText, LoggedOK, TypeOK
    <3>2. pending' = pending \/ pending' = Append(pending, body[h])
      BY <2>1 DEF QueueText, ToQueue
    <3>3. Written(Append(pending, body[h])) = Written(pending) \cup ({body[h]} \ {NL})
      BY <1>1, <3>1, WrittenAppend
    <3>4. CASE pending' = pending
      BY <2>0, <3>4
    <3>5. CASE pending' = Append(pending, body[h])
      <4>1. Written(pending') \subseteq Written(pending) \cup {body[h]}
        BY <3>3, <3>5
      <4> QED
        BY <2>0, <3>1, <4>1
    <3> QED
      BY <3>2, <3>4, <3>5
  <2>2. CASE QueueNewline(h)
    <3>1. pending' = pending \/ pending' = Append(pending, NL)
      BY <2>2 DEF QueueNewline, ToQueue
    <3> QED
      BY ZenonT(30), <1>1, <2>0, <3>1, WrittenAppend
  <2>3. CASE ~QueueText(h) /\ ~QueueNewline(h)
    <3>1. UNCHANGED pending
      BY <2>3 DEF Handle, Capture, LogText, LogNewline, SendOk, SendFails, QueueOpen,
                  AppendFails, Respond, Disconnect, Leave
    <3> QED
      BY <3>1 DEF LoggedOK, LoggedBeforeDelivery
  <2> QED
    BY <2>1, <2>2, <2>3
<1>5. UNCHANGED <<snap, remaining>>
  BY DEF Handle, Capture, LogText, LogNewline, SendOk, SendFails, QueueOpen, QueueText,
         QueueNewline, AppendFails, Respond, Disconnect, Leave
<1>6. sink' \subseteq Written(evlog)
  <2>1. sink' = sink \/ (sink' = sink \cup {body[h]} /\ pc[h] = "send")
    BY DEF Handle, Capture, LogText, LogNewline, SendOk, SendFails, QueueOpen, QueueText,
           QueueNewline, AppendFails, Respond, Disconnect, Leave, Accepts
  <2> QED
    BY SMTT(30), Z3T(30), <2>1 DEF LoggedOK, LoggedBeforeDelivery
<1>7. \A b \in Body : answered'[b] # "no" => b \in Written(evlog)
  <2>1. \/ answered' = answered
        \/ answered' = [answered EXCEPT ![body[h]] = pc[h]] /\ pc[h] \in {"delivered", "queued"}
    BY DEF Handle, Capture, LogText, LogNewline, SendOk, SendFails, QueueOpen, QueueText,
           QueueNewline, AppendFails, Respond, Disconnect
  <2> QED
    BY ZenonT(30), <2>1 DEF TypeOK, LoggedOK, LoggedBeforeDelivery
<1> QED
  BY <1>2, <1>3, <1>4, <1>5, <1>6, <1>7 DEF LoggedOK, LoggedBeforeDelivery

\* The replay task posts, keeps and writes back only what it read from the queue.
LEMMA LoggedReplay ==
  ASSUME TypeOK, LoggedOK, Replay
  PROVE  LoggedOK'
<1> USE LineLogAssumption DEF queue, handlerVars
<1>1. /\ Written(pending) \subseteq Written(evlog) /\ Written(remaining) \subseteq Written(evlog)
      /\ Written(snap) \subseteq Written(evlog) /\ sink \subseteq Written(evlog)
  BY DEF LoggedOK, LoggedBeforeDelivery
<1>2. Written(<<>>) = {}
  BY SMTT(30), Z3T(30) DEF Written
<1>3. UNCHANGED <<evlog, pc, body, answered>>
  BY DEF Replay, ReplayIdle, vars, ReplayRead, ReplayStuck, ReplayFails, ReplayDelivers,
         ReplayRemove, ReplayTruncate, ReplayRewrite, ReplayFault
<1>4. /\ Written(pending') \subseteq Written(evlog) /\ Written(remaining') \subseteq Written(evlog)
      /\ Written(snap') \subseteq Written(evlog) /\ sink' \subseteq Written(evlog)
  <2>1. CASE ReplayRead
    BY <1>1, <1>2, <2>1 DEF ReplayRead
  <2>2. CASE \E b \in Body : ReplayDelivers(b)
    <3>1. /\ UNCHANGED <<pending, remaining, snap>> /\ sink' = sink \cup {Line[1]} /\ Sending
      BY <2>2 DEF ReplayDelivers, Accepts
    <3>2. Line[1] \in Written(snap)
      BY <3>1, LineProperties
    <3> QED
      BY <1>1, <3>1, <3>2
  <2>3. CASE ReplayFails
    <3>1. /\ UNCHANGED <<pending, snap>> /\ sink' \subseteq sink \cup {Line[1]} /\ Sending
          /\ remaining' = Keep
      BY <2>3 DEF ReplayFails, Accepts
    <3>2. Line[1] \in Written(snap) /\ Written(Line) \subseteq Written(snap)
      BY <3>1, LineProperties
    <3>3. Written(remaining') = Written(remaining) \cup Written(Line)
      BY <3>1, KeepProperties
    <3> QED
      BY <1>1, <3>1, <3>2, <3>3
  <2>4. CASE ReplayRemove \/ ReplayTruncate
    BY <1>1, <1>2, <2>4 DEF ReplayRemove, ReplayTruncate
  <2>5. CASE ReplayRewrite
    <3> DEFINE rest == SubSeq(pending, Len(remaining) + 1, Len(pending))
    <3>1. /\ pending \in File /\ Len(pending) \in Nat /\ remaining \in File
          /\ Len(remaining) \in Nat
      BY DEF TypeOK, File
    <3>2. rest \in File /\ \A i \in 1..Len(rest) : \E j \in 1..Len(pending) : rest[i] = pending[j]
      <4>1. rest \in File /\ Len(rest) \in Nat
        BY <3>1 DEF File
      <4>2. ASSUME NEW i \in 1..Len(rest)
            PROVE  Len(remaining) + i \in 1..Len(pending) /\ rest[i] = pending[Len(remaining) + i]
        BY <3>1 DEF File
      <4> QED
        BY <4>1, <4>2
    <3>3. pending' = remaining \o rest /\ UNCHANGED <<remaining, snap, sink>>
      BY <2>5 DEF ReplayRewrite
    <3> HIDE DEF rest
    <3>4. Written(rest) \subseteq Written(pending)
      BY <3>2 DEF Written
    <3>5. Written(pending') = Written(remaining) \cup Written(rest)
      BY <3>1, <3>2, <3>3, WrittenConcat
    <3> QED
      BY <1>1, <3>3, <3>4, <3>5
  <2>6. CASE ReplayIdle \/ ReplayStuck \/ ReplayFault
    BY <1>1, <2>6 DEF ReplayIdle, vars, replayVars, ReplayStuck, ReplayFault
  <2> QED
    BY <2>1, <2>2, <2>3, <2>4, <2>5, <2>6 DEF Replay
<1> QED
  BY <1>3, <1>4 DEF LoggedOK, LoggedBeforeDelivery

\* LoggedOK, over every step.
LEMMA LoggedStep ==
  ASSUME TypeOK, LoggedOK, [Next]_vars
  PROVE  LoggedOK'
<1> USE DEF queue, handlerVars, replayVars, bounds
<1>1. CASE Crash
  BY <1>1 DEF Crash, LoggedOK, LoggedBeforeDelivery
<1>2. CASE Restart \/ UNCHANGED vars
  BY <1>2 DEF Restart, vars, LoggedOK, LoggedBeforeDelivery
<1> QED
  BY <1>1, <1>2, LoggedHandle, LoggedReplay DEF Next

\* The event service forgets nothing.
LEMMA SinkGrows ==
  ASSUME [Next]_vars
  PROVE  sink \subseteq sink'
<1> USE DEF Accepts
<1>1. ASSUME NEW h \in Handler, Handle(h) PROVE sink \subseteq sink'
  BY ZenonT(30), <1>1 DEF Handle, Capture, LogText, LogNewline, SendOk, SendFails, QueueOpen, QueueText,
              QueueNewline, AppendFails, Respond, Disconnect
<1>2. CASE Replay
  BY <1>2 DEF Replay, ReplayIdle, vars, ReplayRead, ReplayStuck, ReplayFails, ReplayDelivers,
              ReplayRemove, ReplayTruncate, ReplayRewrite, ReplayFault
<1>3. CASE Crash \/ Restart \/ UNCHANGED vars
  BY <1>3 DEF Crash, Restart, vars
<1> QED
  BY ZenonT(30), <1>1, <1>2, <1>3 DEF Next

\* What was answered as delivered was taken, over every step.
LEMMA DeliveredStep ==
  ASSUME TypeOK, DeliveredOK, [Next]_vars
  PROVE  DeliveredOK'
<1> USE DEF queue, handlerVars, replayVars, bounds
<1>1. /\ pc \in [Handler -> HStep] /\ body \in [Handler -> Body \cup {None}]
      /\ answered \in [Body -> {"no", "delivered", "queued"}]
  BY DEF TypeOK
<1>2. ASSUME NEW h \in Handler, Handle(h) PROVE DeliveredOK'
  <2>1. \A g \in Handler \ {h} : pc'[g] = pc[g] /\ body'[g] = body[g]
    BY ZenonT(30), <1>1, <1>2 DEF Handle, Capture, LogText, LogNewline, SendOk, SendFails, QueueOpen,
                QueueText, QueueNewline, AppendFails, Respond, Disconnect, Leave, Goto
  <2>2. pc'[h] = "delivered" => body'[h] \in sink'
    BY ZenonT(30), <1>1, <1>2 DEF Handle, Capture, FirstStep, LogText, LogNewline, SendOk, Accepts, SendFails,
                GivenUp, QueueOpen, QueueText, QueueNewline, AppendFails, Respond, Disconnect,
                Leave, Goto
  <2>3. \/ answered' = answered
        \/ answered' = [answered EXCEPT ![body[h]] = pc[h]] /\ pc[h] \in {"delivered", "queued"}
    BY <1>2 DEF Handle, Capture, LogText, LogNewline, SendOk, SendFails, QueueOpen, QueueText,
           QueueNewline, AppendFails, Respond, Disconnect
  <2>4. \A b \in Body : answered'[b] = "delivered" => b \in sink
    BY <1>1, <2>3 DEF DeliveredOK
  <2> QED
    BY ZenonT(30), <2>1, <2>2, <2>4, SinkGrows DEF DeliveredOK
<1>3. CASE Replay
  <2>1. UNCHANGED <<pc, body, answered>>
    BY ZenonT(30), <1>3 DEF Replay, ReplayIdle, vars, ReplayRead, ReplayStuck, ReplayFails, ReplayDelivers,
           ReplayRemove, ReplayTruncate, ReplayRewrite, ReplayFault
  <2> QED
    BY ZenonT(30), <2>1, SinkGrows DEF DeliveredOK
<1>4. CASE Crash
  BY ZenonT(30), <1>4 DEF Crash, DeliveredOK
<1>5. CASE Restart \/ UNCHANGED vars
  BY <1>5 DEF Restart, vars, DeliveredOK
<1> QED
  BY <1>2, <1>3, <1>4, <1>5 DEF Next

-----------------------------------------------------------------------------
(***************************************************************************)
(* The queue file.                                                         *)
(***************************************************************************)

\* Where no line is glued, every body begins a line.
LEMMA BodiesBeginLines ==
  ASSUME NEW f \in File, ~Glued(f), NEW b \in Written(f)
  PROVE  \E i \in LineStarts(f) : f[i] = b
<1>1. PICK i \in 1..Len(f) : f[i] # NL /\ f[i] = b
  BY DEF Written
<1>2. i \in LineStarts(f)
  BY <1>1 DEF Glued, LineStarts, File
<1> QED
  BY <1>1, <1>2

\* A kept line is whole, and follows whole lines.
LEMMA KeepWhole ==
  ASSUME TypeOK, Sending, ~Glued(snap), ~Glued(remaining), ~Unterminated(remaining)
  PROVE  ~Glued(Keep) /\ ~Unterminated(Keep)
<1>1. remaining \in File /\ Line \in Seq(Body) /\ Len(Line) = 1
  BY LineProperties DEF TypeOK
<1>2. PICK n \in Nat : n = Len(remaining)
  BY <1>1 DEF File
<1>3. Append(Line, NL) \in File /\ Len(Append(Line, NL)) = 2 /\ Append(Line, NL)[2] = NL
  <2>1. Line \in File
    BY <1>1 DEF File
  <2>2. /\ Append(Line, NL) \in File /\ Len(Append(Line, NL)) = Len(Line) + 1
        /\ Append(Line, NL)[Len(Line) + 1] = NL
    BY <2>1 DEF File
  <2>3. Len(Line) + 1 = 2
    BY <1>1
  <2> QED
    BY <2>2, <2>3
<1>4. /\ Len(Keep) = n + 2 /\ Keep[n + 2] = NL
      /\ \A i \in 1..n : Keep[i] = remaining[i]
  BY <1>1, <1>2, <1>3 DEF Keep, File
<1>5. ASSUME NEW i \in 1..(n + 2), i > 1, Keep[i] # NL, Keep[i - 1] # NL
      PROVE  FALSE
  <2>1. CASE i \in 1..n
    <3>1. i - 1 \in 1..n
      BY <1>5, <2>1
    <3> QED
      BY <1>2, <1>4, <1>5, <2>1, <3>1 DEF Glued
  <2>2. CASE i = n + 1
    <3>1. n \in 1..n /\ i - 1 = n
      BY <1>5, <2>2
    <3> QED
      BY <1>2, <1>4, <1>5, <3>1 DEF Unterminated
  <2>3. CASE i = n + 2
    BY <1>4, <1>5, <2>3
  <2> QED
    BY <2>1, <2>2, <2>3
<1>6. ~Glued(Keep)
  BY <1>4, <1>5 DEF Glued
<1>7. ~Unterminated(Keep)
  BY <1>4 DEF Unterminated
<1> QED
  BY <1>6, <1>7

Whole == AppendersOK /\ QueueOK /\ ReplayOK /\ KeptOK

\* Nothing kept is lost, and nothing new is promised.
LEMMA KeptStays ==
  ASSUME TypeOK, KeptOK, UNCHANGED <<pc, body, answered>>, \A b \in Body : Kept(b) => Kept(b)'
  PROVE  KeptOK'
BY DEF TypeOK, KeptOK

\* A step of a handler that does not write to the queue.
LEMMA WholeQuiet ==
  ASSUME TypeOK, Whole, Undisturbed, Undisturbed', NEW h \in Handler, sink \subseteq sink',
         \/ Capture(h) \/ LogText(h) \/ LogNewline(h) \/ SendOk(h) \/ SendFails(h)
         \/ AppendFails(h) \/ Respond(h) \/ Disconnect(h)
  PROVE  Whole'
<1> USE DEF queue, replayVars
<1>1. /\ pc \in [Handler -> HStep] /\ body \in [Handler -> Body \cup {None}]
      /\ live \in [Handler -> BOOLEAN] /\ answered \in [Body -> {"no", "delivered", "queued"}]
      /\ \A g \in Handler : pc[g] # "idle" => body[g] \in Body
  BY ZenonT(30) DEF TypeOK
<1>2. UNCHANGED <<pending, snap, remaining, rpc, pos>>
  BY ZenonT(30) DEF Capture, LogText, LogNewline, SendOk, SendFails, AppendFails, Respond, Disconnect, Leave
<1>3. \A g \in Handler \ {h} : pc'[g] = pc[g] /\ body'[g] = body[g] /\ live'[g] = live[g]
  BY ZenonT(30), <1>1 DEF Capture, LogText, LogNewline, SendOk, SendFails, AppendFails, Respond, Disconnect,
              Leave, Goto
<1>4. pc[h] # "nl" /\ pc'[h] \notin {"text", "nl", "queued"}
  BY ZenonT(30), <1>1 DEF Capture, FirstStep, LogText, LogNewline, SendOk, SendFails, GivenUp, AppendFails,
              Respond, Disconnect, Leave, Goto, Undisturbed
<1>5. \A b \in Body : Kept(b) => Kept(b)'
  BY <1>2 DEF Kept, InQueue
<1>6. \/ answered' = answered
      \/ answered' = [answered EXCEPT ![body[h]] = pc[h]] /\ pc[h] \in {"delivered", "queued"}
  BY DEF Capture, LogText, LogNewline, SendOk, SendFails, AppendFails, Respond, Disconnect
<1>7. AppendersOK'
  BY <1>2, <1>3, <1>4 DEF Whole, AppendersOK, Appending
<1>8. QueueOK'
  BY <1>2, <1>3, <1>4 DEF Whole, QueueOK
<1>9. ReplayOK'
  BY ZenonT(30), <1>2 DEF Whole, ReplayOK
<1>10. KeptOK'
  <2>1. \A g \in Handler : pc'[g] = "queued" => Kept(body[g])'
    BY <1>1, <1>3, <1>4, <1>5 DEF Whole, KeptOK
  <2>2. \A b \in Body : answered'[b] = "queued" => Kept(b)
    BY <1>1, <1>6 DEF Whole, KeptOK
  <2> QED
    BY ZenonT(30), <1>5, <2>1, <2>2 DEF KeptOK
<1> QED
  BY <1>7, <1>8, <1>9, <1>10 DEF Whole

\* A handler opens the queue file when nobody else uses it.
LEMMA WholeOpen ==
  ASSUME TypeOK, Whole, Undisturbed, Undisturbed', NEW h \in Handler, QueueOpen(h)
  PROVE  Whole'
<1>1. /\ pc \in [Handler -> HStep] /\ live \in [Handler -> BOOLEAN]
  BY DEF TypeOK
<1>2. /\ UNCHANGED <<pending, body, snap, remaining, rpc, pos, sink, answered>>
      /\ pc[h] = "open" /\ pc'[h] = "text" /\ live'[h] = TRUE
      /\ \A g \in Handler \ {h} : pc'[g] = pc[g] /\ live'[g] = live[g]
  BY <1>1 DEF QueueOpen, Goto, replayVars
<1>3. rpc = "sleep" /\ \A g \in Handler \ {h} : pc[g] \notin Appending
  BY ZenonT(30) DEF QueueOpen, Busy, Undisturbed
<1>4. AppendersOK'
  BY <1>2, <1>3 DEF Whole, AppendersOK
<1>5. QueueOK'
  BY <1>2 DEF Whole, QueueOK
<1>6. ReplayOK'
  BY ZenonT(30), <1>2, <1>3 DEF Whole, ReplayOK
<1>7. \A b \in Body : Kept(b) => Kept(b)'
  BY ZenonT(30), <1>2 DEF Kept, InQueue
<1>8. KeptOK'
  BY ZenonT(30), <1>2, <1>7 DEF TypeOK, Whole, KeptOK
<1> QED
  BY <1>4, <1>5, <1>6, <1>8 DEF Whole

\* It writes its line: the text ...
LEMMA WholeText ==
  ASSUME TypeOK, Whole, NEW h \in Handler, QueueText(h)
  PROVE  Whole'
<1>1. /\ pc \in [Handler -> HStep] /\ pending \in File
      /\ \A g \in Handler : pc[g] # "idle" => body[g] \in Body
  BY DEF TypeOK
<1>2. /\ UNCHANGED <<body, live, snap, remaining, rpc, pos, sink, answered>>
      /\ pc[h] = "text" /\ pc'[h] = "nl" /\ body[h] \in Body
      /\ \A g \in Handler \ {h} : pc'[g] = pc[g]
  BY ZenonT(30), <1>1 DEF QueueText, Goto, replayVars
<1>3. /\ rpc = "sleep" /\ live[h]
      /\ \A g \in Handler \ {h} : pc[g] \notin Appending
  BY ZenonT(30), <1>2 DEF Whole, AppendersOK, Appending
<1>4. pending' = Append(pending, body[h])
  BY <1>3 DEF QueueText, ToQueue
<1>5. Written(pending') = Written(pending) \cup ({body[h]} \ {NL})
  BY <1>1, <1>2, <1>4, WrittenAppend
<1>6. Written(pending) \subseteq Written(pending') /\ body[h] \in Written(pending')
  BY <1>2, <1>5, LineLogAssumption
<1>7. ~Unterminated(pending)
  BY <1>2, <1>3 DEF Whole, QueueOK, Appending
<1>8. ~Glued(pending')
  <2>1. Glued(pending') <=> Glued(pending) \/ (body[h] # NL /\ Unterminated(pending))
    BY ZenonT(30), <1>1, <1>2, <1>4, LinesAppend
  <2> QED
    BY ZenonT(30), <1>7, <2>1 DEF Whole, QueueOK
<1>9. AppendersOK'
  BY <1>2, <1>3 DEF Whole, AppendersOK, Appending
<1>10. QueueOK'
  BY <1>2, <1>6, <1>8 DEF Whole, QueueOK
<1>11. ReplayOK'
  BY ZenonT(30), <1>2, <1>3 DEF Whole, ReplayOK
<1>12. \A b \in Body : Kept(b) => Kept(b)'
  BY <1>2, <1>6 DEF Kept, InQueue
<1>13. KeptOK'
  BY <1>1, <1>2, <1>12 DEF Whole, KeptOK
<1> QED
  BY <1>9, <1>10, <1>11, <1>13 DEF Whole

\* ... and its end; the event is then in the queue.
LEMMA WholeNewline ==
  ASSUME TypeOK, Whole, NEW h \in Handler, QueueNewline(h)
  PROVE  Whole'
<1>1. /\ pc \in [Handler -> HStep] /\ pending \in File /\ live \in [Handler -> BOOLEAN]
      /\ \A g \in Handler : pc[g] # "idle" => body[g] \in Body
  BY DEF TypeOK
<1>2. /\ UNCHANGED <<body, snap, remaining, rpc, pos, sink, answered>>
      /\ pc[h] = "nl" /\ pc'[h] = "queued" /\ body[h] \in Body
      /\ \A g \in Handler \ {h} : pc'[g] = pc[g] /\ live'[g] = live[g]
  BY ZenonT(30), <1>1 DEF QueueNewline, Goto, replayVars
<1>3. /\ rpc = "sleep" /\ live[h]
      /\ \A g \in Handler \ {h} : pc[g] \notin Appending
  BY <1>2 DEF Whole, AppendersOK, Appending
<1>4. pending' = Append(pending, NL)
  BY <1>3 DEF QueueNewline, ToQueue
<1>5. Written(pending') = Written(pending) \cup ({NL} \ {NL})
  BY <1>1, <1>4, WrittenAppend
<1>6. Written(pending) \subseteq Written(pending') /\ body[h] \in Written(pending')
  BY <1>2, <1>5 DEF Whole, QueueOK
<1>7. ~Glued(pending') /\ ~Unterminated(pending')
  <2>1. /\ Glued(pending') <=> Glued(pending) \/ (NL # NL /\ Unterminated(pending))
        /\ Unterminated(pending') <=> NL # NL
    BY ZenonT(30), <1>1, <1>4, LinesAppend
  <2> QED
    BY ZenonT(30), <2>1 DEF Whole, QueueOK
<1>8. AppendersOK'
  BY <1>2, <1>3 DEF Whole, AppendersOK, Appending
<1>9. QueueOK'
  BY <1>2, <1>3, <1>7 DEF QueueOK, Appending
<1>10. ReplayOK'
  BY ZenonT(30), <1>2, <1>3 DEF Whole, ReplayOK
<1>11. \A b \in Body : Kept(b) => Kept(b)'
  BY <1>2, <1>6 DEF Kept, InQueue
<1>12. Kept(body[h])'
  BY ZenonT(30), <1>2, <1>6 DEF Kept, InQueue
<1>13. KeptOK'
  BY <1>1, <1>2, <1>11, <1>12 DEF Whole, KeptOK
<1> QED
  BY <1>8, <1>9, <1>10, <1>13 DEF Whole

\* While the replay task runs nobody appends: the queue is whole lines, and the
\* steps of the task leave the handlers alone.
LEMMA WholeReplay ==
  ASSUME TypeOK, Whole, Undisturbed, Undisturbed', sink \subseteq sink', Replay
  PROVE  Whole'
<1> USE DEF queue, handlerVars
<1>1. UNCHANGED <<pc, body, answered>>
  BY ZenonT(30) DEF Replay, ReplayIdle, vars, ReplayRead, ReplayStuck, ReplayFails, ReplayDelivers,
         ReplayRemove, ReplayTruncate, ReplayRewrite, ReplayFault
<1>2. CASE ReplayIdle
  BY ZenonT(30), <1>1, <1>2 DEF ReplayIdle, vars, replayVars, Whole, AppendersOK, QueueOK, ReplayOK, KeptOK,
                    Kept, InQueue
<1>3. CASE ReplayRead
  <2>1. /\ rpc = "sleep" /\ rpc' = "send" /\ snap' = pending /\ remaining' = <<>>
        /\ pos' = LineFrom(pending, 1) /\ UNCHANGED <<pending, live, sink>>
        /\ \A h \in Handler : pc[h] \notin Appending
    BY ZenonT(30), <1>3 DEF ReplayRead, Undisturbed
  <2>2. pending \in File /\ Len(pending) \in Nat
    BY DEF TypeOK, File
  <2>3. \A i \in LineStarts(pending) : i >= 1 /\ i \in Nat
    BY <2>2 DEF LineStarts
  <2>4. 1 \in 1..(Len(pending) + 1)
    BY <2>2
  <2>5. pos' \in Nat /\ \A i \in LineStarts(pending) : pos' <= i
    <3>1. pos' \in LineStarts(pending) \cup {Len(pending) + 1}
      BY <2>1, <2>2, <2>4, LineFromProperties
    <3>2. \A i \in LineStarts(pending) : i >= 1 => pos' <= i
      BY <2>1, <2>2, <2>4, LineFromProperties
    <3> QED
      BY <2>2, <2>3, <3>1, <3>2
  <2>6. \A i \in LineStarts(pending) : ~(i < pos')
    BY <2>3, <2>5
  <2>7. ~Glued(<<>>) /\ ~Unterminated(<<>>)
    BY SMTT(30), Z3T(30) DEF Glued, Unterminated
  <2>8. AppendersOK' /\ QueueOK'
    BY <1>1, <2>1 DEF Whole, AppendersOK, QueueOK
  <2>9. ReplayOK'
    BY <2>1, <2>6, <2>7 DEF ReplayOK
  <2>10. \A b \in Body : Kept(b) => Kept(b)'
    BY ZenonT(30), <2>1 DEF Kept, InQueue
  <2> QED
    BY <1>1, <2>8, <2>9, <2>10, KeptStays DEF Whole
<1>4. ASSUME rpc = "send", rpc' = "send", snap' = snap, UNCHANGED <<pending, live>>,
             ~Glued(remaining') /\ ~Unterminated(remaining'),
             \A i \in LineStarts(snap) : i < pos' => snap[i] \in sink' \cup Written(remaining')
      PROVE  Whole'
  <2>1. AppendersOK' /\ QueueOK'
    BY ZenonT(30), <1>1, <1>4 DEF Whole, AppendersOK, QueueOK
  <2>2. ReplayOK'
    BY <1>4 DEF Whole, ReplayOK
  <2>3. \A b \in Body : Kept(b) => Kept(b)'
    BY ZenonT(30), <1>4 DEF Kept, InQueue
  <2> QED
    BY <1>1, <2>1, <2>2, <2>3, KeptStays DEF Whole
<1>5. ASSUME Sending, Advance
      PROVE  /\ ~Glued(snap) /\ ~Glued(remaining) /\ ~Unterminated(remaining)
             /\ \A i \in LineStarts(snap) : i < pos' /\ i # pos =>
                  snap[i] \in sink \cup Written(remaining)
             /\ rpc = "send" /\ rpc' = "send" /\ Line[1] = snap[pos]
  <2>1. /\ rpc = "send" /\ ~Glued(snap) /\ ~Glued(remaining) /\ ~Unterminated(remaining)
        /\ \A i \in LineStarts(snap) : i < pos => snap[i] \in sink \cup Written(remaining)
    BY <1>5 DEF Sending, Whole, ReplayOK, QueueOK
  <2>2. rpc' = "send" /\ \A j \in LineStarts(snap) : j < pos' => j <= pos
    BY <1>5, <2>1, AdvanceProperties
  <2>3. pos \in LineStarts(snap) /\ Line[1] = snap[pos]
    BY <1>5, LineProperties
  <2>4. \A i \in LineStarts(snap) : i \in Nat
    BY DEF TypeOK, File, LineStarts
  <2>5. \A i \in LineStarts(snap) : i <= pos /\ i # pos => i < pos
    BY SMTT(30), Z3T(30), <2>3, <2>4
  <2> QED
    BY ZenonT(30), <2>1, <2>2, <2>3, <2>5
<1>6. CASE \E b \in Body : ReplayDelivers(b)
  <2>1. /\ Sending /\ Advance /\ sink' = sink \cup {Line[1]}
        /\ UNCHANGED <<pending, live, snap, remaining>>
    BY ZenonT(30), <1>6 DEF ReplayDelivers, Accepts
  <2>2. \A i \in LineStarts(snap) : i < pos' => snap[i] \in sink' \cup Written(remaining')
    BY ZenonT(30), <1>5, <2>1
  <2> QED
    BY ZenonT(30), <1>4, <1>5, <2>1, <2>2
<1>7. CASE ReplayFails
  <2>1. Sending /\ Advance /\ remaining' = Keep /\ UNCHANGED <<pending, live, snap>>
    BY ZenonT(30), <1>7 DEF ReplayFails
  <2>2. ~Glued(remaining') /\ ~Unterminated(remaining')
    BY ZenonT(30), <1>5, <2>1, KeepWhole
  <2>3. Line[1] \in Written(Line)
    BY <2>1, LineProperties, LineLogAssumption DEF Written
  <2>4. Written(remaining') = Written(remaining) \cup Written(Line)
    BY <2>1, KeepProperties
  <2>5. \A i \in LineStarts(snap) : i < pos' => snap[i] \in sink' \cup Written(remaining')
    BY ZenonT(30), <1>5, <2>1, <2>3, <2>4
  <2> QED
    BY <1>4, <1>5, <2>1, <2>2, <2>5
<1>8. CASE ReplayStuck \/ ReplayFault
  <2>1. /\ rpc = "send" /\ rpc' = "sleep" /\ UNCHANGED <<pending, live>>
    BY ZenonT(30), <1>8 DEF ReplayStuck, ReplayFault, Sending, Sent, Undisturbed
  <2>2. AppendersOK' /\ QueueOK'
    BY <1>1, <2>1 DEF Whole, AppendersOK, QueueOK
  <2>3. ReplayOK'
    BY <2>1 DEF ReplayOK
  <2>4. \A b \in Body : Kept(b) => Kept(b)'
    BY <2>1 DEF Kept, InQueue
  <2> QED
    BY <1>1, <2>2, <2>3, <2>4, KeptStays DEF Whole
<1>9. Written(<<>>) = {} /\ ~Glued(<<>>) /\ ~Unterminated(<<>>)
  BY DEF Written, Glued, Unterminated
<1>10. rpc # "sleep" => \A h \in Handler : pc[h] \notin Appending /\ pc[h] # "nl"
  BY DEF Whole, AppendersOK, Appending
<1>11. ASSUME Sent PROVE \A b \in Written(pending) : b \in sink \cup Written(remaining)
  <2>1. rpc = "send" /\ pos > Len(snap) /\ snap = pending /\ ~Glued(snap) /\ snap \in File
    BY <1>11 DEF Sent, Whole, ReplayOK, QueueOK, TypeOK
  <2>2. \A i \in LineStarts(snap) : i < pos
    <3>1. Len(snap) \in Nat /\ pos \in Nat
      BY <2>1 DEF TypeOK, File, LineStarts
    <3> QED
      BY <2>1, <3>1 DEF LineStarts
  <2>3. \A i \in LineStarts(snap) : snap[i] \in sink \cup Written(remaining)
    BY <2>1, <2>2 DEF Whole, ReplayOK
  <2> QED
    BY <2>1, <2>3, BodiesBeginLines
<1>12. CASE ReplayRemove
  <2>1. /\ Sent /\ rpc = "send" /\ rpc' = "sleep" /\ remaining = <<>> /\ pending' = <<>>
        /\ UNCHANGED sink
    BY <1>12 DEF ReplayRemove, Sent
  <2>2. AppendersOK' /\ QueueOK'
    BY <1>1, <1>9, <1>10, <2>1 DEF AppendersOK, QueueOK
  <2>3. ReplayOK'
    BY <2>1 DEF ReplayOK
  <2>4. \A b \in Body : Kept(b) => Kept(b)'
    BY <1>9, <1>11, <2>1 DEF Kept, InQueue
  <2> QED
    BY <1>1, <2>2, <2>3, <2>4, KeptStays DEF Whole
<1>13. CASE ReplayTruncate
  <2>1. /\ Sent /\ rpc = "send" /\ rpc' = "rewrite" /\ pending' = <<>>
        /\ UNCHANGED <<remaining, sink>>
    BY <1>13 DEF ReplayTruncate, Sent
  <2>2. AppendersOK' /\ QueueOK'
    BY <1>1, <1>9, <1>10, <2>1 DEF AppendersOK, QueueOK
  <2>3. ReplayOK'
    BY <2>1 DEF Whole, ReplayOK
  <2>4. \A b \in Body : Kept(b) => Kept(b)'
    BY ZenonT(30), <1>11, <2>1 DEF Kept, InQueue
  <2> QED
    BY <1>1, <2>2, <2>3, <2>4, KeptStays DEF Whole
<1>14. CASE ReplayRewrite
  <2>1. /\ rpc = "rewrite" /\ rpc' = "sleep" /\ pending = <<>>
        /\ pending' = remaining \o SubSeq(pending, Len(remaining) + 1, Len(pending))
        /\ UNCHANGED <<remaining, sink>> /\ ~Glued(remaining) /\ ~Unterminated(remaining)
    BY <1>14 DEF ReplayRewrite, Whole, ReplayOK
  <2>2. pending' = remaining
    <3>1. remaining \in File /\ Len(remaining) \in Nat
      BY DEF TypeOK, File
    <3>2. SubSeq(<<>>, Len(remaining) + 1, 0) = <<>>
      BY <3>1
    <3>3. remaining \o <<>> = remaining
      BY <3>1 DEF File
    <3> QED
      BY ZenonT(30), <2>1, <3>2, <3>3
  <2>3. AppendersOK' /\ QueueOK'
    BY ZenonT(30), <1>1, <1>10, <2>1, <2>2 DEF AppendersOK, QueueOK
  <2>4. ReplayOK'
    BY <2>1 DEF ReplayOK
  <2>5. \A b \in Body : Kept(b) => Kept(b)'
    BY ZenonT(30), <1>9, <2>1, <2>2 DEF Kept, InQueue
  <2> QED
    BY <1>1, <2>3, <2>4, <2>5, KeptStays DEF Whole
<1> QED
  BY ZenonT(30), <1>2, <1>3, <1>6, <1>7, <1>8, <1>12, <1>13, <1>14 DEF Replay

\* A kill that cuts no line and no rewrite short leaves the queue as it is.
LEMMA WholeCrash ==
  ASSUME TypeOK, Whole, Undisturbed', Crash
  PROVE  Whole'
<1>1. /\ rpc # "rewrite" /\ rpc' = "sleep" /\ UNCHANGED <<pending, sink, answered>>
      /\ \A h \in Handler : pc[h] # "nl" /\ pc'[h] = "idle"
  BY ZenonT(30) DEF Crash, queue, Undisturbed
<1>2. AppendersOK' /\ ReplayOK'
  BY <1>1 DEF AppendersOK, ReplayOK, Appending
<1>3. QueueOK'
  BY <1>1 DEF Whole, QueueOK
<1>4. \A b \in Body : Kept(b) => Kept(b)'
  BY ZenonT(30), <1>1 DEF Kept, InQueue
<1>5. KeptOK'
  BY <1>1, <1>4 DEF Whole, KeptOK
<1> QED
  BY <1>2, <1>3, <1>5 DEF Whole

\* What was disturbed stays disturbed.
LEMMA DisturbedStays ==
  ASSUME [Next]_vars, Undisturbed'
  PROVE  Undisturbed
<1> USE DEF Undisturbed
<1>1. ASSUME NEW h \in Handler, QueueOpen(h) \/ AppendFails(h) PROVE Undisturbed
  <2>1. CASE QueueOpen(h)
    <3>1. cut' = cut
      BY <2>1 DEF QueueOpen
    <3>2. overlap' = (overlap \/ Busy(h))
      BY <2>1 DEF QueueOpen
    <3> QED
      BY Zenon, <3>1, <3>2
  <2>2. CASE AppendFails(h)
    <3>1. overlap' = overlap
      BY <2>2 DEF AppendFails
    <3>2. cut' = (cut \/ pc[h] = "nl")
      BY <2>2 DEF AppendFails
    <3> QED
      BY Zenon, <3>1, <3>2
  <2> QED
    BY <1>1, <2>1, <2>2
<1>2. CASE ReplayRead \/ ReplayFault
  <2>1. CASE ReplayRead
    <3>1. cut' = cut
      BY <2>1 DEF ReplayRead
    <3>2. overlap' = (overlap \/ \E h \in Handler : pc[h] \in Appending)
      BY <2>1 DEF ReplayRead
    <3> QED
      BY Zenon, <3>1, <3>2
  <2>2. CASE ReplayFault
    <3>1. overlap' = overlap
      BY <2>2 DEF ReplayFault
    <3>2. cut' = (cut \/ rpc = "rewrite")
      BY <2>2 DEF ReplayFault
    <3> QED
      BY Zenon, <3>1, <3>2
  <2> QED
    BY <1>2, <2>1, <2>2
<1>3. CASE Crash
  BY Zenon, <1>3 DEF Crash
<1>4. CASE UNCHANGED <<overlap, cut>>
  BY ZenonT(30), <1>4
<1>5. ASSUME NEW h \in Handler, Handle(h), ~QueueOpen(h), ~AppendFails(h)
      PROVE  UNCHANGED <<overlap, cut>>
  BY ZenonT(30), <1>5 DEF Handle, Capture, LogText, LogNewline, SendOk, SendFails, QueueText, QueueNewline,
              Respond, Disconnect, Leave
<1>6. CASE Replay /\ ~ReplayRead /\ ~ReplayFault
  BY <1>4, <1>6 DEF Replay, ReplayIdle, vars, ReplayStuck, ReplayFails, ReplayDelivers,
              ReplayRemove, ReplayTruncate, ReplayRewrite
<1>7. CASE Restart \/ UNCHANGED vars
  BY <1>4, <1>7 DEF Restart, vars
<1> QED
  BY <1>1, <1>2, <1>3, <1>4, <1>5, <1>6, <1>7 DEF Next

\* KeptInv, over every step.
LEMMA KeptStep ==
  ASSUME TypeOK, KeptInv, [Next]_vars
  PROVE  KeptInv'
<1> SUFFICES ASSUME Undisturbed' PROVE Whole'
  BY DEF KeptInv, Whole
<1>1. Undisturbed /\ Whole /\ sink \subseteq sink'
  BY DisturbedStays, SinkGrows DEF KeptInv, Whole
<1>2. ASSUME NEW h \in Handler, Handle(h) PROVE Whole'
  BY <1>1, <1>2, WholeQuiet, WholeOpen, WholeText, WholeNewline DEF Handle
<1>3. CASE Replay
  BY <1>1, <1>3, WholeReplay
<1>4. CASE Crash
  BY ZenonT(30), <1>1, <1>4, WholeCrash
<1>5. CASE Restart \/ UNCHANGED vars
  <2>1. UNCHANGED <<pc, body, live, rpc, snap, pos, remaining, pending, sink, answered>>
    BY <1>5 DEF Restart, vars, queue, handlerVars, replayVars
  <2> QED
    BY ZenonT(30), <1>1, <2>1 DEF Whole, AppendersOK, QueueOK, ReplayOK, KeptOK, Kept, InQueue
<1> QED
  BY <1>2, <1>3, <1>4, <1>5 DEF Next
-----------------------------------------------------------------------------
\* The daemon's files, handlers and replay task keep their types; events are
\* logged, delivered and, undisturbed, kept as the parts of IInv say.
THEOREM DaemonCorrect == Spec => []IInv
<1> USE CaptureDaemonAssumption
<1>1. Init => TypeOK
  <2> SUFFICES ASSUME Init PROVE TypeOK
    OBVIOUS
  <2>1. evlog \in File /\ pending \in File /\ snap \in File /\ remaining \in File
    BY DEF Init, File
  <2> QED
    BY <2>1 DEF Init, TypeOK, HStep, RStep
<1>2. Init => LoggedOK
  BY DEF Init, LoggedOK, LoggedBeforeDelivery, Written
<1>3. Init => DeliveredOK
  BY DEF Init, DeliveredOK
<1>4. Init => KeptInv
  BY DEF Init, KeptInv, AppendersOK, QueueOK, ReplayOK, KeptOK, Appending, Glued, Unterminated
<1> QED
  BY <1>1, <1>2, <1>3, <1>4, TypeStep, LoggedStep, DeliveredStep, KeptStep, PTL DEF Spec, IInv

\* Every event that was posted, queued or answered for is in the event log.
THEOREM LoggedFirst == Spec => []LoggedBeforeDelivery
BY DaemonCorrect, PTL DEF IInv, LoggedOK

\* What capture_report told a client stays true: a delivered event is with the
\* event service; a queued one is in the queue or delivered, unless appends
\* overlapped a replay or each other, or the queue was cut short.
THEOREM AnswersKept == Spec => []AnsweredIsKept
<1>1. IInv => AnsweredIsKept
  BY ZenonT(30) DEF IInv, DeliveredOK, KeptInv, Undisturbed, KeptOK, Kept, AnsweredIsKept
<1> QED
  BY <1>1, DaemonCorrect, PTL
=============================================================================
