---------------------- MODULE EventServiceFreshProofs -----------------------
(***************************************************************************)
(* A body is announced as new at most once; the theorems that follow from  *)
(* the whole of ServiceInv; the refinement of AcceptedLedger; and what     *)
(* reaches those who read: the lines of a log, the counters, the attested  *)
(* bodies and the pages.  For every number of handlers, readers, contests, *)
(* bodies, kills and failed writes.                                        *)
(***************************************************************************)
EXTENDS EventServiceProofs

FreshInv == OneRecorder /\ FreshAckOnce

Locked == \A r \in Request : pc[r] \in HoldStep => lock = r

\* The Mutex has one holder: the handler between its lock and its answer.
LEMMA LockStep ==
  ASSUME JobOK, [Next]_vars, Locked
  PROVE  Locked'
<1> USE EventServiceAssumption DEF storeVars, Locked, HoldStep
<1>1. ASSUME NEW r \in Request, Handle(r) PROVE Locked'
  <2>0. \A s \in Request \ {r} : pc'[s] = pc[s]
    BY ZenonT(30), <1>1, OthersStay
  <2> USE DEF JobOK, Goto, Answer, Hold
  <2>1. CASE CreateEvent(r)
    BY ZenonT(30), <2>0, <2>1 DEF CreateEvent
  <2>2. CASE CreateTeam(r)
    BY <2>0, <2>2 DEF CreateTeam
  <2>3. CASE IngestReceive(r) \/ IngestLookup(r)
    BY <2>0, <2>3 DEF IngestReceive, IngestLookup
  <2>4. CASE FetchManifest(r) \/ FetchReceipt(r)
    BY <2>0, <2>4 DEF FetchManifest, FetchReceipt
  <2>5. CASE IngestRelock(r)
    BY <2>0, <2>5 DEF IngestRelock
  <2>6. CASE AppendLine(r) \/ AppendNewline(r) \/ AppendFails(r)
    BY <2>0, <2>6 DEF AppendLine, AppendNewline, AppendFails, OnAppendError
  <2>7. CASE SaveTruncate(r) \/ SaveWrite(r) \/ SaveFails(r)
    BY <2>0, <2>7 DEF SaveTruncate, SaveWrite, SaveFails, OnSaveError
  <2>8. CASE Respond(r) \/ Disconnect(r)
    BY ZenonT(30), <2>0, <2>8 DEF Respond, Disconnect
  <2> QED
    BY ZenonT(30), <1>1, <2>1, <2>2, <2>3, <2>4, <2>5, <2>6, <2>7, <2>8 DEF Handle
<1>2. CASE Crash
  BY ZenonT(30), <1>2 DEF Crash
<1> QED
  BY ZenonT(30), <1>1, <1>2, EnvironmentStays DEF Restart

\* A handler comes to "append" with a body that is not recorded, and to an
\* announcement only by recording its body; only an announcement counts.
LEMMA HandlerStep ==
  ASSUME TypeOK, OneRecorder, NEW r \in Request, Handle(r)
  PROVE  /\ pc'[r] \in {"append", "newline"} =>
              /\ UNCHANGED mem /\ ~job'[r].dup
              /\ job'[r].item \notin Range(mem.captured[job'[r].ev])
         /\ pc'[r] = "respond" /\ job'[r].status = 202 => job'[r].op = "ingest"
         /\ WillAnnounce(r)' => /\ EntryOf(job'[r]) = EntryOf(job[r])
                                /\ UNCHANGED fresh
                                /\ WillAnnounce(r) \/ AppendNewline(r)
         /\ \/ UNCHANGED fresh
            \/ /\ WillAnnounce(r) /\ ~WillAnnounce(r)'
               /\ fresh' = [fresh EXCEPT ![EntryOf(job[r])] = @ + 1]
               /\ acked' = acked \cup {Change(job[r])}
         /\ acked \subseteq acked'
<1> USE DEF storeVars, ghosts, TypeOK, JobOK, Goto, Answer, WillAnnounce, EntryOf
<1>1. CASE CreateEvent(r)
  BY <1>1 DEF CreateEvent, Begin
<1>2. CASE CreateTeam(r)
  BY <1>2 DEF CreateTeam, Begin
<1>3. CASE IngestReceive(r)
  BY ZenonT(30), <1>3 DEF IngestReceive, Begin
<1>4. CASE IngestLookup(r)
  BY <1>4 DEF IngestLookup, JobType
<1>5. CASE FetchManifest(r) \/ FetchReceipt(r)
  BY <1>5 DEF FetchManifest, FetchReceipt, JobType
<1>6. CASE IngestRelock(r)
  <2>1. pc[r] = "relock" /\ UNCHANGED <<mem, fresh, acked>>
    BY ZenonT(30), <1>6 DEF IngestRelock
  <2> DEFINE d == Duplicate(job[r].ev, job[r].item)
  <2>2. CASE Answer(r, 404)
    BY <2>1, <2>2 DEF JobType
  <2>3. CASE /\ job' = [job EXCEPT ![r].dup = d]
             /\ Goto(r, IF d THEN "save" ELSE "append")
    <3>1. /\ job'[r].dup = d /\ job'[r].item = job[r].item /\ job'[r].ev = job[r].ev
          /\ pc'[r] = IF d THEN "save" ELSE "append"
      BY ZenonT(30), <2>3 DEF JobType
    <3> QED
      BY Zenon, <2>1, <3>1 DEF Duplicate
  <2> QED
    BY ZenonT(30), <1>6, <2>2, <2>3 DEF IngestRelock
<1>7. CASE AppendLine(r)
  <2>1. /\ pc[r] = "append" /\ pc'[r] = "newline" /\ UNCHANGED <<job, mem, fresh, acked>>
    BY ZenonT(30), <1>7 DEF AppendLine
  <2>2. job[r].item \notin Range(mem.captured[job[r].ev]) /\ ~job[r].dup
    BY ZenonT(30), <2>1 DEF OneRecorder
  <2> QED
    BY ZenonT(30), <2>1, <2>2
<1>8. CASE AppendNewline(r)
  BY ZenonT(30), <1>8 DEF AppendNewline
<1>9. CASE AppendFails(r)
  BY <1>9 DEF AppendFails, OnAppendError, JobType
<1>10. CASE SaveTruncate(r)
  BY ZenonT(30), <1>10 DEF SaveTruncate
<1>11. CASE SaveWrite(r)
  BY <1>11 DEF SaveWrite, SuccessStatus, JobType
<1>12. CASE SaveFails(r)
  BY SMTT(30), Z3T(30), <1>12 DEF SaveFails, OnSaveError, JobType
<1>13. CASE Respond(r)
  BY ZenonT(30), <1>13 DEF Respond, OneRecorder
<1>14. CASE Disconnect(r)
  BY ZenonT(30), <1>14 DEF Disconnect
<1> QED
  BY ZenonT(30), <1>1, <1>2, <1>3, <1>4, <1>5, <1>6, <1>7, <1>8, <1>9, <1>10, <1>11, <1>12,
     <1>13, <1>14 DEF Handle

\* FreshInv, over every step.
LEMMA FreshStep ==
  ASSUME TypeOK, TypeOK', [Next]_vars, DurableInv, FreshInv
  PROVE  FreshInv'
<1>0. OneRecorder /\ FreshAckOnce /\ Locked /\ JobOK
  BY ZenonT(30) DEF FreshInv, OneRecorder, Locked, TypeOK
<1>1. ASSUME NEW r \in Request, Handle(r) PROVE FreshInv'
  <2> DEFINE x == EntryOf(job[r])
  <2>0. \A s \in Request \ {r} : pc'[s] = pc[s] /\ job'[s] = job[s]
    BY ZenonT(30), <1>0, <1>1, OthersStay
  <2>1. /\ pc'[r] \in {"append", "newline"} =>
              /\ UNCHANGED mem /\ ~job'[r].dup
              /\ job'[r].item \notin Range(mem.captured[job'[r].ev])
        /\ pc'[r] = "respond" /\ job'[r].status = 202 => job'[r].op = "ingest"
        /\ WillAnnounce(r)' => /\ EntryOf(job'[r]) = x
                               /\ UNCHANGED fresh
                               /\ WillAnnounce(r) \/ AppendNewline(r)
        /\ \/ UNCHANGED fresh
           \/ /\ WillAnnounce(r) /\ ~WillAnnounce(r)'
              /\ fresh' = [fresh EXCEPT ![x] = @ + 1]
              /\ acked' = acked \cup {Change(job[r])}
        /\ acked \subseteq acked'
    BY ZenonT(30), <1>0, <1>1, HandlerStep
  <2>2. \A s \in Request \ {r} : WillAnnounce(s)' <=> WillAnnounce(s)
    BY ZenonT(60), <2>0 DEF WillAnnounce
  <2>3. WillAnnounce(r) => x \in EventId \X Body /\ Change(job[r]) =
                             [op |-> "ingest", ev |-> x[1], item |-> x[2]]
    BY ZenonT(30), <1>0 DEF JobOK, WellFormed, WillAnnounce, EntryOf, Change
  \* What another handler has recorded, or a client has been told is new, is
  \* not the body that is being recorded.
  <2>4. ASSUME AppendNewline(r)
        PROVE  /\ fresh[x] = 0
               /\ \A s \in Request \ {r} : WillAnnounce(s) => EntryOf(job[s]) # x
    <3>1. /\ up /\ x \in EventId \X Body
          /\ x[1] = job[r].ev /\ x[2] = job[r].item
          /\ x[2] \notin Range(mem.captured[x[1]])
      BY ZenonT(30), <1>0, <2>4 DEF AppendNewline, OneRecorder, DurableInv, ChangeInStore, EntryOf,
                        JobOK, WellFormed, IngestStep
    <3>2. fresh[x] = 0
      <4>1. fresh[x] > 0 => [op |-> "ingest", ev |-> x[1], item |-> x[2]] \in acked
        BY ZenonT(30), <1>0, <3>1 DEF OneRecorder
      <4>2. fresh[x] > 0 => Holds(mem, [op |-> "ingest", ev |-> x[1], item |-> x[2]])
        BY ZenonT(30), <3>1, <4>1 DEF DurableInv, AckedSurvivesCrash
      <4>3. ~Holds(mem, [op |-> "ingest", ev |-> x[1], item |-> x[2]])
        BY ZenonT(30), <3>1 DEF Holds
      <4>4. fresh[x] \in Nat
        BY ZenonT(30), <3>1 DEF TypeOK, GhostOK
      <4> HIDE DEF x
      <4> QED
        BY <4>2, <4>3, <4>4
    <3>3. ASSUME NEW s \in Request \ {r}, WillAnnounce(s), EntryOf(job[s]) = x PROVE FALSE
      <4>1. Holds(mem, Change(job[s])) /\ job[s].op = "ingest"
        BY ZenonT(30), <3>3 DEF WillAnnounce, DurableInv, ChangeInStore
      <4>2. job[s].ev = x[1] /\ job[s].item = x[2]
        BY ZenonT(30), <3>3 DEF EntryOf
      <4> QED
        BY ZenonT(30), <3>1, <4>1, <4>2 DEF Holds, Change
    <3> QED
      BY ZenonT(30), <3>2, <3>3
  <2>5. \A s \in Request : pc'[s] \in {"append", "newline"} =>
          job'[s].item \notin Range(mem'.captured[job'[s].ev]) /\ ~job'[s].dup
    <3> SUFFICES ASSUME NEW s \in Request, pc'[s] \in {"append", "newline"}
                 PROVE  /\ job'[s].item \notin Range(mem'.captured[job'[s].ev])
                        /\ ~job'[s].dup
      OBVIOUS
    <3>1. CASE s = r
      BY ZenonT(30), <2>1, <3>1
    <3>2. CASE s # r
      <4>1. /\ pc[s] \in {"append", "newline"} /\ job'[s] = job[s] /\ lock = s
            /\ job[s].item \notin Range(mem.captured[job[s].ev]) /\ ~job[s].dup
        BY ZenonT(30), <1>0, <2>0, <3>2 DEF OneRecorder, HoldStep
      <4>2. ~CreateEvent(r) /\ ~AppendNewline(r) /\ ~CreateTeam(r)
        BY ZenonT(30), <1>0, <3>2, <4>1, EventServiceAssumption
           DEF CreateEvent, Hold, AppendNewline, CreateTeam, Locked, HoldStep
      <4>3. UNCHANGED mem
        BY ZenonT(30), <1>1, <4>2
           DEF Handle, IngestReceive, IngestLookup, FetchManifest, FetchReceipt,
               IngestRelock, AppendLine, AppendFails, OnAppendError, SaveTruncate,
               SaveWrite, SaveFails, Respond, Disconnect, storeVars
      <4> QED
        BY ZenonT(30), <4>1, <4>3
    <3> QED
      BY ZenonT(30), <3>1, <3>2
  <2>6. \A s \in Request : pc'[s] = "respond" /\ job'[s].status = 202
                             => job'[s].op = "ingest"
    <3>1. \A s \in Request : pc[s] = "respond" /\ job[s].status = 202
                               => job[s].op = "ingest"
      BY ZenonT(30), <1>0 DEF OneRecorder
    <3> QED
      BY <2>0, <2>1, <3>1
  <2>7. \A s \in Request : WillAnnounce(s)' => fresh'[EntryOf(job'[s])] = 0
    <3> SUFFICES ASSUME NEW s \in Request, WillAnnounce(s)'
                 PROVE  fresh'[EntryOf(job'[s])] = 0
      BY ZenonT(30)
    <3>1. CASE s = r
      BY ZenonT(30), <1>0, <2>1, <2>4, <3>1 DEF OneRecorder
    <3>2. CASE s # r
      <4>1. WillAnnounce(s) /\ job'[s] = job[s] /\ fresh[EntryOf(job[s])] = 0
        BY ZenonT(30), <1>0, <2>0, <2>2, <3>2 DEF OneRecorder
      <4>2. CASE WillAnnounce(r)
        <5>1. EntryOf(job[s]) # x
          BY ZenonT(30), <1>0, <3>2, <4>1, <4>2 DEF OneRecorder
        <5>2. EntryOf(job[s]) \in EventId \X Body
          BY ZenonT(30), <1>0, <4>1 DEF JobOK, WellFormed, WillAnnounce, EntryOf
        <5> QED
          BY ZenonT(30), <2>1, <4>1, <5>1, <5>2 DEF TypeOK, GhostOK
      <4>3. CASE UNCHANGED fresh
        BY ZenonT(30), <4>1, <4>3
      <4> QED
        BY ZenonT(30), <2>1, <4>2, <4>3
    <3> QED
      BY ZenonT(30), <3>1, <3>2
  <2>8. \A s, t \in Request : s # t /\ WillAnnounce(s)' /\ WillAnnounce(t)'
          => EntryOf(job'[s]) # EntryOf(job'[t])
    <3>1. ASSUME NEW s \in Request \ {r}, WillAnnounce(s)', WillAnnounce(r)'
          PROVE  EntryOf(job'[s]) # EntryOf(job'[r])
      BY ZenonT(30), <1>0, <2>0, <2>1, <2>2, <2>4, <3>1 DEF OneRecorder
    <3>2. ASSUME NEW s \in Request \ {r}, NEW t \in Request \ {r}, s # t,
                 WillAnnounce(s)', WillAnnounce(t)'
          PROVE  EntryOf(job'[s]) # EntryOf(job'[t])
      BY ZenonT(30), <1>0, <2>0, <2>2, <3>2 DEF OneRecorder
    <3> QED
      BY ZenonT(30), <3>1, <3>2
  <2>9. \A y \in EventId \X Body :
          fresh'[y] > 0 => [op |-> "ingest", ev |-> y[1], item |-> y[2]] \in acked'
    BY ZenonT(30), <1>0, <2>1, <2>3 DEF OneRecorder, TypeOK, GhostOK
  <2>10. FreshAckOnce'
    <3>1. WillAnnounce(r) => fresh[x] = 0
      BY ZenonT(30), <1>0 DEF OneRecorder
    <3>2. fresh \in [EventId \X Body -> Nat] /\ \A y \in EventId \X Body : fresh[y] <= 1
      BY ZenonT(30), <1>0 DEF FreshAckOnce, TypeOK, GhostOK
    <3> HIDE DEF x
    <3>3. \A y \in EventId \X Body : fresh'[y] <= 1
      BY <2>1, <2>3, <3>1, <3>2
    <3> QED
      BY ZenonT(30), <3>3 DEF FreshAckOnce
  <2>11. Locked'
    BY ZenonT(30), <1>0, LockStep
  <2> QED
    BY ZenonT(30), <2>5, <2>6, <2>7, <2>8, <2>9, <2>10, <2>11 DEF FreshInv, OneRecorder, Locked
<1>2. CASE Crash
  BY ZenonT(30), <1>0, <1>2 DEF Crash, FreshInv, OneRecorder, FreshAckOnce, HoldStep, WillAnnounce
<1>3. CASE Restart
  <2>1. \A r \in Request : pc[r] = "idle"
    BY Zenon, <1>3 DEF Restart, DurableInv, ChangeInStore
  <2> QED
    BY ZenonT(30), <1>0, <1>3, <2>1
       DEF Restart, ghosts, FreshInv, OneRecorder, FreshAckOnce, HoldStep, WillAnnounce
<1>4. CASE UNCHANGED <<up, storeVars, pc, job, acked, fresh>>
  <2>1. UNCHANGED <<mem, lock, pc, job, acked, fresh>>
    BY ZenonT(30), <1>4 DEF storeVars
  <2>2. \A r \in Request : WillAnnounce(r)' <=> WillAnnounce(r)
    BY ZenonT(30), <2>1 DEF WillAnnounce
  <2>3. OneRecorder'
    BY ZenonT(30), <1>0, <2>1, <2>2 DEF OneRecorder
  <2> QED
    BY ZenonT(30), <1>0, <2>1, <2>3 DEF FreshInv, FreshAckOnce
<1> QED
  BY ZenonT(30), <1>1, <1>2, <1>3, <1>4, EnvironmentStays
-----------------------------------------------------------------------------
\* ServiceInv holds of every behaviour of the event service: it holds of the
\* empty service, and each step of a handler, a kill, a restart and a failed
\* write keeps its three parts.
THEOREM ServiceCorrect == Spec => []ServiceInv
<1>1. Init => DurableInv /\ LogInv /\ FreshInv
  <2> SUFFICES ASSUME Init PROVE DurableInv /\ LogInv /\ FreshInv
    OBVIOUS
  <2>1. DurableInv
    BY ZenonT(30) DEF Init, DurableInv, ChangeInStore, AckedSurvivesCrash
  <2>2. LogInv
    <3>1. Range(<<>>) = {}
      BY DEF Range
    <3>2. LineInLog
      BY ZenonT(30) DEF Init, LineInLog
    <3>3. RecordedIsLogged
      BY ZenonT(30), <3>1 DEF Init, RecordedIsLogged, EmptyStore
    <3> QED
      BY ZenonT(30), <3>2, <3>3 DEF LogInv
  <2>3. FreshInv
    BY DEF Init, FreshInv, OneRecorder, FreshAckOnce, HoldStep, WillAnnounce
  <2> QED
    BY ZenonT(30), <2>1, <2>2, <2>3
<1>2. TypeOK /\ TypeOK' /\ (DurableInv /\ LogInv /\ FreshInv) /\ [Next]_vars
        => (DurableInv /\ LogInv /\ FreshInv)'
  BY ZenonT(30), DurableStep, LogStep, FreshStep
<1>3. DurableInv /\ LogInv /\ FreshInv => ServiceInv
  BY ZenonT(30) DEF DurableInv, LogInv, FreshInv, ServiceInv
<1> QED
  BY <1>1, <1>2, <1>3, TypeCorrect, PTL DEF Spec

\* A change a client was told is done (201, 202) is in every store file that a
\* restart can load, and in the memory of a running service: save_store ends
\* before the answer is made, and no handler takes a change back.
THEOREM AcknowledgedIsDurable == Spec => []AckedSurvivesCrash
BY ServiceCorrect, PTL DEF ServiceInv

\* append_captured_event comes before the push of the hash and the save, so no
\* store, in memory or on disk, knows a hash whose body is not in the log.
THEOREM RecordedBodiesAreLogged == Spec => []RecordedIsLogged
BY ServiceCorrect, PTL DEF ServiceInv

\* The check for a duplicate and the push happen under one lock, so a body of a
\* contest is answered `duplicate: false` at most once, over any number of
\* concurrent deliveries, retries, failed saves and restarts.
THEOREM AnnouncedOnce == Spec => []FreshAckOnce
BY ServiceCorrect, PTL DEF ServiceInv
-----------------------------------------------------------------------------
(***************************************************************************)
(* The refinement: the event service implements AcceptedLedger.            *)
(***************************************************************************)
Stored   == {x \in EventId \X Body : x[2] \in Written(log[x[1]])}
Accepted == {x \in EventId \X Body :
               [op |-> "ingest", ev |-> x[1], item |-> x[2]] \in acked}

\* Only Respond tells a client anything.
LEMMA AckSteps ==
  ASSUME [Next]_vars
  PROVE  UNCHANGED <<acked, fresh>> \/ \E r \in Request : Respond(r)
BY ZenonT(60)
   DEF Next, Handle, CreateEvent, CreateTeam, IngestReceive, IngestLookup,
       FetchManifest, FetchReceipt, IngestRelock, AppendLine, AppendNewline,
       AppendFails, SaveTruncate, SaveWrite, SaveFails, Disconnect, CardStart,
       CardRead, GatewayServes, Crash, Restart, RestartFails, vars, ghosts

\* Every step is one of the ledger, or none that it sees.
LEMMA LedgerStep ==
  ASSUME TypeOK, ServiceInv, [Next]_vars
  PROVE  [Ledger!Next]_(Ledger!lvars)
<1> USE DEF storeVars, ghosts
<1>0. /\ log \in [EventId -> File] /\ fresh \in [EventId \X Body -> Nat]
      /\ \A r \in Request : pc[r] # "idle" => WellFormed(job[r], pc[r])
  BY ZenonT(30) DEF TypeOK, StoreOK, GhostOK, JobOK
<1>1. SUFFICES \/ UNCHANGED <<Stored, Accepted, fresh>>
               \/ \E x \in EventId \X Body :
                    \/ Stored' = Stored \cup {x} /\ UNCHANGED <<Accepted, fresh>>
                    \/ /\ x \in Stored /\ fresh[x] = 0
                       /\ Accepted' = Accepted \cup {x}
                       /\ fresh' = [fresh EXCEPT ![x] = 1]
                       /\ UNCHANGED Stored
                    \/ /\ x \in Stored
                       /\ Accepted' = Accepted \cup {x}
                       /\ UNCHANGED <<Stored, fresh>>
  BY ZenonT(30) DEF Ledger!Next, Ledger!Store, Ledger!AcceptNew, Ledger!AcceptRepeat, Ledger!lvars,
         Stored, Accepted
<1>2. ASSUME NEW r \in Request, AppendLine(r)
      PROVE  \E x \in EventId \X Body :
               Stored' = Stored \cup {x} /\ UNCHANGED <<Accepted, fresh>>
  <2> DEFINE x == EntryOf(job[r])
  <2>1. /\ x \in EventId \X Body /\ x[1] = job[r].ev /\ x[2] = job[r].item
        /\ log' = [log EXCEPT ![x[1]] = Append(@, x[2])]
    BY ZenonT(30), <1>0, <1>2 DEF AppendLine, EntryOf, WellFormed, IngestStep
  <2>2. Written(Append(log[x[1]], x[2])) = Written(log[x[1]]) \cup {x[2]}
    <3>1. x[2] \in Body /\ log[x[1]] \in File /\ x[2] # NL
      BY ZenonT(30), <1>0, <2>1, LineLogAssumption
    <3> HIDE DEF x
    <3> QED
      BY ZenonT(30), <3>1, WrittenAppend
  <2> HIDE DEF x
  <2>3. Stored' = Stored \cup {x}
    <3>1. \A y \in EventId \X Body :
            y[2] \in Written(log'[y[1]]) <=> y[2] \in Written(log[y[1]]) \/ y = x
      BY <1>0, <2>1, <2>2
    <3> QED
      BY ZenonT(30), <2>1, <3>1 DEF Stored
  <2>4. UNCHANGED <<Accepted, fresh>>
    BY ZenonT(30), <1>2 DEF AppendLine, Accepted
  <2> QED
    BY ZenonT(30), <2>1, <2>3, <2>4
<1>3. ASSUME NEW r \in Request, AppendNewline(r)
      PROVE  UNCHANGED <<Stored, Accepted, fresh>>
  <2>1. log' = [log EXCEPT ![job[r].ev] = Append(@, NL)]
    BY ZenonT(30), <1>3 DEF AppendNewline
  <2>2. \A e \in EventId : Written(log'[e]) = Written(log[e])
    <3>1. \A f \in File : Written(Append(f, NL)) = Written(f)
      BY ZenonT(30), WrittenAppend
    <3> QED
      BY ZenonT(30), <1>0, <2>1, <3>1
  <2> QED
    BY ZenonT(30), <1>3, <2>2 DEF AppendNewline, Stored, Accepted
<1>4. ASSUME NEW r \in Request, Respond(r)
      PROVE  \/ UNCHANGED <<Stored, Accepted, fresh>>
             \/ \E x \in EventId \X Body :
                    \/ /\ x \in Stored /\ fresh[x] = 0
                       /\ Accepted' = Accepted \cup {x}
                       /\ fresh' = [fresh EXCEPT ![x] = 1]
                       /\ UNCHANGED Stored
                    \/ /\ x \in Stored
                       /\ Accepted' = Accepted \cup {x}
                       /\ UNCHANGED <<Stored, fresh>>
  <2> DEFINE x == EntryOf(job[r])
  <2>1. UNCHANGED Stored /\ pc[r] = "respond"
    BY ZenonT(30), <1>4 DEF Respond, Stored
  <2>2. CASE job[r].status \notin {201, 202}
    BY ZenonT(30), <1>4, <2>1, <2>2 DEF Respond, Accepted
  <2>3. CASE job[r].status \in {201, 202} /\ job[r].op # "ingest"
    <3>1. job[r].status # 202
      BY ZenonT(30), <2>1, <2>3 DEF ServiceInv, OneRecorder
    <3>2. acked' = acked \cup {Change(job[r])} /\ UNCHANGED fresh
      BY ZenonT(30), <1>4, <2>3, <3>1 DEF Respond
    <3>3. UNCHANGED Accepted
      <4>1. \A y \in EventId \X Body :
              [op |-> "ingest", ev |-> y[1], item |-> y[2]] # Change(job[r])
        BY ZenonT(30), <2>3 DEF Change
      <4> QED
        BY ZenonT(30), <3>2, <4>1 DEF Accepted
    <3> QED
      BY ZenonT(30), <2>1, <3>2, <3>3
  <2>4. CASE job[r].status \in {201, 202} /\ job[r].op = "ingest"
    <3>1. x \in EventId \X Body /\ x[1] = job[r].ev /\ x[2] = job[r].item
      BY ZenonT(30), <1>0, <2>1, <2>4 DEF EntryOf, WellFormed
    <3>2. x[2] \in Range(mem.captured[x[1]])
      <4>1. Holds(mem, Change(job[r]))
        BY ZenonT(30), <2>1, <2>4 DEF ServiceInv, ChangeInStore
      <4>2. Change(job[r]) = [op |-> "ingest", ev |-> x[1], item |-> x[2]]
        BY ZenonT(30), <2>4, <3>1 DEF Change
      <4> QED
        BY <4>1, <4>2 DEF Holds
    <3>3. x \in Stored
      BY ZenonT(30), <3>1, <3>2 DEF ServiceInv, RecordedIsLogged, Stored
    <3>4. acked' = acked \cup {[op |-> "ingest", ev |-> x[1], item |-> x[2]]}
      BY ZenonT(30), <1>4, <2>4, <3>1 DEF Respond, Change
    <3>5. Accepted' = Accepted \cup {x}
      <4> HIDE DEF x
      <4>1. \A y \in EventId \X Body :
              [op |-> "ingest", ev |-> y[1], item |-> y[2]]
                = [op |-> "ingest", ev |-> x[1], item |-> x[2]] => y = x
        BY <3>1
      <4> QED
        BY ZenonT(30), <3>1, <3>4, <4>1 DEF Accepted
    <3>6. CASE job[r].status = 202 /\ ~job[r].dup
      <4>1. fresh[x] = 0
        BY ZenonT(30), <2>1, <2>4, <3>6 DEF ServiceInv, OneRecorder, WillAnnounce
      <4>2. fresh' = [fresh EXCEPT ![x] = fresh[x] + 1]
        BY ZenonT(30), <1>4, <3>6 DEF Respond, EntryOf
      <4>3. fresh' = [fresh EXCEPT ![x] = 1]
        BY SMTT(30), Z3T(30), <4>1, <4>2
      <4> HIDE DEF x
      <4> QED
        BY ZenonT(30), <2>1, <3>1, <3>3, <3>5, <4>1, <4>3
    <3>7. CASE ~(job[r].status = 202 /\ ~job[r].dup)
      <4>1. UNCHANGED fresh
        BY ZenonT(30), <1>4, <3>7 DEF Respond
      <4> QED
        BY ZenonT(30), <2>1, <3>1, <3>3, <3>5, <4>1
    <3> QED
      BY ZenonT(30), <3>6, <3>7
  <2> QED
    BY ZenonT(30), <2>2, <2>3, <2>4
<1>5. CASE UNCHANGED <<log, acked, fresh>>
  BY ZenonT(30), <1>5 DEF Stored, Accepted
<1>6. CASE UNCHANGED log
  BY ZenonT(30), <1>4, <1>5, <1>6, AckSteps
<1> QED
  BY ZenonT(30), <1>2, <1>3, <1>6, LogSteps

\* The event service implements AcceptedLedger: the writes of a line's text
\* store an entry, the answers 202 accept it, and every other step, kills and
\* restarts among them, leaves the ledger as it is.
THEOREM ServiceImplementsLedger == Spec => ImplementsLedger
<1>1. Init => Ledger!Init
  BY DEF Init, Ledger!Init, Written
<1>2. TypeOK /\ ServiceInv /\ [Next]_vars => [Ledger!Next]_(Ledger!lvars)
  BY ZenonT(30), LedgerStep
<1> QED
  BY <1>1, <1>2, TypeCorrect, ServiceCorrect, PTL DEF Spec, ImplementsLedger, Ledger!Spec
-----------------------------------------------------------------------------
(***************************************************************************)
(* What the log, the counters and the public pages show.                   *)
(***************************************************************************)
\* Handler r has written the text of body b to the log of contest e, and not yet
\* its end.
Writing(r, e, b) == pc[r] = "newline" /\ job[r].ev = e /\ job[r].item = b

\* A log that no writer abandoned has one body per line, and only a line that is
\* being written has no end.
LineInv ==
  \A e \in EventId \ abandoned :
    /\ ~Glued(log[e])
    /\ Unterminated(log[e]) => \E r \in Request : pc[r] = "newline" /\ job[r].ev = e

\* A body in the log that was not orphaned is recorded where the duplicate check
\* finds it, in memory, or after a kill in the store file; or it is about to be.
CopyInv ==
  /\ \A e \in EventId : \A b \in Written(log[e]) :
       <<e, b>> \notin orphan =>
         /\ up  => b \in Range(mem.captured[e]) \/ \E r \in Request : Writing(r, e, b)
         /\ ~up => b \in Range(disk.captured[e])
  /\ RepeatedOnlyIfOrphaned

\* The counters of both stores are the numbers of the bodies recorded.
Counted(store) ==
  \A e \in EventId : store.counts[e] = Cardinality(Range(store.captured[e]))

CountInv == Counted(mem) /\ Counted(disk)

\* A handler beyond the fetch of the manifest has seen the one its body names.
VouchInv ==
  /\ served \in vouched \cup {None}
  /\ \A r \in Request :
       pc[r] \in {"receipt", "relock", "append", "newline"} /\ job[r].item \in Attested
         => ManifestOf[job[r].item] \in vouched
  /\ AttestedWasVouched

\* A page under way expects bodies of its team that are in the log already.
PageInv ==
  /\ \A q \in Reader : rpc[q] = "read" =>
       /\ card[q].status = 0
       /\ card[q].expect \subseteq Written(log[card[q].ev])
       /\ \A b \in card[q].expect : TeamOf[b] = card[q].team
  /\ CardShowsAcked
-----------------------------------------------------------------------------
\* History only grows.
LEMMA HistoryGrows ==
  ASSUME [Next]_vars
  PROVE  orphan \subseteq orphan' /\ abandoned \subseteq abandoned' /\ vouched \subseteq vouched'
BY ZenonT(60)
   DEF Next, Handle, CreateEvent, CreateTeam, IngestReceive, IngestLookup,
       FetchManifest, FetchReceipt, IngestRelock, AppendLine, AppendNewline,
       AppendFails, SaveTruncate, SaveWrite, SaveFails, Respond, Disconnect, CardStart,
       CardRead, GatewayServes, Crash, Restart, RestartFails, vars, ghosts

\* A handler between the two writes of a line stays there until it writes the
\* line's end, fails to, or is killed.
LEMMA WriterStays ==
  ASSUME JobOK, [Next]_vars, NEW s \in Request, pc[s] = "newline"
  PROVE  \/ pc'[s] = "newline" /\ job'[s] = job[s]
         \/ AppendNewline(s)
         \/ /\ AppendFails(s) /\ <<job[s].ev, job[s].item>> \in orphan'
            /\ job[s].ev \in abandoned'
         \/ Crash
<1>1. ASSUME NEW r \in Request, Handle(r), r # s
      PROVE  pc'[s] = "newline" /\ job'[s] = job[s]
  BY ZenonT(30), <1>1, OthersStay
<1>2. CASE Handle(s)
  <2>1. AppendNewline(s) \/ AppendFails(s)
    BY ZenonT(30), <1>2
       DEF Handle, CreateEvent, CreateTeam, IngestReceive, IngestLookup, FetchManifest,
           FetchReceipt, IngestRelock, AppendLine, SaveTruncate, SaveWrite, SaveFails,
           Respond, Disconnect
  <2>2. AppendFails(s) => /\ <<job[s].ev, job[s].item>> \in orphan'
                          /\ job[s].ev \in abandoned'
    BY ZenonT(30) DEF AppendFails
  <2> QED
    BY ZenonT(30), <2>1, <2>2
<1> QED
  BY ZenonT(30), <1>1, <1>2, EnvironmentStays DEF Restart

\* What a write at the end of a contest's log is.
LEMMA WriteSteps ==
  ASSUME TypeOK, NEW r \in Request
  PROVE  /\ AppendLine(r) \/ AppendNewline(r) =>
              /\ job[r].ev \in EventId /\ job[r].item \in Body /\ job'[r] = job[r]
              /\ pc[r] \in {"append", "newline"}
         /\ AppendLine(r) => /\ pc[r] = "append" /\ pc'[r] = "newline"
                             /\ log' = [log EXCEPT ![job[r].ev] = Append(@, job[r].item)]
         /\ AppendNewline(r) => /\ pc[r] = "newline"
                                /\ log' = [log EXCEPT ![job[r].ev] = Append(@, NL)]
BY ZenonT(30) DEF TypeOK, JobOK, WellFormed, IngestStep, AppendLine, AppendNewline, Goto

\* LineInv, over every step.
LEMMA LineStep ==
  ASSUME TypeOK, [Next]_vars, Locked, LineInv
  PROVE  LineInv'
<1>0. JobOK /\ log \in [EventId -> File] /\ NL \notin Body
  BY ZenonT(30), LineLogAssumption DEF TypeOK, StoreOK
<1> SUFFICES ASSUME NEW e \in EventId, e \notin abandoned'
             PROVE  /\ ~Glued(log'[e])
                    /\ Unterminated(log'[e]) =>
                         \E r \in Request : pc'[r] = "newline" /\ job'[r].ev = e
  BY ZenonT(30) DEF LineInv
<1>1. /\ ~Glued(log[e]) /\ log[e] \in File
      /\ Unterminated(log[e]) => \E r \in Request : pc[r] = "newline" /\ job[r].ev = e
  BY ZenonT(30), <1>0, HistoryGrows DEF LineInv
<1>2. ASSUME NEW r \in Request, AppendLine(r)
      PROVE  /\ ~Glued(log'[e])
             /\ Unterminated(log'[e]) => pc'[r] = "newline" /\ job'[r].ev = e
  <2>1. /\ job[r].ev \in EventId /\ job[r].item \in Body /\ job'[r] = job[r]
        /\ pc[r] = "append" /\ pc'[r] = "newline"
        /\ log' = [log EXCEPT ![job[r].ev] = Append(@, job[r].item)]
    BY ZenonT(30), <1>2, WriteSteps
  <2>2. ~Unterminated(log[e])
    BY ZenonT(30), <1>1, <2>1 DEF Locked, HoldStep
  <2>3. CASE e # job[r].ev
    BY ZenonT(30), <1>0, <1>1, <2>1, <2>2, <2>3
  <2>4. CASE e = job[r].ev
    <3>1. log'[e] = Append(log[e], job[r].item) /\ job[r].item # NL
      BY ZenonT(30), <1>0, <2>1, <2>4
    <3> DEFINE f == log[e]
               x == job[r].item
    <3>2. f \in File /\ x \in Body \cup {NL} /\ x # NL
      BY ZenonT(30), <1>1, <2>1, <3>1
    <3> HIDE DEF f, x
    <3>3. Glued(Append(f, x)) <=> Glued(f) \/ (x # NL /\ Unterminated(f))
      BY ZenonT(30), <3>2, LinesAppend
    <3>4. ~Glued(log'[e])
      BY ZenonT(30), <1>1, <2>2, <3>1, <3>3 DEF f, x
    <3> QED
      BY ZenonT(30), <2>1, <2>4, <3>4
  <2> QED
    BY ZenonT(30), <2>3, <2>4
<1>3. ASSUME NEW r \in Request, AppendNewline(r)
      PROVE  /\ ~Glued(log'[e])
             /\ Unterminated(log'[e]) =>
                  \E s \in Request : pc'[s] = "newline" /\ job'[s].ev = e
  <2>1. /\ job[r].ev \in EventId /\ pc[r] = "newline"
        /\ log' = [log EXCEPT ![job[r].ev] = Append(@, NL)]
    BY ZenonT(30), <1>3, WriteSteps
  <2>2. CASE e # job[r].ev
    <3>1. log'[e] = log[e]
      BY ZenonT(30), <1>0, <2>1, <2>2
    <3>2. ~Unterminated(log[e])
      BY ZenonT(30), <1>1, <2>1, <2>2 DEF Locked, HoldStep
    <3> QED
      BY ZenonT(30), <1>1, <3>1, <3>2
  <2>3. CASE e = job[r].ev
    <3>1. log'[e] = Append(log[e], NL)
      BY ZenonT(30), <1>0, <2>1, <2>3
    <3>2. ~Glued(log'[e]) /\ ~Unterminated(log'[e])
      BY ZenonT(30), <1>1, <3>1, LinesAppend
    <3> QED
      BY ZenonT(30), <3>2
  <2> QED
    BY ZenonT(30), <2>2, <2>3
<1>4. CASE UNCHANGED log /\ ~\E r \in Request : AppendNewline(r)
  <2>1. ASSUME Crash PROVE ~Unterminated(log[e])
    BY ZenonT(30), <2>1 DEF Crash
  <2>2. ASSUME NEW r \in Request, pc[r] = "newline", job[r].ev = e, ~Crash
        PROVE  pc'[r] = "newline" /\ job'[r].ev = e
    BY ZenonT(30), <1>0, <1>4, <2>2, WriterStays
  <2> QED
    BY ZenonT(30), <1>1, <1>4, <2>1, <2>2
<1> QED
  BY ZenonT(30), <1>2, <1>3, <1>4, LogSteps
-----------------------------------------------------------------------------
(***************************************************************************)
(* The counters.                                                           *)
(***************************************************************************)
LEMMA RangeFinite ==
  ASSUME NEW S, NEW s \in Seq(S)
  PROVE  IsFiniteSet(Range(s))
<1>0. Len(s) \in Nat
  OBVIOUS
<1>1. s \in [1..Len(s) -> Range(s)] /\ Range(s) = {s[i] : i \in 1..Len(s)}
  BY DEF Range
<1>2. IsFiniteSet(1..Len(s))
  BY <1>0, FS_Interval
<1>3. s \in Surjection(1..Len(s), Range(s))
  BY ZenonT(30), <1>1 DEF Surjection
<1> QED
  BY ZenonT(30), <1>2, <1>3, FS_Surjection

\* Only the end of a save changes the content of the store file.
LEMMA DiskSteps ==
  ASSUME [Next]_vars
  PROVE  UNCHANGED disk \/ \E r \in Request : SaveWrite(r)
BY ZenonT(60)
   DEF Next, Handle, CreateEvent, CreateTeam, IngestReceive, IngestLookup,
       FetchManifest, FetchReceipt, IngestRelock, AppendLine, AppendNewline,
       AppendFails, SaveTruncate, SaveFails, Respond, Disconnect,
       CardStart, CardRead, GatewayServes, Crash, Restart, RestartFails, vars, storeVars

\* The end of a line is written together with the record.
LEMMA RecordStep ==
  ASSUME TypeOK, NEW r \in Request, AppendNewline(r)
  PROVE  /\ mem'.captured = [mem.captured EXCEPT ![job[r].ev] = Append(@, job[r].item)]
         /\ mem'.counts = [mem.counts EXCEPT ![job[r].ev] = @ + 1]
BY ZenonT(30) DEF TypeOK, StoreOK, AppendNewline, Record, StoreType

\* What each step does to the hashes on record in memory.
LEMMA CapturedSteps ==
  ASSUME TypeOK, [Next]_vars
  PROVE  \/ mem'.captured = mem.captured /\ mem'.counts = mem.counts
         \/ \E r \in Request : AppendNewline(r)
         \/ Crash
         \/ Restart
<1>0. mem \in StoreType
  BY ZenonT(30) DEF TypeOK, StoreOK
<1>1. ASSUME NEW r \in Request, CreateEvent(r) \/ CreateTeam(r)
      PROVE  mem'.captured = mem.captured /\ mem'.counts = mem.counts
  BY ZenonT(30), <1>0, <1>1 DEF CreateEvent, CreateTeam, StoreType
<1> QED
  BY ZenonT(30), <1>1, MemSteps

\* CountInv, over every step.
LEMMA CountStep ==
  ASSUME TypeOK, [Next]_vars, OneRecorder, CountInv
  PROVE  CountInv'
<1>0. mem \in StoreType /\ disk \in StoreType /\ Counted(mem) /\ Counted(disk)
  BY ZenonT(30) DEF TypeOK, StoreOK, CountInv
<1>1. Counted(disk')
  BY ZenonT(30), <1>0, DiskSteps DEF SaveWrite
<1>2. CASE mem'.captured = mem.captured /\ mem'.counts = mem.counts
  BY ZenonT(30), <1>0, <1>1, <1>2 DEF CountInv, Counted
<1>3. ASSUME NEW r \in Request, AppendNewline(r) PROVE Counted(mem')
  <2> DEFINE d == job[r].ev
             b == job[r].item
             s == mem.captured[d]
  <2>1. d \in EventId /\ b \in Body /\ pc[r] = "newline" /\ s \in Seq(Body)
    BY ZenonT(30), <1>0, <1>3, WriteSteps DEF StoreType
  <2>2. b \notin Range(s)
    BY ZenonT(30), <2>1 DEF OneRecorder
  <2> HIDE DEF d, b, s
  <2>a. Range(Append(s, b)) = Range(s) \cup {b}
    BY <2>1, RangeAppend
  <2>3. IsFiniteSet(Range(s))
    BY ZenonT(30), <2>1, RangeFinite
  <2>4. Cardinality(Range(Append(s, b))) = Cardinality(Range(s)) + 1
    BY ZenonT(30), <2>a, <2>2, <2>3, FS_AddElement
  <2>5. mem.counts[d] = Cardinality(Range(s))
    BY ZenonT(30), <1>0, <2>1 DEF Counted, s
  <2>b. /\ mem'.captured = [mem.captured EXCEPT ![d] = Append(@, b)]
        /\ mem'.counts = [mem.counts EXCEPT ![d] = @ + 1]
        /\ d \in DOMAIN mem.captured /\ d \in DOMAIN mem.counts
        /\ DOMAIN mem.captured = EventId /\ DOMAIN mem.counts = EventId
    BY ZenonT(30), <1>0, <1>3, <2>1, RecordStep DEF StoreType, d, b
  <2>6. mem'.captured[d] = Append(s, b) /\ mem'.counts[d] = mem.counts[d] + 1
    BY ZenonT(30), <2>b DEF s
  <2>7. \A e \in EventId \ {d} : mem'.captured[e] = mem.captured[e] /\ mem'.counts[e] = mem.counts[e]
    BY ZenonT(30), <2>b
  <2> QED
    BY ZenonT(30), <1>0, <2>4, <2>5, <2>6, <2>7 DEF Counted
<1>4. CASE Crash
  <2>1. Cardinality(Range(<<>>)) = 0
    <3>1. Range(<<>>) = {}
      BY DEF Range
    <3> QED
      BY ZenonT(30), <3>1, FS_EmptySet
  <2>2. mem'.counts = [e \in EventId |-> 0] /\ mem'.captured = [e \in EventId |-> <<>>]
    BY ZenonT(30), <1>4 DEF Crash, EmptyStore
  <2>3. Counted(mem')
    BY ZenonT(30), <2>1, <2>2 DEF Counted
  <2> QED
    BY ZenonT(30), <1>1, <2>3 DEF CountInv, Counted
<1>5. CASE Restart
  BY ZenonT(30), <1>0, <1>1, <1>5 DEF Restart, CountInv, Counted
<1> QED
  BY ZenonT(30), <1>1, <1>2, <1>3, <1>4, <1>5, CapturedSteps DEF CountInv, Counted
-----------------------------------------------------------------------------
(***************************************************************************)
(* A body is in the log twice only if it was orphaned.                     *)
(***************************************************************************)

\* A write repeats only what is in the file already.
LEMMA RepeatAppend ==
  ASSUME NEW f \in File, NEW x \in Body \cup {NL}, NEW g, g = Append(f, x),
         NEW i \in 1..Len(g), NEW j \in 1..Len(g), i # j, g[i] = g[j], g[i] # NL
  PROVE  \/ i \in 1..Len(f) /\ j \in 1..Len(f) /\ f[i] = g[i] /\ f[j] = g[j]
         \/ g[i] = x /\ x # NL /\ x \in Written(f)
<1>1. /\ Len(f) \in Nat /\ Len(g) = Len(f) + 1 /\ g[Len(f) + 1] = x
      /\ \A k \in 1..Len(f) : g[k] = f[k]
  BY DEF File
<1>2. \A k \in 1..Len(f) : f[k] # NL => f[k] \in Written(f)
  BY ZenonT(30) DEF Written
<1> QED
  BY <1>1, <1>2

\* What is written to a log are bodies.
LEMMA WrittenIsBody ==
  ASSUME NEW f \in File
  PROVE  Written(f) \subseteq Body
BY DEF File, Written

\* The service is up until it is killed, and down until it is started.
LEMMA UpSteps ==
  ASSUME [Next]_vars
  PROVE  UNCHANGED up \/ Crash \/ Restart
BY ZenonT(60)
   DEF Next, Handle, CreateEvent, CreateTeam, IngestReceive, IngestLookup,
       FetchManifest, FetchReceipt, IngestRelock, AppendLine, AppendNewline,
       AppendFails, SaveTruncate, SaveWrite, SaveFails, Respond, Disconnect,
       CardStart, CardRead, GatewayServes, RestartFails, vars

\* The first half of CopyInv, of one body.
LEMMA RecordedStep ==
  ASSUME TypeOK, [Next]_vars, ChangeInStore, Locked, CopyInv,
         NEW e \in EventId, NEW b \in Written(log'[e]), <<e, b>> \notin orphan'
  PROVE  /\ up'  => \/ b \in Range(mem'.captured[e])
                    \/ \E r \in Request : Writing(r, e, b)'
         /\ ~up' => b \in Range(disk'.captured[e])
<1>0. /\ JobOK /\ log \in [EventId -> File] /\ mem \in StoreType
      /\ <<e, b>> \notin orphan
  BY ZenonT(30), HistoryGrows DEF TypeOK, StoreOK
<1>1. b \in Written(log[e]) =>
        /\ up  => b \in Range(mem.captured[e]) \/ \E r \in Request : Writing(r, e, b)
        /\ ~up => b \in Range(disk.captured[e])
  BY ZenonT(30), <1>0 DEF CopyInv
<1>2. ASSUME NEW r \in Request, AppendLine(r)
      PROVE  up' /\ (b \in Range(mem'.captured[e]) \/ \E s \in Request : Writing(s, e, b)')
  <2>1. /\ job[r].ev \in EventId /\ job[r].item \in Body /\ job'[r] = job[r]
        /\ pc[r] = "append" /\ pc'[r] = "newline"
        /\ log' = [log EXCEPT ![job[r].ev] = Append(@, job[r].item)]
        /\ UNCHANGED <<up, mem>>
    BY ZenonT(30), <1>2, WriteSteps DEF AppendLine
  <2>2. up /\ ~\E s \in Request : Writing(s, e, b)
    BY ZenonT(30), <2>1 DEF ChangeInStore, Locked, HoldStep, Writing
  <2>3. CASE e = job[r].ev /\ b = job[r].item
    BY ZenonT(30), <2>1, <2>2, <2>3 DEF Writing
  <2>4. CASE ~(e = job[r].ev /\ b = job[r].item)
    <3>1. b \in Written(log[e])
      <4>1. CASE e # job[r].ev
        BY ZenonT(30), <1>0, <2>1, <4>1
      <4>2. CASE e = job[r].ev
        <5>1. Written(log'[e]) = Written(log[e]) \cup ({job[r].item} \ {NL})
          BY ZenonT(30), <1>0, <2>1, <4>2, WrittenAppend
        <5> QED
          BY ZenonT(30), <2>4, <4>2, <5>1
      <4> QED
        BY ZenonT(30), <4>1, <4>2
    <3> QED
      BY ZenonT(30), <1>1, <2>1, <2>2, <3>1
  <2> QED
    BY ZenonT(30), <2>3, <2>4
<1>3. ASSUME NEW r \in Request, AppendNewline(r)
      PROVE  up' /\ b \in Range(mem'.captured[e])
  <2>1. /\ job[r].ev \in EventId /\ job[r].item \in Body /\ pc[r] = "newline"
        /\ log' = [log EXCEPT ![job[r].ev] = Append(@, NL)]
        /\ UNCHANGED up
    BY ZenonT(30), <1>3, WriteSteps DEF AppendNewline
  <2>2. up /\ \A s \in Request : Writing(s, e, b) => s = r
    BY ZenonT(30), <2>1 DEF ChangeInStore, Locked, HoldStep, Writing
  <2>3. b \in Written(log[e])
    BY <1>0, <2>1, WrittenAppend
  <2>4. b \in Range(mem.captured[e]) \/ (e = job[r].ev /\ b = job[r].item)
    BY ZenonT(30), <1>1, <2>2, <2>3 DEF Writing
  <2>5. mem.captured \in [EventId -> Seq(Body)]
    BY ZenonT(30), <1>0 DEF StoreType
  <2>6. CASE e # job[r].ev
    BY ZenonT(30), <1>3, <2>1, <2>2, <2>4, <2>5, <2>6, RecordStep
  <2>7. CASE e = job[r].ev
    <3>1. mem'.captured[e] = Append(mem.captured[e], job[r].item)
      BY ZenonT(30), <1>3, <2>5, <2>7, RecordStep
    <3>2. Range(mem'.captured[e]) = Range(mem.captured[e]) \cup {job[r].item}
      BY <2>1, <2>5, <3>1, RangeAppend
    <3> QED
      BY ZenonT(30), <2>1, <2>2, <2>4, <3>2
  <2> QED
    BY ZenonT(30), <2>6, <2>7
<1>4. CASE UNCHANGED log /\ ~\E r \in Request : AppendNewline(r)
  <2>1. CASE Crash
    <3>1. b \in Body
      BY ZenonT(30), <1>0, <1>4, WrittenIsBody
    <3>2. <<e, b>> \in EventId \X Body /\ <<e, b>>[1] = e /\ <<e, b>>[2] = b
      BY ZenonT(30), <3>1
    <3>3. b \in Range(disk.captured[e])
      BY ZenonT(30), <1>4, <2>1, <3>2 DEF Crash
    <3> QED
      BY ZenonT(30), <2>1, <3>3 DEF Crash
  <2>2. CASE Restart
    BY ZenonT(30), <1>1, <1>4, <2>2 DEF Restart
  <2>3. CASE UNCHANGED up /\ mem'.captured = mem.captured /\ ~Crash
    <3>1. \A r \in Request : Writing(r, e, b) => Writing(r, e, b)'
      BY ZenonT(30), <1>0, <1>4, <2>3, WriterStays DEF Writing
    <3>2. ~up => UNCHANGED disk
      BY ZenonT(30), DiskSteps DEF SaveWrite, ChangeInStore
    <3> QED
      BY ZenonT(30), <1>1, <1>4, <2>3, <3>1, <3>2
  <2> QED
    BY ZenonT(30), <1>4, <2>1, <2>2, <2>3, UpSteps, CapturedSteps
<1> QED
  BY ZenonT(30), <1>2, <1>3, <1>4, LogSteps

\* CopyInv, over every step.
LEMMA CopyStep ==
  ASSUME TypeOK, [Next]_vars, ChangeInStore, OneRecorder, CopyInv
  PROVE  CopyInv'
<1>0. /\ JobOK /\ log \in [EventId -> File] /\ Locked /\ RepeatedOnlyIfOrphaned
      /\ orphan \subseteq orphan'
  BY ZenonT(30), HistoryGrows DEF TypeOK, StoreOK, OneRecorder, Locked, CopyInv
<1>1. \A e \in EventId : \A b \in Written(log'[e]) :
        <<e, b>> \notin orphan' =>
          /\ up' => \/ b \in Range(mem'.captured[e])
                    \/ \E r \in Request : Writing(r, e, b)'
          /\ ~up' => b \in Range(disk'.captured[e])
  BY ZenonT(30), <1>0, RecordedStep
<1>2. ASSUME NEW e \in EventId, NEW i \in 1..Len(log'[e]), NEW j \in 1..Len(log'[e]),
             i # j, log'[e][i] = log'[e][j], log'[e][i] # NL
      PROVE  <<e, log'[e][i]>> \in orphan'
  <2>1. CASE log'[e] = log[e]
    BY ZenonT(30), <1>0, <1>2, <2>1 DEF RepeatedOnlyIfOrphaned
  <2>2. ASSUME NEW x \in Body \cup {NL}, log'[e] = Append(log[e], x),
               x \in Written(log[e]) => <<e, x>> \in orphan
        PROVE  <<e, log'[e][i]>> \in orphan'
    <3>1. \/ /\ i \in 1..Len(log[e]) /\ j \in 1..Len(log[e])
             /\ log[e][i] = log'[e][i] /\ log[e][j] = log'[e][j]
          \/ log'[e][i] = x /\ x # NL /\ x \in Written(log[e])
      <4> DEFINE f == log[e]
                 g == log'[e]
      <4>1. /\ f \in File /\ g = Append(f, x) /\ i \in 1..Len(g) /\ j \in 1..Len(g)
            /\ g[i] = g[j] /\ g[i] # NL
        BY ZenonT(30), <1>0, <1>2, <2>2
      <4> HIDE DEF f, g
      <4>2. \/ i \in 1..Len(f) /\ j \in 1..Len(f) /\ f[i] = g[i] /\ f[j] = g[j]
            \/ g[i] = x /\ x # NL /\ x \in Written(f)
        BY <1>2, <4>1, RepeatAppend
      <4> QED
        BY ZenonT(30), <4>2 DEF f, g
    <3> QED
      BY ZenonT(30), <1>0, <1>2, <2>2, <3>1 DEF RepeatedOnlyIfOrphaned
  <2>3. ASSUME NEW r \in Request, AppendLine(r), e = job[r].ev
        PROVE  <<e, log'[e][i]>> \in orphan'
    <3>1. /\ job[r].item \in Body /\ pc[r] = "append"
          /\ log'[e] = Append(log[e], job[r].item)
      BY ZenonT(30), <1>0, <2>3, WriteSteps
    <3>2. /\ up /\ job[r].item \notin Range(mem.captured[e])
          /\ ~\E s \in Request : Writing(s, e, job[r].item)
      BY ZenonT(30), <1>0, <2>3, <3>1
         DEF ChangeInStore, OneRecorder, Locked, HoldStep, Writing
    <3>3. job[r].item \in Written(log[e]) => <<e, job[r].item>> \in orphan
      BY ZenonT(30), <3>2 DEF CopyInv
    <3> QED
      BY ZenonT(30), <2>2, <3>1, <3>3
  <2>4. ASSUME NEW r \in Request, AppendNewline(r), e = job[r].ev
        PROVE  <<e, log'[e][i]>> \in orphan'
    <3>1. log'[e] = Append(log[e], NL)
      BY ZenonT(30), <1>0, <2>4, WriteSteps
    <3>2. NL \notin Written(log[e])
      BY ZenonT(30) DEF Written
    <3> QED
      BY ZenonT(30), <2>2, <3>1, <3>2
  <2>5. ASSUME NEW r \in Request, AppendLine(r) \/ AppendNewline(r), e # job[r].ev
        PROVE  log'[e] = log[e]
    BY ZenonT(30), <1>0, <2>5, WriteSteps
  <2> QED
    BY ZenonT(30), <2>1, <2>3, <2>4, <2>5, LogSteps
<1> QED
  BY ZenonT(30), <1>1, <1>2 DEF CopyInv, RepeatedOnlyIfOrphaned
-----------------------------------------------------------------------------
(***************************************************************************)
(* An attested body in a log was vouched for.                              *)
(***************************************************************************)

\* An attested body comes past the fetch of the manifest only with the one it
\* names, and a handler keeps its body.
LEMMA ValidatedStep ==
  ASSUME TypeOK, NEW r \in Request, Handle(r),
         pc'[r] \in {"receipt", "relock", "append", "newline"}
  PROVE  /\ job'[r].item = job[r].item
         /\ \/ pc[r] \in {"receipt", "relock", "append"}
            \/ pc[r] = "manifest" /\ ManifestMatches(job[r].item)
            \/ pc[r] = "lookup" /\ job[r].item \notin Attested
<1> USE DEF TypeOK, JobOK, JobType, Goto, Answer, Begin
<1>1. CASE CreateEvent(r)
  BY ZenonT(30), <1>1 DEF CreateEvent
<1>2. CASE CreateTeam(r)
  BY <1>2 DEF CreateTeam
<1>3. CASE IngestReceive(r)
  BY ZenonT(30), <1>3 DEF IngestReceive
<1>4. CASE IngestLookup(r)
  BY <1>4 DEF IngestLookup
<1>5. CASE FetchManifest(r)
  BY <1>5 DEF FetchManifest
<1>6. CASE FetchReceipt(r)
  BY <1>6 DEF FetchReceipt
<1>7. CASE IngestRelock(r)
  BY <1>7 DEF IngestRelock
<1>8. CASE AppendLine(r) \/ AppendNewline(r)
  BY ZenonT(30), <1>8 DEF AppendLine, AppendNewline
<1>9. CASE AppendFails(r)
  BY ZenonT(30), <1>9 DEF AppendFails, OnAppendError
<1>10. CASE SaveTruncate(r) \/ SaveWrite(r) \/ SaveFails(r)
  BY <1>10 DEF SaveTruncate, SaveWrite, SaveFails, OnSaveError
<1>11. CASE Respond(r) \/ Disconnect(r)
  BY ZenonT(30), <1>11 DEF Respond, Disconnect
<1> QED
  BY ZenonT(30), <1>1, <1>2, <1>3, <1>4, <1>5, <1>6, <1>7, <1>8, <1>9, <1>10, <1>11
     DEF Handle

\* VouchInv, over every step.
LEMMA VouchStep ==
  ASSUME TypeOK, TypeOK', [Next]_vars, VouchInv
  PROVE  VouchInv'
<1> USE EventServiceAssumption
<1>0. JobOK /\ log \in [EventId -> File] /\ vouched \subseteq vouched'
  BY ZenonT(30), HistoryGrows DEF TypeOK, StoreOK
<1>1. served' \in vouched' \cup {None}
  <2>1. UNCHANGED served \/ GatewayServes
    BY ZenonT(60)
       DEF Next, Handle, CreateEvent, CreateTeam, IngestReceive, IngestLookup,
           FetchManifest, FetchReceipt, IngestRelock, AppendLine, AppendNewline,
           AppendFails, SaveTruncate, SaveWrite, SaveFails, Respond, Disconnect,
           CardStart, CardRead, Crash, Restart, RestartFails, vars
  <2> QED
    BY ZenonT(30), <1>0, <2>1 DEF GatewayServes, VouchInv
<1>2. ASSUME NEW r \in Request, pc'[r] \in {"receipt", "relock", "append", "newline"},
             job'[r].item \in Attested
      PROVE  ManifestOf[job'[r].item] \in vouched'
  <2>1. CASE pc'[r] = pc[r] /\ job'[r] = job[r]
    BY ZenonT(30), <1>0, <1>2, <2>1 DEF VouchInv
  <2>2. CASE Handle(r)
    <3>1. /\ job'[r].item = job[r].item
          /\ \/ pc[r] \in {"receipt", "relock", "append"}
             \/ pc[r] = "manifest" /\ ManifestMatches(job[r].item)
             \/ pc[r] = "lookup" /\ job[r].item \notin Attested
      BY ZenonT(30), <1>2, <2>2, ValidatedStep
    <3>2. ManifestOf[job[r].item] # None
      BY ZenonT(30), <1>2, <3>1
    <3> QED
      BY ZenonT(30), <1>0, <1>2, <3>1, <3>2 DEF VouchInv, ManifestMatches
  <2>3. ~Crash
    BY ZenonT(30), <1>2 DEF Crash
  <2> QED
    BY ZenonT(30), <1>0, <2>1, <2>2, <2>3, OthersStay, EnvironmentStays DEF Restart
<1>3. ASSUME NEW e \in EventId, NEW b \in Attested, b \in Written(log'[e])
      PROVE  ManifestOf[b] \in vouched'
  <2>1. CASE b \in Written(log[e])
    BY ZenonT(30), <1>0, <1>3, <2>1 DEF VouchInv, AttestedWasVouched
  <2>2. ASSUME NEW r \in Request, AppendLine(r), b = job[r].item
        PROVE  ManifestOf[b] \in vouched'
    BY ZenonT(30), <1>0, <1>3, <2>2, WriteSteps DEF VouchInv
  <2>3. ASSUME NEW r \in Request, AppendLine(r), b # job[r].item
        PROVE  b \in Written(log[e])
    <3>1. /\ job[r].ev \in EventId /\ job[r].item \in Body
          /\ log' = [log EXCEPT ![job[r].ev] = Append(@, job[r].item)]
      BY ZenonT(30), <2>3, WriteSteps
    <3> QED
      BY <1>0, <1>3, <2>3, <3>1, WrittenAppend
  <2>4. ASSUME NEW r \in Request, AppendNewline(r)
        PROVE  b \in Written(log[e])
    <3>1. log' = [log EXCEPT ![job[r].ev] = Append(@, NL)]
      BY ZenonT(30), <2>4, WriteSteps
    <3> QED
      BY ZenonT(30), <1>0, <1>3, <3>1, WrittenAppend
  <2>5. CASE UNCHANGED log
    BY ZenonT(30), <1>3, <2>1, <2>5
  <2> QED
    BY ZenonT(30), <2>1, <2>2, <2>3, <2>4, <2>5, LogSteps
<1> QED
  BY ZenonT(30), <1>1, <1>2, <1>3 DEF VouchInv, AttestedWasVouched
-----------------------------------------------------------------------------
(***************************************************************************)
(* A page shows what was acknowledged before it was asked for.             *)
(***************************************************************************)

\* A file with one body per line decodes, and every body in it begins a line.
LEMMA NotGluedDecodes ==
  ASSUME NEW f \in File, ~Glued(f)
  PROVE  ~DecodeFails(f) /\ \A b \in Written(f) : \E i \in LineStarts(f) : f[i] = b
<1>1. Len(f) \in Nat /\ NL \notin Padded
  BY LineLogAssumption DEF File
<1>2. ~DecodeFails(f)
  BY ZenonT(30), <1>1 DEF DecodeFails, Glued
<1>3. \A i \in 1..Len(f) : f[i] # NL => i \in LineStarts(f)
  BY <1>1 DEF LineStarts, Glued
<1> QED
  BY ZenonT(30), <1>2, <1>3 DEF Written

\* Only the two steps of a reader, and a kill, touch its page.
LEMMA PageSteps ==
  ASSUME [Next]_vars
  PROVE  \/ UNCHANGED <<rpc, card>>
         \/ \E q \in Reader : CardStart(q) \/ CardRead(q)
         \/ Crash
BY ZenonT(60)
   DEF Next, Handle, CreateEvent, CreateTeam, IngestReceive, IngestLookup,
       FetchManifest, FetchReceipt, IngestRelock, AppendLine, AppendNewline,
       AppendFails, SaveTruncate, SaveWrite, SaveFails, Respond, Disconnect,
       GatewayServes, Restart, RestartFails, vars

\* PageInv, over every step.
LEMMA PageStep ==
  ASSUME TypeOK, [Next]_vars, AckedSurvivesCrash, RecordedIsLogged, LineInv, PageInv
  PROVE  PageInv'
<1>0. /\ log \in [EventId -> File] /\ rpc \in [Reader -> {"idle", "read"}]
      /\ card \in [Reader -> CardType] /\ abandoned \subseteq abandoned'
      /\ \A q \in Reader : rpc[q] = "read" => card[q].ev \in EventId
  BY ZenonT(30), HistoryGrows DEF TypeOK, StoreOK, CardOK
<1> DEFINE Asked(q) == rpc[q] = "read" =>
                         /\ card[q].status = 0
                         /\ card[q].expect \subseteq Written(log[card[q].ev])
                         /\ \A b \in card[q].expect : TeamOf[b] = card[q].team
           Shown(q) == (card[q].status # 0 /\ card[q].ev \notin abandoned) =>
                         card[q].status = 200 /\ card[q].expect \subseteq card[q].shown
<1>1. \A q \in Reader : Asked(q) /\ Shown(q)
  BY ZenonT(30) DEF PageInv, CardShowsAcked
<1> SUFFICES ASSUME NEW q \in Reader PROVE Asked(q)' /\ Shown(q)'
  BY ZenonT(30) DEF PageInv, CardShowsAcked
<1>2. CASE rpc'[q] = rpc[q] /\ card'[q] = card[q]
  <2>1. rpc[q] = "read" => Written(log[card[q].ev]) \subseteq Written(log'[card[q].ev])
    BY ZenonT(30), <1>0, LogGrows
  <2> QED
    BY ZenonT(30), <1>0, <1>1, <1>2, <2>1
<1>3. CASE CardStart(q)
  <2>1. PICK e \in EventId, t \in Team :
          card'[q] = [ev |-> e, team |-> t, status |-> 0, shown |-> {}, count |-> 0,
                      expect |-> {b \in Body :
                                    /\ TeamOf[b] = t
                                    /\ [op |-> "ingest", ev |-> e, item |-> b] \in acked}]
    <3>1. \A e \in mem.events : e \in EventId /\ mem.teams[e] \subseteq Team
      BY ZenonT(30) DEF TypeOK, StoreOK, StoreType
    <3> QED
      BY ZenonT(30), <1>0, <1>3, <3>1 DEF CardStart
  <2>2. up /\ UNCHANGED log
    BY ZenonT(30), <1>3 DEF CardStart, storeVars
  <2>3. \A b \in card'[q].expect : TeamOf[b] = t /\ b \in Written(log[e])
    <3> SUFFICES ASSUME NEW b \in Body, TeamOf[b] = t,
                        [op |-> "ingest", ev |-> e, item |-> b] \in acked
                 PROVE  b \in Written(log[e])
      BY <2>1
    <3>1. Holds(mem, [op |-> "ingest", ev |-> e, item |-> b])
      BY ZenonT(30), <2>2 DEF AckedSurvivesCrash
    <3>2. b \in Range(mem.captured[e])
      BY ZenonT(30), <3>1 DEF Holds
    <3> QED
      BY ZenonT(30), <3>2 DEF RecordedIsLogged
  <2>4. card'[q].ev = e /\ card'[q].team = t /\ card'[q].status = 0
    BY <2>1
  <2> QED
    BY ZenonT(30), <2>2, <2>3, <2>4
<1>4. CASE CardRead(q)
  <2> DEFINE f    == log[card[q].ev]
             mine == {i \in LineStarts(f) : TeamOf[f[i]] = card[q].team}
  <2>1. rpc[q] = "read" /\ card[q].ev \in EventId /\ f \in File /\ UNCHANGED abandoned
    BY ZenonT(30), <1>0, <1>4 DEF CardRead, ghosts
  <2>2. rpc'[q] = "idle"
    BY ZenonT(30), <1>0, <1>4 DEF CardRead
  <2>3. card'[q] = IF DecodeFails(f)
                     THEN [card[q] EXCEPT !.status = 500]
                     ELSE [card[q] EXCEPT !.status = 200, !.shown = {f[i] : i \in mine},
                                          !.count = Cardinality(mine)]
    BY ZenonT(30), <1>0, <1>4 DEF CardRead
  <2>4. card'[q].ev = card[q].ev /\ card'[q].expect = card[q].expect
    BY <1>0, <2>3 DEF CardType
  <2>5. ASSUME card[q].ev \notin abandoned
        PROVE  card'[q].status = 200 /\ card[q].expect \subseteq card'[q].shown
    <3>1. ~DecodeFails(f) /\ \A b \in Written(f) : \E i \in LineStarts(f) : f[i] = b
      BY ZenonT(30), <2>1, <2>5, NotGluedDecodes DEF LineInv
    <3>2. card'[q].status = 200 /\ card'[q].shown = {f[i] : i \in mine}
      BY <1>0, <2>3, <3>1 DEF CardType
    <3>3. card[q].expect \subseteq {f[i] : i \in mine}
      BY ZenonT(30), <1>1, <2>1, <3>1
    <3> QED
      BY ZenonT(30), <3>2, <3>3
  <2> QED
    BY ZenonT(30), <2>1, <2>2, <2>4, <2>5
<1>5. ASSUME NEW p \in Reader, p # q, CardStart(p) \/ CardRead(p)
      PROVE  rpc'[q] = rpc[q] /\ card'[q] = card[q]
  <2>1. CASE CardStart(p)
    BY ZenonT(30), <1>0, <1>5, <2>1 DEF CardStart
  <2>2. CASE CardRead(p)
    BY ZenonT(30), <1>0, <1>5, <2>2 DEF CardRead
  <2> QED
    BY ZenonT(30), <1>5, <2>1, <2>2
<1>6. CASE Crash
  BY ZenonT(30), <1>6 DEF Crash, NoCard
<1> QED
  BY ZenonT(30), <1>2, <1>3, <1>4, <1>5, <1>6, PageSteps
-----------------------------------------------------------------------------
\* The five together.
ViewInv == LineInv /\ CopyInv /\ CountInv /\ VouchInv /\ PageInv

\* What the log, the counters and the pages show, over every interleaving of
\* handlers and readers, kill, restart and failed write.
THEOREM ViewsCorrect == Spec => []ViewInv
<1>1. Init => ViewInv
  <2> SUFFICES ASSUME Init PROVE ViewInv
    OBVIOUS
  <2>1. /\ Written(<<>>) = {} /\ ~Glued(<<>>) /\ ~Unterminated(<<>>) /\ Range(<<>>) = {}
        /\ 1..Len(<<>>) = {}
    BY DEF Written, Glued, Unterminated, Range
  <2>2. \A e \in EventId : log[e] = <<>>
    BY ZenonT(30) DEF Init
  <2>3. LineInv
    BY ZenonT(30), <2>1, <2>2 DEF LineInv
  <2>4. CopyInv
    BY ZenonT(30), <2>1, <2>2 DEF CopyInv, RepeatedOnlyIfOrphaned
  <2>5. Counted(EmptyStore)
    BY ZenonT(30), <2>1, FS_EmptySet DEF Counted, EmptyStore
  <2>6. VouchInv
    BY ZenonT(30), <2>1, <2>2 DEF Init, VouchInv, AttestedWasVouched
  <2>7. PageInv
    BY ZenonT(30), <2>1, <2>2 DEF Init, PageInv, CardShowsAcked, NoCard
  <2> QED
    BY ZenonT(30), <2>3, <2>4, <2>5, <2>6, <2>7 DEF Init, ViewInv, CountInv
<1>2. TypeOK /\ TypeOK' /\ ServiceInv /\ ViewInv /\ [Next]_vars => ViewInv'
  <2> SUFFICES ASSUME TypeOK, TypeOK', ServiceInv, ViewInv, [Next]_vars PROVE ViewInv'
    OBVIOUS
  <2>1. Locked
    BY ZenonT(30) DEF ServiceInv, OneRecorder, Locked
  <2> QED
    BY ZenonT(30), <2>1, LineStep, CopyStep, CountStep, VouchStep, PageStep
       DEF ServiceInv, ViewInv
<1> QED
  BY <1>1, <1>2, TypeCorrect, ServiceCorrect, PTL DEF Spec

\* The dashboard's counter is the number of different bodies recorded: no two
\* deliveries of a body both come to the push, and a restart reads a counter and
\* a list that were saved together.
THEOREM CountersAreRight == Spec => []CountIsDistinct
<1>1. ViewInv => CountIsDistinct
  BY ZenonT(30) DEF ViewInv, CountInv, Counted, CountIsDistinct
<1> QED
  BY <1>1, ViewsCorrect, PTL

\* Writers append under the lock, so two bodies share a line only after a kill or
\* a failure between the two writes of a line.
THEOREM LinesAreWhole == Spec => []GluedOnlyIfAbandoned
<1>1. ViewInv => GluedOnlyIfAbandoned
  BY ZenonT(30) DEF ViewInv, LineInv, GluedOnlyIfAbandoned
<1> QED
  BY <1>1, ViewsCorrect, PTL

\* A body is written to the log again only if its first writer was killed or
\* failed before its hash was saved.
THEOREM LoggedOnce == Spec => []RepeatedOnlyIfOrphaned
BY ViewsCorrect, PTL DEF ViewInv, CopyInv

\* An attested body is in a log only if the contest's gateway served the manifest
\* it names, whatever the gateway served later.
THEOREM AttestedBodiesAreVouched == Spec => []AttestedWasVouched
BY ViewsCorrect, PTL DEF ViewInv, VouchInv

\* A page that loads shows all that was acknowledged to its team before it was
\* asked for, although the log is read with no lock held.
THEOREM PagesShowAcknowledged == Spec => []CardShowsAcked
BY ViewsCorrect, PTL DEF ViewInv, PageInv
=============================================================================
