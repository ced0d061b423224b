------------------------- MODULE EventServiceProofs -------------------------
(***************************************************************************)
(* Proofs about EventService, for every number of handlers, contests,      *)
(* bodies, kills and failed writes: types, what was acknowledged is        *)
(* durable, and what was recorded is logged.                               *)
(***************************************************************************)
EXTENDS EventService, LineLogProofs

-----------------------------------------------------------------------------
(***************************************************************************)
(* What the building blocks of the handlers do to pc and job.              *)
(***************************************************************************)

\* A handler that goes on to another step keeps its job.
LEMMA GotoTypes ==
  ASSUME JobOK, NEW r \in Request, pc[r] # "idle", NEW l \in Step,
         l \in IngestStep => job[r].op = "ingest",
         Goto(r, l), UNCHANGED job
  PROVE  JobOK'
BY DEF JobOK, Goto, WellFormed, Step

\* A handler that has its answer only sets the status of its job.
LEMMA AnswerTypes ==
  ASSUME JobOK, NEW r \in Request, pc[r] # "idle", NEW s \in Status, Answer(r, s)
  PROVE  JobOK'
<1>1. job' = [job EXCEPT ![r] = [job[r] EXCEPT !.status = s]]
  BY DEF Answer
<1>2. [job[r] EXCEPT !.status = s] \in JobType
  BY DEF JobOK, JobType
<1> QED
  BY <1>1, <1>2 DEF JobOK, Answer, Goto, WellFormed, Step, IngestStep, JobType

\* A handler that starts has a well-formed job.
LEMMA BeginTypes ==
  ASSUME JobOK, NEW r \in Request, NEW o \in Op, NEW e \in EventId,
         NEW i \in Item, NEW s \in Status, NEW l \in Step,
         o = "ingest" => i \in Body, l \in IngestStep => o = "ingest",
         Begin(r, o, e, i, s), Goto(r, l)
  PROVE  JobOK'
<1> DEFINE j == [op |-> o, ev |-> e, item |-> i, dup |-> FALSE, status |-> s]
<1>1. j \in JobType
  BY DEF JobType
<1>2. WellFormed(j, l)
  BY DEF WellFormed
<1>3. job' = [job EXCEPT ![r] = j] /\ pc' = [pc EXCEPT ![r] = l]
  BY DEF Begin, Goto
<1> HIDE DEF j
<1> QED
  BY <1>1, <1>2, <1>3 DEF JobOK

\* A handler that ends leaves no job behind.
LEMMA EndTypes ==
  ASSUME JobOK, NEW r \in Request, Goto(r, "idle"),
         job' = [job EXCEPT ![r] = NoJob]
  PROVE  JobOK'
<1>1. NoJob \in JobType
  BY DEF NoJob, JobType, Op, Item, Status
<1> QED
  BY <1>1 DEF JobOK, Goto, Step, IngestStep

\* A new service, and a dead one, has the empty store.
LEMMA EmptyStoreType == EmptyStore \in StoreType
<1>1. [e \in EventId |-> <<>>] \in [EventId -> Seq(Body)]
  <2>1. <<>> \in Seq(Body)
    OBVIOUS
  <2> QED
    BY <2>1
<1>2. [e \in EventId |-> 0] \in [EventId -> Nat]
  OBVIOUS
<1>3. [e \in EventId |-> {}] \in [EventId -> SUBSET Team]
  OBVIOUS
<1> QED
  BY <1>1, <1>2, <1>3, Zenon DEF EmptyStore, StoreType

\* Each update of the in-memory store keeps its shape.
LEMMA AddTeamType ==
  ASSUME NEW s \in StoreType, NEW e \in EventId, NEW t \in Team
  PROVE  [s EXCEPT !.teams[e] = @ \cup {t}] \in StoreType
<1>1. [s.teams EXCEPT ![e] = @ \cup {t}] \in [EventId -> SUBSET Team]
  BY DEF StoreType
<1> QED
  BY Zenon, <1>1 DEF StoreType

\* The store keeps its type when a body is recorded.
LEMMA RecordType ==
  ASSUME NEW e \in EventId, NEW b \in Body, mem \in StoreType, Record(e, b)
  PROVE  mem' \in StoreType
<1>1. [mem.captured EXCEPT ![e] = Append(@, b)] \in [EventId -> Seq(Body)]
  BY DEF StoreType
<1>2. [mem.counts EXCEPT ![e] = @ + 1] \in [EventId -> Nat]
  BY DEF StoreType
<1>3. mem' = [mem EXCEPT !.captured = [mem.captured EXCEPT ![e] = Append(@, b)],
                         !.counts = [mem.counts EXCEPT ![e] = @ + 1]]
  BY DEF Record, StoreType
<1> QED
  BY Zenon, <1>1, <1>2, <1>3 DEF StoreType
-----------------------------------------------------------------------------
\* Type correctness: every step keeps every variable in its type.
THEOREM TypeCorrect == Spec => []TypeOK
<1> USE EventServiceAssumption, LineLogAssumption
<1>1. Init => TypeOK
  <2> SUFFICES ASSUME Init PROVE TypeOK
    OBVIOUS
  <2>1. StoreOK
    <3>1. log \in [EventId -> File]
      <4>1. <<>> \in File
        BY DEF File
      <4> QED
        BY <4>1 DEF Init
    <3> QED
      BY Zenon, <3>1, EmptyStoreType DEF Init, StoreOK
  <2>2. JobOK
    BY DEF Init, JobOK, NoJob, JobType, Op, Item, Status, Step, IngestStep
  <2>3. CardOK
    BY DEF Init, CardOK, NoCard, CardType
  <2> QED
    BY <2>1, <2>2, <2>3 DEF Init, TypeOK, GhostOK
<1>2. TypeOK /\ [Next]_vars => TypeOK'
  <2> SUFFICES ASSUME TypeOK, [Next]_vars PROVE TypeOK'
    OBVIOUS
  <2> USE DEF TypeOK, storeVars, ghosts
  <2>1. ASSUME NEW r \in Request, CreateEvent(r) PROVE TypeOK'
    <3>1. PICK e \in EventId : /\ issued' = issued \cup {e}
                               /\ mem' = [mem EXCEPT !.events = @ \cup {e}]
                               /\ Begin(r, "event", e, None, 0)
      BY Zenon, <2>1 DEF CreateEvent
    <3>2. JobOK'
      BY <2>1, <3>1, BeginTypes DEF CreateEvent, Op, Item, Status, Step, IngestStep
    <3>3. StoreOK'
      BY Zenon, <2>1, <3>1 DEF CreateEvent, Hold, StoreOK, StoreType
    <3> QED
      BY <2>1, <3>1, <3>2, <3>3 DEF CreateEvent, CardOK, GhostOK
  <2>2. ASSUME NEW r \in Request, CreateTeam(r) PROVE TypeOK'
    <3>1. PICK e \in EventId, t \in Team :
            IF e \in mem.events
              THEN /\ issued' = issued \cup {t}
                   /\ mem' = [mem EXCEPT !.teams[e] = @ \cup {t}]
                   /\ Begin(r, "team", e, t, 0)
                   /\ Hold(r)
                   /\ Goto(r, "save")
              ELSE /\ Begin(r, "team", e, t, 404)
                   /\ Goto(r, "respond")
                   /\ UNCHANGED <<issued, mem, lock>>
      BY <2>2 DEF CreateTeam
    <3>2. JobOK'
      BY <3>1, BeginTypes DEF Op, Item, Status, Step, IngestStep
    <3>3. StoreOK'
      BY <2>2, <3>1, AddTeamType DEF CreateTeam, Hold, StoreOK
    <3> QED
      BY <2>2, <3>1, <3>2, <3>3 DEF CreateTeam, CardOK, GhostOK
  <2>3. ASSUME NEW r \in Request, IngestReceive(r) PROVE TypeOK'
    <3>1. JobOK'
      BY <2>3, BeginTypes DEF IngestReceive, Op, Item, Status, Step, IngestStep
    <3> QED
      BY <2>3, <3>1 DEF IngestReceive, StoreOK, CardOK, GhostOK
  <2>4. ASSUME NEW r \in Request, IngestLookup(r) PROVE TypeOK'
    <3>1. JobOK'
      BY SMTT(30), Z3T(30), <2>4, GotoTypes, AnswerTypes
         DEF IngestLookup, JobOK, WellFormed, Status, Step, IngestStep
    <3> QED
      BY ZenonT(30), <2>4, <3>1 DEF IngestLookup, StoreOK, CardOK, GhostOK
  <2>5. ASSUME NEW r \in Request, FetchManifest(r) PROVE TypeOK'
    <3>1. JobOK'
      BY SMTT(30), Z3T(30), <2>5, GotoTypes, AnswerTypes
         DEF FetchManifest, JobOK, WellFormed, Status, Step, IngestStep
    <3> QED
      BY ZenonT(30), <2>5, <3>1 DEF FetchManifest, StoreOK, CardOK, GhostOK
  <2>6. ASSUME NEW r \in Request, FetchReceipt(r) PROVE TypeOK'
    <3>1. JobOK'
      BY SMTT(30), Z3T(30), <2>6, GotoTypes, AnswerTypes
         DEF FetchReceipt, JobOK, WellFormed, Status, Step, IngestStep
    <3> QED
      BY ZenonT(30), <2>6, <3>1 DEF FetchReceipt, StoreOK, CardOK, GhostOK
  <2>7. ASSUME NEW r \in Request, IngestRelock(r) PROVE TypeOK'
    <3>1. CASE job[r].ev \in mem.events
      <4> DEFINE d == Duplicate(job[r].ev, job[r].item)
      <4>1. d \in BOOLEAN
        BY DEF Duplicate
      <4>2. job' = [job EXCEPT ![r] = [job[r] EXCEPT !.dup = d]]
        BY <2>7, <3>1 DEF IngestRelock
      <4>3. [job[r] EXCEPT !.dup = d] \in JobType
        BY <4>1 DEF JobOK, JobType
      <4>4. pc' = [pc EXCEPT ![r] = IF d THEN "save" ELSE "append"]
        BY <2>7, <3>1 DEF IngestRelock, Goto
      <4>5. WellFormed(job[r], "relock")
        BY <2>7 DEF IngestRelock, JobOK
      <4> HIDE DEF d
      <4>6. JobOK'
        BY <4>2, <4>3, <4>4, <4>5 DEF JobOK, WellFormed, Step, IngestStep, JobType
      <4> QED
        BY <2>7, <3>1, <4>6 DEF IngestRelock, Hold, StoreOK, CardOK, GhostOK
    <3>2. CASE job[r].ev \notin mem.events
      <4>1. JobOK'
        BY SMTT(30), Z3T(30), <2>7, <3>2, AnswerTypes DEF IngestRelock, Status
      <4> QED
        BY <2>7, <3>2, <4>1 DEF IngestRelock, StoreOK, CardOK, GhostOK
    <3> QED
      BY <3>1, <3>2
  <2>8. ASSUME NEW r \in Request, AppendLine(r) PROVE TypeOK'
    <3>1. WellFormed(job[r], "append")
      BY <2>8 DEF AppendLine, JobOK
    <3>2. JobOK'
      BY <2>8, <3>1, GotoTypes DEF AppendLine, WellFormed, Step, IngestStep
    <3>3. log' \in [EventId -> File]
      BY SMTT(30), Z3T(30), <2>8, <3>1 DEF AppendLine, WellFormed, StoreOK, File, IngestStep
    <3> QED
      BY <2>8, <3>2, <3>3 DEF AppendLine, StoreOK, CardOK, GhostOK
  <2>9. ASSUME NEW r \in Request, AppendNewline(r) PROVE TypeOK'
    <3>1. WellFormed(job[r], "newline")
      BY <2>9 DEF AppendNewline, JobOK
    <3>2. JobOK'
      BY <2>9, <3>1, GotoTypes DEF AppendNewline, WellFormed, Step, IngestStep
    <3>3. log' \in [EventId -> File]
      BY <2>9, <3>1 DEF AppendNewline, WellFormed, StoreOK, File, IngestStep
    <3>4. mem' \in StoreType
      BY <2>9, <3>1, RecordType DEF AppendNewline, WellFormed, StoreOK, IngestStep
    <3> QED
      BY <2>9, <3>2, <3>3, <3>4 DEF AppendNewline, StoreOK, CardOK, GhostOK
  <2>10. ASSUME NEW r \in Request, AppendFails(r) PROVE TypeOK'
    <3>1. WellFormed(job[r], pc[r]) /\ pc[r] \in {"append", "newline"}
      BY <2>10 DEF AppendFails, JobOK
    <3>2. JobOK'
      BY <2>10, <3>1, AnswerTypes DEF AppendFails, OnAppendError, Status
    <3>3. GhostOK'
      BY <2>10, <3>1 DEF AppendFails, GhostOK, WellFormed, IngestStep
    <3> QED
      BY <2>10, <3>2, <3>3 DEF AppendFails, OnAppendError, StoreOK, CardOK
  <2>11. ASSUME NEW r \in Request, SaveTruncate(r) PROVE TypeOK'
    <3>1. JobOK'
      BY <2>11, GotoTypes DEF SaveTruncate, Step, IngestStep
    <3> QED
      BY <2>11, <3>1 DEF SaveTruncate, StoreOK, CardOK, GhostOK
  <2>12. ASSUME NEW r \in Request, SaveWrite(r) PROVE TypeOK'
    <3>1. JobOK'
      BY <2>12, AnswerTypes DEF SaveWrite, SuccessStatus, Status
    <3> QED
      BY ZenonT(20), <2>12, <3>1 DEF SaveWrite, StoreOK, CardOK, GhostOK
  <2>13. ASSUME NEW r \in Request, SaveFails(r) PROVE TypeOK'
    <3>1. JobOK'
      BY <2>13, AnswerTypes DEF SaveFails, OnSaveError, Status
    <3> QED
      BY <2>13, <3>1 DEF SaveFails, StoreOK, CardOK, GhostOK
  <2>14. ASSUME NEW r \in Request, Respond(r) PROVE TypeOK'
    <3>1. JobOK'
      BY Zenon, <2>14, EndTypes DEF Respond
    <3>2. job[r] \in JobType /\ WellFormed(job[r], "respond")
      BY <2>14 DEF Respond, JobOK
    <3>3. Change(job[r]) \in ChangeType
      BY <3>2 DEF Change, ChangeType, JobType, WellFormed
    <3>4. acked' \subseteq ChangeType
      BY <2>14, <3>3 DEF Respond, GhostOK
    <3>5. fresh' \in [EventId \X Body -> Nat]
      <4>1. CASE job[r].status = 202 /\ ~job[r].dup
        <5> DEFINE x == <<job[r].ev, job[r].item>>
        <5>1. fresh' = [fresh EXCEPT ![x] = fresh[x] + 1]
          BY <2>14, <4>1 DEF Respond
        <5>2. x \in EventId \X Body => fresh[x] + 1 \in Nat
          BY DEF GhostOK
        <5> HIDE DEF x
        <5> QED
          BY Zenon, <5>1, <5>2 DEF GhostOK
      <4>2. CASE ~(job[r].status = 202 /\ ~job[r].dup)
        BY <2>14, <4>2 DEF Respond, GhostOK
      <4> QED
        BY <4>1, <4>2
    <3> QED
      BY <2>14, <3>1, <3>4, <3>5 DEF Respond, StoreOK, CardOK, GhostOK
  <2>15. ASSUME NEW r \in Request, Disconnect(r) PROVE TypeOK'
    <3>1. JobOK'
      BY Zenon, <2>15, EndTypes DEF Disconnect
    <3> QED
      BY <2>15, <3>1 DEF Disconnect, StoreOK, CardOK, GhostOK
  <2>16. ASSUME NEW q \in Reader, CardStart(q) PROVE TypeOK'
    <3>1. PICK e \in mem.events : \E t \in mem.teams[e] :
            card' = [card EXCEPT ![q] =
              [ev |-> e, team |-> t, status |-> 0, shown |-> {}, count |-> 0,
               expect |-> {b \in Body :
                             /\ TeamOf[b] = t
                             /\ [op |-> "ingest", ev |-> e, item |-> b] \in acked}]]
      BY Zenon, <2>16 DEF CardStart
    <3>2. PICK t \in mem.teams[e] :
            card' = [card EXCEPT ![q] =
              [ev |-> e, team |-> t, status |-> 0, shown |-> {}, count |-> 0,
               expect |-> {b \in Body :
                             /\ TeamOf[b] = t
                             /\ [op |-> "ingest", ev |-> e, item |-> b] \in acked}]]
      BY ZenonT(20), <3>1
    <3>3. e \in EventId /\ t \in Team
      BY DEF StoreOK, StoreType
    <3> DEFINE c == [ev |-> e, team |-> t, status |-> 0, shown |-> {}, count |-> 0,
               expect |-> {b \in Body :
                             /\ TeamOf[b] = t
                             /\ [op |-> "ingest", ev |-> e, item |-> b] \in acked}]
    <3>4. c \in CardType /\ c.ev \in EventId
      BY <3>3 DEF CardType
    <3>5. card' = [card EXCEPT ![q] = c]
      BY <3>2
    <3> HIDE DEF c
    <3>6. CardOK'
      BY ZenonT(20), <2>16, <3>4, <3>5 DEF CardOK, CardStart
    <3> QED
      BY <2>16, <3>6 DEF CardStart, StoreOK, JobOK, GhostOK
  <2>17. ASSUME NEW q \in Reader, CardRead(q) PROVE TypeOK'
    <3> DEFINE f    == log[card[q].ev]
               mine == {i \in LineStarts(f) : TeamOf[f[i]] = card[q].team}
               c    == IF DecodeFails(f)
                         THEN [card[q] EXCEPT !.status = 500]
                         ELSE [card[q] EXCEPT !.status = 200,
                                              !.shown = {f[i] : i \in mine},
                                              !.count = Cardinality(mine)]
    <3>1. card[q] \in CardType /\ card[q].ev \in EventId /\ f \in File
      BY <2>17 DEF CardRead, CardOK, StoreOK
    <3>2. Cardinality(mine) \in Nat
      BY <3>1, LineStartsFinite, FS_Subset, FS_CardinalityType
    <3>3. {f[i] : i \in mine} \subseteq Body
      BY <3>1 DEF File, LineStarts
    <3>4. c \in CardType
      <4> HIDE DEF mine, f
      <4>1. CASE DecodeFails(f)
        BY SMTT(30), Z3T(30), <3>1, <4>1 DEF CardType
      <4>2. CASE ~DecodeFails(f)
        <5> DEFINE s == {f[i] : i \in mine}
                   n == Cardinality(mine)
        <5>1. c = [card[q] EXCEPT !.status = 200, !.shown = s, !.count = n]
          BY <4>2
        <5>2. s \in SUBSET Body /\ n \in Nat
          BY <3>2, <3>3
        <5> HIDE DEF s, n, c
        <5>3. c = [ev |-> card[q].ev, team |-> card[q].team, expect |-> card[q].expect,
                   status |-> 200, shown |-> s, count |-> n]
          BY ZenonT(30), <3>1, <5>1 DEF CardType
        <5> QED
          BY <3>1, <5>2, <5>3 DEF CardType
      <4> QED
        BY <4>1, <4>2
    <3>5. card' = [card EXCEPT ![q] = c] /\ rpc' = [rpc EXCEPT ![q] = "idle"]
      BY <2>17 DEF CardRead
    <3> HIDE DEF c
    <3>6. CardOK'
      BY <3>4, <3>5 DEF CardOK
    <3> QED
      BY <2>17, <3>6 DEF CardRead, StoreOK, JobOK, GhostOK
  <2>18. CASE GatewayServes
    BY <2>18 DEF GatewayServes, StoreOK, JobOK, CardOK, GhostOK
  <2>19. CASE Crash
    <3>1. StoreOK'
      BY ZenonT(20), <2>19, EmptyStoreType DEF Crash, StoreOK
    <3>2. JobOK'
      BY ZenonT(30), <2>19 DEF Crash, JobOK, NoJob, JobType, Op, Item, Status, Step, IngestStep
    <3>3. CardOK'
      BY <2>19 DEF Crash, CardOK, NoCard, CardType
    <3>4. GhostOK'
      BY ZenonT(30), <2>19 DEF Crash, GhostOK
    <3> QED
      BY <2>19, <3>1, <3>2, <3>3, <3>4 DEF Crash
  <2>20. CASE Restart
    BY ZenonT(30), <2>20 DEF Restart, StoreOK, JobOK, CardOK, GhostOK
  <2>21. CASE UNCHANGED vars
    BY <2>21 DEF vars, StoreOK, JobOK, CardOK, GhostOK
  <2> QED
    BY Zenon, <2>1, <2>2, <2>3, <2>4, <2>5, <2>6, <2>7, <2>8, <2>9, <2>10, <2>11, <2>12,
       <2>13, <2>14, <2>15, <2>16, <2>17, <2>18, <2>19, <2>20, <2>21
       DEF Next, Handle, RestartFails
<1> QED
  BY <1>1, <1>2, PTL DEF Spec
-----------------------------------------------------------------------------
(***************************************************************************)
(* Appending, and which steps touch what.                                  *)
(***************************************************************************)

\* Pushing a hash onto captured_event_hashes adds that hash and drops none.
LEMMA RangeAppend ==
  ASSUME NEW S, NEW s \in Seq(S), NEW x \in S
  PROVE  Range(Append(s, x)) = Range(s) \cup {x}
<1> DEFINE t == Append(s, x)
<1>1. /\ Len(s) \in Nat /\ Len(t) = Len(s) + 1 /\ t[Len(t)] = x
      /\ \A i \in 1..Len(s) : t[i] = s[i]
      /\ DOMAIN s = 1..Len(s) /\ DOMAIN t = 1..Len(t)
  OBVIOUS
<1>2. 1..Len(t) = 1..Len(s) \cup {Len(t)}
  BY <1>1
<1> HIDE DEF t
<1> QED
  BY <1>1, <1>2 DEF Range, t

\* Only three handlers' steps, a kill and a restart touch the store in memory.
LEMMA MemSteps ==
  ASSUME [Next]_vars
  PROVE  \/ UNCHANGED mem
         \/ \E r \in Request : CreateEvent(r) \/ CreateTeam(r) \/ AppendNewline(r)
         \/ Crash
         \/ Restart
BY ZenonT(60)
   DEF Next, Handle, IngestReceive, IngestLookup, FetchManifest, FetchReceipt,
       IngestRelock, AppendLine, AppendFails, OnAppendError, SaveTruncate, SaveWrite,
       SaveFails, Respond, Disconnect, CardStart, CardRead, GatewayServes,
       RestartFails, vars, storeVars

\* Only the two writes of a line touch the log.
LEMMA LogSteps ==
  ASSUME [Next]_vars
  PROVE  \/ UNCHANGED log
         \/ \E r \in Request : AppendLine(r) \/ AppendNewline(r)
BY ZenonT(60)
   DEF Next, Handle, CreateEvent, CreateTeam, IngestReceive, IngestLookup,
       FetchManifest, FetchReceipt, IngestRelock, AppendFails,
       SaveTruncate, SaveWrite, SaveFails, Respond, Disconnect, CardStart,
       CardRead, GatewayServes, Crash, Restart, RestartFails, vars, storeVars

\* A running service never takes a change back.
LEMMA MemGrows ==
  ASSUME TypeOK, [Next]_vars, up, up', NEW c \in ChangeType, Holds(mem, c)
  PROVE  Holds(mem', c)
<1> USE DEF TypeOK, StoreOK
<1>1. CASE UNCHANGED mem
  BY <1>1 DEF Holds
<1>2. ASSUME NEW r \in Request, CreateEvent(r) PROVE Holds(mem', c)
  <2>1. PICK e \in EventId : mem' = [mem EXCEPT !.events = @ \cup {e}]
    BY Zenon, <1>2 DEF CreateEvent
  <2> QED
    BY <2>1 DEF Holds, StoreType
<1>3. ASSUME NEW r \in Request, CreateTeam(r) PROVE Holds(mem', c)
  <2>1. PICK e \in EventId, t \in Team :
          mem' = mem \/ mem' = [mem EXCEPT !.teams[e] = @ \cup {t}]
    BY <1>3 DEF CreateTeam
  <2>2. CASE mem' = mem
    BY <2>2
  <2>3. CASE mem' = [mem EXCEPT !.teams[e] = @ \cup {t}]
    <3>1. /\ mem'.events = mem.events /\ mem'.captured = mem.captured
          /\ mem'.teams = [mem.teams EXCEPT ![e] = @ \cup {t}]
      BY ZenonT(30), <2>3 DEF StoreType
    <3>2. \A d \in EventId : mem.teams[d] \subseteq mem'.teams[d]
      BY <3>1 DEF StoreType
    <3> QED
      BY <3>1, <3>2 DEF Holds, ChangeType
  <2> QED
    BY <2>1, <2>2, <2>3
<1>4. ASSUME NEW r \in Request, AppendNewline(r) PROVE Holds(mem', c)
  <2>1. WellFormed(job[r], "newline")
    BY <1>4 DEF AppendNewline, JobOK
  <2> DEFINE e == job[r].ev
             b == job[r].item
  <2>2. e \in EventId /\ b \in Body
    BY <2>1 DEF WellFormed, IngestStep
  <2>3. /\ mem'.events = mem.events /\ mem'.teams = mem.teams
        /\ mem'.captured = [mem.captured EXCEPT ![e] = Append(@, b)]
    BY <1>4 DEF AppendNewline, Record, StoreType
  <2>4. Range(Append(mem.captured[e], b)) = Range(mem.captured[e]) \cup {b}
    BY <2>2, RangeAppend DEF StoreType
  <2> HIDE DEF e, b
  <2>5. \A d \in EventId : Range(mem.captured[d]) \subseteq Range(mem'.captured[d])
    BY Zenon, <2>2, <2>3, <2>4 DEF StoreType
  <2> QED
    BY ZenonT(30), <2>3, <2>5 DEF Holds, ChangeType
<1>5. ~Crash /\ ~Restart
  BY DEF Crash, Restart
<1> QED
  BY <1>1, <1>2, <1>3, <1>4, <1>5, MemSteps

\* The log is append-only.
LEMMA LogGrows ==
  ASSUME TypeOK, [Next]_vars, NEW e \in EventId
  PROVE  Written(log[e]) \subseteq Written(log'[e])
<1> USE DEF TypeOK, StoreOK
<1>1. CASE UNCHANGED log
  BY <1>1
<1>2. ASSUME NEW r \in Request, NEW x \in Body \cup {NL},
             log' = [log EXCEPT ![job[r].ev] = Append(@, x)]
      PROVE  Written(log[e]) \subseteq Written(log'[e])
  BY <1>2, WrittenAppend
<1>3. ASSUME NEW r \in Request, AppendLine(r)
      PROVE  Written(log[e]) \subseteq Written(log'[e])
  <2>1. job[r].item \in Body
    BY <1>3 DEF AppendLine, JobOK, WellFormed, IngestStep
  <2> QED
    BY Zenon, <1>2, <1>3, <2>1 DEF AppendLine
<1>4. ASSUME NEW r \in Request, AppendNewline(r)
      PROVE  Written(log[e]) \subseteq Written(log'[e])
  BY Zenon, <1>2, <1>4 DEF AppendNewline
<1> QED
  BY <1>1, <1>3, <1>4, LogSteps

\* A step of one handler leaves the others where they are.
LEMMA OthersStay ==
  ASSUME JobOK, NEW r \in Request, Handle(r), NEW s \in Request \ {r}
  PROVE  pc'[s] = pc[s] /\ job'[s] = job[s]
<1> USE DEF JobOK, Goto, Answer, Begin
<1>1. CASE CreateEvent(r)
  BY <1>1 DEF CreateEvent
<1>2. CASE CreateTeam(r)
  BY <1>2 DEF CreateTeam
<1>3. CASE IngestReceive(r) \/ IngestLookup(r)
  BY <1>3 DEF IngestReceive, IngestLookup
<1>4. CASE FetchManifest(r) \/ FetchReceipt(r)
  BY <1>4 DEF FetchManifest, FetchReceipt
<1>5. CASE IngestRelock(r)
  BY <1>5 DEF IngestRelock
<1>6. CASE AppendLine(r) \/ AppendNewline(r) \/ AppendFails(r)
  BY <1>6 DEF AppendLine, AppendNewline, AppendFails, OnAppendError
<1>7. CASE SaveTruncate(r) \/ SaveWrite(r) \/ SaveFails(r)
  BY <1>7 DEF SaveTruncate, SaveWrite, SaveFails, OnSaveError
<1>8. CASE Respond(r) \/ Disconnect(r)
  BY ZenonT(30), <1>8 DEF Respond, Disconnect
<1> QED
  BY <1>1, <1>2, <1>3, <1>4, <1>5, <1>6, <1>7, <1>8 DEF Handle

\* Every other step leaves all handlers where they are, or is a kill.
LEMMA EnvironmentStays ==
  ASSUME [Next]_vars
  PROVE  \/ \E r \in Request : Handle(r)
         \/ Crash
         \/ Restart
         \/ UNCHANGED <<up, storeVars, pc, job, acked, fresh>>
BY ZenonT(30) DEF Next, CardStart, CardRead, GatewayServes, RestartFails, vars, storeVars, ghosts

\* A handler comes to the end of a line only from its text.
LEMMA NewlineAfterLine ==
  ASSUME JobOK, NEW r \in Request, Handle(r), pc'[r] = "newline"
  PROVE  AppendLine(r)
<1> USE DEF JobOK, Goto, Answer, Begin
<1>1. CASE CreateEvent(r) \/ CreateTeam(r) \/ IngestReceive(r)
  BY <1>1 DEF CreateEvent, CreateTeam, IngestReceive
<1>2. CASE IngestLookup(r) \/ FetchManifest(r) \/ FetchReceipt(r)
  BY <1>2 DEF IngestLookup, FetchManifest, FetchReceipt
<1>3. CASE IngestRelock(r)
  BY <1>3 DEF IngestRelock
<1>4. CASE AppendNewline(r) \/ AppendFails(r)
  BY <1>4 DEF AppendNewline, AppendFails, OnAppendError
<1>5. CASE SaveTruncate(r) \/ SaveWrite(r) \/ SaveFails(r)
  BY <1>5 DEF SaveTruncate, SaveWrite, SaveFails, OnSaveError
<1>6. CASE Respond(r) \/ Disconnect(r)
  BY ZenonT(30), <1>6 DEF Respond, Disconnect
<1> QED
  BY <1>1, <1>2, <1>3, <1>4, <1>5, <1>6 DEF Handle
-----------------------------------------------------------------------------
(***************************************************************************)
(* Acknowledged changes are durable.                                       *)
(***************************************************************************)
DurableInv == ChangeInStore /\ AckedSurvivesCrash

\* A step that changes no store and neither reaches a save nor makes a success
\* keeps DurableInv.
LEMMA QuietMove ==
  ASSUME DurableInv, pc \in [Request -> Step], NEW r \in Request, NEW l \in Step \ {"save", "write"},
         UNCHANGED <<up, mem, disk, torn, acked>>,
         Goto(r, l), \A s \in Request \ {r} : job'[s] = job[s],
         l # "idle" => up,
         l = "respond" => job'[r].status \notin {201, 202}
  PROVE  DurableInv'
<1> SUFFICES ASSUME NEW s \in Request
             PROVE  /\ pc'[s] # "idle" => up'
                    /\ pc'[s] \in {"save", "write"} => Holds(mem', Change(job'[s]))
                    /\ pc'[s] = "respond" /\ job'[s].status \in {201, 202} =>
                         /\ Holds(mem', Change(job'[s]))
                         /\ ~torn' => Holds(disk', Change(job'[s]))
  BY ZenonT(30) DEF DurableInv, ChangeInStore, AckedSurvivesCrash
<1>1. CASE s = r
  BY <1>1 DEF Goto
<1>2. CASE s # r
  BY <1>2 DEF Goto, DurableInv, ChangeInStore
<1> QED
  BY ZenonT(30), <1>1, <1>2

\* A handler that starts to save has its change in memory.
LEMMA SaveMove ==
  ASSUME TypeOK, [Next]_vars, DurableInv, NEW r \in Request, up,
         UNCHANGED <<up, disk, torn, acked>>,
         Goto(r, "save"), \A s \in Request \ {r} : job'[s] = job[s],
         Holds(mem', Change(job'[r]))
  PROVE  DurableInv'
<1>1. \A c \in ChangeType : Holds(mem, c) => Holds(mem', c)
  BY ZenonT(30), MemGrows
<1>2. \A s \in Request : pc[s] # "idle" => Change(job[s]) \in ChangeType
  BY DEF TypeOK, JobOK, JobType, Change, ChangeType, WellFormed
<1>3. AckedSurvivesCrash'
  BY <1>1 DEF DurableInv, AckedSurvivesCrash, TypeOK, GhostOK
<1>4. ASSUME NEW s \in Request
      PROVE  /\ pc'[s] # "idle" => up'
             /\ pc'[s] \in {"save", "write"} => Holds(mem', Change(job'[s]))
             /\ pc'[s] = "respond" /\ job'[s].status \in {201, 202} =>
                  /\ Holds(mem', Change(job'[s]))
                  /\ ~torn' => Holds(disk', Change(job'[s]))
  <2>1. CASE s = r
    BY ZenonT(30), <2>1 DEF Goto, TypeOK, JobOK
  <2>2. CASE s # r
    BY <2>2, <1>1, <1>2 DEF Goto, DurableInv, ChangeInStore, TypeOK, JobOK
  <2> QED
    BY ZenonT(30), <2>1, <2>2
<1> QED
  BY <1>3, <1>4 DEF DurableInv, ChangeInStore

\* What was acknowledged stays durable, over every step.
LEMMA DurableStep ==
  ASSUME TypeOK, TypeOK', [Next]_vars, DurableInv
  PROVE  DurableInv'
<1> USE DEF storeVars, ghosts
<1>0. /\ pc \in [Request -> Step] /\ job \in [Request -> JobType]
      /\ \A r \in Request : pc[r] # "idle" => up /\ WellFormed(job[r], pc[r])
  BY DEF TypeOK, JobOK, DurableInv, ChangeInStore
<1>1. ASSUME NEW r \in Request, CreateEvent(r) PROVE DurableInv'
  <2>1. PICK e \in EventId : /\ mem' = [mem EXCEPT !.events = @ \cup {e}]
                             /\ Begin(r, "event", e, None, 0)
    BY Zenon, <1>1 DEF CreateEvent
  <2>2. Holds(mem', Change(job'[r]))
    BY <1>0, <2>1 DEF Begin, Holds, Change, TypeOK, StoreOK, StoreType
  <2> QED
    BY Zenon, <1>0, <1>1, <2>1, <2>2, SaveMove DEF CreateEvent, Begin
<1>2. ASSUME NEW r \in Request, CreateTeam(r) PROVE DurableInv'
  <2>1. PICK e \in EventId, t \in Team :
          \/ /\ mem' = [mem EXCEPT !.teams[e] = @ \cup {t}]
             /\ Begin(r, "team", e, t, 0) /\ Goto(r, "save")
          \/ /\ mem' = mem
             /\ Begin(r, "team", e, t, 404) /\ Goto(r, "respond")
    BY <1>2 DEF CreateTeam
  <2>2. CASE mem' = mem /\ Begin(r, "team", e, t, 404) /\ Goto(r, "respond")
    BY <1>0, <1>2, <2>2, QuietMove DEF CreateTeam, Begin, Step
  <2>3. CASE /\ mem' = [mem EXCEPT !.teams[e] = @ \cup {t}]
             /\ Begin(r, "team", e, t, 0) /\ Goto(r, "save")
    <3>1. t \in mem'.teams[e]
      BY <2>3 DEF TypeOK, StoreOK, StoreType
    <3>2. Holds(mem', Change(job'[r]))
      BY ZenonT(30), <1>0, <2>3, <3>1 DEF Begin, Holds, Change
    <3> QED
      BY Zenon, <1>0, <1>2, <2>3, <3>2, SaveMove DEF CreateTeam, Begin
  <2> QED
    BY <2>1, <2>2, <2>3
<1>3. ASSUME NEW r \in Request, IngestReceive(r) PROVE DurableInv'
  BY <1>0, <1>3, QuietMove DEF IngestReceive, Begin, Step, IngestStep
<1>4. ASSUME NEW r \in Request, IngestLookup(r) PROVE DurableInv'
  BY <1>0, <1>4, QuietMove DEF IngestLookup, Answer, Step, IngestStep, JobType
<1>5. ASSUME NEW r \in Request, FetchManifest(r) PROVE DurableInv'
  BY <1>0, <1>5, QuietMove DEF FetchManifest, Answer, Step, IngestStep, JobType
<1>6. ASSUME NEW r \in Request, FetchReceipt(r) PROVE DurableInv'
  BY <1>0, <1>6, QuietMove DEF FetchReceipt, Answer, Step, IngestStep, JobType
<1>7. ASSUME NEW r \in Request, IngestRelock(r) PROVE DurableInv'
  <2> DEFINE d == Duplicate(job[r].ev, job[r].item)
  <2>1. /\ UNCHANGED <<up, mem, disk, torn, acked>>
        /\ \/ Answer(r, 404)
           \/ /\ job' = [job EXCEPT ![r].dup = d]
              /\ Goto(r, IF d THEN "save" ELSE "append")
    BY <1>7 DEF IngestRelock
  <2>2. pc[r] = "relock"
    BY <1>7 DEF IngestRelock
  <2>3. CASE Answer(r, 404)
    BY <1>0, <2>1, <2>2, <2>3, QuietMove DEF Answer, Step, JobType
  <2>4. CASE ~d /\ job' = [job EXCEPT ![r].dup = d] /\ Goto(r, "append")
    BY <1>0, <2>1, <2>2, <2>4, QuietMove DEF Step, IngestStep
  <2>5. CASE d /\ job' = [job EXCEPT ![r].dup = d] /\ Goto(r, "save")
    <3>1. Change(job'[r]) = Change(job[r]) /\ job[r].op = "ingest"
      BY <1>0, <2>2, <2>5 DEF Change, JobType, WellFormed, IngestStep
    <3>2. Holds(mem', Change(job'[r]))
      BY <2>1, <2>5, <3>1 DEF Holds, Change, Duplicate
    <3> QED
      BY Zenon, <1>0, <2>1, <2>2, <2>5, <3>2, SaveMove
  <2> QED
    BY <2>1, <2>3, <2>4, <2>5
<1>8. ASSUME NEW r \in Request, AppendLine(r) PROVE DurableInv'
  BY ZenonT(30), <1>0, <1>8, QuietMove DEF AppendLine, Step, IngestStep
<1>9. ASSUME NEW r \in Request, AppendNewline(r) PROVE DurableInv'
  <2> DEFINE e == job[r].ev
             b == job[r].item
  <2>1. e \in EventId /\ b \in Body /\ job[r].op = "ingest"
    BY ZenonT(30), <1>0, <1>9 DEF AppendNewline, WellFormed, IngestStep
  <2>2. mem'.captured[e] = Append(mem.captured[e], b)
    BY ZenonT(20), <1>9, <2>1 DEF AppendNewline, Record, TypeOK, StoreOK, StoreType
  <2>3. b \in Range(mem'.captured[e])
    <3>1. mem.captured[e] \in Seq(Body)
      <4>1. mem \in StoreType
        BY DEF TypeOK, StoreOK
      <4>2. mem.captured \in [EventId -> Seq(Body)]
        BY <4>1 DEF StoreType
      <4> QED
        BY <2>1, <4>2
    <3> HIDE DEF e, b
    <3>2. Range(Append(mem.captured[e], b)) = Range(mem.captured[e]) \cup {b}
      BY SMTT(30), Z3T(30), <2>1, <3>1, RangeAppend
    <3> QED
      BY ZenonT(30), <2>2, <3>2
  <2>4. Holds(mem', Change(job'[r]))
    BY ZenonT(30), <1>9, <2>1, <2>3 DEF AppendNewline, Holds, Change
  <2> QED
    BY ZenonT(30), <1>0, <1>9, <2>4, SaveMove DEF AppendNewline
<1>10. ASSUME NEW r \in Request, AppendFails(r) PROVE DurableInv'
  BY SMTT(30), Z3T(30), <1>0, <1>10, QuietMove DEF AppendFails, OnAppendError, Answer, Step, JobType
<1>11. ASSUME NEW r \in Request, SaveTruncate(r) PROVE DurableInv'
  BY <1>0, <1>11 DEF SaveTruncate, Goto, DurableInv, ChangeInStore, AckedSurvivesCrash
<1>12. ASSUME NEW r \in Request, SaveWrite(r) PROVE DurableInv'
  <2>1. /\ pc' = [pc EXCEPT ![r] = "respond"] /\ pc[r] = "write"
        /\ \A s \in Request : Change(job'[s]) = Change(job[s])
        /\ \A s \in Request \ {r} : job'[s] = job[s]
    BY ZenonT(30), <1>0, <1>12 DEF SaveWrite, Answer, Goto, Change, JobType
  <2>2. UNCHANGED <<up, mem, acked>> /\ disk' = mem /\ ~torn'
    BY ZenonT(30), <1>12 DEF SaveWrite
  <2>3. up
    BY ZenonT(30), <1>0, <2>1
  <2>4. ChangeInStore'
    BY <1>0, <2>1, <2>2 DEF DurableInv, ChangeInStore
  <2>5. AckedSurvivesCrash'
    BY <2>2, <2>3 DEF DurableInv, AckedSurvivesCrash
  <2> QED
    BY <2>4, <2>5 DEF DurableInv
<1>13. ASSUME NEW r \in Request, SaveFails(r) PROVE DurableInv'
  BY SMTT(30), Z3T(30), <1>0, <1>13, QuietMove DEF SaveFails, OnSaveError, Answer, Step, JobType
<1>14. ASSUME NEW r \in Request, Respond(r) PROVE DurableInv'
  <2>1. /\ pc[r] = "respond" /\ up
        /\ UNCHANGED <<up, mem, disk, torn>>
        /\ pc' = [pc EXCEPT ![r] = "idle"]
        /\ \A s \in Request \ {r} : job'[s] = job[s]
    BY ZenonT(30), <1>0, <1>14 DEF Respond, Goto
  <2>2. ChangeInStore'
    <3>1. pc'[r] = "idle" /\ \A s \in Request \ {r} : pc'[s] = pc[s]
      BY <1>0, <2>1
    <3> QED
      BY <2>1, <3>1 DEF DurableInv, ChangeInStore
  <2>3. AckedSurvivesCrash'
    BY <1>14, <2>1 DEF Respond, DurableInv, ChangeInStore, AckedSurvivesCrash
  <2> QED
    BY <2>2, <2>3 DEF DurableInv
<1>15. ASSUME NEW r \in Request, Disconnect(r) PROVE DurableInv'
  BY ZenonT(30), <1>0, <1>15, QuietMove DEF Disconnect, Step
<1>16. CASE UNCHANGED <<up, mem, disk, torn, acked, pc, job>>
  BY ZenonT(30), <1>16 DEF DurableInv, ChangeInStore, AckedSurvivesCrash
<1>17. CASE Crash
  BY <1>17 DEF Crash, DurableInv, ChangeInStore, AckedSurvivesCrash
<1>18. CASE Restart
  BY ZenonT(30), <1>0, <1>18 DEF Restart, DurableInv, ChangeInStore, AckedSurvivesCrash
<1>19. ASSUME NEW q \in Reader, CardStart(q) \/ CardRead(q) PROVE DurableInv'
  BY <1>16, <1>19 DEF CardStart, CardRead
<1>20. CASE GatewayServes \/ UNCHANGED vars
  BY <1>16, <1>20 DEF GatewayServes, vars
<1> QED
  BY ZenonT(30), <1>1, <1>2, <1>3, <1>4, <1>5, <1>6, <1>7, <1>8, <1>9, <1>10, <1>11, <1>12,
     <1>13, <1>14, <1>15, <1>17, <1>18, <1>19, <1>20 DEF Next, Handle, RestartFails
-----------------------------------------------------------------------------
(***************************************************************************)
(* A recorded hash has its body in the log.                                *)
(***************************************************************************)
LogInv == LineInLog /\ RecordedIsLogged

\* Only a relock, the writes of a line and a save's failures come before
\* "newline"; only AppendNewline records.
LEMMA LogStep ==
  ASSUME TypeOK, TypeOK', [Next]_vars, LogInv
  PROVE  LogInv'
<1> USE DEF storeVars, ghosts
<1>0. /\ pc \in [Request -> Step] /\ job \in [Request -> JobType]
      /\ \A r \in Request : pc[r] # "idle" => WellFormed(job[r], pc[r])
      /\ mem \in StoreType /\ disk \in StoreType /\ log \in [EventId -> File]
  BY DEF TypeOK, JobOK, StoreOK
<1>1. \A e \in EventId : Written(log[e]) \subseteq Written(log'[e])
  BY LogGrows
<1>2. LineInLog'
  <2> SUFFICES ASSUME NEW r \in Request, pc'[r] = "newline"
               PROVE  job'[r].item \in Written(log'[job'[r].ev])
    BY ZenonT(30) DEF LineInLog
  <2>1. CASE AppendLine(r)
    <3>1. /\ job'[r] = job[r] /\ job[r].ev \in EventId /\ job[r].item \in Body
          /\ log'[job[r].ev] = Append(log[job[r].ev], job[r].item)
      BY ZenonT(30), <1>0, <2>1 DEF AppendLine, WellFormed, IngestStep
    <3> QED
      BY SMTT(30), Z3T(30), <1>0, <3>1, WrittenAppend, LineLogAssumption
  <2>2. CASE ~AppendLine(r)
    <3>1. CASE Handle(r)
      BY <2>2, <3>1, NewlineAfterLine DEF TypeOK
    <3>2. ASSUME NEW s \in Request \ {r}, Handle(s)
          PROVE  pc[r] = "newline" /\ job'[r] = job[r]
      BY ZenonT(30), <3>2, OthersStay DEF TypeOK
    <3>3. CASE UNCHANGED <<pc, job>>
      BY ZenonT(30), <1>0, <1>1, <3>3 DEF LogInv, LineInLog, WellFormed
    <3>4. ~Crash
      BY ZenonT(30) DEF Crash
    <3>5. CASE pc[r] = "newline" /\ job'[r] = job[r]
      BY ZenonT(30), <1>0, <1>1, <3>5 DEF LogInv, LineInLog, WellFormed
    <3> QED
      BY ZenonT(30), <3>1, <3>2, <3>3, <3>4, <3>5, EnvironmentStays DEF Restart
  <2> QED
    BY <2>1, <2>2
<1>3. ASSUME NEW e \in EventId, NEW b \in Range(mem'.captured[e])
      PROVE  b \in Written(log'[e])
  <2>1. CASE b \in Range(mem.captured[e]) \cup Range(disk.captured[e])
    BY <1>1, <2>1 DEF LogInv, RecordedIsLogged
  <2>2. CASE mem'.captured = mem.captured \/ mem' = disk
    BY <2>1, <2>2
  <2>3. ASSUME NEW r \in Request, AppendNewline(r) PROVE b \in Written(log'[e])
    <3>1. job[r].ev \in EventId /\ job[r].item \in Body /\ pc[r] = "newline"
      BY <1>0, <2>3 DEF AppendNewline, WellFormed, IngestStep
    <3>2. mem'.captured = [mem.captured EXCEPT ![job[r].ev] = Append(@, job[r].item)]
      BY ZenonT(30), <1>0, <2>3 DEF AppendNewline, Record, StoreType
    <3>a. DOMAIN mem.captured = EventId /\ mem.captured[e] \in Seq(Body)
      BY ZenonT(30), <1>0 DEF StoreType
    <3>b. mem'.captured[e] = IF e = job[r].ev THEN Append(mem.captured[e], job[r].item)
                                              ELSE mem.captured[e]
      BY <3>1, <3>2, <3>a
    <3>3. b \in Range(mem.captured[e]) \/ (e = job[r].ev /\ b = job[r].item)
      BY <3>1, <3>a, <3>b, RangeAppend
    <3> QED
      BY ZenonT(30), <1>1, <2>1, <3>1, <3>3 DEF LogInv, LineInLog
  <2>4. CASE Crash
    <3>1. mem'.captured[e] = <<>>
      BY <2>4 DEF Crash, EmptyStore
    <3>2. Range(<<>>) = {}
      BY DEF Range
    <3> QED
      BY ZenonT(30), <1>3, <3>1, <3>2
  <2>5. ASSUME NEW r \in Request, CreateEvent(r) \/ CreateTeam(r)
        PROVE  mem'.captured = mem.captured
    BY <1>0, <2>5 DEF CreateEvent, CreateTeam, StoreType
  <2> QED
    BY ZenonT(30), <2>2, <2>3, <2>4, <2>5, MemSteps DEF Restart
<1>4. disk' = disk \/ disk' = mem
  BY ZenonT(60)
     DEF Next, Handle, CreateEvent, CreateTeam, IngestReceive, IngestLookup,
         FetchManifest, FetchReceipt, IngestRelock, AppendLine, AppendNewline,
         AppendFails, SaveTruncate, SaveWrite, SaveFails, Respond, Disconnect,
         CardStart, CardRead, GatewayServes, Crash, Restart, RestartFails, vars
<1>5. RecordedIsLogged'
  <2> SUFFICES ASSUME NEW e \in EventId, NEW b,
                      b \in Range(mem'.captured[e]) \/ b \in Range(disk'.captured[e])
               PROVE  b \in Written(log'[e])
    BY DEF RecordedIsLogged
  <2>1. CASE b \in Range(mem'.captured[e])
    BY <1>3, <2>1
  <2>2. CASE b \in Range(disk'.captured[e])
    BY <1>1, <1>4, <2>2 DEF LogInv, RecordedIsLogged
  <2> QED
    BY <2>1, <2>2
<1> QED
  BY <1>2, <1>5 DEF LogInv
=============================================================================
