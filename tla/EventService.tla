---------------------------- MODULE EventService ----------------------------
(***************************************************************************)
(* llm-event-service: the store of contests, teams and captured-event      *)
(* hashes, kept in memory behind a tokio Mutex and rewritten to one JSON   *)
(* file after every change, and the append-only event log per contest from *)
(* which the public cvm pages are computed.                                *)
(*                                                                         *)
(* A Request is one HTTP handler that may change the store, a Reader one   *)
(* that renders a cvm page.  Handlers interleave at their awaits and at    *)
(* every file-system call; the process may be killed between any two.      *)
(***************************************************************************)
EXTENDS LineLog, FiniteSets, Functions

CONSTANTS
  Request, Reader,
  EventId,      \* random `hk_...` ids
  Team,         \* random `team_...` ids
  Attested,     \* bodies whose assurance is "attested"
  TeamOf,       \* the team_id in a body
  Manifest,     \* gateway manifests
  ManifestOf,   \* the manifest whose hash and key an attested body was made under
  Receipt,      \* cvm receipts a gateway may serve
  ReceiptOf,    \* the receipt whose hash a manifest states
  None,
  MaxCrashes,   \* bound: process kills
  MaxFaults     \* bound: file-system calls that return an error

ASSUME EventServiceAssumption ==
  /\ Attested \subseteq Body
  /\ TeamOf \in [Body -> Team]
  /\ ManifestOf \in [Attested -> Manifest]
  /\ ReceiptOf \in [Manifest -> Receipt]
  /\ None \notin Request \cup Manifest \cup Team \cup Body
  /\ MaxCrashes \in Nat /\ MaxFaults \in Nat

VARIABLES
  up,       \* the process is running
  mem,      \* AppState.store
  lock,     \* the handler holding the store's Mutex, or None
  disk,     \* the last complete content of the store file
  torn,     \* the store file is truncated or half written
  log,      \* the event log file of every contest
  pc, job,  \* where a Request is, and what it is doing
  rpc, card,\* where a Reader is, and the page it made
  served,   \* the manifest the contest's gateway serves now, or None
  issued,   \* ids handed out by random_id
  crashes, faults,
  acked,    \* history: the changes a client was told are done
  fresh,    \* history: how often a body was answered `duplicate: false`
  orphan,   \* history: <<contest, body>> in the log of a process that was
            \* killed or failed before the body's hash was saved
  abandoned,\* history: contests with an append that never wrote its NL
  vouched   \* history: manifests the gateway has served

storeVars == <<mem, lock, disk, torn, log>>
ghosts    == <<acked, fresh, orphan, abandoned, vouched>>
vars == <<up, storeVars, pc, job, rpc, card, served, issued, crashes, faults,
          ghosts>>
-----------------------------------------------------------------------------
StoreType == [events   : SUBSET EventId,
              teams    : [EventId -> SUBSET Team],
              captured : [EventId -> Seq(Body)],
              counts   : [EventId -> Nat]]

EmptyStore == [events   |-> {},
               teams    |-> [e \in EventId |-> {}],
               captured |-> [e \in EventId |-> <<>>],
               counts   |-> [e \in EventId |-> 0]]

Op   == {"event", "team", "ingest"}
Item == Team \cup Body \cup {None}

Status == {0, 201, 202, 404, 422, 500}

\* What a handler asks for, and the status it will answer with (0: not yet).
JobType == [op : Op, ev : EventId \cup {None}, item : Item, dup : BOOLEAN,
            status : Status]

NoJob == [op |-> "event", ev |-> None, item |-> None, dup |-> FALSE, status |-> 0]

IngestStep == {"lookup", "manifest", "receipt", "relock", "append", "newline"}
Step == IngestStep \cup {"idle", "save", "write", "respond"}

WellFormed(j, l) ==
  /\ j.ev \in EventId
  /\ j.op = "ingest" => j.item \in Body
  /\ l \in IngestStep => j.op = "ingest"

Change(j) == [op |-> j.op, ev |-> j.ev, item |-> j.item]
ChangeType == [op : Op, ev : EventId, item : Item]

\* A store shows the change a handler made.
Holds(store, c) ==
  \/ c.op = "event"  /\ c.ev \in store.events
  \/ c.op = "team"   /\ c.item \in store.teams[c.ev]
  \/ c.op = "ingest" /\ c.item \in Range(store.captured[c.ev])

CardType == [ev : EventId \cup {None}, team : Team \cup {None}, expect : SUBSET Body,
             status : {0, 200, 500}, shown : SUBSET Body, count : Nat]

NoCard == [ev |-> None, team |-> None, expect |-> {}, status |-> 0,
           shown |-> {}, count |-> 0]

StoreOK ==
  /\ up \in BOOLEAN /\ torn \in BOOLEAN
  /\ mem \in StoreType /\ disk \in StoreType
  /\ lock \in Request \cup {None}
  /\ log \in [EventId -> File]

JobOK ==
  /\ pc \in [Request -> Step]
  /\ job \in [Request -> JobType]
  /\ \A r \in Request : pc[r] # "idle" => WellFormed(job[r], pc[r])

CardOK ==
  /\ rpc \in [Reader -> {"idle", "read"}]
  /\ card \in [Reader -> CardType]
  /\ \A q \in Reader : rpc[q] = "read" => card[q].ev \in EventId

GhostOK ==
  /\ acked \subseteq ChangeType
  /\ fresh \in [EventId \X Body -> Nat]
  /\ orphan \subseteq EventId \X Body
  /\ abandoned \subseteq EventId /\ vouched \subseteq Manifest

TypeOK ==
  /\ StoreOK /\ JobOK /\ CardOK /\ GhostOK
  /\ served \in Manifest \cup {None}
  /\ issued \subseteq EventId \cup Team
  /\ crashes \in 0..MaxCrashes /\ faults \in 0..MaxFaults

Init ==
  /\ up = TRUE /\ torn = FALSE
  /\ mem = EmptyStore /\ disk = EmptyStore
  /\ lock = None
  /\ log = [e \in EventId |-> <<>>]
  /\ pc = [r \in Request |-> "idle"] /\ job = [r \in Request |-> NoJob]
  /\ rpc = [q \in Reader |-> "idle"] /\ card = [q \in Reader |-> NoCard]
  /\ served = None
  /\ issued = {}
  /\ crashes = 0 /\ faults = 0
  /\ acked = {} /\ fresh = [x \in EventId \X Body |-> 0] /\ orphan = {} /\ abandoned = {}
  /\ vouched = {}
-----------------------------------------------------------------------------
Goto(r, l) == pc' = [pc EXCEPT ![r] = l]

\* The handler has its answer; hyper has yet to write it to the client.
Answer(r, status) ==
  /\ Goto(r, "respond")
  /\ job' = [job EXCEPT ![r].status = status]

\* Variant: `let _ = store.lock().await`, which drops the guard at once.
HoldDropped(r) == lock = None /\ UNCHANGED lock

\* The guard of `store.lock().await` lives until the handler returns.
Hold(r) == lock = None /\ lock' = r

Begin(r, o, e, i, status) ==
  job' = [job EXCEPT ![r] = [op |-> o, ev |-> e, item |-> i, dup |-> FALSE,
                             status |-> status]]

\* POST /events: a new contest, inserted and saved under one lock.
CreateEvent(r) ==
  /\ up /\ pc[r] = "idle"
  /\ \E e \in EventId \ issued :
       /\ issued' = issued \cup {e}
       /\ mem' = [mem EXCEPT !.events = @ \cup {e}]
       /\ Begin(r, "event", e, None, 0)
  /\ Hold(r)
  /\ Goto(r, "save")
  /\ UNCHANGED <<up, disk, torn, log, rpc, card, served, crashes, faults, ghosts>>

\* POST /e/{event}/teams.
CreateTeam(r) ==
  /\ up /\ pc[r] = "idle" /\ lock = None
  /\ \E e \in EventId, t \in Team \ issued :
       IF e \in mem.events
         THEN /\ issued' = issued \cup {t}
              /\ mem' = [mem EXCEPT !.teams[e] = @ \cup {t}]
              /\ Begin(r, "team", e, t, 0)
              /\ Hold(r)
              /\ Goto(r, "save")
         ELSE /\ Begin(r, "team", e, t, 404)
              /\ Goto(r, "respond")
              /\ UNCHANGED <<issued, mem, lock>>
  /\ UNCHANGED <<up, disk, torn, log, rpc, card, served, crashes, faults, ghosts>>

\* POST /e/{event}/events with a body that decodes (others: 400, no effect).
IngestReceive(r) ==
  /\ up /\ pc[r] = "idle"
  /\ \E e \in EventId, b \in Body : Begin(r, "ingest", e, b, 0)
  /\ Goto(r, "lookup")
  /\ UNCHANGED <<up, storeVars, rpc, card, served, issued, crashes, faults, ghosts>>

\* Variant: the guard lives through the validation.
IngestLookupKeepsLock(r) ==
  /\ pc[r] = "lookup" /\ lock = None
  /\ lock' = IF job[r].item \in Attested THEN r ELSE None
  /\ Goto(r, IF job[r].item \in Attested THEN "manifest" ELSE "relock")
  /\ UNCHANGED <<up, mem, disk, torn, log, job, rpc, card, served, issued,
                 crashes, faults, ghosts>>

\* The contest's record is cloned under the lock, which is then released:
\* an attested body is validated with no lock held.
IngestLookup(r) ==
  /\ pc[r] = "lookup" /\ lock = None
  /\ IF job[r].ev \in mem.events
       THEN /\ Goto(r, IF job[r].item \in Attested THEN "manifest" ELSE "relock")
            /\ UNCHANGED job
       ELSE Answer(r, 404)
  /\ UNCHANGED <<up, storeVars, rpc, card, served, issued, crashes, faults, ghosts>>

\* Variant: any manifest that can be fetched will do.
AnyManifest(b) == served # None

\* validate_attested_capture_event: the manifest served now must be the one
\* the body names and whose key signed it; the receipt served now, the one
\* that manifest states.
ManifestMatches(b) == served = ManifestOf[b]

ReceiptMatches(b) ==
  served # None /\ ReceiptOf[served] = ReceiptOf[ManifestOf[b]]

\* First await.
FetchManifest(r) ==
  /\ pc[r] = "manifest"
  /\ IF ManifestMatches(job[r].item)
       THEN Goto(r, "receipt") /\ UNCHANGED job
       ELSE Answer(r, 422)
  /\ UNCHANGED <<up, storeVars, rpc, card, served, issued, crashes, faults, ghosts>>

\* Second await.
FetchReceipt(r) ==
  /\ pc[r] = "receipt"
  /\ IF ReceiptMatches(job[r].item)
       THEN Goto(r, "relock") /\ UNCHANGED job
       ELSE Answer(r, 422)
  /\ UNCHANGED <<up, storeVars, rpc, card, served, issued, crashes, faults, ghosts>>

\* Variant: replayed hashes are not looked for.
NeverDuplicate(e, b) == FALSE

Duplicate(e, b) == b \in Range(mem.captured[e])

\* The lock is taken again and kept until the handler returns.
IngestRelock(r) ==
  /\ pc[r] = "relock" /\ lock = None
  /\ IF job[r].ev \in mem.events
       THEN LET dup == Duplicate(job[r].ev, job[r].item)
            IN  /\ Hold(r)
                /\ job' = [job EXCEPT ![r].dup = dup]
                /\ Goto(r, IF dup THEN "save" ELSE "append")
       ELSE Answer(r, 404) /\ UNCHANGED lock
  /\ UNCHANGED <<up, mem, disk, torn, log, rpc, card, served, issued, crashes,
                 faults, ghosts>>

\* append_captured_event: the write of the line's text ...
AppendLine(r) ==
  /\ pc[r] = "append"
  /\ log' = [log EXCEPT ![job[r].ev] = Append(@, job[r].item)]
  /\ Goto(r, "newline")
  /\ UNCHANGED <<up, mem, lock, disk, torn, job, rpc, card, served, issued,
                 crashes, faults, ghosts>>

Record(e, b) ==
  mem' = [mem EXCEPT !.captured[e] = Append(@, b), !.counts[e] = @ + 1]

\* ... and of its end; only then is the hash recorded and counted.
AppendNewline(r) ==
  /\ pc[r] = "newline"
  /\ log' = [log EXCEPT ![job[r].ev] = Append(@, NL)]
  /\ Record(job[r].ev, job[r].item)
  /\ Goto(r, "save")
  /\ UNCHANGED <<up, lock, disk, torn, job, rpc, card, served, issued, crashes,
                 faults, ghosts>>

\* Variant: the error is dropped and the hash recorded all the same.
AppendErrorIgnored(r) ==
  /\ lock' = lock /\ Goto(r, "save") /\ UNCHANGED job
  /\ Record(job[r].ev, job[r].item)

\* The `?` after append_captured_event: nothing is recorded.
OnAppendError(r) == Answer(r, 500) /\ lock' = None /\ UNCHANGED mem

\* Either write of the line fails.
AppendFails(r) ==
  /\ faults < MaxFaults
  /\ \/ pc[r] = "append" /\ UNCHANGED <<orphan, abandoned>>
     \/ /\ pc[r] = "newline"
        /\ orphan' = orphan \cup {<<job[r].ev, job[r].item>>}
        /\ abandoned' = abandoned \cup {job[r].ev}
  /\ faults' = faults + 1
  /\ OnAppendError(r)
  /\ UNCHANGED <<up, disk, torn, log, rpc, card, served, issued, crashes,
                 acked, fresh, vouched>>

\* save_store is std::fs::write: open with truncation ...
SaveTruncate(r) ==
  /\ pc[r] = "save"
  /\ torn' = TRUE
  /\ Goto(r, "write")
  /\ UNCHANGED <<up, mem, lock, disk, log, job, rpc, card, served, issued,
                 crashes, faults, ghosts>>

\* Variant: plain 200.
SuccessOk(o) == 200

SuccessStatus(o) == IF o = "ingest" THEN 202 ELSE 201

\* ... then write the encoded store.
SaveWrite(r) ==
  /\ pc[r] = "write"
  /\ disk' = mem /\ torn' = FALSE
  /\ lock' = None
  /\ Answer(r, SuccessStatus(job[r].op))
  /\ UNCHANGED <<up, mem, log, rpc, card, served, issued, crashes, faults, ghosts>>

\* Variant: `let _ = save_store(..)`.
SaveErrorIgnored(r) == Answer(r, SuccessStatus(job[r].op))

\* The `?` after save_store: the change stays in memory.
OnSaveError(r) == Answer(r, 500)

\* Either step of the save fails.
SaveFails(r) ==
  /\ faults < MaxFaults
  /\ pc[r] \in {"save", "write"}
  /\ faults' = faults + 1
  /\ lock' = None
  /\ OnSaveError(r)
  /\ UNCHANGED <<up, mem, disk, torn, log, rpc, card, served, issued, crashes, ghosts>>

Respond(r) ==
  /\ pc[r] = "respond"
  /\ acked' = IF job[r].status \in {201, 202}
                THEN acked \cup {Change(job[r])} ELSE acked
  /\ fresh' = IF job[r].status = 202 /\ ~job[r].dup
                THEN [fresh EXCEPT ![<<job[r].ev, job[r].item>>] = @ + 1]
                ELSE fresh
  /\ Goto(r, "idle")
  /\ job' = [job EXCEPT ![r] = NoJob]
  /\ UNCHANGED <<up, storeVars, rpc, card, served, issued, crashes, faults,
                 orphan, abandoned, vouched>>

\* The client goes away: hyper drops the handler at an await, or its answer.
Disconnect(r) ==
  /\ pc[r] \in {"lookup", "manifest", "receipt", "relock", "respond"}
  /\ Goto(r, "idle")
  /\ job' = [job EXCEPT ![r] = NoJob]
  /\ UNCHANGED <<up, storeVars, rpc, card, served, issued, crashes, faults, ghosts>>
-----------------------------------------------------------------------------
\* A cvm page reads the contest and its teams under the lock ...
CardStart(q) ==
  /\ up /\ rpc[q] = "idle" /\ lock = None
  /\ \E e \in mem.events : \E t \in mem.teams[e] :
       card' = [card EXCEPT ![q] =
         [ev |-> e, team |-> t, status |-> 0, shown |-> {}, count |-> 0,
          expect |-> {b \in Body :
                        /\ TeamOf[b] = t
                        /\ [op |-> "ingest", ev |-> e, item |-> b] \in acked}]]
  /\ rpc' = [rpc EXCEPT ![q] = "read"]
  /\ UNCHANGED <<up, storeVars, pc, job, served, issued, crashes, faults, ghosts>>

\* ... and the log without it.
CardRead(q) ==
  /\ rpc[q] = "read"
  /\ LET f    == log[card[q].ev]
         mine == {i \in LineStarts(f) : TeamOf[f[i]] = card[q].team}
     IN  card' = [card EXCEPT ![q] =
           IF DecodeFails(f)
             THEN [@ EXCEPT !.status = 500]
             ELSE [@ EXCEPT !.status = 200,
                            !.shown = {f[i] : i \in mine},
                            !.count = Cardinality(mine)]]
  /\ rpc' = [rpc EXCEPT ![q] = "idle"]
  /\ UNCHANGED <<up, storeVars, pc, job, served, issued, crashes, faults, ghosts>>
-----------------------------------------------------------------------------
\* The gateway comes up with a manifest, is replaced, or goes away.
GatewayServes ==
  /\ served' \in (Manifest \cup {None}) \ {served}
  /\ vouched' = vouched \cup ({served'} \ {None})
  /\ UNCHANGED <<up, storeVars, pc, job, rpc, card, issued, crashes, faults,
                 acked, fresh, orphan, abandoned>>

Crash ==
  /\ up /\ crashes < MaxCrashes
  /\ up' = FALSE
  /\ crashes' = crashes + 1
  /\ mem' = EmptyStore /\ lock' = None
  /\ pc' = [r \in Request |-> "idle"] /\ job' = [r \in Request |-> NoJob]
  /\ rpc' = [q \in Reader |-> "idle"] /\ card' = [q \in Reader |-> NoCard]
  /\ orphan' = orphan \cup {x \in EventId \X Body :
                              /\ x[2] \in Written(log[x[1]])
                              /\ x[2] \notin Range(disk.captured[x[1]])}
  /\ abandoned' = abandoned \cup {e \in EventId : Unterminated(log[e])}
  /\ UNCHANGED <<disk, torn, log, served, issued, faults, acked, fresh, vouched>>

\* main: load_store, then serve.
Restart ==
  /\ ~up /\ ~torn
  /\ up' = TRUE
  /\ mem' = disk
  /\ UNCHANGED <<lock, disk, torn, log, pc, job, rpc, card, served, issued,
                 crashes, faults, ghosts>>

\* load_store cannot decode the file: main returns the error.
RestartFails == ~up /\ torn /\ UNCHANGED vars

Handle(r) ==
  \/ CreateEvent(r) \/ CreateTeam(r) \/ IngestReceive(r) \/ IngestLookup(r)
  \/ FetchManifest(r) \/ FetchReceipt(r) \/ IngestRelock(r)
  \/ AppendLine(r) \/ AppendNewline(r) \/ AppendFails(r)
  \/ SaveTruncate(r) \/ SaveWrite(r) \/ SaveFails(r)
  \/ Respond(r) \/ Disconnect(r)

Next ==
  \/ \E r \in Request : Handle(r)
  \/ \E q \in Reader : CardStart(q) \/ CardRead(q)
  \/ GatewayServes \/ Crash \/ Restart \/ RestartFails

Spec == Init /\ [][Next]_vars

\* A handler that holds the lock, or has its answer, is not waiting for anyone.
Progress(r) ==
  \/ AppendLine(r) \/ AppendNewline(r) \/ AppendFails(r)
  \/ SaveTruncate(r) \/ SaveWrite(r) \/ SaveFails(r) \/ Respond(r)

\* The runtime polls every ready task, and tokio's Mutex hands the lock over in
\* arrival order.  Nothing is assumed of the two fetches: the HTTP client has no
\* timeout, so a silent gateway may keep a handler waiting for ever.
Fairness ==
  \A r \in Request :
    WF_vars(Progress(r)) /\ SF_vars(IngestLookup(r)) /\ SF_vars(IngestRelock(r))

FairSpec == Spec /\ Fairness
-----------------------------------------------------------------------------
(***************************************************************************)
(* Safety                                                                  *)
(***************************************************************************)

\* Whatever a client was told is done (201 for a contest or a team, 202 for an
\* event) is in every store file a restart can load: save_store completes
\* before the answer is made, and no later save drops it.
AckedSurvivesCrash ==
  /\ ~torn => \A c \in acked : Holds(disk, c)
  /\ up => \A c \in acked : Holds(mem, c)

\* A hash is recorded, in memory or in the store file, only after the body is
\* in the contest's log: append_captured_event comes before the push.
RecordedIsLogged ==
  \A e \in EventId :
    Range(mem.captured[e]) \cup Range(disk.captured[e]) \subseteq Written(log[e])

\* The duplicate check and the push happen under one lock, so two concurrent
\* deliveries of a body record it once, and the dashboard's counter is the
\* number of different bodies recorded.
CountIsDistinct ==
  \A e \in EventId :
    mem.counts[e] = Cardinality(Range(mem.captured[e]))

\* A body of a contest is answered `duplicate: false` at most once, over
\* retries, concurrent deliveries, failed saves and restarts.
FreshAckOnce == \A x \in EventId \X Body : fresh[x] <= 1

\* Lines of different events share a line only in a log whose writer was
\* killed, or failed, between the two writes of a line: writers append under
\* the lock.
GluedOnlyIfAbandoned ==
  \A e \in EventId : Glued(log[e]) => e \in abandoned

\* A body is in the log twice only if a process died or failed after writing
\* its line and before saving its hash.
RepeatedOnlyIfOrphaned ==
  \A e \in EventId : \A i, j \in 1..Len(log[e]) :
    (i # j /\ log[e][i] = log[e][j] /\ log[e][i] # NL)
      => <<e, log[e][i]>> \in orphan

\* A page that loads shows every event of its team that was acknowledged
\* before the page was asked for, although it reads the log without the lock.
CardShowsAcked ==
  \A q \in Reader :
    (card[q].status # 0 /\ card[q].ev \notin abandoned) =>
      card[q].status = 200 /\ card[q].expect \subseteq card[q].shown

\* An attested body is in a log only if the contest's gateway served the
\* manifest it was made under: the two fetches and the second lock leave no
\* path around validate_attested_capture_event.  LLM_ATTESTED.md:525 has it the
\* other way round ("stores the raw signed event first. Verification and scoring
\* can run asynchronously"): what the code rejects it does not store.
AttestedWasVouched ==
  \A e \in EventId : \A b \in Attested \cap Written(log[e]) : ManifestOf[b] \in vouched

(***************************************************************************)
(* Why they hold: what each step of a handler may rely on.                 *)
(***************************************************************************)
HoldStep == {"append", "newline", "save", "write"}

\* The handler has recorded a body, and will say that it was new.
WillAnnounce(r) ==
  /\ job[r].op = "ingest" /\ ~job[r].dup
  /\ \/ pc[r] \in {"save", "write"}
     \/ pc[r] = "respond" /\ job[r].status = 202

EntryOf(j) == <<j.ev, j.item>>

\* A handler about to save has its change in memory; one about to acknowledge
\* it has it in the store file as well.
ChangeInStore ==
  \A r \in Request :
    /\ pc[r] # "idle" => up
    /\ pc[r] \in {"save", "write"} => Holds(mem, Change(job[r]))
    /\ pc[r] = "respond" /\ job[r].status \in {201, 202} =>
         Holds(mem, Change(job[r])) /\ (~torn => Holds(disk, Change(job[r])))

\* A handler about to end its line has its body in the log.
LineInLog ==
  \A r \in Request : pc[r] = "newline" => job[r].item \in Written(log[job[r].ev])

\* Between the check for a duplicate and the record, the lock keeps every other
\* handler from recording the same body.
OneRecorder ==
  /\ \A r \in Request :
       /\ pc[r] \in HoldStep => lock = r
       /\ pc[r] \in {"append", "newline"} =>
            job[r].item \notin Range(mem.captured[job[r].ev]) /\ ~job[r].dup
       /\ pc[r] = "respond" /\ job[r].status = 202 => job[r].op = "ingest"
       /\ WillAnnounce(r) => fresh[EntryOf(job[r])] = 0
  /\ \A r, s \in Request :
       r # s /\ WillAnnounce(r) /\ WillAnnounce(s) => EntryOf(job[r]) # EntryOf(job[s])
  /\ \A x \in EventId \X Body :
       fresh[x] > 0 => [op |-> "ingest", ev |-> x[1], item |-> x[2]] \in acked

\* The three safety promises to senders, with what makes them inductive over
\* the steps of the handlers, kills and failed writes.
ServiceInv ==
  /\ ChangeInStore /\ AckedSurvivesCrash
  /\ LineInLog /\ RecordedIsLogged
  /\ OneRecorder /\ FreshAckOnce
-----------------------------------------------------------------------------
\* The ledger a sender sees: a body is stored once its text is in the log.
Ledger == INSTANCE AcceptedLedger WITH
  Entry     <- EventId \X Body,
  stored    <- {x \in EventId \X Body : x[2] \in Written(log[x[1]])},
  accepted  <- {x \in EventId \X Body :
                  [op |-> "ingest", ev |-> x[1], item |-> x[2]] \in acked},
  announced <- fresh

\* The service implements the promise of AcceptedLedger over every
\* interleaving, kill and failed write: acknowledged events are in the log, the
\* log loses nothing, and an event is announced as new at most once.
ImplementsLedger == Ledger!Spec

\* An event that is not attested is answered (or its client leaves, or the
\* process dies) whatever the gateway does: a handler waiting for the gateway
\* holds no lock.
PlainAnswered ==
  \A r \in Request :
    (pc[r] = "lookup" /\ job[r].item \notin Attested) ~> (pc[r] = "idle")
=============================================================================
