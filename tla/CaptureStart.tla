---------------------------- MODULE CaptureStart ----------------------------
(***************************************************************************)
(* llmattest (llmattest.rs) against the event log of one contest.          *)
(*                                                                         *)
(* `llmattest start` saves the team payload it is given as the config,     *)
(* loads it again, spawns a capture daemon as a child, which loads the     *)
(* config by itself, waits until something answers the health URL, posts a *)
(* smoke event, reports the daemon as running, and runs the wrapped        *)
(* command or waits for the daemon.  `init` does the first of these steps, *)
(* `smoke` and `run` load the config and do one of the others.  All use    *)
(* one config path and one port.  Meanwhile others post events, among them *)
(* a gateway that may be restarted, and a reader verifies a team's proof   *)
(* against its receipts and the gateway's manifest.                        *)
(*                                                                         *)
(* A command is not killed by itself; a Ctrl-C reaches it and its child    *)
(* together.  The event service accepts whatever reaches it.               *)
(***************************************************************************)
EXTENDS TeamDocuments

CONSTANTS
  Run,       \* runs of llmattest, each with the child it may have
  Others,    \* everybody else: the other producers of events, and the reader
  Casts,     \* the sets of actors that are looked at together
  Team,      \* team ids, which are ordered
  Watched,   \* the team of the reader
  Foreign,   \* what others post, but for its id and its times
  Nothing,   \* no config, payload or daemon
  Torn,      \* a config that is half written
  MaxPolls,  \* the health polls that fit in five seconds
  MaxPosts,  \* bound: events in the log if only runs of llmattest post any
  MaxLog,    \* bound: events in the log otherwise
  MaxBoots,  \* bound: boots of the gateway
  MaxTime    \* bound: the clock

ASSUME CaptureStartAssumption ==
  /\ Others \notin Run /\ Casts \subseteq SUBSET (Run \cup {Others})
  /\ Team \subseteq Nat /\ Watched \in Team
  /\ Nothing \notin Run \cup Team /\ Torn \notin Team
  /\ MaxPolls \in Nat \ {0} /\ MaxPosts \in 1..MaxLog
  /\ MaxBoots \in Nat \ {0} /\ MaxTime \in Nat

VARIABLES
  config,     \* the participant config: a team's, Nothing or Torn
  log, now,   \* the contest's events as they arrived, and the time
  place, loc, \* of each run
  child,      \* the state of its child
  team,       \* the team a child has loaded
  port,       \* the run whose daemon listens
  others,     \* whether the others are there
  gateway,    \* its boot, which stands for its key, and the calls of earlier boots
  reader,     \* the documents the reader has fetched
  abandoned,  \* ghost: runs that ended without a kill of their child
  overwritten \* ghost: runs whose config another one wrote over before their child
              \* had loaded it

runVars   == <<place, loc>>
childVars == <<child, team, port>>
service   == <<log, now, reader, others, gateway>>
ghosts    == <<abandoned, overwritten>>
startVars == <<config, runVars, childVars, service, ghosts>>

\* `answered` is a ghost: the run whose daemon answered the health poll.
NoLocals == [mode |-> "start", payload |-> Nothing, cfg |-> Nothing, polls |-> 0,
             answered |-> Nothing, started |-> 0]

StartInit ==
  /\ \E cast \in Casts : /\ place = [r \in Run |-> IF r \in cast THEN "new" ELSE "ended"]
                         /\ others = (Others \in cast)
  /\ config = Nothing /\ log = <<>> /\ now = 0
  /\ loc = [r \in Run |-> NoLocals]
  /\ child = [r \in Run |-> "none"] /\ team = [r \in Run |-> Nothing] /\ port = Nothing
  /\ gateway = [boot |-> 1, earlier |-> {}]
  /\ reader = [step |-> "proof", proof |-> Absent, receipts |-> Absent, gateway |-> Absent,
               grown |-> FALSE]
  /\ abandoned = {} /\ overwritten = {}

Move(r, l) == place' = [place EXCEPT ![r] = l]

\* A run ends; the handle of its child is gone with its other locals.
Ends(r) == Move(r, "ended") /\ loc' = [loc EXCEPT ![r] = NoLocals]

\* Child::kill and Child::wait
Kill(r) ==
  /\ child' = [child EXCEPT ![r] = "exited"]
  /\ port' = IF port = r THEN Nothing ELSE port
  /\ UNCHANGED team

\* The LocalDaemon, if there is one, is dropped.
Drop(r) == IF child[r] = "none" THEN UNCHANGED childVars ELSE Kill(r)
-----------------------------------------------------------------------------
\* The bound on the events in the log.
Room == IF others THEN MaxLog ELSE MaxPosts

\* signing_key_from_seed: a participant's key, which is no key of a gateway; and the
\* key the gateway makes when it boots.
Signer(report) == IF report.kind = "llm.call" THEN gateway.boot ELSE Absent

\* CaptureReport::new and sign: an event that is not the gateway's has index 0, and
\* a random id.
Signed(report, started) ==
  {report @@ [id |-> i, started |-> started, completed |-> now, key |-> Signer(report)] :
     i \in (1..Room) \ {log[j].id : j \in DOMAIN log}}

\* The event service appends an event to the log.
Accept(e) ==
  /\ Len(log) < Room
  /\ log' = Append(log, e)
  /\ reader' = IF reader.step = "receipts" /\ e.team = Watched
               THEN [reader EXCEPT !.grown = TRUE] ELSE reader
  /\ UNCHANGED <<now, others, gateway>>

\* emit_smoke_event
SmokeReport(t) ==
  [team |-> t, kind |-> "capture.health", method |-> "setup_smoke", index |-> 0,
   agent |-> Id("llmattest_smoke"), tokens |-> Absent, calls |-> Absent]

\* run_command
SessionReport(t) ==
  [team |-> t, kind |-> "agent.session", method |-> "sdk_cli_wrapper", index |-> 0,
   agent |-> Id("agent_cli"), tokens |-> Absent, calls |-> Absent]

\* import_notary_proof
UsageReport(t, tokens, calls) ==
  [team |-> t, kind |-> "provider.usage_snapshot", method |-> "provider_tls_notary",
   index |-> 0, agent |-> Id("provider_account_snapshot"), tokens |-> tokens, calls |-> calls]

\* build_llm_event, whatever the provider says of its usage; the gateway numbers a
\* team's calls from 0 again after a restart.
CallReport(t, index, agent, tokens) ==
  [team |-> t, kind |-> "llm.call", method |-> "gateway_proxy", index |-> index,
   agent |-> agent, tokens |-> tokens, calls |-> Absent]
-----------------------------------------------------------------------------
\* Variant: a start does not write over a config that is there.
EntryKeeps(mode, payload) ==
  IF payload = Nothing \/ (mode = "start" /\ config \in Team) THEN "load" ELSE "save"

Entry(mode, payload) == IF payload = Nothing THEN "load" ELSE "save"

\* The arguments: a bad one, or a bad payload, ends the run.
Begin(r) ==
  /\ place[r] = "new"
  /\ \/ Ends(r)
     \/ \E m \in {"start", "init", "smoke", "run"}, p \in Team \cup {Nothing} :
          /\ m = "init" => p # Nothing
          /\ m \in {"smoke", "run"} => p = Nothing
          /\ Move(r, Entry(m, p))
          /\ loc' = [loc EXCEPT ![r].mode = m, ![r].payload = p]
  /\ UNCHANGED <<config, childVars, service, ghosts>>

\* The other runs that have begun to save and whose child has not loaded yet.
Disturbed(r) ==
  {s \in Run \ {r} : /\ place[s] \in {"fill", "load", "spawn", "poll", "health"}
                     /\ child[s] \in {"none", "booting"}}

\* ParticipantConfig::save truncates the file ...
Save(r) ==
  /\ place[r] = "save" /\ Move(r, "fill") /\ config' = Torn
  /\ overwritten' = overwritten \cup Disturbed(r)
  /\ UNCHANGED <<loc, childVars, service, abandoned>>

\* ... and fills it, or fails; init_config is done then.
Fill(r) ==
  /\ place[r] = "fill"
  /\ \/ /\ config' = loc[r].payload
        /\ IF loc[r].mode = "init" THEN Ends(r) ELSE Move(r, "load") /\ UNCHANGED loc
     \/ Ends(r) /\ UNCHANGED config
  /\ overwritten' = overwritten \cup Disturbed(r)
  /\ UNCHANGED <<childVars, service, abandoned>>

\* What a command does with its config.
AfterLoad == [start |-> "spawn", smoke |-> "smoke", run |-> "command"]

\* ParticipantConfig::load
Load(r) ==
  /\ place[r] = "load"
  /\ \/ /\ config \in Team /\ Move(r, AfterLoad[loc[r].mode])
        /\ loc' = [loc EXCEPT ![r].cfg = config, ![r].started = now]
     \/ config \notin Team /\ Ends(r)
  /\ UNCHANGED <<config, childVars, service, ghosts>>

\* start_local_daemon up to the spawn
Spawn(r) ==
  /\ place[r] = "spawn"
  /\ \/ Ends(r) /\ UNCHANGED child
     \/ Move(r, "poll") /\ child' = [child EXCEPT ![r] = "booting"] /\ UNCHANGED loc
  /\ UNCHANGED <<config, team, port, service, ghosts>>

\* The child's parse_args loads the config.
ChildLoads(r) ==
  /\ child[r] = "booting"
  /\ \/ /\ config \in Team /\ child' = [child EXCEPT ![r] = "loaded"]
        /\ team' = [team EXCEPT ![r] = config]
     \/ config \notin Team /\ child' = [child EXCEPT ![r] = "exited"] /\ UNCHANGED team
  /\ UNCHANGED <<config, runVars, port, service, ghosts>>

\* The child's run_server: it exits if its state does not load or the port is
\* taken, and listens otherwise.
Boot(r) ==
  /\ child[r] = "loaded"
  /\ \/ child' = [child EXCEPT ![r] = "exited"] /\ UNCHANGED port
     \/ port = Nothing /\ port' = r /\ child' = [child EXCEPT ![r] = "bound"]
  /\ UNCHANGED <<config, runVars, team, service, ghosts>>

\* The daemon ends by itself.
DaemonEnds(r) ==
  /\ child[r] = "bound" /\ Kill(r)
  /\ UNCHANGED <<config, runVars, service, ghosts>>

\* Variant: a daemon that does not become healthy is left alone.
OnPollsUsedUpKeep(r) == UNCHANGED childVars

OnPollsUsedUp(r) == Kill(r)

\* wait_for_daemon: out of time, or the child has exited, or ask for health ...
Poll(r) ==
  /\ place[r] = "poll"
  /\ \/ loc[r].polls = MaxPolls /\ Ends(r) /\ OnPollsUsedUp(r)
     \/ loc[r].polls < MaxPolls /\ child[r] = "exited" /\ Ends(r) /\ UNCHANGED childVars
     \/ /\ loc[r].polls < MaxPolls /\ child[r] # "exited"
        /\ Move(r, "health") /\ UNCHANGED <<loc, childVars>>
  /\ UNCHANGED <<config, service, ghosts>>

\* ... or there is no client to ask with, or try_wait fails: the Child is dropped,
\* which does not kill it.
PollFails(r) ==
  /\ place[r] = "poll" /\ loc[r].polls < MaxPolls /\ Ends(r)
  /\ abandoned' = abandoned \cup {r}
  /\ UNCHANGED <<config, childVars, service, overwritten>>

\* ... and any daemon on the port may answer, in time or not.
Health(r) ==
  /\ place[r] = "health"
  /\ \/ /\ port # Nothing /\ Move(r, "smoke")
        /\ loc' = [loc EXCEPT ![r].answered = port]
     \/ /\ Move(r, "poll")
        /\ loc' = [loc EXCEPT ![r].polls = @ + 1]
  /\ UNCHANGED <<config, childVars, service, ghosts>>

\* post_event: accepted and answered, or an error whether it was accepted or not
Posted(report, started) == \E e \in Signed(report, started) : Accept(e)
PostFails(report, started) == Posted(report, started) \/ UNCHANGED service

\* emit_smoke_event, unless --no-smoke; an error, there or in the status before or
\* after it, returns and so drops the LocalDaemon.  smoke_capture is done then.
Smoke(r) ==
  /\ place[r] = "smoke"
  /\ \/ /\ loc[r].mode = "start"
        /\ \/ UNCHANGED service
           \/ Posted(SmokeReport(loc[r].cfg), now)
        /\ Move(r, "started") /\ UNCHANGED <<loc, childVars>>
     \/ /\ PostFails(SmokeReport(loc[r].cfg), now)
        /\ Ends(r) /\ Drop(r)
  /\ UNCHANGED <<config, ghosts>>

\* The daemon is printed as running, under its child's pid.
Started(r) ==
  /\ place[r] = "started"
  /\ Move(r, "command") \/ Move(r, "waiting")
  /\ loc' = [loc EXCEPT ![r].started = now]
  /\ UNCHANGED <<config, childVars, service, ghosts>>

\* run_command: the command ended well, or the event is not posted, or there is no
\* such command, and the LocalDaemon is dropped ...
CommandReturns(r) ==
  /\ place[r] = "command" /\ Ends(r) /\ Drop(r)
  /\ PostFails(SessionReport(loc[r].cfg), loc[r].started)
  /\ UNCHANGED <<config, ghosts>>

\* ... or the command failed: std::process::exit runs no destructor.
CommandExits(r) ==
  /\ place[r] = "command" /\ Ends(r)
  /\ Posted(SessionReport(loc[r].cfg), loc[r].started)
  /\ abandoned' = abandoned \cup {r}
  /\ UNCHANGED <<config, childVars, overwritten>>

\* Without a command: until the child exits.
Wait(r) ==
  /\ place[r] = "waiting" /\ child[r] = "exited" /\ Ends(r)
  /\ UNCHANGED <<config, childVars, service, ghosts>>

\* A Ctrl-C ends a run and its child.
Interrupt(r) ==
  /\ place[r] \notin {"new", "ended"} /\ Ends(r) /\ Drop(r)
  /\ UNCHANGED <<config, service, ghosts>>
-----------------------------------------------------------------------------
\* Others post events, with emit_report, import_notary_proof or a gateway ...
Arrive ==
  /\ others
  /\ \E report \in Foreign : Posted(report, now)
  /\ UNCHANGED <<config, runVars, childVars, ghosts>>

\* ... and time passes ...
Tick ==
  /\ others /\ now < MaxTime /\ now' = now + 1
  /\ UNCHANGED <<config, runVars, childVars, log, reader, others, gateway, ghosts>>

\* ... and the gateway is restarted, with a new key.
RestartGateway ==
  /\ others /\ gateway.boot < MaxBoots
  /\ gateway' = [boot |-> gateway.boot + 1,
                 earlier |-> {e.id : e \in {f \in Range(log) : f.kind = "llm.call"}}]
  /\ UNCHANGED <<config, runVars, childVars, log, now, reader, others, ghosts>>

\* A reader does what the proof says: fetch it ...
FetchProof ==
  /\ others /\ reader.step = "proof"
  /\ reader' = [reader EXCEPT !.step = "receipts", !.proof = Proof(Watched, log, Card(Watched, log))]
  /\ UNCHANGED <<config, runVars, childVars, log, now, others, gateway, ghosts>>

\* ... fetch the receipts and the gateway's manifest (a restart between these two is
\* to the reader as one before both), verify each signature against it, compare.
\* Bound: the others are looked at until then.
FetchReceipts ==
  /\ reader.step = "receipts"
  /\ reader' = [reader EXCEPT !.step = "done", !.receipts = Receipts(Watched, log),
                              !.gateway = gateway]
  /\ others' = FALSE
  /\ UNCHANGED <<config, runVars, childVars, log, now, gateway, ghosts>>

StartNext ==
  \/ Arrive \/ Tick \/ RestartGateway \/ FetchProof \/ FetchReceipts
  \/ \E r \in Run :
       \/ Begin(r) \/ Save(r) \/ Fill(r) \/ Load(r) \/ Spawn(r)
       \/ ChildLoads(r) \/ Boot(r) \/ DaemonEnds(r)
       \/ Poll(r) \/ PollFails(r) \/ Health(r) \/ Smoke(r) \/ Started(r)
       \/ CommandReturns(r) \/ CommandExits(r) \/ Wait(r) \/ Interrupt(r)

StartSpec == StartInit /\ [][StartNext]_startVars
-----------------------------------------------------------------------------
\* A start that has ended, at whatever step, leaves no daemon behind, unless its
\* wrapped command failed or it could not even poll its child.
EndedLeavesNothing ==
  \A r \in Run :
    place[r] = "ended" /\ child[r] \in {"booting", "loaded", "bound"} => r \in abandoned

\* What a start prints is about the team of the payload it was given: the config it
\* loaded back, and, if it was its own child that answered, the daemon; unless
\* another run wrote over the config before the child had loaded it.
StartIsOfItsPayload ==
  \A r \in Run :
    /\ place[r] \in {"command", "waiting"}
    /\ loc[r].payload # Nothing /\ r \notin overwritten
    => /\ loc[r].cfg = loc[r].payload
       /\ loc[r].answered = r => team[r] = loc[r].payload

\* The reader's verdicts: every signature verifies, and the recomputed card and the
\* root are those of the proof.
SignaturesVerify == \A e \in Range(reader.receipts.receipts) : e.key = reader.gateway.boot
ProofMatches ==
  /\ reader.receipts.event_log_root = reader.proof.event_log_root
  /\ Card(Watched, reader.receipts.receipts) = reader.proof.cvm_json_hash


Swap(s, i) == [s EXCEPT ![i] = s[i + 1], ![i + 1] = s[i]]

\* All that is computed from a log.
Computed(l) ==
  <<[t \in Team |-> <<Card(t, l), Signal(t, l, Absent, now)>>],
    ScoreMinTokens(l), ScoreMaxTokensUnderBudget(l, 0), ScoreMaxTokensUnderBudget(l, 2)>>

\* Documents and scores are of the events, not of the order they arrived in: to
\* exchange two neighbours in the log changes none of them.
ArrivalOrderIrrelevant ==
  LET here == Computed(log)
  IN  \A i \in 1..(Len(log) - 1) : Computed(Swap(log, i)) = here

\* Whether a signal can be asked for by this id.
Kept(id) == Requested(id) = id

\* The signals of a team's agents add up to its card, although events, tokens and
\* calls are counted by separate code and the sums wrap: to the card of the events
\* whose agent's id is neither empty nor has blanks around it, which is the card of
\* the team if all are so.  What is asked for by another id is never that agent's,
\* unless the agent has the team's last event.
SignalsSumToCard ==
  \A t \in Team :
    LET stats == Card(t, SelectSeq(log, LAMBDA e : Kept(e.agent))).stats
        signals == [a \in DOMAIN stats.agent_sessions |-> Signal(t, log, a, now)]
        Add(s, sum) == <<sum[1] + s.captured_events,
                         Wrap(sum[2] + s.total_tokens), Wrap(sum[3] + s.llm_calls)>>
    IN  /\ FoldFunction(Add, <<0, 0, 0>>, signals)
             = <<stats.captured_events, stats.total_tokens, stats.llm_calls>>
        /\ \A a \in DOMAIN signals :
             signals[a].captured_events = stats.agent_sessions[a]
        /\ \A a \in DOMAIN Card(t, log).stats.agent_sessions \ DOMAIN signals :
             Signal(t, log, a, now).agent_session_id = a =>
               LastOr(TeamEvents(t, log), Absent).agent = a
=============================================================================
