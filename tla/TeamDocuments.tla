---------------------------- MODULE TeamDocuments ----------------------------
(***************************************************************************)
(* The public documents of a team, computed by llm-event-service from the  *)
(* event log of its contest: the cvm card, the proof, the receipts, the    *)
(* signal of one agent; and the scores of llm_attested.rs.                 *)
(*                                                                         *)
(* An event is a record with the fields the documents look at.  An agent's *)
(* id is a name, which may be empty, with blanks around it or without.  A  *)
(* hash is the thing hashed.  Sums are i64: they wrap, as in the release   *)
(* build.                                                                  *)
(***************************************************************************)
EXTENDS Integers, Sequences, FiniteSetsExt, Functions, TLC

CONSTANTS
  Absent,   \* a metric an event does not have
  Width,    \* bits of the integers (64 in the code)
  Day       \* the length of a day

ASSUME TeamDocumentsAssumption == Width \in Nat \ {0} /\ Day \in Nat \ {0}

\* i64 addition
Wrap(n) == ((n + 2^(Width - 1)) % 2^Width) - 2^(Width - 1)

\* A running i64 sum.
Total(amounts) ==
  LET sum[n \in 0..Len(amounts)] == IF n = 0 THEN 0 ELSE Wrap(sum[n - 1] + amounts[n])
  IN  sum[Len(amounts)]

\* How often each key occurs.
Counts(keys) ==
  [k \in Range(keys) |-> Cardinality({i \in DOMAIN keys : keys[i] = k})]

\* ContestEvent::total_tokens
TokensOf(e) == IF e.tokens = Absent THEN 0 ELSE e.tokens

Tokens(es)  == [i \in DOMAIN es |-> TokensOf(es[i])]
Agents(es)  == [i \in DOMAIN es |-> es[i].agent]
Methods(es) == [i \in DOMAIN es |-> es[i].method]

\* An id without blanks, and the trimmed id (str::trim).
Id(name) == [name |-> name, blanks |-> FALSE]
Trim(id) == Id(id.name)

LastOr(s, default) == IF s = <<>> THEN default ELSE s[Len(s)]
-----------------------------------------------------------------------------
\* Variant: without the event id, events of one index and time stay as they came.
TeamLessNoId(a, b) ==
  \/ a.index < b.index
  \/ a.index = b.index /\ a.started < b.started

\* The order of team_events: event_index, started_at_ms, event_id.
TeamLess(a, b) ==
  \/ a.index < b.index
  \/ a.index = b.index /\ a.started < b.started
  \/ a.index = b.index /\ a.started = b.started /\ a.id < b.id

TeamEvents(team, log) == SortSeq(SelectSeq(log, LAMBDA e : e.team = team), TeamLess)


\* The same order, written once more in team_cvm_document.
CardLess(a, b) ==
  \/ a.index < b.index
  \/ a.index = b.index /\ a.started < b.started
  \/ a.index = b.index /\ a.started = b.started /\ a.id < b.id

\* Variant: only calls through the gateway are counted.
CardCallsOfGateway(e) == IF e.kind = "llm.call" THEN 1 ELSE 0

\* The calls of an event as team_cvm_document counts them ...
CardCalls(e) ==
  IF e.kind = "llm.call" THEN 1
  ELSE IF e.calls # Absent /\ e.calls > 0 THEN e.calls ELSE 0

\* ... and captured_llm_calls.
SignalCalls(e) ==
  CASE e.kind = "llm.call" -> 1
    [] e.kind # "llm.call" /\ (e.calls = Absent \/ e.calls < 0) -> 0
    [] OTHER -> e.calls

\* team_cvm_document; event_log_root is the hash of the events' hashes in order.
Card(team, log) ==
  LET es     == SortSeq(SelectSeq(log, LAMBDA e : e.team = team), CardLess)
      calls  == [i \in DOMAIN es |-> CardCalls(es[i])]
      tokens == IF es = <<>> THEN {0} ELSE Range(Tokens(es))
  IN  [stats |-> [captured_events |-> Len(es),
                  llm_calls       |-> Total(calls),
                  total_tokens    |-> Total(Tokens(es)),
                  min_call_tokens |-> Min(tokens),
                  max_call_tokens |-> Max(tokens),
                  agent_sessions  |-> Counts(Agents(es))],
       capture_methods   |-> Counts(Methods(es)),
       event_log_root    |-> es,
       latest_event_hash |-> LastOr(es, Absent)]

\* cvm_proof_document, given the card made from the same log
Proof(team, log, card) ==
  [cvm_json_hash |-> card, event_log_root |-> TeamEvents(team, log)]

\* cvm_receipts_document
Receipts(team, log) ==
  LET es == TeamEvents(team, log) IN [event_log_root |-> es, receipts |-> es]

\* cvm_credential_document, which takes the stats from the card it is given
Credential(team, log, card) ==
  [result |-> card.stats, eventLogRoot |-> TeamEvents(team, log)]

\* signal_failure_label
Failure(latest) ==
  CASE latest = Absent -> "waiting for first capture"
    [] latest # Absent /\ latest.kind = "llm.call" /\ latest.tokens = Absent ->
         "token usage missing"
    [] latest # Absent /\ latest.kind = "llm.call" /\ latest.tokens = 0 ->
         "zero-token LLM call"
    [] OTHER -> "0 actionable failures"

\* The agent asked for is trimmed; an empty one is as good as none.
Requested(asked) ==
  IF asked = Absent \/ Trim(asked) = Id("") THEN Absent ELSE Trim(asked)

\* individual_signal_document at a time: of the agent asked for, or of the agent of
\* the team's last event.
Signal(team, log, asked, now) ==
  LET all    == TeamEvents(team, log)
      agent  == IF Requested(asked) # Absent \/ all = <<>> THEN Requested(asked)
                ELSE LastOr(all, Absent).agent
      es     == SelectSeq(all, LAMBDA e : e.agent = agent)
      today  == SelectSeq(es, LAMBDA e : e.completed >= (now \div Day) * Day)
      latest == LastOr(es, Absent)
      calls(s) == Total([i \in DOMAIN s |-> SignalCalls(s[i])])
  IN  [agent_session_id   |-> agent,
       captured_events    |-> Len(es),
       llm_calls          |-> calls(es),
       total_tokens       |-> Total(Tokens(es)),
       today_llm_calls    |-> calls(today),
       today_total_tokens |-> Total(Tokens(today)),
       capture_methods    |-> Counts(Methods(es)),
       event_log_root     |-> es,
       latest_event_hash  |-> latest,
       actionable_failure |-> Failure(latest)]
-----------------------------------------------------------------------------
\* totals_by_team: only llm.call events, in the order of the team ids
TotalsByTeam(log) ==
  LET calls == SelectSeq(log, LAMBDA e : e.kind = "llm.call")
      teams == {calls[i].team : i \in DOMAIN calls}
  IN  {[team |-> t,
        total |-> Total(Tokens(SelectSeq(calls, LAMBDA e : e.team = t)))] : t \in teams}

\* The sort of a score: every total at its rank, in the order of the pairs.
Ranked(totals, order) ==
  [r \in totals |-> 1 + Cardinality({s \in totals : <<s, r>> \in order})]

\* score_min_tokens
ScoreMinTokens(log) ==
  LET totals == TotalsByTeam(log)
      before(a, b) == a.total < b.total \/ (a.total = b.total /\ a.team < b.team)
  IN  Ranked(totals, {p \in totals \X totals : before(p[1], p[2])})

\* score_max_tokens_under_budget
ScoreMaxTokensUnderBudget(log, budget) ==
  LET totals == TotalsByTeam(log)
      ok(a) == a.total <= budget
      before(a, b) ==
        \/ ok(a) /\ ~ok(b)
        \/ ok(a) = ok(b) /\ a.total > b.total
        \/ ok(a) = ok(b) /\ a.total = b.total /\ a.team < b.team
  IN  Ranked(totals, {p \in totals \X totals : before(p[1], p[2])})
=============================================================================
