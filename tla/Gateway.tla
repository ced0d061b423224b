------------------------------- MODULE Gateway -------------------------------
(***************************************************************************)
(* llm-gateway: proxies model calls upstream and, for each, signs an event *)
(* that links to the team's previous one, appends it to its event log and  *)
(* posts it once to the event service.  The head of each team's chain is   *)
(* in memory only, and so is the signing key: a restart makes new ones.    *)
(*                                                                         *)
(* The hash of an event is the event itself, a member of Body.             *)
(***************************************************************************)
EXTENDS LineLog, FiniteSetsExt

CONSTANTS
  Handler, Team,
  Zero,         \* ZERO_HASH
  None,
  MaxCrashes,   \* bound: process kills
  MaxFaults     \* bound: file-system calls that return an error

ASSUME GatewayAssumption ==
  /\ Zero \notin Body
  /\ None \notin Handler /\ None \notin Team /\ None \notin Body
  /\ MaxCrashes \in Nat /\ MaxFaults \in Nat

VARIABLES
  up,        \* the process is running
  boot,      \* which start of the process: stands for its key and manifest
  chains,    \* GatewayState.chains
  mutex,     \* the handler that has `chains` locked, or None
  evlog,     \* the event log
  ev,        \* the events made: their team, index, previous and boot
  pc, team, event,   \* a handler's place, its team and its event
  sink,      \* events the event service took
  announced, \* events whose id and hash a client got in the headers
  crashes, faults,
  torn       \* history: a line of the log was left without its end

handlerVars == <<pc, team, event>>
bounds      == <<crashes, faults>>
vars == <<up, boot, chains, mutex, evlog, ev, handlerVars, sink, announced,
          bounds, torn>>
-----------------------------------------------------------------------------
Step == {"idle", "upstream", "build", "nl", "sink", "respond", "fail"}

TeamChain == [next_index : Nat, previous_hash : Body \cup {Zero}]
Genesis   == [next_index |-> 0, previous_hash |-> Zero]

EventType == [team : Team, index : Nat, previous : Body \cup {Zero}, boot : Nat]
NoEvent   == [team |-> None]

Made == {b \in Body : ev[b] # NoEvent}

Init ==
  /\ up = TRUE /\ torn = FALSE
  /\ boot = 0
  /\ chains = [t \in Team |-> Genesis]
  /\ mutex = None
  /\ evlog = <<>>
  /\ ev = [b \in Body |-> NoEvent]
  /\ pc = [h \in Handler |-> "idle"]
  /\ team = [h \in Handler |-> None] /\ event = [h \in Handler |-> None]
  /\ sink = {} /\ announced = {}
  /\ crashes = 0 /\ faults = 0

Goto(h, l) == pc' = [pc EXCEPT ![h] = l]
-----------------------------------------------------------------------------
\* An authenticated POST /v1/... that the limiter lets through.  Every other
\* route answers from constants.
Request(h) ==
  /\ up /\ pc[h] = "idle"
  /\ \E t \in Team : team' = [team EXCEPT ![h] = t]
  /\ Goto(h, "upstream")
  /\ UNCHANGED <<up, boot, chains, mutex, evlog, ev, event, sink, announced, bounds,
                 torn>>

\* proxy_upstream answers, whatever the status, or fails.
Upstream(h) ==
  /\ pc[h] = "upstream"
  /\ Goto(h, "build") \/ Goto(h, "fail")
  /\ UNCHANGED <<up, boot, chains, mutex, evlog, ev, team, event, sink, announced,
                 bounds, torn>>

\* Variant: the guard of `chains` is dropped before the append.
LockNot(h) == UNCHANGED mutex

Lock(h) == mutex' = h

Unlock(h) == mutex' = IF mutex = h THEN None ELSE mutex

\* build_llm_event: lock the chains, make and sign the event, append it to the
\* log.  The text of the line ...
BuildText(h) ==
  /\ pc[h] = "build" /\ mutex = None
  /\ Lock(h)
  /\ \E b \in Body \ Made :
       /\ ev' = [ev EXCEPT ![b] =
                   [team     |-> team[h],
                    index    |-> chains[team[h]].next_index,
                    previous |-> chains[team[h]].previous_hash,
                    boot     |-> boot]]
       /\ event' = [event EXCEPT ![h] = b]
       /\ evlog' = Append(evlog, b)
  /\ Goto(h, "nl")
  /\ UNCHANGED <<up, boot, chains, team, sink, announced, bounds, torn>>

\* ... its end, and the new head of the chain.
BuildNewline(h) ==
  /\ pc[h] = "nl"
  /\ evlog' = Append(evlog, NL)
  /\ chains' = [chains EXCEPT ![team[h]] =
                  [next_index |-> @.next_index + 1, previous_hash |-> event[h]]]
  /\ Unlock(h)
  /\ Goto(h, "sink")
  /\ UNCHANGED <<up, boot, ev, team, event, sink, announced, bounds, torn>>

\* Variant: the error of the append is logged and the event used all the same.
OnAppendErrorGoOn(h) == IF pc[h] = "nl" THEN "sink" ELSE "fail"

OnAppendError(h) == "fail"

\* Variant: the index moves on before the line is complete.
ChainsOnErrorMoved(h) ==
  IF pc[h] = "nl" THEN [chains EXCEPT ![team[h]].next_index = @ + 1] ELSE chains

ChainsOnError(h) == chains

\* Variant: an early return that leaves `chains` locked.
AppendFailsKeepsLock(h) ==
  /\ faults < MaxFaults
  /\ pc[h] = "nl" \/ (pc[h] = "build" /\ mutex = None)
  /\ faults' = faults + 1
  /\ mutex' = h
  /\ torn' = (torn \/ pc[h] = "nl")
  /\ Goto(h, OnAppendError(h))
  /\ UNCHANGED <<up, boot, chains, evlog, ev, team, event, sink, announced, crashes>>

\* The open or the write of the text fails, or that of the line's end: the
\* handler returns with the chain as it was and the guard dropped.
AppendFails(h) ==
  /\ faults < MaxFaults
  /\ pc[h] = "nl" \/ (pc[h] = "build" /\ mutex = None)
  /\ faults' = faults + 1
  /\ Unlock(h)
  /\ torn' = (torn \/ pc[h] = "nl")
  /\ Goto(h, OnAppendError(h))
  /\ chains' = ChainsOnError(h)
  /\ UNCHANGED <<up, boot, evlog, ev, team, event, sink, announced, crashes>>

\* send_event_sink: one post, whose failure is only logged.
PostOk(h) ==
  /\ pc[h] = "sink"
  /\ sink' = sink \cup {event[h]}
  /\ Goto(h, "respond")
  /\ UNCHANGED <<up, boot, chains, mutex, evlog, ev, team, event, announced, bounds,
                 torn>>

PostFails(h) ==
  /\ pc[h] = "sink"
  /\ Goto(h, "respond")
  /\ UNCHANGED <<up, boot, chains, mutex, evlog, ev, team, event, sink, announced,
                 bounds, torn>>

Leave(h) ==
  /\ Goto(h, "idle")
  /\ team' = [team EXCEPT ![h] = None] /\ event' = [event EXCEPT ![h] = None]
  /\ UNCHANGED <<up, boot, chains, mutex, evlog, ev, sink, bounds, torn>>

\* The upstream's answer with the event's id and hash as headers, or 500.
Respond(h) ==
  /\ pc[h] \in {"respond", "fail"}
  /\ announced' = IF pc[h] = "fail" THEN announced ELSE announced \cup {event[h]}
  /\ Leave(h)

\* The client goes away: hyper drops the handler where it awaits.
Disconnect(h) ==
  /\ pc[h] \in {"upstream", "build", "sink", "respond", "fail"}
  /\ UNCHANGED announced
  /\ Leave(h)
-----------------------------------------------------------------------------
Crash ==
  /\ up /\ crashes < MaxCrashes
  /\ up' = FALSE /\ crashes' = crashes + 1
  /\ pc' = [h \in Handler |-> "idle"]
  /\ team' = [h \in Handler |-> None] /\ event' = [h \in Handler |-> None]
  /\ mutex' = None
  /\ torn' = (torn \/ \E h \in Handler : pc[h] = "nl")
  /\ UNCHANGED <<boot, chains, evlog, ev, sink, announced, faults>>

\* main: a new key, hence a new manifest, and empty chains.
Restart ==
  /\ ~up
  /\ up' = TRUE
  /\ boot' = boot + 1
  /\ chains' = [t \in Team |-> Genesis]
  /\ UNCHANGED <<mutex, evlog, ev, handlerVars, sink, announced, bounds, torn>>

Next ==
  \/ \E h \in Handler :
       \/ Request(h) \/ Upstream(h)
       \/ BuildText(h) \/ BuildNewline(h) \/ AppendFails(h)
       \/ PostOk(h) \/ PostFails(h) \/ Respond(h) \/ Disconnect(h)
  \/ Crash \/ Restart

Spec == Init /\ [][Next]_vars

\* A handler that waits for no other process runs, and the mutex is handed to its
\* waiters in turn.  Nothing is assumed of the upstream or of the event service:
\* the HTTP client has no timeout, so both may keep a handler waiting for ever.
Fairness ==
  \A h \in Handler :
    SF_vars(BuildText(h)) /\ WF_vars(BuildNewline(h)) /\ WF_vars(Respond(h))

FairSpec == Spec /\ Fairness
-----------------------------------------------------------------------------
\* The lines of the log that read as an event of this team and boot before i.
Before(i) ==
  {j \in LineStarts(evlog) :
     /\ j < i
     /\ ev[evlog[j]].team = ev[evlog[i]].team /\ ev[evlog[j]].boot = ev[evlog[i]].boot}

\* Concurrent calls of a team, kills and restarts included, the log of a
\* gateway whose appends were never cut short reads as one chain per team and
\* boot, a line each: an event's index counts those before it, and its previous hash is
\* that of the last one (build_llm_event under the lock of `chains`).
LogIsChain ==
  ~torn =>
    /\ ~Glued(evlog)
    /\ \A i \in LineStarts(evlog) :
         /\ ev[evlog[i]].index = Cardinality(Before(i))
         /\ ev[evlog[i]].previous =
              IF Before(i) = {} THEN Zero ELSE evlog[Max(Before(i))]

\* Whatever failed, two events that were given out, in the headers of an answer
\* or to the event service, never share their place in a chain.
GivenOutNeverFork ==
  \A b, c \in sink \cup announced :
    /\ b # c /\ ev[b].team = ev[c].team /\ ev[b].boot = ev[c].boot
    => ev[b].index # ev[c].index /\ ev[b].previous # ev[c].previous

\* An event given out links back, event by event, to events that are all in the
\* log: its predecessor was completed before it was made.
PreviousIsLogged ==
  \A b \in sink \cup announced :
    /\ b \in Written(evlog)
    /\ ev[b].previous # Zero =>
         /\ ev[b].previous \in Written(evlog)
         /\ ev[ev[b].previous].index + 1 = ev[b].index
         /\ ev[ev[b].previous].team = ev[b].team

\* A call whose upstream has answered has its event logged and ready to post, or
\* is answered with the error, although other handlers wait for ever for their
\* upstream or for the event service, clients leave and an append fails; unless
\* there are no more events to make.
BuiltIsLogged ==
  \A h \in Handler : pc[h] = "build" ~> (pc[h] \in {"sink", "idle"} \/ Made = Body)
=============================================================================
