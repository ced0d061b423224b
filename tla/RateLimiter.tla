----------------------------- MODULE RateLimiter -----------------------------
(***************************************************************************)
(* ServiceRateLimiter (llm_attested_net.rs): the request limiter of the    *)
(* gateway, the event service and the capture daemon.  It asks governor    *)
(* for each decision, blocks a key that went over its quota for a time     *)
(* that doubles, and keeps the blocks in a file.                           *)
(*                                                                         *)
(* Time is the wall clock, in steps.  What governor answers is left open.  *)
(***************************************************************************)
EXTENDS Naturals, FiniteSets

CONSTANTS
  Handler, Key, None,
  Silent,        \* keys known from an earlier run whose clients are gone
  MaxSessions,   \* max_sessions
  IdleTtl,       \* idle_ttl_ms
  SaveInterval,  \* save_interval_ms
  Base, MaxBackoff,  \* the policy's backoff
  Cap,           \* the limit of `violations` (20)
  MaxShift,      \* the limit of the exponent (16)
  MaxWait,       \* the longest wait governor asks for
  MaxStall,      \* how long a handler waits for the mutex, at most
  MaxClock,      \* bound: the last time
  MaxCrashes, MaxFaults   \* bounds: kills, failing file-system calls

ASSUME RateLimiterAssumption ==
  /\ {MaxSessions, IdleTtl, SaveInterval, MaxShift, MaxWait, MaxStall, MaxClock,
      MaxCrashes, MaxFaults} \subseteq Nat
  /\ Base \in Nat \ {0} /\ MaxBackoff \in Nat \ {0} /\ Cap \in Nat \ {0}
  /\ Base <= MaxBackoff
  /\ None \notin Handler /\ None \notin Key
  /\ Silent \subseteq Key

\* 24 hours are longer than any block and two waits for the mutex: one by which
\* last_seen may lag behind the clock, one by which the next reading may.
ASSUME TtlAssumption ==
  MaxBackoff + 2 * MaxStall <= IdleTtl /\ MaxWait + 2 * MaxStall <= IdleTtl

VARIABLES
  up, clock,
  sessions,   \* LimiterState.sessions: key -> session, or NoSession
  dirty, last_saved,
  mutex,      \* the handler that has the state locked, or None
  disk, torn, \* the file, and whether a write of it was cut short
  pc, key, now,       \* a handler's place, its key, the time it read
  until,      \* what it decided: allowed (0), or blocked until then
  crashes, faults,
  promised,   \* history: the time until which clients of a key were told to wait
  streak      \* history: violations made durable since the key was allowed

state       == <<sessions, dirty, last_saved>>
file        == <<disk, torn>>
handlerVars == <<pc, key, now, until>>
bounds      == <<crashes, faults>>
history     == <<promised, streak>>
limiterVars == <<up, clock, state, mutex, file, handlerVars, bounds, history>>
-----------------------------------------------------------------------------
Session   == [blocked_until : Nat, violations : 0..Cap, last_seen : Nat]
NoSession == [violations |-> None]
Fresh(t)  == [blocked_until |-> 0, violations |-> 0, last_seen |-> t]

Known(ss) == {k \in Key : ss[k] # NoSession}

\* The file as load finds it: none, or one with the sessions of the silent keys.
Loaded == [k \in Key |-> IF k \in Silent THEN Fresh(0) ELSE NoSession]

LimiterInit ==
  /\ up = TRUE /\ clock = 0
  /\ sessions = Loaded /\ dirty = FALSE /\ last_saved = 0
  /\ mutex = None
  /\ disk = Loaded /\ torn = FALSE
  /\ pc = [h \in Handler |-> "idle"] /\ key = [h \in Handler |-> None]
  /\ now = [h \in Handler |-> 0] /\ until = [h \in Handler |-> 0]
  /\ crashes = 0 /\ faults = 0
  /\ promised = [k \in Key |-> 0] /\ streak = [k \in Key |-> 0]

AtMost(x, limit)  == IF x <= limit THEN x ELSE limit
AtLeast(x, limit) == IF x >= limit THEN x ELSE limit

\* base_backoff_ms times 1 << shift
Doubled[shift \in 0..MaxShift] == IF shift = 0 THEN Base ELSE 2 * Doubled[shift - 1]

\* exponential_backoff_ms
Backoff(v) ==
  AtMost(Doubled[AtMost(IF v = 0 THEN 0 ELSE v - 1, MaxShift)], MaxBackoff)
-----------------------------------------------------------------------------
Go(h, l) == pc' = [pc EXCEPT ![h] = l]

\* check reads the clock before it takes the mutex.
ReadClock(h) ==
  /\ up /\ pc[h] = "idle"
  /\ \E k \in Key \ Silent : key' = [key EXCEPT ![h] = k]
  /\ now' = [now EXCEPT ![h] = clock]
  /\ Go(h, "read")
  /\ UNCHANGED <<up, clock, state, mutex, file, until, bounds, history>>

\* Variant: blocks are dropped at their first idle moment.
StaleAtOnce(s, t) == s.last_seen < t

\* prune_sessions drops a session that was idle for longer than IdleTtl.
Stale(s, t) == s.last_seen + IdleTtl < t

Full == Cardinality(Known(sessions)) > MaxSessions

Pruned(t) ==
  [k \in Key |-> IF Full /\ k \in Known(sessions) /\ Stale(sessions[k], t)
                 THEN NoSession ELSE sessions[k]]

SaveDenial(h, d) == TRUE

SaveAllowance(h, d) == d /\ last_saved + SaveInterval <= now[h]

\* The decision u for h's key, with the session it leaves behind; d says the
\* state is dirty, and save that it is written before the answer.
Decide(h, session, u, d, save) ==
  /\ sessions' = [Pruned(now[h]) EXCEPT ![key[h]] = session]
  /\ dirty' = d
  /\ until' = [until EXCEPT ![h] = u]
  /\ streak' = [k \in Key |->
                  IF (k = key[h] /\ u = 0) \/ Pruned(now[h])[k] = NoSession
                  THEN 0 ELSE streak[k]]
  /\ IF save THEN Go(h, "save") /\ mutex' = h
             ELSE Go(h, "respond") /\ UNCHANGED mutex
  /\ UNCHANGED <<up, clock, last_saved, file, key, now, bounds, promised>>

\* The session of h's key as check finds or makes it; a changed policy gives it
\* a new limiter and leaves the rest.
Entry(h) ==
  LET s == Pruned(now[h])[key[h]]
  IN  IF s = NoSession THEN Fresh(now[h]) ELSE [s EXCEPT !.last_seen = now[h]]

Locked(h) == pc[h] = "read" /\ mutex = None

StillBlocked(h) ==
  /\ Locked(h)
  /\ now[h] < Entry(h).blocked_until
  /\ Decide(h, Entry(h), Entry(h).blocked_until, dirty \/ Full,
            SaveDenial(h, dirty \/ Full))

\* governor lets the request through.
Allowed(h) ==
  /\ Locked(h)
  /\ now[h] >= Entry(h).blocked_until
  /\ LET v == Entry(h).violations
         d == dirty \/ Full \/ v > 0
     IN  Decide(h, [Entry(h) EXCEPT !.violations = IF v = 0 THEN 0 ELSE v - 1], 0, d,
                SaveAllowance(h, d))

\* Variant: the count starts again with every block.
MoreOnce(v) == 1

More(v) == AtMost(v + 1, Cap)

\* governor asks for a wait.
Violates(h) ==
  /\ Locked(h)
  /\ now[h] >= Entry(h).blocked_until
  /\ \E wait \in 0..MaxWait :
       LET v == More(Entry(h).violations)
           u == now[h] + AtLeast(wait, Backoff(v))
       IN  Decide(h, [Entry(h) EXCEPT !.violations = v, !.blocked_until = u], u, TRUE,
                  SaveDenial(h, TRUE))

\* save_locked: std::fs::write truncates the file ...
SaveTruncate(h) ==
  /\ pc[h] = "save"
  /\ torn' = TRUE
  /\ Go(h, "write")
  /\ UNCHANGED <<up, clock, state, mutex, disk, key, now, until, bounds, history>>

\* ... and writes it; check returns and drops the mutex.
SaveWrite(h) ==
  /\ pc[h] = "write"
  /\ disk' = sessions /\ torn' = FALSE
  /\ dirty' = FALSE /\ last_saved' = now[h]
  /\ mutex' = None
  /\ Go(h, "respond")
  /\ streak' = IF until[h] = 0 THEN streak
               ELSE [streak EXCEPT ![key[h]] = AtMost(@ + 1, sessions[key[h]].violations)]
  /\ UNCHANGED <<up, clock, sessions, key, now, until, bounds, promised>>

\* A failed save fails the request; what was decided stays in memory.
SaveFails(h) ==
  /\ faults < MaxFaults
  /\ pc[h] \in {"save", "write"}
  /\ faults' = faults + 1
  /\ mutex' = None
  /\ Go(h, "fail")
  /\ UNCHANGED <<up, clock, state, file, key, now, until, crashes, history>>

\* The request goes on, or 429 with the wait in milliseconds (retry_after_ms), or
\* 500; or the client is gone.
Respond(h) ==
  /\ pc[h] \in {"respond", "fail"}
  /\ \/ /\ pc[h] = "respond"
        /\ promised' = [promised EXCEPT ![key[h]] = AtLeast(@, until[h])]
     \/ UNCHANGED promised
  /\ Go(h, "idle")
  /\ key' = [key EXCEPT ![h] = None]
  /\ now' = [now EXCEPT ![h] = 0] /\ until' = [until EXCEPT ![h] = 0]
  /\ UNCHANGED <<up, clock, state, mutex, file, bounds, streak>>
-----------------------------------------------------------------------------
\* Time passes; no handler waits for the mutex for longer than MaxStall.
Tick ==
  /\ clock < MaxClock
  /\ \A h \in Handler : pc[h] \in {"read", "save", "write"} => clock < now[h] + MaxStall
  /\ clock' = clock + 1
  /\ UNCHANGED <<up, state, mutex, file, handlerVars, bounds, history>>

Crash ==
  /\ up /\ crashes < MaxCrashes
  /\ up' = FALSE /\ crashes' = crashes + 1
  /\ mutex' = None
  /\ pc' = [h \in Handler |-> "idle"] /\ key' = [h \in Handler |-> None]
  /\ now' = [h \in Handler |-> 0] /\ until' = [h \in Handler |-> 0]
  /\ UNCHANGED <<clock, state, file, faults, history>>

\* load: a file cut short does not decode, and the service does not start.
Reload ==
  /\ ~up /\ ~torn
  /\ up' = TRUE
  /\ sessions' = disk /\ dirty' = FALSE /\ last_saved' = clock
  /\ UNCHANGED <<clock, mutex, file, handlerVars, bounds, history>>

LimiterNext ==
  \/ \E h \in Handler :
       \/ ReadClock(h) \/ StillBlocked(h) \/ Allowed(h) \/ Violates(h)
       \/ SaveTruncate(h) \/ SaveWrite(h) \/ SaveFails(h) \/ Respond(h)
  \/ Tick \/ Crash \/ Reload

LimiterSpec == LimiterInit /\ [][LimiterNext]_limiterVars
-----------------------------------------------------------------------------
\* h lets a request through only when its clients need not wait any more.
WaitIsOver(h) ==
  pc[h] = "read" /\ pc'[h] # "read" /\ pc'[h] # "idle" /\ until'[h] = 0
    => now[h] >= promised[key[h]]

\* A block that h makes is as long as the backoff for the streak and one more.
BlockIsLong(h) ==
  pc[h] = "read" /\ pc'[h] = "save" /\ until'[h] > now[h]
    => \/ now[h] < Entry(h).blocked_until
       \/ until'[h] - now[h] >= Backoff(AtMost(streak'[key[h]] + 1, Cap))

\* "Persistent cooldown state so restarts do not clear abusive sessions"
\* (LLM_ATTESTED.md:841): once a client was told to wait (the retry_after_ms of a
\* 429), no request of its key is let through before that time, over concurrent
\* requests with older clock readings, kills and restarts, failed saves and the
\* pruning of sessions.  The Retry-After header is that time rounded up to whole
\* seconds: a request in the last second before the header's may be let through.
NeverAllowedEarly == [][\A h \in Handler : WaitIsOver(h)]_limiterVars

\* "Exponential backoff" (LLM_ATTESTED.md:842): a new block is at least as long
\* as the backoff for the violations the key has on record since it was last
\* let through, which a restart does not forget.
BackoffEscalates == [][\A h \in Handler : BlockIsLong(h)]_limiterVars
=============================================================================
