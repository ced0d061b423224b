---------------------------- MODULE GatewayProofs ----------------------------
(***************************************************************************)
(* Proofs about Gateway, for every number of handlers, teams, events,      *)
(* kills and failed writes.                                                *)
(***************************************************************************)
EXTENDS Gateway, LineLogProofs

\* Every variable has its type; a handler at work has a team, and one that has
\* built its event has it at hand.
TypeOK ==
  /\ up \in BOOLEAN /\ torn \in BOOLEAN /\ boot \in Nat
  /\ chains \in [Team -> TeamChain]
  /\ mutex \in Handler \cup {None}
  /\ evlog \in File
  /\ ev \in [Body -> EventType \cup {NoEvent}]
  /\ pc \in [Handler -> Step]
  /\ team \in [Handler -> Team \cup {None}]
  /\ event \in [Handler -> Body \cup {None}]
  /\ sink \subseteq Body /\ announced \subseteq Body
  /\ crashes \in Nat /\ faults \in Nat
  /\ \A h \in Handler :
       /\ pc[h] # "idle" => team[h] \in Team
       /\ pc[h] \in {"nl", "sink", "respond"} => event[h] \in Body

\* `chains` is locked by the handler that is writing its line, and by no other;
\* no handler outlives the process.
LockOK ==
  /\ \A h \in Handler : mutex = h <=> pc[h] = "nl"
  /\ ~up => \A h \in Handler : pc[h] = "idle"

\* p is what event n of a team and boot links to: nothing if it is the first,
\* otherwise event n - 1.
Follows(p, t, k, n) ==
  IF p = Zero THEN n = 0
  ELSE p \in Made /\ ev[p].team = t /\ ev[p].boot = k /\ ev[p].index + 1 = n

\* Every event, and the next one of every team, links to its predecessor, and the
\* text of every event is in the log.
LinksOK ==
  /\ Made = Written(evlog)
  /\ \A b \in Made :
       /\ ev[b].boot <= boot
       /\ Follows(ev[b].previous, ev[b].team, ev[b].boot, ev[b].index)
  /\ \A t \in Team : Follows(chains[t].previous_hash, t, boot, chains[t].next_index)

\* The events whose line was completed, as far as anybody still knows of them.
Completed ==
  sink \cup announced
    \cup {event[h] : h \in {g \in Handler : pc[g] \in {"sink", "respond"}}}

\* The event that goes next into the chain of t.
NextOf(t) == [team |-> t, index |-> chains[t].next_index,
              previous |-> chains[t].previous_hash, boot |-> boot]

\* Completed events are behind the heads of their chains, each in a place of its
\* own; the event whose line is being written is at the head.
PlacesOK ==
  /\ \A h \in Handler : pc[h] = "nl" => ev[event[h]] = NextOf(team[h])
  /\ Completed \subseteq Made
  /\ \A b \in Completed :
       ev[b].boot = boot => ev[b].index < chains[ev[b].team].next_index
  /\ \A b, c \in Completed :
       /\ b # c /\ ev[b].team = ev[c].team /\ ev[b].boot = ev[c].boot
       => ev[b].index # ev[c].index

IInv == TypeOK /\ LockOK /\ LinksOK /\ PlacesOK

\* The last line of a set, as the hash the next one links to.
HeadOf(f, lines) == IF lines = {} THEN Zero ELSE f[Max(lines)]

\* The completed lines of t in this boot.
Lines(t) ==
  {j \in LineStarts(evlog) :
     j < Len(evlog) /\ ev[evlog[j]].team = t /\ ev[evlog[j]].boot = boot}

\* Unless a line was cut short, the log is made of whole lines, but for the one
\* being written; each line has its place, and the heads are those of the log.
LogOK ==
  ~torn =>
    /\ ~Glued(evlog)
    /\ IF mutex = None THEN ~Unterminated(evlog)
       ELSE Unterminated(evlog) /\ evlog[Len(evlog)] = event[mutex]
    /\ \A t \in Team : /\ chains[t].next_index = Cardinality(Lines(t))
                       /\ chains[t].previous_hash = HeadOf(evlog, Lines(t))
    /\ \A i \in LineStarts(evlog) : /\ ev[evlog[i]].index = Cardinality(Before(i))
                                    /\ ev[evlog[i]].previous = HeadOf(evlog, Before(i))
-----------------------------------------------------------------------------
\* Type correctness: every step keeps every variable in its type.
THEOREM TypeCorrect == Spec => []TypeOK
<1> USE GatewayAssumption, LineLogAssumption
<1>1. Init => TypeOK
  <2> SUFFICES ASSUME Init PROVE TypeOK
    OBVIOUS
  <2>1. chains \in [Team -> TeamChain] /\ evlog \in File
    BY DEF Init, Genesis, TeamChain, File
  <2>2. ev \in [Body -> EventType \cup {NoEvent}]
    BY DEF Init
  <2> QED
    BY ZenonT(30), <2>1, <2>2 DEF Init, TypeOK, Step
<1>2. TypeOK /\ [Next]_vars => TypeOK'
  <2> SUFFICES ASSUME TypeOK, [Next]_vars PROVE TypeOK'
    OBVIOUS
  <2> USE DEF TypeOK, Step, Goto, bounds, handlerVars
  <2>1. ASSUME NEW h \in Handler, Request(h) PROVE TypeOK'
    BY <2>1 DEF Request
  <2>2. ASSUME NEW h \in Handler, Upstream(h) PROVE TypeOK'
    BY <2>2 DEF Upstream
  <2>3. ASSUME NEW h \in Handler, BuildText(h) PROVE TypeOK'
    BY <2>3 DEF BuildText, Lock, EventType, TeamChain, File
  <2>4. ASSUME NEW h \in Handler, BuildNewline(h) PROVE TypeOK'
    BY <2>4 DEF BuildNewline, Unlock, TeamChain, File
  <2>5. ASSUME NEW h \in Handler, AppendFails(h) PROVE TypeOK'
    BY <2>5 DEF AppendFails, Unlock, OnAppendError, ChainsOnError
  <2>6. ASSUME NEW h \in Handler, PostOk(h) \/ PostFails(h) PROVE TypeOK'
    BY <2>6 DEF PostOk, PostFails
  <2>7. ASSUME NEW h \in Handler, Respond(h) \/ Disconnect(h) PROVE TypeOK'
    BY <2>7 DEF Respond, Disconnect, Leave
  <2>8. CASE Crash
    <3>1. torn' \in BOOLEAN /\ mutex' \in Handler \cup {None} /\ up' \in BOOLEAN
      BY ZenonT(30), <2>8 DEF Crash
    <3>2. /\ pc' \in [Handler -> Step] /\ team' \in [Handler -> Team \cup {None}]
          /\ event' \in [Handler -> Body \cup {None}]
          /\ \A h \in Handler : pc'[h] = "idle"
      BY <2>8 DEF Crash
    <3> QED
      BY <2>8, <3>1, <3>2 DEF Crash
  <2>9. CASE Restart
    BY <2>9 DEF Restart, Genesis, TeamChain
  <2>10. CASE UNCHANGED vars
    BY <2>10 DEF vars
  <2> QED
    BY <2>1, <2>2, <2>3, <2>4, <2>5, <2>6, <2>7, <2>8, <2>9, <2>10 DEF Next
<1> QED
  BY <1>1, <1>2, PTL DEF Spec
-----------------------------------------------------------------------------
(***************************************************************************)
(* The lock, the links and the places in a chain.                          *)
(***************************************************************************)

\* Only the two writes of a line and a restart touch the log and the chains.
LEMMA ChainSteps ==
  ASSUME [Next]_vars
  PROVE  \/ UNCHANGED <<evlog, ev, boot, chains>>
         \/ \E h \in Handler : BuildText(h) \/ BuildNewline(h)
         \/ Restart
BY ZenonT(30) DEF Next, Request, Upstream, AppendFails, ChainsOnError, PostOk, PostFails,
   Respond, Disconnect, Leave, Crash, vars

\* The guard of `chains` goes to a handler when it is free, and with it when it
\* leaves its critical section in whichever way.
LEMMA LockStep ==
  ASSUME TypeOK, LockOK, [Next]_vars
  PROVE  LockOK'
<1> USE GatewayAssumption DEF TypeOK, LockOK, Goto, bounds, handlerVars
<1>1. ASSUME NEW h \in Handler, Request(h) \/ Upstream(h) PROVE LockOK'
  BY <1>1 DEF Request, Upstream
<1>2. ASSUME NEW h \in Handler, BuildText(h) PROVE LockOK'
  BY <1>2 DEF BuildText, Lock
<1>3. ASSUME NEW h \in Handler, BuildNewline(h) PROVE LockOK'
  BY <1>3 DEF BuildNewline, Unlock
<1>4. ASSUME NEW h \in Handler, AppendFails(h) PROVE LockOK'
  BY <1>4 DEF AppendFails, Unlock, OnAppendError
<1>5. ASSUME NEW h \in Handler, PostOk(h) \/ PostFails(h) PROVE LockOK'
  BY <1>5 DEF PostOk, PostFails
<1>6. ASSUME NEW h \in Handler, Respond(h) \/ Disconnect(h) PROVE LockOK'
  BY <1>6 DEF Respond, Disconnect, Leave
<1>7. CASE Crash
  BY <1>7 DEF Crash
<1>8. CASE Restart
  BY <1>8 DEF Restart
<1>9. CASE UNCHANGED vars
  BY <1>9 DEF vars
<1> QED
  BY <1>1, <1>2, <1>3, <1>4, <1>5, <1>6, <1>7, <1>8, <1>9 DEF Next

\* An event that was made is not changed, and keeps its predecessor.
LEMMA FollowsStays ==
  ASSUME TypeOK, NEW b \in Body \ Made, NEW e \in EventType, ev' = [ev EXCEPT ![b] = e],
         NEW p, NEW t, NEW k, NEW n, Follows(p, t, k, n)
  PROVE  Follows(p, t, k, n)'
BY GatewayAssumption DEF TypeOK, Follows, Made, NoEvent, EventType

\* LinksOK, over every step.
LEMMA LinksStep ==
  ASSUME TypeOK, LockOK, LinksOK, PlacesOK, [Next]_vars
  PROVE  LinksOK'
<1> USE GatewayAssumption, LineLogAssumption DEF TypeOK
<1>1. CASE UNCHANGED <<evlog, ev, boot, chains>>
  BY ZenonT(30), <1>1 DEF LinksOK, Follows, Made
<1>2. ASSUME NEW h \in Handler, BuildText(h) PROVE LinksOK'
  <2> DEFINE e == NextOf(team[h])
  <2>1. PICK b \in Body \ Made : /\ ev' = [ev EXCEPT ![b] = e]
                                 /\ evlog' = Append(evlog, b)
    BY ZenonT(30), <1>2 DEF BuildText, NextOf
  <2>2. e \in EventType /\ team[h] \in Team
    BY <1>2 DEF BuildText, NextOf, EventType, TeamChain
  <2>3. Made' = Made \cup {b}
    BY <2>1, <2>2 DEF Made, NoEvent, EventType
  <2>4. Written(evlog') = Written(evlog) \cup {b}
    BY <2>1, WrittenAppend
  <2>5. \A c \in Made : ev'[c] = ev[c]
    BY <2>1 DEF Made
  <2>6. ev'[b] = e /\ UNCHANGED <<boot, chains>>
    BY <1>2, <2>1 DEF BuildText
  <2>7. \A t \in Team : Follows(chains[t].previous_hash, t, boot, chains[t].next_index)'
    BY ZenonT(30), <2>1, <2>2, <2>6, FollowsStays DEF LinksOK
  <2>8. \A c \in Made : Follows(ev[c].previous, ev[c].team, ev[c].boot, ev[c].index)'
    BY ZenonT(30), <2>1, <2>2, <2>5, FollowsStays DEF LinksOK
  <2> QED
    BY <2>2, <2>3, <2>4, <2>5, <2>6, <2>7, <2>8 DEF LinksOK, NextOf
<1>3. ASSUME NEW h \in Handler, BuildNewline(h) PROVE LinksOK'
  <2>1. /\ evlog' = Append(evlog, NL) /\ UNCHANGED <<ev, boot>>
        /\ team[h] \in Team /\ event[h] \in Body
        /\ chains' = [chains EXCEPT ![team[h]] =
             [next_index |-> chains[team[h]].next_index + 1, previous_hash |-> event[h]]]
    BY <1>3 DEF BuildNewline
  <2>2. Written(evlog') = Written(evlog) /\ Made' = Made
    BY ZenonT(30), <2>1, WrittenAppend DEF Made
  <2>3. ev[event[h]] = NextOf(team[h])
    BY <1>3 DEF BuildNewline, PlacesOK
  <2>4. Follows(event[h], team[h], boot, chains[team[h]].next_index + 1)
    BY <2>1, <2>3 DEF Follows, NextOf, Made, NoEvent
  <2> QED
    BY <2>1, <2>2, <2>4 DEF LinksOK, Follows, Made
<1>4. CASE Restart
  <2>1. UNCHANGED <<evlog, ev>> /\ boot' = boot + 1 /\ Made' = Made
    BY <1>4 DEF Restart, Made
  <2>2. \A b \in Made : ev[b].boot \in Nat
    BY DEF Made, EventType
  <2>3. \A t \in Team : chains'[t].previous_hash = Zero /\ chains'[t].next_index = 0
    BY <1>4 DEF Restart, Genesis
  <2> QED
    BY <2>1, <2>2, <2>3 DEF LinksOK, Follows
<1> QED
  BY ZenonT(30), <1>1, <1>2, <1>3, <1>4, ChainSteps

\* The places stay as they are when the events and the heads do, and no event is
\* newly given out that was not completed.
LEMMA PlacesStay ==
  ASSUME PlacesOK, UNCHANGED <<ev, boot, chains>>, Completed' \subseteq Completed,
         \A h \in Handler : pc'[h] = "nl" => pc[h] = "nl" /\ event'[h] = event[h]
                                              /\ team'[h] = team[h]
  PROVE  PlacesOK'
BY DEF PlacesOK, Made, NextOf

\* PlacesOK, over every step.
LEMMA PlacesStep ==
  ASSUME TypeOK, LockOK, LinksOK, PlacesOK, [Next]_vars
  PROVE  PlacesOK'
<1> USE GatewayAssumption DEF TypeOK, Goto, bounds, handlerVars
<1>1. ASSUME NEW h \in Handler, Request(h) \/ Upstream(h) PROVE PlacesOK'
  BY <1>1, PlacesStay DEF Request, Upstream, Completed
<1>2. ASSUME NEW h \in Handler, BuildText(h) PROVE PlacesOK'
  <2>1. PICK b \in Body \ Made : /\ ev' = [ev EXCEPT ![b] = NextOf(team[h])]
                                 /\ event' = [event EXCEPT ![h] = b]
    BY ZenonT(30), <1>2 DEF BuildText, NextOf
  <2>2. /\ UNCHANGED <<boot, chains, sink, announced, team>>
        /\ mutex = None /\ pc[h] = "build" /\ pc' = [pc EXCEPT ![h] = "nl"]
    BY <1>2 DEF BuildText
  <2>3. NextOf(team[h]) \in EventType
    BY <2>2 DEF NextOf, EventType, TeamChain
  <2>4. Made' = Made \cup {b} /\ \A c \in Made : ev'[c] = ev[c]
    BY <2>1, <2>3 DEF Made, NoEvent, EventType
  <2>5. Completed' = Completed
    BY <2>1, <2>2 DEF Completed
  <2>6. \A g \in Handler : pc'[g] = "nl" => ev'[event'[g]] = NextOf(team[g])
    BY <2>1, <2>2 DEF LockOK
  <2>7. \A t : NextOf(t)' = NextOf(t)
    BY ZenonT(30), <2>2 DEF NextOf
  <2> QED
    BY <2>2, <2>4, <2>5, <2>6, <2>7 DEF PlacesOK
<1>3. ASSUME NEW h \in Handler, BuildNewline(h) PROVE PlacesOK'
  <2> DEFINE t == team[h]
             b == event[h]
  <2>1. /\ UNCHANGED <<ev, boot, sink, announced, team, event>>
        /\ t \in Team /\ b \in Body
        /\ pc[h] = "nl" /\ pc' = [pc EXCEPT ![h] = "sink"]
        /\ chains' = [chains EXCEPT ![t] = [next_index |-> chains[t].next_index + 1,
                                            previous_hash |-> b]]
    BY <1>3 DEF BuildNewline
  <2>2. ev[b] = NextOf(t) /\ b \in Made
    <3>1. ev[b] = NextOf(t)
      BY <2>1 DEF PlacesOK
    <3>2. NextOf(t).team # NoEvent.team
      BY <2>1 DEF NextOf, NoEvent
    <3> QED
      BY <2>1, <3>1, <3>2 DEF Made
  <2>3. Completed' = Completed \cup {b} /\ Made' = Made
    BY <2>1 DEF Completed, Made
  <2>4. \A g \in Handler : pc'[g] # "nl"
    BY <2>1 DEF LockOK
  <2>5. /\ chains'[t].next_index = chains[t].next_index + 1
        /\ \A u \in Team \ {t} : chains'[u] = chains[u]
        /\ chains[t].next_index \in Nat
    BY <2>1 DEF TeamChain
  <2>6. \A c \in Made : ev[c].team \in Team /\ ev[c].index \in Nat
    BY DEF Made, EventType
  <2>7. ev[b].team = t /\ ev[b].boot = boot /\ ev[b].index = chains[t].next_index
    BY <2>2 DEF NextOf
  <2> HIDE DEF t, b
  <2> QED
    BY <2>1, <2>2, <2>3, <2>4, <2>5, <2>6, <2>7 DEF PlacesOK
<1>4. ASSUME NEW h \in Handler, AppendFails(h) PROVE PlacesOK'
  BY <1>4, PlacesStay DEF AppendFails, OnAppendError, ChainsOnError, Completed
<1>5. ASSUME NEW h \in Handler, PostOk(h) \/ PostFails(h) PROVE PlacesOK'
  BY <1>5, PlacesStay DEF PostOk, PostFails, Completed
<1>6. ASSUME NEW h \in Handler, Respond(h) \/ Disconnect(h) PROVE PlacesOK'
  BY <1>6, PlacesStay DEF Respond, Disconnect, Leave, Completed
<1>7. CASE Crash
  BY ZenonT(30), <1>7, PlacesStay DEF Crash, Completed
<1>8. CASE Restart
  <2>1. /\ UNCHANGED <<ev, sink, announced, handlerVars, mutex>> /\ boot' = boot + 1
        /\ Made' = Made /\ Completed' = Completed
    BY <1>8 DEF Restart, Made, Completed
  <2>2. \A b \in Made : ev[b].boot \in Nat /\ ev[b].boot <= boot
    BY DEF Made, EventType, LinksOK
  <2>3. \A h \in Handler : pc'[h] # "nl"
    BY <1>8 DEF Restart, LockOK
  <2> QED
    BY <2>1, <2>2, <2>3 DEF PlacesOK
<1>9. CASE UNCHANGED vars
  BY <1>9, PlacesStay DEF vars, Completed
<1> QED
  BY <1>1, <1>2, <1>3, <1>4, <1>5, <1>6, <1>7, <1>8, <1>9 DEF Next
-----------------------------------------------------------------------------
(***************************************************************************)
(* The log reads as the chains.                                            *)
(***************************************************************************)

\* A set of lines has a last one.
LEMMA MaxIsLast ==
  ASSUME NEW n \in Nat, NEW S \in SUBSET (1..n), S # {}
  PROVE  Max(S) \in S /\ \A y \in S : Max(S) >= y
<1> DEFINE T == {n - x : x \in S}
<1>1. \A x \in S : x \in Int /\ n - x \in Nat
  OBVIOUS
<1>2. T \in SUBSET Nat /\ T # {}
  BY ZenonT(30), <1>1
<1>3. \E x \in T : \A y \in T : x <= y
  BY ZenonT(30), <1>2, LeastNatural
<1>4. \E x \in S : \A y \in S : n - x <= n - y
  BY <1>3
<1>5. \E x \in S : \A y \in S : x >= y
  BY <1>1, <1>4
<1> QED
  BY ZenonT(30), <1>5 DEF Max

\* The last of a set of lines to which a later one is added is that one.
LEMMA MaxOfMore ==
  ASSUME NEW n \in Nat, NEW S \in SUBSET (1..n), NEW m \in 1..n, \A y \in S : y <= m
  PROVE  Max(S \cup {m}) = m
<1> DEFINE z == Max(S \cup {m})
<1>1. S \cup {m} \in SUBSET (1..n) /\ S \cup {m} # {}
  OBVIOUS
<1>2. z \in S \cup {m} /\ \A y \in S \cup {m} : z >= y
  BY <1>1, MaxIsLast
<1> HIDE DEF z
<1>3. z \in 1..n /\ z >= m /\ z <= m
  BY <1>1, <1>2
<1>4. z = m
  BY <1>3
<1> QED
  BY <1>4 DEF z

\* The hash a set of lines ends with stays what it is when the log grows.
LEMMA HeadStays ==
  ASSUME NEW f \in File, NEW g, \A i \in 1..Len(f) : g[i] = f[i],
         NEW S \in SUBSET (1..Len(f))
  PROVE  HeadOf(g, S) = HeadOf(f, S)
<1>1. Len(f) \in Nat
  BY DEF File
<1> QED
  BY ZenonT(30), <1>1, MaxIsLast DEF HeadOf

\* A step that leaves the log, the heads, the lock and the event of its holder as
\* they are, or cuts a line short, keeps LogOK.
LEMMA LogStays ==
  ASSUME LogOK, ~torn' => ~torn /\ UNCHANGED <<evlog, ev, boot, chains, mutex>>,
         ~torn' /\ mutex # None => event'[mutex] = event[mutex]
  PROVE  LogOK'
<1> SUFFICES ASSUME ~torn' PROVE LogOK'
  BY DEF LogOK
<1>1. \A t : Lines(t)' = Lines(t)
  BY DEF Lines
<1>2. \A i : Before(i)' = Before(i)
  BY ZenonT(30) DEF Before
<1> QED
  BY <1>1, <1>2 DEF LogOK

\* LogOK when the text of a line is written.
LEMMA LogBuildText ==
  ASSUME IInv, LogOK, NEW h \in Handler, BuildText(h)
  PROVE  LogOK'
<1> USE GatewayAssumption, LineLogAssumption
<1> SUFFICES ASSUME ~torn' PROVE LogOK'
  BY DEF LogOK
<1>1. /\ evlog \in File /\ chains \in [Team -> TeamChain] /\ team[h] \in Team
      /\ ev \in [Body -> EventType \cup {NoEvent}]
      /\ event \in [Handler -> Body \cup {None}]
  BY DEF IInv, TypeOK, BuildText
<1>2. PICK t \in Team : t = team[h]
  BY <1>1
<1>3. PICK b \in Body \ Made : /\ ev' = [ev EXCEPT ![b] = NextOf(t)]
                               /\ event' = [event EXCEPT ![h] = b]
                               /\ evlog' = Append(evlog, b)
  BY ZenonT(30), <1>2 DEF BuildText, NextOf
<1>4. ~torn /\ mutex = None /\ mutex' = h /\ UNCHANGED <<boot, chains>>
  BY DEF BuildText, Lock
<1>5. ~Glued(evlog) /\ ~Unterminated(evlog)
  BY <1>4 DEF LogOK
<1>6. \A u \in Team : /\ chains[u].next_index = Cardinality(Lines(u))
                      /\ chains[u].previous_hash = HeadOf(evlog, Lines(u))
  BY <1>4 DEF LogOK
<1>7. \A i \in LineStarts(evlog) : /\ ev[evlog[i]].index = Cardinality(Before(i))
                                   /\ ev[evlog[i]].previous = HeadOf(evlog, Before(i))
  BY <1>4 DEF LogOK
<1>8. PICK n \in Nat : n = Len(evlog)
  BY <1>1 DEF File
<1>9. Len(evlog') = n + 1 /\ evlog'[n + 1] = b
  BY ZenonT(30), <1>1, <1>3, <1>8, LinesAppend
<1>10. \A i \in 1..n : evlog'[i] = evlog[i]
  BY <1>1, <1>3, <1>8, LinesAppend
<1>11. LineStarts(evlog') = LineStarts(evlog) \cup {n + 1}
  BY ZenonT(30), <1>1, <1>3, <1>5, <1>8, LinesAppend
<1>12. ~Glued(evlog') /\ Unterminated(evlog')
  BY ZenonT(30), <1>1, <1>3, <1>5, LinesAppend
<1>13. \A j \in LineStarts(evlog) : j \in 1..n /\ j < n
  BY <1>5, <1>8 DEF LineStarts, Unterminated
<1>14. \A j \in LineStarts(evlog) : ev'[evlog'[j]] = ev[evlog[j]]
  <2>1. \A j \in LineStarts(evlog) : evlog[j] \in Made
    BY DEF IInv, LinksOK, Written, LineStarts
  <2>2. \A j \in LineStarts(evlog) : evlog[j] \in Body \ {b}
    BY <2>1 DEF Made
  <2> QED
    BY ZenonT(30), <1>1, <1>3, <1>10, <1>13, <2>2
<1>15. ev'[evlog'[n + 1]] = NextOf(t)
  BY <1>1, <1>3, <1>9
<1>16. \A u \in Team : Lines(u)' = Lines(u)
  BY <1>4, <1>8, <1>9, <1>11, <1>13, <1>14 DEF Lines
<1>17. \A i \in LineStarts(evlog) : Before(i)' = Before(i)
  BY <1>11, <1>13, <1>14 DEF Before
<1>18. Before(n + 1)' = Lines(t)
  <2>1. NextOf(t).team = t /\ NextOf(t).boot = boot
    BY ZenonT(30) DEF NextOf
  <2> QED
    BY <1>8, <1>11, <1>13, <1>14, <1>15, <2>1 DEF Before, Lines
<1>19. \A u \in Team : HeadOf(evlog', Lines(u)) = HeadOf(evlog, Lines(u))
  BY ZenonT(30), <1>1, <1>8, <1>10, <1>13, HeadStays DEF Lines
<1>20. \A i \in LineStarts(evlog) : HeadOf(evlog', Before(i)) = HeadOf(evlog, Before(i))
  BY <1>1, <1>8, <1>10, <1>13, HeadStays DEF Before
<1>21. \A u \in Team : /\ chains'[u].next_index = Cardinality(Lines(u)')
                       /\ chains'[u].previous_hash = HeadOf(evlog', Lines(u)')
  BY <1>4, <1>6, <1>16, <1>19
<1>22. \A i \in LineStarts(evlog) : /\ ev'[evlog'[i]].index = Cardinality(Before(i)')
                                    /\ ev'[evlog'[i]].previous = HeadOf(evlog', Before(i)')
  BY <1>7, <1>14, <1>17, <1>20
<1>23. /\ ev'[evlog'[n + 1]].index = Cardinality(Before(n + 1)')
       /\ ev'[evlog'[n + 1]].previous = HeadOf(evlog', Before(n + 1)')
  <2>1. NextOf(t).index = chains[t].next_index /\ NextOf(t).previous = chains[t].previous_hash
    BY ZenonT(30) DEF NextOf
  <2> QED
    BY <1>6, <1>15, <1>18, <1>19, <2>1
<1>24. mutex' # None /\ evlog'[Len(evlog')] = event'[mutex']
  BY ZenonT(30), <1>1, <1>3, <1>4, <1>9
<1> QED
  BY ZenonT(30), <1>11, <1>12, <1>21, <1>22, <1>23, <1>24 DEF LogOK

\* LogOK when a line is ended, and its chain advances.
LEMMA LogBuildNewline ==
  ASSUME IInv, LogOK, NEW h \in Handler, BuildNewline(h)
  PROVE  LogOK'
<1> USE GatewayAssumption, LineLogAssumption
<1> SUFFICES ASSUME ~torn' PROVE LogOK'
  BY DEF LogOK
<1>1. /\ evlog \in File /\ chains \in [Team -> TeamChain]
      /\ team[h] \in Team /\ event[h] \in Body
  BY DEF IInv, TypeOK, BuildNewline
<1>2. PICK t \in Team, b \in Body : t = team[h] /\ b = event[h]
  BY <1>1
<1>3. evlog' = Append(evlog, NL) /\ pc[h] = "nl" /\ ~torn /\ UNCHANGED <<ev, boot>>
  BY DEF BuildNewline
<1>4. chains' = [chains EXCEPT ![t] = [next_index |-> chains[t].next_index + 1,
                                       previous_hash |-> b]]
  BY ZenonT(30), <1>2 DEF BuildNewline
<1>5. mutex = h /\ mutex # None /\ mutex' = None
  BY ZenonT(30), <1>3 DEF BuildNewline, Unlock, IInv, LockOK
<1>6. ~Glued(evlog) /\ Unterminated(evlog) /\ evlog[Len(evlog)] = b
  BY ZenonT(30), <1>2, <1>3, <1>5 DEF LogOK
<1>7. \A u \in Team : /\ chains[u].next_index = Cardinality(Lines(u))
                      /\ chains[u].previous_hash = HeadOf(evlog, Lines(u))
  BY <1>3 DEF LogOK
<1>8. \A i \in LineStarts(evlog) : /\ ev[evlog[i]].index = Cardinality(Before(i))
                                   /\ ev[evlog[i]].previous = HeadOf(evlog, Before(i))
  BY <1>3 DEF LogOK
<1>9. PICK n \in Nat : n = Len(evlog)
  BY <1>1 DEF File
<1>10. Len(evlog') = n + 1 /\ \A i \in 1..n : evlog'[i] = evlog[i]
  BY <1>1, <1>3, <1>9, LinesAppend
<1>11. LineStarts(evlog') = LineStarts(evlog)
  <2>1. LineStarts(Append(evlog, NL)) = LineStarts(evlog) \cup {}
    BY ZenonT(30), <1>1, LinesAppend
  <2> QED
    BY <1>3, <2>1
<1>12. ~Glued(evlog') /\ ~Unterminated(evlog')
  BY ZenonT(30), <1>1, <1>3, <1>6, LinesAppend
<1>13. \A j \in LineStarts(evlog) : j \in 1..n /\ evlog'[j] = evlog[j]
  BY <1>9, <1>10 DEF LineStarts
<1>14. n \in LineStarts(evlog)
  BY <1>6, <1>9 DEF LineStarts, Unterminated, Glued
<1>15. ev[b].team = t /\ ev[b].boot = boot /\ evlog[n] = b /\ evlog'[n] = b
  <2>1. ev[b] = NextOf(t)
    BY <1>2, <1>3 DEF IInv, PlacesOK
  <2> QED
    BY SMTT(30), Z3T(30), <1>6, <1>9, <1>13, <1>14, <2>1 DEF NextOf
<1>16. \A i \in LineStarts(evlog) : Before(i)' = Before(i)
  BY ZenonT(30), <1>3, <1>11, <1>13 DEF Before
<1>17. \A i \in LineStarts(evlog) : HeadOf(evlog', Before(i)) = HeadOf(evlog, Before(i))
  BY <1>1, <1>9, <1>10, <1>13, HeadStays DEF Before
<1>18. \A u \in Team \ {t} : Lines(u)' = Lines(u)
  BY <1>3, <1>9, <1>10, <1>11, <1>13, <1>15 DEF Lines
<1>19. Lines(t)' = Lines(t) \cup {n}
  BY SMTT(30), Z3T(30), <1>3, <1>9, <1>10, <1>11, <1>13, <1>14, <1>15 DEF Lines
<1>20. \A u \in Team : Lines(u) \in SUBSET (1..n) /\ n \notin Lines(u)
  BY <1>9, <1>13 DEF Lines
<1>21. \A u \in Team : HeadOf(evlog', Lines(u)) = HeadOf(evlog, Lines(u))
  BY <1>1, <1>9, <1>10, <1>20, HeadStays
<1>22. chains'[t].next_index = Cardinality(Lines(t)')
  <2>1. IsFiniteSet(Lines(t))
    BY <1>20, FS_Interval, FS_Subset
  <2>2. Cardinality(Lines(t) \cup {n}) = Cardinality(Lines(t)) + 1
    BY ZenonT(30), <1>20, <2>1, FS_AddElement
  <2>3. chains'[t].next_index = chains[t].next_index + 1
    BY <1>1, <1>4
  <2> QED
    BY <1>7, <1>19, <2>2, <2>3
<1>23. chains'[t].previous_hash = HeadOf(evlog', Lines(t)')
  <2>1. n \in 1..n /\ \A y \in Lines(t) : y <= n
    BY <1>13, <1>14, <1>20
  <2>2. Max(Lines(t) \cup {n}) = n
    BY ZenonT(30), <1>20, <2>1, MaxOfMore
  <2>3. chains'[t].previous_hash = b
    BY <1>1, <1>4
  <2> QED
    BY <1>15, <1>19, <2>2, <2>3 DEF HeadOf
<1>24. ASSUME NEW u \in Team
       PROVE  /\ chains'[u].next_index = Cardinality(Lines(u)')
              /\ chains'[u].previous_hash = HeadOf(evlog', Lines(u)')
  <2>1. CASE u = t
    BY ZenonT(30), <1>22, <1>23, <2>1
  <2>2. CASE u # t
    <3>1. chains'[u] = chains[u]
      BY ZenonT(30), <1>1, <1>4, <2>2
    <3> QED
      BY <1>7, <1>18, <1>21, <2>2, <3>1
  <2> QED
    BY <2>1, <2>2
<1>25. \A i \in LineStarts(evlog) : /\ ev'[evlog'[i]].index = Cardinality(Before(i)')
                                    /\ ev'[evlog'[i]].previous = HeadOf(evlog', Before(i)')
  BY ZenonT(30), <1>3, <1>8, <1>13, <1>16, <1>17
<1> QED
  BY ZenonT(30), <1>5, <1>11, <1>12, <1>24, <1>25 DEF LogOK

\* LogOK when the gateway starts anew, with fresh chains.
LEMMA LogRestart ==
  ASSUME IInv, LogOK, Restart
  PROVE  LogOK'
<1>1. /\ UNCHANGED <<evlog, ev, mutex, event, torn>> /\ boot \in Nat /\ boot' = boot + 1
      /\ chains' = [t \in Team |-> Genesis]
  BY ZenonT(30) DEF Restart, handlerVars, IInv, TypeOK
<1>2. \A j \in LineStarts(evlog) : ev[evlog[j]].boot \in Nat /\ ev[evlog[j]].boot <= boot
  <2>1. \A j \in LineStarts(evlog) : evlog[j] \in Made
    BY DEF IInv, LinksOK, Written, LineStarts
  <2> QED
    BY ZenonT(30), <2>1 DEF IInv, TypeOK, LinksOK, Made, EventType
<1>3. \A t \in Team : Lines(t)' = {}
  BY <1>1, <1>2 DEF Lines
<1>4. \A i : Before(i)' = Before(i)
  BY <1>1 DEF Before
<1>5. ASSUME NEW t \in Team
      PROVE  /\ chains'[t].next_index = Cardinality(Lines(t)')
             /\ chains'[t].previous_hash = HeadOf(evlog', Lines(t)')
  BY ZenonT(30), <1>1, <1>3, FS_EmptySet DEF Genesis, HeadOf
<1> QED
  BY <1>1, <1>4, <1>5 DEF LogOK

\* LogOK, over every step.
LEMMA LogStep ==
  ASSUME IInv, LogOK, [Next]_vars
  PROVE  LogOK'
<1> USE GatewayAssumption DEF IInv, TypeOK, LockOK, Goto, bounds, handlerVars
<1>1. ASSUME NEW h \in Handler, Request(h) \/ Upstream(h) PROVE LogOK'
  BY <1>1, LogStays DEF Request, Upstream
<1>2. ASSUME NEW h \in Handler, BuildText(h) PROVE LogOK'
  BY <1>2, LogBuildText
<1>3. ASSUME NEW h \in Handler, BuildNewline(h) PROVE LogOK'
  BY <1>3, LogBuildNewline
<1>4. ASSUME NEW h \in Handler, AppendFails(h) PROVE LogOK'
  <2>1. torn' \/ (~torn /\ mutex = None /\ mutex' = None)
    BY <1>4 DEF AppendFails, Unlock
  <2>2. UNCHANGED <<evlog, ev, boot, chains, event>>
    BY ZenonT(30), <1>4 DEF AppendFails, ChainsOnError
  <2>3. CASE torn'
    BY ZenonT(30), <2>3 DEF LogOK
  <2>4. CASE ~torn'
    BY ZenonT(30), <2>1, <2>2, <2>4, LogStays
  <2> QED
    BY <2>3, <2>4
<1>5. ASSUME NEW h \in Handler, PostOk(h) \/ PostFails(h) PROVE LogOK'
  BY ZenonT(30), <1>5, LogStays DEF PostOk, PostFails
<1>6. ASSUME NEW h \in Handler, Respond(h) \/ Disconnect(h) PROVE LogOK'
  BY <1>6, LogStays DEF Respond, Disconnect, Leave
<1>7. CASE Crash
  <2>1. torn' \/ (~torn /\ mutex = None)
    BY ZenonT(30), <1>7 DEF Crash
  <2>2. mutex' = None /\ UNCHANGED <<evlog, ev, boot, chains>>
    BY <1>7 DEF Crash
  <2>3. CASE torn'
    BY <2>3 DEF LogOK
  <2>4. CASE ~torn'
    BY ZenonT(30), <2>1, <2>2, <2>4, LogStays
  <2> QED
    BY <2>3, <2>4
<1>8. CASE Restart
  BY <1>8, LogRestart
<1>9. CASE UNCHANGED vars
  BY <1>9, LogStays DEF vars
<1> QED
  BY ZenonT(30), <1>1, <1>2, <1>3, <1>4, <1>5, <1>6, <1>7, <1>8, <1>9 DEF Next
-----------------------------------------------------------------------------
\* The inductive invariant of the gateway: the lock of `chains`, the links of all
\* events, and the places of those that were completed.
THEOREM ChainsCorrect == Spec => []IInv
<1>1. Init => LockOK /\ LinksOK /\ PlacesOK
  <2> SUFFICES ASSUME Init PROVE LockOK /\ LinksOK /\ PlacesOK
    OBVIOUS
  <2>1. Made = {} /\ Completed = {}
    BY DEF Init, Made, Completed
  <2>2. Written(evlog) = {}
    BY DEF Init, Written
  <2>3. \A t \in Team : Follows(chains[t].previous_hash, t, boot, chains[t].next_index)
    BY DEF Init, Follows, Genesis
  <2> QED
    BY GatewayAssumption, <2>1, <2>2, <2>3 DEF Init, LockOK, LinksOK, PlacesOK
<1> QED
  BY <1>1, TypeCorrect, LockStep, LinksStep, PlacesStep, PTL DEF Spec, IInv

\* Two events that were given out never share their place in a chain: the lock
\* spans the reading of a head, the write of the line and the new head.
THEOREM NeverFork == Spec => []GivenOutNeverFork
<1>1. IInv => GivenOutNeverFork
  <2> SUFFICES ASSUME IInv, NEW b \in sink \cup announced, NEW c \in sink \cup announced,
                      b # c, ev[b].team = ev[c].team, ev[b].boot = ev[c].boot
               PROVE  ev[b].index # ev[c].index /\ ev[b].previous # ev[c].previous
    BY ZenonT(30) DEF GivenOutNeverFork
  <2>1. b \in Completed /\ c \in Completed /\ b \in Made /\ c \in Made
    BY DEF IInv, PlacesOK, Completed
  <2>2. ev[b].index # ev[c].index
    BY ZenonT(30), <2>1 DEF IInv, PlacesOK
  <2>3. /\ Follows(ev[b].previous, ev[b].team, ev[b].boot, ev[b].index)
        /\ Follows(ev[c].previous, ev[c].team, ev[c].boot, ev[c].index)
    BY <2>1 DEF IInv, LinksOK
  <2>4. ev[b].index \in Nat /\ ev[c].index \in Nat
    BY ZenonT(30), <2>1 DEF IInv, TypeOK, Made, EventType
  <2> QED
    BY <2>2, <2>3, <2>4 DEF Follows
<1> QED
  BY <1>1, ChainsCorrect, PTL

\* An event that was given out is in the log, and so is its predecessor.
THEOREM PreviousLogged == Spec => []PreviousIsLogged
<1>1. IInv => PreviousIsLogged
  <2> SUFFICES ASSUME IInv, NEW b \in sink \cup announced
               PROVE  /\ b \in Written(evlog)
                      /\ ev[b].previous # Zero =>
                           /\ ev[b].previous \in Written(evlog)
                           /\ ev[ev[b].previous].index + 1 = ev[b].index
                           /\ ev[ev[b].previous].team = ev[b].team
    BY DEF PreviousIsLogged
  <2>1. b \in Made
    BY DEF IInv, PlacesOK, Completed
  <2> QED
    BY <2>1 DEF IInv, LinksOK, Follows
<1> QED
  BY <1>1, ChainsCorrect, PTL

\* The log of a gateway no append of which was cut short reads as one chain per
\* team and boot.
THEOREM LogReadsAsChain == Spec => []LogIsChain
<1>1. Init => LogOK
  <2> SUFFICES ASSUME Init PROVE LogOK
    OBVIOUS
  <2>1. LineStarts(evlog) = {} /\ ~Glued(evlog) /\ ~Unterminated(evlog)
    BY DEF Init, LineStarts, Glued, Unterminated
  <2>2. \A t \in Team : Lines(t) = {}
    BY <2>1 DEF Lines
  <2> QED
    BY ZenonT(30), <2>1, <2>2, FS_EmptySet DEF Init, LogOK, Genesis, HeadOf
<1>2. LogOK => LogIsChain
  BY DEF LogOK, LogIsChain, HeadOf
<1> QED
  BY <1>1, <1>2, ChainsCorrect, LogStep, PTL DEF Spec
=============================================================================
