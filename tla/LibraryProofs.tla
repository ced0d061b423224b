--------------------------- MODULE LibraryProofs ----------------------------
(***************************************************************************)
(* Proofs about the three parts of the library that the programs share:    *)
(* the HTTP server (http_service.rs), the rate limiter                     *)
(* (llm_attested_net.rs) and the evidence of attested capture              *)
(* (llm_attested.rs).  The parts have no state in common; each has its own *)
(* invariant, lemmas and theorems.                                         *)
(***************************************************************************)
EXTENDS HttpServer, RateLimiter, AttestedCapture, FiniteSetTheorems,
        NaturalsInduction, WellFoundedInduction, TLAPS

\* A nonempty set of naturals has a least element.
LEMMA LeastNatural ==
  ASSUME NEW T \in SUBSET Nat, T # {}
  PROVE  \E x \in T : \A y \in T : x <= y
<1> DEFINE R == OpToRel(<, Nat)
<1>1. \E x \in T : \A y \in T : ~(<<y, x>> \in R)
  BY Zenon, NatLessThanWellFounded, WFMin
<1>2. \A x, y \in Nat : y < x => <<y, x>> \in R
  BY Zenon DEF OpToRel
<1> HIDE DEF R
<1>3. \E x \in T : \A y \in T : ~(y < x)
  BY Zenon, <1>1, <1>2
<1> QED
  BY <1>3
-----------------------------------------------------------------------------
(***************************************************************************)
(* The HTTP server: its two invariants for any number of connections and   *)
(* permits and any body limit.                                             *)
(***************************************************************************)
Place == Held \cup {"away", "backlog"}

ServerType ==
  /\ acceptor \in {"acquire", "accept", "stopped"}
  /\ permits \in Nat
  /\ backlog \in Seq(Conn)
  /\ st \in [Conn -> Place]
  /\ body \in [Conn -> Nat]
  /\ declared \in [Conn -> 0..Chunked]

\* Who waits to be accepted waits once, and holds nothing.
BacklogOK ==
  /\ \A i \in 1..Len(backlog) : st[backlog[i]] = "backlog"
  /\ \A i, j \in 1..Len(backlog) : backlog[i] = backlog[j] => i = j

\* A body that is being read is within the limit and within its declared length.
BodyOK ==
  /\ \A c \in Conn : st[c] = "body" =>
       body[c] <= Limit /\ (declared[c] # Chunked => body[c] <= declared[c])
  /\ BodyWithinLimit

ServerInv == ServerType /\ BacklogOK /\ PermitsConserved /\ BodyOK
-----------------------------------------------------------------------------
\* Types of the server, over every step.
LEMMA ServerTypeStep ==
  ASSUME ServerType, [Next]_vars
  PROVE  ServerType'
<1> USE HttpServerAssumption DEF ServerType, Goto, Place, Held, Chunked
<1>1. ASSUME NEW c \in Conn, Connect(c) PROVE ServerType'
  BY <1>1 DEF Connect
<1>2. CASE Acquire
  BY <1>2 DEF Acquire
<1>3. CASE Accept
  <2>1. Head(backlog) \in Conn /\ Tail(backlog) \in Seq(Conn)
    BY <1>3 DEF Accept
  <2> QED
    BY ZenonT(30), <1>3, <2>1 DEF Accept
<1>4. CASE AcceptFails
  BY <1>4 DEF AcceptFails
<1>5. ASSUME NEW c \in Conn, Close(c) PROVE ServerType'
  BY <1>5 DEF Close, Release
<1>6. ASSUME NEW c \in Conn, Handshake(c) PROVE ServerType'
  BY ZenonT(30), <1>6 DEF Handshake
<1>7. ASSUME NEW c \in Conn, Request(c) PROVE ServerType'
  BY ZenonT(30), <1>7 DEF Request, Answer
<1>8. ASSUME NEW c \in Conn, Read(c) PROVE ServerType'
  <2>1. body' \in [Conn -> Nat]
    BY <1>8 DEF Read
  <2>2. st' \in [Conn -> Place]
    BY ZenonT(30), <1>8 DEF Read, Answer
  <2> QED
    BY ZenonT(30), <1>8, <2>1, <2>2 DEF Read
<1>9. ASSUME NEW c \in Conn, Call(c) PROVE ServerType'
  BY ZenonT(30), <1>9 DEF Call
<1>10. ASSUME NEW c \in Conn, Timeout(c) PROVE ServerType'
  BY ZenonT(30), <1>10 DEF Timeout, Answer
<1>11. ASSUME NEW c \in Conn, Return(c) PROVE ServerType'
  BY ZenonT(30), <1>11 DEF Return, Answer
<1>12. CASE UNCHANGED vars
  BY ZenonT(30), <1>12 DEF vars
<1> QED
  BY ZenonT(30), <1>1, <1>2, <1>3, <1>4, <1>5, <1>6, <1>7, <1>8, <1>9, <1>10, <1>11, <1>12 DEF Next

\* The steps of a connection that a task holds: it stays held, or it is let go,
\* and no other connection moves.
Serves(c) == Handshake(c) \/ Request(c) \/ Read(c) \/ Call(c) \/ Timeout(c) \/ Return(c)

\* A connection that is served keeps its permit, and the others stay.
LEMMA ServesKeeps ==
  ASSUME ServerType, NEW c \in Conn, Serves(c)
  PROVE  /\ st[c] \in Held /\ st'[c] \in Held
         /\ \A d \in Conn : d # c => st'[d] = st[d]
         /\ UNCHANGED <<acceptor, permits, backlog>>
BY ZenonT(30) DEF ServerType, Serves, Handshake, Request, Read, Call, Timeout, Return, Answer, Goto, Held, Place

\* BacklogOK, over every step.
LEMMA BacklogStep ==
  ASSUME ServerType, BacklogOK, [Next]_vars
  PROVE  BacklogOK'
<1>1. ASSUME NEW c \in Conn, Connect(c) PROVE BacklogOK'
  <2>1. /\ \A i \in 1..Len(backlog) : backlog[i] \in Conn /\ backlog[i] # c
        /\ backlog' = Append(backlog, c)
        /\ st' = [st EXCEPT ![c] = "backlog"]
    BY <1>1 DEF Connect, ServerType, BacklogOK, Goto
  <2>2. Len(backlog') = Len(backlog) + 1 /\ Len(backlog) \in Nat
    BY <2>1 DEF ServerType
  <2>3. backlog'[Len(backlog) + 1] = c /\ \A i \in 1..Len(backlog) : backlog'[i] = backlog[i]
    BY <2>1 DEF ServerType
  <2>4. st'[c] = "backlog" /\ \A d \in Conn : d # c => st'[d] = st[d]
    BY ZenonT(30), <1>1, <2>1 DEF ServerType
  <2>5. \A i \in 1..Len(backlog') : i \in 1..Len(backlog) \/ i = Len(backlog) + 1
    BY <2>2
  <2>6. \A i \in 1..Len(backlog') : st'[backlog'[i]] = "backlog"
    BY ZenonT(30), <2>1, <2>3, <2>4, <2>5 DEF BacklogOK
  <2>7. ASSUME NEW i \in 1..Len(backlog'), NEW j \in 1..Len(backlog'), backlog'[i] = backlog'[j]
        PROVE  i = j
    <3>1. CASE i \in 1..Len(backlog) /\ j \in 1..Len(backlog)
      BY ZenonT(30), <2>3, <2>7, <3>1 DEF BacklogOK
    <3>2. ~(i \in 1..Len(backlog) /\ j = Len(backlog) + 1)
      BY ZenonT(30), <2>1, <2>3, <2>7
    <3>3. ~(i = Len(backlog) + 1 /\ j \in 1..Len(backlog))
      BY ZenonT(30), <2>1, <2>3, <2>7
    <3> QED
      BY ZenonT(30), <2>5, <3>1, <3>2, <3>3
  <2> QED
    BY ZenonT(30), <2>6, <2>7 DEF BacklogOK
<1>2. CASE Accept
  <2>1. Len(backlog) \in Nat \ {0} /\ Len(backlog') = Len(backlog) - 1 /\ Head(backlog) = backlog[1]
    BY <1>2 DEF Accept, ServerType
  <2>2. \A i \in 1..Len(backlog') : backlog'[i] = backlog[i + 1]
    BY <1>2, <2>1 DEF Accept, ServerType
  <2>3. \A d \in Conn : d # backlog[1] => st'[d] = st[d]
    BY ZenonT(30), <1>2, <2>1 DEF Accept, Goto, ServerType
  <2>4. \A i \in 1..Len(backlog) : backlog[i] \in Conn
    BY DEF ServerType
  <2>5. \A i \in 1..Len(backlog') : i + 1 \in 1..Len(backlog) /\ 1 \in 1..Len(backlog) /\ i + 1 # 1
    BY <2>1
  <2>6. \A i \in 1..Len(backlog') : st'[backlog'[i]] = "backlog"
    BY <2>2, <2>3, <2>4, <2>5 DEF BacklogOK
  <2>7. \A i, j \in 1..Len(backlog') : backlog'[i] = backlog'[j] => i + 1 = j + 1
    BY <2>2, <2>5 DEF BacklogOK
  <2>8. \A i, j \in 1..Len(backlog') : backlog'[i] = backlog'[j] => i = j
    BY <2>1, <2>7
  <2> QED
    BY ZenonT(30), <2>6, <2>8 DEF BacklogOK
<1>3. CASE AcceptFails
  BY <1>3 DEF AcceptFails, BacklogOK
<1>4. ASSUME NEW c \in Conn, Close(c) \/ Serves(c) PROVE BacklogOK'
  <2>1. /\ st[c] # "backlog" /\ UNCHANGED backlog
        /\ \A d \in Conn : d # c => st'[d] = st[d]
    BY ZenonT(30), <1>4, ServesKeeps DEF Close, Goto, Held, ServerType
  <2>2. \A i \in 1..Len(backlog) : backlog[i] \in Conn
    BY DEF ServerType
  <2> QED
    BY ZenonT(30), <2>1, <2>2 DEF BacklogOK
<1>5. CASE Acquire \/ UNCHANGED vars
  BY ZenonT(30), <1>5 DEF Acquire, vars, BacklogOK
<1> QED
  BY ZenonT(30), <1>1, <1>2, <1>3, <1>4, <1>5 DEF Next, Serves

\* What a move of one connection does to the number of live ones.
LEMMA LiveCount ==
  ASSUME ServerType, NEW c \in Conn, \A d \in Conn : d # c => st'[d] = st[d]
  PROVE  /\ Cardinality(Live) \in Nat
         /\ (st[c] \in Held <=> st'[c] \in Held) => Cardinality(Live') = Cardinality(Live)
         /\ st[c] \notin Held /\ st'[c] \in Held => Cardinality(Live') = Cardinality(Live) + 1
         /\ st[c] \in Held /\ st'[c] \notin Held => Cardinality(Live') = Cardinality(Live) - 1
<1>1. IsFiniteSet(Live)
  <2>1. Live \subseteq Conn
    BY ZenonT(30) DEF Live
  <2> QED
    BY ZenonT(30), <2>1, HttpServerAssumption, FS_Subset
<1>2. Cardinality(Live) \in Nat
  BY ZenonT(30), <1>1, FS_CardinalityType
<1>3. ASSUME st[c] \in Held <=> st'[c] \in Held PROVE Cardinality(Live') = Cardinality(Live)
  <2>1. Live' = Live
    BY ZenonT(30), <1>3 DEF Live
  <2> QED
    BY ZenonT(30), <2>1
<1>4. ASSUME st[c] \notin Held, st'[c] \in Held
      PROVE  Cardinality(Live') = Cardinality(Live) + 1
  <2>1. c \notin Live /\ Live' = Live \cup {c}
    BY ZenonT(30), <1>4 DEF Live
  <2> QED
    BY ZenonT(30), <1>1, <2>1, FS_AddElement
<1>5. ASSUME st[c] \in Held, st'[c] \notin Held
      PROVE  Cardinality(Live') = Cardinality(Live) - 1
  <2>1. c \in Live /\ Live' = Live \ {c}
    BY ZenonT(30), <1>5 DEF Live
  <2> QED
    BY ZenonT(30), <1>1, <2>1, FS_RemoveElement
<1> QED
  BY ZenonT(30), <1>2, <1>3, <1>4, <1>5

\* PermitsConserved, over every step.
LEMMA PermitsStep ==
  ASSUME ServerType, BacklogOK, PermitsConserved, [Next]_vars
  PROVE  PermitsConserved'
<1> USE HttpServerAssumption
<1>1. permits \in Nat /\ MaxConnections \in Nat
  BY ZenonT(30) DEF ServerType
<1>2. ASSUME NEW c \in Conn, Connect(c) PROVE PermitsConserved'
  <2>1. /\ UNCHANGED <<acceptor, permits>> /\ st[c] \notin Held /\ st'[c] \notin Held
        /\ \A d \in Conn : d # c => st'[d] = st[d]
    BY ZenonT(30), <1>2 DEF Connect, Goto, Held, ServerType
  <2>2. Cardinality(Live') = Cardinality(Live)
    BY ZenonT(30), <2>1, LiveCount
  <2> QED
    BY ZenonT(30), <2>1, <2>2 DEF PermitsConserved
<1>3. CASE Acquire
  <2>1. /\ acceptor = "acquire" /\ acceptor' = "accept" /\ permits' = permits - 1
        /\ Live' = Live
    BY ZenonT(30), <1>3 DEF Acquire, Live
  <2>2. Cardinality(Live) \in Nat
    <3>1. Live \subseteq Conn
      BY ZenonT(30) DEF Live
    <3> QED
      BY ZenonT(30), <3>1, FS_Subset, FS_CardinalityType
  <2> QED
    BY <1>1, <2>1, <2>2 DEF PermitsConserved
<1>4. CASE Accept
  <2>1. PICK c \in Conn : c = Head(backlog) /\ st[c] = "backlog"
    BY <1>4 DEF Accept, ServerType, BacklogOK
  <2>2. /\ acceptor = "accept" /\ acceptor' = "acquire" /\ UNCHANGED permits
        /\ st[c] \notin Held /\ st'[c] \in Held
        /\ \A d \in Conn : d # c => st'[d] = st[d]
    BY ZenonT(30), <1>4, <2>1 DEF Accept, Goto, Held, ServerType
  <2>3. Cardinality(Live) \in Nat /\ Cardinality(Live') = Cardinality(Live) + 1
    BY ZenonT(30), <2>2, LiveCount
  <2> QED
    BY <1>1, <2>2, <2>3 DEF PermitsConserved
<1>5. CASE AcceptFails
  <2>1. Live' = {} /\ acceptor' = "stopped" /\ permits' = MaxConnections
    BY ZenonT(30), <1>5 DEF AcceptFails, Live, Held
  <2> QED
    BY <1>1, <2>1, FS_EmptySet DEF PermitsConserved
<1>6. ASSUME NEW c \in Conn, Close(c) PROVE PermitsConserved'
  <2>1. /\ UNCHANGED acceptor /\ permits' = permits + 1
        /\ st[c] \in Held /\ st'[c] \notin Held
        /\ \A d \in Conn : d # c => st'[d] = st[d]
    BY ZenonT(30), <1>6 DEF Close, Release, Goto, Held, ServerType
  <2>2. Cardinality(Live) \in Nat /\ Cardinality(Live') = Cardinality(Live) - 1
    BY ZenonT(30), <2>1, LiveCount
  <2> QED
    BY <1>1, <2>1, <2>2 DEF PermitsConserved
<1>7. ASSUME NEW c \in Conn, Serves(c) PROVE PermitsConserved'
  <2>1. Cardinality(Live') = Cardinality(Live)
    BY ZenonT(30), <1>7, ServesKeeps, LiveCount
  <2> QED
    BY ZenonT(30), <1>7, <2>1, ServesKeeps DEF PermitsConserved
<1>8. CASE UNCHANGED vars
  BY ZenonT(30), <1>8 DEF vars, PermitsConserved, Live
<1> QED
  BY ZenonT(30), <1>2, <1>3, <1>4, <1>5, <1>6, <1>7, <1>8 DEF Next, Serves

\* BodyOK, over every step.
LEMMA BodyStep ==
  ASSUME ServerType, BacklogOK, BodyOK, [Next]_vars
  PROVE  BodyOK'
<1> USE HttpServerAssumption DEF ServerType, BodyOK, BodyWithinLimit, Goto, Chunked
<1>1. ASSUME NEW c \in Conn, Connect(c) \/ Close(c) \/ Handshake(c) \/ Timeout(c) \/ Return(c)
      PROVE  BodyOK'
  <2>1. /\ UNCHANGED <<body, declared>> /\ st'[c] \notin {"body", "handler"}
        /\ \A d \in Conn : d # c => st'[d] = st[d]
    BY ZenonT(30), <1>1 DEF Connect, Close, Handshake, Timeout, Return, Answer
  <2> QED
    BY ZenonT(30), <2>1
<1>2. CASE Accept
  <2>1. PICK c \in Conn : c = Head(backlog)
    BY <1>2 DEF Accept
  <2>2. /\ UNCHANGED <<body, declared>> /\ st'[c] \notin {"body", "handler"}
        /\ \A d \in Conn : d # c => st'[d] = st[d]
    BY ZenonT(30), <1>2, <2>1 DEF Accept
  <2> QED
    BY ZenonT(30), <2>2
<1>3. ASSUME NEW c \in Conn, Request(c) PROVE BodyOK'
  <2>1. /\ body'[c] = 0 /\ st'[c] # "handler" /\ declared'[c] \in Nat
        /\ \A d \in Conn : d # c =>
             st'[d] = st[d] /\ body'[d] = body[d] /\ declared'[d] = declared[d]
    BY <1>3 DEF Request, Answer
  <2>2. body'[c] <= Limit /\ body'[c] <= declared'[c]
    BY <2>1
  <2> QED
    BY ZenonT(30), <2>1, <2>2
<1>4. ASSUME NEW c \in Conn, Read(c) PROVE BodyOK'
  <2>1. /\ UNCHANGED declared /\ st'[c] # "handler"
        /\ \A d \in Conn : d # c => st'[d] = st[d] /\ body'[d] = body[d]
    BY ZenonT(30), <1>4 DEF Read, Answer
  <2>2. st'[c] = "body" => /\ body'[c] <= Limit
                           /\ declared[c] # Chunked => body'[c] <= declared[c]
    BY <1>4 DEF Read, Answer, OverLimit
  <2> QED
    BY ZenonT(30), <2>1, <2>2
<1>5. ASSUME NEW c \in Conn, Call(c) PROVE BodyOK'
  <2>1. /\ UNCHANGED <<body, declared>> /\ st[c] = "body" /\ st'[c] = "handler"
        /\ \A d \in Conn : d # c => st'[d] = st[d]
        /\ declared[c] \in {body[c], Chunked}
    BY ZenonT(30), <1>5 DEF Call
  <2>2. body[c] <= Limit /\ (declared[c] # Chunked => body[c] = declared[c])
    BY ZenonT(30), <2>1
  <2> QED
    BY ZenonT(30), <2>1, <2>2
<1>6. CASE AcceptFails
  BY ZenonT(30), <1>6 DEF AcceptFails
<1>7. CASE Acquire \/ UNCHANGED vars
  BY ZenonT(30), <1>7 DEF Acquire, vars
<1> QED
  BY ZenonT(30), <1>1, <1>2, <1>3, <1>4, <1>5, <1>6, <1>7 DEF Next
-----------------------------------------------------------------------------
\* Connections, permits and bodies keep their types; who waits in the backlog
\* waits once and holds no permit; bodies being read are within the limit.
THEOREM ServerCorrect == Spec => []ServerInv
<1> USE HttpServerAssumption
<1>1. Init => ServerType
  BY DEF Init, ServerType, Place, Held, Chunked
<1>2. Init => BacklogOK /\ BodyOK
  BY DEF Init, BacklogOK, BodyOK, BodyWithinLimit
<1>3. Init => PermitsConserved
  <2> SUFFICES ASSUME Init PROVE PermitsConserved
    OBVIOUS
  <2>1. Live = {}
    BY ZenonT(30) DEF Init, Live, Held
  <2> QED
    BY <2>1, FS_EmptySet DEF Init, PermitsConserved
<1> QED
  BY <1>1, <1>2, <1>3, ServerTypeStep, BacklogStep, PermitsStep, BodyStep, PTL DEF Spec, ServerInv

\* serve_hyper neither loses nor makes a permit: whichever way a connection
\* ends, the free ones, the accept loop's and those of the tasks are all of them.
THEOREM PermitsKept == Spec => []PermitsConserved
BY ServerCorrect, PTL DEF ServerInv

\* No handler sees a body beyond body_limit_bytes, declared or chunked, and one
\* with a declared length only in full.
THEOREM BodiesLimited == Spec => []BodyWithinLimit
BY ServerCorrect, PTL DEF ServerInv, BodyOK
-----------------------------------------------------------------------------
(***************************************************************************)
(* The rate limiter: its two action properties for any number of handlers  *)
(* and keys, any policy, and any number of kills and failed saves.         *)
(***************************************************************************)
\* A handler between its reading of the clock and the end of its turn, and one
\* that has the mutex.
Deciding == {"read", "save", "write"}
Saving   == {"save", "write"}

\* No block is longer than the wait governor asks for or the backoff.
Longest == AtLeast(MaxWait, MaxBackoff)

Sessions == [Key -> Session \cup {NoSession}]

LimiterType ==
  /\ clock \in Nat
  /\ sessions \in Sessions /\ disk \in Sessions
  /\ pc \in [Handler -> Deciding \cup {"idle", "respond", "fail"}]
  /\ key \in [Handler -> Key \cup {None}]
  /\ now \in [Handler -> Nat] /\ until \in [Handler -> Nat]
  /\ promised \in [Key -> Nat] /\ streak \in [Key -> Nat]

\* A handler's reading of the clock is MaxStall old at most; who saves has the
\* mutex, and the session of its key; a dead process has no handlers.
HandlerOK ==
  /\ \A h \in Handler :
       /\ pc[h] # "idle" => key[h] \in Key
       /\ now[h] <= clock
       /\ pc[h] \in Deciding => clock <= now[h] + MaxStall
       /\ pc[h] \in Saving => mutex = h /\ sessions[key[h]] # NoSession
  /\ ~up => \A h \in Handler : pc[h] = "idle"

\* A block ends at most MaxStall + Longest after the session was last seen.
BlockOK(s) ==
  s # NoSession =>
    /\ s.last_seen <= clock
    /\ s.blocked_until <= clock + Longest
    /\ s.blocked_until <= s.last_seen + MaxStall + Longest

BlocksOK == \A k \in Key : BlockOK(sessions[k]) /\ BlockOK(disk[k])

\* The promise p to the clients of a key is kept: its session is blocked as
\* long, or no reading of the clock that is still around is older.
Kept(s, p) ==
  p = 0 \/ p + MaxStall <= clock \/ (s # NoSession /\ s.blocked_until >= p)

KeptOK ==
  /\ \A k \in Key : Kept(sessions[k], promised[k]) /\ Kept(disk[k], promised[k])
  /\ \A h \in Handler :
       /\ pc[h] \in Saving => Kept(sessions[key[h]], until[h])
       /\ pc[h] = "respond" => Kept(sessions[key[h]], until[h]) /\ Kept(disk[key[h]], until[h])

\* The count on record, in memory and in the file, is at least the streak.
Counts(s, n) == s # NoSession => n <= s.violations

StreakOK == \A k \in Key : Counts(sessions[k], streak[k]) /\ Counts(disk[k], streak[k])

LimiterInv == LimiterType /\ HandlerOK /\ BlocksOK /\ KeptOK /\ StreakOK
-----------------------------------------------------------------------------
\* The equation that defines Doubled, up to n.
Doubling(n, f) ==
  /\ f = [i \in 0..n |-> IF i = 0 THEN Base ELSE 2 * f[i - 1]]
  /\ f \in [0..n -> Nat]

\* Some function satisfies the equation of Doubled.
LEMMA DoublingExists == \A n \in Nat : \E f : Doubling(n, f)
<1> USE RateLimiterAssumption
<1> DEFINE T == {n \in Nat : ~\E f : Doubling(n, f)}
<1> SUFFICES ASSUME T # {} PROVE FALSE
  OBVIOUS
<1>1. PICK m \in T : \A n \in T : m <= n
  <2>1. T \in SUBSET Nat
    OBVIOUS
  <2> HIDE DEF T
  <2> QED
    BY ZenonT(30), <2>1, LeastNatural
<1>2. m # 0
  <2> DEFINE g == [i \in 0..0 |-> Base]
  <2>1. Doubling(0, g)
    BY DEF Doubling
  <2> QED
    BY ZenonT(30), <2>1
<1>3. m - 1 \in Nat /\ m - 1 \notin T
  BY <1>1, <1>2
<1>4. PICK f : Doubling(m - 1, f)
  BY ZenonT(30), <1>3
<1> DEFINE g == [i \in 0..m |-> IF i = m THEN 2 * f[m - 1] ELSE f[i]]
<1>5. \A i \in 0..(m - 1) : f[i] \in Nat /\ f[i] = IF i = 0 THEN Base ELSE 2 * f[i - 1]
  BY ZenonT(30), <1>3, <1>4 DEF Doubling
<1>6. \A i \in 0..m : g[i] \in Nat /\ g[i] = IF i = 0 THEN Base ELSE 2 * g[i - 1]
  <2> SUFFICES ASSUME NEW i \in 0..m
               PROVE  g[i] \in Nat /\ g[i] = IF i = 0 THEN Base ELSE 2 * g[i - 1]
    OBVIOUS
  <2>1. m \in Nat /\ i \in Nat
    OBVIOUS
  <2>2. CASE i = m
    <3>1. f[m - 1] \in Nat /\ m - 1 # m /\ m - 1 \in 0..m
      BY <1>3, <1>5, <2>1
    <3>2. g[i] = 2 * f[m - 1] /\ g[i - 1] = f[m - 1]
      BY ZenonT(30), <2>2, <3>1
    <3> HIDE DEF g
    <3> QED
      BY <1>2, <2>2, <3>1, <3>2
  <2>3. CASE i # m
    <3>1. i \in 0..(m - 1) /\ (i # 0 => i - 1 \in 0..m /\ i - 1 # m)
      BY <1>3, <2>1, <2>3
    <3>2. g[i] = f[i] /\ (i # 0 => g[i - 1] = f[i - 1])
      BY ZenonT(30), <2>3, <3>1
    <3> HIDE DEF g
    <3> QED
      BY ZenonT(30), <1>5, <3>1, <3>2
  <2> QED
    BY ZenonT(30), <2>2, <2>3
<1> HIDE DEF g
<1>7. g = [i \in 0..m |-> g[i]]
  BY ZenonT(30) DEF g
<1>8. Doubling(m, g)
  BY ZenonT(30), <1>6, <1>7 DEF Doubling
<1> QED
  BY ZenonT(30), <1>1, <1>8

\* Doubled satisfies its equation.
LEMMA DoubledIs == Doubling(MaxShift, Doubled)
<1> DEFINE D(f) == f = [i \in 0..MaxShift |-> IF i = 0 THEN Base ELSE 2 * f[i - 1]]
<1>0. PICK f : Doubling(MaxShift, f)
  BY ZenonT(30), DoublingExists, RateLimiterAssumption
<1>1. Doubled = CHOOSE g : D(g)
  BY Zenon DEF Doubled
<1>2. \E g : D(g)
  BY ZenonT(30), <1>0 DEF Doubling
<1>3. D(Doubled)
  <2> HIDE DEF D
  <2> QED
    BY Zenon, <1>1, <1>2
<1> DEFINE T == {i \in 0..MaxShift : Doubled[i] \notin Nat}
<1>4. T = {}
  <2> SUFFICES ASSUME T # {} PROVE FALSE
    OBVIOUS
  <2>1. T \in SUBSET Nat
    BY RateLimiterAssumption
  <2>2. PICK m \in T : \A n \in T : m <= n
    <3> HIDE DEF T
    <3> QED
      BY ZenonT(30), <2>1, LeastNatural
  <2>3. Doubled[m] = IF m = 0 THEN Base ELSE 2 * Doubled[m - 1]
    BY ZenonT(30), <1>3
  <2>4. m # 0
    BY ZenonT(30), <2>2, <2>3, RateLimiterAssumption
  <2>5. m - 1 \in 0..MaxShift /\ m - 1 \notin T
    BY <2>1, <2>2, <2>4, RateLimiterAssumption
  <2> QED
    BY <2>2, <2>3, <2>4, <2>5
<1>5. Doubled \in [0..MaxShift -> Nat]
  <2>1. \A i \in 0..MaxShift : Doubled[i] \in Nat
    BY ZenonT(30), <1>4
  <2>2. Doubled = [i \in 0..MaxShift |-> Doubled[i]]
    BY ZenonT(30), <1>3
  <2> QED
    BY ZenonT(30), <2>1, <2>2
<1> QED
  BY ZenonT(30), <1>3, <1>5 DEF Doubling

\* 1 << shift does not fall as shift grows.
LEMMA DoubledGrows ==
  ASSUME NEW i \in 0..MaxShift, NEW j \in 0..MaxShift, i <= j
  PROVE  Doubled[i] \in Nat \ {0} /\ Doubled[i] <= Doubled[j]
<1> USE RateLimiterAssumption
<1> DEFINE f == Doubled
<1>1. \A n \in 0..MaxShift : f[n] \in Nat /\ f[n] = IF n = 0 THEN Base ELSE 2 * f[n - 1]
  BY ZenonT(30), DoubledIs DEF Doubling
<1> HIDE DEF f
<1>a. ASSUME NEW a \in 0..MaxShift, NEW b \in 0..MaxShift, a <= b PROVE f[a] <= f[b]
  <2> DEFINE T == {n \in a..b : ~(f[a] <= f[n])}
  <2> SUFFICES ASSUME T # {} PROVE FALSE
    BY <1>a
  <2>1. T \in SUBSET Nat
    OBVIOUS
  <2>2. PICK m \in T : \A n \in T : m <= n
    <3> HIDE DEF T
    <3> QED
      BY ZenonT(30), <2>1, LeastNatural
  <2>3. m # a
    BY <1>1, <2>2
  <2>4. m - 1 \in a..b /\ m - 1 \notin T /\ m \in 0..MaxShift /\ m - 1 \in 0..MaxShift /\ m # 0
    BY <2>2, <2>3
  <2>5. f[m] = 2 * f[m - 1] /\ f[m - 1] \in Nat /\ f[a] \in Nat /\ f[a] <= f[m - 1]
    BY ZenonT(30), <1>1, <2>4
  <2> QED
    BY <2>2, <2>5
<1>2. f[i] <= f[j] /\ f[0] <= f[i] /\ f[0] = Base /\ f[i] \in Nat
  BY <1>1, <1>a
<1> QED
  BY <1>2 DEF f

\* The backoff is positive, at most the policy's limit, and does not fall as the
\* violations grow.
LEMMA BackoffGrows ==
  ASSUME NEW v \in Nat, NEW w \in Nat, v <= w
  PROVE  Backoff(v) \in 1..MaxBackoff /\ Backoff(v) <= Backoff(w)
<1> USE RateLimiterAssumption
<1> DEFINE s(n) == AtMost(IF n = 0 THEN 0 ELSE n - 1, MaxShift)
<1>0. MaxShift \in Nat /\ \A n \in Nat : n # 0 => n - 1 \in Nat
  OBVIOUS
<1>1. s(v) \in 0..MaxShift /\ s(w) \in 0..MaxShift /\ s(v) <= s(w)
  <2>1. CASE v = 0
    BY <1>0, <2>1 DEF AtMost
  <2>2. CASE v # 0
    BY <1>0, <2>2 DEF AtMost
  <2> QED
    BY ZenonT(30), <2>1, <2>2
<1>2. Backoff(v) = AtMost(Doubled[s(v)], MaxBackoff) /\ Backoff(w) = AtMost(Doubled[s(w)], MaxBackoff)
  BY ZenonT(30) DEF Backoff
<1> HIDE DEF s
<1>3. Doubled[s(v)] \in Nat \ {0} /\ Doubled[s(w)] \in Nat \ {0} /\ Doubled[s(v)] <= Doubled[s(w)]
  BY <1>1, DoubledGrows
<1> QED
  BY <1>2, <1>3 DEF AtMost
-----------------------------------------------------------------------------
\* A session is not NoSession, and its fields have their types.
LEMMA SessionIsKnown ==
  ASSUME NEW s \in Session
  PROVE  /\ s # NoSession
         /\ s.blocked_until \in Nat /\ s.violations \in 0..Cap /\ s.last_seen \in Nat
<1>1. DOMAIN s = {"blocked_until", "violations", "last_seen"}
  BY ZenonT(30) DEF Session
<1>2. DOMAIN NoSession = {"violations"}
  BY ZenonT(30) DEF NoSession
<1>3. s # NoSession
  <2>1. "last_seen" \in DOMAIN s /\ "last_seen" \notin DOMAIN NoSession
    BY ZenonT(30), <1>1, <1>2
  <2> QED
    BY Zenon, <2>1
<1> QED
  BY ZenonT(30), <1>3 DEF Session

\* The session check finds after pruning, or makes.
LEMMA EntryIs ==
  ASSUME LimiterType, HandlerOK, NEW h \in Handler, Locked(h)
  PROVE  LET s == Pruned(now[h])[key[h]]
         IN  /\ key[h] \in Key /\ now[h] \in Nat
             /\ Pruned(now[h]) \in Sessions
             /\ Entry(h) \in Session /\ Entry(h).last_seen = now[h]
             /\ s = NoSession => Entry(h).blocked_until = 0 /\ Entry(h).violations = 0
             /\ s # NoSession => /\ s = sessions[key[h]]
                                 /\ Entry(h).blocked_until = s.blocked_until
                                 /\ Entry(h).violations = s.violations
<1> DEFINE s == Pruned(now[h])[key[h]]
<1>1. key[h] \in Key /\ now[h] \in Nat
  BY ZenonT(30) DEF LimiterType, HandlerOK, Locked
<1>2. Pruned(now[h]) \in Sessions
  BY ZenonT(30) DEF LimiterType, Sessions, Pruned
<1>3. s \in Session \cup {NoSession} /\ (s # NoSession => s = sessions[key[h]])
  BY ZenonT(30), <1>1, <1>2 DEF Sessions, Pruned
<1>4. Entry(h) = IF s = NoSession THEN Fresh(now[h]) ELSE [s EXCEPT !.last_seen = now[h]]
  BY ZenonT(30) DEF Entry
<1> HIDE DEF s
<1>5. CASE s = NoSession
  <2>1. Entry(h) = [blocked_until |-> 0, violations |-> 0, last_seen |-> now[h]]
    BY ZenonT(30), <1>4, <1>5 DEF Fresh
  <2> QED
    BY <1>1, <1>2, <1>5, <2>1, RateLimiterAssumption DEF Session, s
<1>6. CASE s # NoSession
  <2>1. s \in Session /\ Entry(h) = [s EXCEPT !.last_seen = now[h]]
    BY ZenonT(30), <1>3, <1>4, <1>6
  <2>2. /\ Entry(h) \in Session /\ Entry(h).last_seen = now[h]
        /\ Entry(h).blocked_until = s.blocked_until /\ Entry(h).violations = s.violations
    BY ZenonT(30), <1>1, <2>1 DEF Session
  <2> QED
    BY ZenonT(30), <1>1, <1>2, <1>3, <1>6, <2>2 DEF s
<1> QED
  BY ZenonT(30), <1>5, <1>6

\* Pruning drops a session only when no block of it matters any more.
LEMMA PrunedKeeps ==
  ASSUME LimiterType, HandlerOK, BlocksOK, NEW h \in Handler, Locked(h), NEW k \in Key,
         NEW p \in Nat, Kept(sessions[k], p)
  PROVE  Kept(Pruned(now[h])[k], p)
<1> USE RateLimiterAssumption, TtlAssumption
<1> DEFINE t == now[h]
           s == sessions[k]
<1>1. t \in Nat /\ clock \in Nat /\ t <= clock /\ s \in Session \cup {NoSession} /\ BlockOK(s)
  BY ZenonT(30) DEF LimiterType, HandlerOK, Sessions, BlocksOK
<1>2. Pruned(t)[k] = s \/ (s # NoSession /\ Stale(s, t))
  BY ZenonT(30) DEF Pruned, Known
<1>3. ASSUME s # NoSession, Stale(s, t) PROVE s.blocked_until + MaxStall <= clock
  <2>1. s.last_seen \in Nat /\ s.blocked_until \in Nat
    BY ZenonT(30), <1>1, <1>3, SessionIsKnown
  <2> QED
    BY <1>1, <1>3, <2>1 DEF BlockOK, Stale, Longest, AtLeast
<1>4. ASSUME s # NoSession, Stale(s, t), s.blocked_until >= p PROVE p + MaxStall <= clock
  <2>1. s.blocked_until \in Nat
    BY ZenonT(30), <1>1, <1>4, SessionIsKnown
  <2> QED
    BY <1>1, <1>3, <1>4, <2>1
<1> HIDE DEF s
<1> QED
  BY ZenonT(30), <1>2, <1>4 DEF Kept, s

\* What a decision of check does: a session s that blocks for no less than the
\* one it found, a denial u that is the block of s and is saved, and a count that
\* a denial does not lower.
LEMMA DecideStep ==
  ASSUME LimiterInv, NEW h \in Handler, Locked(h),
         NEW s \in Session, NEW u \in Nat, NEW d, NEW save, Decide(h, s, u, d, save),
         s.last_seen = now[h], s.blocked_until <= clock + Longest,
         s.blocked_until >= Entry(h).blocked_until,
         u # 0 => u = s.blocked_until /\ save /\ s.violations >= Entry(h).violations
  PROVE  LimiterInv'
<1> USE RateLimiterAssumption
<1> DEFINE k == key[h]
           P == Pruned(now[h])
<1>1. /\ LimiterType /\ HandlerOK /\ BlocksOK /\ KeptOK /\ StreakOK
      /\ pc[h] = "read" /\ mutex = None
  BY ZenonT(30) DEF LimiterInv, Locked
<1>2. /\ k \in Key /\ now[h] \in Nat /\ P \in Sessions
      /\ P[k] = NoSession => Entry(h).blocked_until = 0
      /\ P[k] # NoSession => /\ P[k] = sessions[k]
                             /\ Entry(h).blocked_until = P[k].blocked_until
                             /\ Entry(h).violations = P[k].violations
      /\ Entry(h).blocked_until \in Nat /\ Entry(h).violations \in Nat
  BY <1>1, EntryIs, SessionIsKnown
<1>3. /\ sessions' = [P EXCEPT ![k] = s]
      /\ until' = [until EXCEPT ![h] = u]
      /\ streak' = [j \in Key |-> IF (j = k /\ u = 0) \/ P[j] = NoSession THEN 0 ELSE streak[j]]
      /\ UNCHANGED <<up, clock, last_saved, disk, torn, key, now, crashes, faults, promised>>
  BY ZenonT(30) DEF Decide, file, bounds
<1>4. \/ save /\ pc' = [pc EXCEPT ![h] = "save"] /\ mutex' = h
      \/ ~save /\ pc' = [pc EXCEPT ![h] = "respond"] /\ mutex' = mutex
  BY ZenonT(30) DEF Decide, Go
<1>5. /\ s # NoSession /\ s.blocked_until \in Nat /\ s.violations \in Nat /\ s.last_seen \in Nat
      /\ clock \in Nat /\ Longest \in Nat /\ MaxStall \in Nat
  BY <1>1, SessionIsKnown DEF LimiterType, Longest, AtLeast
<1>6. sessions'[k] = s /\ \A j \in Key : j # k => sessions'[j] = P[j]
  BY ZenonT(30), <1>2, <1>3 DEF Sessions
<1>7. \A j \in Key : P[j] = sessions[j] \/ P[j] = NoSession
  BY ZenonT(30) DEF Pruned
<1>8. \A g \in Handler : g # h => pc'[g] = pc[g] /\ until'[g] = until[g]
  BY ZenonT(30), <1>1, <1>3, <1>4 DEF LimiterType
<1>9. \A g \in Handler : pc[g] \notin Saving
  BY ZenonT(30), <1>1 DEF HandlerOK
<1>10. pc'[h] \in {"save", "respond"} /\ until'[h] = u /\ (pc'[h] = "save" => mutex' = h)
  BY ZenonT(30), <1>1, <1>3, <1>4 DEF LimiterType
<1> HIDE DEF k, P
<1>11. LimiterType'
  <2>1. sessions' \in Sessions
    BY ZenonT(30), <1>2, <1>3 DEF Sessions
  <2>2. streak' \in [Key -> Nat]
    BY ZenonT(30), <1>1, <1>3 DEF LimiterType
  <2>3. until' \in [Handler -> Nat]
    BY ZenonT(30), <1>1, <1>3 DEF LimiterType
  <2>4. pc' \in [Handler -> Deciding \cup {"idle", "respond", "fail"}]
    BY ZenonT(30), <1>1, <1>4 DEF LimiterType, Deciding
  <2> QED
    BY ZenonT(30), <1>1, <1>3, <2>1, <2>2, <2>3, <2>4 DEF LimiterType
<1>12. HandlerOK'
  <2>0. up
    BY ZenonT(30), <1>1 DEF HandlerOK
  <2>1. ASSUME NEW g \in Handler, g # h
        PROVE  /\ pc'[g] # "idle" => key'[g] \in Key
               /\ now'[g] <= clock'
               /\ pc'[g] \in Deciding => clock' <= now'[g] + MaxStall
               /\ pc'[g] \notin Saving
    BY ZenonT(30), <1>1, <1>3, <1>8, <1>9, <2>1 DEF HandlerOK
  <2>2. /\ key'[h] \in Key
        /\ now'[h] <= clock'
        /\ clock' <= now'[h] + MaxStall
        /\ sessions'[key'[h]] # NoSession
    BY ZenonT(30), <1>1, <1>2, <1>3, <1>5, <1>6 DEF HandlerOK, Deciding, k
  <2>3. pc'[h] \in Saving => mutex' = h
    BY ZenonT(30), <1>10 DEF Saving
  <2> QED
    BY ZenonT(30), <1>3, <2>0, <2>1, <2>2, <2>3 DEF HandlerOK
<1>13. BlocksOK'
  <2>1. BlockOK(s)
    BY <1>1, <1>2, <1>5 DEF BlockOK, HandlerOK, Deciding
  <2>2. \A j \in Key : BlockOK(P[j])
    BY ZenonT(30), <1>1, <1>7 DEF BlocksOK, BlockOK
  <2>3. \A j \in Key : BlockOK(sessions'[j]) /\ BlockOK(disk'[j])
    BY ZenonT(30), <1>1, <1>3, <1>6, <2>1, <2>2 DEF BlocksOK
  <2> QED
    BY ZenonT(30), <1>3, <2>3 DEF BlocksOK, BlockOK
<1>14. ASSUME NEW j \in Key, NEW p \in Nat, Kept(sessions[j], p) PROVE Kept(sessions'[j], p)
  <2>1. Kept(P[j], p)
    BY ZenonT(30), <1>1, <1>14, PrunedKeeps DEF P
  <2>2. CASE j # k
    BY ZenonT(30), <1>3, <1>6, <2>1, <2>2 DEF Kept
  <2>3. CASE j = k
    BY <1>2, <1>3, <1>5, <1>6, <2>1, <2>3 DEF Kept
  <2> QED
    BY ZenonT(30), <2>2, <2>3
<1>15. KeptOK'
  <2>1. ASSUME NEW j \in Key
        PROVE  Kept(sessions'[j], promised'[j]) /\ Kept(disk'[j], promised'[j])
    BY ZenonT(30), <1>1, <1>3, <1>14 DEF KeptOK, Kept, LimiterType
  <2>2. ASSUME NEW g \in Handler, g # h, pc'[g] = "respond"
        PROVE  Kept(sessions'[key'[g]], until'[g]) /\ Kept(disk'[key'[g]], until'[g])
    <3>1. key[g] \in Key /\ until[g] \in Nat /\ Kept(sessions[key[g]], until[g]) /\ Kept(disk[key[g]], until[g])
      BY ZenonT(30), <1>1, <1>8, <2>2 DEF KeptOK, HandlerOK, LimiterType
    <3>2. Kept(sessions'[key[g]], until[g])
      BY ZenonT(30), <1>14, <3>1
    <3> QED
      BY ZenonT(30), <1>3, <1>8, <2>2, <3>1, <3>2 DEF Kept
  <2>3. Kept(sessions'[k], u) /\ (u = 0 => Kept(disk'[k], u))
    BY <1>5, <1>6 DEF Kept
  <2>4. u # 0 => pc'[h] = "save"
    BY ZenonT(30), <1>1, <1>4 DEF LimiterType
  <2> QED
    <3>1. \A g \in Handler : pc'[g] \in Saving => g = h
      BY ZenonT(30), <1>8, <1>9
    <3>2. key'[h] = k /\ until'[h] = u /\ (pc'[h] = "respond" => u = 0)
      BY ZenonT(30), <1>3, <1>10, <2>4 DEF k
    <3>3. \A g \in Handler :
            /\ pc'[g] \in Saving => Kept(sessions'[key'[g]], until'[g])
            /\ pc'[g] = "respond" => /\ Kept(sessions'[key'[g]], until'[g])
                                    /\ Kept(disk'[key'[g]], until'[g])
      BY ZenonT(30), <2>2, <2>3, <3>1, <3>2
    <3> QED
      BY ZenonT(30), <1>3, <2>1, <3>3 DEF KeptOK, Kept
<1>16. StreakOK'
  <2>1. ASSUME NEW j \in Key PROVE streak'[j] \in Nat /\ streak'[j] <= streak[j] /\ streak[j] \in Nat
    BY <1>1, <1>3 DEF LimiterType
  <2>2. ASSUME NEW j \in Key PROVE Counts(disk[j], streak'[j])
    <3>1. disk[j] # NoSession => disk[j].violations \in Nat
      BY <1>1, SessionIsKnown DEF LimiterType, Sessions
    <3> QED
      BY <1>1, <2>1, <3>1 DEF StreakOK, Counts
  <2>3. ASSUME NEW j \in Key, j # k PROVE Counts(sessions'[j], streak'[j])
    BY ZenonT(30), <1>1, <1>3, <1>6, <1>7, <2>3 DEF StreakOK, Counts
  <2>4. Counts(s, streak'[k])
    <3>1. CASE u = 0 \/ P[k] = NoSession
      BY <1>2, <1>3, <1>5, <3>1 DEF Counts
    <3>2. CASE u # 0 /\ P[k] # NoSession
      <4>1. streak'[k] <= Entry(h).violations
        BY ZenonT(30), <1>1, <1>2, <1>3, <3>2 DEF StreakOK, Counts
      <4> QED
        BY <1>2, <1>5, <2>1, <3>2, <4>1 DEF Counts
    <3> QED
      BY ZenonT(30), <3>1, <3>2
  <2> QED
    BY ZenonT(30), <1>3, <1>6, <2>2, <2>3, <2>4 DEF StreakOK, Counts
<1> QED
  BY ZenonT(30), <1>11, <1>12, <1>13, <1>15, <1>16 DEF LimiterInv

\* The three decisions of check are of that kind.
LEMMA CheckStep ==
  ASSUME LimiterInv, NEW h \in Handler, StillBlocked(h) \/ Allowed(h) \/ Violates(h)
  PROVE  LimiterInv'
<1> USE RateLimiterAssumption
<1> DEFINE e == Entry(h)
<1>1. LimiterType /\ HandlerOK /\ BlocksOK /\ Locked(h)
  BY ZenonT(30) DEF LimiterInv, StillBlocked, Allowed, Violates
<1>2. /\ e \in Session /\ e.last_seen = now[h] /\ now[h] \in Nat /\ now[h] <= clock
      /\ e.blocked_until \in Nat /\ e.violations \in 0..Cap /\ clock \in Nat /\ Longest \in Nat
  BY ZenonT(30), <1>1, EntryIs, SessionIsKnown DEF LimiterType, HandlerOK, Longest, AtLeast
<1>3. e.blocked_until <= clock + Longest
  <2>1. key[h] \in Key /\ sessions[key[h]] \in Session \cup {NoSession} /\ BlockOK(sessions[key[h]])
    BY ZenonT(30), <1>1, EntryIs DEF LimiterType, Sessions, BlocksOK
  <2>2. e.blocked_until = 0 \/ (sessions[key[h]] # NoSession /\ e.blocked_until = sessions[key[h]].blocked_until)
    BY ZenonT(30), <1>1, EntryIs
  <2> QED
    BY <1>2, <2>1, <2>2 DEF BlockOK
<1>4. CASE StillBlocked(h)
  <2>1. now[h] < e.blocked_until /\ Decide(h, e, e.blocked_until, dirty \/ Full, TRUE)
    BY ZenonT(30), <1>4 DEF StillBlocked, SaveDenial
  <2> HIDE DEF e
  <2>2. e.blocked_until >= e.blocked_until /\ e.violations >= e.violations
    BY <1>2
  <2> QED
    BY ZenonT(30), <1>1, <1>2, <1>3, <2>1, <2>2, DecideStep DEF e
<1>5. CASE Allowed(h)
  <2> DEFINE s == [e EXCEPT !.violations = IF e.violations = 0 THEN 0 ELSE e.violations - 1]
             d == dirty \/ Full \/ e.violations > 0
  <2>1. Decide(h, s, 0, d, SaveAllowance(h, d))
    BY ZenonT(30), <1>5 DEF Allowed
  <2> HIDE DEF e, d
  <2>2. s \in Session /\ s.last_seen = now[h] /\ s.blocked_until = e.blocked_until
    BY <1>2 DEF Session
  <2> HIDE DEF s
  <2>3. s.blocked_until <= clock + Longest /\ s.blocked_until >= e.blocked_until
    BY <1>2, <1>3, <2>2
  <2> QED
    BY ZenonT(30), <1>1, <2>1, <2>2, <2>3, DecideStep DEF e
<1>6. CASE Violates(h)
  <2> DEFINE v == More(e.violations)
  <2>1. PICK wait \in 0..MaxWait :
          LET u == now[h] + AtLeast(wait, Backoff(v))
          IN  Decide(h, [e EXCEPT !.violations = v, !.blocked_until = u], u, TRUE, TRUE)
    BY ZenonT(30), <1>6 DEF Violates, SaveDenial
  <2> DEFINE u == now[h] + AtLeast(wait, Backoff(v))
             s == [e EXCEPT !.violations = v, !.blocked_until = u]
  <2>2. now[h] >= e.blocked_until
    BY ZenonT(30), <1>6 DEF Violates
  <2> HIDE DEF e
  <2>3. v \in 0..Cap /\ v >= e.violations
    BY <1>2 DEF More, AtMost
  <2> HIDE DEF v
  <2>4. Backoff(v) \in 1..MaxBackoff
    BY <2>3, BackoffGrows
  <2>5. u \in Nat /\ u <= clock + Longest /\ u >= now[h]
    BY <1>2, <2>4 DEF AtLeast, Longest
  <2> HIDE DEF u
  <2>6. s \in Session /\ s.last_seen = now[h] /\ s.blocked_until = u /\ s.violations = v
    BY ZenonT(30), <1>2, <2>3, <2>5 DEF Session
  <2>7. Decide(h, s, u, TRUE, TRUE)
    BY ZenonT(30), <2>1 DEF u
  <2> HIDE DEF s
  <2>8. s.blocked_until <= clock + Longest /\ s.blocked_until >= e.blocked_until /\ s.violations >= e.violations
    BY <1>2, <2>2, <2>3, <2>5, <2>6
  <2> QED
    BY ZenonT(30), <1>1, <2>5, <2>6, <2>7, <2>8, DecideStep DEF e
<1> QED
  BY ZenonT(30), <1>4, <1>5, <1>6

\* The steps of a handler that leave the sessions and the file alone.
LEMMA QuietStep ==
  ASSUME LimiterInv, NEW h \in Handler,
         ReadClock(h) \/ SaveTruncate(h) \/ SaveFails(h) \/ Respond(h)
  PROVE  LimiterInv'
<1> USE RateLimiterAssumption DEF Deciding, Saving
<1>1. LimiterType /\ HandlerOK /\ BlocksOK /\ KeptOK /\ StreakOK
  BY ZenonT(30) DEF LimiterInv
<1>2. UNCHANGED <<up, clock, sessions, disk, streak>>
  BY ZenonT(30) DEF ReadClock, SaveTruncate, SaveFails, Respond, state, file, history
<1>3. \A g \in Handler : g # h => pc'[g] = pc[g] /\ key'[g] = key[g] /\ now'[g] = now[g] /\ until'[g] = until[g]
  BY ZenonT(30), <1>1 DEF ReadClock, SaveTruncate, SaveFails, Respond, Go, LimiterType
<1>4. \A g \in Handler : g # h /\ pc[g] \in Saving => mutex' = mutex
  BY ZenonT(30), <1>1 DEF ReadClock, SaveTruncate, SaveFails, Respond, HandlerOK
<1>5. CASE ReadClock(h)
  <2>1. /\ up /\ pc'[h] = "read" /\ key'[h] \in Key /\ now'[h] = clock
        /\ UNCHANGED <<until, promised>>
    BY ZenonT(30), <1>1, <1>5 DEF ReadClock, Go, LimiterType, history
  <2>2. LimiterType'
    BY ZenonT(30), <1>1, <1>2, <1>5, <2>1 DEF ReadClock, Go, LimiterType
  <2>3. HandlerOK'
    BY <1>1, <1>2, <1>3, <1>4, <2>1 DEF HandlerOK, LimiterType
  <2>4. KeptOK'
    BY ZenonT(30), <1>1, <1>2, <1>3, <2>1 DEF KeptOK, Kept
  <2> QED
    BY ZenonT(30), <1>1, <1>2, <2>2, <2>3, <2>4 DEF LimiterInv, BlocksOK, BlockOK, StreakOK, Counts
<1>6. CASE SaveTruncate(h)
  <2>1. /\ pc[h] = "save" /\ pc'[h] = "write" /\ UNCHANGED <<key, now, until, promised, mutex>>
    BY ZenonT(30), <1>1, <1>6 DEF SaveTruncate, Go, LimiterType, history
  <2>2. LimiterType'
    BY ZenonT(30), <1>1, <1>2, <1>6, <2>1 DEF SaveTruncate, Go, LimiterType
  <2>3. HandlerOK'
    BY ZenonT(30), <1>1, <1>2, <1>3, <2>1 DEF HandlerOK
  <2>4. KeptOK'
    BY ZenonT(30), <1>1, <1>2, <1>3, <2>1 DEF KeptOK, Kept
  <2> QED
    BY ZenonT(30), <1>1, <1>2, <2>2, <2>3, <2>4 DEF LimiterInv, BlocksOK, BlockOK, StreakOK, Counts
<1>7. CASE SaveFails(h)
  <2>1. /\ pc[h] # "idle" /\ pc'[h] = "fail" /\ UNCHANGED <<key, now, until, promised>>
    BY ZenonT(30), <1>1, <1>7 DEF SaveFails, Go, LimiterType, history
  <2>2. LimiterType'
    BY ZenonT(30), <1>1, <1>2, <1>7, <2>1 DEF SaveFails, Go, LimiterType
  <2>3. HandlerOK'
    BY ZenonT(30), <1>1, <1>2, <1>3, <1>4, <2>1 DEF HandlerOK
  <2>4. KeptOK'
    BY ZenonT(30), <1>1, <1>2, <1>3, <2>1 DEF KeptOK, Kept
  <2> QED
    BY ZenonT(30), <1>1, <1>2, <2>2, <2>3, <2>4 DEF LimiterInv, BlocksOK, BlockOK, StreakOK, Counts
<1>8. CASE Respond(h)
  <2> DEFINE k == key[h]
  <2>1. /\ k \in Key /\ pc'[h] = "idle" /\ now'[h] = 0 /\ UNCHANGED mutex
        /\ until[h] \in Nat /\ clock \in Nat
    BY ZenonT(30), <1>1, <1>8 DEF Respond, Go, LimiterType, HandlerOK
  <2>2. LimiterType'
    <3>1. promised' \in [Key -> Nat]
      BY ZenonT(30), <1>1, <1>8, <2>1 DEF Respond, LimiterType, AtLeast
    <3> QED
      BY ZenonT(30), <1>1, <1>2, <1>8, <3>1 DEF Respond, Go, LimiterType
  <2>3. HandlerOK'
    BY <1>1, <1>2, <1>3, <2>1 DEF HandlerOK
  <2>4. ASSUME NEW j \in Key
        PROVE  \/ promised'[j] = promised[j]
               \/ j = k /\ pc[h] = "respond" /\ promised'[j] = until[h]
    BY ZenonT(30), <1>1, <1>8, <2>1 DEF Respond, LimiterType, AtLeast
  <2>5. \A j \in Key : Kept(sessions[j], promised'[j]) /\ Kept(disk[j], promised'[j])
    BY ZenonT(30), <1>1, <2>4 DEF KeptOK
  <2>6. KeptOK'
    BY ZenonT(30), <1>1, <1>2, <1>3, <2>1, <2>5 DEF KeptOK, Kept
  <2> QED
    BY ZenonT(30), <1>1, <1>2, <2>2, <2>3, <2>6 DEF LimiterInv, BlocksOK, BlockOK, StreakOK, Counts
<1> QED
  BY ZenonT(30), <1>5, <1>6, <1>7, <1>8

\* save_locked has written the file: it is the memory now.
LEMMA SaveStep ==
  ASSUME LimiterInv, NEW h \in Handler, SaveWrite(h)
  PROVE  LimiterInv'
<1> USE RateLimiterAssumption DEF Deciding, Saving
<1> DEFINE k == key[h]
           n == sessions[k].violations
<1>1. LimiterType /\ HandlerOK /\ BlocksOK /\ KeptOK /\ StreakOK
  BY ZenonT(30) DEF LimiterInv
<1>2. /\ pc[h] = "write" /\ pc' = [pc EXCEPT ![h] = "respond"] /\ disk' = sessions
      /\ UNCHANGED <<up, clock, sessions, key, now, until, promised>>
  BY ZenonT(30) DEF SaveWrite, Go
<1>3. mutex = h /\ \A g \in Handler : pc[g] \in Saving => g = h
  BY ZenonT(30), <1>1, <1>2 DEF HandlerOK
<1>4. k \in Key /\ sessions[k] # NoSession /\ n \in Nat /\ streak[k] \in Nat /\ streak[k] <= n
  BY <1>1, <1>2, SessionIsKnown DEF HandlerOK, LimiterType, Sessions, StreakOK, Counts
<1>5. \A g \in Handler : g # h => pc'[g] = pc[g]
  BY ZenonT(30), <1>1, <1>2 DEF LimiterType
<1>6. pc'[h] = "respond"
  BY ZenonT(30), <1>1, <1>2 DEF LimiterType
<1>7. /\ streak'[k] \in Nat /\ streak'[k] <= n
      /\ \A j \in Key : j # k => streak'[j] = streak[j]
      /\ streak' \in [Key -> Nat]
  BY <1>1, <1>4 DEF SaveWrite, LimiterType, AtMost
<1> HIDE DEF k, n
<1>8. LimiterType'
  BY ZenonT(30), <1>1, <1>2, <1>7 DEF LimiterType
<1>9. HandlerOK'
  BY ZenonT(30), <1>1, <1>2, <1>3, <1>5, <1>6 DEF HandlerOK
<1>10. BlocksOK'
  BY ZenonT(30), <1>1, <1>2 DEF BlocksOK, BlockOK
<1>11. KeptOK'
  BY ZenonT(30), <1>1, <1>2, <1>3, <1>5, <1>6 DEF KeptOK, Kept
<1>12. StreakOK'
  BY ZenonT(30), <1>1, <1>2, <1>4, <1>7 DEF StreakOK, Counts, k, n
<1> QED
  BY ZenonT(30), <1>8, <1>9, <1>10, <1>11, <1>12 DEF LimiterInv

\* Time passes, the process is killed, and it starts again with the file.
LEMMA WorldStep ==
  ASSUME LimiterInv, Tick \/ Crash \/ Reload \/ UNCHANGED limiterVars
  PROVE  LimiterInv'
<1> USE RateLimiterAssumption DEF Deciding, Saving
<1>1. LimiterType /\ HandlerOK /\ BlocksOK /\ KeptOK /\ StreakOK
  BY ZenonT(30) DEF LimiterInv
<1>2. clock \in Nat /\ MaxStall \in Nat /\ Longest \in Nat
  BY ZenonT(30), <1>1 DEF LimiterType, Longest, AtLeast
<1>3. CASE Tick
  <2>1. /\ clock' = clock + 1 /\ \A h \in Handler : pc[h] \in Deciding => clock < now[h] + MaxStall
        /\ UNCHANGED <<up, sessions, disk, mutex, pc, key, now, until, promised, streak>>
    BY ZenonT(30), <1>3 DEF Tick, state, file, handlerVars, history
  <2>2. LimiterType'
    BY <1>1, <2>1 DEF LimiterType
  <2>3. HandlerOK'
    <3>1. \A h \in Handler : now[h] \in Nat
      BY ZenonT(30), <1>1 DEF LimiterType
    <3> QED
      BY <1>1, <1>2, <2>1, <3>1 DEF HandlerOK
  <2>4. ASSUME NEW s \in Session \cup {NoSession}, BlockOK(s) PROVE BlockOK(s)'
    BY <1>2, <2>1, <2>4, SessionIsKnown DEF BlockOK
  <2>5. ASSUME NEW s, NEW p \in Nat, Kept(s, p) PROVE Kept(s, p)'
    BY <1>2, <2>1, <2>5 DEF Kept
  <2>6. BlocksOK'
    BY ZenonT(30), <1>1, <2>1, <2>4 DEF BlocksOK, LimiterType, Sessions
  <2>7. \A j \in Key : promised[j] \in Nat
    BY ZenonT(30), <1>1 DEF LimiterType
  <2>8. \A h \in Handler : until[h] \in Nat
    BY ZenonT(30), <1>1 DEF LimiterType
  <2>9. KeptOK'
    BY ZenonT(30), <1>1, <2>1, <2>5, <2>7, <2>8 DEF KeptOK
  <2> QED
    BY ZenonT(30), <1>1, <2>1, <2>2, <2>3, <2>6, <2>9 DEF LimiterInv, StreakOK, Counts
<1>4. CASE Crash
  <2>1. /\ pc' = [h \in Handler |-> "idle"] /\ now' = [h \in Handler |-> 0]
        /\ key' = [h \in Handler |-> None] /\ until' = [h \in Handler |-> 0]
        /\ UNCHANGED <<clock, sessions, disk, promised, streak>>
    BY ZenonT(30), <1>4 DEF Crash, state, file, history
  <2>2. \A h \in Handler : pc'[h] = "idle" /\ now'[h] = 0
    BY ZenonT(30), <2>1
  <2>3. LimiterType'
    BY <1>1, <2>1 DEF LimiterType
  <2>4. HandlerOK'
    <3>1. 0 <= clock /\ "idle" \notin Deciding
      BY <1>2
    <3>2. \A h \in Handler : pc'[h] = "idle" /\ now'[h] <= clock'
      BY ZenonT(30), <2>1, <2>2, <3>1
    <3> QED
      BY ZenonT(30), <3>2 DEF HandlerOK
  <2>5. BlocksOK' /\ StreakOK'
    BY ZenonT(30), <1>1, <2>1 DEF BlocksOK, BlockOK, StreakOK, Counts
  <2>6. KeptOK'
    BY ZenonT(30), <1>1, <2>1, <2>2 DEF KeptOK, Kept
  <2> QED
    BY ZenonT(30), <2>3, <2>4, <2>5, <2>6 DEF LimiterInv
<1>5. CASE Reload
  <2>1. /\ ~up /\ up' = TRUE /\ sessions' = disk
        /\ UNCHANGED <<clock, mutex, disk, pc, key, now, until, promised, streak>>
    BY ZenonT(30), <1>5 DEF Reload, file, handlerVars, history
  <2>2. \A h \in Handler : pc[h] = "idle"
    BY ZenonT(30), <1>1, <2>1 DEF HandlerOK
  <2> QED
    BY ZenonT(30), <1>1, <2>1, <2>2 DEF LimiterInv, LimiterType, HandlerOK, BlocksOK, BlockOK, KeptOK, Kept, StreakOK, Counts
<1>6. CASE UNCHANGED limiterVars
  BY ZenonT(30), <1>1, <1>6 DEF limiterVars, state, file, handlerVars, history,
       LimiterInv, LimiterType, HandlerOK, BlocksOK, BlockOK, KeptOK, Kept, StreakOK, Counts
<1> QED
  BY ZenonT(30), <1>3, <1>4, <1>5, <1>6
-----------------------------------------------------------------------------
\* LimiterInv, over every step.
LEMMA LimiterStep ==
  ASSUME LimiterInv, [LimiterNext]_limiterVars
  PROVE  LimiterInv'
BY ZenonT(30), CheckStep, QuietStep, SaveStep, WorldStep DEF LimiterNext

\* A step that ends h's reading, other than a kill, is one of its decisions.
LEMMA OnlyChecked ==
  ASSUME LimiterType, [LimiterNext]_limiterVars, NEW h \in Handler,
         pc[h] = "read", pc'[h] # "read", pc'[h] # "idle"
  PROVE  StillBlocked(h) \/ Allowed(h) \/ Violates(h)
<1>1. ASSUME NEW g \in Handler, g # h,
             \/ ReadClock(g) \/ StillBlocked(g) \/ Allowed(g) \/ Violates(g)
             \/ SaveTruncate(g) \/ SaveWrite(g) \/ SaveFails(g) \/ Respond(g)
      PROVE  FALSE
  <2>1. \E l : pc' = [pc EXCEPT ![g] = l]
    BY ZenonT(30), <1>1 DEF ReadClock, StillBlocked, Allowed, Violates, Decide, SaveTruncate, SaveWrite,
                SaveFails, Respond, Go
  <2> QED
    BY ZenonT(30), <1>1, <2>1 DEF LimiterType
<1>2. ASSUME ReadClock(h) \/ SaveTruncate(h) \/ SaveWrite(h) \/ SaveFails(h) \/ Respond(h)
      PROVE  FALSE
  BY ZenonT(30), <1>2 DEF ReadClock, SaveTruncate, SaveWrite, SaveFails, Respond
<1>3. ASSUME Tick \/ Crash \/ Reload \/ UNCHANGED limiterVars PROVE FALSE
  BY ZenonT(30), <1>3 DEF Tick, Crash, Reload, limiterVars, handlerVars
<1> QED
  BY ZenonT(30), <1>1, <1>2, <1>3 DEF LimiterNext

\* What a decision leaves in until and streak.
LEMMA Decided ==
  ASSUME LimiterInv, NEW h \in Handler
  PROVE  /\ StillBlocked(h) => until'[h] # 0 /\ now[h] < Entry(h).blocked_until
         /\ Allowed(h) => until'[h] = 0 /\ now[h] >= Entry(h).blocked_until
         /\ Violates(h) =>
              LET v == More(Entry(h).violations)
              IN  /\ until'[h] \in Nat /\ until'[h] > now[h] /\ until'[h] - now[h] >= Backoff(v)
                  /\ streak'[key[h]] \in Nat /\ streak'[key[h]] <= Entry(h).violations
<1> USE RateLimiterAssumption
<1>1. LimiterType /\ HandlerOK /\ StreakOK
  BY ZenonT(30) DEF LimiterInv
<1>2. ASSUME Locked(h)
      PROVE  /\ Entry(h).blocked_until \in Nat /\ Entry(h).violations \in 0..Cap
             /\ now[h] \in Nat /\ key[h] \in Key
  BY ZenonT(30), <1>1, <1>2, EntryIs, SessionIsKnown
<1>3. ASSUME NEW s, NEW u, NEW d, NEW save, Decide(h, s, u, d, save) PROVE until'[h] = u
  BY ZenonT(30), <1>1, <1>3 DEF Decide, LimiterType
<1>4. StillBlocked(h) => until'[h] # 0 /\ now[h] < Entry(h).blocked_until
  <2> SUFFICES ASSUME StillBlocked(h) PROVE until'[h] # 0 /\ now[h] < Entry(h).blocked_until
    OBVIOUS
  <2>1. Locked(h) /\ until'[h] = Entry(h).blocked_until /\ now[h] < Entry(h).blocked_until
    BY ZenonT(30), <1>3 DEF StillBlocked
  <2>2. now[h] \in Nat /\ Entry(h).blocked_until \in Nat
    BY ZenonT(30), <1>2, <2>1
  <2> QED
    BY <2>1, <2>2
<1>5. Allowed(h) => until'[h] = 0 /\ now[h] >= Entry(h).blocked_until
  BY ZenonT(30), <1>3 DEF Allowed
<1>6. ASSUME Violates(h)
      PROVE  LET v == More(Entry(h).violations)
             IN  /\ until'[h] \in Nat /\ until'[h] > now[h] /\ until'[h] - now[h] >= Backoff(v)
                 /\ streak'[key[h]] \in Nat /\ streak'[key[h]] <= Entry(h).violations
  <2> DEFINE v == More(Entry(h).violations)
             P == Pruned(now[h])
             k == key[h]
  <2>0. Locked(h)
    BY ZenonT(30), <1>6 DEF Violates
  <2>1. PICK wait \in 0..MaxWait :
          LET u == now[h] + AtLeast(wait, Backoff(v))
          IN  Decide(h, [Entry(h) EXCEPT !.violations = v, !.blocked_until = u], u, TRUE, SaveDenial(h, TRUE))
    BY ZenonT(30), <1>6 DEF Violates
  <2>2. until'[h] = now[h] + AtLeast(wait, Backoff(v))
    BY ZenonT(30), <1>3, <2>1
  <2>3. v \in Nat
    BY <1>2, <2>0 DEF More, AtMost
  <2>4. streak'[k] = IF until'[h] = 0 \/ P[k] = NoSession THEN 0 ELSE streak[k]
    BY ZenonT(30), <1>2, <2>0, <2>1, <2>2 DEF Decide
  <2> HIDE DEF v
  <2>5. Backoff(v) \in Nat \ {0}
    BY <2>3, BackoffGrows
  <2>6. until'[h] \in Nat /\ until'[h] > now[h] /\ until'[h] - now[h] >= Backoff(v)
    BY <1>2, <2>0, <2>2, <2>5 DEF AtLeast
  <2>7. P[k] # NoSession => P[k] = sessions[k] /\ Entry(h).violations = sessions[k].violations
    BY ZenonT(30), <1>1, <2>0, EntryIs
  <2> HIDE DEF P
  <2>8. streak'[k] \in Nat /\ streak'[k] <= Entry(h).violations
    BY <1>1, <1>2, <2>0, <2>4, <2>7 DEF StreakOK, Counts, LimiterType
  <2> QED
    BY ZenonT(30), <2>6, <2>8 DEF v
<1> QED
  BY ZenonT(30), <1>4, <1>5, <1>6
-----------------------------------------------------------------------------
\* ServiceRateLimiter::check, save_locked and load keep every promise and every
\* count: what clients were told is in the sessions and in the file, or is over
\* for every clock reading that a handler still has.
THEOREM LimiterCorrect == LimiterSpec => []LimiterInv
<1> USE RateLimiterAssumption
<1>1. LimiterInit => LimiterInv
  <2> SUFFICES ASSUME LimiterInit PROVE LimiterInv
    OBVIOUS
  <2>0. Longest \in Nat
    BY ZenonT(30) DEF Longest, AtLeast
  <2>1. Fresh(0) \in Session /\ Fresh(0).blocked_until = 0 /\ Fresh(0).last_seen = 0
    BY DEF Fresh, Session
  <2>2. \A k \in Key : Loaded[k] \in {Fresh(0), NoSession}
    BY ZenonT(30) DEF Loaded
  <2>3. Loaded \in Sessions
    BY ZenonT(30), <2>1, <2>2 DEF Loaded, Sessions
  <2>4. LimiterType
    BY ZenonT(30), <2>3 DEF LimiterInit, LimiterType
  <2>5. HandlerOK
    BY DEF LimiterInit, HandlerOK, Deciding, Saving
  <2>6. BlocksOK
    BY <2>0, <2>1, <2>2 DEF LimiterInit, BlocksOK, BlockOK
  <2>7. KeptOK
    BY ZenonT(30) DEF LimiterInit, KeptOK, Kept, Saving
  <2>8. StreakOK
    <3>1. \A k \in Key : Loaded[k] # NoSession => Loaded[k].violations \in Nat
      BY <2>1, <2>2, SessionIsKnown
    <3> QED
      BY <3>1 DEF LimiterInit, StreakOK, Counts
  <2> QED
    BY ZenonT(30), <2>4, <2>5, <2>6, <2>7, <2>8 DEF LimiterInv
<1> QED
  BY <1>1, LimiterStep, PTL DEF LimiterSpec

\* A client that got 429 with Retry-After is not let through before that time:
\* not by a request that read the clock earlier, nor after a kill and a restart,
\* a failed save or the pruning of sessions, however many handlers and keys.
THEOREM BlocksAreKept == LimiterSpec => NeverAllowedEarly
<1> USE RateLimiterAssumption
<1>1. ASSUME LimiterInv, [LimiterNext]_limiterVars
      PROVE  [\A h \in Handler : WaitIsOver(h)]_limiterVars
  <2> SUFFICES ASSUME NEW h \in Handler, pc[h] = "read", pc'[h] # "read", pc'[h] # "idle",
                      until'[h] = 0
               PROVE  now[h] >= promised[key[h]]
    BY ZenonT(30) DEF WaitIsOver
  <2> DEFINE k == key[h]
             p == promised[k]
             s == Pruned(now[h])[k]
  <2>1. LimiterType /\ HandlerOK /\ BlocksOK /\ KeptOK
    BY ZenonT(30), <1>1 DEF LimiterInv
  <2>2. Allowed(h)
    <3>1. StillBlocked(h) \/ Allowed(h) \/ Violates(h)
      BY ZenonT(30), <1>1, <2>1, OnlyChecked
    <3>2. Violates(h) => until'[h] \in Nat /\ until'[h] > now[h] /\ now[h] \in Nat
      BY ZenonT(30), <1>1, <2>1, Decided DEF LimiterType
    <3> QED
      BY <1>1, <3>1, <3>2, Decided
  <2>3. Locked(h) /\ now[h] >= Entry(h).blocked_until
    BY ZenonT(30), <2>2 DEF Allowed
  <2>4. /\ k \in Key /\ p \in Nat /\ now[h] \in Nat /\ clock \in Nat /\ clock <= now[h] + MaxStall
    BY ZenonT(30), <2>1, <2>3, EntryIs DEF LimiterType, HandlerOK, Deciding, Locked
  <2>5. Kept(s, p)
    BY ZenonT(30), <2>1, <2>3, <2>4, PrunedKeeps DEF KeptOK
  <2>6. s # NoSession => Entry(h).blocked_until = s.blocked_until /\ s.blocked_until \in Nat
    BY ZenonT(30), <2>1, <2>3, EntryIs, SessionIsKnown
  <2> HIDE DEF s, p, k
  <2> QED
    BY <2>3, <2>4, <2>5, <2>6 DEF Kept, p, k
<1> QED
  BY <1>1, LimiterCorrect, PTL DEF LimiterSpec, NeverAllowedEarly

\* A new block is at least as long as the backoff for one violation more than
\* those made durable since the key was last let through, also after a restart.
THEOREM BackoffIsKept == LimiterSpec => BackoffEscalates
<1> USE RateLimiterAssumption
<1>1. ASSUME LimiterInv, [LimiterNext]_limiterVars
      PROVE  [\A h \in Handler : BlockIsLong(h)]_limiterVars
  <2> SUFFICES ASSUME NEW h \in Handler PROVE BlockIsLong(h)
    BY Zenon
  <2> SUFFICES ASSUME pc[h] = "read", pc'[h] = "save", until'[h] > now[h],
                      ~(now[h] < Entry(h).blocked_until)
               PROVE  until'[h] - now[h] >= Backoff(AtMost(streak'[key[h]] + 1, Cap))
    BY Zenon DEF BlockIsLong
  <2> DEFINE v == More(Entry(h).violations)
             w == AtMost(streak'[key[h]] + 1, Cap)
  <2>1. LimiterType /\ HandlerOK
    BY ZenonT(30), <1>1 DEF LimiterInv
  <2>2. StillBlocked(h) \/ Allowed(h) \/ Violates(h)
    BY ZenonT(30), <1>1, <2>1, OnlyChecked
  <2>3. Locked(h)
    BY ZenonT(30), <2>2 DEF StillBlocked, Allowed, Violates
  <2>4. /\ now[h] \in Nat /\ Entry(h).violations \in 0..Cap /\ Entry(h).blocked_until \in Nat
    BY ZenonT(30), <2>1, <2>3, EntryIs, SessionIsKnown
  <2>5. Violates(h)
    <3>1. /\ StillBlocked(h) => now[h] < Entry(h).blocked_until
          /\ Allowed(h) => until'[h] = 0
      BY ZenonT(30), <1>1, Decided
    <3>2. ~StillBlocked(h) /\ ~Allowed(h)
      BY <2>4, <3>1
    <3> QED
      BY ZenonT(30), <2>2, <3>2
  <2>6. /\ until'[h] \in Nat /\ until'[h] - now[h] >= Backoff(v)
        /\ streak'[key[h]] \in Nat /\ streak'[key[h]] <= Entry(h).violations
    BY ZenonT(30), <1>1, <2>5, Decided
  <2>7. v \in Nat /\ w \in Nat /\ w <= v
    BY <2>4, <2>6 DEF More, AtMost
  <2> HIDE DEF v, w
  <2>8. Backoff(w) <= Backoff(v) /\ Backoff(w) \in Nat /\ Backoff(v) \in Nat
    BY <2>7, BackoffGrows
  <2>9. until'[h] - now[h] >= Backoff(w)
    BY <2>4, <2>6, <2>8
  <2> QED
    BY ZenonT(30), <2>9 DEF w
<1> QED
  BY <1>1, LimiterCorrect, PTL DEF LimiterSpec, BackoffEscalates
-----------------------------------------------------------------------------
(***************************************************************************)
(* Attested capture: what the gateway claims and what the event service    *)
(* accepts, for every receipt and configuration.                           *)
(***************************************************************************)
\* A walk from index 1 that goes on until it stops, with a value at each stop.
Walk(n, stop, val, f) == f = [i \in 1..n |-> IF stop[i] THEN val[i] ELSE f[i + 1]]

\* There is such a walk: its value at i is that of the first stop from i on.
LEMMA WalkExists ==
  ASSUME NEW n \in Nat, NEW stop \in [1..n -> BOOLEAN], NEW val, stop[n]
  PROVE  \E f : Walk(n, stop, val, f)
<1> DEFINE First(i, k) == k \in i..n /\ stop[k] /\ \A j \in i..n : stop[j] => k <= j
           first(i) == CHOOSE k \in Nat : First(i, k)
           f == [i \in 1..n |-> val[first(i)]]
<1>1. ASSUME NEW i \in 1..n PROVE first(i) \in Nat /\ First(i, first(i))
  <2> DEFINE T == {j \in i..n : stop[j]}
  <2>1. T \in SUBSET Nat /\ n \in T
    OBVIOUS
  <2>2. \E k \in T : \A j \in T : k <= j
    BY ZenonT(30), <2>1, LeastNatural
  <2>3. \E k \in Nat : First(i, k)
    BY ZenonT(30), <2>1, <2>2
  <2> QED
    BY ZenonT(30), <2>3
<1> HIDE DEF first
<1>2. ASSUME NEW i \in 1..n PROVE f[i] = IF stop[i] THEN val[i] ELSE f[i + 1]
  <2>1. CASE stop[i]
    <3>1. first(i) = i
      BY <1>1, <2>1
    <3> QED
      BY ZenonT(30), <2>1, <3>1
  <2>2. CASE ~stop[i]
    <3>1. i + 1 \in 1..n
      BY <2>2
    <3>2. First(i + 1, first(i + 1)) /\ first(i + 1) \in Nat /\ First(i, first(i)) /\ first(i) \in Nat
      BY ZenonT(30), <1>1, <3>1
    <3>3. first(i) = first(i + 1)
      BY <2>2, <3>1, <3>2
    <3> QED
      BY ZenonT(30), <2>2, <3>1, <3>3
  <2> QED
    BY ZenonT(30), <2>1, <2>2
<1> HIDE DEF f
<1>3. f = [i \in 1..n |-> f[i]]
  BY ZenonT(30) DEF f
<1>4. f = [i \in 1..n |-> IF stop[i] THEN val[i] ELSE f[i + 1]]
  BY ZenonT(30), <1>2, <1>3
<1> QED
  BY ZenonT(30), <1>4 DEF Walk

\* The value at the start of any such walk is that of the first stop.
LEMMA WalkStops ==
  ASSUME NEW n \in Nat \ {0}, NEW stop \in [1..n -> BOOLEAN], NEW val, stop[n],
         NEW f, Walk(n, stop, val, f)
  PROVE  \E k \in 1..n : stop[k] /\ (\A j \in 1..n : j < k => ~stop[j]) /\ f[1] = val[k]
<1> DEFINE T == {j \in 1..n : stop[j]}
<1>1. T \in SUBSET Nat /\ n \in T
  OBVIOUS
<1>2. PICK k \in T : \A j \in T : k <= j
  BY ZenonT(30), <1>1, LeastNatural
<1>3. k \in 1..n /\ stop[k] /\ \A j \in 1..n : j < k => ~stop[j]
  BY <1>2
<1>4. \A i \in 1..n : f[i] = IF stop[i] THEN val[i] ELSE f[i + 1]
  BY ZenonT(30) DEF Walk
<1> DEFINE U == {i \in 1..n : i <= k /\ f[i] = val[k]}
<1>5. U \in SUBSET Nat /\ k \in U
  BY <1>3, <1>4
<1>6. PICK u \in U : \A j \in U : u <= j
  BY ZenonT(30), <1>5, LeastNatural
<1>7. u = 1
  <2> SUFFICES ASSUME u # 1 PROVE FALSE
    OBVIOUS
  <2>1. u - 1 \in 1..n /\ u - 1 < k /\ (u - 1) + 1 = u
    BY <1>3, <1>6
  <2>2. f[u - 1] = f[u]
    BY ZenonT(30), <1>3, <1>4, <2>1
  <2>3. u - 1 \in U
    BY <1>6, <2>1, <2>2
  <2> QED
    BY <1>5, <1>6, <2>1, <2>3
<1> QED
  BY ZenonT(30), <1>3, <1>6, <1>7

-----------------------------------------------------------------------------
\* verify_eat_chain accepts a receipt only if every stage passes its checks and
\* none is beyond the limit; it reports the number of stages.
LEMMA ChainVerified ==
  ASSUME NEW r \in Receipt, NEW labels, VerifyChain(r, labels).ok
  PROVE  /\ \A i \in 1..Len(r) : StageError(r[i], r[1], labels) = "none"
         /\ VerifyChain(r, labels).chain_depth = Len(r)
         /\ Len(r) <= MaxDepth + 1
<1> DEFINE n    == Len(r)
           E(i) == StageError(r[i], r[1], labels)
           stop == [i \in 1..n |-> TooDeep(i) \/ E(i) # "none" \/ i = n]
           val  == [i \in 1..n |-> IF TooDeep(i) THEN Err("too deep")
                                   ELSE IF E(i) # "none" THEN Err(E(i))
                                   ELSE [ok |-> TRUE, chain_depth |-> i]]
           walk[i \in 1..n] ==
             IF TooDeep(i) THEN Err("too deep")
             ELSE IF E(i) # "none" THEN Err(E(i))
             ELSE IF i = n THEN [ok |-> TRUE, chain_depth |-> i]
             ELSE walk[i + 1]
<1> HIDE DEF E
<1>a. n \in Nat \ {0}
  BY DEF Receipt
<1>1. n \in Nat \ {0} /\ stop \in [1..n -> BOOLEAN] /\ stop[n]
  <2> HIDE DEF n
  <2>1. n \in 1..n
    BY <1>a
  <2>2. stop \in [1..n -> BOOLEAN]
    BY Zenon
  <2>3. stop[n]
    BY Zenon, <2>1
  <2> QED
    BY ZenonT(30), <1>a, <2>2, <2>3
<1>2. VerifyChain(r, labels) = walk[1]
  BY ZenonT(30) DEF VerifyChain, E
<1>3. walk = CHOOSE f : Walk(n, stop, val, f)
  <2>1. ASSUME NEW f
        PROVE  [i \in 1..n |-> IF TooDeep(i) THEN Err("too deep")
                               ELSE IF E(i) # "none" THEN Err(E(i))
                               ELSE IF i = n THEN [ok |-> TRUE, chain_depth |-> i]
                               ELSE f[i + 1]]
               = [i \in 1..n |-> IF stop[i] THEN val[i] ELSE f[i + 1]]
    OBVIOUS
  <2> QED
    BY ZenonT(30), <2>1 DEF Walk
<1>4. Walk(n, stop, val, walk)
  BY ZenonT(30), <1>1, <1>3, WalkExists
<1> HIDE DEF walk, n
<1>5. PICK k \in 1..n : /\ stop[k] /\ (\A j \in 1..n : j < k => ~stop[j])
                        /\ walk[1] = val[k]
  <2> HIDE DEF stop, val
  <2> QED
    BY <1>1, <1>4, WalkStops
<1>6. ~TooDeep(k) /\ E(k) = "none" /\ k = n /\ walk[1].chain_depth = n
  <2>1. val[k].ok
    BY ZenonT(30), <1>2, <1>5
  <2>2. ~TooDeep(k) /\ E(k) = "none"
    BY ZenonT(30), <2>1 DEF Err
  <2>3. k = n
    BY Zenon, <1>5, <2>2
  <2> QED
    BY <1>5, <2>2, <2>3
<1>7. \A j \in 1..n : E(j) = "none"
  BY <1>1, <1>5, <1>6
<1>8. n <= MaxDepth + 1
  BY <1>1, <1>6, AttestedCaptureAssumption DEF TooDeep
<1> QED
  BY ZenonT(30), <1>2, <1>6, <1>7, <1>8 DEF E, n

\* The platforms that cmd_check knows.
KnownLabels == {Plain("tdx"), Plain("sev-snp"), Plain("nitro")}

\* A stage of an accepted platform is of a platform that cmd_check knows.
LEMMA StageKnown ==
  ASSUME NEW s \in Stage, NEW leaf, NEW labels, StageError(s, leaf, labels) = "none"
  PROVE  /\ s.quote = "good" /\ s.value_x = leaf.value_x
         /\ s.platform \in {NormalizeLabel(l) : l \in labels}
         /\ StageError(s, leaf, KnownLabels) = "none"
<1>1. /\ s.value_x = leaf.value_x /\ s.platform # "unknown"
      /\ s.platform \in {NormalizeLabel(l) : l \in labels}
      /\ s.quote # "empty" /\ s.quote # "bad"
  BY ZenonT(30) DEF StageError
<1>2. s.platform \in {"tdx", "sev-snp", "nitro"} /\ s.quote = "good"
  BY ZenonT(30), <1>1 DEF Stage
<1>3. /\ NormalizeLabel(Plain("tdx")) = "tdx" /\ NormalizeLabel(Plain("sev-snp")) = "sev-snp"
      /\ NormalizeLabel(Plain("nitro")) = "nitro"
  BY ZenonT(30) DEF NormalizeLabel, Plain
<1>4. s.platform \in {NormalizeLabel(l) : l \in KnownLabels}
  BY ZenonT(30), <1>2, <1>3 DEF KnownLabels
<1> QED
  BY ZenonT(30), <1>1, <1>2, <1>4 DEF StageError

\* cmd_check's walk accepts a receipt whose stages pass exactly if it is not longer
\* than its limit.
LEMMA ChainChecked ==
  ASSUME NEW r \in Receipt,
         \A i \in 1..Len(r) : StageError(r[i], r[1], KnownLabels) = "none"
  PROVE  CheckChain(r) <=> Len(r) <= MaxDepth
<1> DEFINE n    == Len(r)
           E(i) == StageError(r[i], r[1], KnownLabels)
           stop == [i \in 1..n |-> E(i) # "none" \/ (i > 1 /\ i > MaxDepth) \/ i = n]
           val  == [i \in 1..n |-> IF E(i) # "none" THEN FALSE
                                   ELSE IF i > 1 /\ i > MaxDepth THEN FALSE
                                   ELSE TRUE]
           walk[i \in 1..n] ==
             IF E(i) # "none" THEN FALSE
             ELSE IF i > 1 /\ i > MaxDepth THEN FALSE
             ELSE IF i = n THEN TRUE
             ELSE walk[i + 1]
<1> HIDE DEF E
<1>a. n \in Nat \ {0}
  BY DEF Receipt
<1>1. n \in Nat \ {0} /\ stop \in [1..n -> BOOLEAN] /\ stop[n]
  <2> HIDE DEF n
  <2>1. n \in 1..n
    BY <1>a
  <2>2. stop \in [1..n -> BOOLEAN]
    BY Zenon
  <2>3. stop[n]
    BY Zenon, <2>1
  <2> QED
    BY ZenonT(30), <1>a, <2>2, <2>3
<1>2. CheckChain(r) = walk[1]
  BY ZenonT(30) DEF CheckChain, E, KnownLabels
<1>3. walk = CHOOSE f : Walk(n, stop, val, f)
  <2>1. ASSUME NEW f
        PROVE  [i \in 1..n |-> IF E(i) # "none" THEN FALSE
                               ELSE IF i > 1 /\ i > MaxDepth THEN FALSE
                               ELSE IF i = n THEN TRUE
                               ELSE f[i + 1]]
               = [i \in 1..n |-> IF stop[i] THEN val[i] ELSE f[i + 1]]
    OBVIOUS
  <2> QED
    BY ZenonT(30), <2>1 DEF Walk
<1>4. Walk(n, stop, val, walk)
  BY ZenonT(30), <1>1, <1>3, WalkExists
<1> HIDE DEF walk
<1>5. PICK k \in 1..n : stop[k] /\ walk[1] = val[k]
  <2> HIDE DEF stop, val, n
  <2> QED
    BY <1>1, <1>4, WalkStops
<1>6. E(k) = "none"
  BY ZenonT(30), <1>5 DEF E
<1>7. (k > 1 /\ k > MaxDepth) \/ k = n
  BY ZenonT(30), <1>5, <1>6
<1>8. (k > 1 /\ k > MaxDepth) <=> ~(n <= MaxDepth)
  <2> HIDE DEF n
  <2> QED
    BY <1>a, <1>7, AttestedCaptureAssumption
<1>9. val[k] <=> ~(k > 1 /\ k > MaxDepth)
  BY ZenonT(30), <1>6
<1> QED
  BY ZenonT(30), <1>2, <1>5, <1>8, <1>9

\* What a claim of build_capture_ra_claim rests on.
LEMMA ClaimMeans ==
  ASSUME NEW m, NEW r, NEW method, NEW assurance, NEW enforcement,
         BuildClaim(m, r, method, assurance, enforcement).ok
  PROVE  /\ assurance = "attested" /\ <<method, enforcement>> \in Path
         /\ method \in m.capture_methods
         /\ m.cvm_receipt_hash = r /\ VerifyChain(r, m.labels).ok
         /\ m.value_x.id = r[1].value_x
         /\ BuildClaim(m, r, method, assurance, enforcement) =
              [ok |-> TRUE, capture_method |-> method, assurance |-> assurance,
               enforcement |-> enforcement, cvm_receipt_hash |-> r, manifest_hash |-> m,
               event_signing_key |-> m.key,
               chain_depth |-> VerifyChain(r, m.labels).chain_depth]
<1> DEFINE k == BuildClaim(m, r, method, assurance, enforcement)
           v == VerifyChain(r, m.labels)
           full == [ok |-> TRUE, capture_method |-> method, assurance |-> assurance,
                    enforcement |-> enforcement, cvm_receipt_hash |-> r, manifest_hash |-> m,
                    event_signing_key |-> m.key, chain_depth |-> v.chain_depth]
           x == NormalizeValueX(m.value_x)
           y == NormalizeValueX([id |-> r[1].value_x, form |-> "prefixed"])
<1>1. k = IF ~PathSpec(method, assurance, enforcement) THEN Err("unsupported path")
          ELSE IF method \notin m.capture_methods THEN Err("method not advertised")
          ELSE IF ~v.ok THEN v
          ELSE IF m.cvm_receipt_hash # r THEN Err("receipt hash")
          ELSE IF x # y THEN Err("value_x")
          ELSE full
  BY ZenonT(30) DEF BuildClaim
<1>2. x = y => m.value_x.id = r[1].value_x
  BY ZenonT(30) DEF NormalizeValueX
<1>3. \A what : ~Err(what).ok
  BY ZenonT(30) DEF Err
<1> HIDE DEF k, v, full, x, y
<1>4. /\ PathSpec(method, assurance, enforcement) /\ method \in m.capture_methods
      /\ v.ok /\ m.cvm_receipt_hash = r /\ x = y /\ k = full
  BY ZenonT(30), <1>1, <1>3 DEF k
<1> QED
  BY ZenonT(30), <1>2, <1>4 DEF PathSpec, k, v, full
-----------------------------------------------------------------------------
GatewayOK ==
  /\ boot \in Nat /\ cfg \in Config /\ receipt \in Receipt
  /\ gateway \in {"starting", "serving", "refused", "other"}
  /\ gateway = "serving" => manifest = Manifest(boot, cfg, receipt)

\* A gateway that serves as attested has the claim main built, and its receipt.
ClaimOK ==
  IF gateway = "serving" /\ cfg.assurance = "attested"
  THEN /\ cfg.cvm_receipt /\ claim.ok
       /\ claim = BuildClaim(manifest, receipt, cfg.capture_method, cfg.assurance,
                             cfg.enforcement)
  ELSE claim = NoClaim

\* The claim a service would build from the event's own manifest and receipt
\* holds, and the event agrees with it.
Stands(e) ==
  LET k == BuildClaim(e.manifest_hash, e.manifest_hash.cvm_receipt_hash,
                      e.capture_method, e.assurance, e.enforcement_mode)
  IN  k.ok /\ EventMatchesClaim(e, k)

\* A gateway's own event is of this boot or of an earlier one.
EventOK ==
  own =>
    /\ service # "idle"
    /\ event.signed_by \in 0..boot
    /\ event.manifest_hash.key = event.signed_by
    /\ event.assurance = "attested" => Stands(event)
    /\ event.signed_by = boot => gateway = "serving" /\ event.manifest_hash = manifest

\* Of the event of anybody only what the service has checked by now is known.
ServiceOK ==
  /\ service \in {"idle", "manifest", "receipt", "accepted", "rejected"}
  /\ service \in {"manifest", "receipt"} => event.assurance = "attested"
  /\ service = "receipt" => fetched = event.manifest_hash /\ event.signed_by = fetched.key

CaptureInv ==
  /\ GatewayOK /\ ClaimOK /\ EventOK /\ ServiceOK
  /\ RejectedOnlyIfGone /\ AcceptedIsAttested

\* What a serving gateway says of its key and receipt.
LEMMA ManifestOfGateway ==
  ASSUME GatewayOK, gateway = "serving"
  PROVE  manifest.key = boot /\ (cfg.cvm_receipt => manifest.cvm_receipt_hash = receipt)
<1> DEFINE m == Manifest(boot, cfg, receipt)
<1>1. m.key = boot /\ (cfg.cvm_receipt => m.cvm_receipt_hash = receipt)
  BY ZenonT(30) DEF Manifest
<1>2. manifest = m
  BY ZenonT(30) DEF GatewayOK
<1> QED
  BY ZenonT(30), <1>1, <1>2

\* An event that a service accepts passed every check: the claim was built from
\* the manifest the event names and the receipt that manifest names.
LEMMA AcceptedStep ==
  ASSUME CaptureInv, FetchReceipt, service' = "accepted"
  PROVE  AcceptedIsAttested'
<1> DEFINE m == event.manifest_hash
           k == BuildClaim(fetched, receipt, event.capture_method, event.assurance,
                           event.enforcement_mode)
<1>1. /\ k.ok /\ fetched = m /\ receipt \in Receipt /\ UNCHANGED <<event, fetched>>
      /\ event.signed_by = m.key /\ EventMatchesClaim(event, k)
  BY ZenonT(30) DEF FetchReceipt, CaptureInv, GatewayOK, ServiceOK
<1>2. /\ <<event.capture_method, event.enforcement_mode>> \in Path
      /\ event.capture_method \in m.capture_methods
      /\ m.cvm_receipt_hash = receipt /\ VerifyChain(receipt, m.labels).ok
      /\ m.value_x.id = receipt[1].value_x
  BY ZenonT(30), <1>1, ClaimMeans
<1>a. event.ra = <<receipt, m.key>>
  <2>1. k = [ok |-> TRUE, capture_method |-> event.capture_method,
             assurance |-> event.assurance, enforcement |-> event.enforcement_mode,
             cvm_receipt_hash |-> receipt, manifest_hash |-> fetched,
             event_signing_key |-> fetched.key,
             chain_depth |-> VerifyChain(receipt, fetched.labels).chain_depth]
    BY ZenonT(30), <1>1, ClaimMeans
  <2> HIDE DEF k
  <2>2. k.cvm_receipt_hash = receipt /\ k.event_signing_key = fetched.key
    BY ZenonT(30), <2>1
  <2> QED
    BY ZenonT(30), <1>1, <2>2 DEF EventMatchesClaim
<1>3. receipt # <<>> /\ \A i \in 1..Len(receipt) : receipt[i] \in Stage
  BY <1>1 DEF Receipt
<1>4. \A i \in 1..Len(receipt) : StageError(receipt[i], receipt[1], m.labels) = "none"
  BY ZenonT(30), <1>1, <1>2, ChainVerified
<1>5. \A i \in 1..Len(receipt) :
        /\ receipt[i].quote = "good" /\ receipt[i].value_x = m.value_x.id
        /\ receipt[i].platform \in {NormalizeLabel(l) : l \in m.labels}
  <2> SUFFICES ASSUME NEW i \in 1..Len(receipt)
               PROVE  /\ receipt[i].quote = "good" /\ receipt[i].value_x = m.value_x.id
                      /\ receipt[i].platform \in {NormalizeLabel(l) : l \in m.labels}
    OBVIOUS
  <2> HIDE DEF m
  <2>1. receipt[i] \in Stage /\ StageError(receipt[i], receipt[1], m.labels) = "none"
    BY ZenonT(30), <1>3, <1>4
  <2>2. /\ receipt[i].quote = "good" /\ receipt[i].value_x = receipt[1].value_x
        /\ receipt[i].platform \in {NormalizeLabel(l) : l \in m.labels}
    BY <2>1, StageKnown
  <2> QED
    BY ZenonT(30), <1>2, <2>2
<1> QED
  BY ZenonT(30), <1>1, <1>2, <1>a, <1>3, <1>5 DEF AcceptedIsAttested

\* CaptureInv, over every step.
LEMMA CaptureStep ==
  ASSUME CaptureInv, [CaptureNext]_captureVars
  PROVE  CaptureInv'
<1> USE DEF gatewayVars
<1>0. GatewayOK /\ ClaimOK /\ EventOK /\ ServiceOK /\ RejectedOnlyIfGone /\ AcceptedIsAttested
  BY ZenonT(30) DEF CaptureInv
<1>1. CASE Start
  <2>1. /\ UNCHANGED <<boot, cfg, receipt, event, own, service, fetched, failed>>
        /\ gateway = "starting" /\ gateway' \in {"serving", "refused"}
        /\ gateway' = "serving" => manifest' = Manifest(boot, cfg, receipt)
    BY ZenonT(30), <1>1 DEF Start
  <2>2. ClaimOK'
    BY ZenonT(30), <1>1 DEF Start, ClaimOK
  <2>3. GatewayOK'
    BY ZenonT(30), <1>0, <2>1 DEF GatewayOK
  <2>4. own => event.signed_by # boot
    BY ZenonT(30), <1>0, <2>1 DEF EventOK
  <2>5. EventOK' /\ ServiceOK' /\ RejectedOnlyIfGone' /\ AcceptedIsAttested'
    BY ZenonT(30), <1>0, <2>1, <2>4
       DEF EventOK, ServiceOK, RejectedOnlyIfGone, AcceptedIsAttested, Stands
  <2> QED
    BY ZenonT(30), <2>2, <2>3, <2>5 DEF CaptureInv
<1>2. CASE Restart \/ Replace
  <2>1. /\ UNCHANGED <<event, own, service, fetched, failed>> /\ gateway' \in {"starting", "other"}
        /\ boot' = boot + 1 /\ claim' = NoClaim
    BY ZenonT(30), <1>2 DEF Restart, Replace
  <2>2. cfg' \in Config /\ receipt' \in Receipt
    <3>1. /\ \A d \in Redeploys : d.cfg \in Config /\ d.receipt \in Receipt
          /\ \A d \in Others : d.receipt \in Receipt
      BY ZenonT(30), DeploymentAssumption
    <3>2. CASE Restart
      BY ZenonT(30), <1>0, <3>1, <3>2 DEF Restart, GatewayOK
    <3>3. CASE Replace
      BY ZenonT(30), <1>0, <3>1, <3>3 DEF Replace, GatewayOK
    <3> QED
      BY ZenonT(30), <1>2, <3>2, <3>3
  <2>3. GatewayOK' /\ ClaimOK'
    BY <1>0, <2>1, <2>2 DEF GatewayOK, ClaimOK
  <2>4. own => event.signed_by \in 0..boot' /\ event.signed_by # boot'
    BY <1>0, <2>1 DEF EventOK, GatewayOK
  <2>5. EventOK' /\ ServiceOK' /\ RejectedOnlyIfGone' /\ AcceptedIsAttested'
    BY ZenonT(30), <1>0, <2>1, <2>4
       DEF EventOK, ServiceOK, RejectedOnlyIfGone, AcceptedIsAttested, Stands
  <2> QED
    BY ZenonT(30), <2>3, <2>5 DEF CaptureInv
<1>3. CASE Emit
  <2> DEFINE m == manifest
  <2>1. /\ UNCHANGED gatewayVars /\ gateway = "serving" /\ own'
        /\ event' = MakeEvent(m, cfg, claim)
        /\ service' = IF event'.assurance = "attested" THEN "manifest" ELSE "accepted"
    BY ZenonT(30), <1>3 DEF Emit, Ingest
  <2>2. /\ event'.capture_method = cfg.capture_method /\ event'.assurance = cfg.assurance
        /\ event'.manifest_hash = m /\ event'.enforcement_mode = cfg.enforcement
        /\ event'.signed_by = m.key
        /\ event'.ra = IF claim.ok THEN <<claim.cvm_receipt_hash, claim.event_signing_key>>
                       ELSE <<>>
    BY ZenonT(30), <2>1 DEF MakeEvent
  <2>3. m.key = boot /\ (cfg.cvm_receipt => m.cvm_receipt_hash = receipt)
    BY ZenonT(30), <1>0, <2>1, ManifestOfGateway
  <2>4. ASSUME cfg.assurance = "attested" PROVE Stands(event')
    <3>1. /\ cfg.cvm_receipt /\ claim.ok
          /\ claim = BuildClaim(m, receipt, cfg.capture_method, cfg.assurance, cfg.enforcement)
      BY ZenonT(30), <1>0, <2>1, <2>4 DEF ClaimOK
    <3>2. claim = BuildClaim(event'.manifest_hash, event'.manifest_hash.cvm_receipt_hash,
                             event'.capture_method, event'.assurance,
                             event'.enforcement_mode)
      BY ZenonT(30), <2>2, <2>3, <3>1
    <3>3. claim = [ok |-> TRUE, capture_method |-> cfg.capture_method,
                   assurance |-> cfg.assurance, enforcement |-> cfg.enforcement,
                   cvm_receipt_hash |-> receipt, manifest_hash |-> m,
                   event_signing_key |-> m.key,
                   chain_depth |-> VerifyChain(receipt, m.labels).chain_depth]
      BY ZenonT(30), <3>1, ClaimMeans
    <3>4. /\ claim.capture_method = cfg.capture_method /\ claim.assurance = cfg.assurance
          /\ claim.manifest_hash = m /\ claim.enforcement = cfg.enforcement
      BY ZenonT(30), <3>3
    <3>5. EventMatchesClaim(event', claim)
      BY ZenonT(30), <2>2, <3>1, <3>4 DEF EventMatchesClaim
    <3> QED
      BY ZenonT(30), <3>1, <3>2, <3>5 DEF Stands
  <2>5. GatewayOK' /\ ClaimOK'
    BY ZenonT(30), <1>0, <2>1 DEF GatewayOK, ClaimOK
  <2>6. boot \in 0..boot
    BY <1>0 DEF GatewayOK
  <2>7. EventOK'
    BY ZenonT(30), <2>1, <2>2, <2>3, <2>4, <2>6 DEF EventOK
  <2>8. ServiceOK' /\ RejectedOnlyIfGone' /\ AcceptedIsAttested'
    BY ZenonT(30), <2>1 DEF ServiceOK, RejectedOnlyIfGone, AcceptedIsAttested
  <2> QED
    BY ZenonT(30), <2>5, <2>7, <2>8 DEF CaptureInv
<1>4. CASE Post
  <2>1. /\ UNCHANGED <<gatewayVars, own, fetched, failed>> /\ service = "idle"
        /\ service' = IF event'.assurance = "attested" THEN "manifest" ELSE "accepted"
    BY ZenonT(30), <1>4 DEF Post, Ingest
  <2>2. ~own /\ ~own'
    BY ZenonT(30), <1>0, <2>1 DEF EventOK
  <2>3. GatewayOK' /\ ClaimOK'
    BY ZenonT(30), <1>0, <2>1 DEF GatewayOK, ClaimOK
  <2>4. EventOK' /\ ServiceOK' /\ RejectedOnlyIfGone' /\ AcceptedIsAttested'
    BY ZenonT(30), <2>1, <2>2 DEF EventOK, ServiceOK, RejectedOnlyIfGone, AcceptedIsAttested
  <2> QED
    BY ZenonT(30), <2>3, <2>4 DEF CaptureInv
<1>5. CASE UNCHANGED <<gatewayVars, event, own>> /\ service' # "idle"
           /\ ServiceOK' /\ RejectedOnlyIfGone' /\ AcceptedIsAttested'
  BY ZenonT(30), <1>0, <1>5
     DEF CaptureInv, GatewayOK, ClaimOK, EventOK, Stands
<1>6. CASE FetchFails
  BY ZenonT(30), <1>5, <1>6
     DEF FetchFails, ServiceOK, RejectedOnlyIfGone, AcceptedIsAttested
<1>7. CASE FetchManifest
  <2>1. /\ UNCHANGED <<gatewayVars, event, own, failed>> /\ service = "manifest"
        /\ fetched' = manifest
        /\ service' = IF event.manifest_hash = fetched' /\ event.signed_by = fetched'.key
                      THEN "receipt" ELSE "rejected"
    BY ZenonT(30), <1>7 DEF FetchManifest
  <2>2. own /\ event.signed_by = boot =>
          event.manifest_hash = fetched' /\ event.signed_by = fetched'.key
    BY ZenonT(30), <1>0, <2>1 DEF EventOK
  <2>3. ServiceOK' /\ RejectedOnlyIfGone' /\ AcceptedIsAttested'
    BY ZenonT(30), <1>0, <2>1, <2>2 DEF ServiceOK, RejectedOnlyIfGone, AcceptedIsAttested
  <2> QED
    BY ZenonT(30), <1>5, <2>1, <2>3
<1>8. CASE FetchReceipt
  <2> DEFINE k == BuildClaim(fetched, receipt, event.capture_method, event.assurance,
                             event.enforcement_mode)
  <2>1. /\ UNCHANGED <<gatewayVars, event, own, fetched, failed>> /\ service = "receipt"
        /\ gateway = "serving" => cfg.cvm_receipt
        /\ service' = IF k.ok /\ EventMatchesClaim(event, k) THEN "accepted" ELSE "rejected"
    BY ZenonT(30), <1>8 DEF FetchReceipt
  <2>2. ASSUME own, event.signed_by = boot PROVE k.ok /\ EventMatchesClaim(event, k)
    <3>1. /\ fetched = event.manifest_hash /\ event.manifest_hash = manifest
          /\ Stands(event) /\ gateway = "serving"
      BY ZenonT(30), <1>0, <2>1, <2>2 DEF EventOK, ServiceOK
    <3>2. manifest.cvm_receipt_hash = receipt
      BY ZenonT(30), <1>0, <2>1, <3>1, ManifestOfGateway
    <3>3. k = BuildClaim(event.manifest_hash, event.manifest_hash.cvm_receipt_hash,
                         event.capture_method, event.assurance, event.enforcement_mode)
      BY ZenonT(30), <3>1, <3>2
    <3> QED
      BY ZenonT(30), <3>1, <3>3 DEF Stands
  <2>3. ServiceOK' /\ RejectedOnlyIfGone'
    BY ZenonT(30), <1>0, <2>1, <2>2 DEF ServiceOK, RejectedOnlyIfGone
  <2>4. AcceptedIsAttested'
    BY ZenonT(30), <1>8, AcceptedStep DEF AcceptedIsAttested
  <2>5. service' # "idle"
    BY ZenonT(30), <2>1
  <2> QED
    BY ZenonT(30), <1>5, <2>1, <2>3, <2>4, <2>5
<1>9. CASE UNCHANGED captureVars
  BY ZenonT(30), <1>0, <1>9
     DEF captureVars, CaptureInv, GatewayOK, ClaimOK, EventOK, Stands, ServiceOK,
         RejectedOnlyIfGone, AcceptedIsAttested
<1> QED
  BY ZenonT(30), <1>1, <1>2, <1>3, <1>4, <1>6, <1>7, <1>8, <1>9 DEF CaptureNext

\* The claim of a gateway and the ones of the event service stand together over
\* every deployment, restart and failed fetch, whatever others post or serve.
THEOREM CaptureCorrect == CaptureSpec => []CaptureInv
<1>1. CaptureInit => CaptureInv
  <2> SUFFICES ASSUME CaptureInit PROVE CaptureInv
    OBVIOUS
  <2>1. GatewayOK
    BY ZenonT(30), DeploymentAssumption DEF CaptureInit, GatewayOK
  <2> QED
    BY ZenonT(30), <2>1
       DEF CaptureInit, CaptureInv, ClaimOK, EventOK, ServiceOK, RejectedOnlyIfGone, AcceptedIsAttested
<1> QED
  BY <1>1, CaptureStep, PTL DEF CaptureSpec

\* An event that a gateway dares to call attested is rejected only if a fetch
\* failed or the gateway was replaced: main and the event service build the same
\* claim from the same manifest and receipt.
THEOREM AttestedEventsPass == CaptureSpec => []RejectedOnlyIfGone
BY CaptureCorrect, PTL DEF CaptureInv

\* Whatever anybody posts or serves, an attested event is accepted only if it is
\* signed with the key of the manifest that was fetched, its evidence names that key
\* and the receipt of that manifest, and each stage of that receipt has a good quote,
\* an accepted platform and the manifest's Value X, although the manifest and the
\* receipt may come from different boots or programs.
THEOREM AcceptedIsGenuine == CaptureSpec => []AcceptedIsAttested
BY CaptureCorrect, PTL DEF CaptureInv

\* The depth a claim reports is the number of stages, and cmd_check accepts the
\* receipt a gateway claims under exactly if it is not longer than its own limit.
THEOREM BothWalksAgree == CaptureSpec => []WalksAgree
<1>1. CaptureInv => WalksAgree
  <2> SUFFICES ASSUME CaptureInv, claim.ok
               PROVE  /\ claim.chain_depth = Len(receipt)
                      /\ Len(receipt) <= MaxDepth + 1
                      /\ CheckChain(receipt) <=> Len(receipt) <= MaxDepth
    BY ZenonT(30) DEF WalksAgree
  <2> DEFINE labels == manifest.labels
  <2>1. claim = BuildClaim(manifest, receipt, cfg.capture_method, cfg.assurance,
                           cfg.enforcement)
    BY DEF CaptureInv, ClaimOK, NoClaim, Err
  <2>2. /\ VerifyChain(receipt, labels).ok
        /\ claim.chain_depth = VerifyChain(receipt, labels).chain_depth
    <3> HIDE DEF labels
    <3>1. /\ VerifyChain(receipt, manifest.labels).ok
          /\ claim = [ok |-> TRUE, capture_method |-> cfg.capture_method,
                   assurance |-> cfg.assurance, enforcement |-> cfg.enforcement,
                   cvm_receipt_hash |-> receipt, manifest_hash |-> manifest,
                   event_signing_key |-> manifest.key,
                   chain_depth |-> VerifyChain(receipt, manifest.labels).chain_depth]
      BY ZenonT(30), <2>1, ClaimMeans
    <3> QED
      BY ZenonT(30), <3>1 DEF labels
  <2>3. receipt \in Receipt
    BY ZenonT(30) DEF CaptureInv, GatewayOK
  <2> HIDE DEF labels
  <2>4. /\ \A i \in 1..Len(receipt) : StageError(receipt[i], receipt[1], labels) = "none"
        /\ VerifyChain(receipt, labels).chain_depth = Len(receipt)
        /\ Len(receipt) <= MaxDepth + 1
    BY ZenonT(30), <2>2, <2>3, ChainVerified
  <2>5. \A i \in 1..Len(receipt) : receipt[i] \in Stage
    BY <2>3 DEF Receipt
  <2>6. \A i \in 1..Len(receipt) :
          StageError(receipt[i], receipt[1], KnownLabels) = "none"
    BY ZenonT(30), <2>4, <2>5, StageKnown
  <2> QED
    BY ZenonT(30), <2>2, <2>3, <2>4, <2>6, ChainChecked
<1> QED
  BY <1>1, CaptureCorrect, PTL
=============================================================================
