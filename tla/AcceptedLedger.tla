--------------------------- MODULE AcceptedLedger ---------------------------
(***************************************************************************)
(* What the event service promises the senders of captured events, with no *)
(* mention of locks, files or restarts: an entry is acknowledged only once *)
(* it is stored, what is stored stays stored, and an entry is announced as *)
(* new (`duplicate: false`) at most once.                                  *)
(***************************************************************************)
EXTENDS Naturals

CONSTANT Entry

VARIABLES
  stored,     \* the entries of the ledger
  accepted,   \* the entries some sender had acknowledged
  announced   \* how often an entry was acknowledged as new

lvars == <<stored, accepted, announced>>

Init ==
  /\ stored = {} /\ accepted = {}
  /\ announced = [x \in Entry |-> 0]

Store(x) ==
  /\ stored' = stored \cup {x}
  /\ UNCHANGED <<accepted, announced>>

AcceptNew(x) ==
  /\ x \in stored /\ announced[x] = 0
  /\ accepted' = accepted \cup {x}
  /\ announced' = [announced EXCEPT ![x] = 1]
  /\ UNCHANGED stored

AcceptRepeat(x) ==
  /\ x \in stored
  /\ accepted' = accepted \cup {x}
  /\ UNCHANGED <<stored, announced>>

Next == \E x \in Entry : Store(x) \/ AcceptNew(x) \/ AcceptRepeat(x)

Spec == Init /\ [][Next]_lvars
=============================================================================
