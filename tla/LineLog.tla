------------------------------ MODULE LineLog ------------------------------
(***************************************************************************)
(* The line-oriented files (`*.cborl`) in which llm-event-service,         *)
(* llm-capture-daemon and llm-gateway keep contest events.                 *)
(*                                                                         *)
(* A line is the base64 text of one CBOR body, written by                  *)
(* `writeln!(file, "{b64}")` on an unbuffered file opened for append.      *)
(* `write_fmt` issues one write for the argument and one for the "\n", so  *)
(* a file is modelled as the sequence of those writes: a body, or NL.      *)
(* Two bodies with no NL between them share one line.                      *)
(***************************************************************************)
EXTENDS Naturals, Sequences

CONSTANTS
  Body,     \* the CBOR bodies of contest events
  Padded,   \* the bodies whose base64 text ends in "="
  NL        \* the write of a line's "\n"

ASSUME LineLogAssumption == Padded \subseteq Body /\ NL \notin Body

File == Seq(Body \cup {NL})

\* The places where a line begins: the writes a reader sees as an event.
LineStarts(f) == {i \in 1..Len(f) : f[i] # NL /\ (i = 1 \/ f[i-1] = NL)}

\* Some line holds more than one body.
Glued(f) == \E i \in 1..Len(f) : i > 1 /\ f[i] # NL /\ f[i-1] # NL

\* The last write was a body: its line has no end yet.
Unterminated(f) == Len(f) > 0 /\ f[Len(f)] # NL

(***************************************************************************)
(* A glued line is base64 text followed by base64 text.  Padding inside    *)
(* the text is an error, which ends the read of the whole file; without    *)
(* it the bytes decode, and the CBOR reader takes the first body and       *)
(* ignores the bytes after it.                                             *)
(***************************************************************************)
DecodeFails(f) == \E i \in 1..Len(f) : i > 1 /\ f[i] # NL /\ f[i-1] \in Padded

\* The bodies that reached the file, whatever lines they are on.
Written(f) == {f[i] : i \in {j \in 1..Len(f) : f[j] # NL}}

\* The line that begins at i, without its end.
LineAt(f, i) ==
  LET last == CHOOSE k \in i..Len(f) :
                /\ \A j \in i..k : f[j] # NL
                /\ k = Len(f) \/ f[k+1] = NL
  IN  SubSeq(f, i, last)

\* A line whose base64 text does not decode.
Undecodable(l) == \E i \in 1..Len(l) : i < Len(l) /\ l[i] \in Padded
=============================================================================
