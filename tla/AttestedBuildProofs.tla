------------------------- MODULE AttestedBuildProofs -------------------------
(***************************************************************************)
(* Proofs about builds and runs: the invariants of AttestedBuild for any   *)
(* number of builds, runs, files, edits, kills and failed writes.          *)
(***************************************************************************)
EXTENDS AttestedBuild, TLAPS

Local == {"kind", "todo", "seen", "ct", "made", "eat", "seq", "open"}

InOut        == {"sequence", "json", "cbor", "artifact", "entry", "add", "commit"}
Quotes       == InOut \cup {"results", "serving"}  \* a build has its quote
BuilderPlace == {"new", "hash", "copy", "command", "ratchet", "ended"} \cup Quotes
RunnerPlace  == {"new", "scan", "attest", "stage1", "serving", "ended"}

TypeOK ==
  /\ src \in Tree
  /\ DOMAIN out = {"sequence", "json", "cbor", "artifact", "stage1"}
  /\ DOMAIN entry = Tree /\ DOMAIN index = Tree
  /\ DOMAIN pc = Process
  /\ \A b \in Builder : pc[b] \in BuilderPlace
  /\ \A r \in Runner : pc[r] \in RunnerPlace
  /\ DOMAIN loc = Process
  /\ \A p \in Process : /\ DOMAIN loc[p] = Local
                        /\ loc[p].todo \in SUBSET File /\ loc[p].seen \in Tree
                        /\ pc[p] \in {"hash", "copy", "scan"} \/ loc[p].todo = {}

\* A token whose claims are of the tree that a steady command compiled ...
Built(e) ==
  /\ e.value_x = e.source_hash
  /\ e.artifact_hash.steady => e.artifact_hash.given = e.source_hash

\* ... and that any command was given.
Pinned(e) == Built(e) /\ e.artifact_hash.given = e.source_hash

FilesBuilt ==
  /\ Readable(out.cbor) => Pinned(out.cbor)
  /\ Readable(out.json) => Pinned(out.json.eat)
  /\ \A a \in written : Pinned(a.eat)

\* A build has compared its copy with CT before its command, an enclave has not.
BuiltOK ==
  /\ \A b \in Builder :
       /\ pc[b] = "command" /\ loc[b].kind # "enclave" => loc[b].seen = loc[b].ct
       /\ pc[b] = "ratchet" =>
            /\ loc[b].made.steady => loc[b].made.given = loc[b].seen
            /\ loc[b].kind # "enclave" => loc[b].made.given = loc[b].ct
       /\ pc[b] \in Quotes => Built(loc[b].eat)
       /\ pc[b] \in Quotes \ {"serving"} => Pinned(loc[b].eat)
  /\ \A r \in Runner : /\ pc[r] \in {"scan", "attest", "stage1", "serving"} => Pinned(loc[r].eat)
                       /\ pc[r] = "attest" => loc[r].seen = loc[r].eat.value_x
  /\ FilesBuilt

\* An enclave serves its own quote, and a run the chain it quoted; a run that was
\* not overtaken by an edit has seen the directory as it is.
ServedOK ==
  /\ \A b \in Builder : pc[b] = "serving" => loc[b].eat.previous = None /\ CheckAccepts(loc[b].eat, b)
  /\ \A r \in Runner :
       /\ pc[r] \in {"scan", "attest"} /\ loc[r].kind # "sync" => QuoteVerifies(loc[r].eat)
       /\ pc[r] \in {"stage1", "serving"} /\ loc[r].kind # "sync" => CheckAccepts(loc[r].eat, r)
  /\ \A r \in Runner \ moved :
       /\ pc[r] = "scan" => \A f \in File \ loc[r].todo : loc[r].seen[f] = src[f]
       /\ pc[r] \in {"attest", "stage1", "serving"} => loc[r].seen = src /\ loc[r].eat.value_x = src

\* As long as no two builds wrote at the same time, one at most is writing.
OneWriter ==
  ~overlapped => \A b, c \in Builder : InOutput(b) /\ InOutput(c) => b = c

\* The sequence number on the disk, and that of a build that has not written its
\* attestation yet, are beyond those of all attestations.
SequenceOK ==
  ~overlapped /\ ~seqLost =>
    /\ \A a \in written : a.sequence_number \in Nat
    /\ \A a, c \in written : a.sequence_number = c.sequence_number => a = c
    /\ \A b \in Builder : pc[b] \in {"sequence", "json"} =>
         /\ loc[b].seq \in Nat
         /\ \A a \in written : a.sequence_number < loc[b].seq
         /\ pc[b] = "json" => out.sequence = loc[b].seq
    /\ \/ \E b \in Builder : pc[b] = "sequence" /\ loc[b].open
       \/ out.sequence = None /\ written = {}
       \/ out.sequence \in Nat /\ \A a \in written : a.sequence_number <= out.sequence

\* What is copied to the log and staged is the attestation of the build that does it.
LogOK ==
  ~overlapped =>
    /\ \A b \in Builder :
         /\ pc[b] \in {"cbor", "artifact", "entry", "add", "commit"} =>
              out.json = Attestation(b) /\ Attestation(b) \in written
         /\ pc[b] = "add" => entry[loc[b].eat.value_x] = Attestation(b)
    /\ \A x \in Tree : index[x] # None => index[x] \in written /\ index[x].eat.value_x = x
    /\ LogEntryIsOwn

Match ==
  out.json # None =>
    /\ out.cbor = out.json.eat
    /\ out.json.eat.artifact_hash.file => out.artifact = out.json.eat.artifact_hash

\* The files of the output directory are of one build until the next one opens
\* attestation.json, and again when it has come to the log.
FilesOK ==
  ~overlapped /\ ~halfway =>
    /\ (\A b \in Builder : ~InOutput(b)) => Match
    /\ \A b \in Builder :
         /\ pc[b] = "sequence" \/ (pc[b] = "json" /\ ~loc[b].open) => Match
         /\ pc[b] \in {"artifact", "entry", "add", "commit"} => out.cbor = loc[b].eat
         /\ pc[b] \in {"entry", "add", "commit"} =>
              (loc[b].eat.artifact_hash.file => out.artifact = loc[b].eat.artifact_hash)

\* The token of a build names what its command made.
MadeOK ==
  \A b \in Builder : pc[b] \in Quotes =>
    loc[b].eat.artifact_hash = loc[b].made /\ loc[b].eat.value_x \in Tree
-----------------------------------------------------------------------------
\* The order of a build's writes, file by file.
LEMMA AfterIs ==
  ASSUME NEW p
  PROVE  /\ After(p, "sequence") = "json"
         /\ After(p, "json") = "cbor"
         /\ After(p, "cbor") = IF loc[p].made.file THEN "artifact" ELSE "entry"
         /\ After(p, "artifact") = "entry"
         /\ After(p, "entry") = "add"
         /\ After(p, "stage1") = "serving"
<1>1. DOMAIN WriteOrder = 1..5
  BY DEF WriteOrder
<1>2. /\ WriteOrder[1] = "sequence" /\ WriteOrder[2] = "json" /\ WriteOrder[3] = "cbor"
      /\ WriteOrder[4] = "artifact" /\ WriteOrder[5] = "entry"
  BY DEF WriteOrder
<1>3. After(p, "entry") = "add" /\ After(p, "stage1") = "serving"
  BY DEF After
<1>4. Position("sequence") = 1 /\ Position("json") = 2
  BY <1>1, <1>2 DEF Position
<1>5. Position("cbor") = 3 /\ Position("artifact") = 4
  BY <1>1, <1>2 DEF Position
<1>6. After(p, "sequence") = "json" /\ After(p, "json") = "cbor"
  BY <1>2, <1>4 DEF After
<1>7. After(p, "cbor") = IF loc[p].made.file THEN "artifact" ELSE "entry"
  BY <1>2, <1>5 DEF After
<1>8. After(p, "artifact") = "entry"
  BY <1>2, <1>5 DEF After
<1> QED
  BY <1>3, <1>6, <1>7, <1>8

\* What a step of one process leaves of the others.
Others(p) ==
  /\ DOMAIN pc' = Process /\ DOMAIN loc' = Process
  /\ \A q \in Process \ {p} : pc'[q] = pc[q] /\ loc'[q] = loc[q]

\* A process that ends forgets its locals, and the others stay.
LEMMA EndsEffect ==
  ASSUME TypeOK, NEW p \in Process, Ends(p)
  PROVE  Others(p) /\ pc'[p] = "ended" /\ loc'[p] = NoLocals
BY DEF TypeOK, Ends, Goto, Others

\* A write touches one file: of the output directory, or of the log.
LEMMA PutEffect ==
  ASSUME TypeOK, NEW p, NEW f \in OutFile, NEW content, Put(p, f, content)
  PROVE  /\ DOMAIN out' = DOMAIN out /\ DOMAIN entry' = Tree
         /\ out'.sequence = IF f = "sequence" THEN content ELSE out.sequence
         /\ out'.json = IF f = "json" THEN content ELSE out.json
         /\ out'.cbor = IF f = "cbor" THEN content ELSE out.cbor
         /\ out'.artifact = IF f = "artifact" THEN content ELSE out.artifact
         /\ f # "entry" => entry' = entry
         /\ f = "entry" /\ loc[p].eat.value_x \in Tree =>
              entry'[loc[p].eat.value_x] = content
BY DEF TypeOK, Put, OutFile

\* A builder writes five files, a run one.
LEMMA FilesOf ==
  ASSUME TypeOK, NEW p \in Process, pc[p] \in OutFile
  PROVE  /\ p \in Builder => pc[p] \in {"sequence", "json", "cbor", "artifact", "entry"}
         /\ p \in Runner => pc[p] = "stage1"
BY DEF TypeOK, OutFile, Process, BuilderPlace, Quotes, InOut, RunnerPlace

\* Truncating or filling a file changes only one local variable.
LEMMA OpenEffect ==
  ASSUME TypeOK, NEW p \in Process, NEW o, loc' = [loc EXCEPT ![p].open = o]
  PROVE  /\ DOMAIN loc' = Process /\ DOMAIN loc'[p] = Local
         /\ \A q \in Process \ {p} : loc'[q] = loc[q]
         /\ loc'[p].kind = loc[p].kind /\ loc'[p].todo = loc[p].todo
         /\ loc'[p].seen = loc[p].seen /\ loc'[p].made = loc[p].made
         /\ loc'[p].eat = loc[p].eat /\ loc'[p].seq = loc[p].seq /\ loc'[p].open = o
BY DEF TypeOK, Local

\* Only the process that moves changes its place.
LEMMA GotoEffect ==
  ASSUME TypeOK, NEW p \in Process, NEW l, Goto(p, l)
  PROVE  DOMAIN pc' = Process /\ pc'[p] = l /\ \A q \in Process \ {p} : pc'[q] = pc[q]
BY DEF TypeOK, Goto

\* Reading a file extends the tree that was seen.
LEMMA SeenEffect ==
  ASSUME TypeOK, NEW p \in Process, NEW f \in File
  PROVE  /\ Seen(p, f) \in Tree
         /\ Seen(p, f)[f] = src[f]
         /\ \A g \in File \ {f} : Seen(p, f)[g] = loc[p].seen[g]
BY DEF TypeOK, Seen, Tree

\* Builds and runs are different processes.
LEMMA Apart ==
  Builder \subseteq Process /\ Runner \subseteq Process /\ Builder \cap Runner = {}
BY AttestedBuildAssumption DEF Process

\* Every process ends in a state of the right type.
LEMMA EndsType ==
  ASSUME TypeOK, NEW p \in Process, Ends(p), src' = src,
         DOMAIN out' = DOMAIN out, entry' = entry, DOMAIN index' = Tree
  PROVE  TypeOK'
<1>1. Others(p) /\ pc'[p] = "ended" /\ loc'[p] = NoLocals
  BY EndsEffect
<1>2. DOMAIN NoLocals = Local /\ NoLocals.todo = {} /\ NoLocals.seen \in Tree
  BY DEF NoLocals, Local, Tree
<1> QED
  BY <1>1, <1>2, Apart DEF TypeOK, Others, BuilderPlace, RunnerPlace

\* A process goes somewhere and keeps what the type is about.
LEMMA MoveType ==
  ASSUME TypeOK, NEW p \in Process, src' = src, DOMAIN out' = DOMAIN out,
         DOMAIN entry' = Tree, DOMAIN index' = Tree, Others(p),
         p \in Builder => pc'[p] \in BuilderPlace,
         p \in Runner => pc'[p] \in RunnerPlace,
         DOMAIN loc'[p] = Local, loc'[p].todo \in SUBSET File, loc'[p].seen \in Tree,
         pc'[p] \in {"hash", "copy", "scan"} \/ loc'[p].todo = {}
  PROVE  TypeOK'
BY Apart DEF TypeOK, Others

\* A file is written, and the process goes on.
LEMMA WrittenEffect ==
  ASSUME TypeOK, NEW p \in Process, loc' = [loc EXCEPT ![p].open = FALSE],
         Goto(p, After(p, pc[p]))
  PROVE  /\ Others(p) /\ pc'[p] = After(p, pc[p])
         /\ DOMAIN loc'[p] = Local /\ loc'[p].todo = loc[p].todo
         /\ loc'[p].kind = loc[p].kind /\ loc'[p].seen = loc[p].seen
         /\ loc'[p].eat = loc[p].eat /\ loc'[p].made = loc[p].made
         /\ loc'[p].seq = loc[p].seq /\ loc'[p].open = FALSE
<1>1. DOMAIN pc' = Process /\ pc'[p] = After(p, pc[p]) /\ \A q \in Process \ {p} : pc'[q] = pc[q]
  BY GotoEffect
<1>2. /\ DOMAIN loc' = Process /\ \A q \in Process \ {p} : loc'[q] = loc[q]
      /\ DOMAIN loc'[p] = Local /\ loc'[p].todo = loc[p].todo
      /\ loc'[p].kind = loc[p].kind /\ loc'[p].seen = loc[p].seen
      /\ loc'[p].eat = loc[p].eat /\ loc'[p].made = loc[p].made
      /\ loc'[p].seq = loc[p].seq /\ loc'[p].open = FALSE
  BY ZenonT(30), OpenEffect
<1> QED
  BY <1>1, <1>2 DEF Others

\* Types: the two writes of a file, and a write that fails.
LEMMA TypeStepFiles ==
  ASSUME TypeOK, NEW p \in Process, OpenFile(p) \/ FillFile(p) \/ WriteFails(p)
  PROVE  TypeOK'
<1>1. CASE OpenFile(p)
  <2>1. DOMAIN out' = DOMAIN out /\ DOMAIN entry' = Tree
    BY ZenonT(30), <1>1, PutEffect DEF OpenFile
  <2>2. Others(p) /\ DOMAIN loc'[p] = Local /\ loc'[p].todo = loc[p].todo /\ loc'[p].seen = loc[p].seen
    BY <1>1, OpenEffect DEF OpenFile, Others, TypeOK
  <2> QED
    BY <1>1, <2>1, <2>2, MoveType DEF OpenFile, TypeOK, OutFile
<1>2. ASSUME pc[p] \in OutFile, Goto(p, After(p, pc[p]))
      PROVE  /\ p \in Builder => pc'[p] \in BuilderPlace
             /\ p \in Runner => pc'[p] \in RunnerPlace
             /\ loc[p].todo = {}
  <2>1. pc'[p] = After(p, pc[p])
    BY <1>2, GotoEffect
  <2> QED
    BY <1>2, <2>1, FilesOf, AfterIs DEF BuilderPlace, Quotes, InOut, RunnerPlace, TypeOK, OutFile
<1>3. CASE FillFile(p)
  <2>1. DOMAIN out' = DOMAIN out /\ DOMAIN entry' = Tree
    BY <1>3, PutEffect DEF FillFile
  <2>2. Others(p) /\ DOMAIN loc'[p] = Local /\ loc'[p].todo = loc[p].todo /\ loc'[p].seen = loc[p].seen
    BY ZenonT(30), <1>3, WrittenEffect DEF FillFile
  <2> QED
    BY <1>2, <1>3, <2>1, <2>2, MoveType DEF FillFile, TypeOK
<1>4. CASE WriteFails(p)
  <2>1. CASE Goto(p, After(p, pc[p])) /\ loc' = [loc EXCEPT ![p].open = FALSE]
    <3>1. Others(p) /\ DOMAIN loc'[p] = Local /\ loc'[p].todo = loc[p].todo /\ loc'[p].seen = loc[p].seen
      BY ZenonT(30), <2>1, WrittenEffect
    <3> QED
      BY <1>2, <1>4, <2>1, <3>1, MoveType DEF WriteFails, TypeOK, disk
  <2>2. CASE Ends(p)
    BY <1>4, <2>2, EndsType DEF WriteFails, TypeOK, disk
  <2> QED
    BY <1>4, <2>1, <2>2 DEF WriteFails
<1> QED
  BY <1>1, <1>3, <1>4

\* What the command was given is the copy before it, and after it too if it was steady.
LEMMA CommandEffect ==
  ASSUME TypeOK, NEW b \in Builder, Command(b)
  PROVE  /\ Others(b) /\ pc'[b] = "ratchet" /\ DOMAIN loc'[b] = Local
         /\ loc'[b].todo = loc[b].todo /\ loc'[b].seen \in Tree
         /\ loc'[b].ct = loc[b].ct /\ loc'[b].kind = loc[b].kind
         /\ loc'[b].made.given = loc[b].seen
         /\ loc'[b].made.steady => loc'[b].made.given = loc'[b].seen
<1>1. b \in Process
  BY Apart
<1>2. DOMAIN loc = Process /\ DOMAIN loc[b] = Local
  BY <1>1 DEF TypeOK
<1>3. PICK t \in Tree, steady \in BOOLEAN : \E made \in Artifacts(b, steady) :
        /\ steady => t = loc[b].seen
        /\ loc' = [loc EXCEPT ![b].seen = t, ![b].made = made]
  BY ZenonT(30) DEF Command
<1>4. PICK made \in Artifacts(b, steady) :
        /\ steady => t = loc[b].seen
        /\ loc' = [loc EXCEPT ![b].seen = t, ![b].made = made]
  BY ZenonT(30), <1>3
<1>5. made.given = loc[b].seen /\ made.steady = steady
  BY DEF Artifacts
<1>6. /\ DOMAIN loc' = Process /\ DOMAIN loc'[b] = Local
      /\ \A q \in Process \ {b} : loc'[q] = loc[q]
      /\ loc'[b].todo = loc[b].todo /\ loc'[b].seen = t /\ loc'[b].made = made
      /\ loc'[b].ct = loc[b].ct /\ loc'[b].kind = loc[b].kind
  BY <1>1, <1>2, <1>4 DEF Local
<1>7. DOMAIN pc' = Process /\ pc'[b] = "ratchet" /\ \A q \in Process \ {b} : pc'[q] = pc[q]
  BY <1>1, GotoEffect DEF Command
<1> QED
  BY <1>4, <1>5, <1>6, <1>7 DEF Others

\* Types: the steps of a build outside its files.
LEMMA TypeStepBuild ==
  ASSUME TypeOK, NEW b \in Builder,
         \/ StartBuild(b) \/ Command(b) \/ Ratchet(b) \/ ReadSequence(b)
         \/ NotLogged(b) \/ Add(b) \/ Commit(b)
         \/ \E f \in File : Hashed(b, f) \/ Copied(b, f)
  PROVE  TypeOK'
<1>1. b \in Process /\ b \notin Runner
  BY Apart
<1>2. /\ src \in Tree /\ DOMAIN entry = Tree /\ DOMAIN index = Tree /\ DOMAIN loc = Process
      /\ DOMAIN loc[b] = Local /\ loc[b].todo \in SUBSET File /\ loc[b].seen \in Tree
      /\ pc[b] \in {"hash", "copy", "scan"} \/ loc[b].todo = {}
  BY <1>1 DEF TypeOK
<1>3. CASE StartBuild(b)
  BY <1>1, <1>2, <1>3, MoveType, GotoEffect DEF StartBuild, Others, BuilderPlace, Local, disk
<1>4. CASE Command(b)
  BY ZenonT(30), <1>1, <1>2, <1>4, MoveType, CommandEffect DEF Command, BuilderPlace, disk
<1>5. CASE Ratchet(b)
  <2>1. CASE Ends(b)
    BY <1>1, <1>2, <1>5, <2>1, EndsType DEF Ratchet, disk
  <2>2. CASE \E a, e : /\ loc' = [loc EXCEPT ![b] = [NoLocals EXCEPT !.kind = loc[b].kind,
                                                       !.made = a, !.eat = e]]
                       /\ Goto(b, "serving") \/ Goto(b, "results")
    <3>1. DOMAIN loc'[b] = Local /\ loc'[b].todo = {} /\ loc'[b].seen \in Tree
      BY <1>1, <1>2, <2>2 DEF NoLocals, Local, Tree
    <3>2. Others(b) /\ pc'[b] \in BuilderPlace
      BY <1>1, <1>2, <2>2, GotoEffect DEF Others, BuilderPlace, Quotes
    <3> QED
      BY <1>1, <1>2, <1>5, <3>1, <3>2, MoveType DEF Ratchet, disk
  <2> QED
    BY ZenonT(30), <1>5, <2>1, <2>2 DEF Ratchet
<1>6. CASE ReadSequence(b)
  <2>1. WriteOrder[1] \in BuilderPlace
    BY DEF WriteOrder, BuilderPlace, Quotes, InOut
  <2> QED
    BY <1>1, <1>2, <1>6, <2>1, MoveType, GotoEffect DEF ReadSequence, Others, Local, disk
<1>7. CASE NotLogged(b)
  BY <1>1, <1>2, <1>7, EndsType DEF NotLogged, disk
<1>8. CASE Add(b)
  BY <1>1, <1>2, <1>8, MoveType, GotoEffect DEF Add, Others, BuilderPlace, Quotes, InOut
<1>9. CASE Commit(b)
  BY ZenonT(30), <1>1, <1>2, <1>9, EndsType DEF Commit
<1>10. ASSUME NEW f \in File, Hashed(b, f) PROVE TypeOK'
  <2>1. Others(b) /\ pc'[b] = "copy"
    BY ZenonT(30), <1>1, <1>10, GotoEffect DEF Hashed, Others, TypeOK
  <2>2. DOMAIN loc'[b] = Local /\ loc'[b].todo = File /\ loc'[b].seen = loc[b].seen
    BY ZenonT(30), <1>1, <1>2, <1>10 DEF Hashed, Local
  <2> QED
    BY ZenonT(30), <1>1, <1>2, <1>10, <2>1, <2>2, MoveType DEF Hashed, BuilderPlace, disk
<1>11. ASSUME NEW f \in File, Copied(b, f) PROVE TypeOK'
  <2>1. CASE Ends(b)
    BY <1>1, <1>2, <1>11, <2>1, EndsType DEF Copied, disk
  <2>2. CASE /\ Goto(b, "command")
             /\ loc' = [loc EXCEPT ![b].todo = {}, ![b].seen = Seen(b, f)]
    <3>1. Seen(b, f) \in Tree
      BY <1>1, SeenEffect
    <3>2. Others(b) /\ pc'[b] = "command"
      BY <1>1, <2>2, GotoEffect DEF Others, TypeOK
    <3>3. DOMAIN loc'[b] = Local /\ loc'[b].todo = {} /\ loc'[b].seen = Seen(b, f)
      BY <1>1, <1>2, <2>2 DEF Local
    <3> QED
      BY <1>1, <1>2, <1>11, <3>1, <3>2, <3>3, MoveType DEF Copied, BuilderPlace, disk
  <2> QED
    BY <1>11, <2>1, <2>2 DEF Copied
<1> QED
  BY <1>3, <1>4, <1>5, <1>6, <1>7, <1>8, <1>9, <1>10, <1>11

\* Types, over every step.
LEMMA TypeStep ==
  ASSUME TypeOK, [Next]_vars
  PROVE  TypeOK'
<1>1. CASE UNCHANGED vars
  BY <1>1 DEF TypeOK, vars, disk
<1>2. ASSUME NEW f \in File, Edit(f) PROVE TypeOK'
  <2>1. src' \in Tree
    BY <1>2 DEF Edit, TypeOK, Tree
  <2> QED
    BY <1>2, <2>1 DEF Edit, TypeOK, disk
<1>3. ASSUME NEW p \in Process, Stop(p) PROVE TypeOK'
  BY <1>3, EndsType DEF Stop, TypeOK, disk
<1>4. ASSUME NEW p \in Process, NEW f \in File, ReadFile(p, f) PROVE TypeOK'
  <2>1. Seen(p, f) \in Tree
    BY <1>4, SeenEffect
  <2>2. /\ DOMAIN loc' = Process /\ DOMAIN loc'[p] = Local
        /\ \A q \in Process \ {p} : loc'[q] = loc[q]
        /\ loc'[p].todo = loc[p].todo \ {f} /\ loc'[p].seen = Seen(p, f)
    BY <1>4 DEF ReadFile, TypeOK, Local
  <2> QED
    BY <1>4, <2>1, <2>2 DEF ReadFile, TypeOK, disk
<1>5. ASSUME NEW r \in Runner, StartRun(r) PROVE TypeOK'
  BY <1>5, Apart, GotoEffect, MoveType DEF StartRun, TypeOK, disk, Others, RunnerPlace, Local
<1>6. ASSUME NEW r \in Runner, Attest(r) PROVE TypeOK'
  BY <1>6, Apart, GotoEffect, MoveType DEF Attest, TypeOK, disk, Others, RunnerPlace, Local
<1>7. ASSUME NEW r \in Runner, NEW f \in File, Scanned(r, f) PROVE TypeOK'
  <2>1. Seen(r, f) \in Tree /\ r \in Process
    BY <1>7, SeenEffect, Apart
  <2>2. CASE Ends(r)
    BY <1>7, <2>1, <2>2, EndsType DEF Scanned, TypeOK, disk
  <2>3. CASE /\ Goto(r, "serving") \/ Goto(r, "attest")
             /\ loc' = [loc EXCEPT ![r].todo = {}, ![r].seen = Seen(r, f)]
    BY <1>7, <2>1, <2>3, Apart, GotoEffect, MoveType
    DEF Scanned, TypeOK, disk, Others, RunnerPlace, Local
  <2> QED
    BY <1>7, <2>2, <2>3 DEF Scanned
<1> QED
  BY <1>1, <1>2, <1>3, <1>4, <1>5, <1>6, <1>7, TypeStepFiles, TypeStepBuild DEF Next
-----------------------------------------------------------------------------
\* The quote of a build is over the claims of the tree its command was given.
LEMMA RatchetEffect ==
  ASSUME TypeOK, BuiltOK, NEW b \in Builder, Ratchet(b), ~Ends(b)
  PROVE  /\ Others(b) /\ pc'[b] \in {"serving", "results"}
         /\ Built(loc'[b].eat) /\ QuoteVerifies(loc'[b].eat) /\ loc'[b].eat.previous = None
         /\ loc'[b].eat.artifact_hash = loc'[b].made /\ loc'[b].eat.value_x \in Tree
         /\ pc'[b] = "serving" => loc'[b].eat.tls_spki_hash = b
         /\ pc'[b] = "results" => Pinned(loc'[b].eat)
         /\ ~loc'[b].open
<1>1. b \in Process /\ DOMAIN loc = Process /\ loc[b].seen \in Tree
  BY Apart DEF TypeOK
<1> DEFINE enclave == loc[b].kind = "enclave"
           e(a) == [FromBuild(loc[b].seen, loc[b].ct, a)
                      EXCEPT !.tls_spki_hash = IF enclave THEN b ELSE @]
<1>2. PICK a \in Hashes(loc[b]) :
        /\ loc[b].seen = loc[b].ct
        /\ loc' = [loc EXCEPT ![b] = [NoLocals EXCEPT !.kind = loc[b].kind, !.made = a,
                                                      !.eat = Quoted(e(a), b)]]
        /\ Goto(b, IF enclave THEN "serving" ELSE "results")
  BY DEF Ratchet, RatchetHolds
<1>3. /\ loc'[b].eat = Quoted(e(a), b) /\ loc'[b].made = a /\ loc'[b].open = FALSE
      /\ DOMAIN loc' = Process /\ \A q \in Process \ {b} : loc'[q] = loc[q]
  BY <1>1, <1>2 DEF NoLocals
<1>4. Others(b) /\ pc'[b] = IF enclave THEN "serving" ELSE "results"
  BY <1>1, <1>2, <1>3, GotoEffect DEF Others
<1>5. /\ e(a).value_x = loc[b].seen /\ e(a).source_hash = loc[b].ct /\ e(a).artifact_hash = a
      /\ e(a).previous = None /\ e(a).tls_spki_hash = IF enclave THEN b ELSE None
      /\ Quoted(e(a), b).value_x = e(a).value_x
      /\ Quoted(e(a), b).source_hash = e(a).source_hash
      /\ Quoted(e(a), b).artifact_hash = e(a).artifact_hash
      /\ Quoted(e(a), b).previous = e(a).previous
      /\ Quoted(e(a), b).tls_spki_hash = e(a).tls_spki_hash
      /\ Quoted(e(a), b).quote.report_data = Binding(e(a))
  BY DEF FromBuild, Quoted
<1>6. /\ a.steady => a.given = loc[b].seen
      /\ ~enclave => a.given = loc[b].ct
  <2>1. /\ loc[b].made.steady => loc[b].made.given = loc[b].seen
        /\ ~enclave => loc[b].made.given = loc[b].ct
    BY ZenonT(30) DEF BuiltOK, Ratchet
  <2>2. a = loc[b].made \/ (enclave /\ a = NoArtifact)
    BY DEF Hashes
  <2> QED
    BY <2>1, <2>2 DEF NoArtifact
<1> HIDE DEF enclave, e
<1>7. QuoteVerifies(Quoted(e(a), b))
  BY <1>5 DEF QuoteVerifies, Binding
<1> QED
  BY <1>1, <1>2, <1>3, <1>4, <1>5, <1>6, <1>7 DEF Built, Pinned

\* What BuiltOK says of one process, and of the files.
BuilderOK(b) ==
  /\ pc[b] = "command" /\ loc[b].kind # "enclave" => loc[b].seen = loc[b].ct
  /\ pc[b] = "ratchet" =>
       /\ loc[b].made.steady => loc[b].made.given = loc[b].seen
       /\ loc[b].kind # "enclave" => loc[b].made.given = loc[b].ct
  /\ pc[b] \in Quotes => /\ Built(loc[b].eat) /\ loc[b].eat.artifact_hash = loc[b].made
                         /\ loc[b].eat.value_x \in Tree
  /\ pc[b] \in Quotes \ {"serving"} => Pinned(loc[b].eat)
RunnerOK(r) ==
  /\ pc[r] \in {"scan", "attest", "stage1", "serving"} => Pinned(loc[r].eat)
  /\ pc[r] = "attest" => loc[r].seen = loc[r].eat.value_x

\* BuiltOK when one process takes a step.
LEMMA BuiltFrame ==
  ASSUME BuiltOK, MadeOK, NEW p \in Process, Others(p), FilesBuilt',
         p \in Builder => BuilderOK(p)', p \in Runner => RunnerOK(p)'
  PROVE  BuiltOK' /\ MadeOK'
<1>1. ASSUME NEW b \in Builder PROVE BuilderOK(b)'
  <2>1. BuilderOK(b)
    BY ZenonT(30) DEF BuiltOK, MadeOK, BuilderOK
  <2>2. CASE b # p
    <3>1. pc'[b] = pc[b] /\ loc'[b] = loc[b]
      BY <2>2, Apart DEF Others
    <3> QED
      BY <2>1, <3>1 DEF BuilderOK, Built, Pinned
  <2> QED
    BY <2>2
<1>2. ASSUME NEW r \in Runner PROVE RunnerOK(r)'
  <2>1. RunnerOK(r)
    BY ZenonT(30) DEF BuiltOK, RunnerOK
  <2>2. CASE r # p
    <3>1. pc'[r] = pc[r] /\ loc'[r] = loc[r]
      BY <2>2, Apart DEF Others
    <3> QED
      BY <2>1, <3>1 DEF RunnerOK, Built, Pinned
  <2> QED
    BY <2>2
<1> QED
  BY ZenonT(30), <1>1, <1>2 DEF BuiltOK, MadeOK, BuilderOK, RunnerOK

\* The files are as good as they were.
LEMMA SameFiles ==
  ASSUME BuiltOK, out' = out, written' = written
  PROVE  FilesBuilt'
BY DEF BuiltOK, FilesBuilt, Built, Pinned, Readable

\* BuiltOK when a process ends.
LEMMA BuiltStepEnds ==
  ASSUME TypeOK, BuiltOK, MadeOK, NEW p \in Process, Ends(p),
         out' = out, written' = written
  PROVE  BuiltOK' /\ MadeOK'
<1>1. Others(p) /\ pc'[p] = "ended"
  BY EndsEffect
<1> QED
  BY ZenonT(30), <1>1, SameFiles, BuiltFrame DEF BuilderOK, RunnerOK, Quotes, InOut

\* BuiltOK over the steps of a build outside its files.
LEMMA BuiltStepBuild ==
  ASSUME TypeOK, BuiltOK, MadeOK, NEW b \in Builder,
         \/ StartBuild(b) \/ Command(b) \/ Ratchet(b) \/ ReadSequence(b)
         \/ NotLogged(b) \/ Add(b) \/ Commit(b)
         \/ \E f \in File : Hashed(b, f) \/ Copied(b, f)
  PROVE  BuiltOK' /\ MadeOK'
<1>1. b \in Process /\ b \notin Runner
  BY Apart
<1>2. DOMAIN loc = Process /\ DOMAIN loc[b] = Local /\ BuilderOK(b)
  BY ZenonT(30), <1>1 DEF TypeOK, BuiltOK, MadeOK, BuilderOK
<1>3. ASSUME Others(b), BuilderOK(b)', out' = out, written' = written PROVE BuiltOK' /\ MadeOK'
  BY ZenonT(30), <1>1, <1>3, SameFiles, BuiltFrame
<1>4. CASE StartBuild(b)
  BY <1>1, <1>3, <1>4, GotoEffect DEF StartBuild, BuilderOK, Others, Quotes, InOut, disk, ghosts, TypeOK
<1>5. CASE Command(b)
  <2>1. BuilderOK(b)'
    BY <1>2, <1>5, CommandEffect DEF Command, BuilderOK, Quotes, InOut
  <2> QED
    BY ZenonT(30), <1>3, <1>5, <2>1, CommandEffect DEF Command, disk, ghosts
<1>6. CASE Ratchet(b)
  <2>1. CASE Ends(b)
    BY <1>1, <1>6, <2>1, BuiltStepEnds DEF Ratchet, disk
  <2>2. CASE ~Ends(b)
    <3>1. BuilderOK(b)'
      BY ZenonT(30), <1>2, <1>6, <2>2, RatchetEffect DEF BuilderOK, Ratchet, Built, Pinned
    <3> QED
      BY ZenonT(30), <1>2, <1>3, <1>6, <2>2, <3>1, RatchetEffect DEF Ratchet, disk, BuilderOK
  <2> QED
    BY <2>1, <2>2
<1>7. CASE ReadSequence(b)
  <2>1. /\ DOMAIN loc' = Process /\ \A q \in Process \ {b} : loc'[q] = loc[q]
        /\ loc'[b].eat = loc[b].eat /\ loc'[b].made = loc[b].made
    BY <1>1, <1>2, <1>7 DEF ReadSequence, Local
  <2>2. Others(b) /\ pc'[b] = "sequence"
    BY <1>1, <1>7, <2>1, GotoEffect DEF ReadSequence, Others, WriteOrder
  <2> QED
    BY <1>2, <1>3, <1>7, <2>1, <2>2 DEF ReadSequence, BuilderOK, Quotes, InOut, disk, Built, Pinned
<1>8. CASE NotLogged(b)
  BY ZenonT(30), <1>1, <1>8, BuiltStepEnds DEF NotLogged, disk
<1>9. CASE Add(b)
  BY SMTT(30), Z3T(30), <1>1, <1>2, <1>3, <1>9, GotoEffect DEF Add, Others, BuilderOK, Quotes, InOut, ghosts, TypeOK, Built, Pinned
<1>10. CASE Commit(b)
  BY <1>1, <1>10, BuiltStepEnds DEF Commit
<1>11. ASSUME NEW f \in File, Hashed(b, f) PROVE BuiltOK' /\ MadeOK'
  <2>1. Others(b) /\ pc'[b] = "copy"
    BY ZenonT(30), <1>1, <1>11, GotoEffect DEF Hashed, Others, TypeOK
  <2> QED
    BY ZenonT(30), <1>3, <1>11, <2>1 DEF Hashed, BuilderOK, Quotes, InOut, disk, ghosts
<1>12. ASSUME NEW f \in File, Copied(b, f) PROVE BuiltOK' /\ MadeOK'
  <2>1. CASE Ends(b)
    BY <1>1, <1>12, <2>1, BuiltStepEnds DEF Copied, disk
  <2>2. CASE Goto(b, "command") /\ loc' = [loc EXCEPT ![b].todo = {}, ![b].seen = Seen(b, f)]
    <3>1. Others(b) /\ pc'[b] = "command"
      BY <1>1, <2>2, GotoEffect DEF Others, TypeOK
    <3>2. /\ loc'[b].seen = Seen(b, f) /\ loc'[b].ct = loc[b].ct /\ loc'[b].kind = loc[b].kind
      BY <1>1, <1>2, <2>2 DEF Local
    <3>3. loc[b].kind = "enclave" \/ Seen(b, f) = loc[b].ct
      BY <1>1, <1>12, <3>1 DEF Copied, Ends, Goto, TypeOK
    <3> QED
      BY <1>3, <1>12, <3>1, <3>2, <3>3 DEF Copied, BuilderOK, Quotes, InOut, disk
  <2> QED
    BY <1>12, <2>1, <2>2 DEF Copied
<1> QED
  BY <1>4, <1>5, <1>6, <1>7, <1>8, <1>9, <1>10, <1>11, <1>12

\* The token of a run is of the tree that was scanned, chained to the build's, and
\* quoted with the chain.
LEMMA ChainIs ==
  ASSUME NEW r, NEW stage0
  PROVE  LET c == Chain(r, stage0)
         IN  /\ c.value_x = loc[r].seen /\ c.source_hash = stage0.source_hash
             /\ c.artifact_hash = stage0.artifact_hash /\ c.tls_spki_hash = r
             /\ c.previous = stage0 /\ QuoteVerifies(c)
<1> DEFINE e == [FromBuild(loc[r].seen, stage0.source_hash, stage0.artifact_hash)
                   EXCEPT !.tls_spki_hash = r, !.previous = stage0]
<1>1. /\ e.value_x = loc[r].seen /\ e.source_hash = stage0.source_hash
      /\ e.artifact_hash = stage0.artifact_hash /\ e.tls_spki_hash = r /\ e.previous = stage0
      /\ Quoted(e, r).value_x = e.value_x /\ Quoted(e, r).source_hash = e.source_hash
      /\ Quoted(e, r).artifact_hash = e.artifact_hash /\ Quoted(e, r).previous = e.previous
      /\ Quoted(e, r).tls_spki_hash = e.tls_spki_hash
      /\ Quoted(e, r).quote.report_data = Binding(e)
  BY DEF FromBuild, Quoted
<1>2. Chain(r, stage0) = Quoted(e, r)
  BY DEF Chain, FromBuild, Quoted, Binding
<1> HIDE DEF e
<1>3. QuoteVerifies(Quoted(e, r))
  BY <1>1 DEF QuoteVerifies, Binding
<1> QED
  BY <1>1, <1>2, <1>3

\* The steps of a run: how it starts, and what it has after its scan and its quote.
LEMMA StartRunEffect ==
  ASSUME TypeOK, NEW r \in Runner, StartRun(r)
  PROVE  /\ Others(r)
         /\ \/ pc'[r] = "ended"
            \/ /\ pc'[r] = "scan" /\ loc'[r].todo = File /\ Readable(loc'[r].eat)
               /\ \/ loc'[r].eat = out.cbor /\ QuoteVerifies(loc'[r].eat)
                  \/ loc'[r].eat = out.json.eat /\ Readable(out.json) /\ loc'[r].kind = "sync"
<1>1. r \in Process /\ DOMAIN loc = Process /\ DOMAIN loc[r] = Local
  BY Apart DEF TypeOK
<1>2. PICK kind \in {"run", "sync"} :
        LET e == Stage0(kind)
            good == Readable(e) /\ (kind = "run" => QuoteVerifies(e))
        IN  \/ /\ good /\ Goto(r, "scan")
               /\ loc' = [loc EXCEPT ![r].kind = kind, ![r].todo = File, ![r].eat = e]
            \/ ~good /\ Goto(r, "ended") /\ UNCHANGED loc
  BY ZenonT(30) DEF StartRun
<1>3. CASE Goto(r, "ended") /\ UNCHANGED loc
  BY <1>1, <1>3, GotoEffect DEF Others
<1>4. CASE /\ Readable(Stage0(kind)) /\ (kind = "run" => QuoteVerifies(Stage0(kind)))
           /\ Goto(r, "scan")
           /\ loc' = [loc EXCEPT ![r].kind = kind, ![r].todo = File, ![r].eat = Stage0(kind)]
  <2>1. /\ DOMAIN loc' = Process /\ \A q \in Process \ {r} : loc'[q] = loc[q]
        /\ loc'[r].kind = kind /\ loc'[r].todo = File /\ loc'[r].eat = Stage0(kind)
    BY <1>1, <1>4 DEF Local
  <2>2. Others(r) /\ pc'[r] = "scan"
    BY <1>1, <1>4, <2>1, GotoEffect DEF Others
  <2> QED
    BY <1>4, <2>1, <2>2 DEF Stage0, Readable
<1> QED
  BY <1>2, <1>3, <1>4

\* A run whose tree agrees with its token goes on with both.
LEMMA ScannedEffect ==
  ASSUME TypeOK, NEW r \in Runner, NEW f \in File, Scanned(r, f), ~Ends(r)
  PROVE  /\ Others(r) /\ loc'[r].eat = loc[r].eat /\ loc'[r].kind = loc[r].kind
         /\ loc'[r].seen = Seen(r, f) /\ Seen(r, f) = loc[r].eat.value_x
         /\ pc'[r] = IF loc[r].kind = "sync" THEN "serving" ELSE "attest"
<1>1. r \in Process /\ DOMAIN loc = Process /\ DOMAIN loc[r] = Local
  BY Apart DEF TypeOK
<1>2. /\ Seen(r, f) = loc[r].eat.value_x
      /\ Goto(r, IF loc[r].kind = "sync" THEN "serving" ELSE "attest")
      /\ loc' = [loc EXCEPT ![r].todo = {}, ![r].seen = Seen(r, f)]
  BY DEF Scanned, Drift
<1>3. /\ DOMAIN loc' = Process /\ \A q \in Process \ {r} : loc'[q] = loc[q]
      /\ loc'[r].eat = loc[r].eat /\ loc'[r].kind = loc[r].kind /\ loc'[r].seen = Seen(r, f)
  BY <1>1, <1>2 DEF Local
<1> QED
  BY <1>1, <1>2, <1>3, GotoEffect DEF Others

\* A run chains its own token on the one it read.
LEMMA AttestEffect ==
  ASSUME TypeOK, NEW r \in Runner, Attest(r)
  PROVE  /\ Others(r) /\ pc'[r] = "stage1" /\ loc'[r].eat = Chain(r, loc[r].eat)
         /\ loc'[r].kind = loc[r].kind /\ loc'[r].seen = loc[r].seen
<1>1. r \in Process /\ DOMAIN loc = Process /\ DOMAIN loc[r] = Local
  BY Apart DEF TypeOK
<1>2. /\ DOMAIN loc' = Process /\ \A q \in Process \ {r} : loc'[q] = loc[q]
      /\ loc'[r].eat = Chain(r, loc[r].eat) /\ loc'[r].kind = loc[r].kind
      /\ loc'[r].seen = loc[r].seen
  BY <1>1 DEF Local, Attest
<1> QED
  BY <1>1, <1>2, GotoEffect DEF Others, Attest

\* A file is read into what was seen, and is then done.
LEMMA ReadFileEffect ==
  ASSUME TypeOK, NEW p \in Process, NEW f \in File, ReadFile(p, f)
  PROVE  /\ Others(p) /\ pc'[p] = pc[p] /\ pc[p] \in {"hash", "copy", "scan"}
         /\ loc'[p].todo = loc[p].todo \ {f} /\ loc'[p].seen = Seen(p, f)
         /\ loc'[p].eat = loc[p].eat /\ loc'[p].kind = loc[p].kind
<1>1. /\ DOMAIN loc = Process /\ DOMAIN loc[p] = Local /\ DOMAIN pc = Process
      /\ pc[p] \in {"hash", "copy", "scan"}
  BY DEF TypeOK, ReadFile
<1>2. /\ DOMAIN loc' = Process /\ \A q \in Process \ {p} : loc'[q] = loc[q]
      /\ loc'[p].todo = loc[p].todo \ {f} /\ loc'[p].seen = Seen(p, f)
      /\ loc'[p].eat = loc[p].eat /\ loc'[p].kind = loc[p].kind
  BY <1>1 DEF Local, ReadFile
<1> QED
  BY <1>1, <1>2 DEF Others, ReadFile

\* A file of the output directory gets what its build made.
LEMMA FillEffect ==
  ASSUME TypeOK, NEW p \in Process, FillFile(p)
  PROVE  /\ out'.sequence = IF pc[p] = "sequence" THEN loc[p].seq ELSE out.sequence
         /\ out'.json = IF pc[p] = "json" THEN Attestation(p) ELSE out.json
         /\ out'.cbor = IF pc[p] = "cbor" THEN loc[p].eat ELSE out.cbor
         /\ out'.artifact = IF pc[p] = "artifact" THEN loc[p].made ELSE out.artifact
         /\ pc[p] # "entry" => entry' = entry
         /\ pc[p] = "entry" /\ loc[p].eat.value_x \in Tree =>
              entry'[loc[p].eat.value_x] = out.json
<1>1. pc[p] \in OutFile /\ Put(p, pc[p], Content(p, pc[p]))
  BY DEF FillFile
<1>2. /\ Content(p, "sequence") = loc[p].seq /\ Content(p, "json") = Attestation(p)
      /\ Content(p, "cbor") = loc[p].eat /\ Content(p, "artifact") = loc[p].made
      /\ Content(p, "entry") = out.json
  BY DEF Content
<1>3. PICK f, c : f = pc[p] /\ c = Content(p, f)
  OBVIOUS
<1>4. f \in OutFile /\ Put(p, f, c)
  BY <1>1, <1>3
<1>5. /\ out'.sequence = IF f = "sequence" THEN c ELSE out.sequence
      /\ out'.json = IF f = "json" THEN c ELSE out.json
      /\ out'.cbor = IF f = "cbor" THEN c ELSE out.cbor
      /\ out'.artifact = IF f = "artifact" THEN c ELSE out.artifact
      /\ f # "entry" => entry' = entry
      /\ f = "entry" /\ loc[p].eat.value_x \in Tree => entry'[loc[p].eat.value_x] = c
  <2>1. /\ DOMAIN out = {"sequence", "json", "cbor", "artifact", "stage1"} /\ DOMAIN entry = Tree
    BY DEF TypeOK
  <2> QED
    BY <1>4, <2>1 DEF Put, OutFile
<1> QED
  BY <1>2, <1>3, <1>5

\* BuiltOK, over every step.
LEMMA BuiltStep ==
  ASSUME TypeOK, BuiltOK, MadeOK, [Next]_vars
  PROVE  BuiltOK' /\ MadeOK'
<1>1. CASE UNCHANGED vars
  BY <1>1 DEF BuiltOK, FilesBuilt, MadeOK, vars, disk, ghosts, Built, Pinned, Readable
<1>2. ASSUME NEW f \in File, Edit(f) PROVE BuiltOK' /\ MadeOK'
  BY <1>2 DEF BuiltOK, FilesBuilt, MadeOK, Edit, disk, Built, Pinned, Readable
<1>3. ASSUME NEW p \in Process, Stop(p) PROVE BuiltOK' /\ MadeOK'
  BY <1>3, BuiltStepEnds DEF Stop, disk
<1>4. ASSUME NEW p \in Process, Others(p), out' = out, written' = written,
             p \in Builder => BuilderOK(p)', p \in Runner => RunnerOK(p)'
      PROVE  BuiltOK' /\ MadeOK'
  BY ZenonT(30), <1>4, SameFiles, BuiltFrame
<1>5. \A b \in Builder : BuilderOK(b)
  BY DEF BuiltOK, MadeOK, BuilderOK
<1>6. \A r \in Runner : RunnerOK(r)
  BY DEF BuiltOK, RunnerOK
<1>7. ASSUME NEW p \in Process, NEW f \in File, ReadFile(p, f) PROVE BuiltOK' /\ MadeOK'
  <2>1. p \in Builder => BuilderOK(p)'
    BY <1>7, ReadFileEffect DEF BuilderOK, Quotes, InOut
  <2>2. p \in Runner => RunnerOK(p)'
    BY <1>6, <1>7, ReadFileEffect DEF RunnerOK, Built, Pinned
  <2> QED
    BY ZenonT(30), <1>4, <1>7, <2>1, <2>2, ReadFileEffect DEF ReadFile, disk, ghosts
<1>8. ASSUME NEW r \in Runner, StartRun(r) PROVE BuiltOK' /\ MadeOK'
  <2>1. RunnerOK(r)'
    BY <1>8, StartRunEffect DEF BuiltOK, FilesBuilt, RunnerOK, Built, Pinned
  <2> QED
    BY ZenonT(30), <1>4, <1>8, <2>1, Apart, StartRunEffect DEF StartRun, disk, ghosts
<1>9. ASSUME NEW r \in Runner, NEW f \in File, Scanned(r, f) PROVE BuiltOK' /\ MadeOK'
  <2>1. CASE Ends(r)
    BY <1>9, <2>1, Apart, BuiltStepEnds DEF Scanned, disk
  <2>2. CASE ~Ends(r)
    <3>1. RunnerOK(r)'
      BY <1>6, <1>9, <2>2, ScannedEffect DEF Scanned, RunnerOK, Built, Pinned
    <3> QED
      BY <1>4, <1>9, <2>2, <3>1, Apart, ScannedEffect DEF Scanned, disk
  <2> QED
    BY <2>1, <2>2
<1>10. ASSUME NEW r \in Runner, Attest(r) PROVE BuiltOK' /\ MadeOK'
  <2>1. RunnerOK(r)'
    BY <1>6, <1>10, AttestEffect, ChainIs DEF Attest, RunnerOK, Built, Pinned
  <2> QED
    BY ZenonT(30), <1>4, <1>10, <2>1, Apart, AttestEffect DEF Attest, disk, ghosts
<1>11. ASSUME NEW p \in Process, pc[p] \in OutFile, loc'[p].eat = loc[p].eat,
              loc'[p].made = loc[p].made,
              pc'[p] = pc[p] \/ pc'[p] = After(p, pc[p])
       PROVE  (p \in Builder => BuilderOK(p)') /\ (p \in Runner => RunnerOK(p)')
  BY <1>5, <1>6, <1>11, FilesOf, AfterIs DEF BuilderOK, RunnerOK, Quotes, InOut, Built, Pinned
<1>12. ASSUME NEW p \in Process, OpenFile(p) PROVE BuiltOK' /\ MadeOK'
  <2>1. /\ Others(p) /\ pc'[p] = pc[p] /\ written' = written
        /\ loc'[p].eat = loc[p].eat /\ loc'[p].made = loc[p].made
    BY <1>12, OpenEffect DEF OpenFile, Others, TypeOK, ghosts
  <2>2. (p \in Builder => BuilderOK(p)') /\ (p \in Runner => RunnerOK(p)')
    BY <1>11, <1>12, <2>1 DEF OpenFile
  <2>3. out'.cbor \in {out.cbor, Torn} /\ out'.json \in {out.json, Torn}
    BY ZenonT(30), <1>12, PutEffect DEF OpenFile
  <2>4. FilesBuilt'
    BY <2>1, <2>3 DEF BuiltOK, FilesBuilt, Built, Pinned, Readable
  <2> QED
    BY ZenonT(30), <2>1, <2>2, <2>4, BuiltFrame
<1>13. ASSUME NEW p \in Process, FillFile(p) PROVE BuiltOK' /\ MadeOK'
  <2>1. /\ Others(p) /\ pc'[p] = After(p, pc[p])
        /\ loc'[p].eat = loc[p].eat /\ loc'[p].made = loc[p].made
    BY ZenonT(30), <1>13, FillEffect, WrittenEffect DEF FillFile
  <2>2. (p \in Builder => BuilderOK(p)') /\ (p \in Runner => RunnerOK(p)')
    BY <1>11, <1>13, <2>1 DEF FillFile
  <2>3. pc[p] = "cbor" \/ pc[p] = "json" => Pinned(loc[p].eat)
    BY <1>5, <1>13, FilesOf DEF BuilderOK, Quotes, InOut, FillFile, Process
  <2>4. out'.cbor = out.cbor \/ (pc[p] = "cbor" /\ out'.cbor = loc[p].eat)
    BY <1>13, FillEffect
  <2>5. out'.json = out.json \/ (pc[p] = "json" /\ out'.json = Attestation(p))
    BY <1>13, FillEffect
  <2>6. Attestation(p).eat = loc[p].eat
    BY DEF Attestation
  <2>7. written' = written \/ (pc[p] = "json" /\ written' = written \cup {Attestation(p)})
    BY <1>13 DEF FillFile
  <2>8. FilesBuilt'
    BY <2>3, <2>4, <2>5, <2>6, <2>7 DEF BuiltOK, FilesBuilt, Built, Pinned, Readable
  <2> QED
    BY ZenonT(30), <2>1, <2>2, <2>8, BuiltFrame
<1>14. ASSUME NEW p \in Process, WriteFails(p) PROVE BuiltOK' /\ MadeOK'
  <2>1. CASE Ends(p)
    BY <1>14, <2>1, BuiltStepEnds DEF WriteFails, disk
  <2>2. CASE Goto(p, After(p, pc[p])) /\ loc' = [loc EXCEPT ![p].open = FALSE]
    <3>1. /\ Others(p) /\ pc'[p] = After(p, pc[p])
          /\ loc'[p].eat = loc[p].eat /\ loc'[p].made = loc[p].made
      BY ZenonT(30), <2>2, WrittenEffect
    <3>2. (p \in Builder => BuilderOK(p)') /\ (p \in Runner => RunnerOK(p)')
      BY ZenonT(30), <1>11, <1>14, <3>1 DEF WriteFails
    <3> QED
      BY <1>4, <1>14, <3>1, <3>2 DEF WriteFails, disk
  <2> QED
    BY <1>14, <2>1, <2>2 DEF WriteFails
<1> QED
  BY <1>1, <1>2, <1>3, <1>7, <1>8, <1>9, <1>10, <1>12, <1>13, <1>14, BuiltStepBuild DEF Next
-----------------------------------------------------------------------------
\* What ServedOK says of one process.
BuilderServes(b) ==
  pc[b] = "serving" => loc[b].eat.previous = None /\ CheckAccepts(loc[b].eat, b)
RunnerServes(r) ==
  /\ pc[r] \in {"scan", "attest"} /\ loc[r].kind # "sync" => QuoteVerifies(loc[r].eat)
  /\ pc[r] \in {"stage1", "serving"} /\ loc[r].kind # "sync" => CheckAccepts(loc[r].eat, r)
RunnerSees(r) ==
  /\ pc[r] = "scan" => \A f \in File \ loc[r].todo : loc[r].seen[f] = src[f]
  /\ pc[r] \in {"attest", "stage1", "serving"} => loc[r].seen = src /\ loc[r].eat.value_x = src

\* ServedOK speaks of one process at a time.
LEMMA ServedFrame ==
  ASSUME ServedOK, NEW p \in Process, Others(p), src' = src, moved' = moved,
         p \in Builder => BuilderServes(p)',
         p \in Runner => RunnerServes(p)',
         p \in Runner \ moved => RunnerSees(p)'
  PROVE  ServedOK'
<1>1. \A b \in Builder \ {p} : BuilderServes(b)'
  BY Apart DEF ServedOK, BuilderServes, Others
<1>2. \A r \in Runner \ {p} : RunnerServes(r)'
  BY Apart DEF ServedOK, RunnerServes, Others
<1>3. \A r \in Runner \ (moved \cup {p}) : RunnerSees(r)'
  BY Apart DEF ServedOK, RunnerSees, Others
<1> QED
  BY ZenonT(30), <1>1, <1>2, <1>3 DEF ServedOK, BuilderServes, RunnerServes, RunnerSees

\* ServedOK when a process ends.
LEMMA ServedStepEnds ==
  ASSUME TypeOK, ServedOK, NEW p \in Process, Ends(p), src' = src, moved' = moved
  PROVE  ServedOK'
<1>1. Others(p) /\ pc'[p] = "ended"
  BY EndsEffect
<1> QED
  BY <1>1, ServedFrame DEF BuilderServes, RunnerServes, RunnerSees

\* A builder that does not serve after its step has nothing to show for it.
LEMMA ServedStepBuild ==
  ASSUME TypeOK, BuiltOK, ServedOK, NEW b \in Builder,
         \/ StartBuild(b) \/ Command(b) \/ Ratchet(b) \/ ReadSequence(b)
         \/ NotLogged(b) \/ Add(b) \/ Commit(b)
         \/ \E f \in File : Hashed(b, f) \/ Copied(b, f)
  PROVE  ServedOK'
<1>1. b \in Process /\ b \notin Runner /\ DOMAIN loc = Process
  BY Apart DEF TypeOK
<1>2. ASSUME Ends(b), src' = src, moved' = moved PROVE ServedOK'
  BY <1>1, <1>2, ServedStepEnds
<1>3. ASSUME Others(b), src' = src, moved' = moved, BuilderServes(b)' PROVE ServedOK'
  BY <1>1, <1>3, ServedFrame
<1>4. ASSUME NEW l, l # "serving", Goto(b, l), src' = src, moved' = moved,
             DOMAIN loc' = Process, \A q \in Process \ {b} : loc'[q] = loc[q]
      PROVE  ServedOK'
  BY <1>1, <1>3, <1>4, GotoEffect DEF Others, BuilderServes
<1>5. CASE StartBuild(b)
  BY <1>1, <1>4, <1>5 DEF StartBuild, ghosts
<1>6. CASE Command(b)
  BY ZenonT(30), <1>3, <1>6, CommandEffect DEF Command, ghosts, BuilderServes
<1>7. CASE Ratchet(b)
  <2>1. CASE ~Ends(b)
    <3>1. BuilderServes(b)'
      BY <1>7, <2>1, RatchetEffect DEF BuilderServes, CheckAccepts, QuoteVerifies, Binding
    <3> QED
      BY ZenonT(30), <1>3, <1>7, <2>1, <3>1, RatchetEffect DEF Ratchet
  <2> QED
    BY <1>2, <1>7, <2>1 DEF Ratchet
<1>8. CASE ReadSequence(b)
  <2>1. WriteOrder[1] # "serving"
    BY ZenonT(30) DEF WriteOrder
  <2> QED
    BY <1>1, <1>4, <1>8, <2>1 DEF ReadSequence
<1>9. CASE NotLogged(b) \/ Commit(b)
  BY ZenonT(30), <1>2, <1>9 DEF NotLogged, Commit
<1>10. CASE Add(b)
  BY ZenonT(30), <1>1, <1>4, <1>10 DEF Add, ghosts
<1>11. ASSUME NEW f \in File, Hashed(b, f) PROVE ServedOK'
  BY ZenonT(30), <1>1, <1>4, <1>11 DEF Hashed, ghosts
<1>12. ASSUME NEW f \in File, Copied(b, f) PROVE ServedOK'
  <2>1. CASE Ends(b)
    BY ZenonT(30), <1>2, <1>12, <2>1 DEF Copied
  <2>2. CASE Goto(b, "command") /\ loc' = [loc EXCEPT ![b].todo = {}, ![b].seen = Seen(b, f)]
    BY ZenonT(30), <1>1, <1>4, <1>12, <2>2 DEF Copied
  <2> QED
    BY <1>12, <2>1, <2>2 DEF Copied
<1> QED
  BY <1>5, <1>6, <1>7, <1>8, <1>9, <1>10, <1>11, <1>12

\* A write leaves the token of a run as it was quoted.
LEMMA ServedStepWrite ==
  ASSUME TypeOK, ServedOK, NEW p \in Process, pc[p] \in OutFile, Others(p),
         src' = src, moved' = moved, loc'[p].eat = loc[p].eat, loc'[p].kind = loc[p].kind,
         loc'[p].seen = loc[p].seen, pc'[p] = pc[p] \/ pc'[p] = After(p, pc[p])
  PROVE  ServedOK'
<1>1. p \in Builder => BuilderServes(p)'
  BY FilesOf, AfterIs DEF BuilderServes
<1>2. p \in Runner => pc[p] = "stage1" /\ pc'[p] \in {"stage1", "serving"}
  BY ZenonT(30), FilesOf, AfterIs
<1>3. p \in Runner => RunnerServes(p)'
  BY ZenonT(30), <1>2 DEF ServedOK, RunnerServes, CheckAccepts, QuoteVerifies, Binding
<1>4. p \in Runner \ moved => RunnerSees(p)'
  BY ZenonT(30), <1>2 DEF ServedOK, RunnerSees
<1> QED
  BY <1>1, <1>3, <1>4, ServedFrame

\* ServedOK, over every step.
LEMMA ServedStep ==
  ASSUME TypeOK, BuiltOK, ServedOK, [Next]_vars
  PROVE  ServedOK'
<1>1. CASE UNCHANGED vars
  BY ZenonT(30), <1>1 DEF ServedOK, vars, ghosts
<1>2. ASSUME NEW f \in File, Edit(f) PROVE ServedOK'
  <2>1. \A r \in Runner \ moved' : pc[r] \notin {"scan", "attest", "stage1", "serving"}
    BY <1>2 DEF Edit
  <2> QED
    BY ZenonT(30), <1>2, <2>1 DEF Edit, ServedOK, CheckAccepts, QuoteVerifies, Binding
<1>3. ASSUME NEW p \in Process, Stop(p) PROVE ServedOK'
  BY <1>3, ServedStepEnds DEF Stop
<1>4. ASSUME NEW p \in Process, OpenFile(p) PROVE ServedOK'
  <2>1. /\ Others(p) /\ pc'[p] = pc[p] /\ loc'[p].eat = loc[p].eat
        /\ loc'[p].kind = loc[p].kind /\ loc'[p].seen = loc[p].seen
    BY <1>4, OpenEffect DEF OpenFile, Others, TypeOK
  <2> QED
    BY <1>4, <2>1, ServedStepWrite DEF OpenFile, ghosts
<1>5. ASSUME NEW p \in Process, FillFile(p) PROVE ServedOK'
  BY ZenonT(30), <1>5, WrittenEffect, ServedStepWrite DEF FillFile
<1>6. ASSUME NEW p \in Process, WriteFails(p) PROVE ServedOK'
  <2>1. CASE Ends(p)
    BY <1>6, <2>1, ServedStepEnds DEF WriteFails
  <2>2. CASE Goto(p, After(p, pc[p])) /\ loc' = [loc EXCEPT ![p].open = FALSE]
    BY ZenonT(30), <1>6, <2>2, WrittenEffect, ServedStepWrite DEF WriteFails
  <2> QED
    BY <1>6, <2>1, <2>2 DEF WriteFails
<1>7. ASSUME NEW p \in Process, NEW f \in File, ReadFile(p, f) PROVE ServedOK'
  <2>1. /\ Others(p) /\ pc'[p] = pc[p] /\ pc[p] \in {"hash", "copy", "scan"}
        /\ loc'[p].todo = loc[p].todo \ {f} /\ loc'[p].seen = Seen(p, f)
        /\ loc'[p].eat = loc[p].eat /\ loc'[p].kind = loc[p].kind
    BY <1>7, ReadFileEffect
  <2>2. p \in Builder => BuilderServes(p)'
    BY ZenonT(30), <2>1 DEF BuilderServes
  <2>3. p \in Runner => RunnerServes(p)'
    BY ZenonT(30), <2>1 DEF ServedOK, RunnerServes, QuoteVerifies, Binding
  <2>4. p \in Runner \ moved => RunnerSees(p)'
    <3>1. SUFFICES ASSUME p \in Runner \ moved, NEW g \in File, g \notin loc'[p].todo, pc[p] = "scan"
                   PROVE  loc'[p].seen[g] = src[g]
      BY ZenonT(30), <1>7, <2>1 DEF RunnerSees, ReadFile
    <3>2. g # f => g \notin loc[p].todo
      BY <2>1, <3>1
    <3>3. g # f => loc[p].seen[g] = src[g]
      BY <3>1, <3>2 DEF ServedOK
    <3> QED
      BY <2>1, <3>3, SeenEffect
  <2> QED
    BY ZenonT(30), <1>7, <2>1, <2>2, <2>3, <2>4, ServedFrame DEF ReadFile, ghosts
<1>8. ASSUME NEW r \in Runner, StartRun(r) PROVE ServedOK'
  <2>1. r \in Process /\ r \notin Builder /\ src' = src /\ moved' = moved
    BY ZenonT(30), <1>8, Apart DEF StartRun, ghosts
  <2>2. RunnerServes(r)' /\ RunnerSees(r)'
    BY <1>8, StartRunEffect DEF RunnerServes, RunnerSees, QuoteVerifies, Binding
  <2> QED
    BY <1>8, <2>1, <2>2, StartRunEffect, ServedFrame
<1>9. ASSUME NEW r \in Runner, NEW f \in File, Scanned(r, f) PROVE ServedOK'
  <2>1. r \in Process /\ r \notin Builder /\ src' = src /\ moved' = moved
    BY <1>9, Apart DEF Scanned
  <2>2. CASE Ends(r)
    BY ZenonT(30), <2>1, <2>2, ServedStepEnds
  <2>3. CASE ~Ends(r)
    <3>1. /\ Others(r) /\ loc'[r].eat = loc[r].eat /\ loc'[r].kind = loc[r].kind
          /\ loc'[r].seen = Seen(r, f) /\ Seen(r, f) = loc[r].eat.value_x
          /\ pc'[r] = IF loc[r].kind = "sync" THEN "serving" ELSE "attest"
      BY ZenonT(30), <1>9, <2>3, ScannedEffect
    <3>2. RunnerServes(r)'
      BY <1>9, <3>1 DEF ServedOK, RunnerServes, QuoteVerifies, Binding, Scanned
    <3>3. ASSUME r \notin moved PROVE Seen(r, f) = src
      <4>1. \A g \in File \ {f} : loc[r].seen[g] = src[g]
        BY <1>9, <3>3 DEF ServedOK, Scanned, LastFile
      <4>2. \A g \in File : Seen(r, f)[g] = src[g]
        BY <2>1, <4>1, SeenEffect
      <4>3. Seen(r, f) \in Tree /\ src \in Tree
        BY <2>1, SeenEffect DEF TypeOK
      <4> QED
        BY <4>2, <4>3 DEF Tree
    <3>4. r \notin moved => RunnerSees(r)'
      BY <2>1, <3>1, <3>3 DEF RunnerSees
    <3> QED
      BY ZenonT(30), <2>1, <3>1, <3>2, <3>4, ServedFrame
  <2> QED
    BY <2>2, <2>3
<1>10. ASSUME NEW r \in Runner, Attest(r) PROVE ServedOK'
  <2>1. r \in Process /\ r \notin Builder /\ src' = src /\ moved' = moved
    BY <1>10, Apart DEF Attest, ghosts
  <2>2. /\ Others(r) /\ pc'[r] = "stage1" /\ loc'[r].eat = Chain(r, loc[r].eat)
        /\ loc'[r].kind = loc[r].kind /\ loc'[r].seen = loc[r].seen
    BY <1>10, AttestEffect
  <2>3. pc[r] = "attest" /\ loc[r].seen = loc[r].eat.value_x
    BY <1>10 DEF Attest, BuiltOK
  <2>4. /\ loc'[r].eat.value_x = loc[r].seen /\ loc'[r].eat.tls_spki_hash = r
        /\ loc'[r].eat.previous = loc[r].eat /\ QuoteVerifies(loc'[r].eat)
    BY SMTT(30), Z3T(30), <2>2, ChainIs
  <2>5. RunnerServes(r)'
    BY ZenonT(30), <2>2, <2>3, <2>4 DEF ServedOK, RunnerServes, CheckAccepts, QuoteVerifies, Binding
  <2>6. r \notin moved => RunnerSees(r)'
    BY ZenonT(30), <2>1, <2>2, <2>3, <2>4 DEF ServedOK, RunnerSees
  <2> QED
    BY <2>1, <2>2, <2>5, <2>6, ServedFrame
<1> QED
  BY ZenonT(30), <1>1, <1>2, <1>3, <1>4, <1>5, <1>6, <1>7, <1>8, <1>9, <1>10, ServedStepBuild DEF Next
-----------------------------------------------------------------------------
\* The output directory and the log: one invariant of four parts.
ResultsOK == OneWriter /\ SequenceOK /\ LogOK /\ FilesOK

\* A build is in the output directory at the places of InOut.
LEMMA InOutputIs ==
  ASSUME TypeOK
  PROVE  \A b \in Builder : InOutput(b) <=> pc[b] \in InOut
BY ZenonT(30) DEF TypeOK, InOutput, OutFile, InOut, BuilderPlace, Quotes

\* A step that neither touches the results nor begins or ends the writing of them.
SameResults ==
  /\ out'.sequence = out.sequence /\ out'.json = out.json
  /\ out'.cbor = out.cbor /\ out'.artifact = out.artifact
  /\ UNCHANGED <<entry, index, committed, written>>
  /\ (overlapped => overlapped') /\ (halfway => halfway') /\ (seqLost => seqLost')

Quiet(p) ==
  SameResults /\ Others(p) /\ (p \in Builder => pc[p] \notin InOut /\ pc'[p] \notin InOut)

\* ResultsOK when no build in the output directory moves.
LEMMA ResultsStay ==
  ASSUME TypeOK, TypeOK', ResultsOK, SameResults,
         \A b \in Builder : \/ pc'[b] = pc[b] /\ loc'[b] = loc[b]
                            \/ pc[b] \notin InOut /\ pc'[b] \notin InOut
  PROVE  ResultsOK'
<1>1. \A b \in Builder : (InOutput(b) <=> pc[b] \in InOut) /\ (InOutput(b)' <=> pc'[b] \in InOut)
  <2>1. \A b \in Builder : InOutput(b)' <=> pc'[b] \in InOut
    BY DEF TypeOK, InOutput, OutFile, InOut, BuilderPlace, Quotes
  <2> QED
    BY ZenonT(30), <2>1, InOutputIs
<1>2. \A b \in Builder : InOutput(b)' <=> InOutput(b)
  BY <1>1
<1>3. \A b \in Builder : pc[b] \in InOut \/ pc'[b] \in InOut =>
        pc'[b] = pc[b] /\ loc'[b] = loc[b] /\ Attestation(b)' = Attestation(b)
  BY DEF Attestation
<1>4. OneWriter'
  BY <1>2 DEF ResultsOK, OneWriter, SameResults
<1>5. SequenceOK'
  BY <1>3 DEF ResultsOK, SequenceOK, SameResults, InOut
<1>6. LogOK'
  BY ZenonT(30), <1>3 DEF ResultsOK, LogOK, SameResults, InOut, LogEntryIsOwn
<1>7. FilesOK'
  <2>1. SUFFICES ASSUME ~overlapped', ~halfway' PROVE FilesOK'
    BY DEF FilesOK
  <2>2. ~overlapped /\ ~halfway /\ FilesOK /\ (Match => Match')
    BY <2>1 DEF SameResults, ResultsOK, Match
  <2>3. (\A b \in Builder : ~InOutput(b)') => Match'
    BY <1>2, <2>2 DEF FilesOK
  <2>4. ASSUME NEW b \in Builder
        PROVE  /\ pc'[b] = "sequence" \/ (pc'[b] = "json" /\ ~loc'[b].open) => Match'
               /\ pc'[b] \in {"artifact", "entry", "add", "commit"} => out'.cbor = loc'[b].eat
               /\ pc'[b] \in {"entry", "add", "commit"} =>
                    (loc'[b].eat.artifact_hash.file => out'.artifact = loc'[b].eat.artifact_hash)
    BY <1>3, <2>2, <2>4 DEF FilesOK, SameResults, InOut
  <2> QED
    BY ZenonT(30), <2>3, <2>4 DEF FilesOK
<1> QED
  BY ZenonT(30), <1>4, <1>5, <1>6, <1>7 DEF ResultsOK

\* ResultsOK over a quiet step.
LEMMA QuietStep ==
  ASSUME TypeOK, TypeOK', ResultsOK, NEW p \in Process, Quiet(p)
  PROVE  ResultsOK'
<1>1. \A b \in Builder : \/ pc'[b] = pc[b] /\ loc'[b] = loc[b]
                         \/ pc[b] \notin InOut /\ pc'[b] \notin InOut
  BY Apart DEF Quiet, Others
<1> QED
  BY <1>1, ResultsStay DEF Quiet

\* A process that is not writing results ends.
LEMMA QuietEnds ==
  ASSUME TypeOK, NEW p \in Process, Ends(p), p \in Builder => pc[p] \notin InOut,
         UNCHANGED <<disk, overlapped, written>>
  PROVE  Quiet(p)
<1>1. Others(p) /\ pc'[p] = "ended"
  BY EndsEffect
<1>2. halfway => halfway'
  BY DEF Ends
<1>3. seqLost => seqLost'
  BY ZenonT(30) DEF Ends
<1> QED
  BY <1>1, <1>2, <1>3 DEF Quiet, SameResults, disk, InOut

\* A build that writes is alone with its results, as long as nobody overlapped.
LEMMA Alone ==
  ASSUME TypeOK, OneWriter, ~overlapped, NEW b \in Builder, pc[b] \in InOut
  PROVE  \A c \in Builder \ {b} : pc[c] \notin InOut
BY InOutputIs DEF OneWriter

\* What the invariant says of the only build that writes.
NumbersOK(b) ==
  /\ \A a \in written : a.sequence_number \in Nat
  /\ \A a, c \in written : a.sequence_number = c.sequence_number => a = c
  /\ pc[b] \in {"sequence", "json"} =>
       /\ loc[b].seq \in Nat
       /\ \A a \in written : a.sequence_number < loc[b].seq
       /\ pc[b] = "json" => out.sequence = loc[b].seq
  /\ \/ pc[b] = "sequence" /\ loc[b].open
     \/ out.sequence = None /\ written = {}
     \/ out.sequence \in Nat /\ \A a \in written : a.sequence_number <= out.sequence
EntriesOK(b) ==
  /\ pc[b] \in {"cbor", "artifact", "entry", "add", "commit"} =>
       out.json = Attestation(b) /\ Attestation(b) \in written
  /\ pc[b] = "add" => entry[loc[b].eat.value_x] = Attestation(b)
  /\ \A x \in Tree : index[x] # None => index[x] \in written /\ index[x].eat.value_x = x
FilesMatch(b) ==
  /\ pc[b] \notin InOut => Match
  /\ pc[b] = "sequence" \/ (pc[b] = "json" /\ ~loc[b].open) => Match
  /\ pc[b] \in {"artifact", "entry", "add", "commit"} => out.cbor = loc[b].eat
  /\ pc[b] \in {"entry", "add", "commit"} =>
       (loc[b].eat.artifact_hash.file => out.artifact = loc[b].eat.artifact_hash)

\* What a build in the output directory may rely on, when it is alone.
LEMMA OneHas ==
  ASSUME TypeOK, ResultsOK, ~overlapped, NEW b \in Builder, pc[b] \in InOut
  PROVE  /\ ~seqLost => NumbersOK(b)
         /\ EntriesOK(b) /\ LogEntryIsOwn
         /\ ~halfway => FilesMatch(b)
<1>1. OneWriter /\ SequenceOK /\ LogOK /\ FilesOK
  BY DEF ResultsOK
<1>2. \A c \in Builder \ {b} : pc[c] \notin InOut
  BY <1>1, Alone
<1>3. ASSUME ~seqLost PROVE NumbersOK(b)
  BY <1>1, <1>2, <1>3 DEF SequenceOK, NumbersOK, InOut
<1>4. EntriesOK(b) /\ LogEntryIsOwn
  BY <1>1 DEF LogOK, EntriesOK
<1>5. ~halfway => FilesMatch(b)
  BY <1>1 DEF FilesOK, FilesMatch
<1> QED
  BY <1>3, <1>4, <1>5

\* After a step of a build that was, or now is, the only one that writes.
LEMMA OneSuffices ==
  ASSUME TypeOK', NEW b \in Builder, Others(b),
         ~overlapped' => \A c \in Builder \ {b} : pc[c] \notin InOut,
         ~overlapped' /\ ~seqLost' => NumbersOK(b)',
         ~overlapped' => EntriesOK(b)' /\ LogEntryIsOwn',
         ~overlapped' /\ ~halfway' => FilesMatch(b)'
  PROVE  ResultsOK'
<1>1. ~overlapped' => \A c \in Builder \ {b} : pc'[c] \notin InOut
  BY Apart DEF Others
<1>2. \A c \in Builder : InOutput(c)' <=> pc'[c] \in InOut
  BY ZenonT(30) DEF TypeOK, InOutput, OutFile, InOut, BuilderPlace, Quotes
<1>3. OneWriter'
  BY ZenonT(30), <1>1, <1>2 DEF OneWriter
<1>4. SequenceOK'
  <2>1. SUFFICES ASSUME ~overlapped', ~seqLost' PROVE SequenceOK'
    BY ZenonT(30) DEF SequenceOK
  <2> QED
    BY ZenonT(30), <1>1, <2>1 DEF SequenceOK, NumbersOK, InOut
<1>5. LogOK'
  <2>1. SUFFICES ASSUME ~overlapped' PROVE LogOK'
    BY ZenonT(30) DEF LogOK
  <2> QED
    BY ZenonT(30), <1>1, <2>1 DEF LogOK, EntriesOK, InOut
<1>6. FilesOK'
  <2>1. SUFFICES ASSUME ~overlapped', ~halfway' PROVE FilesOK'
    BY ZenonT(30) DEF FilesOK
  <2> QED
    BY ZenonT(30), <1>1, <1>2, <2>1 DEF FilesOK, FilesMatch, InOut
<1> QED
  BY <1>3, <1>4, <1>5, <1>6 DEF ResultsOK

\* A build ends while it writes.
LEMMA ResultsStepEnds ==
  ASSUME TypeOK, TypeOK', ResultsOK, NEW b \in Builder, pc[b] \in InOut, Ends(b),
         UNCHANGED <<out, entry, index, overlapped, written>>,
         ~overlapped' => LogEntryIsOwn'
  PROVE  ResultsOK'
<1>1. Others(b) /\ pc'[b] = "ended"
  BY Apart, EndsEffect
<1>2. ~overlapped' => ~overlapped /\ \A c \in Builder \ {b} : pc[c] \notin InOut
  BY ZenonT(30), Alone DEF ResultsOK
<1>3. ASSUME ~overlapped', ~seqLost' PROVE NumbersOK(b)'
  <2>1. ~seqLost /\ ~(pc[b] = "sequence" /\ loc[b].open)
    BY ZenonT(30), <1>3 DEF Ends
  <2>2. NumbersOK(b)
    BY <1>2, <1>3, <2>1, OneHas
  <2> QED
    BY <1>1, <2>1, <2>2 DEF NumbersOK
<1>4. ASSUME ~overlapped' PROVE EntriesOK(b)'
  BY <1>1, <1>2, <1>4, OneHas DEF EntriesOK
<1>5. ASSUME ~overlapped', ~halfway' PROVE FilesMatch(b)'
  <2>1. ~halfway /\ ~(pc[b] = "json" /\ loc[b].open) /\ pc[b] \notin {"cbor", "artifact"}
    BY ZenonT(30), <1>5 DEF Ends
  <2>2. FilesMatch(b) /\ EntriesOK(b)
    BY ZenonT(30), <1>2, <1>5, <2>1, OneHas
  <2>3. CASE pc[b] = "sequence" \/ pc[b] = "json"
    BY ZenonT(30), <1>1, <2>1, <2>2, <2>3 DEF FilesMatch, Match, InOut
  <2>4. CASE pc[b] \in {"entry", "add", "commit"}
    <3>1. out.json = Attestation(b)
      BY ZenonT(30), <2>2, <2>4 DEF EntriesOK
    <3>2. out.json.eat = loc[b].eat
      BY SMTT(30), Z3T(30), <3>1 DEF Attestation
    <3>3. Match
      BY ZenonT(30), <2>2, <2>4, <3>2 DEF FilesMatch, Match
    <3> QED
      BY ZenonT(30), <1>1, <3>3 DEF FilesMatch, Match, InOut
  <2> QED
    BY <2>1, <2>3, <2>4 DEF InOut
<1> QED
  BY ZenonT(30), <1>1, <1>2, <1>3, <1>4, <1>5, OneSuffices

\* A file is truncated.
LEMMA ResultsStepOpen ==
  ASSUME TypeOK, TypeOK', ResultsOK, NEW b \in Builder, OpenFile(b)
  PROVE  ResultsOK'
<1>1. b \in Process /\ pc[b] \in {"sequence", "json", "cbor", "artifact", "entry"} /\ ~loc[b].open
  BY Apart, FilesOf DEF OpenFile
<1>2. Others(b) /\ pc'[b] = pc[b] /\ loc'[b].open = TRUE /\ loc'[b].seq = loc[b].seq
      /\ loc'[b].eat = loc[b].eat
  BY <1>1, OpenEffect DEF OpenFile, Others, TypeOK
<1>3. UNCHANGED <<index, committed, written, overlapped, halfway, seqLost>>
  BY DEF OpenFile, ghosts
<1>4. /\ out'.sequence = IF pc[b] = "sequence" THEN Torn ELSE out.sequence
      /\ out'.json = IF pc[b] = "json" THEN Torn ELSE out.json
      /\ out'.cbor = IF pc[b] = "cbor" THEN Torn ELSE out.cbor
      /\ out'.artifact = IF pc[b] = "artifact" THEN Torn ELSE out.artifact
  BY ZenonT(30), PutEffect DEF OpenFile
<1>5. pc[b] \in InOut
  BY <1>1 DEF InOut
<1>6. ~overlapped' => ~overlapped /\ \A c \in Builder \ {b} : pc[c] \notin InOut
  BY <1>3, <1>5, Alone DEF ResultsOK
<1>7. ASSUME ~overlapped', ~seqLost' PROVE NumbersOK(b)'
  <2>1. NumbersOK(b)
    BY <1>3, <1>5, <1>6, <1>7, OneHas
  <2> QED
    BY <1>1, <1>2, <1>3, <1>4, <2>1 DEF NumbersOK
<1>8. ASSUME ~overlapped' PROVE EntriesOK(b)' /\ LogEntryIsOwn'
  <2>1. EntriesOK(b) /\ LogEntryIsOwn
    BY ZenonT(30), <1>5, <1>6, <1>8, OneHas
  <2>2. Attestation(b)' = Attestation(b)
    BY ZenonT(30), <1>2 DEF Attestation
  <2> QED
    BY ZenonT(30), <1>1, <1>2, <1>3, <1>4, <2>1, <2>2 DEF EntriesOK, LogEntryIsOwn
<1>9. ASSUME ~overlapped', ~halfway' PROVE FilesMatch(b)'
  <2>1. FilesMatch(b)
    BY ZenonT(30), <1>3, <1>5, <1>6, <1>9, OneHas
  <2> QED
    BY ZenonT(30), <1>1, <1>2, <1>4, <1>5, <2>1 DEF FilesMatch, Match
<1> QED
  BY <1>2, <1>6, <1>7, <1>8, <1>9, OneSuffices

\* A file is filled.
LEMMA ResultsStepFill ==
  ASSUME TypeOK, TypeOK', MadeOK, ResultsOK, NEW b \in Builder, FillFile(b)
  PROVE  ResultsOK'
<1>1. b \in Process /\ pc[b] \in {"sequence", "json", "cbor", "artifact", "entry"}
  BY Apart, FilesOf DEF FillFile
<1>2. /\ Others(b) /\ pc'[b] = After(b, pc[b]) /\ loc'[b].open = FALSE
      /\ loc'[b].seq = loc[b].seq /\ loc'[b].eat = loc[b].eat /\ loc'[b].made = loc[b].made
  BY ZenonT(30), <1>1, WrittenEffect DEF FillFile
<1>3. /\ pc[b] = "sequence" => pc'[b] = "json"
      /\ pc[b] = "json" => pc'[b] = "cbor"
      /\ pc[b] = "cbor" => pc'[b] = IF loc[b].made.file THEN "artifact" ELSE "entry"
      /\ pc[b] = "artifact" => pc'[b] = "entry"
      /\ pc[b] = "entry" => pc'[b] = "add"
  BY <1>2, AfterIs
<1>4. /\ UNCHANGED <<index, committed, overlapped, halfway, seqLost>>
      /\ written' = IF pc[b] = "json" THEN written \cup {Attestation(b)} ELSE written
  BY DEF FillFile
<1>5. /\ out'.sequence = IF pc[b] = "sequence" THEN loc[b].seq ELSE out.sequence
      /\ out'.json = IF pc[b] = "json" THEN Attestation(b) ELSE out.json
      /\ out'.cbor = IF pc[b] = "cbor" THEN loc[b].eat ELSE out.cbor
      /\ out'.artifact = IF pc[b] = "artifact" THEN loc[b].made ELSE out.artifact
  BY <1>1, FillEffect
<1>6. pc[b] \in InOut /\ pc'[b] \in InOut
  BY <1>1, <1>3 DEF InOut
<1>7. loc[b].eat.artifact_hash = loc[b].made /\ loc[b].eat.value_x \in Tree
  BY <1>6 DEF MadeOK, Quotes
<1>8. ~overlapped' => ~overlapped /\ \A c \in Builder \ {b} : pc[c] \notin InOut
  BY <1>4, <1>6, Alone DEF ResultsOK
<1>9. Attestation(b)' = Attestation(b) /\ Attestation(b).eat = loc[b].eat
      /\ Attestation(b).sequence_number = loc[b].seq
  BY <1>2 DEF Attestation
<1>10. ASSUME ~overlapped', ~seqLost' PROVE NumbersOK(b)'
  <2>1. NumbersOK(b)
    BY ZenonT(30), <1>4, <1>6, <1>8, <1>10, OneHas
  <2>2. CASE pc[b] = "json"
    <3>1. written' = written \cup {Attestation(b)} /\ pc'[b] = "cbor" /\ out'.sequence = loc[b].seq
      BY ZenonT(30), <1>3, <1>4, <1>5, <2>1, <2>2 DEF NumbersOK
    <3>2. loc[b].seq \in Nat /\ \A a \in written : a.sequence_number \in Nat /\ a.sequence_number < loc[b].seq
      BY <2>1, <2>2 DEF NumbersOK
    <3>3. \A a \in written' : a.sequence_number \in Nat /\ a.sequence_number <= loc[b].seq
      BY SMTT(30), Z3T(30), <1>9, <3>1, <3>2
    <3>4. \A a, c \in written' : a.sequence_number = c.sequence_number => a = c
      BY SMTT(30), Z3T(30), <1>9, <2>1, <3>1, <3>2 DEF NumbersOK
    <3> QED
      BY ZenonT(30), <3>1, <3>2, <3>3, <3>4 DEF NumbersOK
  <2>3. CASE pc[b] = "sequence"
    <3>1. written' = written /\ pc'[b] = "json" /\ out'.sequence = loc[b].seq
      BY ZenonT(30), <1>3, <1>4, <1>5, <2>3
    <3> QED
      BY SMTT(30), Z3T(30), <1>2, <2>1, <2>3, <3>1 DEF NumbersOK
  <2>4. CASE pc[b] \in {"cbor", "artifact", "entry"}
    <3>1. written' = written /\ pc'[b] \notin {"sequence", "json"} /\ out'.sequence = out.sequence
      BY ZenonT(30), <1>3, <1>4, <1>5, <2>4
    <3> QED
      BY ZenonT(30), <2>1, <2>4, <3>1 DEF NumbersOK
  <2> QED
    BY <1>1, <2>2, <2>3, <2>4
<1>11. ASSUME ~overlapped' PROVE EntriesOK(b)' /\ LogEntryIsOwn'
  <2>1. EntriesOK(b) /\ LogEntryIsOwn
    BY ZenonT(30), <1>6, <1>8, <1>11, OneHas
  <2>2. LogEntryIsOwn' /\ \A x \in Tree : index'[x] # None => index'[x] \in written' /\ index'[x].eat.value_x = x
    BY ZenonT(30), <1>4, <2>1 DEF EntriesOK, LogEntryIsOwn
  <2>3. pc'[b] \in {"cbor", "artifact", "entry", "add", "commit"} =>
          out'.json = Attestation(b)' /\ Attestation(b)' \in written'
    BY ZenonT(30), <1>1, <1>3, <1>4, <1>5, <1>9, <2>1 DEF EntriesOK
  <2>4. pc'[b] = "add" => entry'[loc[b].eat.value_x] = Attestation(b)
    <3>1. SUFFICES ASSUME pc[b] = "entry" PROVE entry'[loc[b].eat.value_x] = Attestation(b)
      BY ZenonT(30), <1>1, <1>3
    <3>2. entry'[loc[b].eat.value_x] = out.json
      BY <1>1, <1>7, <3>1, FillEffect
    <3> QED
      BY <2>1, <3>1, <3>2 DEF EntriesOK
  <2> QED
    BY <1>2, <1>9, <2>2, <2>3, <2>4 DEF EntriesOK
<1>12. ASSUME ~overlapped', ~halfway' PROVE FilesMatch(b)'
  <2>1. FilesMatch(b)
    BY ZenonT(30), <1>4, <1>6, <1>8, <1>12, OneHas
  <2>2. CASE pc[b] \in {"sequence", "json"}
    BY ZenonT(30), <1>3, <1>5, <1>6, <2>1, <2>2 DEF FilesMatch, Match
  <2>3. CASE pc[b] \in {"cbor", "artifact", "entry"}
    BY ZenonT(30), <1>2, <1>3, <1>5, <1>6, <1>7, <2>1, <2>3 DEF FilesMatch
  <2> QED
    BY ZenonT(30), <1>1, <2>2, <2>3
<1> QED
  BY <1>2, <1>8, <1>10, <1>11, <1>12, OneSuffices

\* The sequence number could not be written, and the build goes on.
LEMMA ResultsStepFails ==
  ASSUME TypeOK, TypeOK', ResultsOK, NEW b \in Builder, WriteFails(b), ~Ends(b)
  PROVE  ResultsOK'
<1>1. /\ b \in Process /\ pc[b] = "sequence" /\ pc[b] \in InOut
      /\ loc' = [loc EXCEPT ![b].open = FALSE] /\ Goto(b, After(b, pc[b]))
      /\ UNCHANGED <<disk, overlapped, halfway, written>>
  BY Apart DEF WriteFails, GoesOn, InOut
<1>2. seqLost'
  BY ZenonT(30), <1>1 DEF WriteFails
<1>3. Others(b) /\ pc'[b] = "json"
  BY ZenonT(30), <1>1, WrittenEffect, AfterIs
<1>4. ~overlapped' => ~overlapped /\ \A c \in Builder \ {b} : pc[c] \notin InOut
  BY <1>1, Alone DEF ResultsOK
<1>5. ASSUME ~overlapped' PROVE EntriesOK(b)' /\ LogEntryIsOwn'
  BY <1>1, <1>3, <1>4, <1>5, OneHas DEF EntriesOK, LogEntryIsOwn, disk
<1>6. ASSUME ~overlapped', ~halfway' PROVE FilesMatch(b)'
  <2>1. Match
    BY <1>1, <1>4, <1>6, OneHas DEF FilesMatch
  <2> QED
    BY <1>1, <1>3, <2>1 DEF FilesMatch, Match, disk, InOut
<1> QED
  BY ZenonT(30), <1>2, <1>3, <1>4, <1>5, <1>6, OneSuffices

\* A build begins to write: its number is beyond all that were written.
LEMMA ResultsStepSequence ==
  ASSUME TypeOK, TypeOK', ResultsOK, NEW b \in Builder, ReadSequence(b)
  PROVE  ResultsOK'
<1>1. /\ b \in Process /\ DOMAIN loc = Process /\ DOMAIN loc[b] = Local /\ pc[b] = "results"
      /\ UNCHANGED <<disk, halfway, seqLost, written>>
  BY Apart DEF TypeOK, ReadSequence
<1>2. /\ DOMAIN loc' = Process /\ \A q \in Process \ {b} : loc'[q] = loc[q]
      /\ loc'[b].seq = NextSequence(out.sequence)
  BY <1>1 DEF ReadSequence, Local
<1>3. Others(b) /\ pc'[b] = "sequence"
  BY <1>1, <1>2, GotoEffect DEF Others, ReadSequence, WriteOrder
<1>4. overlapped' = (overlapped \/ \E c \in Builder \ {b} : InOutput(c))
  BY DEF ReadSequence
<1>5. ~overlapped' => ~overlapped /\ \A c \in Builder \ {b} : ~InOutput(c)
  BY <1>4, Zenon
<1>6. ~overlapped' => ~overlapped /\ \A c \in Builder : pc[c] \notin InOut /\ ~InOutput(c)
  BY ZenonT(30), <1>1, <1>5, InOutputIs DEF InOut
<1>7. ASSUME ~overlapped', ~seqLost' PROVE NumbersOK(b)'
  <2>1. /\ \A a \in written : a.sequence_number \in Nat
        /\ \A a, c \in written : a.sequence_number = c.sequence_number => a = c
        /\ \/ out.sequence = None /\ written = {}
           \/ out.sequence \in Nat /\ \A a \in written : a.sequence_number <= out.sequence
    BY <1>1, <1>6, <1>7 DEF ResultsOK, SequenceOK, InOut
  <2>2. /\ out.sequence = None => loc'[b].seq = 1
        /\ out.sequence \in Nat => loc'[b].seq = out.sequence + 1
    BY <1>2, AttestedBuildAssumption DEF NextSequence
  <2>3. loc'[b].seq \in Nat /\ \A a \in written : a.sequence_number < loc'[b].seq
    BY SMTT(30), Z3T(30), <2>1, <2>2
  <2> QED
    BY ZenonT(30), <1>1, <1>3, <2>1, <2>3 DEF NumbersOK, disk
<1>8. ASSUME ~overlapped' PROVE EntriesOK(b)' /\ LogEntryIsOwn'
  BY ZenonT(30), <1>1, <1>3, <1>6, <1>8 DEF ResultsOK, LogOK, EntriesOK, LogEntryIsOwn, disk
<1>9. ASSUME ~overlapped', ~halfway' PROVE FilesMatch(b)'
  <2>1. Match
    BY ZenonT(30), <1>1, <1>6, <1>9 DEF ResultsOK, FilesOK
  <2> QED
    BY ZenonT(30), <1>1, <1>3, <2>1 DEF FilesMatch, Match, disk
<1> QED
  BY <1>3, <1>6, <1>7, <1>8, <1>9, OneSuffices

\* git add stages the build's own attestation, and git commit what is staged.
LEMMA ResultsStepAdd ==
  ASSUME TypeOK, TypeOK', MadeOK, ResultsOK, NEW b \in Builder, Add(b)
  PROVE  ResultsOK'
<1>1. /\ b \in Process /\ pc[b] = "add" /\ pc[b] \in InOut /\ DOMAIN index = Tree
      /\ UNCHANGED <<out, entry, committed, loc, overlapped, halfway, seqLost, written>>
      /\ index' = [index EXCEPT ![loc[b].eat.value_x] = entry[loc[b].eat.value_x]]
  BY ZenonT(30), Apart DEF Add, InOut, ghosts, TypeOK
<1>2. Others(b) /\ pc'[b] = "commit"
  BY ZenonT(30), <1>1, GotoEffect DEF Add, Others, TypeOK
<1>3. ~overlapped' => ~overlapped /\ \A c \in Builder \ {b} : pc[c] \notin InOut
  BY ZenonT(30), <1>1, Alone DEF ResultsOK
<1>4. ASSUME ~overlapped', ~seqLost' PROVE NumbersOK(b)'
  BY ZenonT(30), <1>1, <1>2, <1>3, <1>4, OneHas DEF NumbersOK
<1>5. ASSUME ~overlapped' PROVE EntriesOK(b)' /\ LogEntryIsOwn'
  <2>1. EntriesOK(b) /\ LogEntryIsOwn
    BY ZenonT(30), <1>1, <1>3, <1>5, OneHas
  <2>2. entry[loc[b].eat.value_x] = Attestation(b) /\ Attestation(b) \in written
        /\ Attestation(b).eat = loc[b].eat /\ out.json = Attestation(b)
    BY ZenonT(30), <1>1, <2>1 DEF EntriesOK, Attestation
  <2>3. \A x \in Tree : index'[x] # None => index'[x] \in written /\ index'[x].eat.value_x = x
    BY <1>1, <2>1, <2>2 DEF EntriesOK
  <2>4. Attestation(b)' = Attestation(b)
    BY ZenonT(30), <1>1 DEF Attestation
  <2> QED
    BY ZenonT(30), <1>1, <1>2, <2>1, <2>2, <2>3, <2>4 DEF EntriesOK, LogEntryIsOwn
<1>6. ASSUME ~overlapped', ~halfway' PROVE FilesMatch(b)'
  BY ZenonT(30), <1>1, <1>2, <1>3, <1>6, OneHas DEF FilesMatch, Match, InOut
<1> QED
  BY ZenonT(30), <1>2, <1>3, <1>4, <1>5, <1>6, OneSuffices

\* ResultsOK when a build commits its entry of the log.
LEMMA ResultsStepCommit ==
  ASSUME TypeOK, TypeOK', ResultsOK, NEW b \in Builder, Commit(b)
  PROVE  ResultsOK'
<1>1. /\ pc[b] \in InOut /\ Ends(b) /\ UNCHANGED <<out, entry, index, overlapped, written>>
      /\ committed' = committed \cup {<<x, index[x]>> : x \in {y \in Tree : index[y] # None}}
  BY ZenonT(30) DEF Commit, InOut
<1>2. ASSUME ~overlapped', NEW c \in committed' PROVE c[2] \in written /\ c[2].eat.value_x = c[1]
  <2>1. EntriesOK(b) /\ LogEntryIsOwn
    BY <1>1, <1>2, OneHas
  <2>2. CASE c \in committed
    BY <1>1, <1>2, <2>1, <2>2 DEF LogEntryIsOwn
  <2>3. CASE \E x \in Tree : index[x] # None /\ c = <<x, index[x]>>
    BY <2>1, <2>3 DEF EntriesOK
  <2> QED
    BY ZenonT(30), <1>1, <2>2, <2>3
<1>3. ~overlapped' => LogEntryIsOwn'
  BY ZenonT(30), <1>1, <1>2 DEF LogEntryIsOwn
<1> QED
  BY ZenonT(30), <1>1, <1>3, ResultsStepEnds

\* ResultsOK, over every step.
LEMMA ResultsStep ==
  ASSUME TypeOK, TypeOK', BuiltOK, MadeOK, ResultsOK, [Next]_vars
  PROVE  ResultsOK'
<1>1. CASE UNCHANGED vars
  BY ZenonT(30), <1>1, ResultsStay DEF vars, disk, ghosts, SameResults
<1>2. ASSUME NEW f \in File, Edit(f) PROVE ResultsOK'
  BY ZenonT(30), <1>2, ResultsStay DEF Edit, disk, SameResults
<1>3. ASSUME NEW p \in Process, Ends(p), UNCHANGED <<disk, overlapped, written>> PROVE ResultsOK'
  <2>1. CASE p \in Builder /\ pc[p] \in InOut
    <3>1. ~overlapped' => LogEntryIsOwn'
      BY ZenonT(30), <1>3 DEF ResultsOK, LogOK, LogEntryIsOwn, disk
    <3> QED
      BY ZenonT(30), <1>3, <2>1, <3>1, ResultsStepEnds DEF disk
  <2>2. CASE ~(p \in Builder /\ pc[p] \in InOut)
    BY <1>3, <2>2, QuietEnds, QuietStep
  <2> QED
    BY <2>1, <2>2
<1>4. ASSUME NEW p \in Process, Others(p), UNCHANGED <<disk, ghosts>>,
             p \in Builder => pc[p] \notin InOut /\ pc'[p] \notin InOut
      PROVE  ResultsOK'
  <2>1. Quiet(p)
    BY <1>4 DEF Quiet, SameResults, disk, ghosts
  <2> QED
    BY <2>1, QuietStep
<1>5. ASSUME NEW p \in Process, Stop(p) PROVE ResultsOK'
  BY <1>3, <1>5 DEF Stop
<1>6. ASSUME NEW p \in Process, OpenFile(p) PROVE ResultsOK'
  <2>1. CASE p \in Builder
    BY <1>6, <2>1, ResultsStepOpen
  <2>2. CASE p \notin Builder
    <3>1. pc[p] = "stage1" /\ Others(p)
      BY <1>6, <2>2, FilesOf, OpenEffect DEF OpenFile, Process, Others, TypeOK
    <3>2. /\ out'.sequence = out.sequence /\ out'.json = out.json
          /\ out'.cbor = out.cbor /\ out'.artifact = out.artifact /\ entry' = entry
      BY <1>6, <3>1, PutEffect DEF OpenFile, OutFile
    <3>3. Quiet(p)
      BY <1>6, <2>2, <3>1, <3>2 DEF Quiet, SameResults, OpenFile, ghosts
    <3> QED
      BY <3>3, QuietStep
  <2> QED
    BY <2>1, <2>2
<1>7. ASSUME NEW p \in Process, FillFile(p) PROVE ResultsOK'
  <2>1. CASE p \in Builder
    BY <1>7, <2>1, ResultsStepFill
  <2>2. CASE p \notin Builder
    <3>1. pc[p] = "stage1" /\ Others(p)
      BY ZenonT(30), <1>7, <2>2, FilesOf, WrittenEffect DEF FillFile, Process
    <3>2. /\ out'.sequence = out.sequence /\ out'.json = out.json
          /\ out'.cbor = out.cbor /\ out'.artifact = out.artifact /\ entry' = entry
      BY <1>7, <3>1, FillEffect
    <3>3. Quiet(p)
      BY <1>7, <2>2, <3>1, <3>2 DEF Quiet, SameResults, FillFile
    <3> QED
      BY <3>3, QuietStep
  <2> QED
    BY <2>1, <2>2
<1>8. ASSUME NEW p \in Process, WriteFails(p) PROVE ResultsOK'
  <2>1. CASE Ends(p)
    BY <1>3, <1>8, <2>1 DEF WriteFails
  <2>2. CASE ~Ends(p)
    <3>1. pc[p] = "sequence"
      BY ZenonT(30), <1>8, <2>2 DEF WriteFails, GoesOn
    <3>2. p \in Builder
      BY ZenonT(30), <3>1 DEF TypeOK, RunnerPlace, Process
    <3> QED
      BY <1>8, <2>2, <3>2, ResultsStepFails
  <2> QED
    BY <2>1, <2>2
<1>9. ASSUME NEW p \in Process, NEW f \in File, ReadFile(p, f) PROVE ResultsOK'
  <2>1. pc[p] \notin InOut /\ pc'[p] = pc[p] /\ Others(p)
    BY <1>9, ReadFileEffect DEF InOut
  <2> QED
    BY ZenonT(30), <1>4, <1>9, <2>1 DEF ReadFile
<1>10. ASSUME NEW b \in Builder, StartBuild(b) PROVE ResultsOK'
  <2>1. b \in Process /\ Others(b) /\ pc[b] = "new" /\ pc'[b] = "hash"
    BY <1>10, Apart, GotoEffect DEF StartBuild, Others, TypeOK
  <2> QED
    BY <1>4, <1>10, <2>1 DEF StartBuild, InOut
<1>11. ASSUME NEW b \in Builder, NEW f \in File, Hashed(b, f) PROVE ResultsOK'
  <2>1. b \in Process /\ Others(b) /\ pc[b] = "hash" /\ pc'[b] = "copy"
    BY <1>11, Apart, GotoEffect DEF Hashed, Others, TypeOK
  <2> QED
    BY <1>4, <1>11, <2>1 DEF Hashed, InOut
<1>12. ASSUME NEW b \in Builder, NEW f \in File, Copied(b, f) PROVE ResultsOK'
  <2>1. CASE Ends(b)
    BY <1>3, <1>12, <2>1, Apart DEF Copied
  <2>2. CASE /\ Goto(b, "command") /\ UNCHANGED <<halfway, seqLost>>
             /\ loc' = [loc EXCEPT ![b].todo = {}, ![b].seen = Seen(b, f)]
    <3>1. b \in Process /\ Others(b) /\ pc[b] = "copy" /\ pc'[b] = "command"
      BY <1>12, <2>2, Apart, GotoEffect DEF Copied, Others, TypeOK
    <3> QED
      BY <1>4, <1>12, <2>2, <3>1 DEF Copied, InOut, ghosts
  <2> QED
    BY <1>12, <2>1, <2>2 DEF Copied
<1>13. ASSUME NEW b \in Builder, Command(b) PROVE ResultsOK'
  <2>1. b \in Process /\ Others(b) /\ pc[b] = "command" /\ pc'[b] = "ratchet"
    BY ZenonT(30), <1>13, Apart, CommandEffect DEF Command
  <2> QED
    BY <1>4, <1>13, <2>1 DEF Command, InOut
<1>14. ASSUME NEW b \in Builder, Ratchet(b) PROVE ResultsOK'
  <2>1. b \in Process /\ pc[b] = "ratchet"
    BY <1>14, Apart DEF Ratchet
  <2>2. CASE Ends(b)
    BY <1>3, <1>14, <2>1, <2>2 DEF Ratchet
  <2>3. CASE ~Ends(b)
    <3>1. Others(b) /\ pc'[b] \in {"serving", "results"}
      BY <1>14, <2>1, <2>3, RatchetEffect
    <3> QED
      BY ZenonT(30), <1>4, <1>14, <2>1, <2>3, <3>1 DEF Ratchet, InOut, ghosts
  <2> QED
    BY <2>2, <2>3
<1>15. ASSUME NEW b \in Builder, NotLogged(b) PROVE ResultsOK'
  BY <1>3, <1>15, Apart DEF NotLogged
<1>16. ASSUME NEW r \in Runner, Others(r), UNCHANGED <<disk, ghosts>> PROVE ResultsOK'
  BY ZenonT(30), <1>4, <1>16, Apart
<1>17. ASSUME NEW r \in Runner, StartRun(r) \/ Attest(r) PROVE ResultsOK'
  BY ZenonT(30), <1>16, <1>17, StartRunEffect, AttestEffect DEF StartRun, Attest
<1>18. ASSUME NEW r \in Runner, NEW f \in File, Scanned(r, f) PROVE ResultsOK'
  <2>1. CASE Ends(r)
    BY ZenonT(30), <1>3, <1>18, <2>1, Apart DEF Scanned
  <2>2. CASE ~Ends(r)
    <3>1. UNCHANGED <<disk, ghosts>>
      BY <1>18, <2>2 DEF Scanned, ghosts
    <3> QED
      BY <1>16, <1>18, <2>2, <3>1, ScannedEffect
  <2> QED
    BY <2>1, <2>2
<1> QED
  BY ZenonT(30), <1>1, <1>2, <1>5, <1>6, <1>7, <1>8, <1>9, <1>10, <1>11, <1>12, <1>13, <1>14, <1>15,
     <1>17, <1>18, ResultsStepSequence, ResultsStepAdd, ResultsStepCommit DEF Next
-----------------------------------------------------------------------------
IInv == TypeOK /\ BuiltOK /\ MadeOK /\ ServedOK /\ ResultsOK

\* The invariant holds before the first build.
LEMMA InitIInv == Init => IInv
<1> SUFFICES ASSUME Init PROVE IInv
  BY ZenonT(30)
<1>1. /\ DOMAIN NoLocals = Local /\ NoLocals.todo = {} /\ NoLocals.seen \in Tree
  BY DEF NoLocals, Local, Tree
<1>2. DOMAIN pc = Process /\ \A p \in Process : pc[p] \in {"new", "ended"}
  BY DEF Init
<1>3. /\ out.sequence = None /\ out.json = None /\ out.cbor = None /\ written = {}
      /\ committed = {} /\ \A x \in Tree : index[x] = None
  BY ZenonT(30) DEF Init
<1>4. TypeOK
  BY ZenonT(30), <1>1, <1>2, Apart DEF Init, TypeOK, BuilderPlace, RunnerPlace, Tree
<1>5. BuiltOK /\ MadeOK
  BY ZenonT(30), <1>2, <1>3, Apart DEF BuiltOK, FilesBuilt, MadeOK, Readable, Quotes, InOut
<1>6. ServedOK
  BY ZenonT(30), <1>2, Apart DEF ServedOK
<1>7. \A b \in Builder : pc[b] \notin InOut /\ ~InOutput(b)
  BY <1>2, <1>4, Apart, InOutputIs DEF InOut
<1>8. OneWriter /\ SequenceOK
  BY ZenonT(30), <1>3, <1>7 DEF OneWriter, SequenceOK, InOut
<1>9. LogOK /\ FilesOK
  BY <1>3, <1>7 DEF LogOK, FilesOK, LogEntryIsOwn, InOut, Match
<1> QED
  BY <1>4, <1>5, <1>6, <1>8, <1>9 DEF IInv, ResultsOK

\* For any number of builds, runs, files, edits, kills and failed writes: the claims
\* of every token and of every file of the output directory, and what each process
\* may rely on while it writes, scans or serves.
THEOREM BuildsCorrect == Spec => []IInv
<1>1. IInv /\ [Next]_vars => IInv'
  BY TypeStep, BuiltStep, ServedStep, ResultsStep DEF IInv
<1> QED
  BY InitIInv, <1>1, PTL DEF Spec

\* The ratchet of cmd_build and cmd_enclave, whatever edits came while the directory
\* was hashed and copied: CT is Value X; the command of a build was given that tree;
\* and a command that left its copy alone, in an enclave too, has compiled it.
THEOREM RatchetHeld == Spec => []AttestedIsBuilt
<1>1. IInv => AttestedIsBuilt
  <2> SUFFICES ASSUME IInv PROVE AttestedIsBuilt
    OBVIOUS
  <2>1. \A e \in BuildTokens : Pinned(e)
    BY ZenonT(30) DEF IInv, BuiltOK, FilesBuilt, BuildTokens, Serving
  <2>2. \A e \in EnclaveTokens : Built(e)
    BY ZenonT(30) DEF IInv, BuiltOK, EnclaveTokens, Serving, Quotes
  <2> QED
    BY ZenonT(30), <2>1, <2>2 DEF AttestedIsBuilt, Built, Pinned
<1> QED
  BY BuildsCorrect, <1>1, PTL

\* What cmd_run or cmd_enclave serves passes cvm check, and its Value X is the
\* directory, unless that was edited since the run began to read it.
THEOREM ServedAttested == Spec => []ServedIsAttested
<1>1. IInv => ServedIsAttested
  BY ZenonT(30) DEF IInv, ServedOK, ServedIsAttested, Serving, Process
<1> QED
  BY BuildsCorrect, <1>1, PTL

\* cmd_build persists the sequence number before the attestation that bears it: two
\* attestations share one only after an overlap or a lost number.
THEOREM NumbersUnique == Spec => []SequenceUnique
<1>1. IInv => SequenceUnique
  BY DEF IInv, ResultsOK, SequenceOK, SequenceUnique
<1> QED
  BY BuildsCorrect, <1>1, PTL

\* append_to_log commits under attestations/<x>.json only a complete attestation of
\* that Value X, as long as no two builds wrote at the same time.
THEOREM EntriesOwn == Spec => []LogEntryIsOwn
<1>1. IInv => LogEntryIsOwn
  BY ZenonT(30) DEF IInv, ResultsOK, LogOK, LogEntryIsOwn
<1> QED
  BY BuildsCorrect, <1>1, PTL

\* When no build is writing, the files of the output directory are of one build,
\* unless two wrote at the same time or one ended while it wrote.
THEOREM OutputsOfOne == Spec => []OutputsMatch
<1>1. IInv => OutputsMatch
  BY DEF IInv, ResultsOK, FilesOK, OutputsMatch, Match
<1> QED
  BY BuildsCorrect, <1>1, PTL
=============================================================================
