---------------------------- MODULE AttestedBuild ----------------------------
(***************************************************************************)
(* `cvm build`, `cvm enclave` and `cvm run` (main.rs).                     *)
(*                                                                         *)
(* A build hashes the source directory, copies it, checks the copy, runs   *)
(* the build command on the copy, checks the copy again, has the hashes    *)
(* quoted by the TEE and writes its results, file by file, into an output  *)
(* directory that other builds use too.  An enclave serves the quote       *)
(* instead.  A run reads a build's attestation, compares its Value X with  *)
(* the directory, and serves an attestation chained to it.                 *)
(*                                                                         *)
(* The directory is edited at any time, also while it is being read.  A    *)
(* process is killed, or a write fails, between any two steps; a file is   *)
(* written by truncating it and then filling it.  The hash of a tree, or   *)
(* of an artifact, is the thing itself.  A build command is any shell      *)
(* command: it may change its copy, and change it back, and compile what   *)
(* it likes in between; it leaves nothing running behind.                  *)
(***************************************************************************)
EXTENDS Naturals, FiniteSets, Sequences

CONSTANTS
  Builder,     \* processes of cvm build or cvm enclave
  Runner,      \* processes of cvm run
  Casts,       \* the sets of processes that are looked at together
  File,        \* the files of the source directory
  None, Torn,  \* no file, and a truncated one
  MaxEdits,    \* bound: edits of the source directory
  MaxFaults    \* bound: kills and failed calls

Process == Builder \cup Runner

ASSUME AttestedBuildAssumption ==
  /\ Builder \cap Runner = {} /\ Casts \subseteq SUBSET Process
  /\ None # Torn /\ None \notin Process /\ None \notin Nat /\ Torn \notin Nat
  /\ MaxEdits \in Nat /\ MaxFaults \in Nat

VARIABLES
  src,      \* the source directory
  out,      \* the output directory
  entry, index, committed,  \* attestations/<x>.json: on disk, staged, and ever committed
  pc, loc,  \* where a process is, and its local variables
  edits, faults,
  overlapped,  \* ghost: two builds wrote their results at the same time
  halfway,     \* ghost: a build ended while it wrote its results
  seqLost,     \* ghost: a sequence number was not written
  moved,       \* ghost: the runs whose directory was edited since they began to read it
  written      \* ghost: every attestation.json that was ever complete

ghosts == <<overlapped, halfway, seqLost, moved, written>>
disk   == <<out, entry, index, committed>>
vars   == <<src, disk, pc, loc, edits, faults, ghosts>>
-----------------------------------------------------------------------------
Tree == [File -> {0, 1}]

\* What EatToken::binding_bytes commits to: every claim but the quote and what is
\* read from it.
Binding(e) == <<e.value_x, e.source_hash, e.artifact_hash, e.tls_spki_hash, e.previous>>

\* collect_evidence on an EAT whose claims are complete
Quoted(e, p) == [e EXCEPT !.quote = [by |-> p, report_data |-> Binding(e)]]

NoQuote == [by |-> None, report_data |-> <<>>]

\* verify_platform_quote with the binding of the token it is in
QuoteVerifies(e) == e.quote.report_data = Binding(e)

\* EatToken::from_build
FromBuild(x, ct, a) ==
  [value_x |-> x, source_hash |-> ct, artifact_hash |-> a, tls_spki_hash |-> None,
   previous |-> None, quote |-> NoQuote]

\* The files a process writes.
OutFile == {"sequence", "json", "cbor", "artifact", "entry", "stage1"}

NoLocals ==
  [kind |-> "none", todo |-> {}, seen |-> [f \in File |-> 0], ct |-> None,
   made |-> None, eat |-> None, seq |-> 0, open |-> FALSE]

Init ==
  /\ src = [f \in File |-> 0]
  /\ out = [sequence |-> None, json |-> None, cbor |-> None, artifact |-> None,
            stage1 |-> None]
  /\ entry = [x \in Tree |-> None] /\ index = [x \in Tree |-> None] /\ committed = {}
  /\ \E cast \in Casts : pc = [p \in Process |-> IF p \in cast THEN "new" ELSE "ended"]
  /\ loc = [p \in Process |-> NoLocals]
  /\ edits = 0 /\ faults = 0
  /\ overlapped = FALSE /\ halfway = FALSE /\ seqLost = FALSE
  /\ moved = {} /\ written = {}

\* A build between its reading of the sequence number and its end.
InOutput(b) == pc[b] \in OutFile \cup {"add", "commit"}

Goto(p, l) == pc' = [pc EXCEPT ![p] = l]

\* A process ends where it is.
Ends(p) ==
  /\ Goto(p, "ended")
  /\ halfway' = \/ halfway
                \/ pc[p] = "json" /\ loc[p].open
                \/ pc[p] \in {"cbor", "artifact"}
  /\ seqLost' = (seqLost \/ (pc[p] = "sequence" /\ loc[p].open))
  /\ loc' = [loc EXCEPT ![p] = NoLocals]
-----------------------------------------------------------------------------
\* Somebody edits a file.
Edit(f) ==
  /\ edits < MaxEdits /\ edits' = edits + 1
  /\ src' = [src EXCEPT ![f] = 1 - @]
  /\ moved' = moved \cup {r \in Runner : pc[r] \in {"scan", "attest", "stage1", "serving"}}
  /\ UNCHANGED <<disk, pc, loc, faults, overlapped, halfway, seqLost, written>>

\* A process is killed, or one of its calls fails: no TEE, a failed copy, `cargo
\* fetch` or build command, no evidence.
Stop(p) ==
  /\ pc[p] \notin {"ended", "serving"}
  /\ faults < MaxFaults /\ faults' = faults + 1
  /\ Ends(p)
  /\ UNCHANGED <<src, disk, edits, overlapped, moved, written>>

\* compute_tree_hash and copy_dir_readonly read the directory file by file.
Seen(p, f) == [loc[p].seen EXCEPT ![f] = src[f]]
LastFile(p, f) == loc[p].todo = {f}

ReadFile(p, f) ==
  /\ f \in loc[p].todo /\ ~LastFile(p, f)
  /\ loc' = [loc EXCEPT ![p].todo = @ \ {f}, ![p].seen = Seen(p, f)]
  /\ UNCHANGED <<src, disk, pc, edits, faults, ghosts>>

\* cmd_build and cmd_enclave: the TEE is detected, the hashing begins.
StartBuild(b) ==
  /\ pc[b] = "new"
  /\ Goto(b, "hash")
  /\ \E k \in {"build", "enclave"} :
       loc' = [loc EXCEPT ![b].kind = k, ![b].todo = File]
  /\ UNCHANGED <<src, disk, edits, faults, ghosts>>

\* CT is complete, the copying begins.
Hashed(b, f) ==
  /\ pc[b] = "hash" /\ LastFile(b, f)
  /\ Goto(b, "copy")
  /\ loc' = [loc EXCEPT ![b].ct = Seen(b, f), ![b].todo = File]
  /\ UNCHANGED <<src, disk, edits, faults, ghosts>>

\* The frozen copy is complete; cmd_build hashes and compares it.
Copied(b, f) ==
  /\ pc[b] = "copy" /\ LastFile(b, f)
  /\ \/ /\ loc[b].kind = "enclave" \/ Seen(b, f) = loc[b].ct
        /\ Goto(b, "command")
        /\ loc' = [loc EXCEPT ![b].todo = {}, ![b].seen = Seen(b, f)]
        /\ UNCHANGED <<halfway, seqLost>>
     \/ loc[b].kind = "build" /\ Seen(b, f) # loc[b].ct /\ Ends(b)
  /\ UNCHANGED <<src, disk, edits, faults, overlapped, moved, written>>

\* What a build command makes: a file, or a whole output directory, which is all an
\* enclave looks at (find_artifact).  `given` is the copy as the command found it;
\* it is what was compiled if the command was `steady`, and left its copy alone.
Artifacts(b, steady) ==
  [given : {loc[b].seen}, steady : {steady}, by : {b},
   file : IF loc[b].kind = "enclave" THEN {FALSE} ELSE BOOLEAN]

\* The zero hash.
NoArtifact == [given |-> None, steady |-> FALSE, by |-> None, file |-> FALSE]

\* The build command: its copy may be any tree by now, or again the one it was.
Command(b) ==
  /\ pc[b] = "command"
  /\ \E t \in Tree, steady \in BOOLEAN : \E made \in Artifacts(b, steady) :
       /\ steady => t = loc[b].seen
       /\ loc' = [loc EXCEPT ![b].seen = t, ![b].made = made]
  /\ Goto(b, "ratchet")
  /\ UNCHANGED <<src, disk, edits, faults, ghosts>>

\* Variant: the copy is not hashed again after the build.
RatchetHoldsAlways(l) == TRUE

\* ct_post = ct
RatchetHolds(l) == l.seen = l.ct

\* The artifact hash: in an enclave zero if the output directory cannot be hashed.
\* (In a build that is an error.)
Hashes(l) == IF l.kind = "enclave" THEN {l.made, NoArtifact} ELSE {l.made}

\* The copy is hashed again after the build, and once more for Value X; the token
\* is made, in an enclave with its TLS key, and quoted.
Ratchet(b) ==
  /\ pc[b] = "ratchet"
  /\ \/ ~RatchetHolds(loc[b]) /\ Ends(b)
     \/ /\ RatchetHolds(loc[b])
        /\ \E a \in Hashes(loc[b]) :
             LET enclave == loc[b].kind = "enclave"
                 e == [FromBuild(loc[b].seen, loc[b].ct, a)
                         EXCEPT !.tls_spki_hash = IF enclave THEN b ELSE @]
             IN  /\ loc' = [loc EXCEPT ![b] = [NoLocals EXCEPT !.kind = loc[b].kind,
                                                               !.made = a,
                                                               !.eat = Quoted(e, b)]]
                 /\ Goto(b, IF enclave THEN "serving" ELSE "results")
        /\ UNCHANGED <<halfway, seqLost>>
  /\ UNCHANGED <<src, disk, edits, faults, overlapped, moved, written>>
-----------------------------------------------------------------------------
\* Variant: the sequence number is persisted last.
WriteOrderSequenceLast == <<"json", "cbor", "artifact", "sequence", "entry">>

\* The order of a build's writes.
WriteOrder == <<"sequence", "json", "cbor", "artifact", "entry">>

\* The next sequence number: a missing file starts at 1, and so does one that does
\* not parse.
NextSequence(s) == IF s \in {None, Torn} THEN 1 ELSE s + 1

\* The output directory is created and the sequence number is read.
ReadSequence(b) ==
  /\ pc[b] = "results"
  /\ Goto(b, WriteOrder[1])
  /\ loc' = [loc EXCEPT ![b].seq = NextSequence(out.sequence)]
  /\ overlapped' = (overlapped \/ \E c \in Builder \ {b} : InOutput(c))
  /\ UNCHANGED <<src, disk, edits, faults, halfway, seqLost, moved, written>>

Attestation(b) == [eat |-> loc[b].eat, sequence_number |-> loc[b].seq]

\* What is written to each file; append_to_log copies attestation.json as it is on
\* the disk by then.
Content(p, f) ==
  CASE f = "sequence" -> loc[p].seq
    [] f = "json" -> Attestation(p)
    [] f = "cbor" -> loc[p].eat
    [] f = "artifact" -> loc[p].made
    [] f = "stage1" -> loc[p].eat
    [] f = "entry" -> out.json

Position(f) == CHOOSE i \in DOMAIN WriteOrder : WriteOrder[i] = f

\* Where a process goes after a write; only an artifact that is a file is copied.
After(p, f) ==
  IF f = "stage1" THEN "serving"
  ELSE IF f = "entry" THEN "add"
  ELSE LET next == Position(f) + 1
           skip == WriteOrder[next] = "artifact" /\ ~loc[p].made.file
       IN  WriteOrder[IF skip THEN next + 1 ELSE next]

Put(p, f, content) ==
  IF f = "entry"
  THEN entry' = [entry EXCEPT ![loc[p].eat.value_x] = content] /\ UNCHANGED out
  ELSE out' = [out EXCEPT ![f] = content] /\ UNCHANGED entry

\* fs::write and fs::copy truncate the file ...
OpenFile(p) ==
  /\ pc[p] \in OutFile /\ ~loc[p].open
  /\ Put(p, pc[p], Torn)
  /\ loc' = [loc EXCEPT ![p].open = TRUE]
  /\ UNCHANGED <<src, index, committed, pc, edits, faults, ghosts>>

\* ... and fill it.
FillFile(p) ==
  /\ pc[p] \in OutFile /\ loc[p].open
  /\ Put(p, pc[p], Content(p, pc[p]))
  /\ loc' = [loc EXCEPT ![p].open = FALSE]
  /\ Goto(p, After(p, pc[p]))
  /\ written' = IF pc[p] = "json" THEN written \cup {Attestation(p)} ELSE written
  /\ UNCHANGED <<src, index, committed, edits, faults, overlapped, halfway, seqLost, moved>>

\* Variant: no failed write ends a build.
GoesOnAlways(f) == TRUE

\* A failed write of the sequence number is ignored.
GoesOn(f) == f = "sequence"

\* A write fails, before the file is truncated or after.
WriteFails(p) ==
  /\ pc[p] \in OutFile
  /\ faults < MaxFaults /\ faults' = faults + 1
  /\ \/ /\ GoesOn(pc[p]) /\ Goto(p, After(p, pc[p]))
        /\ seqLost' = (seqLost \/ pc[p] = "sequence")
        /\ loc' = [loc EXCEPT ![p].open = FALSE]
        /\ UNCHANGED halfway
     \/ ~GoesOn(pc[p]) /\ Ends(p)
  /\ UNCHANGED <<src, disk, edits, overlapped, moved, written>>

\* append_to_log: no git repository, or a failed copy, add or commit, is reported,
\* not an error.
NotLogged(b) ==
  /\ pc[b] \in {"entry", "add", "commit"} /\ ~loc[b].open
  /\ Ends(b)
  /\ UNCHANGED <<src, disk, edits, faults, overlapped, moved, written>>

\* git add
Add(b) ==
  /\ pc[b] = "add" /\ Goto(b, "commit")
  /\ index' = [index EXCEPT ![loc[b].eat.value_x] = entry[loc[b].eat.value_x]]
  /\ UNCHANGED <<src, out, entry, committed, loc, edits, faults, ghosts>>

\* git commit takes all that is staged.
Commit(b) ==
  /\ pc[b] = "commit" /\ Ends(b)
  /\ committed' = committed \cup {<<x, index[x]>> : x \in {y \in Tree : index[y] # None}}
  /\ UNCHANGED <<src, out, entry, index, edits, faults, overlapped, moved, written>>
-----------------------------------------------------------------------------
Readable(content) == content \notin {None, Torn}

\* The token of attestation.cbor for cmd_run, of attestation.json for cmd_run_sync.
Stage0(kind) ==
  IF kind = "run" THEN out.cbor
  ELSE IF Readable(out.json) THEN out.json.eat ELSE None

\* The attestation of the build is read, and its quote verified by cmd_run; a file
\* that does not decode ends the run.
StartRun(r) ==
  /\ pc[r] = "new"
  /\ \E kind \in {"run", "sync"} :
       LET e == Stage0(kind)
           good == Readable(e) /\ (kind = "run" => QuoteVerifies(e))
       IN  \/ /\ good /\ Goto(r, "scan")
              /\ loc' = [loc EXCEPT ![r].kind = kind, ![r].todo = File, ![r].eat = e]
           \/ ~good /\ Goto(r, "ended") /\ UNCHANGED loc
  /\ UNCHANGED <<src, disk, edits, faults, ghosts>>

Drift(x, e) == x # e.value_x

\* Value X is computed again from the directory and compared.
Scanned(r, f) ==
  /\ pc[r] = "scan" /\ LastFile(r, f)
  /\ \/ Drift(Seen(r, f), loc[r].eat) /\ Ends(r)
     \/ /\ ~Drift(Seen(r, f), loc[r].eat)
        /\ Goto(r, IF loc[r].kind = "sync" THEN "serving" ELSE "attest")
        /\ loc' = [loc EXCEPT ![r].todo = {}, ![r].seen = Seen(r, f)]
        /\ UNCHANGED <<halfway, seqLost>>
  /\ UNCHANGED <<src, disk, edits, faults, overlapped, moved, written>>

\* Variant: the quote is taken before the earlier stage is set.
ChainQuotedFirst(r, stage0) ==
  LET e == FromBuild(loc[r].seen, stage0.source_hash, stage0.artifact_hash)
  IN  [Quoted([e EXCEPT !.tls_spki_hash = r], r) EXCEPT !.previous = stage0]

\* The token of stage 1: a new TLS key, chained to stage 0, then quoted.
Chain(r, stage0) ==
  LET e == FromBuild(loc[r].seen, stage0.source_hash, stage0.artifact_hash)
  IN  Quoted([e EXCEPT !.tls_spki_hash = r, !.previous = stage0], r)

Attest(r) ==
  /\ pc[r] = "attest" /\ Goto(r, "stage1")
  /\ loc' = [loc EXCEPT ![r].eat = Chain(r, @)]
  /\ UNCHANGED <<src, disk, edits, faults, ghosts>>

Next ==
  \/ \E f \in File : Edit(f)
  \/ \E p \in Process :
       \/ Stop(p) \/ OpenFile(p) \/ FillFile(p) \/ WriteFails(p)
       \/ \E f \in File : ReadFile(p, f)
  \/ \E b \in Builder :
       \/ StartBuild(b) \/ Command(b) \/ Ratchet(b) \/ ReadSequence(b)
       \/ NotLogged(b) \/ Add(b) \/ Commit(b)
       \/ \E f \in File : Hashed(b, f) \/ Copied(b, f)
  \/ \E r \in Runner : StartRun(r) \/ Attest(r) \/ \E f \in File : Scanned(r, f)

Spec == Init /\ [][Next]_vars
-----------------------------------------------------------------------------
Serving == {p \in Process : pc[p] = "serving"}

\* cmd_check of the certificate of p, whose key is p's own: the channel binding,
\* the quote, and the walk over the previous stages.
CheckAccepts(e, p) ==
  /\ e.tls_spki_hash = p
  /\ QuoteVerifies(e)
  /\ e.previous # None => /\ e.previous.value_x = e.value_x
                          /\ QuoteVerifies(e.previous)

\* The attestations of builds, and of the runs chained to them; and of enclaves.
BuildTokens   == {a.eat : a \in written} \cup {loc[r].eat : r \in Serving \cap Runner}
EnclaveTokens == {loc[b].eat : b \in Serving \cap Builder}

\* The ratchet, whatever edits came while the directory was hashed and copied: CT is
\* Value X; the command of a build was given that tree to compile; and in an enclave,
\* which compares its copy with CT only after the command, a command that left its
\* copy alone has compiled that tree.  What a command compiles that changes its copy
\* and changes it back, ct_post does not see, and nothing is said of it here.
AttestedIsBuilt ==
  /\ \A e \in BuildTokens \cup EnclaveTokens :
       /\ e.value_x = e.source_hash
       /\ e.artifact_hash.steady => e.artifact_hash.given = e.source_hash
  /\ \A e \in BuildTokens : e.artifact_hash.given = e.source_hash

\* When no build is writing, attestation.json, attestation.cbor and the artifact
\* are of one build, unless two builds wrote at the same time or one ended while it
\* wrote; the artifact of an earlier build stays beside the attestation of a later
\* one that made no file.
OutputsMatch ==
  ~overlapped /\ ~halfway /\ (\A b \in Builder : ~InOutput(b)) /\ out.json # None =>
    /\ out.cbor = out.json.eat
    /\ out.json.eat.artifact_hash.file => out.artifact = out.json.eat.artifact_hash

\* Two attestations have the same sequence number only if two builds wrote at the
\* same time, or a sequence number was lost: the number is persisted before the
\* attestation that bears it.
SequenceUnique ==
  \A a, c \in written :
    a.sequence_number = c.sequence_number /\ a # c => overlapped \/ seqLost

\* What git history has under attestations/<x>.json is a complete attestation of
\* that Value X, although append_to_log copies whatever attestation.json holds by
\* then; only builds that write at the same time can get it wrong.
LogEntryIsOwn ==
  \A c \in committed : ~overlapped => c[2] \in written /\ c[2].eat.value_x = c[1]

\* What a run or an enclave serves passes cvm check, and the Value X it attests is
\* the directory it runs in, unless that was edited since the run began to read it.
ServedIsAttested ==
  \A p \in Serving :
    /\ loc[p].kind # "sync" => CheckAccepts(loc[p].eat, p)
    /\ p \in Runner \ moved => loc[p].eat.value_x = src
=============================================================================
