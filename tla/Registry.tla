------------------------------ MODULE Registry ------------------------------
(***************************************************************************)
(* The registry of known Value X (registry.rs): load_default reads every   *)
(* entry of the registry directory, in whatever order the directory lists  *)
(* them, checks each entry's detached signature against the trust root,    *)
(* and then fills the gaps from a legacy registry.json.  The first error   *)
(* ends the load and nothing is kept.                                      *)
(*                                                                         *)
(* A key that signed an entry stands for the signature.  The entry of a    *)
(* file, or the signature in a sidecar, that does not parse is not looked  *)
(* at.                                                                     *)
(***************************************************************************)
EXTENDS Glob

CONSTANTS
  ListedX,     \* the Value X that entries are about
  Dirs,        \* directories: each a function from file names to files
  Legacies,    \* legacy files: sequences of raw entries
  TrustRoots   \* sets of trusted identities

Status == {"Recommended", "Deprecated", "Revoked"}

\* Characters, names, keys and issuers are strings; a sidecar has a certificate or
\* none.
Cert    == [key : STRING, issuers : SUBSET STRING, sans : SUBSET Seq(STRING)]
Sidecar == [parses : BOOLEAN, signed_by : STRING, cert : Seq(Cert)]
File    == [json : BOOLEAN, parses : BOOLEAN, value_x : ListedX, status : Status,
            sidecar : SUBSET Sidecar]

TrustedIdentity == [kind : {"raw"}, key : STRING]
              \cup [kind : {"keyless"}, issuer : STRING, subject_pattern : Seq(STRING)]

NoValueX == "none"  \* of a raw legacy entry without one
Raw == [value_x : ListedX \cup {NoValueX}, deprecated : BOOLEAN, recommended : BOOLEAN]

ASSUME RegistryAssumption ==
  /\ \A d \in Dirs : \A f \in DOMAIN d :
       d[f] \in File /\ \A s, t \in d[f].sidecar : s = t
  /\ Legacies \subseteq Seq(Raw)
  /\ \A t \in TrustRoots : t \subseteq TrustedIdentity

VARIABLES dir, legacy, trust, todo, entries, stage

registryVars == <<dir, legacy, trust, todo, entries, stage>>
input == <<dir, legacy, trust>>

NotFound == [status |-> "NotFound"]
-----------------------------------------------------------------------------
\* cert_identity_matches: some SAN URI and some issuer extension
CertIdentityMatches(cert, id) ==
  /\ \E uri \in cert.sans : GlobMatch(id.subject_pattern, uri)
  /\ id.issuer \in cert.issuers

\* verify_against
VerifyAgainst(id, sidecar) ==
  CASE id.kind = "raw" -> sidecar.signed_by = id.key
    [] id.kind = "keyless" -> /\ sidecar.cert # <<>>
                              /\ sidecar.signed_by = sidecar.cert[1].key
                              /\ CertIdentityMatches(sidecar.cert[1], id)

\* check_sidecar; a file has at most one sidecar
CheckSidecar(file) ==
  IF file.sidecar = {} THEN "Missing"
  ELSE IF ~(CHOOSE s \in file.sidecar : TRUE).parses THEN "Untrusted"
  ELSE IF \E id \in trust : VerifyAgainst(id, CHOOSE s \in file.sidecar : TRUE)
       THEN "Verified" ELSE "Untrusted"
-----------------------------------------------------------------------------
RegistryInit ==
  /\ dir \in Dirs /\ legacy \in Legacies /\ trust \in TrustRoots
  /\ todo = DOMAIN dir
  /\ entries = [x \in ListedX |-> NotFound]
  /\ stage = "dir"

\* Registry::load, one file: other files than *.json are skipped, one that does
\* not parse is an error, an entry replaces an earlier one of its Value X.
LoadFile(f) ==
  /\ stage = "dir" /\ f \in todo
  /\ todo' = todo \ {f}
  /\ \/ /\ ~dir[f].json
        /\ UNCHANGED <<entries, stage>>
     \/ /\ dir[f].json /\ ~dir[f].parses
        /\ stage' = "error" /\ UNCHANGED entries
     \/ /\ dir[f].json /\ dir[f].parses
        /\ entries' = [entries EXCEPT ![dir[f].value_x] =
                         [status |-> dir[f].status, signature |-> CheckSidecar(dir[f])]]
        /\ UNCHANGED stage
  /\ UNCHANGED input

\* The status load_legacy_registry_json gives a raw entry.
LegacyStatus(raw) ==
  IF raw.deprecated THEN "Deprecated"
  ELSE IF raw.recommended THEN "Recommended" ELSE "Revoked"

\* Variant: insert, where the code has or_insert.
MergeReplaces(old, raw) == [status |-> LegacyStatus(raw), signature |-> "Missing"]

\* entry(value_x).or_insert(..)
Merge(old, raw) ==
  IF old = NotFound THEN [status |-> LegacyStatus(raw), signature |-> "Missing"] ELSE old

\* load_legacy_registry_json, after the directory
LoadLegacy ==
  /\ stage = "dir" /\ todo = {}
  /\ IF \E n \in 1..Len(legacy) : legacy[n].value_x = NoValueX
     THEN stage' = "error" /\ UNCHANGED entries
     ELSE LET after[n \in 0..Len(legacy)] ==
                IF n = 0 THEN entries
                ELSE [after[n - 1] EXCEPT ![legacy[n].value_x] = Merge(@, legacy[n])]
          IN  stage' = "done" /\ entries' = after[Len(legacy)]
  /\ UNCHANGED <<input, todo>>

RegistryNext == (\E f \in todo : LoadFile(f)) \/ LoadLegacy

RegistrySpec == RegistryInit /\ [][RegistryNext]_registryVars
-----------------------------------------------------------------------------
\* A trusted key signed the file, or the key of a certificate that names a trusted
\* issuer and a subject of a trusted pattern.
Trusted(id, s) ==
  /\ s.parses
  /\ \/ id.kind = "raw" /\ s.signed_by = id.key
     \/ /\ id.kind = "keyless" /\ s.cert # <<>> /\ s.signed_by = s.cert[1].key
        /\ id.issuer \in s.cert[1].issuers
        /\ \E uri \in s.cert[1].sans : GlobReference(id.subject_pattern, uri)

SignatureReference(f) ==
  CASE dir[f].sidecar = {} -> "Missing"
    [] \E id \in trust, s \in dir[f].sidecar : Trusted(id, s) -> "Verified"
    [] OTHER -> "Untrusted"

EntryOf(f) == [status |-> dir[f].status, signature |-> SignatureReference(f)]
Named(x) == {f \in DOMAIN dir : dir[f].json /\ dir[f].value_x = x}
Raws(x)  == {n \in 1..Len(legacy) : legacy[n].value_x = x}

\* What lookup finds after a load, whatever the order the directory was read in:
\* an entry of the directory if it has one, and it is the only one if the
\* directory names the Value X once; else the first one of the legacy file,
\* unsigned; else nothing.  A signature is Missing, Verified or Untrusted by what
\* the trust root says of it, however the glob matcher and the checks got there.
LoadedIsReference ==
  stage = "done" =>
    \A x \in ListedX :
      IF Named(x) # {} THEN entries[x] \in {EntryOf(f) : f \in Named(x)}
      ELSE IF Raws(x) # {}
      THEN \E n \in Raws(x) : /\ \A l \in Raws(x) : n <= l
                              /\ entries[x] = [status    |-> LegacyStatus(legacy[n]),
                                               signature |-> "Missing"]
      ELSE entries[x] = NotFound

=============================================================================
