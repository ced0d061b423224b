----------------------------- MODULE MCEvidence -----------------------------
(***************************************************************************)
(* Small instances of what vouches for a Value X: the attested capture of  *)
(* a gateway, and the registry.  They share no state, so a run of the two  *)
(* is a run of the one or of the other.                                    *)
(***************************************************************************)
EXTENDS AttestedCapture, Registry

St(v, p, q) == [value_x |-> v, platform |-> p, quote |-> q]
Good == St("x", "tdx", "good")

ManyStages ==
  {Good, St("y", "tdx", "good"), St("x", "sev-snp", "good"), St("x", "unknown", "good"),
   St("x", "tdx", "bad"), St("x", "tdx", "empty")}

Flaws(r) == {i \in DOMAIN r : r[i] # Good}

\* Every receipt of up to two stages, and those of three and four with one flaw.
ManyReceipts ==
  UNION {[1..n -> ManyStages] : n \in 1..2}
  \cup {r \in UNION {[1..n -> ManyStages] : n \in 3..4} : Cardinality(Flaws(r)) <= 1}

Odd(name) == [name |-> name, spelling |-> "other"]

\* Every way to give the gateway its arguments that the checks tell apart.
ManyConfigs ==
  [capture_method : {"gateway_proxy", "browser_extension"},
   assurance      : {"attested", "routed"},
   enforcement    : {"routed", "attested_broker"},
   cvm_receipt    : BOOLEAN,
   value_x        : {v \in ValueX : v.id = "x"} \cup {Unknown},
   labels         : {{Odd("tdx"), Plain("sevsnp")}, {Plain("amd-sev-snp")}}]

Usual ==
  [capture_method : {"gateway_proxy"}, assurance : {"attested"}, enforcement : {"routed"},
   cvm_receipt : BOOLEAN, value_x : [id : {"x"}, form : {"prefixed"}],
   labels : {{Odd("tdx"), Plain("sevsnp")}}]

TwoGood == <<Good, Good>>
OneBad  == <<Good, St("x", "tdx", "bad")>>

\* Every receipt with the usual arguments, and every way to give them with a few
\* receipts.
ManyDeployments ==
  [cfg : Usual, receipt : ManyReceipts] \cup [cfg : ManyConfigs, receipt : {<<Good>>, OneBad}]

\* The receipts and arguments a gateway is moved to.
ManyRedeploys == [cfg : Usual, receipt : {<<Good>>, TwoGood, OneBad}]

ManifestOf(r, v, labels) ==
  [key |-> 0, capture_methods |-> {"gateway_proxy"}, cvm_receipt_hash |-> r,
   value_x |-> [id |-> v, form |-> "bare"], labels |-> labels]

\* What another program serves: good evidence, and evidence with one flaw each.
ManyOthers ==
  {[manifest |-> ManifestOf(m[1], m[2], m[3]), receipt |-> m[4]] :
     m \in {<<TwoGood, "x", {Plain("tdx")}, TwoGood>>, <<OneBad, "x", {Plain("tdx")}, OneBad>>,
            <<TwoGood, "y", {Plain("tdx")}, TwoGood>>, <<TwoGood, "x", {Plain("snp")}, TwoGood>>,
            <<TwoGood, "x", {Plain("tdx")}, <<Good>>>>}}

ManyClaims ==
  {[capture_method |-> c[1], assurance |-> c[2], enforcement |-> c[3]] :
     c \in {<<"gateway_proxy", "attested", "routed">>, <<"gateway_proxy", "attested", "full_tee">>,
            <<"local_proxy", "attested", "routed">>, <<"gateway_proxy", "routed", "routed">>}}
-----------------------------------------------------------------------------
CONSTANTS Chars, MaxLen  \* of the patterns and values glob_match is tried on

\* Small registries: two files, a legacy file of up to two entries.
Workflow == [kind |-> "keyless", issuer |-> "actions", subject_pattern |-> <<"o", "*", "m">>]
Offline  == [kind |-> "raw", key |-> "k1"]

CertOf(key, issuers, sans) == <<[key |-> key, issuers |-> issuers, sans |-> sans]>>
Signed(key, cert) == {[parses |-> TRUE, signed_by |-> key, cert |-> cert]}

MCSidecars ==
  {{}, {[parses |-> FALSE, signed_by |-> "none", cert |-> <<>>]},
   Signed("k1", <<>>), Signed("k2", <<>>),
   Signed("k2", CertOf("k2", {"actions"}, {<<"o", "m", "m">>})),
   Signed("k2", CertOf("k2", {"actions"}, {<<"o", "m">>})),
   Signed("k2", CertOf("k2", {"other"}, {<<"o", "m">>})),
   Signed("k2", CertOf("k2", {"actions"}, {<<"x", "o", "m">>})),
   Signed("k1", CertOf("k2", {"actions"}, {<<"o", "m">>}))}

MCFiles ==
  {f \in [json : BOOLEAN, parses : BOOLEAN, value_x : {"x", "y"},
          status : {"Recommended", "Revoked"}, sidecar : MCSidecars] :
     ~f.json \/ ~f.parses => f.value_x = "x" /\ f.status = "Revoked" /\ f.sidecar = {}}

MCDirs == [{"f1", "f2"} -> MCFiles]

MCRaw == {r \in [value_x : {"x", "y"}, deprecated : BOOLEAN, recommended : BOOLEAN] :
            r.value_x = "y" => ~r.deprecated}

RawOf(x, deprecated, recommended) ==
  [value_x |-> x, deprecated |-> deprecated, recommended |-> recommended]

\* One entry has no Value X ("none").
MCLegacies ==
  {<<>>, <<RawOf("none", FALSE, TRUE)>>}
  \cup {<<r>> : r \in MCRaw} \cup {<<RawOf("x", FALSE, TRUE), r>> : r \in MCRaw}

MCTrustRoots == {{}, {Offline}, {Workflow}, {Offline, Workflow}}

Words(S) == UNION {[1..n -> S] : n \in 0..MaxLen}

\* glob_match finds a match exactly when there is one, however its backtracking
\* over several stars goes: on every pattern and value of up to MaxLen characters.
ASSUME GlobIsReference ==
  \A p \in Words(Chars \cup {"*"}), v \in Words(Chars) :
    GlobMatch(p, v) <=> GlobReference(p, v)
-----------------------------------------------------------------------------
\* No gateway is ever started.
NoGateway ==
  /\ gateway = "none" /\ boot = MaxBoots
  /\ cfg = NoEvent /\ receipt = <<>> /\ claim = NoClaim /\ manifest = NoEvent
  /\ event = NoEvent /\ own = FALSE
  /\ service = "idle" /\ fetched = NoEvent /\ failed = FALSE

\* No registry is ever loaded.
NoRegistry ==
  /\ dir = <<>> /\ legacy = <<>> /\ trust = {} /\ todo = {}
  /\ entries = [x \in ListedX |-> NotFound] /\ stage = "none"

EvidenceInit == (CaptureInit /\ NoRegistry) \/ (NoGateway /\ RegistryInit)
EvidenceNext == (CaptureNext /\ UNCHANGED registryVars) \/ (RegistryNext /\ UNCHANGED captureVars)
EvidenceSpec == EvidenceInit /\ [][EvidenceNext]_<<captureVars, registryVars>>
=============================================================================
