--------------------------- MODULE AttestedCapture ---------------------------
(***************************************************************************)
(* Attested capture, from the gateway's start to the event service's       *)
(* acceptance of an event: the gateway builds a claim from its manifest    *)
(* and Cvm receipt (llm-gateway main, build_capture_ra_claim), puts it in  *)
(* the evidence of its events, and the event service builds the claim      *)
(* again from what the gateway serves and compares                         *)
(* (validate_attested_capture_event).  It fetches the manifest and the     *)
(* receipt one after the other, and the gateway may restart in between,    *)
(* with a new key and another configuration.                               *)
(*                                                                         *)
(* POST /e/<id>/events asks for no credential, and whoever creates a       *)
(* contest names the manifest's URL: anybody may post an event that claims *)
(* anything, and any program may answer at that URL.                       *)
(*                                                                         *)
(* A receipt is the chain of its stages, the leaf first; it is served      *)
(* beside the manifest.  The hash of a receipt, or of a manifest, is the   *)
(* thing itself.  The boot stands for the signing key of the program at    *)
(* the URL, and only that program signs with it.                           *)
(***************************************************************************)
EXTENDS Naturals, Sequences, FiniteSets

CONSTANTS
  Deployments, \* the configurations and receipts the gateway may be given
  Redeploys, \* what a restart may change them to
  Others,    \* the manifests and receipts another program may serve
  Claims,    \* what anybody may claim for an event
  MaxDepth,  \* the limit in verify_eat_chain and cmd_check (16)
  MaxBoots   \* bound: restarts and replacements of the gateway

ASSUME AttestedCaptureAssumption == MaxBoots \in Nat /\ MaxDepth \in Nat \ {0}

VARIABLES
  gateway,  \* "starting", "serving", "refused", or "other": another program
  boot, cfg, receipt, claim,      \* of the gateway that is running
  manifest, \* what is, or was last, served at the manifest's URL
  event,    \* the event under way
  own,      \* ghost: the gateway made it
  service,  \* where validate_attested_capture_event is with it
  fetched,  \* the manifest it fetched
  failed    \* ghost: one of its fetches failed

gatewayVars == <<gateway, boot, cfg, receipt, claim, manifest>>
captureVars == <<gatewayVars, event, own, service, fetched, failed>>
-----------------------------------------------------------------------------
(***************************************************************************)
(* Value X is written as hex, with a prefix or not, in either case.        *)
(* normalize_value_x strips "sha384:" before it lowers the case.           *)
(***************************************************************************)
ValueX == [id : {"x", "y"}, form : {"bare", "upper", "prefixed", "PREFIXED"}]

\* What --value-x is when it is not given.
Unknown == [id |-> "unknown", form |-> "bare"]

NormalizeValueX(v) ==
  [id |-> v.id, form |-> IF v.form = "PREFIXED" THEN "prefixed" ELSE "bare"]

\* A platform label as --accepted-tee-platform takes it: a name, and a spelling of
\* it, with other cases, blanks around it or "_" for "-".
Label == [name : STRING, spelling : {"plain", "other"}]

Plain(name) == [name |-> name, spelling |-> "plain"]

\* normalize_platform_label: no spelling makes a difference.
NormalizeLabel(l) ==
  CASE l.name \in {"snp", "sev-snp", "sevsnp", "amd-sev-snp"} -> "sev-snp"
    [] l.name \in {"nitro", "aws-nitro"} -> "nitro"
    [] OTHER -> l.name

Stage == [value_x  : {"x", "y"},
          platform : {"tdx", "sev-snp", "nitro", "unknown"},
          quote    : {"good", "bad", "empty"}]

\* A receipt has a leaf; what main's arguments come to.
Receipt == Seq(Stage) \ {<<>>}

Config == [capture_method : STRING, assurance : STRING, enforcement : STRING,
           cvm_receipt : BOOLEAN, value_x : ValueX \cup {Unknown}, labels : SUBSET Label]

ASSUME DeploymentAssumption ==
  /\ Deployments \cup Redeploys \subseteq [cfg : Config, receipt : Receipt]
  /\ \A d \in Others : d.receipt \in Receipt

\* REMOTE_ATTESTED_CAPTURE_PATHS
Path == {<<"gateway_proxy", "routed">>, <<"gateway_proxy", "managed_keys">>,
         <<"local_proxy", "routed">>, <<"sdk_cli_wrapper", "routed">>,
         <<"browser_extension", "attested_broker">>,
         <<"strict_workbench", "strict_workbench">>, <<"tee_workspace", "full_tee">>}

\* attested_capture_path_spec
PathSpec(method, assurance, enforcement) ==
  assurance = "attested" /\ <<method, enforcement>> \in Path
-----------------------------------------------------------------------------
Err(what) == [ok |-> FALSE, error |-> what]

\* The checks of one stage, in the order of verify_eat_chain.
StageError(s, leaf, labels) ==
  CASE s.value_x # leaf.value_x -> "drift"
    [] s.platform = "unknown" -> "unknown platform"
    [] s.platform \notin {NormalizeLabel(l) : l \in labels} -> "platform not accepted"
    [] s.quote = "empty" -> "empty quote"
    [] s.quote = "bad" -> "quote"
    [] OTHER -> "none"

\* The stage at depth i - 1 is beyond the limit.
TooDeep(i) == i - 1 > MaxDepth

\* Variant: the depth is counted again on the way back.
VerifyChainTwice(r, labels) ==
  LET walk[i \in 1..Len(r)] ==
        IF TooDeep(i) THEN Err("too deep")
        ELSE IF StageError(r[i], r[1], labels) # "none"
             THEN Err(StageError(r[i], r[1], labels))
        ELSE IF i = Len(r) THEN [ok |-> TRUE, chain_depth |-> i]
        ELSE IF walk[i + 1].ok THEN [ok |-> TRUE, chain_depth |-> walk[i + 1].chain_depth + 1]
        ELSE walk[i + 1]
  IN  walk[1]

\* verify_eat_chain, from the leaf: the depth of the chain, or the first error.
VerifyChain(r, labels) ==
  LET walk[i \in 1..Len(r)] ==
        IF TooDeep(i) THEN Err("too deep")
        ELSE IF StageError(r[i], r[1], labels) # "none"
             THEN Err(StageError(r[i], r[1], labels))
        ELSE IF i = Len(r) THEN [ok |-> TRUE, chain_depth |-> i]
        ELSE walk[i + 1]
  IN  walk[1]

\* cmd_check's loop over the previous stages, after the leaf was verified; the
\* accepted platforms are not its concern.
CheckChain(r) ==
  LET Every == {Plain("tdx"), Plain("sev-snp"), Plain("nitro")}
      walk[i \in 1..Len(r)] ==
        IF StageError(r[i], r[1], Every) # "none" THEN FALSE
        ELSE IF i > 1 /\ i > MaxDepth THEN FALSE
        ELSE IF i = Len(r) THEN TRUE
        ELSE walk[i + 1]
  IN  walk[1]
-----------------------------------------------------------------------------
\* ContestManifest::new as the gateway calls it: with a new key on every start,
\* and with the receipt's hash if it was given one.
Manifest(b, c, r) ==
  [key              |-> b,
   capture_methods  |-> {c.capture_method},
   cvm_receipt_hash |-> IF c.cvm_receipt THEN r ELSE <<>>,
   value_x          |-> c.value_x,
   labels           |-> c.labels]

\* build_capture_ra_claim
BuildClaim(m, r, method, assurance, enforcement) ==
  LET verified == VerifyChain(r, m.labels)
  IN  IF ~PathSpec(method, assurance, enforcement) THEN Err("unsupported path")
      ELSE IF method \notin m.capture_methods THEN Err("method not advertised")
      ELSE IF ~verified.ok THEN verified
      ELSE IF m.cvm_receipt_hash # r THEN Err("receipt hash")
      ELSE IF NormalizeValueX(m.value_x)
              # NormalizeValueX([id |-> r[1].value_x, form |-> "prefixed"])
           THEN Err("value_x")
      ELSE [ok |-> TRUE, capture_method |-> method, assurance |-> assurance,
            enforcement |-> enforcement, cvm_receipt_hash |-> r, manifest_hash |-> m,
            event_signing_key |-> m.key, chain_depth |-> verified.chain_depth]

NoClaim == Err("none")
NoEvent == [assurance |-> "none"]

CaptureInit ==
  /\ gateway = "starting" /\ boot = 0
  /\ \E d \in Deployments : cfg = d.cfg /\ receipt = d.receipt
  /\ claim = NoClaim /\ manifest = NoEvent /\ event = NoEvent /\ own = FALSE
  /\ service = "idle" /\ fetched = NoEvent /\ failed = FALSE

\* llm-gateway main: attested assurance needs a receipt, a real Value X and a
\* claim that holds, or the process ends; without it there is no claim.
Start ==
  /\ gateway = "starting"
  /\ LET m == Manifest(boot, cfg, receipt)
         c == BuildClaim(m, receipt, cfg.capture_method, cfg.assurance, cfg.enforcement)
         attested == cfg.assurance = "attested"
     IN  IF attested /\ ~(cfg.cvm_receipt /\ cfg.value_x # Unknown /\ c.ok)
         THEN gateway' = "refused" /\ claim' = NoClaim /\ UNCHANGED manifest
         ELSE /\ gateway' = "serving" /\ manifest' = m
              /\ claim' = IF attested THEN c ELSE NoClaim
  /\ UNCHANGED <<boot, cfg, receipt, event, own, service, fetched, failed>>

\* The gateway ends and is started again, as it was or with other arguments.
Restart ==
  /\ gateway # "starting" /\ boot < MaxBoots
  /\ gateway' = "starting" /\ boot' = boot + 1
  /\ \/ UNCHANGED <<cfg, receipt>>
     \/ \E d \in Redeploys : cfg' = d.cfg /\ receipt' = d.receipt
  /\ claim' = NoClaim
  /\ UNCHANGED <<manifest, event, own, service, fetched, failed>>

\* Another program answers at the URL, with any manifest and any receipt, its own
\* or a copy; it has made no checks.
Replace ==
  /\ boot < MaxBoots
  /\ gateway' = "other" /\ boot' = boot + 1
  /\ \E d \in Others, k \in 0..boot' :
       manifest' = [d.manifest EXCEPT !.key = k] /\ receipt' = d.receipt
  /\ claim' = NoClaim
  /\ UNCHANGED <<cfg, event, own, service, fetched, failed>>

\* Variant: the claim is not put in the evidence.
EventWithoutClaim(m, c, k) ==
  [capture_method |-> c.capture_method, assurance |-> c.assurance,
   manifest_hash |-> m, enforcement_mode |-> c.enforcement, signed_by |-> m.key,
   ra |-> <<>>]

\* build_llm_event with insert_capture_ra_evidence; "ra" is the part of the
\* evidence that is compared later.
MakeEvent(m, c, k) ==
  [capture_method |-> c.capture_method, assurance |-> c.assurance,
   manifest_hash |-> m, enforcement_mode |-> c.enforcement, signed_by |-> m.key,
   ra |-> IF k.ok THEN <<k.cvm_receipt_hash, k.event_signing_key>> ELSE <<>>]

\* ingest_event validates an event only if its assurance is "attested".
Ingest(e) ==
  /\ service = "idle" /\ event' = e
  /\ service' = IF e.assurance = "attested" THEN "manifest" ELSE "accepted"

\* The gateway makes an event and posts it.
Emit ==
  /\ gateway = "serving"
  /\ Ingest(MakeEvent(manifest, cfg, claim)) /\ own' = TRUE
  /\ UNCHANGED <<gatewayVars, fetched, failed>>

\* A key that no program at the URL has.
Stranger == MaxBoots + 1

\* Anybody posts an event, under the manifest that is served or another, with any
\* evidence, signed with a key they have.
Post ==
  /\ manifest # NoEvent
  /\ \E c \in Claims, m \in {manifest, [manifest EXCEPT !.key = Stranger]},
        k \in {Stranger} \cup {b \in {boot} : gateway = "other"},
        ra \in {<<>>, <<receipt, manifest.key>>, <<manifest.cvm_receipt_hash, manifest.key>>} :
       Ingest([capture_method |-> c.capture_method, assurance |-> c.assurance,
               manifest_hash |-> m, enforcement_mode |-> c.enforcement, signed_by |-> k,
               ra |-> ra])
  /\ UNCHANGED <<gatewayVars, own, fetched, failed>>

\* A fetch of the manifest or of the receipt fails: nothing answers, or a receipt
\* is not configured.
FetchFails ==
  /\ service \in {"manifest", "receipt"}
  /\ service' = "rejected" /\ failed' = TRUE
  /\ UNCHANGED <<gatewayVars, event, own, fetched>>

Answering == gateway \in {"serving", "other"}

\* The manifest is fetched; its hash must be the event's, its key the signer's.
FetchManifest ==
  /\ service = "manifest" /\ Answering
  /\ fetched' = manifest
  /\ service' = IF event.manifest_hash = fetched' /\ event.signed_by = fetched'.key
                THEN "receipt" ELSE "rejected"
  /\ UNCHANGED <<gatewayVars, event, own, failed>>

\* event_matches_capture_ra_claim
EventMatchesClaim(e, k) ==
  /\ e.capture_method = k.capture_method
  /\ e.assurance = k.assurance
  /\ e.manifest_hash = k.manifest_hash
  /\ e.enforcement_mode = k.enforcement
  /\ e.ra = <<k.cvm_receipt_hash, k.event_signing_key>>

\* Variant: the receipt is not verified again, only compared with what the event
\* and the manifest say.
FetchReceiptTrusting ==
  /\ service = "receipt" /\ Answering /\ (gateway = "serving" => cfg.cvm_receipt)
  /\ service' = IF event.ra = <<receipt, fetched.key>> /\ fetched.cvm_receipt_hash = receipt
                THEN "accepted" ELSE "rejected"
  /\ UNCHANGED <<gatewayVars, event, own, fetched, failed>>

\* The receipt is fetched, by now perhaps from another boot; the claim is built
\* from it and from the manifest fetched before, and compared with the event.
FetchReceipt ==
  /\ service = "receipt" /\ Answering /\ (gateway = "serving" => cfg.cvm_receipt)
  /\ LET k == BuildClaim(fetched, receipt, event.capture_method, event.assurance,
                         event.enforcement_mode)
     IN  service' = IF k.ok /\ EventMatchesClaim(event, k) THEN "accepted" ELSE "rejected"
  /\ UNCHANGED <<gatewayVars, event, own, fetched, failed>>

CaptureNext ==
  \/ Start \/ Restart \/ Replace \/ Emit \/ Post
  \/ FetchFails \/ FetchManifest \/ FetchReceipt

CaptureSpec == CaptureInit /\ [][CaptureNext]_captureVars
-----------------------------------------------------------------------------
\* What a gateway dares to call attested the event service accepts: an event the
\* gateway made is rejected only if a fetch failed or its gateway is gone, replaced
\* by another boot or program.  The claim main builds and the one the service
\* builds agree.
RejectedOnlyIfGone ==
  service = "rejected" /\ own => failed \/ event.signed_by # boot

\* Whoever posts an event and whatever answers at the manifest's URL, an attested
\* event is accepted only if it names the manifest that was fetched and is signed
\* with its key; if its path is in the table and its method in the manifest; if its
\* evidence is of that key and of the receipt the manifest names; and if every
\* stage of that receipt has a good quote of an accepted platform and the
\* manifest's Value X.  Nothing binds the manifest's key to the receipt's quotes:
\* a program with its own key and the copy of a good receipt is accepted too.
AcceptedIsAttested ==
  service = "accepted" /\ event.assurance = "attested" =>
    LET m == event.manifest_hash
        r == m.cvm_receipt_hash
    IN  /\ m = fetched /\ event.signed_by = m.key /\ event.ra = <<r, m.key>>
        /\ <<event.capture_method, event.enforcement_mode>> \in Path
        /\ event.capture_method \in m.capture_methods
        /\ r # <<>>
        /\ \A i \in 1..Len(r) : /\ r[i].quote = "good"
                                /\ r[i].value_x = m.value_x.id
                                /\ r[i].platform \in {NormalizeLabel(l) : l \in m.labels}

\* The two chain walks agree but for their limits: the depth a claim reports is the
\* number of stages, and of the receipts a gateway claims under the walk of
\* cmd_check accepts all but the ones of one stage more than the limit, which
\* verify_eat_chain lets through.
WalksAgree ==
  claim.ok => /\ claim.chain_depth = Len(receipt)
              /\ Len(receipt) <= MaxDepth + 1
              /\ CheckChain(receipt) <=> Len(receipt) <= MaxDepth
=============================================================================
