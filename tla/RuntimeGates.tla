----------------------------- MODULE RuntimeGates -----------------------------
(***************************************************************************)
(* The policy and the six gates of the runtime governance plane, as pure   *)
(* functions of a policy and a transaction context:                        *)
(* src/src/muraqib/runtime/{models,policy,gates}.py.                       *)
(*                                                                         *)
(* Text is abstracted to what a gate can tell about it.  A prompt says     *)
(* whether the scanner finds a high-severity pattern and whether the       *)
(* redactor finds personal data in it; a response also whether it carries  *)
(* a credential, which phrases occur in it, in whatever case, and which    *)
(* retrieved excerpts it repeats.  Lists whose order and multiplicity no gate looks at are sets, *)
(* an empty string field is "".                                            *)
(***************************************************************************)
EXTENDS Naturals, Sequences, FiniteSets

Verdict == {"allow", "warn", "mask", "not_evidenced", "block", "not_run"}

SEVERITY == [allow |-> 0, not_run |-> 0, warn |-> 1, mask |-> 2,
             not_evidenced |-> 3, block |-> 4]

CLASSIFICATION_RANK == [public |-> 0, internal |-> 1, confidential |-> 2,
                        restricted |-> 3, unknown |-> 99]

GATES == <<"identity", "entitlement", "source_authorization",
           "pre_inference", "output_protection", "release">>

NoModel == [none |-> "model"]
NoResponse == [none |-> "response"]

-----------------------------------------------------------------------------
(* Policy.                                                                 *)

\* The union of what every role and group of the principal is granted; a key
\* the policy does not know grants nothing.
effective_entitlement(p, keys) ==
  LET held == {p.entitlements[k] : k \in keys \intersect DOMAIN p.entitlements}
  IN  [agents  |-> UNION {e.agents : e \in held},
       tools   |-> UNION {e.tools : e \in held},
       sources |-> UNION {e.sources : e \in held}]

permits(granted, name) == "*" \in granted \/ name \in granted

region_allowed(r, region) == r.allowed_regions = {} \/ region \in r.allowed_regions

-----------------------------------------------------------------------------
(* Gates.  Each returns its verdict; BLOCK reasons outrank unevidenced     *)
(* ones, which outrank warnings.                                           *)

Ranked(blocks, unevidenced, warns) ==
  IF blocks THEN "block"
  ELSE IF unevidenced THEN "not_evidenced"
  ELSE IF warns THEN "warn" ELSE "allow"

IdentityGate(p, ctx) ==
  LET who == ctx.principal
  IN  Ranked(\/ p.identity.require_authentication /\ ~who.authenticated
             \/ p.identity.require_mfa /\ who.authenticated /\ ~who.mfa
             \/ p.identity.require_delegated_identity /\ ~who.delegated_identity
             \/ p.identity.allowed_channels # {} /\ who.channel \notin p.identity.allowed_channels,
             who.entitlement_keys = {},
             FALSE)

EntitlementGate(p, ctx) ==
  LET ent == effective_entitlement(p, ctx.principal.entitlement_keys)
  IN  Ranked(\/ \E a \in ctx.requested_agents : ~permits(ent.agents, a)
             \/ \E t \in ctx.requested_tools : ~permits(ent.tools, t),
             FALSE, FALSE)

\* The declared sources are checked against the entitlement, the retrieved
\* items for an owner other than the principal and for a missing label.
SourceAuthorizationGate(p, ctx) ==
  LET ent == effective_entitlement(p, ctx.principal.entitlement_keys)
  IN  Ranked(\/ \E s \in ctx.data_sources : ~permits(ent.sources, s)
             \/ \E item \in ctx.retrieved :
                  item.owner # "" /\ item.owner # ctx.principal.subject,
             \E item \in ctx.retrieved : item.classification = "unknown",
             FALSE)

\* The class with the highest rank among the retrieved items.
Highest(retrieved) ==
  LET classes == {item.classification : item \in retrieved} \union {"public"}
  IN  CHOOSE c \in classes :
        \A d \in classes : CLASSIFICATION_RANK[d] <= CLASSIFICATION_RANK[c]

OutsideRegion(p, ctx) ==
  ctx.model.region # "" /\ ~region_allowed(p.residency, ctx.model.region)

\* Mutant of PreInferenceGate: enabling cross-border processing lifts the
\* restriction on classified context as well.
PreInferenceGate_BorderOpen(p, ctx) ==
  LET r == p.residency
      unminimised == r.require_prompt_redaction /\ ~ctx.prompt_redacted
  IN  IF ctx.model = NoModel THEN "not_evidenced"
      ELSE Ranked(
        \/ r.approved_models # {} /\ ctx.model.name \notin r.approved_models
        \/ OutsideRegion(p, ctx) /\ ~r.allow_cross_border
        \/ ctx.prompt.injection \/ \E item \in ctx.retrieved : item.injection
        \/ unminimised /\ ctx.prompt.pii,
        ctx.model.region = "" \/ (unminimised /\ ~ctx.prompt.pii),
        OutsideRegion(p, ctx))

\* Mutant of PreInferenceGate: a region that is not declared is not missed.
PreInferenceGate_RegionOptional(p, ctx) ==
  LET r == p.residency
      unminimised == r.require_prompt_redaction /\ ~ctx.prompt_redacted
  IN  IF ctx.model = NoModel THEN "not_evidenced"
      ELSE Ranked(
        \/ r.approved_models # {} /\ ctx.model.name \notin r.approved_models
        \/ /\ r.approved_providers # {}
           /\ ctx.model.provider # ""
           /\ ctx.model.provider \notin r.approved_providers
        \/ OutsideRegion(p, ctx) /\ ~r.allow_cross_border
        \/ /\ OutsideRegion(p, ctx)
           /\ Highest(ctx.retrieved) \in r.block_classifications_cross_border
        \/ ctx.prompt.injection \/ \E item \in ctx.retrieved : item.injection
        \/ unminimised /\ ctx.prompt.pii,
        unminimised /\ ~ctx.prompt.pii,
        OutsideRegion(p, ctx))

\* A provider that is not declared is let pass, a region that is not is missed.
PreInferenceGate(p, ctx) ==
  LET r == p.residency
      unminimised == r.require_prompt_redaction /\ ~ctx.prompt_redacted
  IN  IF ctx.model = NoModel THEN "not_evidenced"
      ELSE Ranked(
        \/ r.approved_models # {} /\ ctx.model.name \notin r.approved_models
        \/ /\ r.approved_providers # {}
           /\ ctx.model.provider # ""
           /\ ctx.model.provider \notin r.approved_providers
        \/ OutsideRegion(p, ctx) /\ ~r.allow_cross_border
        \/ /\ OutsideRegion(p, ctx)
           /\ Highest(ctx.retrieved) \in r.block_classifications_cross_border
        \/ ctx.prompt.injection \/ \E item \in ctx.retrieved : item.injection
        \/ unminimised /\ ctx.prompt.pii,
        ctx.model.region = "" \/ (unminimised /\ ~ctx.prompt.pii),
        OutsideRegion(p, ctx))

\* A response repeats an item when the item's excerpt is not empty and its
\* first forty characters occur in the response.
OutputProtectionGate(p, ctx, response) ==
  IF response = NoResponse THEN "not_evidenced"
  ELSE IF \/ p.dlp.block_on_secrets /\ response.secret
          \/ p.dlp.blocked_phrases \intersect response.phrases # {}
          \/ \E item \in ctx.retrieved :
               /\ item.classification \in p.dlp.block_classifications
               /\ item \in response.repeats
          \/ p.dlp.max_records # 0 /\ ctx.record_count > p.dlp.max_records
       THEN "block"
  ELSE IF p.dlp.mask_pii /\ response.pii THEN "mask" ELSE "allow"

ReleaseGate(response) == IF response = NoResponse THEN "not_evidenced" ELSE "allow"

\* gate.run(ctx), response being what ctx.response is by then.
Evaluate(gate, p, ctx, response) ==
  CASE gate = "identity"             -> IdentityGate(p, ctx)
    [] gate = "entitlement"          -> EntitlementGate(p, ctx)
    [] gate = "source_authorization" -> SourceAuthorizationGate(p, ctx)
    [] gate = "pre_inference"        -> PreInferenceGate(p, ctx)
    [] gate = "output_protection"    -> OutputProtectionGate(p, ctx, response)
    [] gate = "release"              -> ReleaseGate(response)

\* The response with every detected piece of personal data replaced.
Masked(response) == [response EXCEPT !.pii = FALSE]
=============================================================================
