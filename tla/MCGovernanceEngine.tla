-------------------------- MODULE MCGovernanceEngine --------------------------
(* Policies and contexts for the runs of GovernanceEngine.  Every gate gets  *)
(* contexts that pass it, that fail it and that leave it undecided.          *)
EXTENDS GovernanceEngine, TLC

CONSTANTS x1, x2

BasePolicy ==
  [fail_closed |-> TRUE,
   identity |-> [require_authentication |-> TRUE, require_mfa |-> TRUE,
                 require_delegated_identity |-> TRUE, allowed_channels |-> {"web"}],
   entitlements |-> [analyst |-> [agents |-> {"writer"}, tools |-> {}, sources |-> {"crm"}],
                     lead    |-> [agents |-> {}, tools |-> {"*"}, sources |-> {}]],
   residency |-> [allowed_regions |-> {"home"}, allow_cross_border |-> FALSE,
                  approved_models |-> {"m"}, approved_providers |-> {"p"},
                  require_prompt_redaction |-> TRUE,
                  block_classifications_cross_border |-> {"confidential", "restricted"}],
   dlp |-> [mask_pii |-> TRUE, block_on_secrets |-> TRUE, max_records |-> 1,
            block_classifications |-> {"restricted"}, blocked_phrases |-> {"code word"}]]

CrossBorder(p) == [p EXCEPT !.residency.allow_cross_border = TRUE]
FailOpen(p) == [p EXCEPT !.fail_closed = FALSE]

AllPolicies ==
  {BasePolicy, CrossBorder(BasePolicy), FailOpen(CrossBorder(BasePolicy)),
   [BasePolicy EXCEPT !.dlp.mask_pii = FALSE],
   [BasePolicy EXCEPT !.identity.require_authentication = FALSE,
                      !.identity.allowed_channels = {}, !.residency.allowed_regions = {},
                      !.residency.approved_providers = {}]}
OnePolicy == {BasePolicy}

Who(authenticated, mfa, delegated, keys) ==
  [subject |-> "ana", authenticated |-> authenticated, mfa |-> mfa,
   delegated_identity |-> delegated, channel |-> "web", entitlement_keys |-> keys]

Item(source, owner, class, injection) ==
  [source |-> source, owner |-> owner, classification |-> class, injection |-> injection]

Own == Item("crm", "ana", "internal", FALSE)
Confidential == Item("crm", "ana", "confidential", FALSE)
Restricted == Item("crm", "ana", "restricted", FALSE)
Unlabelled == Item("crm", "ana", "unknown", FALSE)
Others == Item("crm", "bo", "internal", FALSE)
Ownerless == Item("crm", "", "internal", FALSE)
Injected == Item("crm", "ana", "internal", TRUE)

Text(pii, secret, phrases, repeats) ==
  [pii |-> pii, secret |-> secret, phrases |-> phrases, repeats |-> repeats]

Base ==
  [principal |-> Who(TRUE, TRUE, TRUE, {"analyst"}),
   requested_agents |-> {"writer"}, requested_tools |-> {}, data_sources |-> {"crm"},
   retrieved |-> {Own}, model |-> [name |-> "m", provider |-> "p", region |-> "home"],
   prompt |-> [injection |-> FALSE, pii |-> FALSE], prompt_redacted |-> TRUE,
   response |-> Text(FALSE, FALSE, {}, {}), record_count |-> 1]

\* What is asked for, retrieved and answered, in every combination.
AskedContexts ==
  {[Base EXCEPT !.principal = who, !.requested_agents = asked[1], !.requested_tools = asked[2],
                !.data_sources = from, !.retrieved = items, !.model = call,
                !.prompt_redacted = minimised[1], !.prompt.pii = minimised[2],
                !.response = text[1], !.record_count = text[2]] :
     who \in {Who(TRUE, TRUE, TRUE, {"analyst", "lead"}), Who(TRUE, TRUE, TRUE, {}),
              Who(TRUE, FALSE, TRUE, {"analyst"})},
     asked \in {<<{"writer"}, {}>>, <<{"writer"}, {"shell"}>>, <<{"coder"}, {}>>},
     from \in {{"crm"}, {"crm", "hr"}},
     items \in {{}, {Confidential}, {Unlabelled, Confidential}, {Others}, {Restricted}, {Injected, Own}},
     call \in {NoModel, Base.model, [Base.model EXCEPT !.region = "abroad"],
               [Base.model EXCEPT !.region = ""]},
     minimised \in {<<TRUE, FALSE>>, <<FALSE, TRUE>>, <<FALSE, FALSE>>},
     text \in {<<NoResponse, 0>>, <<Text(TRUE, FALSE, {}, {}), 1>>,
               <<Text(FALSE, TRUE, {}, {}), 1>>, <<Text(TRUE, FALSE, {}, {Restricted}), 1>>,
               <<Text(FALSE, FALSE, {}, {}), 2>>}}

\* Who asks, over which channel, of which model, and in which words.
DeclaredContexts ==
  {[Base EXCEPT !.principal = [Who(authenticated, mfa, delegated, {"analyst"}) EXCEPT !.channel = channel],
                !.model.provider = provider, !.model.region = region,
                !.prompt.injection = injection, !.response.phrases = phrases] :
     authenticated \in BOOLEAN, mfa \in BOOLEAN, delegated \in BOOLEAN,
     channel \in {"web", "sms"}, provider \in {"p", "q", ""}, region \in {"home", "abroad", ""},
     injection \in BOOLEAN, phrases \in SUBSET {"code word", "greeting"}}

WideContexts == AskedContexts \union DeclaredContexts

\* A journey stopped at once, one left undecided, one masked and released.
FewContexts ==
  {[Base EXCEPT !.principal = Who(FALSE, FALSE, TRUE, {"analyst"})],
   [Base EXCEPT !.retrieved = {Unlabelled}],
   [Base EXCEPT !.response = Text(TRUE, FALSE, {}, {})]}

RetrievedContexts ==
  {[Base EXCEPT !.retrieved = items, !.model.region = region] :
     items \in SUBSET {Own, Confidential, Unlabelled, Others, Ownerless},
     region \in {"home", "abroad", ""}}
=============================================================================
