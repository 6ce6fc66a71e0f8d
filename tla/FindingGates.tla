----------------------------- MODULE FindingGates -----------------------------
(***************************************************************************)
(* How one answer of the assessment model becomes a Finding, and how the   *)
(* critic's answer changes it: the schema gate (guardrails/schema.py), the *)
(* citation gate (guardrails/citations.py) and the finding-level rules of  *)
(* the assessor and critic agents (agents/assessor.py, agents/critic.py).  *)
(*                                                                         *)
(* Kept of a finding: its status, its citations, the critic's verdict and  *)
(* the maturity of the evidence behind it.  The texts (rationale, gaps,    *)
(* recommendation, quotes, notes) and the confidence are left out.         *)
(***************************************************************************)
EXTENDS Integers, FiniteSets, Sequences

CONSTANTS
  Controls,      \* the control ids of the loaded corpus
  Phantom,       \* a control id that is not in the corpus
  Blank,         \* the empty control id a model may cite
  Frameworks,    \* the framework packs of the corpus
  FrameworkOf,   \* Control.framework
  WeightOf,      \* Control.weight
  DomainOf,      \* Control.assurance_domain
  Critical,      \* the controls with Control.critical
  BindingLaw     \* the frameworks whose pack's obligation is BINDING_LAW

ASSUME CorpusAssumption ==
  /\ IsFiniteSet(Controls)
  /\ Phantom \notin Controls /\ Blank \notin Controls /\ Phantom # Blank
  /\ FrameworkOf \in [Controls -> Frameworks]
  /\ WeightOf \in [Controls -> Nat]
  /\ Critical \subseteq Controls
  /\ BindingLaw \subseteq Frameworks

Status == {"compliant", "partial", "non_compliant", "not_applicable", "not_assessable"}
Judged == {"compliant", "partial", "non_compliant"}
EvidenceMaturity ==
  {"runtime_verified", "config_export", "document", "design", "simulated", "none"}
Sources == {"corpus", "platform_config", "client_evidence"}

Citation == [control_id : Controls \union {Phantom}, source : Sources]

Finding ==
  [status : Status, citations : SUBSET Citation,
   critic_verdict : {"not_reviewed", "upheld", "downgraded"},
   evidence_maturity : EvidenceMaturity]

NoFinding == [none |-> "finding"]

-----------------------------------------------------------------------------
(***************************************************************************)
(* The assessor's answer.                                                  *)
(***************************************************************************)

\* SchemaGate.parse_finding: an answer fits the schema when it is a JSON object
\* whose status is one of the five; the other fields have defaults.
FitsSchema(reply) == "status" \in DOMAIN reply /\ reply.status \in Status

\* RawCitation._known_source and the Citation the assessor builds: a source the
\* schema does not know counts as "corpus", a blank id as the control itself.
Cited(c, raw) ==
  [control_id |-> IF raw.control_id = Blank THEN c ELSE raw.control_id,
   source |-> IF raw.source \in Sources THEN raw.source ELSE "corpus"]

\* AssessorAgent._unassessable: it cites the control and keeps no evidence.
Unassessable(c) ==
  [status |-> "not_assessable",
   citations |-> {[control_id |-> c, source |-> "corpus"]},
   critic_verdict |-> "not_reviewed",
   evidence_maturity |-> "none"]

\* A citation the gate keeps: of the corpus only what was retrieved for the
\* control or the control itself.
Retrievable(c, cite, retrieved) ==
  cite.source = "corpus" => cite.control_id \in Controls \intersect (retrieved \union {c})

\* Mutant of enforce: the gate asks for a corpus citation before it drops the
\* ones that were not retrieved.
enforce_AnyCitation(c, f, retrieved, require) ==
  IF ~require \/ f.status \notin Judged THEN f
  ELSE LET kept == {cite \in f.citations : Retrievable(c, cite, retrieved)}
       IN  [f EXCEPT !.citations = kept,
                     !.status = IF \E cite \in f.citations : cite.source = "corpus"
                                THEN f.status ELSE "not_assessable"]

\* CitationGate.enforce
enforce(c, f, retrieved, require) ==
  IF ~require \/ f.status \notin Judged THEN f
  ELSE LET kept == {cite \in f.citations : Retrievable(c, cite, retrieved)}
       IN  [f EXCEPT !.citations = kept,
                     !.status = IF \E cite \in kept : cite.source = "corpus"
                                THEN f.status ELSE "not_assessable"]

\* AssessorAgent._assess_one, from the model's answer on.
Assessed(c, reply, maturity, retrieved, require) ==
  IF ~FitsSchema(reply) THEN Unassessable(c)
  ELSE enforce(c, [status |-> reply.status,
                   citations |-> {Cited(c, raw) : raw \in reply.citations},
                   critic_verdict |-> "not_reviewed",
                   evidence_maturity |-> maturity], retrieved, require)

-----------------------------------------------------------------------------
(***************************************************************************)
(* The critic's answer.                                                    *)
(***************************************************************************)

Downgradable == {"compliant", "partial"}

\* critic.py's _DOWNGRADE
Downgrade(status) == IF status = "compliant" THEN "partial" ELSE "non_compliant"

\* CriticAgent._worth_reviewing
WorthReviewing(c, f) ==
  /\ f.status \in Downgradable
  /\ WeightOf[c] >= 4 \/ (FrameworkOf[c] \in BindingLaw /\ f.status = "compliant")

\* SchemaGate.parse_critic: whatever is not a verdict upholds the finding.
CriticVerdict(reply) == IF reply = "downgraded" THEN "downgraded" ELSE "upheld"

\* CriticAgent.run, from the model's answer on.
Reviewed(f, reply) ==
  IF CriticVerdict(reply) = "downgraded" /\ f.status \in Downgradable
  THEN [f EXCEPT !.status = Downgrade(f.status), !.critic_verdict = "downgraded"]
  ELSE [f EXCEPT !.critic_verdict = "upheld"]
===============================================================================
