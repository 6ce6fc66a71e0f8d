----------------------------- MODULE OfflineRules -----------------------------
(***************************************************************************)
(* The offline provider (llm/providers.py, OfflineProvider): the rules     *)
(* that answer the assessor and the critic without a model.                *)
(*                                                                         *)
(* Of the evidence declared for a control the rules read how often its     *)
(* words and phrases say that something is done, or is not.  Which words   *)
(* and phrases these are is left out: the counts are data.                 *)
(***************************************************************************)
EXTENDS FindingGates

CONSTANTS
  TransferControls,  \* the controls about transfers abroad, by the end of their ids
  CrossBorder        \* what the platform's facts say of cross_border_transfer

ASSUME OfflineAssumption == TransferControls \subseteq Controls /\ CrossBorder \in BOOLEAN

\* What is declared for a control: whether there is text, whether a source is
\* named, and what _word_hits and _pattern_hits count in both together.
Declared ==
  [text : BOOLEAN, source : BOOLEAN, maturity : EvidenceMaturity,
   neg : Nat, tokens : Nat, patterns : Nat]

\* The assessor puts the name of the source behind the text, even behind none.
Supplied(d) == d.text \/ d.source

\* The maturity of a finding is that of the text.
MaturityOf(d) == IF d.text THEN d.maturity ELSE "none"

\* Weight of evidence, and what phrases alone can never establish.
weigh(d) ==
  LET pos == d.tokens + d.patterns
  IN  IF d.neg > pos THEN "non_compliant"
      ELSE IF pos = 0 THEN "not_assessable"
      ELSE IF d.neg > 0 \/ pos = 1 \/ d.tokens = 0 THEN "partial"
      ELSE "compliant"

\* OfflineProvider._assess, its status: a control about transfers abroad of a
\* platform that has some is at most partly met.
status_of(c, d) ==
  IF ~Supplied(d) THEN "not_assessable"
  ELSE IF weigh(d) = "compliant" /\ CrossBorder /\ c \in TransferControls THEN "partial"
  ELSE weigh(d)

\* OfflineProvider._assess for the assessor: it always cites the control.
answer(c, d) ==
  [status |-> status_of(c, d), cost |-> 0,
   citations |-> {[control_id |-> c, source |-> "corpus"]}
     \union IF Supplied(d) THEN {[control_id |-> c, source |-> "client_evidence"]} ELSE {}]

\* OfflineProvider._assess for the critic.  CriticAgent._review only writes the
\* maturity into the prompt when it is not "none", though the rule asks for it.
\* Weak says what the rule finds in the prompt.
Weak(d) == d.maturity \in {"design", "simulated"}
review(f, d) == IF Weak(d) /\ f.status = "compliant" THEN "downgraded" ELSE "upheld"

\* One control's way through the assessor and, when it is looked at, the critic.
Baseline(c, d, retrieved, require) == Assessed(c, answer(c, d), MaturityOf(d), retrieved, require)
Criticised(c, d, f) == IF WorthReviewing(c, f) THEN Reviewed(f, review(f, d)) ELSE f
===============================================================================
