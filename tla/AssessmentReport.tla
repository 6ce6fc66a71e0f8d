--------------------------- MODULE AssessmentReport ---------------------------
(***************************************************************************)
(* The arithmetic of the report (agents/reporter.py): coverage per         *)
(* framework and per assurance domain, the production assurance claim and  *)
(* the blocking gaps, all of them functions of the findings of a run.      *)
(*                                                                         *)
(* Percentages are kept as exact fractions, before they are rounded to two *)
(* places.  A status scores in halves and a maturity weighs in hundredths, *)
(* so that the sums stay integers.                                         *)
(***************************************************************************)
EXTENDS FindingGates, Enumeration

CONSTANTS
  Selected,   \* state.frameworks; a caller may name a framework twice
  Scope       \* corpus.controls(state.frameworks), in order

Places(x, seq) == {i \in 1..Len(seq) : seq[i] = x}

\* Each selected framework contributes each of its controls once.
ASSUME ScopeAssumption ==
  /\ Selected \in Seq(Frameworks)
  /\ Scope \in Seq(Controls)
  /\ \A c \in Controls :
       Cardinality(Places(c, Scope)) = Cardinality(Places(FrameworkOf[c], Selected))

InScope == {Scope[i] : i \in 1..Len(Scope)}

ProductionGrade == {"runtime_verified", "config_export"}

\* STATUS_SCORE, in halves
Score(f) == CASE f.status = "compliant" -> 2 [] f.status = "partial" -> 1 [] OTHER -> 0

\* MATURITY_WEIGHT, in hundredths
MaturityWeight(f) ==
  CASE f.evidence_maturity = "runtime_verified" -> 100
    [] f.evidence_maturity = "config_export" -> 85
    [] f.evidence_maturity = "document" -> 60
    [] f.evidence_maturity = "design" -> 35
    [] f.evidence_maturity = "simulated" -> 25
    [] OTHER -> 0

\* Mutant of CountsTowardCoverage: what could not be assessed weighs nothing.
CountsTowardCoverage_Judged(f) == f.status \in Judged

\* Finding.counts_toward_coverage
CountsTowardCoverage(f) == f.status # "not_applicable"

Found(findings) == {c \in Controls : findings[c] # NoFinding}

WithStatus(findings, cs, statuses) ==
  {c \in cs : findings[c] # NoFinding /\ findings[c].status \in statuses}

\* A share of nothing is 0.
Share(num, den) == [num |-> IF den = 0 THEN 0 ELSE num, den |-> IF den = 0 THEN 1 ELSE den]

Weighed(findings, cs) == {c \in cs : findings[c] # NoFinding /\ CountsTowardCoverage(findings[c])}

\* The sums _coverage_for, _domain_coverage and run() make over some controls.
Weighing(findings, cs) ==
  LET counted == Weighed(findings, cs)
      weight == SumOf(WeightOf, counted)
      earned == SumOf([c \in counted |-> WeightOf[c] * Score(findings[c])], counted)
      assured == SumOf([c \in counted |-> WeightOf[c] * Score(findings[c]) * MaturityWeight(findings[c])],
                       counted)
  IN  [weighted |-> Share(earned, 2 * weight), assurance |-> Share(assured, 200 * weight)]

Coverage(findings, cs, total) ==
  LET assessed == Cardinality(WithStatus(findings, cs, Judged))
      na == Cardinality(WithStatus(findings, cs, {"not_applicable"}))
  IN  [total |-> total, assessed |-> assessed, not_applicable |-> na,
       not_assessable |-> Cardinality(WithStatus(findings, cs, {"not_assessable"})),
       coverage |-> Share(assessed, total - na),
       weighing |-> Weighing(findings, cs)]

\* ReporterAgent._coverage_for
FrameworkCoverage(findings, fw) ==
  LET pack == {c \in Controls : FrameworkOf[c] = fw}
  IN  Coverage(findings, pack, Cardinality(pack))

\* ReporterAgent._domain_coverage: len(controls) counts a control as often as
\* its framework is selected.
DomainCoverage(findings, d) ==
  LET places == {i \in 1..Len(Scope) : DomainOf[Scope[i]] = d}
      cs == {Scope[i] : i \in places}
  IN  [cover |-> Coverage(findings, cs, Cardinality(places)),
       critical_failures |-> WithStatus(findings, cs \intersect Critical, {"non_compliant"}),
       critical_unevidenced |-> WithStatus(findings, cs \intersect Critical, {"not_assessable"})]

-----------------------------------------------------------------------------
\* What stops the claim: a critical control that fails, that could not be
\* assessed, or whose evidence is not of production grade.
Blocks(f) ==
  \/ f.status \in {"non_compliant", "not_assessable"}
  \/ f.status \in {"compliant", "partial"} /\ f.evidence_maturity \notin ProductionGrade

\* Mutant of AssuranceClaim: every production-grade finding counts, judged or not.
AssuranceClaim_AllGraded(findings) ==
  LET blockers == {c \in Found(findings) \intersect Critical : Blocks(findings[c])}
  IN  [permitted |-> blockers = {}, blockers |-> blockers,
       production_grade_controls |->
         Cardinality({c \in Found(findings) : findings[c].evidence_maturity \in ProductionGrade}),
       total_assessed |-> Cardinality(WithStatus(findings, Controls, Judged))]

\* Mutant of AssuranceClaim: only a failing critical control blocks.
AssuranceClaim_FailuresOnly(findings) ==
  LET judged == WithStatus(findings, Controls, Judged)
      blockers == {c \in judged \intersect Critical : Blocks(findings[c])}
  IN  [permitted |-> blockers = {}, blockers |-> blockers,
       production_grade_controls |->
         Cardinality({c \in judged : findings[c].evidence_maturity \in ProductionGrade}),
       total_assessed |-> Cardinality(judged)]

\* ReporterAgent._assurance_claim: it looks at the findings there are.
AssuranceClaim(findings) ==
  LET judged == WithStatus(findings, Controls, Judged)
      blockers == {c \in Found(findings) \intersect Critical : Blocks(findings[c])}
  IN  [permitted |-> blockers = {}, blockers |-> blockers,
       production_grade_controls |->
         Cardinality({c \in judged : findings[c].evidence_maturity \in ProductionGrade}),
       total_assessed |-> Cardinality(judged)]

\* ReporterAgent._blocking_gaps
BlockingGaps(findings) ==
  {c \in WithStatus(findings, Controls, {"non_compliant"}) :
     WeightOf[c] >= 5 /\ FrameworkOf[c] \in BindingLaw}

\* overall_coverage_pct and, from Weighing, the two overall posture figures.
OverallCoverage(findings) ==
  LET places == 1..Len(Selected)
      cover == [i \in places |-> FrameworkCoverage(findings, Selected[i])]
  IN  Share(SumOf([i \in places |-> cover[i].assessed], places),
            SumOf([i \in places |-> cover[i].total - cover[i].not_applicable], places))

Overall(findings) == Weighing(findings, Controls)

\* The AssessmentReport that ReporterAgent.run builds.  Its other fields are the
\* functions of the findings above; they are evaluated where they are needed.
ReportOf(findings, usage) == [findings |-> findings, usage |-> usage]

NoReport == [none |-> "report"]
===============================================================================
