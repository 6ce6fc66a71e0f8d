------------------------ MODULE AssessmentDeliverables ------------------------
(***************************************************************************)
(* What is made of a report: the remediation plan and the list of what     *)
(* could not be assessed (reporting/render.py), and the evaluation of a    *)
(* run over a golden set (evals/harness.py), whose verdict is the exit     *)
(* code of `muraqib evaluate` (cli.py).                                    *)
(***************************************************************************)
EXTENDS AssessmentPipeline

CONSTANTS
  TitleOf,      \* a control's lower-cased title, as its place in the alphabet
  ReportOrder,  \* the controls by framework and id, as report.findings has them
  GoldenSets    \* golden sets for the platform of the run: lists of cases

ASSUME DeliverablesAssumption ==
  /\ TitleOf \in [Controls -> Nat]
  /\ ReportOrder \in Seq(Controls)
  /\ \A c \in Controls : Cardinality(Places(c, ReportOrder)) = 1
  /\ GoldenSets \subseteq Seq([control_id : Controls \union {Phantom}, expected : Status])

-----------------------------------------------------------------------------
\* The section "What could not be assessed" of render_markdown.
BlindSpots(findings) == WithStatus(findings, Controls, {"not_assessable"})

\* Mutant of ToFix: a partial finding is left out of the plan.
ToFix_FailuresOnly(findings) == WithStatus(findings, Controls, {"non_compliant"})

ToFix(findings) == WithStatus(findings, Controls, {"non_compliant", "partial"})

\* The row of a title has all its findings and the weight of the first of them.
Row(findings, title) ==
  LET places == {i \in 1..Len(ReportOrder) :
                   ReportOrder[i] \in ToFix(findings) /\ TitleOf[ReportOrder[i]] = title}
      ids == Picked(ReportOrder, places)
  IN  [weight |-> WeightOf[Head(ids)], title |-> title, ids |-> ids]

Before(row, other) ==
  \/ row.weight > other.weight
  \/ row.weight = other.weight /\ row.title < other.title

\* render_remediation_plan
Plan(findings) ==
  LET rows == {Row(findings, TitleOf[c]) : c \in ToFix(findings)}
  IN  Enumerate(rows, {pair \in rows \X rows : Before(pair[1], pair[2])})

-----------------------------------------------------------------------------
Optimistic == {"compliant", "partial"}

\* findings.get(cid)
FindingFor(findings, case) ==
  IF case.control_id \in Controls THEN findings[case.control_id] ELSE NoFinding

CitedOk(f) ==
  \/ f.status \in {"not_assessable", "not_applicable"}
  \/ \E cite \in f.citations : cite.source = "corpus" /\ cite.control_id \in Controls

\* Mutant of Counted: a case without a finding is passed over before it counts.
Counted_Found(findings, golden) ==
  {i \in 1..Len(golden) : FindingFor(findings, golden[i]) # NoFinding}

\* The cases of result.total.
Counted(findings, golden) == 1..Len(golden)

\* run_evaluation's counts for one platform.  A control counts as retrieved when
\* it has a finding (retrieved_map); a case without one is in the total only.
EvalResult(findings, golden) ==
  LET got(i) == FindingFor(findings, golden[i])
      found == {i \in 1..Len(golden) : got(i) # NoFinding}
      negative == {i \in found : golden[i].expected \in {"non_compliant", "not_assessable"}}
      silent == {i \in found : golden[i].expected = "not_assessable"}
  IN  [total |-> Cardinality(Counted(findings, golden)),
       retrieval_hits |-> Cardinality(found),
       citation_valid |-> Cardinality({i \in found : CitedOk(got(i))}),
       status_correct |-> Cardinality({i \in found : got(i).status = golden[i].expected}),
       optimistic_eligible |-> Cardinality(negative),
       over_claims |-> Cardinality({i \in negative : got(i).status \in Optimistic}),
       abstention_cases |-> Cardinality(silent),
       abstention_correct |-> Cardinality({i \in silent : got(i).status = "not_assessable"})]

\* A rate of at least so many tenths; a rate of nothing is 0.
Reaches(tenths, num, den) == den > 0 /\ 10 * num >= tenths * den

\* EvalResult.passed, with THRESHOLDS in tenths
Passed(result) ==
  /\ Reaches(7, result.status_correct, result.total)
  /\ Reaches(9, result.retrieval_hits, result.total)
  /\ Reaches(10, result.citation_valid, result.total)
  /\ 10 * result.over_claims <= result.optimistic_eligible
  /\ result.abstention_cases = 0 \/ Reaches(9, result.abstention_correct, result.abstention_cases)

-----------------------------------------------------------------------------
(***************************************************************************)
(* Properties.                                                             *)
(***************************************************************************)

\* Nothing that is wrong is left out or said twice: every failing or partial
\* finding is in exactly one row of the plan, findings of one title are in the
\* same row, and the rows go from the heaviest down (render.py:236-237); and
\* unless the budget cut the run, what is in scope and not judged is among what
\* "could not be assessed" (README.md:92).
NothingUnsaid ==
  OnReport /\ pc = "save" =>
    LET findings == state.report.findings
        plan == Plan(findings)
        rows(c) == {i \in 1..Len(plan) : \E j \in 1..Len(plan[i].ids) : plan[i].ids[j] = c}
    IN  /\ \A c \in Controls :
             Cardinality(rows(c)) =
               IF findings[c] # NoFinding /\ findings[c].status \in {"non_compliant", "partial"}
               THEN 1 ELSE 0
        /\ \A c, d \in Controls :
             rows(c) # {} /\ rows(d) # {} => (rows(c) = rows(d) <=> TitleOf[c] = TitleOf[d])
        /\ \A i \in 1..Len(plan) : \A j \in i..Len(plan) : plan[i].weight >= plan[j].weight
        /\ "budget_exceeded" \notin ledger.noted =>
             InScope \subseteq BlindSpots(findings)
               \union WithStatus(findings, Controls, Judged \union {"not_applicable"})

\* What a passed evaluation means, whatever its rates leave out of their
\* denominators: there was a case, each was assessed and abstains or cites the
\* corpus, and among those whose truth is a failure or silence at most one in
\* ten was claimed to comply, even in part (harness.py:9-16, :37-44).
GateMeans ==
  OnReport /\ pc = "save" =>
    \A golden \in GoldenSets :
      LET findings == state.report.findings
          cases == 1..Len(golden)
          got(i) == FindingFor(findings, golden[i])
      IN  Passed(EvalResult(findings, golden)) =>
            /\ golden # << >>
            /\ \A i \in cases : /\ got(i) # NoFinding
                                /\ got(i).status \in Judged =>
                                     \E cite \in got(i).citations : cite.source = "corpus"
            /\ LET untrue == {i \in cases : golden[i].expected \in {"non_compliant", "not_assessable"}}
               IN  10 * Cardinality({i \in untrue : got(i).status \in {"compliant", "partial"}})
                     <= Cardinality(untrue)
===============================================================================
