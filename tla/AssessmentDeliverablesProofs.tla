--------------------- MODULE AssessmentDeliverablesProofs ---------------------
(***************************************************************************)
(* What a report and a passed evaluation mean, for every corpus, every     *)
(* golden set, every answer of the models and any number of processes.     *)
(***************************************************************************)
EXTENDS AssessmentDeliverables, OfflineRules, AssessmentPipelineProofs, EnumerationProofs

-----------------------------------------------------------------------------
(***************************************************************************)
(* The report.                                                             *)
(***************************************************************************)

\* The report a process is about to save is of the findings in memory.
LEMMA ReportedFindings ==
  ASSUME TypeOK, StageTellsData, OnReport
  PROVE  /\ state.report.findings = state.findings /\ state.stage = "complete"
         /\ state.findings \in [Controls -> Finding \union {NoFinding}]
<1>1. state.report = ReportOf(state.findings, state.usage)  BY DEF TypeOK, OnReport
<1>2. state.stage = "complete"  BY DEF StageTellsData, StageAgrees, OnReport
<1>3. state.findings \in [Controls -> Finding \union {NoFinding}]  BY DEF TypeOK, RunStates
<1> QED BY <1>1, <1>2, <1>3 DEF ReportOf

\* A finding that does not block the claim satisfies its control.
LEMMA UnblockedSatisfied ==
  ASSUME NEW f \in Finding, ~Blocks(f), f # NoFinding
  PROVE  Satisfied(f)
BY DEF Blocks, Satisfied, Finding, Status

\* A permitted claim is true of every report that no budget cut: each critical
\* control in scope has a finding, and none of them blocks
\* (ReporterAgent._assurance_claim).
THEOREM ClaimAlwaysHonest == Spec => []ClaimHonestWhenComplete
<1>1. TypeOK /\ StageTellsData /\ PartialOnRecord => ClaimHonestWhenComplete
  <2> SUFFICES ASSUME TypeOK, StageTellsData, PartialOnRecord, OnReport,
                      "budget_exceeded" \notin ledger.noted,
                      AssuranceClaim(state.report.findings).permitted,
                      NEW c \in InScope \intersect Critical
               PROVE  Satisfied(state.report.findings[c])
    BY DEF ClaimHonestWhenComplete, ClaimTrue
  <2>1. /\ state.report.findings = state.findings /\ state.stage = "complete"
        /\ state.findings \in [Controls -> Finding \union {NoFinding}]
    BY ReportedFindings
  <2>2. state.findings[c] # NoFinding  BY <2>1 DEF PartialOnRecord
  <2>3. c \in Controls  BY ScopeInControls
  <2>4. {k \in Found(state.findings) \intersect Critical : Blocks(state.findings[k])} = {}
    BY <2>1 DEF AssuranceClaim
  <2>5. ~Blocks(state.findings[c])  BY <2>2, <2>3, <2>4 DEF Found
  <2> QED BY <2>1, <2>2, <2>3, <2>5, UnblockedSatisfied
<1> QED BY <1>1, PipelineTypeOK, StageAlwaysTellsData, PartialAlwaysOnRecord, PTL

-----------------------------------------------------------------------------
(***************************************************************************)
(* The posture.                                                            *)
(***************************************************************************)

Findings == [Controls -> Finding \union {NoFinding}]

\* What a control adds to the sums of Weighing.
Earned(F, S) == [c \in S |-> WeightOf[c] * Score(F[c])]
Assured(F, S) == [c \in S |-> WeightOf[c] * Score(F[c]) * MaturityWeight(F[c])]

LEMMA PointsBound ==
  ASSUME NEW F, NEW S \in SUBSET Controls
  PROVE  /\ IsFiniteSet(S)
         /\ Numbered(WeightOf, S) /\ Numbered(Earned(F, S), S) /\ Numbered(Assured(F, S), S)
         /\ \A c \in S : /\ Earned(F, S)[c] <= 2 * WeightOf[c]
                         /\ Assured(F, S)[c] <= 100 * Earned(F, S)[c]
<1>1. IsFiniteSet(S)  BY CorpusAssumption, FS_Subset
<1>2. \A c \in S : WeightOf[c] \in Nat  BY CorpusAssumption
<1>3. \A c \in S : Score(F[c]) \in {0, 1, 2}  BY DEF Score
<1>4. \A c \in S : MaturityWeight(F[c]) \in 0..100  BY DEF MaturityWeight
<1>5. \A w \in Nat : \A s \in {0, 1, 2} : w * s \in Nat /\ w * s <= 2 * w
  OBVIOUS
<1>6. \A e \in Nat : \A m \in 0..100 : e * m \in Nat /\ e * m <= 100 * e
  <2>1. \A e \in Nat : \A m \in 0..100 : e * m \in Nat
    OBVIOUS
  <2>2. \A e \in Nat : \A m \in 0..100 : e * (100 - m) \in Nat /\ e * (100 - m) = 100 * e - e * m
    OBVIOUS
  <2> QED BY <2>1, <2>2
<1>7. \A c \in S : /\ Earned(F, S)[c] = WeightOf[c] * Score(F[c])
                   /\ Assured(F, S)[c] = (WeightOf[c] * Score(F[c])) * MaturityWeight(F[c])
  BY DEF Earned, Assured
<1>8. \A c \in S : Earned(F, S)[c] \in Nat /\ Earned(F, S)[c] <= 2 * WeightOf[c]
  BY <1>2, <1>3, <1>5, <1>7
<1>9. \A c \in S : Assured(F, S)[c] \in Nat /\ Assured(F, S)[c] <= 100 * Earned(F, S)[c]
  BY <1>4, <1>6, <1>7, <1>8
<1> QED BY <1>1, <1>2, <1>8, <1>9 DEF Numbered

\* The sums are numbers, a score is at most whole and evidence only discounts it.
LEMMA PointsSum ==
  ASSUME NEW F, NEW S \in SUBSET Controls
  PROVE  /\ SumOf(WeightOf, S) \in Nat
         /\ SumOf(Earned(F, S), S) \in Nat /\ SumOf(Assured(F, S), S) \in Nat
         /\ SumOf(Earned(F, S), S) <= 2 * SumOf(WeightOf, S)
         /\ SumOf(Assured(F, S), S) <= 100 * SumOf(Earned(F, S), S)
<1> DEFINE e == Earned(F, S)
           a == Assured(F, S)
           double == [c \in S |-> 2 * WeightOf[c]]
           hundred == [c \in S |-> 100 * e[c]]
<1>1. /\ IsFiniteSet(S) /\ Numbered(WeightOf, S) /\ Numbered(e, S) /\ Numbered(a, S)
      /\ \A c \in S : e[c] <= 2 * WeightOf[c] /\ a[c] <= 100 * e[c]
  BY PointsBound
<1> HIDE DEF e, a
<1>2. SumOf(WeightOf, S) \in Nat /\ SumOf(e, S) \in Nat /\ SumOf(a, S) \in Nat
  BY <1>1, SumNat
<1>3. SumOf(double, S) = 2 * SumOf(WeightOf, S) /\ SumOf(hundred, S) = 100 * SumOf(e, S)
  <2>1. 2 \in Nat /\ 100 \in Nat
    OBVIOUS
  <2> QED BY <1>1, <2>1, SumTimes
<1>4. /\ Numbered(double, S) /\ Numbered(hundred, S)
      /\ \A c \in S : e[c] <= double[c] /\ a[c] <= hundred[c]
  <2>1. \A c \in S : WeightOf[c] \in Nat /\ e[c] \in Nat  BY <1>1 DEF Numbered
  <2> QED BY <1>1, <2>1 DEF Numbered
<1> HIDE DEF double, hundred
<1>5. SumOf(e, S) <= SumOf(double, S) /\ SumOf(a, S) <= SumOf(hundred, S)
  BY <1>1, <1>4, SumGrows
<1> QED BY <1>2, <1>3, <1>5 DEF e, a

\* The two figures of a posture.
LEMMA WeighingSums ==
  ASSUME NEW F, NEW cs
  PROVE  LET S == Weighed(F, cs)
         IN  /\ Weighing(F, cs).weighted = Share(SumOf(Earned(F, S), S), 2 * SumOf(WeightOf, S))
             /\ Weighing(F, cs).assurance = Share(SumOf(Assured(F, S), S), 200 * SumOf(WeightOf, S))
BY DEF Weighing, Earned, Assured

\* A control that could not be assessed costs: had its finding been dropped,
\* the posture would be higher (CitationGate.enforce, ReporterAgent.run).
LEMMA DroppedCounts ==
  ASSUME NEW F \in Findings, NEW c \in WithStatus(F, Controls, {"not_assessable"}),
         LET dropped == Overall([F EXCEPT ![c] = NoFinding]).weighted IN dropped.num > 0,
         WeightOf[c] > 0
  PROVE  ~NotMore(Overall([F EXCEPT ![c] = NoFinding]).weighted, Overall(F).weighted)
<1> DEFINE D == [F EXCEPT ![c] = NoFinding]
           S == Weighed(F, Controls)
           T == Weighed(D, Controls)
<1>1. c \in Controls /\ F[c] # NoFinding /\ F[c].status = "not_assessable" /\ Score(F[c]) = 0
  BY DEF WithStatus, Score
<1>2. D[c] = NoFinding /\ \A x \in Controls : x # c => D[x] = F[x]
  BY <1>1 DEF Findings
<1>3. S \in SUBSET Controls /\ c \in S /\ T = S \ {c} /\ T \in SUBSET Controls
  BY <1>1, <1>2 DEF Weighed, CountsTowardCoverage
<1> HIDE DEF S, T
<1>4. WeightOf[c] \in Nat  BY <1>1, CorpusAssumption
<1>5. SumOf(WeightOf, S) = SumOf(WeightOf, T) + WeightOf[c]
  <2>1. IsFiniteSet(S) /\ Numbered(WeightOf, S)  BY <1>3, PointsBound
  <2> QED BY <1>3, <2>1, SumWithout
<1>6. SumOf(Earned(F, S), S) = SumOf(Earned(D, T), T)
  <2>1. IsFiniteSet(S) /\ Numbered(Earned(F, S), S)  BY <1>3, PointsBound
  <2>2. SumOf(Earned(F, S), S) = SumOf(Earned(F, S), T) + Earned(F, S)[c]
    BY <1>3, <2>1, SumWithout
  <2>3. Earned(F, S)[c] = 0  BY <1>1, <1>3, <1>4 DEF Earned
  <2>4. \A x \in T : Earned(F, S)[x] = Earned(D, T)[x]  BY <1>2, <1>3 DEF Earned
  <2>5. SumOf(Earned(F, S), T) = SumOf(Earned(D, T), T)  BY <2>4, SumSame
  <2>6. SumOf(Earned(D, T), T) \in Nat  BY <1>3, PointsSum
  <2> QED BY <2>2, <2>3, <2>5, <2>6
<1> DEFINE E == SumOf(Earned(D, T), T)
           w == SumOf(WeightOf, T)
<1>7. E \in Nat /\ w \in Nat  BY <1>3, PointsSum
<1>8. /\ Overall(D).weighted = Share(E, 2 * w)
      /\ Overall(F).weighted = Share(E, 2 * (w + WeightOf[c]))
  BY <1>5, <1>6, WeighingSums DEF Overall, S, T
<1>9. Overall(D).weighted.num > 0  OBVIOUS
<1> HIDE DEF D, E, w
<1>10. 2 * w # 0 /\ E > 0  BY <1>7, <1>8, <1>9 DEF Share
<1>11. 2 * (w + WeightOf[c]) # 0  BY <1>4, <1>7, <1>10
<1>12. /\ Overall(D).weighted = [num |-> E, den |-> 2 * w]
       /\ Overall(F).weighted = [num |-> E, den |-> 2 * (w + WeightOf[c])]
  BY <1>8, <1>10, <1>11 DEF Share
<1>13. ~(E * (2 * (w + WeightOf[c])) <= E * (2 * w))
  <2>1. E * WeightOf[c] > 0  BY <1>4, <1>7, <1>10
  <2>2. E * (2 * (w + WeightOf[c])) = E * (2 * w) + 2 * (E * WeightOf[c])  BY <1>4, <1>7
  <2>3. E * (2 * w) \in Nat /\ E * WeightOf[c] \in Nat  BY <1>4, <1>7
  <2> QED BY <2>1, <2>2, <2>3
<1> QED BY <1>12, <1>13 DEF NotMore, D

\* A control that could not be assessed costs: the posture of a report is lower
\* than if the finding had been dropped (CitationGate.enforce, ReporterAgent.run).
THEOREM RejectionAlwaysCosts == Spec => []RejectionCosts
<1>1. TypeOK /\ StageTellsData => RejectionCosts
  <2> SUFFICES ASSUME TypeOK, StageTellsData, OnReport
               PROVE  LET findings == state.report.findings
                      IN  \A c \in WithStatus(findings, Controls, {"not_assessable"}) :
                            LET dropped == Overall([findings EXCEPT ![c] = NoFinding]).weighted
                            IN  dropped.num > 0 /\ WeightOf[c] > 0 =>
                                  ~NotMore(dropped, Overall(findings).weighted)
    BY DEF RejectionCosts
  <2>1. state.report.findings \in Findings  BY ReportedFindings DEF Findings
  <2> QED BY <2>1, DroppedCounts
<1> QED BY <1>1, PipelineTypeOK, StageAlwaysTellsData, PTL

-----------------------------------------------------------------------------
(***************************************************************************)
(* The counts of a report.                                                 *)
(***************************************************************************)

\* The scope has finitely many controls, each of a selected framework and each
\* as often as that is selected.
LEMMA ScopeFacts ==
  /\ Len(Scope) \in Nat /\ IsFiniteSet(1..Len(Scope))
  /\ Len(Selected) \in Nat /\ IsFiniteSet(1..Len(Selected))
  /\ \A i \in 1..Len(Scope) : Scope[i] \in Controls /\ Scope[i] \in InScope
  /\ InScope \in SUBSET Controls /\ IsFiniteSet(InScope)
  /\ \A c \in InScope : FrameworkOf[c] \in Selection /\ Places(c, Scope) # {}
<1>1. Len(Scope) \in Nat /\ Len(Selected) \in Nat  BY ScopeAssumption, LenProperties
<1>2. IsFiniteSet(1..Len(Scope)) /\ IsFiniteSet(1..Len(Selected))  BY <1>1, UpTo
<1>3. \A i \in 1..Len(Scope) : Scope[i] \in Controls /\ Scope[i] \in InScope
  BY ScopeAssumption, ElementOfSeq DEF InScope
<1>4. InScope \in SUBSET Controls /\ IsFiniteSet(InScope)
  BY ScopeInControls, CorpusAssumption, FS_Subset
<1>5. ASSUME NEW c \in InScope
      PROVE  FrameworkOf[c] \in Selection /\ Places(c, Scope) # {}
  <2> DEFINE P == Places(c, Scope)
             Q == Places(FrameworkOf[c], Selected)
  <2>1. P \in SUBSET (1..Len(Scope)) /\ Q \in SUBSET (1..Len(Selected)) /\ P # {}
    BY DEF Places, InScope
  <2>2. IsFiniteSet(P) /\ IsFiniteSet(Q)  BY <1>2, <2>1, FS_Subset
  <2>3. Cardinality(P) = Cardinality(Q)  BY <1>4, ScopeAssumption
  <2>4. Q # {}  BY <2>1, <2>2, <2>3, FS_EmptySet
  <2> QED BY <2>1, <2>4 DEF Places, Selection
<1> QED BY <1>1, <1>2, <1>3, <1>4, <1>5

\* What a selection of controls by status is.
LEMMA StatusSet ==
  ASSUME NEW F, NEW cs \in SUBSET Controls, NEW st
  PROVE  /\ WithStatus(F, cs, st) \in SUBSET cs
         /\ IsFiniteSet(WithStatus(F, cs, st)) /\ Cardinality(WithStatus(F, cs, st)) \in Nat
<1>1. WithStatus(F, cs, st) \in SUBSET cs  BY DEF WithStatus
<1>2. WithStatus(F, cs, st) \in SUBSET Controls  BY <1>1
<1> QED BY <1>1, <1>2, CorpusAssumption, FS_Subset, FS_CardinalityType

\* What is judged and what does not apply are different controls: together they
\* are at most all, and all when every control is one or the other.
LEMMA CoverageFits ==
  ASSUME NEW F, NEW cs \in SUBSET Controls
  PROVE  LET judged == WithStatus(F, cs, Judged)
             na == WithStatus(F, cs, {"not_applicable"})
         IN  /\ Cardinality(judged) \in Nat /\ Cardinality(na) \in Nat /\ Cardinality(cs) \in Nat
             /\ Cardinality(judged) + Cardinality(na) <= Cardinality(cs)
             /\ cs = WithStatus(F, cs, Judged \union {"not_applicable"}) =>
                  Cardinality(judged) + Cardinality(na) = Cardinality(cs)
<1> DEFINE J == WithStatus(F, cs, Judged)
           N == WithStatus(F, cs, {"not_applicable"})
<1>1. /\ J \in SUBSET cs /\ IsFiniteSet(J) /\ Cardinality(J) \in Nat
      /\ N \in SUBSET cs /\ IsFiniteSet(N) /\ Cardinality(N) \in Nat
  BY StatusSet
<1>2. IsFiniteSet(cs) /\ Cardinality(cs) \in Nat
  BY CorpusAssumption, FS_Subset, FS_CardinalityType
<1>3. J \intersect N = {}  BY DEF WithStatus, Judged
<1>4. J \union N = WithStatus(F, cs, Judged \union {"not_applicable"})  BY DEF WithStatus
<1> HIDE DEF J, N
<1>5. Cardinality(J \union N) = Cardinality(J) + Cardinality(N)
  <2>1. Cardinality(J \intersect N) = 0  BY <1>3, FS_EmptySet
  <2>2. Cardinality(J \union N)
          = Cardinality(J) + Cardinality(N) - Cardinality(J \intersect N)
    BY <1>1, FS_Union
  <2> QED BY <1>1, <2>1, <2>2
<1>6. Cardinality(J \union N) <= Cardinality(cs)
  <2>1. J \union N \in SUBSET cs  BY <1>1
  <2> QED BY <1>2, <2>1, FS_Subset
<1> QED BY <1>1, <1>2, <1>4, <1>5, <1>6 DEF J, N

\* The frameworks count each judged control once, however often one is selected.
LEMMA FrameworksAddUp ==
  ASSUME NEW F, \A c \in Controls : F[c] # NoFinding => c \in InScope
  PROVE  SumOf([fw \in Selection |-> FrameworkCoverage(F, fw).assessed], Selection)
           = AssuranceClaim(F).total_assessed
<1> DEFINE J == WithStatus(F, Controls, Judged)
           f == [fw \in Selection |-> FrameworkCoverage(F, fw).assessed]
<1>1. IsFiniteSet(J)  BY StatusSet
<1>2. \A c \in J : FrameworkOf[c] \in Selection  BY ScopeFacts DEF WithStatus
<1>3. ASSUME NEW t \in Selection PROVE f[t] = Cardinality(Part(J, FrameworkOf, t))
  <2>1. FrameworkCoverage(F, t).assessed
          = Cardinality(WithStatus(F, {c \in Controls : FrameworkOf[c] = t}, Judged))
    BY DEF FrameworkCoverage, Coverage
  <2>2. WithStatus(F, {c \in Controls : FrameworkOf[c] = t}, Judged) = Part(J, FrameworkOf, t)
    BY DEF WithStatus, Part
  <2> QED BY <2>1, <2>2
<1>4. AssuranceClaim(F).total_assessed = Cardinality(J)  BY DEF AssuranceClaim
<1> HIDE DEF J, f
<1>5. SumOf(f, Selection) = Cardinality(J)  BY <1>1, <1>2, <1>3, SumParts
<1> QED BY <1>4, <1>5 DEF f

\* The controls of an assurance domain, and where they are in the scope.
Members(d) == {c \in InScope : DomainOf[c] = d}
DomainPlaces(d) == {i \in 1..Len(Scope) : DomainOf[Scope[i]] = d}

LEMMA DomainCover ==
  ASSUME NEW F, NEW d
  PROVE  LET cover == DomainCoverage(F, d).cover
             judged == Cardinality(WithStatus(F, Members(d), Judged))
             na == Cardinality(WithStatus(F, Members(d), {"not_applicable"}))
             total == Cardinality(DomainPlaces(d))
         IN  /\ cover.assessed = judged /\ cover.not_applicable = na /\ cover.total = total
             /\ cover.coverage = Share(judged, total - na)
<1>1. {Scope[i] : i \in DomainPlaces(d)} = Members(d)  BY DEF Members, DomainPlaces, InScope
<1>2. DomainCoverage(F, d).cover = Coverage(F, {Scope[i] : i \in DomainPlaces(d)}, Cardinality(DomainPlaces(d)))
  BY DEF DomainCoverage, DomainPlaces
<1> QED BY <1>1, <1>2 DEF Coverage

\* The domains count each judged control once.
LEMMA DomainsAddUp ==
  ASSUME NEW F, \A c \in Controls : F[c] # NoFinding => c \in InScope
  PROVE  SumOf([d \in ScopeDomains |-> DomainCoverage(F, d).cover.assessed], ScopeDomains)
           = AssuranceClaim(F).total_assessed
<1> DEFINE J == WithStatus(F, Controls, Judged)
           f == [d \in ScopeDomains |-> DomainCoverage(F, d).cover.assessed]
<1>1. IsFiniteSet(J)  BY StatusSet
<1>2. \A c \in J : DomainOf[c] \in ScopeDomains  BY DEF WithStatus, ScopeDomains
<1>3. ASSUME NEW t \in ScopeDomains PROVE f[t] = Cardinality(Part(J, DomainOf, t))
  <2>1. DomainCoverage(F, t).cover.assessed = Cardinality(WithStatus(F, Members(t), Judged))
    BY DomainCover
  <2>2. WithStatus(F, Members(t), Judged) = Part(J, DomainOf, t)
    BY ScopeInControls DEF WithStatus, Part, Members
  <2> QED BY <2>1, <2>2
<1>4. AssuranceClaim(F).total_assessed = Cardinality(J)  BY DEF AssuranceClaim
<1> HIDE DEF J, f
<1>5. SumOf(f, ScopeDomains) = Cardinality(J)  BY <1>1, <1>2, <1>3, SumParts
<1> QED BY <1>4, <1>5 DEF f

\* A control of the scope is there once, and once more for each time its
\* framework is selected again.
Repeats == [c \in Controls |-> Cardinality(Places(FrameworkOf[c], Selected)) - 1]

LEMMA DomainSize ==
  ASSUME NEW d
  PROVE  /\ Members(d) \in SUBSET Controls /\ Cardinality(DomainPlaces(d)) \in Nat
         /\ SumOf(Repeats, Members(d)) \in Nat
         /\ Cardinality(DomainPlaces(d)) = Cardinality(Members(d)) + SumOf(Repeats, Members(d))
<1> DEFINE M == Members(d)
           D == DomainPlaces(d)
           times == [c \in M |-> Cardinality(Places(c, Scope))]
           one == [c \in M |-> 1]
<1>1. M \in SUBSET Controls /\ M \in SUBSET InScope /\ IsFiniteSet(M)
  BY ScopeFacts, FS_Subset DEF Members
<1>2. IsFiniteSet(D) /\ Cardinality(D) \in Nat
  <2>1. D \in SUBSET (1..Len(Scope))  BY DEF DomainPlaces
  <2> QED BY <2>1, ScopeFacts, FS_Subset, FS_CardinalityType
<1>3. \A i \in D : Scope[i] \in M  BY ScopeFacts DEF Members, DomainPlaces
<1>4. ASSUME NEW c \in M PROVE times[c] = Cardinality(Part(D, Scope, c))
  <2>1. Part(D, Scope, c) = Places(c, Scope)  BY DEF Part, Places, DomainPlaces, Members
  <2> QED BY <2>1
<1>5. \A c \in M : /\ times[c] = Repeats[c] + 1 /\ Repeats[c] \in Nat /\ times[c] \in Nat
  <2> TAKE c \in M
  <2>1. Places(c, Scope) # {} /\ Places(c, Scope) \in SUBSET (1..Len(Scope))
    BY <1>1, ScopeFacts DEF Places
  <2>2. IsFiniteSet(Places(c, Scope))  BY <2>1, ScopeFacts, FS_Subset
  <2>3. Cardinality(Places(c, Scope)) \in Nat /\ Cardinality(Places(c, Scope)) # 0
    BY <2>1, <2>2, FS_CardinalityType, FS_EmptySet
  <2>4. Repeats[c] = Cardinality(Places(c, Scope)) - 1
    BY <1>1, ScopeAssumption DEF Repeats
  <2>5. times[c] = Cardinality(Places(c, Scope))  OBVIOUS
  <2> HIDE DEF times
  <2> QED BY <2>3, <2>4, <2>5
<1> HIDE DEF M, D, times
<1>6. SumOf(times, M) = Cardinality(D)  BY <1>2, <1>3, <1>4, SumParts
<1>7. SumOf(one, M) = Cardinality(M)
  <2>1. \A c \in M : one[c] = 1  OBVIOUS
  <2> QED BY <1>1, <2>1, SumOnes
<1>8. SumOf(times, M) = SumOf(Repeats, M) + SumOf(one, M)
  <2>1. Numbered(Repeats, M) /\ Numbered(one, M) /\ \A c \in M : times[c] = Repeats[c] + one[c]
    BY <1>5 DEF Numbered
  <2> HIDE DEF one
  <2> QED BY <1>1, <2>1, SumAdds
<1>9. SumOf(Repeats, M) \in Nat
  <2>1. Numbered(Repeats, M)  BY <1>5 DEF Numbered
  <2> QED BY <1>1, <2>1, SumNat
<1>10. Cardinality(M) \in Nat  BY <1>1, FS_CardinalityType
<1> QED BY <1>1, <1>2, <1>6, <1>7, <1>8, <1>9, <1>10 DEF M, D

\* Shares of at most one, however the denominator comes out.
LEMMA ShareAtMostOne ==
  ASSUME NEW num \in Nat, NEW den \in Nat, num <= den
  PROVE  AtMostOne(Share(num, den))
BY DEF AtMostOne, Share

\* A domain covers at most all of its controls, and falls short by what could not
\* be judged and by what is repeated.
LEMMA DomainFits ==
  ASSUME NEW F, NEW d
  PROVE  LET cover == DomainCoverage(F, d).cover
         IN  /\ AtMostOne(cover.coverage)
             /\ Members(d) = WithStatus(F, Members(d), Judged \union {"not_applicable"}) =>
                  cover.total - cover.not_applicable - cover.assessed = SumOf(Repeats, Members(d))
<1> DEFINE j == Cardinality(WithStatus(F, Members(d), Judged))
           n == Cardinality(WithStatus(F, Members(d), {"not_applicable"}))
           t == Cardinality(DomainPlaces(d))
           m == Cardinality(Members(d))
           r == SumOf(Repeats, Members(d))
           all == Members(d) = WithStatus(F, Members(d), Judged \union {"not_applicable"})
<1>1. /\ DomainCoverage(F, d).cover.assessed = j
      /\ DomainCoverage(F, d).cover.not_applicable = n
      /\ DomainCoverage(F, d).cover.total = t
      /\ DomainCoverage(F, d).cover.coverage = Share(j, t - n)
  BY DomainCover
<1>2. t \in Nat /\ r \in Nat /\ t = m + r  BY DomainSize
<1>3. j \in Nat /\ n \in Nat /\ m \in Nat /\ j + n <= m /\ (all => j + n = m)
  BY DomainSize, CoverageFits
<1> HIDE DEF j, n, t, m, r, all
<1>4. t - n \in Nat /\ j <= t - n  BY <1>2, <1>3
<1>5. AtMostOne(Share(j, t - n))  BY <1>3, <1>4, ShareAtMostOne
<1>6. all => t - n - j = r  BY <1>2, <1>3
<1> QED BY <1>1, <1>5, <1>6 DEF all, r

\* Overall, no more is covered than there is to cover.
LEMMA OverallFits == ASSUME NEW F PROVE AtMostOne(OverallCoverage(F))
<1> DEFINE I == 1..Len(Selected)
           pack(i) == {c \in Controls : FrameworkOf[c] = Selected[i]}
           cover == [i \in I |-> FrameworkCoverage(F, Selected[i])]
           a == [i \in I |-> cover[i].assessed]
           b == [i \in I |-> cover[i].total - cover[i].not_applicable]
<1>1. OverallCoverage(F) = Share(SumOf(a, I), SumOf(b, I))  BY DEF OverallCoverage
<1>2. ASSUME NEW i \in I PROVE a[i] \in Nat /\ b[i] \in Nat /\ a[i] <= b[i]
  <2> DEFINE j == Cardinality(WithStatus(F, pack(i), Judged))
             n == Cardinality(WithStatus(F, pack(i), {"not_applicable"}))
             m == Cardinality(pack(i))
  <2>1. a[i] = j /\ b[i] = m - n  BY DEF FrameworkCoverage, Coverage
  <2>2. pack(i) \in SUBSET Controls  OBVIOUS
  <2> HIDE DEF pack
  <2>3. j \in Nat /\ n \in Nat /\ m \in Nat /\ j + n <= m  BY <2>2, CoverageFits
  <2> HIDE DEF j, n, m, a, b
  <2> QED BY <2>1, <2>3
<1> HIDE DEF a, b
<1>3. IsFiniteSet(I)  BY ScopeFacts
<1>4. Numbered(a, I) /\ Numbered(b, I)  BY <1>2 DEF Numbered
<1> HIDE DEF I
<1>5. SumOf(a, I) \in Nat /\ SumOf(b, I) \in Nat /\ SumOf(a, I) <= SumOf(b, I)
  BY <1>2, <1>3, <1>4, SumNat, SumGrows
<1> QED BY <1>1, <1>5, ShareAtMostOne

\* The posture is at most whole and the evidence only discounts it.
LEMMA PostureFits ==
  ASSUME NEW F
  PROVE  /\ AtMostOne(Overall(F).weighted)
         /\ NotMore(Overall(F).assurance, Overall(F).weighted)
<1> DEFINE S == Weighed(F, Controls)
           w == SumOf(WeightOf, S)
           e == SumOf(Earned(F, S), S)
           a == SumOf(Assured(F, S), S)
<1>1. /\ Overall(F).weighted = Share(e, 2 * w)
      /\ Overall(F).assurance = Share(a, 200 * w)
  BY WeighingSums DEF Overall
<1>2. S \in SUBSET Controls  BY DEF Weighed
<1>3. /\ w \in Nat /\ e \in Nat /\ a \in Nat /\ e <= 2 * w /\ a <= 100 * e
  BY <1>2, PointsSum
<1> HIDE DEF w, e, a
<1>4. AtMostOne(Share(e, 2 * w))  BY <1>3, ShareAtMostOne
<1>5. NotMore(Share(a, 200 * w), Share(e, 2 * w))
  <2>1. CASE w = 0
    BY <1>3, <2>1 DEF NotMore, Share
  <2>2. CASE w # 0
    <3>1. /\ Share(a, 200 * w) = [num |-> a, den |-> 200 * w]
          /\ Share(e, 2 * w) = [num |-> e, den |-> 2 * w]
      BY <1>3, <2>2 DEF Share
    <3>2. a * (2 * w) <= e * (200 * w)
      <4>1. (100 * e - a) * w \in Nat  BY <1>3
      <4>2. 2 * ((100 * e - a) * w) = e * (200 * w) - a * (2 * w)  BY <1>3
      <4>3. a * (2 * w) \in Nat /\ e * (200 * w) \in Nat  BY <1>3
      <4> QED BY <4>1, <4>2, <4>3
    <3> QED BY <3>1, <3>2 DEF NotMore
  <2> QED BY <2>1, <2>2
<1> QED BY <1>1, <1>4, <1>5

\* The production-grade controls are among the judged ones, and a critical gap
\* that blocks the report blocks the claim.
LEMMA ClaimFits ==
  ASSUME NEW F
  PROVE  /\ AssuranceClaim(F).production_grade_controls <= AssuranceClaim(F).total_assessed
         /\ BlockingGaps(F) \intersect Critical \subseteq AssuranceClaim(F).blockers
<1> DEFINE J == WithStatus(F, Controls, Judged)
           G == {c \in J : F[c].evidence_maturity \in ProductionGrade}
<1>1. /\ AssuranceClaim(F).production_grade_controls = Cardinality(G)
      /\ AssuranceClaim(F).total_assessed = Cardinality(J)
      /\ AssuranceClaim(F).blockers = {c \in Found(F) \intersect Critical : Blocks(F[c])}
  BY DEF AssuranceClaim
<1>2. IsFiniteSet(J) /\ G \in SUBSET J  BY StatusSet
<1> HIDE DEF J, G
<1>3. Cardinality(G) <= Cardinality(J)  BY <1>2, FS_Subset
<1>4. BlockingGaps(F) \intersect Critical \subseteq {c \in Found(F) \intersect Critical : Blocks(F[c])}
  BY DEF BlockingGaps, WithStatus, Found, Blocks
<1> QED BY <1>1, <1>3, <1>4

\* The counts of every report agree: frameworks, domains and claim count the same
\* controls, no share is over 100 %, and a domain falls short by what a framework
\* named twice repeats (ReporterAgent.run and its helpers).
THEOREM ReportAlwaysAddsUp == Spec => []ReportAddsUp
<1>1. TypeOK /\ StageTellsData /\ ScopeInv => ReportAddsUp
  <2> SUFFICES ASSUME TypeOK, StageTellsData, ScopeInv, OnReport PROVE ReportAddsUp
    BY DEF ReportAddsUp
  <2> DEFINE F == state.report.findings
             domain == [d \in ScopeDomains |-> DomainCoverage(F, d).cover]
  <2>1. \A c \in Controls : F[c] # NoFinding => c \in InScope
    BY ReportedFindings DEF ScopeInv, OnlyScope
  <2>2. SumOf([fw \in Selection |-> FrameworkCoverage(F, fw).assessed], Selection)
          = AssuranceClaim(F).total_assessed
    BY <2>1, FrameworksAddUp
  <2>3. SumOf([d \in ScopeDomains |-> domain[d].assessed], ScopeDomains)
          = AssuranceClaim(F).total_assessed
    <3>1. SumOf([d \in ScopeDomains |-> DomainCoverage(F, d).cover.assessed], ScopeDomains)
            = AssuranceClaim(F).total_assessed
      BY <2>1, DomainsAddUp
    <3>2. [d \in ScopeDomains |-> domain[d].assessed]
            = [d \in ScopeDomains |-> DomainCoverage(F, d).cover.assessed]
      OBVIOUS
    <3> QED BY <3>1, <3>2
  <2>4. ASSUME NEW d \in ScopeDomains
        PROVE  /\ AtMostOne(domain[d].coverage)
               /\ Members(d) = WithStatus(F, Members(d), Judged \union {"not_applicable"}) =>
                    domain[d].total - domain[d].not_applicable - domain[d].assessed
                      = SumOf(Repeats, Members(d))
    <3>1. domain[d] = DomainCoverage(F, d).cover  OBVIOUS
    <3> HIDE DEF domain
    <3> QED BY <3>1, DomainFits
  <2>5. /\ AtMostOne(OverallCoverage(F)) /\ AtMostOne(Overall(F).weighted)
        /\ NotMore(Overall(F).assurance, Overall(F).weighted)
        /\ AssuranceClaim(F).production_grade_controls <= AssuranceClaim(F).total_assessed
        /\ BlockingGaps(F) \intersect Critical \subseteq AssuranceClaim(F).blockers
    BY OverallFits, PostureFits, ClaimFits
  <2> QED BY <2>2, <2>3, <2>4, <2>5 DEF ReportAddsUp, Members, Repeats
<1> QED BY <1>1, PipelineTypeOK, StageAlwaysTellsData, ScopeInvariant, PTL

-----------------------------------------------------------------------------
(***************************************************************************)
(* The remediation plan.                                                   *)
(***************************************************************************)

Rows(F) == {Row(F, TitleOf[c]) : c \in ToFix(F)}
RowsBefore(F) == {pair \in Rows(F) \X Rows(F) : Before(pair[1], pair[2])}

Lists(row, c) == \E j \in 1..Len(row.ids) : row.ids[j] = c

\* A row lists the findings of its title, all of them and no other.
LEMMA RowLists ==
  ASSUME NEW F, NEW t
  PROVE  /\ Row(F, t).title = t
         /\ \A c \in Controls : Lists(Row(F, t), c) <=> c \in ToFix(F) /\ TitleOf[c] = t
         /\ \A c : Lists(Row(F, t), c) => c \in Controls
         /\ (\E c \in ToFix(F) : TitleOf[c] = t) => Row(F, t).weight \in Nat
<1> DEFINE T == {i \in 1..Len(ReportOrder) :
                   ReportOrder[i] \in ToFix(F) /\ TitleOf[ReportOrder[i]] = t}
           ids == Picked(ReportOrder, T)
<1>1. Row(F, t) = [weight |-> WeightOf[Head(ids)], title |-> t, ids |-> ids]  BY DEF Row
<1>2. ReportOrder \in Seq(Controls) /\ T \in SUBSET (1..Len(ReportOrder))
  BY DeliverablesAssumption
<1>3. /\ Cardinality(T) \in Nat /\ ids \in Seq(Controls) /\ Len(ids) = Cardinality(T)
      /\ \A i \in T : \E k \in 1..Cardinality(T) : ids[k] = ReportOrder[i]
      /\ \A k \in 1..Cardinality(T) : \E i \in T : ids[k] = ReportOrder[i]
  <2> HIDE DEF T
  <2> QED BY <1>2, PickedElements
<1>4. ASSUME NEW c \in ToFix(F), TitleOf[c] = t PROVE \E i \in T : ReportOrder[i] = c
  <2>1. c \in Controls  BY DEF ToFix, WithStatus
  <2>2. Places(c, ReportOrder) # {}
    <3>1. Cardinality(Places(c, ReportOrder)) = 1  BY <2>1, DeliverablesAssumption
    <3> QED BY <3>1, FS_EmptySet
  <2> QED BY <1>4, <2>2 DEF Places
<1>5. \A i \in T : ReportOrder[i] \in ToFix(F) /\ TitleOf[ReportOrder[i]] = t
  OBVIOUS
<1>6. ToFix(F) \in SUBSET Controls  BY DEF ToFix, WithStatus
<1> HIDE DEF T, ids
<1>7. Row(F, t).ids = ids /\ Row(F, t).title = t /\ Row(F, t).weight = WeightOf[Head(ids)]
  BY <1>1
<1>8. \A c : Lists(Row(F, t), c) <=> \E k \in 1..Cardinality(T) : ids[k] = c
  BY <1>3, <1>7 DEF Lists
<1>9. \A c : Lists(Row(F, t), c) <=> c \in ToFix(F) /\ TitleOf[c] = t
  <2>1. ASSUME NEW c, Lists(Row(F, t), c) PROVE c \in ToFix(F) /\ TitleOf[c] = t
    BY <1>3, <1>5, <1>8, <2>1
  <2>2. ASSUME NEW c, c \in ToFix(F), TitleOf[c] = t PROVE Lists(Row(F, t), c)
    <3>1. PICK i \in T : ReportOrder[i] = c  BY <1>4, <2>2
    <3> QED BY <1>3, <1>8, <3>1
  <2> QED BY <2>1, <2>2
<1>10. ASSUME \E c \in ToFix(F) : TitleOf[c] = t PROVE Row(F, t).weight \in Nat
  <2>1. Cardinality(T) # 0  BY <1>3, <1>8, <1>9, <1>10
  <2>2. ids # << >>  BY <1>3, <2>1
  <2>3. Head(ids) \in Controls  BY <1>3, <2>2, HeadTailProperties
  <2> QED BY <1>7, <2>3, CorpusAssumption
<1> QED BY <1>6, <1>7, <1>9, <1>10

\* A title has one row, so the rows are in order: by weight, then by title.
LEMMA RowsOrdered ==
  ASSUME NEW F
  PROVE  /\ IsFiniteSet(Rows(F)) /\ StrictlyOrders(RowsBefore(F), Rows(F))
         /\ \A r \in Rows(F) : r.weight \in Nat /\ r = Row(F, r.title)
<1>1. IsFiniteSet(Rows(F))
  <2> DEFINE f == [c \in ToFix(F) |-> Row(F, TitleOf[c])]
  <2>1. IsFiniteSet(ToFix(F))  BY StatusSet DEF ToFix
  <2>2. {f[c] : c \in ToFix(F)} = Rows(F)  BY DEF Rows
  <2> HIDE DEF f
  <2> QED BY <2>1, <2>2, FiniteImage
<1>2. \A r \in Rows(F) : r.weight \in Nat /\ r.title \in Nat /\ r = Row(F, r.title)
  <2> TAKE r \in Rows(F)
  <2>1. PICK c \in ToFix(F) : r = Row(F, TitleOf[c])  BY DEF Rows
  <2>2. TitleOf[c] \in Nat  BY DeliverablesAssumption DEF ToFix, WithStatus
  <2> QED BY <2>1, <2>2, RowLists
<1>3. \A r, s \in Rows(F) : <<r, s>> \in RowsBefore(F) <=> Before(r, s)
  BY DEF RowsBefore
<1>4. \A r, s \in Rows(F) : r.title = s.title => r = s
  BY <1>2
<1>5. \A r \in Rows(F) : ~Before(r, r)  BY <1>2 DEF Before
<1>6. \A r, s, u \in Rows(F) : Before(r, s) /\ Before(s, u) => Before(r, u)
  BY <1>2 DEF Before
<1>7. \A r, s \in Rows(F) : r # s => Before(r, s) \/ Before(s, r)
  BY <1>2, <1>4 DEF Before
<1>8. StrictlyOrders(RowsBefore(F), Rows(F))
  BY <1>3, <1>5, <1>6, <1>7 DEF StrictlyOrders
<1> QED BY <1>1, <1>2, <1>8

\* The plan has each row once, an earlier one before a later one.
LEMMA PlanRows ==
  ASSUME NEW F
  PROVE  /\ Len(Plan(F)) \in Nat
         /\ \A i \in 1..Len(Plan(F)) : Plan(F)[i] \in Rows(F)
         /\ \A r \in Rows(F) : \E i \in 1..Len(Plan(F)) : Plan(F)[i] = r
         /\ \A i, j \in 1..Len(Plan(F)) : Plan(F)[i] = Plan(F)[j] => i = j
         /\ \A i, j \in 1..Len(Plan(F)) : i < j => Before(Plan(F)[i], Plan(F)[j])
<1> DEFINE S == Rows(F)
           R == RowsBefore(F)
           n == Cardinality(S)
           p == Enumerate(S, R)
<1>1. Plan(F) = p  BY DEF Plan, Rows, RowsBefore
<1>2. IsFiniteSet(S) /\ StrictlyOrders(R, S)  BY RowsOrdered
<1>3. \A r, s : <<r, s>> \in R => Before(r, s)  BY DEF RowsBefore
<1> HIDE DEF S, R
<1>4. n \in Nat /\ Len(p) = n /\ \A r \in S : \E i \in 1..n : p[i] = r
  BY <1>2, Enumerated
<1>5. \A i \in 1..n : p[i] \in S /\ Rank(S, R, p[i]) = i - 1
  BY <1>2, EnumeratedAt
<1>6. \A i, j \in 1..n : i < j => <<p[i], p[j]>> \in R
  <2> TAKE i, j \in 1..n
  <2> HAVE i < j
  <2>1. p[i] \in S /\ p[j] \in S /\ Rank(S, R, p[i]) = i - 1 /\ Rank(S, R, p[j]) = j - 1
    BY <1>5
  <2>2. Rank(S, R, p[i]) < Rank(S, R, p[j])  BY <1>4, <2>1
  <2> HIDE DEF p
  <2> QED BY <1>2, <2>1, <2>2, RankOrders
<1> HIDE DEF p, n
<1>7. \A i, j \in 1..n : p[i] = p[j] => i = j  BY <1>4, <1>5
<1> QED BY <1>1, <1>3, <1>4, <1>5, <1>6, <1>7 DEF S

\* The rows of the plan that list a control.
RowsListing(F, c) == {i \in 1..Len(Plan(F)) : Lists(Plan(F)[i], c)}

\* What is to fix is in one row, that of its title; what is not is in none.
LEMMA ListedOnce ==
  ASSUME NEW F, NEW c \in Controls
  PROVE  /\ c \in ToFix(F) =>
              \E k \in 1..Len(Plan(F)) : /\ RowsListing(F, c) = {k}
                                         /\ Plan(F)[k] = Row(F, TitleOf[c])
         /\ c \notin ToFix(F) => RowsListing(F, c) = {}
<1>1. ASSUME NEW i \in 1..Len(Plan(F)), Lists(Plan(F)[i], c)
      PROVE  c \in ToFix(F) /\ Plan(F)[i] = Row(F, TitleOf[c])
  <2>1. PICK d \in ToFix(F) : Plan(F)[i] = Row(F, TitleOf[d])  BY PlanRows DEF Rows
  <2> QED BY <1>1, <2>1, RowLists
<1>2. CASE c \notin ToFix(F)
  BY <1>1, <1>2 DEF RowsListing
<1>3. CASE c \in ToFix(F)
  <2>1. Row(F, TitleOf[c]) \in Rows(F)  BY <1>3 DEF Rows
  <2>2. PICK k \in 1..Len(Plan(F)) : Plan(F)[k] = Row(F, TitleOf[c])  BY <2>1, PlanRows
  <2>3. Lists(Plan(F)[k], c)  BY <1>3, <2>2, RowLists
  <2>4. \A i \in 1..Len(Plan(F)) : Lists(Plan(F)[i], c) => i = k  BY <1>1, <2>2, PlanRows
  <2>5. RowsListing(F, c) = {k}  BY <2>3, <2>4 DEF RowsListing
  <2> QED BY <1>3, <2>2, <2>5
<1> QED BY <1>2, <1>3

\* Findings to fix share a row when they share a title.
LEMMA OneRowPerTitle ==
  ASSUME NEW F, NEW c \in ToFix(F), NEW d \in ToFix(F)
  PROVE  RowsListing(F, c) = RowsListing(F, d) <=> TitleOf[c] = TitleOf[d]
<1>1. c \in Controls /\ d \in Controls  BY DEF ToFix, WithStatus
<1>2. PICK k \in 1..Len(Plan(F)) : RowsListing(F, c) = {k} /\ Plan(F)[k] = Row(F, TitleOf[c])
  BY <1>1, ListedOnce
<1>3. PICK l \in 1..Len(Plan(F)) : RowsListing(F, d) = {l} /\ Plan(F)[l] = Row(F, TitleOf[d])
  BY <1>1, ListedOnce
<1>4. Row(F, TitleOf[c]).title = TitleOf[c] /\ Row(F, TitleOf[d]).title = TitleOf[d]
  BY RowLists
<1>5. k = l <=> Plan(F)[k] = Plan(F)[l]  BY PlanRows
<1>6. Plan(F)[k] = Plan(F)[l] <=> TitleOf[c] = TitleOf[d]  BY <1>2, <1>3, <1>4
<1> QED BY <1>2, <1>3, <1>5, <1>6

\* A row weighs no less than the ones after it.
LEMMA HeaviestFirst ==
  ASSUME NEW F, NEW i \in 1..Len(Plan(F)), NEW j \in i..Len(Plan(F))
  PROVE  Plan(F)[i].weight >= Plan(F)[j].weight
<1>1. i \in Nat /\ j \in Nat /\ j \in 1..Len(Plan(F)) /\ (i < j \/ i = j)  BY PlanRows
<1>2. Plan(F)[i] \in Rows(F) /\ Plan(F)[j] \in Rows(F)  BY <1>1, PlanRows
<1>3. Plan(F)[i].weight \in Nat /\ Plan(F)[j].weight \in Nat  BY <1>2, RowsOrdered
<1>4. CASE i = j
  BY <1>3, <1>4
<1>5. CASE i < j
  <2>1. Before(Plan(F)[i], Plan(F)[j])  BY <1>1, <1>5, PlanRows
  <2> QED BY <1>3, <2>1 DEF Before
<1> QED BY <1>1, <1>4, <1>5

\* The plan of every report has each failing or partial finding in one row, one
\* row for each title, the heaviest first; and what is in scope and not judged is
\* said, unless a budget cut the run (render_remediation_plan, render_markdown).
THEOREM NothingEverUnsaid == Spec => []NothingUnsaid
<1>1. TypeOK /\ StageTellsData /\ PartialOnRecord => NothingUnsaid
  <2> SUFFICES ASSUME TypeOK, StageTellsData, PartialOnRecord, OnReport PROVE NothingUnsaid
    BY DEF NothingUnsaid
  <2> DEFINE F == state.report.findings
  <2>1. F = state.findings /\ state.stage = "complete" /\ F \in Findings
    BY ReportedFindings DEF Findings
  <2> HIDE DEF F
  <2>2. \A c \in Controls :
          c \in ToFix(F) <=> F[c] # NoFinding /\ F[c].status \in {"non_compliant", "partial"}
    BY DEF ToFix, WithStatus
  <2>3. ASSUME NEW c \in Controls
        PROVE  Cardinality(RowsListing(F, c))
                 = IF F[c] # NoFinding /\ F[c].status \in {"non_compliant", "partial"} THEN 1 ELSE 0
    <3>1. CASE c \in ToFix(F)
      <4>1. PICK k : RowsListing(F, c) = {k}  BY <3>1, ListedOnce
      <4>2. Cardinality({k}) = 1  BY FS_Singleton
      <4> QED BY <2>2, <3>1, <4>1, <4>2
    <3>2. CASE c \notin ToFix(F)
      <4>1. RowsListing(F, c) = {}  BY <3>2, ListedOnce
      <4> QED BY <2>2, <3>2, <4>1, FS_EmptySet
    <3> QED BY <3>1, <3>2
  <2>4. ASSUME NEW c \in Controls, NEW d \in Controls,
               RowsListing(F, c) # {}, RowsListing(F, d) # {}
        PROVE  RowsListing(F, c) = RowsListing(F, d) <=> TitleOf[c] = TitleOf[d]
    <3>1. c \in ToFix(F) /\ d \in ToFix(F)  BY <2>4, ListedOnce
    <3> QED BY <3>1, OneRowPerTitle
  <2>5. \A i \in 1..Len(Plan(F)) : \A j \in i..Len(Plan(F)) :
          Plan(F)[i].weight >= Plan(F)[j].weight
    BY HeaviestFirst
  <2>6. ASSUME "budget_exceeded" \notin ledger.noted, NEW c \in InScope
        PROVE  c \in BlindSpots(F) \union WithStatus(F, Controls, Judged \union {"not_applicable"})
    <3>1. c \in Controls  BY ScopeInControls
    <3>2. F[c] # NoFinding  BY <2>1, <2>6 DEF PartialOnRecord
    <3>3. F[c].status \in Status  BY <2>1, <3>1, <3>2 DEF Findings, Finding
    <3> QED BY <3>1, <3>2, <3>3 DEF BlindSpots, WithStatus, Judged, Status
  <2> QED BY <2>3, <2>4, <2>5, <2>6 DEF NothingUnsaid, RowsListing, Lists, F
<1> QED BY <1>1, PipelineTypeOK, StageAlwaysTellsData, PartialAlwaysOnRecord, PTL

-----------------------------------------------------------------------------
(***************************************************************************)
(* The evaluation.                                                         *)
(***************************************************************************)

\* A part as large as the whole is the whole.
LEMMA WholePart ==
  ASSUME NEW n \in Nat, NEW T \in SUBSET (1..n), Cardinality(T) >= n
  PROVE  T = 1..n
<1>1. IsFiniteSet(1..n) /\ Cardinality(1..n) = n  BY UpTo
<1>2. /\ IsFiniteSet(T) /\ Cardinality(T) <= n
      /\ Cardinality(1..n) = Cardinality(T) => 1..n = T
  BY <1>1, FS_Subset
<1>3. Cardinality(T) \in Nat  BY <1>2, FS_CardinalityType
<1> QED BY <1>1, <1>2, <1>3

\* Every case of a golden set that passes was assessed, and its finding abstains
\* or cites the corpus: the rate of valid citations is over all cases.
LEMMA PassedCoversAll ==
  ASSUME NEW findings, NEW golden, Len(golden) \in Nat, Passed(EvalResult(findings, golden))
  PROVE  /\ Len(golden) > 0
         /\ \A i \in 1..Len(golden) : /\ FindingFor(findings, golden[i]) # NoFinding
                                      /\ CitedOk(FindingFor(findings, golden[i]))
<1> DEFINE got(i) == FindingFor(findings, golden[i])
           cited == {i \in {j \in 1..Len(golden) : got(j) # NoFinding} : CitedOk(got(i))}
<1>1. Counted(findings, golden) = 1..Len(golden)  BY DEF Counted
<1>2. Cardinality(1..Len(golden)) = Len(golden) /\ IsFiniteSet(1..Len(golden))  BY UpTo
<1>3. /\ EvalResult(findings, golden).total = Len(golden)
      /\ EvalResult(findings, golden).citation_valid = Cardinality(cited)
  BY <1>1, <1>2 DEF EvalResult
<1>4. Len(golden) > 0 /\ 10 * Cardinality(cited) >= 10 * Len(golden)
  BY <1>3 DEF Passed, Reaches
<1>5. cited \in SUBSET (1..Len(golden))  OBVIOUS
<1>6. Cardinality(cited) \in Nat
  <2>1. IsFiniteSet(cited)  BY <1>2, <1>5, FS_Subset
  <2> QED BY <2>1, FS_CardinalityType
<1>7. Cardinality(cited) >= Len(golden)
  <2> HIDE DEF cited
  <2> QED BY <1>4, <1>6
<1>8. cited = 1..Len(golden)
  <2> HIDE DEF cited
  <2> QED BY <1>5, <1>7, WholePart
<1> QED BY <1>4, <1>8

\* The denominator of the over-claim rate leaves out cases without a finding, but
\* where the evaluation passes there are none.
LEMMA PassedClaimsLittle ==
  ASSUME NEW findings, NEW golden, Len(golden) \in Nat, Passed(EvalResult(findings, golden)),
         NEW untrue,
         untrue = {i \in 1..Len(golden) : golden[i].expected \in {"non_compliant", "not_assessable"}}
  PROVE  10 * Cardinality({i \in untrue :
                             FindingFor(findings, golden[i]).status \in {"compliant", "partial"}})
           <= Cardinality(untrue)
<1> DEFINE got(i) == FindingFor(findings, golden[i])
           found == {i \in 1..Len(golden) : got(i) # NoFinding}
           negative == {i \in found : golden[i].expected \in {"non_compliant", "not_assessable"}}
<1>1. found = 1..Len(golden)  BY PassedCoversAll
<1>2. negative = untrue  BY <1>1
<1>3. /\ EvalResult(findings, golden).optimistic_eligible = Cardinality(negative)
      /\ EvalResult(findings, golden).over_claims =
           Cardinality({i \in negative : got(i).status \in Optimistic})
  BY DEF EvalResult
<1>4. 10 * Cardinality({i \in negative : got(i).status \in Optimistic}) <= Cardinality(negative)
  BY <1>3 DEF Passed
<1> QED BY <1>2, <1>4 DEF Optimistic

\* A passed evaluation means what it is read as, for every golden set: every
\* case was assessed and is grounded or abstains, and at most one in ten of
\* those that should have failed or been left open was claimed to comply.
THEOREM GateAlwaysMeans == Spec => []GateMeans
<1>1. ASSUME TypeOK, StageTellsData, OnReport, NEW golden \in GoldenSets,
             Passed(EvalResult(state.report.findings, golden))
      PROVE  /\ golden # << >>
             /\ \A i \in 1..Len(golden) :
                  LET f == FindingFor(state.report.findings, golden[i])
                  IN  /\ f # NoFinding
                      /\ f.status \in Judged => \E cite \in f.citations : cite.source = "corpus"
             /\ LET untrue == {i \in 1..Len(golden) :
                                 golden[i].expected \in {"non_compliant", "not_assessable"}}
                IN  10 * Cardinality({i \in untrue :
                           FindingFor(state.report.findings, golden[i]).status
                             \in {"compliant", "partial"}})
                      <= Cardinality(untrue)
  <2>1. Len(golden) \in Nat  BY DeliverablesAssumption
  <2>2. Len(golden) > 0  BY <1>1, <2>1, PassedCoversAll
  <2>3. golden # << >>  BY <2>2
  <2>4. ASSUME NEW i \in 1..Len(golden)
        PROVE  LET f == FindingFor(state.report.findings, golden[i])
               IN  /\ f # NoFinding
                   /\ f.status \in Judged => \E cite \in f.citations : cite.source = "corpus"
    <3>1. /\ FindingFor(state.report.findings, golden[i]) # NoFinding
          /\ CitedOk(FindingFor(state.report.findings, golden[i]))
      BY <1>1, <2>1, PassedCoversAll
    <3> QED BY <3>1 DEF CitedOk, Judged
  <2>5. ASSUME NEW untrue,
               untrue = {i \in 1..Len(golden) :
                           golden[i].expected \in {"non_compliant", "not_assessable"}}
        PROVE  10 * Cardinality({i \in untrue :
                      FindingFor(state.report.findings, golden[i]).status
                        \in {"compliant", "partial"}})
                 <= Cardinality(untrue)
    BY <1>1, <2>1, <2>5, PassedClaimsLittle
  <2> QED BY <2>3, <2>4, <2>5
<1>2. TypeOK /\ StageTellsData => GateMeans  BY <1>1 DEF GateMeans
<1> QED BY <1>2, PipelineTypeOK, StageAlwaysTellsData, PTL

-----------------------------------------------------------------------------
(***************************************************************************)
(* What the offline baseline's rules promise for every count of words and  *)
(* phrases, with the gates its answers pass through.                       *)
(***************************************************************************)

\* How much a status claims.
Claim(status) == IF status = "compliant" THEN 2 ELSE IF status = "partial" THEN 1 ELSE 0

\* d has all that speaks for e, and no more that speaks against it.
Stronger(d, e) ==
  /\ Supplied(d)
  /\ d.neg <= e.neg /\ d.tokens >= e.tokens /\ d.patterns >= e.patterns

\* The counts are naturals.
LEMMA CountsNat ==
  ASSUME NEW d \in Declared
  PROVE  d.neg \in Nat /\ d.tokens \in Nat /\ d.patterns \in Nat
  BY DEF Declared

\* What weigh concludes claims more with more evidence for, and less against.
LEMMA WeighMonotone ==
  ASSUME NEW d \in Declared, NEW e \in Declared, Stronger(d, e)
  PROVE  Claim(weigh(e)) <= Claim(weigh(d))
  <1>1. /\ d.neg \in Nat /\ d.tokens \in Nat /\ d.patterns \in Nat
        /\ e.neg \in Nat /\ e.tokens \in Nat /\ e.patterns \in Nat
    BY CountsNat
  <1>2. d.neg <= e.neg /\ d.tokens >= e.tokens /\ d.patterns >= e.patterns
    BY DEF Stronger
  <1>3. CASE weigh(e) = "compliant"
    <2>1. e.neg = 0 /\ e.tokens + e.patterns >= 2 /\ e.tokens # 0
      BY <1>1, <1>3 DEF weigh
    <2>2. weigh(d) = "compliant"
      BY <1>1, <1>2, <2>1 DEF weigh
    <2>3. QED BY <1>3, <2>2 DEF Claim
  <1>4. CASE weigh(e) = "partial"
    <2>1. e.neg <= e.tokens + e.patterns /\ e.tokens + e.patterns # 0
      BY <1>1, <1>4 DEF weigh
    <2>2. weigh(d) \in {"partial", "compliant"}
      BY <1>1, <1>2, <2>1 DEF weigh
    <2>3. QED BY <1>4, <2>2 DEF Claim
  <1>5. CASE weigh(e) \notin {"compliant", "partial"}
    BY <1>5 DEF Claim
  <1>6. QED BY <1>3, <1>4, <1>5

\* Evidence that says more of what is done, and no more of what is not, is never
\* judged to claim less (providers.py: "Weight of evidence, not mere presence").
THEOREM EvidenceMonotone ==
  ASSUME NEW c \in Controls, NEW d \in Declared, NEW e \in Declared, Stronger(d, e)
  PROVE  Claim(status_of(c, e)) <= Claim(status_of(c, d))
  <1>1. Claim(weigh(e)) <= Claim(weigh(d))
    BY WeighMonotone
  <1>2. Supplied(d)
    BY DEF Stronger
  <1>3. CASE ~Supplied(e)
    BY <1>3 DEF status_of, Claim
  <1>4. CASE Supplied(e)
    BY <1>1, <1>2, <1>4 DEF status_of, Claim
  <1>5. QED BY <1>3, <1>4

\* The status is one of the five.
LEMMA StatusKnown == ASSUME NEW c, NEW d PROVE status_of(c, d) \in Status
  BY DEF status_of, weigh, Status

\* Neither gate changes an answer of the offline provider: it fits the schema,
\* and what it judges it cites (the baseline is what every other provider is
\* measured against, providers.py:8-9, so the gates may not distort it).
THEOREM BaselinePassesGates ==
  ASSUME NEW c \in Controls, NEW d \in Declared, NEW retrieved, NEW require
  PROVE  Baseline(c, d, retrieved, require) =
           [status |-> status_of(c, d), citations |-> answer(c, d).citations,
            critic_verdict |-> "not_reviewed", evidence_maturity |-> MaturityOf(d)]
  <1> DEFINE own == [control_id |-> c, source |-> "corpus"]
             declared == [control_id |-> c, source |-> "client_evidence"]
             cites == answer(c, d).citations
             f == [status |-> status_of(c, d), citations |-> cites,
                   critic_verdict |-> "not_reviewed", evidence_maturity |-> MaturityOf(d)]
  <1>1. own \in cites /\ \A raw \in cites : raw = own \/ raw = declared
    BY DEF answer
  <1>2. FitsSchema(answer(c, d))
    BY StatusKnown DEF answer, FitsSchema
  <1>3. c # Blank
    BY CorpusAssumption
  <1>4. Cited(c, own) = own /\ Cited(c, declared) = declared
    BY <1>3 DEF Cited, Sources
  <1>5. {Cited(c, raw) : raw \in cites} = cites
    <2>1. \A raw \in cites : Cited(c, raw) = raw
      BY <1>1, <1>4
    <2>2. QED BY <2>1
  <1>6. Baseline(c, d, retrieved, require) = enforce(c, f, retrieved, require)
    BY <1>2, <1>5 DEF Baseline, Assessed, answer
  <1>7. Retrievable(c, own, retrieved) /\ Retrievable(c, declared, retrieved)
    BY DEF Retrievable
  <1>8. {cite \in f.citations : Retrievable(c, cite, retrieved)} = f.citations
    BY <1>1, <1>7
  <1>9. \E cite \in f.citations : cite.source = "corpus"
    BY <1>1
  <1>10. enforce(c, f, retrieved, require) = f
    <2>1. [f EXCEPT !.citations = f.citations, !.status = f.status] = f
      OBVIOUS
    <2>2. QED BY <1>8, <1>9, <2>1 DEF enforce
  <1>11. QED BY <1>6, <1>10

\* Where the critic looks, evidence that is declared as design or as simulated
\* never leaves a control compliant (providers.py: it "describes intent, not a
\* control in operation").  A text without a maturity is not covered.
THEOREM DesignNeverCompliant ==
  ASSUME NEW c \in Controls, NEW d \in Declared, NEW retrieved, NEW require,
         d.maturity \in {"design", "simulated"},
         WorthReviewing(c, Baseline(c, d, retrieved, require))
  PROVE  Criticised(c, d, Baseline(c, d, retrieved, require)).status # "compliant"
  <1> DEFINE f == Baseline(c, d, retrieved, require)
  <1>1. f = [status |-> status_of(c, d), citations |-> answer(c, d).citations,
             critic_verdict |-> "not_reviewed", evidence_maturity |-> MaturityOf(d)]
    BY BaselinePassesGates
  <1>2. Criticised(c, d, f) = Reviewed(f, review(f, d))
    BY DEF Criticised
  <1>3. CASE f.status = "compliant"
    <2>1. review(f, d) = "downgraded"
      BY <1>3 DEF review, Weak
    <2>2. Reviewed(f, review(f, d)).status = "partial"
      BY <1>1, <1>3, <2>1 DEF Reviewed, CriticVerdict, Downgradable, Downgrade
    <2>3. QED BY <1>2, <2>2
  <1>4. CASE f.status # "compliant"
    <2>1. review(f, d) = "upheld"
      BY <1>4 DEF review
    <2>2. Reviewed(f, review(f, d)).status = f.status
      BY <1>1, <2>1 DEF Reviewed, CriticVerdict
    <2>3. QED BY <1>2, <1>4, <2>2
  <1>5. QED BY <1>3, <1>4
===============================================================================
