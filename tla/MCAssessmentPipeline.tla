------------------------- MODULE MCAssessmentPipeline -------------------------
(* A corpus of three controls in two frameworks, the first of them binding   *)
(* law and selected twice, and answers that pass, fail and mislead the gates.*)
EXTENDS AssessmentDeliverables, OfflineRules, TLC

CONSTANTS c1, c2, c3, law, iso, data, ai

MCFrameworkOf == (c1 :> law) @@ (c2 :> law) @@ (c3 :> iso)
MCWeightOf == (c1 :> 5) @@ (c2 :> 2) @@ (c3 :> 4)
MCDomainOf == (c1 :> data) @@ (c2 :> ai) @@ (c3 :> ai)
MCSelected == <<law, iso, law>>
MCScope == <<c1, c2, c3, c1, c2>>
MCHits == (c1 :> <<c1, c2>>) @@ (c2 :> <<c3, c1>>) @@ (c3 :> <<c3>>)

\* c1 and c3 share a title, and the lighter of the two comes first.
MCTitleOf == (c1 :> 1) @@ (c2 :> 2) @@ (c3 :> 1)
MCReportOrder == <<c3, c1, c2>>

Case(id, expected) == [control_id |-> id, expected |-> expected]
AllGoldenSets ==
  {<<>>, <<Case(c1, "compliant"), Case(c3, "compliant")>>,
   <<Case(c1, "non_compliant"), Case(c2, "not_assessable"), Case(c3, "partial")>>,
   <<Case(c1, "partial"), Case(Phantom, "not_assessable")>>}

Raw(id, source) == [control_id |-> id, source |-> source]
Says(status, citations, cost) == [status |-> status, citations |-> citations, cost |-> cost]

\* The offline provider on evidence for and against; it cites the control itself.
Mixed == [text |-> TRUE, source |-> FALSE, maturity |-> "document", neg |-> 1, tokens |-> 2, patterns |-> 0]

\* c2 is retrieved for c1 and for c2 only; Phantom for nobody.
AllReplies ==
  {Says("compliant", {Raw(Blank, "handbook")}, 1),
   Says("partial", {Raw(c2, "corpus"), Raw(c1, "client_evidence")}, 2),
   Says("compliant", {Raw(Phantom, "corpus"), Raw(c1, "platform_config")}, 1),
   Says("non_compliant", {Raw(c1, "corpus"), Raw(c2, "corpus")}, 1),
   Says("not_applicable", {}, 1),
   answer(Blank, Mixed),
   [status |-> "excellent", cost |-> 1]}

Config(severe, first, others) ==
  [severe |-> severe, tier |-> "high",
   maturity |-> (c1 :> first) @@ (c2 :> others) @@ (c3 :> others)]
AllConfigs ==
  {Config(FALSE, "runtime_verified", "config_export"), Config(TRUE, "document", "none")}

Setting(critic, block, calls, cost) ==
  [enable_critic |-> critic, block_on_injection |-> block, require_citations |-> TRUE,
   max_llm_calls_per_run |-> calls, max_cost_usd_per_run |-> cost, max_retries |-> 2]
AllSettings == {Setting(TRUE, TRUE, 5, 5), Setting(FALSE, FALSE, 2, 9)}
===============================================================================
