-------------------------- MODULE AssessmentPipeline --------------------------
(***************************************************************************)
(* One assessment run (graph/orchestrator.py, graph/state.py, agents/*.py, *)
(* llm/router.py): six nodes in a declared order read and write one        *)
(* RunState, which is written to a checkpoint file after every node.  The  *)
(* assessor and the critic call a model through a router with retries and  *)
(* a budget.  The process may die anywhere; a later process, with a        *)
(* context and a budget of its own, loads the checkpoint and resumes.      *)
(*                                                                         *)
(* Both executors (the builtin loop and the LangGraph backend) run these   *)
(* nodes in this order with these tests.                                   *)
(***************************************************************************)
EXTENDS AssessmentReport

CONSTANTS
  Settings,        \* the settings a process may be started with
  Configs,         \* the platform configurations a run may be about
  Replies,         \* what the model may answer the assessor
  CriticReplies,   \* what the model may answer the critic
  CriticCost,      \* the estimated cost of a critic's call
  Hits,            \* what the retriever returns for each control, best first
  TopK,            \* settings.retrieval_top_k, which nothing keeps positive; 0 is left out
  MaxProcesses     \* bound on the processes that work on the run

NoRisk == "none"
NotRetrieved == << >>
NoFile == [none |-> "file"]
TornFile == [bad |-> "torn"]
NoUsage == [calls |-> 0, cost |-> 0]

ASSUME PipelineAssumption ==
  /\ \A s \in Settings :
       /\ s.max_llm_calls_per_run \in Nat /\ s.max_cost_usd_per_run \in Nat
       /\ s.max_retries \in Nat
       /\ s.require_citations \in BOOLEAN
  /\ \A c \in Configs : c.maturity \in [Controls -> EvidenceMaturity] /\ c.tier # NoRisk
  /\ \A r \in Replies : /\ r.cost \in Nat
                        /\ FitsSchema(r) => \A raw \in r.citations :
                             raw.control_id \in Controls \union {Phantom, Blank}
  /\ CriticCost \in Nat
  /\ Hits \in [Controls -> Seq(Controls)]
  /\ TopK \in Nat \ {0} /\ MaxProcesses \in Nat

VARIABLES
  config,    \* RunState.config, the same for every process of the run
  state,     \* the rest of RunState, in memory
  disk,      \* the checkpoint file <run_id>.state.json
  ctx,       \* the process's AgentContext: its settings and its router's usage
  pc,        \* what the process is doing
  node,      \* the position of resume()'s loop over PIPELINE
  todo,      \* the controls the agent's loop has still to visit
  attempt,   \* failed attempts of the router.complete under way
  ledger,    \* what the run's ledger file has recorded
  outcome,   \* how the latest process ended
  processes  \* processes started so far

vars == <<config, state, disk, ctx, pc, node, todo, attempt, ledger, outcome, processes>>

-----------------------------------------------------------------------------
PIPELINE == <<"intake", "risk", "retrieval", "assessor", "critic", "reporter">>

Stages == <<"created", "intake_complete", "risk_complete", "retrieval_complete",
            "assessment_complete", "critique_complete", "complete">>

\* Mutant of requires_stage: the critic may run on what it has reviewed.
requires_stage_CriticTwice(n) ==
  CASE n = "intake" -> {"created"}
    [] n = "risk" -> {"intake_complete"}
    [] n = "retrieval" -> {"risk_complete"}
    [] n = "assessor" -> {"retrieval_complete"}
    [] n = "critic" -> {"assessment_complete", "critique_complete"}
    [] n = "reporter" -> {"assessment_complete", "critique_complete"}

requires_stage(n) ==
  CASE n = "intake" -> {"created"}
    [] n = "risk" -> {"intake_complete"}
    [] n = "retrieval" -> {"risk_complete"}
    [] n = "assessor" -> {"retrieval_complete"}
    [] n = "critic" -> {"assessment_complete"}
    [] n = "reporter" -> {"assessment_complete", "critique_complete"}

\* state.findings is a dict: `keys` has its keys in the order they were added.
NewRunState ==
  [stage |-> "created", risk |-> NoRisk,
   retrieved |-> [c \in Controls |-> NotRetrieved],
   findings |-> [c \in Controls |-> NoFinding], keys |-> << >>,
   usage |-> NoUsage, report |-> NoReport]

\* What RunState.load gives back of what checkpoint wrote: all but the report.
to_dict(s) == [s EXCEPT !.report = NoReport]

EmptyLedger == [assessed |-> [c \in Controls |-> 0], noted |-> {}]

Note(event) == ledger' = [ledger EXCEPT !.noted = @ \union {event}]

Idle == [enable_critic |-> FALSE]
NoContext == [settings |-> Idle, usage |-> NoUsage]

Init ==
  /\ config \in Configs
  /\ state = NewRunState
  /\ disk = NoFile
  /\ ctx = NoContext
  /\ pc = "down"
  /\ node = 1
  /\ todo = << >>
  /\ attempt = 0
  /\ ledger = EmptyLedger
  /\ outcome = "none"
  /\ processes = 0

-----------------------------------------------------------------------------
\* A process builds its context and calls run(), or resume() with what
\* RunState.load read.  load raises on a torn file.
Start ==
  /\ pc = "down" /\ processes < MaxProcesses
  /\ disk # TornFile
  /\ \E s \in Settings : ctx' = [settings |-> s, usage |-> NoUsage]
  /\ state' = IF disk = NoFile THEN NewRunState ELSE disk
  /\ pc' = "node" /\ node' = 1
  /\ processes' = processes + 1
  /\ outcome' = "none"
  /\ UNCHANGED <<config, disk, todo, attempt, ledger>>

\* Mutant of AtNode: the node runs whatever the stage.
AtNode_AnyStage(name) ==
  /\ pc = "node" /\ node <= Len(PIPELINE)
  /\ PIPELINE[node] = name

AtNode(name) ==
  /\ pc = "node" /\ node <= Len(PIPELINE)
  /\ PIPELINE[node] = name
  /\ state.stage \in requires_stage(name)

SkipNode ==
  /\ pc = "node" /\ node <= Len(PIPELINE)
  /\ state.stage \notin requires_stage(PIPELINE[node])
  /\ node' = node + 1
  /\ UNCHANGED <<config, state, disk, ctx, pc, todo, attempt, ledger, outcome, processes>>

\* IntakeBlocked leaves resume() before the stage moves: nothing is saved.
IntakeBlocks ==
  /\ AtNode("intake")
  /\ config.severe /\ ctx.settings.block_on_injection
  /\ Note("run_blocked")
  /\ pc' = "down" /\ outcome' = "blocked"
  /\ UNCHANGED <<config, state, disk, ctx, node, todo, attempt, processes>>

IntakePasses ==
  /\ AtNode("intake")
  /\ ~(config.severe /\ ctx.settings.block_on_injection)
  /\ state' = [state EXCEPT !.stage = "intake_complete"]
  /\ pc' = "save"
  /\ UNCHANGED <<config, disk, ctx, node, todo, attempt, ledger, outcome, processes>>

AssessRisk ==
  /\ AtNode("risk")
  /\ state' = [state EXCEPT !.stage = "risk_complete", !.risk = config.tier]
  /\ pc' = "save"
  /\ UNCHANGED <<config, disk, ctx, node, todo, attempt, ledger, outcome, processes>>

\* RetrievalAgent.run: the control itself is put first when it is not a hit.
RetrievedFor(c) ==
  LET ids == IF \E i \in 1..Len(Hits[c]) : Hits[c][i] = c THEN Hits[c] ELSE <<c>> \o Hits[c]
  IN  SubSeq(ids, 1, IF TopK < Len(ids) THEN TopK ELSE Len(ids))

Retrieve ==
  /\ AtNode("retrieval")
  /\ state' = [state EXCEPT
       !.stage = "retrieval_complete",
       !.retrieved = [c \in Controls |-> IF c \in InScope THEN RetrievedFor(c) ELSE @[c]]]
  /\ pc' = "save"
  /\ UNCHANGED <<config, disk, ctx, node, todo, attempt, ledger, outcome, processes>>

-----------------------------------------------------------------------------
(***************************************************************************)
(* ModelRouter.complete.  The budget is tested before the first attempt; a *)
(* failed attempt uses nothing up.                                         *)
(***************************************************************************)

\* Mutant of OverBudget: one call and one cent too late.
OverBudget_Late ==
  \/ ctx.usage.calls > ctx.settings.max_llm_calls_per_run
  \/ ctx.usage.cost > ctx.settings.max_cost_usd_per_run

\* _check_budget raises BudgetExceeded.
OverBudget ==
  \/ ctx.usage.calls >= ctx.settings.max_llm_calls_per_run
  \/ ctx.usage.cost >= ctx.settings.max_cost_usd_per_run

\* The provider is called: a first attempt, or one more after a failed one.
Attempting == attempt > 0 \/ ~OverBudget

\* TokenUsage.add, after an answer.
Spent(cost) == [calls |-> ctx.usage.calls + 1, cost |-> ctx.usage.cost + cost]

\* A retryable ProviderError that is not the last one allowed.
Retry ==
  /\ pc \in {"assess", "review"} /\ todo # << >>
  /\ pc = "assess" => state.findings[Head(todo)] = NoFinding
  /\ pc = "review" => WorthReviewing(Head(todo), state.findings[Head(todo)])
  /\ Attempting /\ attempt + 1 < ctx.settings.max_retries
  /\ attempt' = attempt + 1
  /\ UNCHANGED <<config, state, disk, ctx, pc, node, todo, ledger, outcome, processes>>

-----------------------------------------------------------------------------
(***************************************************************************)
(* AssessorAgent.run: one step per turn of its loop.                       *)
(***************************************************************************)

AssessorStart ==
  /\ AtNode("assessor")
  /\ pc' = "assess" /\ todo' = Scope
  /\ UNCHANGED <<config, state, disk, ctx, node, attempt, ledger, outcome, processes>>

AssessorSkips ==
  /\ pc = "assess" /\ todo # << >>
  /\ state.findings[Head(todo)] # NoFinding
  /\ todo' = Tail(todo)
  /\ UNCHANGED <<config, state, disk, ctx, pc, node, attempt, ledger, outcome, processes>>

\* Mutant of AssessorBreaks: the loop ends without a word in the ledger.
AssessorBreaks_Silent ==
  /\ pc = "assess" /\ todo # << >>
  /\ state.findings[Head(todo)] = NoFinding
  /\ attempt = 0 /\ OverBudget
  /\ todo' = << >>
  /\ UNCHANGED <<config, state, disk, ctx, pc, node, attempt, ledger, outcome, processes>>

\* BudgetExceeded ends the loop; the controls left have no finding.
AssessorBreaks ==
  /\ pc = "assess" /\ todo # << >>
  /\ state.findings[Head(todo)] = NoFinding
  /\ attempt = 0 /\ OverBudget
  /\ todo' = << >>
  /\ Note("budget_exceeded")
  /\ UNCHANGED <<config, state, disk, ctx, pc, node, attempt, outcome, processes>>

\* state.retrieved.get(control.id, [control.id])
RetrievedOf(s, c) ==
  IF s.retrieved[c] = NotRetrieved THEN {c}
  ELSE {s.retrieved[c][i] : i \in 1..Len(s.retrieved[c])}

\* state.findings[control.id] = finding, state.usage and the audit record.
Find(c, finding, usage) ==
  /\ state' = [state EXCEPT !.findings[c] = finding, !.keys = Append(@, c), !.usage = usage]
  /\ ledger' = [ledger EXCEPT !.assessed[c] = @ + 1]
  /\ todo' = Tail(todo)
  /\ attempt' = 0

AssessorFinds(reply) ==
  /\ pc = "assess" /\ todo # << >>
  /\ state.findings[Head(todo)] = NoFinding
  /\ Attempting
  /\ LET c == Head(todo)
     IN  Find(c, Assessed(c, reply, config.maturity[c], RetrievedOf(state, c),
                          ctx.settings.require_citations), Spent(reply.cost))
  /\ ctx' = [ctx EXCEPT !.usage = Spent(reply.cost)]
  /\ UNCHANGED <<config, disk, pc, node, outcome, processes>>

\* Mutant of AssessorGivesUp: a provider error leaves no audit record.
AssessorGivesUp_Unrecorded ==
  /\ pc = "assess" /\ todo # << >>
  /\ state.findings[Head(todo)] = NoFinding
  /\ Attempting
  /\ state' = [state EXCEPT !.findings[Head(todo)] = Unassessable(Head(todo)),
                            !.keys = Append(@, Head(todo)), !.usage = ctx.usage]
  /\ todo' = Tail(todo) /\ attempt' = 0
  /\ UNCHANGED <<config, disk, ctx, pc, node, ledger, outcome, processes>>

\* Mutant of AssessorGivesUp: the control is tried again from the start.
AssessorGivesUp_Again ==
  /\ pc = "assess" /\ todo # << >>
  /\ state.findings[Head(todo)] = NoFinding
  /\ Attempting
  /\ attempt' = 0
  /\ UNCHANGED <<config, state, disk, ctx, pc, node, todo, ledger, outcome, processes>>

\* A ProviderError that is not retried any more.
AssessorGivesUp ==
  /\ pc = "assess" /\ todo # << >>
  /\ state.findings[Head(todo)] = NoFinding
  /\ Attempting
  /\ Find(Head(todo), Unassessable(Head(todo)), ctx.usage)
  /\ UNCHANGED <<config, disk, ctx, pc, node, outcome, processes>>

AssessorEnds ==
  /\ pc = "assess" /\ todo = << >>
  /\ state' = [state EXCEPT !.stage = "assessment_complete"]
  /\ pc' = "save"
  /\ UNCHANGED <<config, disk, ctx, node, todo, attempt, ledger, outcome, processes>>

-----------------------------------------------------------------------------
(***************************************************************************)
(* CriticAgent.run: one step per turn of its loop.                         *)
(***************************************************************************)

\* A disabled critic leaves the stage where it is.
CriticOff ==
  /\ AtNode("critic") /\ ~ctx.settings.enable_critic
  /\ pc' = "save"
  /\ UNCHANGED <<config, state, disk, ctx, node, todo, attempt, ledger, outcome, processes>>

\* The loop is over list(state.findings.items()).
CriticStart ==
  /\ AtNode("critic") /\ ctx.settings.enable_critic
  /\ pc' = "review"
  /\ todo' = state.keys
  /\ UNCHANGED <<config, state, disk, ctx, node, attempt, ledger, outcome, processes>>

CriticSkips ==
  /\ pc = "review" /\ todo # << >>
  /\ ~WorthReviewing(Head(todo), state.findings[Head(todo)])
  /\ todo' = Tail(todo)
  /\ UNCHANGED <<config, state, disk, ctx, pc, node, attempt, ledger, outcome, processes>>

CriticReviews(reply) ==
  /\ pc = "review" /\ todo # << >>
  /\ WorthReviewing(Head(todo), state.findings[Head(todo)])
  /\ Attempting
  /\ state' = [state EXCEPT !.findings[Head(todo)] = Reviewed(@, reply)]
  /\ ctx' = [ctx EXCEPT !.usage = Spent(CriticCost)]
  /\ todo' = Tail(todo) /\ attempt' = 0
  /\ UNCHANGED <<config, disk, pc, node, ledger, outcome, processes>>

\* A ProviderError, or the budget: the finding stays as it is.
CriticGivesUp ==
  /\ pc = "review" /\ todo # << >>
  /\ WorthReviewing(Head(todo), state.findings[Head(todo)])
  /\ todo' = Tail(todo) /\ attempt' = 0
  /\ UNCHANGED <<config, state, disk, ctx, pc, node, ledger, outcome, processes>>

\* Mutant of CriticEnds: no checkpoint after the critic.
CriticEnds_Unsaved ==
  /\ pc = "review" /\ todo = << >>
  /\ state' = [state EXCEPT !.stage = "critique_complete", !.usage = ctx.usage]
  /\ pc' = "node" /\ node' = node + 1
  /\ UNCHANGED <<config, disk, ctx, todo, attempt, ledger, outcome, processes>>

CriticEnds ==
  /\ pc = "review" /\ todo = << >>
  /\ state' = [state EXCEPT !.stage = "critique_complete", !.usage = ctx.usage]
  /\ pc' = "save"
  /\ UNCHANGED <<config, disk, ctx, node, todo, attempt, ledger, outcome, processes>>

-----------------------------------------------------------------------------
Report ==
  /\ AtNode("reporter")
  /\ state' = [state EXCEPT !.stage = "complete",
                            !.report = ReportOf(state.findings, state.usage)]
  /\ Note("report_generated")
  /\ pc' = "save"
  /\ UNCHANGED <<config, disk, ctx, node, todo, attempt, outcome, processes>>

\* RunState.checkpoint: write_text opens the file, which empties it, ...
Truncate ==
  /\ pc = "save"
  /\ disk' = TornFile
  /\ pc' = "cut"
  /\ UNCHANGED <<config, state, ctx, node, todo, attempt, ledger, outcome, processes>>

\* ... and then writes it.  The loop goes on to the next node.
Write ==
  /\ pc = "cut"
  /\ disk' = to_dict(state)
  /\ pc' = "node" /\ node' = node + 1
  /\ UNCHANGED <<config, state, ctx, todo, attempt, ledger, outcome, processes>>

\* After the last node: the report is returned, or there is none and resume()
\* raises.
Finish ==
  /\ pc = "node" /\ node > Len(PIPELINE)
  /\ pc' = "down"
  /\ outcome' = IF state.report = NoReport THEN "raised" ELSE "returned"
  /\ UNCHANGED <<config, state, disk, ctx, node, todo, attempt, ledger, processes>>

\* The process dies; or a write of the checkpoint or of the ledger, or a model's
\* response that is no JSON (ProviderCalls!Escape), raises out of resume() and
\* the state is dropped.
Crash ==
  /\ pc # "down"
  /\ pc' = "down" /\ outcome' = "crashed"
  /\ state' = NewRunState /\ ctx' = NoContext
  /\ node' = 1 /\ todo' = << >> /\ attempt' = 0
  /\ UNCHANGED <<config, disk, ledger, processes>>

Assessor ==
  \/ AssessorStart \/ AssessorSkips \/ AssessorBreaks
  \/ (\E reply \in Replies : AssessorFinds(reply))
  \/ AssessorGivesUp \/ AssessorEnds

Critic ==
  \/ CriticOff \/ CriticStart \/ CriticSkips
  \/ (\E reply \in CriticReplies : CriticReviews(reply))
  \/ CriticGivesUp \/ CriticEnds

Step ==
  \/ SkipNode \/ IntakeBlocks \/ IntakePasses \/ AssessRisk \/ Retrieve
  \/ Assessor \/ Critic \/ Retry \/ Report
  \/ Truncate \/ Write \/ Finish

Next == Start \/ Step \/ Crash

Spec == Init /\ [][Next]_vars

\* A running process goes on: the provider answers or its timeout expires, and
\* nothing else blocks.  Nobody has to start or to kill a process.
FairSpec == Spec /\ WF_vars(Step)

-----------------------------------------------------------------------------
(***************************************************************************)
(* Types.                                                                  *)
(***************************************************************************)

Usage == [calls : Nat, cost : Nat]

RunStates(reports) ==
  [stage : {"created", "intake_complete", "risk_complete", "retrieval_complete",
            "assessment_complete", "critique_complete", "complete"},
   risk : {NoRisk} \union {c.tier : c \in Configs},
   retrieved : [Controls -> Seq(Controls)],
   findings : [Controls -> Finding \union {NoFinding}],
   keys : Seq(Controls),
   usage : Usage,
   report : reports]

\* The types of the variables; a report is the report of the state it is in,
\* and no report is on disk (RunState.to_dict leaves it out).
TypeOK ==
  /\ config \in Configs
  /\ state \in RunStates({state.report})
  /\ state.report = NoReport \/ state.report = ReportOf(state.findings, state.usage)
  /\ disk \in {NoFile, TornFile} \union RunStates({NoReport})
  /\ ctx.settings \in Settings \union {Idle} /\ ctx.usage \in Usage
  /\ pc \in {"down", "node", "assess", "review", "save", "cut"}
  /\ node \in 1..7
  /\ todo \in Seq(Controls)
  /\ attempt \in Nat
  /\ ledger \in [assessed : [Controls -> Nat],
                 noted : SUBSET {"run_blocked", "budget_exceeded", "report_generated"}]
  /\ outcome \in {"none", "blocked", "crashed", "returned", "raised"}
  /\ processes \in 0..MaxProcesses

-----------------------------------------------------------------------------
(***************************************************************************)
(* What a checkpoint is worth.                                             *)
(***************************************************************************)

Running == pc # "down"

\* At every node boundary the file has what memory has (nothing, before the
\* first node), and the file is unreadable only while it is being written or
\* when the process died then (RunState.checkpoint after every node).
CheckpointCurrent ==
  /\ pc = "node" => disk = IF state.stage = "created" THEN NoFile ELSE to_dict(state)
  /\ disk = TornFile => pc = "cut" \/ (pc = "down" /\ outcome = "crashed")
  /\ outcome = "returned" => disk = to_dict(state)

Early == {"created", "intake_complete", "risk_complete"}

\* The stage tells which fields are there: that is all a resumed process has to
\* decide which nodes to skip (Node.requires_stage).
StageAgrees(s) ==
  /\ s.stage \in {"created", "intake_complete"} <=> s.risk = NoRisk
  /\ s.stage \in Early => \A c \in Controls :
       s.retrieved[c] = NotRetrieved /\ s.findings[c] = NoFinding
  /\ s.stage \notin Early => \A c \in InScope : s.retrieved[c] # NotRetrieved
  /\ s.report # NoReport => s.stage = "complete"

\* Nothing of a stage that a resumed process would run again is in the file: no
\* finding before the assessor's stage, no verdict before the critic's.  In
\* memory the same holds but for the loop that is running.
StageTellsData ==
  /\ StageAgrees(state)
  /\ disk \notin {NoFile, TornFile} =>
       /\ StageAgrees(disk)
       /\ disk.stage = "retrieval_complete" =>
            \A c \in Controls : disk.findings[c] = NoFinding
       /\ disk.stage = "assessment_complete" =>
            \A c \in Controls : disk.findings[c] # NoFinding =>
              disk.findings[c].critic_verdict = "not_reviewed"

\* resume() ends without a report only for a run that an earlier process had
\* completed: the checkpoint does not keep the report (orchestrator.py:149).
RaisesOnlyWhenComplete ==
  outcome = "raised" => disk.stage = "complete" /\ "report_generated" \in ledger.noted

-----------------------------------------------------------------------------
(***************************************************************************)
(* Findings.                                                               *)
(***************************************************************************)

Grounded(s) ==
  \A c \in Controls :
    s.findings[c] # NoFinding /\ s.findings[c].status \in Judged =>
      /\ \E cite \in s.findings[c].citations : cite.source = "corpus"
      /\ \A cite \in s.findings[c].citations : Retrievable(c, cite, RetrievedOf(s, c))

\* While citations are required, whatever the model cites, the critic says and
\* the process dies and resumes, a finding that asserts a status cites the
\* corpus, and of the corpus only what was retrieved for its control
\* (CitationGate.enforce).
AssertionsGrounded ==
  (\A s \in Settings : s.require_citations) =>
    /\ Grounded(state)
    /\ disk \notin {NoFile, TornFile} => Grounded(disk)

\* A review leaves a finding as it was or takes it one step down.
Weakened(f, g) ==
  \/ g = f
  \/ f.critic_verdict = "not_reviewed" /\ g = [f EXCEPT !.critic_verdict = "upheld"]
  \/ /\ f.critic_verdict = "not_reviewed" /\ f.status \in Downgradable
     /\ g = [f EXCEPT !.critic_verdict = "downgraded", !.status = Downgrade(@)]

\* Once made, a finding of a running process is never lost and only changes by
\* its one review, by one step down at most; a finding that was reviewed before
\* the process resumed does not change (critic.py:9-10: "The critic can never
\* upgrade a finding").
CriticOnlyWeakens ==
  [][Running /\ pc' # "down" =>
       \A c \in Controls : state.findings[c] # NoFinding =>
         Weakened(state.findings[c], state'.findings[c])]_vars

-----------------------------------------------------------------------------
(***************************************************************************)
(* The ledger and the budget.                                              *)
(***************************************************************************)

Recorded(s) == \A c \in Controls : s.findings[c] # NoFinding => ledger.assessed[c] >= 1

\* Every finding, in memory or on disk, has its control_assessed record in the
\* ledger file, whichever way the assessor came to it and however often the run
\* was cut (the record is written before the checkpoint).
FindingsOnRecord ==
  /\ Recorded(state)
  /\ disk \notin {NoFile, TornFile} => Recorded(disk)

\* A run goes on with controls left out only when the budget ended the
\* assessor's loop, and then the ledger says so, over every restart
\* (docs/SECURITY.md:91-92).
PartialOnRecord ==
  state.stage \in {"assessment_complete", "critique_complete", "complete"}
    /\ (\E c \in InScope : state.findings[c] = NoFinding)
  => "budget_exceeded" \in ledger.noted

\* The ceilings of ModelRouter: calls never exceed theirs within a process,
\* assessor and critic together, and the cost passes its own by less than one
\* call (_check_budget looks before a call, the cost is known after it).
SpendBounded ==
  ctx.usage # NoUsage =>
    /\ ctx.usage.calls <= ctx.settings.max_llm_calls_per_run
    /\ \E price \in {CriticCost} \union {r.cost : r \in Replies} :
         ctx.usage.cost < ctx.settings.max_cost_usd_per_run + price

-----------------------------------------------------------------------------
(***************************************************************************)
(* The report.                                                             *)
(***************************************************************************)

AtMostOne(share) == 0 <= share.num /\ share.num <= share.den
NotMore(x, y) == x.num * y.den <= y.num * x.den

Selection == {Selected[i] : i \in 1..Len(Selected)}
ScopeDomains == {DomainOf[c] : c \in InScope}
OnReport == state.report # NoReport

\* The report's counts agree with each other: frameworks, domains and claim
\* count the same judged controls, the production-grade ones are among them
\* ("47 of 38", reporter.py:214-218), no share is over 100 %, evidence only
\* ever discounts a score and a critical blocking gap blocks the claim.  A domain
\* whose controls are all judged or do not apply falls short of 100 % by what a
\* framework named twice repeats, and by no more (reporter.py:161).
ReportAddsUp ==
  OnReport /\ pc = "save" =>
    LET findings == state.report.findings
        claim == AssuranceClaim(findings)
        domain == [d \in ScopeDomains |-> DomainCoverage(findings, d).cover]
        members(d) == {c \in InScope : DomainOf[c] = d}
        repeats == [c \in Controls |-> Cardinality(Places(FrameworkOf[c], Selected)) - 1]
    IN  /\ SumOf([fw \in Selection |-> FrameworkCoverage(findings, fw).assessed], Selection)
             = claim.total_assessed
        /\ SumOf([d \in ScopeDomains |-> domain[d].assessed], ScopeDomains) = claim.total_assessed
        /\ claim.production_grade_controls <= claim.total_assessed
        /\ AtMostOne(OverallCoverage(findings))
        /\ \A d \in ScopeDomains :
             /\ AtMostOne(domain[d].coverage)
             /\ members(d) = WithStatus(findings, members(d), Judged \union {"not_applicable"}) =>
                  domain[d].total - domain[d].not_applicable - domain[d].assessed
                    = SumOf(repeats, members(d))
        /\ AtMostOne(Overall(findings).weighted)
        /\ NotMore(Overall(findings).assurance, Overall(findings).weighted)
        /\ BlockingGaps(findings) \intersect Critical \subseteq claim.blockers

\* A control that could not be assessed costs: the posture is lower than if the
\* finding had been dropped (citations.py: "Silently discarding a finding would
\* inflate the coverage percentage").
RejectionCosts ==
  OnReport /\ pc = "save" =>
    LET findings == state.report.findings
    IN  \A c \in WithStatus(findings, Controls, {"not_assessable"}) :
          LET dropped == Overall([findings EXCEPT ![c] = NoFinding]).weighted
          IN  dropped.num > 0 /\ WeightOf[c] > 0 => ~NotMore(dropped, Overall(findings).weighted)

Satisfied(f) ==
  /\ f # NoFinding
  /\ \/ f.status = "not_applicable"
     \/ f.status \in {"compliant", "partial"} /\ f.evidence_maturity \in ProductionGrade

ClaimTrue ==
  AssuranceClaim(state.report.findings).permitted =>
    \A c \in InScope \intersect Critical : Satisfied(state.report.findings[c])

\* When no budget cut the run, a permitted claim means what its rationale says:
\* every critical control in scope is satisfied with production-grade evidence.
ClaimHonestWhenComplete ==
  OnReport /\ pc = "save" /\ "budget_exceeded" \notin ledger.noted => ClaimTrue

\* The same of every report: "Every critical control is satisfied and carries
\* production-grade evidence" (reporter.py:243).
ClaimHonest == OnReport => ClaimTrue

\* "A run that dies at control 80 of 121 restarts at 80" (README.md:268-269):
\* no control is assessed twice in a run.
AssessedOnce == \A c \in Controls : ledger.assessed[c] <= 1

-----------------------------------------------------------------------------
(***************************************************************************)
(* The run as ResumableRun has it: while an agent's loop is under way its  *)
(* node has not happened yet, and the run is what the file says it is.     *)
(***************************************************************************)

Phase == CASE pc \in {"node", "assess", "review"} -> "ready"
           [] pc = "save" -> "done"
           [] OTHER -> pc

LastDone == IF pc \in {"assess", "review"} THEN disk ELSE state

Resumable == INSTANCE ResumableRun WITH
  phase <- Phase, run <- LastDone, file <- disk,
  short <- "budget_exceeded" \in ledger.noted,
  Fresh <- NewRunState, Nothing <- NoFile, Torn <- TornFile,
  Citing <- \A s \in Settings : s.require_citations

\* The pipeline is a resumable run: whatever the models answer, however often a
\* call is retried or a process dies and wherever, each node takes effect once
\* and whole or not at all, on its own fields of RunState, and in the order of
\* PIPELINE (graph/orchestrator.py:6-12, graph/state.py:1-8).
ImplementsResumableRun == Resumable!Spec

\* A process that works on a run comes to an end: every node ends, every loop
\* and every retry is bounded (llm/router.py, the loops over controls).
RunsEnd == Running ~> ~Running
===============================================================================
