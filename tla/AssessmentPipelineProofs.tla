----------------------- MODULE AssessmentPipelineProofs -----------------------
(***************************************************************************)
(* Theorems about AssessmentPipeline, for every corpus, every answer of    *)
(* the models, all settings and any number of processes.                   *)
(*                                                                         *)
(* The inductive invariant is the conjunction of Base (types), Control     *)
(* (where the process may be at each stage), Files (what the checkpoint    *)
(* has), Clean (what a stage implies about the data, with the two loops'   *)
(* own invariants), Told (what the ledger has) and Thrift (the budget).    *)
(***************************************************************************)
EXTENDS AssessmentPipeline, TLAPS, SequenceTheorems

-----------------------------------------------------------------------------
(***************************************************************************)
(* The inductive invariant.                                                *)
(***************************************************************************)

Base ==
  /\ config \in Configs
  /\ state \in RunStates({state.report})
  /\ disk \in {NoFile, TornFile} \union RunStates({NoReport})
  /\ ctx \in [settings : Settings \union {Idle}, usage : Usage]
  /\ pc \in {"down", "node", "assess", "review", "save", "cut"}
  /\ node \in 1..7
  /\ pc \in {"assess", "review", "save", "cut"} => node \in 1..6
  /\ todo \in Seq(Controls)
  /\ attempt \in Nat
  /\ ledger \in [assessed : [Controls -> Nat],
                 noted : SUBSET {"run_blocked", "budget_exceeded", "report_generated"}]
  /\ outcome \in {"none", "blocked", "crashed", "returned", "raised"}
  /\ processes \in 0..MaxProcesses
  /\ pc # "down" => ctx.settings \in Settings

Saved == disk \notin {NoFile, TornFile}

\* The stages a process has left behind when it is at a node.
Behind(n) ==
  IF n = 1 THEN {}
  ELSE IF n = 2 THEN {"created"}
  ELSE IF n = 3 THEN {"created", "intake_complete"}
  ELSE IF n = 4 THEN {"created", "intake_complete", "risk_complete"}
  ELSE IF n = 7 THEN {"created", "intake_complete", "risk_complete", "retrieval_complete",
                      "assessment_complete", "critique_complete"}
  ELSE {"created", "intake_complete", "risk_complete", "retrieval_complete"}

Control ==
  /\ pc # "down" => outcome = "none"
  /\ pc = "node" => state.stage \notin Behind(node)
  /\ pc = "assess" => state.stage = "retrieval_complete" /\ node = 4
  /\ pc = "review" => state.stage = "assessment_complete" /\ node = 5
  /\ pc \in {"save", "cut"} => state.stage \notin Behind(node + 1)

Files ==
  /\ pc = "node" => disk = IF state.stage = "created" THEN NoFile ELSE to_dict(state)
  /\ pc \in {"assess", "review", "save"} => disk # TornFile
  /\ disk = TornFile => pc = "cut" \/ (pc = "down" /\ outcome = "crashed")
  /\ Saved => disk.stage # "created"
  /\ pc = "down" /\ outcome \in {"returned", "raised"} =>
       disk = to_dict(state) /\ disk.stage = "complete" /\ Saved

\* What holds of a RunState outside the loops of the assessor and the critic.
Settled(s) ==
  /\ s.stage = "retrieval_complete" => \A c \in Controls : s.findings[c] = NoFinding
  /\ s.stage = "assessment_complete" =>
       \A c \in Controls : s.findings[c] # NoFinding =>
         s.findings[c].critic_verdict = "not_reviewed"

KeysAgree(s) ==
  /\ \A i \in 1..Len(s.keys) : s.findings[s.keys[i]] # NoFinding
  /\ \A i, j \in 1..Len(s.keys) : s.keys[i] = s.keys[j] => i = j

Clean ==
  /\ StageAgrees(state) /\ KeysAgree(state)
  /\ Saved => StageAgrees(disk) /\ KeysAgree(disk) /\ Settled(disk)
  /\ pc \notin {"assess", "review"} => Settled(state)
  /\ pc = "assess" => \A c \in Controls : state.findings[c] # NoFinding =>
       state.findings[c].critic_verdict = "not_reviewed"
  /\ pc = "review" =>
       /\ \A i \in 1..Len(todo) : state.findings[todo[i]] # NoFinding /\
                                  state.findings[todo[i]].critic_verdict = "not_reviewed"
       /\ \A i, j \in 1..Len(todo) : todo[i] = todo[j] => i = j
  /\ state.report = NoReport \/ state.report = ReportOf(state.findings, state.usage)

Partly(s) ==
  s.stage \in {"assessment_complete", "critique_complete", "complete"}
    /\ (\E c \in InScope : s.findings[c] = NoFinding)
  => "budget_exceeded" \in ledger.noted

Told ==
  /\ Recorded(state) /\ (Saved => Recorded(disk))
  /\ Partly(state) /\ (Saved => Partly(disk))
  /\ pc = "assess" => \A c \in InScope :
       \/ state.findings[c] # NoFinding
       \/ \E i \in 1..Len(todo) : todo[i] = c
       \/ "budget_exceeded" \in ledger.noted
  /\ state.stage = "complete" => "report_generated" \in ledger.noted
  /\ Saved => (disk.stage = "complete" => "report_generated" \in ledger.noted)

Thrift ==
  /\ attempt > 0 =>
       /\ pc \in {"assess", "review"} /\ todo # << >> /\ ~OverBudget
       /\ pc = "assess" => state.findings[Head(todo)] = NoFinding
       /\ pc = "review" => WorthReviewing(Head(todo), state.findings[Head(todo)])
  /\ SpendBounded

Inv == Base /\ Control /\ Files /\ Clean /\ Told /\ AssertionsGrounded /\ Thrift

-----------------------------------------------------------------------------
(***************************************************************************)
(* The gates.                                                              *)
(***************************************************************************)

\* The sentinels are none of the records they stand beside.
LEMMA Sentinels ==
  /\ NoFinding \notin Finding
  /\ \A r : NoFile \notin RunStates(r) /\ TornFile \notin RunStates(r)
  /\ NoFile # TornFile
  <1>1. NoFinding \notin Finding
    <2>1. \A f \in Finding : "status" \in DOMAIN f
      BY DEF Finding
    <2>2. "status" \notin DOMAIN NoFinding
      BY DEF NoFinding
    <2>3. QED BY <2>1, <2>2
  <1>2. ASSUME NEW r PROVE NoFile \notin RunStates(r) /\ TornFile \notin RunStates(r)
    <2>1. \A s \in RunStates(r) : "stage" \in DOMAIN s
      BY DEF RunStates
    <2>2. "stage" \notin DOMAIN NoFile /\ "stage" \notin DOMAIN TornFile
      BY DEF NoFile, TornFile
    <2>3. QED BY <2>1, <2>2
  <1>3. NoFile # TornFile
    <2>1. "none" \in DOMAIN NoFile /\ "none" \notin DOMAIN TornFile
      BY DEF NoFile, TornFile
    <2>2. QED BY <2>1
  <1>4. QED BY <1>1, <1>2, <1>3

\* The finding of a control the model gave no usable answer for.
LEMMA UnassessableFacts ==
  ASSUME NEW c \in Controls
  PROVE  /\ Unassessable(c) \in Finding
         /\ Unassessable(c).status \notin Judged
         /\ Unassessable(c).critic_verdict = "not_reviewed"
  BY DEF Unassessable, Finding, Status, Citation, Sources, EvidenceMaturity, Judged

\* The citation gate keeps the shape of a finding, and what it lets assert a
\* status cites the corpus and only what was retrieved.
LEMMA EnforceFacts ==
  ASSUME NEW c, NEW f \in Finding, NEW retrieved, NEW require \in BOOLEAN
  PROVE  LET g == enforce(c, f, retrieved, require)
         IN  /\ g \in Finding
             /\ g.critic_verdict = f.critic_verdict
             /\ require /\ g.status \in Judged =>
                  /\ \E cite \in g.citations : cite.source = "corpus"
                  /\ \A cite \in g.citations : Retrievable(c, cite, retrieved)
  <1> DEFINE kept == {cite \in f.citations : Retrievable(c, cite, retrieved)}
  <1>1. CASE ~require \/ f.status \notin Judged
    BY <1>1 DEF enforce
  <1>2. CASE require /\ f.status \in Judged
    <2> DEFINE st == IF \E cite \in kept : cite.source = "corpus"
                     THEN f.status ELSE "not_assessable"
    <2>1. enforce(c, f, retrieved, require) = [f EXCEPT !.citations = kept, !.status = st]
      BY <1>2 DEF enforce
    <2>2. kept \in SUBSET Citation /\ st \in Status
      BY DEF Finding, Status
    <2>3. st \in Judged => \E cite \in kept : cite.source = "corpus"
      BY DEF Judged
    <2>4. \A cite \in kept : Retrievable(c, cite, retrieved)
      OBVIOUS
    <2> HIDE DEF kept, st
    <2>5. QED BY <2>1, <2>2, <2>3, <2>4 DEF Finding
  <1>3. QED BY <1>1, <1>2

\* What the assessor makes of an answer.
LEMMA AssessedFacts ==
  ASSUME NEW c \in Controls, NEW reply \in Replies, NEW maturity \in EvidenceMaturity,
         NEW retrieved, NEW require \in BOOLEAN
  PROVE  LET f == Assessed(c, reply, maturity, retrieved, require)
         IN  /\ f \in Finding
             /\ f.critic_verdict = "not_reviewed"
             /\ require /\ f.status \in Judged =>
                  /\ \E cite \in f.citations : cite.source = "corpus"
                  /\ \A cite \in f.citations : Retrievable(c, cite, retrieved)
  <1>1. CASE ~FitsSchema(reply)
    BY <1>1, UnassessableFacts DEF Assessed
  <1>2. CASE FitsSchema(reply)
    <2> DEFINE cites == {Cited(c, raw) : raw \in reply.citations}
               f == [status |-> reply.status, citations |-> cites,
                     critic_verdict |-> "not_reviewed", evidence_maturity |-> maturity]
    <2>1. \A raw \in reply.citations : Cited(c, raw) \in Citation
      BY <1>2, PipelineAssumption DEF Cited, Citation, Sources
    <2>2. cites \subseteq Citation
      BY <2>1
    <2>3. reply.status \in Status
      BY <1>2 DEF FitsSchema
    <2>4. f \in Finding /\ f.critic_verdict = "not_reviewed"
      <3> HIDE DEF cites
      <3> QED BY <2>2, <2>3 DEF Finding
    <2>5. Assessed(c, reply, maturity, retrieved, require) = enforce(c, f, retrieved, require)
      BY <1>2 DEF Assessed
    <2> HIDE DEF f
    <2>6. QED BY <2>4, <2>5, EnforceFacts
  <1>3. QED BY <1>1, <1>2

\* What the critic makes of a finding it reviews.
LEMMA ReviewedFacts ==
  ASSUME NEW f \in Finding, NEW reply
  PROVE  LET g == Reviewed(f, reply)
         IN  /\ g \in Finding
             /\ g.citations = f.citations
             /\ g.status \in Judged => f.status \in Judged
             /\ f.critic_verdict = "not_reviewed" => Weakened(f, g)
  <1>1. CASE CriticVerdict(reply) = "downgraded" /\ f.status \in Downgradable
    <2>1. Reviewed(f, reply) =
            [f EXCEPT !.status = Downgrade(f.status), !.critic_verdict = "downgraded"]
      BY <1>1 DEF Reviewed
    <2>2. Downgrade(f.status) \in Status /\ f.status \in Judged
      BY <1>1 DEF Downgrade, Downgradable, Status, Judged
    <2>3. QED BY <1>1, <2>1, <2>2 DEF Finding, Weakened
  <1>2. CASE ~(CriticVerdict(reply) = "downgraded" /\ f.status \in Downgradable)
    <2>1. Reviewed(f, reply) = [f EXCEPT !.critic_verdict = "upheld"]
      BY <1>2 DEF Reviewed
    <2>2. QED BY <2>1 DEF Finding, Weakened
  <1>3. QED BY <1>1, <1>2

-----------------------------------------------------------------------------
(***************************************************************************)
(* Types.                                                                  *)
(***************************************************************************)

\* A checkpoint has every field of the state but the report.
LEMMA ToDictFacts ==
  ASSUME NEW s, s \in RunStates({s.report})
  PROVE  /\ to_dict(s) \in RunStates({NoReport})
         /\ to_dict(s).stage = s.stage /\ to_dict(s).risk = s.risk
         /\ to_dict(s).retrieved = s.retrieved /\ to_dict(s).findings = s.findings
         /\ to_dict(s).keys = s.keys /\ to_dict(s).usage = s.usage
         /\ to_dict(s).report = NoReport
         /\ s.report = NoReport => to_dict(s) = s
         /\ to_dict(s) \notin {NoFile, TornFile}
  <1>1. to_dict(s) \in RunStates({NoReport})
    BY DEF to_dict, RunStates
  <1>2. QED BY <1>1, Sentinels DEF to_dict, RunStates

\* A control has at least one retrieved control, of the corpus.
LEMMA RetrievedForType ==
  ASSUME NEW c \in Controls
  PROVE  RetrievedFor(c) \in Seq(Controls) /\ RetrievedFor(c) # NotRetrieved
  <1> DEFINE ids == IF \E i \in 1..Len(Hits[c]) : Hits[c][i] = c
                    THEN Hits[c] ELSE <<c>> \o Hits[c]
             n == IF TopK < Len(ids) THEN TopK ELSE Len(ids)
  <1>1. Hits[c] \in Seq(Controls)
    BY PipelineAssumption
  <1>2. ids \in Seq(Controls) /\ Len(ids) >= 1
    <2>1. CASE \E i \in 1..Len(Hits[c]) : Hits[c][i] = c
      BY <1>1, <2>1, LenProperties
    <2>2. CASE ~\E i \in 1..Len(Hits[c]) : Hits[c][i] = c
      <3>1. <<c>> \in Seq(Controls) /\ Len(<<c>>) = 1
        OBVIOUS
      <3>2. QED BY <1>1, <2>2, <3>1, ConcatProperties, LenProperties
    <2>3. QED BY <2>1, <2>2
  <1>3. n \in 1..Len(ids)
    <2> HIDE DEF ids
    <2> QED BY <1>2, PipelineAssumption, LenProperties
  <1>4. RetrievedFor(c) = SubSeq(ids, 1, n)
    BY DEF RetrievedFor
  <1> HIDE DEF ids, n
  <1>5. SubSeq(ids, 1, n) \in Seq(Controls) /\ Len(SubSeq(ids, 1, n)) = n
    BY <1>2, <1>3, SubSeqProperties, LenProperties
  <1>6. QED BY <1>3, <1>4, <1>5, EmptySeq, LenProperties DEF NotRetrieved

\* The initial state and context have the right types.
LEMMA NewTypes ==
  /\ NewRunState \in RunStates({NoReport})
  /\ NoContext \in [settings : Settings \union {Idle}, usage : Usage]
  /\ EmptyLedger \in [assessed : [Controls -> Nat],
                      noted : SUBSET {"run_blocked", "budget_exceeded", "report_generated"}]
  BY DEF NewRunState, RunStates, NoContext, Usage, NoUsage, EmptyLedger, NotRetrieved, NoReport

\* A call adds to the usage.
LEMMA SpentType ==
  ASSUME Base, NEW cost \in Nat
  PROVE  Spent(cost) \in Usage
  BY DEF Base, Spent, Usage

\* The steps that only move the process.
LEMMA MoveTypes ==
  ASSUME Base, \/ Start \/ SkipNode \/ IntakeBlocks \/ Retry \/ AssessorStart \/ AssessorSkips
               \/ AssessorBreaks \/ CriticOff \/ CriticStart \/ CriticSkips \/ CriticGivesUp
               \/ Truncate \/ Write \/ Finish \/ Crash
  PROVE  Base'
  <1>1. CASE Start
    <2>1. \E s \in Settings : ctx' = [settings |-> s, usage |-> NoUsage]
      BY <1>1 DEF Start
    <2>2. ctx' \in [settings : Settings \union {Idle}, usage : Usage] /\ ctx'.settings \in Settings
      BY <2>1 DEF Usage, NoUsage
    <2>3. state' \in RunStates({NoReport}) /\ state'.report = NoReport
      <3>1. disk \in RunStates({NoReport}) \/ disk = NoFile
        BY <1>1 DEF Start, Base
      <3>2. state' = NewRunState \/ state' \in RunStates({NoReport})
        BY <1>1, <3>1 DEF Start
      <3>3. QED BY <3>2, NewTypes DEF RunStates
    <2>4. state' \in RunStates({state'.report})
      BY <2>3
    <2>5. /\ UNCHANGED <<config, disk, todo, attempt, ledger>>
          /\ pc' = "node" /\ node' = 1 /\ outcome' = "none"
          /\ processes' = processes + 1 /\ processes < MaxProcesses
      BY <1>1 DEF Start
    <2>6. processes' \in 0..MaxProcesses
      BY <2>5, PipelineAssumption DEF Base
    <2>7. QED BY <2>2, <2>4, <2>5, <2>6 DEF Base
  <1>2. CASE SkipNode
    BY <1>2 DEF SkipNode, Base, PIPELINE
  <1>3. CASE IntakeBlocks
    BY <1>3 DEF IntakeBlocks, Note, Base
  <1>4. CASE Retry
    BY <1>4 DEF Retry, Base
  <1>5. CASE AssessorStart
    BY <1>5, ScopeAssumption DEF AssessorStart, AtNode, PIPELINE, Base
  <1>6. CASE AssessorSkips
    BY <1>6, HeadTailProperties DEF AssessorSkips, Base
  <1>7. CASE AssessorBreaks
    BY <1>7 DEF AssessorBreaks, Note, Base
  <1>8. CASE CriticOff
    BY <1>8 DEF CriticOff, AtNode, PIPELINE, Base
  <1>9. CASE CriticStart
    BY <1>9 DEF CriticStart, AtNode, PIPELINE, Base, RunStates
  <1>10. CASE CriticSkips
    BY <1>10, HeadTailProperties DEF CriticSkips, Base
  <1>11. CASE CriticGivesUp
    BY <1>11, HeadTailProperties DEF CriticGivesUp, Base
  <1>12. CASE Truncate
    BY <1>12 DEF Truncate, Base
  <1>13. CASE Write
    <2>1. to_dict(state) \in RunStates({NoReport})
      BY ToDictFacts DEF Base
    <2>2. QED BY <1>13, <2>1 DEF Write, Base
  <1>14. CASE Finish
    BY <1>14 DEF Finish, Base
  <1>15. CASE Crash
    BY <1>15, NewTypes DEF Crash, Base, RunStates
  <1>16. QED
    BY <1>1, <1>2, <1>3, <1>4, <1>5, <1>6, <1>7, <1>8, <1>9, <1>10, <1>11, <1>12, <1>13,
       <1>14, <1>15

\* A turn of the assessor's loop that ends in a finding: the finding is well
\* formed, unreviewed and, where citations are required, grounded.
Turn(f, usage) ==
  /\ pc = "assess" /\ todo # << >>
  /\ state.findings[Head(todo)] = NoFinding
  /\ f.critic_verdict = "not_reviewed"
  /\ (\A s \in Settings : s.require_citations) /\ f.status \in Judged =>
       /\ \E cite \in f.citations : cite.source = "corpus"
       /\ \A cite \in f.citations : Retrievable(Head(todo), cite, RetrievedOf(state, Head(todo)))
  /\ Find(Head(todo), f, usage)
  /\ ctx' \in [settings : {ctx.settings}, usage : Usage]
  /\ UNCHANGED <<config, disk, pc, node, outcome, processes>>

LEMMA AssessorTurn ==
  ASSUME Base, (\E reply \in Replies : AssessorFinds(reply)) \/ AssessorGivesUp
  PROVE  \E f \in Finding, usage \in Usage : Turn(f, usage)
  <1>1. pc = "assess" /\ todo # << >> /\ state.findings[Head(todo)] = NoFinding
        /\ UNCHANGED <<config, disk, pc, node, outcome, processes>>
    BY DEF AssessorFinds, AssessorGivesUp
  <1>2. Head(todo) \in Controls
    BY <1>1, HeadTailProperties DEF Base
  <1>3. ctx.settings \in Settings /\ ctx.usage \in Usage
        /\ ctx \in [settings : {ctx.settings}, usage : Usage]
    BY <1>1 DEF Base
  <1>4. CASE AssessorGivesUp
    <2>1. Find(Head(todo), Unassessable(Head(todo)), ctx.usage) /\ ctx' = ctx
      BY <1>4 DEF AssessorGivesUp
    <2>2. Turn(Unassessable(Head(todo)), ctx.usage)
      BY <1>1, <1>2, <1>3, <2>1, UnassessableFacts DEF Turn
    <2>3. QED BY <1>2, <1>3, <2>2, UnassessableFacts
  <1>5. ASSUME NEW reply \in Replies, AssessorFinds(reply)
        PROVE  \E f \in Finding, usage \in Usage : Turn(f, usage)
    <2> DEFINE h == Head(todo)
               ret == RetrievedOf(state, h)
               req == ctx.settings.require_citations
               f == Assessed(h, reply, config.maturity[h], ret, req)
    <2>1. config.maturity[h] \in EvidenceMaturity /\ reply.cost \in Nat /\ req \in BOOLEAN
      BY <1>2, <1>3, PipelineAssumption DEF Base
    <2>2. Spent(reply.cost) \in Usage
      BY <2>1, SpentType
    <2>3. ctx' = [ctx EXCEPT !.usage = Spent(reply.cost)]
      BY <1>5 DEF AssessorFinds
    <2>4. ctx' \in [settings : {ctx.settings}, usage : Usage]
      BY <1>3, <2>2, <2>3
    <2>5. Find(h, f, Spent(reply.cost))
      BY <1>5 DEF AssessorFinds
    <2>6. /\ f \in Finding /\ f.critic_verdict = "not_reviewed"
          /\ req /\ f.status \in Judged =>
               /\ \E cite \in f.citations : cite.source = "corpus"
               /\ \A cite \in f.citations : Retrievable(h, cite, ret)
      <3> HIDE DEF h, ret, req
      <3> QED BY <1>2, <2>1, AssessedFacts DEF h
    <2>7. (\A s \in Settings : s.require_citations) => req
      BY <1>3
    <2> HIDE DEF f
    <2>8. Turn(f, Spent(reply.cost))
      BY <1>1, <2>4, <2>5, <2>6, <2>7 DEF Turn
    <2>9. QED BY <2>2, <2>6, <2>8
  <1>6. QED BY <1>4, <1>5

\* What such a turn changes.
LEMMA TurnShape ==
  ASSUME Base, NEW f \in Finding, NEW usage \in Usage, Turn(f, usage)
  PROVE  /\ Head(todo) \in Controls
         /\ state' \in RunStates({state'.report})
         /\ state'.stage = state.stage /\ state'.risk = state.risk
         /\ state'.retrieved = state.retrieved /\ state'.report = state.report
         /\ state'.findings = [state.findings EXCEPT ![Head(todo)] = f]
         /\ state'.keys = Append(state.keys, Head(todo))
         /\ ledger' \in [assessed : [Controls -> Nat],
                         noted : SUBSET {"run_blocked", "budget_exceeded", "report_generated"}]
         /\ ledger'.noted = ledger.noted
         /\ ledger'.assessed = [ledger.assessed EXCEPT ![Head(todo)] = @ + 1]
         /\ todo' = Tail(todo) /\ attempt' = 0
  <1>1. Head(todo) \in Controls
    BY HeadTailProperties DEF Base, Turn
  <1>2. state' = [state EXCEPT !.findings[Head(todo)] = f,
                               !.keys = Append(@, Head(todo)), !.usage = usage]
    BY DEF Turn, Find
  <1>3. Append(state.keys, Head(todo)) \in Seq(Controls)
    BY <1>1, AppendProperties DEF Base, RunStates
  <1>4. [state.findings EXCEPT ![Head(todo)] = f] \in [Controls -> Finding \union {NoFinding}]
    BY <1>1 DEF Base, RunStates
  <1>5. /\ state' \in RunStates({state'.report})
        /\ state'.stage = state.stage /\ state'.risk = state.risk
        /\ state'.retrieved = state.retrieved /\ state'.report = state.report
        /\ state'.findings = [state.findings EXCEPT ![Head(todo)] = f]
        /\ state'.keys = Append(state.keys, Head(todo))
    BY <1>2, <1>3, <1>4 DEF Base, RunStates
  <1>6. ledger' = [ledger EXCEPT !.assessed[Head(todo)] = @ + 1]
    BY DEF Turn, Find
  <1>7. [ledger.assessed EXCEPT ![Head(todo)] = @ + 1] \in [Controls -> Nat]
    BY <1>1 DEF Base
  <1>8. /\ ledger' \in [assessed : [Controls -> Nat],
                        noted : SUBSET {"run_blocked", "budget_exceeded", "report_generated"}]
        /\ ledger'.noted = ledger.noted
        /\ ledger'.assessed = [ledger.assessed EXCEPT ![Head(todo)] = @ + 1]
    BY <1>6, <1>7 DEF Base
  <1>9. QED BY <1>1, <1>5, <1>8 DEF Turn, Find

\* What a review changes.
LEMMA ReviewShape ==
  ASSUME Base, NEW reply \in CriticReplies, CriticReviews(reply),
         state.findings[Head(todo)] # NoFinding
  PROVE  /\ Head(todo) \in Controls
         /\ state.findings[Head(todo)] \in Finding
         /\ state' \in RunStates({state'.report})
         /\ state'.stage = state.stage /\ state'.risk = state.risk
         /\ state'.retrieved = state.retrieved /\ state'.report = state.report
         /\ state'.keys = state.keys /\ state'.usage = state.usage
         /\ state'.findings = [state.findings EXCEPT
              ![Head(todo)] = Reviewed(state.findings[Head(todo)], reply)]
         /\ Reviewed(state.findings[Head(todo)], reply) \in Finding
         /\ ctx' \in [settings : {ctx.settings}, usage : Usage]
  <1>1. pc = "review" /\ todo # << >>
        /\ state' = [state EXCEPT !.findings[Head(todo)] = Reviewed(@, reply)]
        /\ ctx' = [ctx EXCEPT !.usage = Spent(CriticCost)]
    BY DEF CriticReviews
  <1>2. Head(todo) \in Controls
    BY <1>1, HeadTailProperties DEF Base
  <1>3. state.findings \in [Controls -> Finding \union {NoFinding}]
    BY DEF Base, RunStates
  <1>4. state.findings[Head(todo)] \in Finding
    BY <1>2, <1>3
  <1>5. Reviewed(state.findings[Head(todo)], reply) \in Finding
    BY <1>4, ReviewedFacts
  <1>6. [state.findings EXCEPT ![Head(todo)] = Reviewed(state.findings[Head(todo)], reply)]
          \in [Controls -> Finding \union {NoFinding}]
    BY <1>2, <1>3, <1>5
  <1>7. /\ state' \in RunStates({state'.report})
        /\ state'.stage = state.stage /\ state'.risk = state.risk
        /\ state'.retrieved = state.retrieved /\ state'.report = state.report
        /\ state'.keys = state.keys /\ state'.usage = state.usage
        /\ state'.findings = [state.findings EXCEPT
             ![Head(todo)] = Reviewed(state.findings[Head(todo)], reply)]
    BY <1>1, <1>6 DEF Base, RunStates
  <1>8. Spent(CriticCost) \in Usage
    BY SpentType, PipelineAssumption
  <1>9. ctx' \in [settings : {ctx.settings}, usage : Usage]
    BY <1>1, <1>8 DEF Base
  <1>10. QED BY <1>2, <1>4, <1>5, <1>7, <1>9

\* What the steps that move the stage leave of a state.
SameData == /\ state'.retrieved = state.retrieved /\ state'.findings = state.findings
            /\ state'.keys = state.keys
SameRest == /\ state'.risk = state.risk /\ state'.report = state.report

\* A node's last step moves the stage and sets the field that is its own.
Advance ==
  IntakePasses \/ AssessRisk \/ Retrieve \/ AssessorEnds \/ CriticEnds \/ Report

LEMMA AdvanceShape ==
  ASSUME Base, Advance
  PROVE  /\ state' \in RunStates({state'.report})
         /\ pc' = "save" /\ node \in 1..6
         /\ UNCHANGED <<config, disk, ctx, node, todo, attempt, outcome, processes>>
         /\ IntakePasses => SameData /\ SameRest /\ state'.stage = "intake_complete"
         /\ AssessRisk => /\ SameData /\ state'.report = state.report
                          /\ state'.risk = config.tier /\ state'.stage = "risk_complete"
         /\ Retrieve => /\ SameRest /\ state'.findings = state.findings /\ state'.keys = state.keys
                        /\ state'.stage = "retrieval_complete"
                        /\ \A c \in Controls : state'.retrieved[c] =
                             IF c \in InScope THEN RetrievedFor(c) ELSE state.retrieved[c]
         /\ AssessorEnds => SameData /\ SameRest /\ state'.stage = "assessment_complete"
         /\ CriticEnds => SameData /\ SameRest /\ state'.stage = "critique_complete"
         /\ Report => /\ SameData /\ state'.risk = state.risk /\ state'.stage = "complete"
                      /\ state'.usage = state.usage
                      /\ state'.report = ReportOf(state.findings, state.usage)
  <1> USE DEF SameData, SameRest
  <1>1. CASE IntakePasses
    <2>1. state' = [state EXCEPT !.stage = "intake_complete"]
      BY <1>1 DEF IntakePasses
    <2>2. /\ state' \in RunStates({state'.report}) /\ SameData /\ SameRest
          /\ state'.stage = "intake_complete"
      BY <2>1 DEF Base, RunStates
    <2>3. state.stage = "created" /\ node <= 6
      BY <1>1 DEF IntakePasses, AtNode, requires_stage, PIPELINE
    <2>4. QED BY <1>1, <2>2, <2>3 DEF IntakePasses, Base, AssessRisk, Retrieve, AssessorEnds,
                 CriticEnds, Report, AtNode, PIPELINE
  <1>2. CASE AssessRisk
    <2>1. state' = [state EXCEPT !.stage = "risk_complete", !.risk = config.tier]
      BY <1>2 DEF AssessRisk
    <2>2. config.tier \in {c.tier : c \in Configs}
      BY DEF Base
    <2>3. /\ state' \in RunStates({state'.report}) /\ SameData /\ state'.report = state.report
          /\ state'.stage = "risk_complete" /\ state'.risk = config.tier
      BY <2>1, <2>2 DEF Base, RunStates
    <2>4. QED BY <1>2, <2>3 DEF AssessRisk, Base, IntakePasses, Retrieve, AssessorEnds,
                 CriticEnds, Report, AtNode, PIPELINE
  <1>3. CASE Retrieve
    <2> DEFINE got == [c \in Controls |-> IF c \in InScope THEN RetrievedFor(c)
                                          ELSE state.retrieved[c]]
    <2>1. state' = [state EXCEPT !.stage = "retrieval_complete", !.retrieved = got]
      BY <1>3 DEF Retrieve
    <2>2. state.retrieved \in [Controls -> Seq(Controls)]
      BY DEF Base, RunStates
    <2>3. got \in [Controls -> Seq(Controls)]
      BY <2>2, RetrievedForType
    <2>4. \A c \in Controls :
            got[c] = IF c \in InScope THEN RetrievedFor(c) ELSE state.retrieved[c]
      OBVIOUS
    <2> HIDE DEF got
    <2>5. /\ state' \in RunStates({state'.report}) /\ SameRest
          /\ state'.findings = state.findings /\ state'.keys = state.keys
          /\ state'.stage = "retrieval_complete" /\ state'.retrieved = got
      BY <2>1, <2>3 DEF Base, RunStates
    <2>6. QED BY <1>3, <2>4, <2>5 DEF Retrieve, Base, IntakePasses, AssessRisk, AssessorEnds,
                 CriticEnds, Report, AtNode, PIPELINE
  <1>4. CASE AssessorEnds
    <2>1. state' = [state EXCEPT !.stage = "assessment_complete"]
      BY <1>4 DEF AssessorEnds
    <2>2. /\ state' \in RunStates({state'.report}) /\ SameData /\ SameRest
          /\ state'.stage = "assessment_complete"
      BY <2>1 DEF Base, RunStates
    <2>3. QED BY <1>4, <2>2 DEF AssessorEnds, Base, IntakePasses, AssessRisk, Retrieve,
                 CriticEnds, Report, AtNode
  <1>5. CASE CriticEnds
    <2>1. state' = [state EXCEPT !.stage = "critique_complete", !.usage = ctx.usage]
      BY <1>5 DEF CriticEnds
    <2>2. /\ state' \in RunStates({state'.report}) /\ SameData /\ SameRest
          /\ state'.stage = "critique_complete"
      BY <2>1 DEF Base, RunStates
    <2>3. QED BY <1>5, <2>2 DEF CriticEnds, Base, IntakePasses, AssessRisk, Retrieve,
                 AssessorEnds, Report, AtNode
  <1>6. CASE Report
    <2>1. state' = [state EXCEPT !.stage = "complete",
                                 !.report = ReportOf(state.findings, state.usage)]
      BY <1>6 DEF Report
    <2>2. /\ state' \in RunStates({state'.report}) /\ SameData /\ state'.risk = state.risk
          /\ state'.stage = "complete" /\ state'.usage = state.usage
          /\ state'.report = ReportOf(state.findings, state.usage)
      BY <2>1 DEF Base, RunStates
    <2>3. QED BY <1>6, <2>2 DEF Report, Base, IntakePasses, AssessRisk, Retrieve,
                 AssessorEnds, CriticEnds, AtNode, PIPELINE
  <1>7. QED BY <1>1, <1>2, <1>3, <1>4, <1>5, <1>6 DEF Advance

\* A step of the process is one of these four kinds.
Move ==
  \/ Start \/ SkipNode \/ IntakeBlocks \/ Retry \/ AssessorStart \/ AssessorSkips
  \/ AssessorBreaks \/ CriticOff \/ CriticStart \/ CriticSkips \/ CriticGivesUp
  \/ Truncate \/ Write \/ Finish \/ Crash

LEMMA FourKinds ==
  ASSUME Next
  PROVE  \/ Move \/ Advance
         \/ (\E reply \in Replies : AssessorFinds(reply)) \/ AssessorGivesUp
         \/ \E reply \in CriticReplies : CriticReviews(reply)
  BY DEF Next, Step, Assessor, Critic, Move, Advance

\* Every step preserves the types.
LEMMA BaseStep ==
  ASSUME Base, Clean, [Next]_vars
  PROVE  Base'
  <1>1. CASE UNCHANGED vars
    BY <1>1 DEF vars, Base
  <1>2. CASE Move
    BY <1>2, MoveTypes DEF Move
  <1>3. CASE Advance
    <2>1. ledger' \in [assessed : [Controls -> Nat],
                       noted : SUBSET {"run_blocked", "budget_exceeded", "report_generated"}]
      <3>1. CASE Report
        BY <3>1 DEF Report, Note, Base
      <3>2. CASE ~Report
        <4>1. ledger' = ledger
          BY <1>3, <3>2 DEF Advance, IntakePasses, AssessRisk, Retrieve, AssessorEnds, CriticEnds
        <4>2. QED BY <4>1 DEF Base
      <3>3. QED BY <3>1, <3>2
    <2>2. pc # "down"
      BY <1>3 DEF Advance, IntakePasses, AssessRisk, Retrieve, AssessorEnds, CriticEnds, Report,
                  AtNode
    <2>3. QED BY <1>3, <2>1, <2>2, AdvanceShape DEF Base
  <1>4. CASE (\E reply \in Replies : AssessorFinds(reply)) \/ AssessorGivesUp
    <2>1. PICK f \in Finding, usage \in Usage : Turn(f, usage)
      BY <1>4, AssessorTurn
    <2>2. todo' \in Seq(Controls) /\ attempt' \in Nat
      <3>1. todo' = Tail(todo) /\ attempt' = 0
        BY <2>1, TurnShape
      <3>2. todo # << >> /\ todo \in Seq(Controls)
        BY <2>1 DEF Base, Turn
      <3>3. QED BY <3>1, <3>2, HeadTailProperties
    <2>3. ctx' \in [settings : Settings \union {Idle}, usage : Usage]
          /\ ctx'.settings \in Settings
      BY <2>1 DEF Turn, Base
    <2>4. QED BY <2>1, <2>2, <2>3, TurnShape DEF Turn, Base
  <1>5. CASE \E reply \in CriticReplies : CriticReviews(reply)
    <2>1. PICK reply \in CriticReplies : CriticReviews(reply)
      BY <1>5
    <2>2. pc = "review" /\ todo # << >> /\ todo' = Tail(todo) /\ attempt' = 0
          /\ UNCHANGED <<config, disk, pc, node, ledger, outcome, processes>>
      BY <2>1 DEF CriticReviews
    <2>3. Len(todo) \in Nat \ {0} /\ Head(todo) = todo[1] /\ todo' \in Seq(Controls)
      BY <2>2, EmptySeq, HeadTailProperties DEF Base
    <2>4. state.findings[Head(todo)] # NoFinding
      BY <2>2, <2>3 DEF Clean
    <2>5. ctx' \in [settings : Settings \union {Idle}, usage : Usage]
          /\ ctx'.settings \in Settings
      BY <2>1, <2>2, <2>4, ReviewShape DEF Base
    <2>6. state' \in RunStates({state'.report})
      BY <2>1, <2>4, ReviewShape
    <2>7. QED BY <2>2, <2>3, <2>5, <2>6 DEF Base
  <1>6. QED BY <1>1, <1>2, <1>3, <1>4, <1>5, FourKinds

-----------------------------------------------------------------------------
(***************************************************************************)
(* Where the process may be at each stage.                                 *)
(***************************************************************************)

\* The stage and the position at which a node runs.
LEMMA AtNodeFacts ==
  ASSUME Base
  PROVE  /\ AtNode("intake") => node = 1 /\ state.stage = "created"
         /\ AtNode("risk") => node = 2 /\ state.stage = "intake_complete"
         /\ AtNode("retrieval") => node = 3 /\ state.stage = "risk_complete"
         /\ AtNode("assessor") => node = 4 /\ state.stage = "retrieval_complete"
         /\ AtNode("critic") => node = 5 /\ state.stage = "assessment_complete"
         /\ AtNode("reporter") =>
              node = 6 /\ state.stage \in {"assessment_complete", "critique_complete"}
  <1> DEFINE P == PIPELINE
  <1>1. \A name : AtNode(name) => node \in 1..6 /\ PIPELINE[node] = name
    BY DEF AtNode, Base, PIPELINE
  <1>2. \A n \in 1..6 : /\ PIPELINE[n] = "intake" => n = 1
                        /\ PIPELINE[n] = "risk" => n = 2
                        /\ PIPELINE[n] = "retrieval" => n = 3
                        /\ PIPELINE[n] = "assessor" => n = 4
                        /\ PIPELINE[n] = "critic" => n = 5
                        /\ PIPELINE[n] = "reporter" => n = 6
    BY DEF PIPELINE
  <1>3. /\ requires_stage("intake") = {"created"}
        /\ requires_stage("risk") = {"intake_complete"}
        /\ requires_stage("retrieval") = {"risk_complete"}
        /\ requires_stage("assessor") = {"retrieval_complete"}
        /\ requires_stage("critic") = {"assessment_complete"}
        /\ requires_stage("reporter") = {"assessment_complete", "critique_complete"}
    BY DEF requires_stage
  <1>4. \A name : AtNode(name) => state.stage \in requires_stage(name)
    BY DEF AtNode
  <1>5. QED BY <1>1, <1>2, <1>3, <1>4

\* A node that is skipped has been passed.
LEMMA SkipFacts ==
  ASSUME Base, Control, SkipNode
  PROVE  node \in 1..6 /\ state.stage \notin Behind(node + 1)
  <1>1. pc = "node" /\ node \in 1..6 /\ state.stage \notin requires_stage(PIPELINE[node])
    BY DEF SkipNode, Base, PIPELINE
  <1>2. state.stage \notin Behind(node)
    BY <1>1 DEF Control
  <1>3. CASE node = 1
    BY <1>1, <1>3 DEF PIPELINE, requires_stage, Behind
  <1>4. CASE node = 2
    BY <1>1, <1>2, <1>4 DEF PIPELINE, requires_stage, Behind
  <1>5. CASE node = 3
    BY <1>1, <1>2, <1>5 DEF PIPELINE, requires_stage, Behind
  <1>6. CASE node = 4
    BY <1>1, <1>2, <1>6 DEF PIPELINE, requires_stage, Behind
  <1>7. CASE node = 5
    BY <1>1, <1>2, <1>7 DEF PIPELINE, requires_stage, Behind
  <1>8. CASE node = 6
    BY <1>1, <1>2, <1>8 DEF PIPELINE, requires_stage, Behind
  <1>9. QED BY <1>1, <1>3, <1>4, <1>5, <1>6, <1>7, <1>8

\* Where a node ends, what it required is behind.
LEMMA AdvanceFacts ==
  ASSUME Base, Control, Advance
  PROVE  /\ state'.stage \notin Behind(node + 1) /\ state'.stage # "created"
         /\ pc # "down" /\ disk' = disk /\ outcome = "none"
         /\ pc \in {"node", "assess", "review"}
         /\ IntakePasses => node = 1 /\ state.stage = "created"
         /\ AssessRisk => node = 2 /\ state.stage = "intake_complete"
         /\ Retrieve => node = 3 /\ state.stage = "risk_complete"
         /\ AssessorEnds => node = 4 /\ state.stage = "retrieval_complete"
         /\ CriticEnds => node = 5 /\ state.stage = "assessment_complete"
         /\ Report => node = 6 /\ state.stage \in {"assessment_complete", "critique_complete"}
  <1>1. pc \in {"node", "assess", "review"} /\ pc # "down" /\ outcome = "none"
    BY DEF Advance, IntakePasses, AssessRisk, Retrieve, AssessorEnds, CriticEnds, Report, AtNode,
           Control
  <1>2. /\ IntakePasses => node = 1 /\ state.stage = "created"
        /\ AssessRisk => node = 2 /\ state.stage = "intake_complete"
        /\ Retrieve => node = 3 /\ state.stage = "risk_complete"
        /\ AssessorEnds => node = 4 /\ state.stage = "retrieval_complete"
        /\ CriticEnds => node = 5 /\ state.stage = "assessment_complete"
        /\ Report => node = 6 /\ state.stage \in {"assessment_complete", "critique_complete"}
    BY AtNodeFacts DEF IntakePasses, AssessRisk, Retrieve, AssessorEnds, CriticEnds, Report,
                       Control
  <1>3. state'.stage \notin Behind(node + 1) /\ state'.stage # "created"
    BY <1>2, AdvanceShape DEF Advance, Behind
  <1>4. QED BY <1>1, <1>2, <1>3, AdvanceShape

\* Every step keeps the process where its stage says.
LEMMA ControlStep ==
  ASSUME Base, Control, Files, Clean, [Next]_vars
  PROVE  Control'
  <1>1. CASE UNCHANGED vars
    BY <1>1 DEF vars, Control
  <1>2. CASE Move
    <2>1. CASE Start
      BY <2>1 DEF Start, Control, Behind
    <2>2. CASE SkipNode
      BY <2>2, SkipFacts DEF SkipNode, Control
    <2>3. CASE IntakeBlocks
      BY <2>3 DEF IntakeBlocks, Control
    <2>4. CASE Retry \/ AssessorSkips \/ AssessorBreaks \/ CriticSkips \/ CriticGivesUp
      BY <2>4 DEF Retry, AssessorSkips, AssessorBreaks, CriticSkips, CriticGivesUp, Control
    <2>5. CASE AssessorStart
      BY <2>5, AtNodeFacts DEF AssessorStart, Control, AtNode
    <2>6. CASE CriticStart
      BY <2>6, AtNodeFacts DEF CriticStart, Control, AtNode
    <2>7. CASE CriticOff
      <3>1. state.stage \notin Behind(node + 1)
        BY <2>7, AtNodeFacts DEF CriticOff, Behind
      <3>2. QED BY <2>7, <3>1 DEF CriticOff, Control, AtNode
    <2>8. CASE Truncate
      BY <2>8 DEF Truncate, Control
    <2>9. CASE Write
      BY <2>9 DEF Write, Control
    <2>10. CASE Finish
      BY <2>10 DEF Finish, Control
    <2>11. CASE Crash
      BY <2>11 DEF Crash, Control
    <2>12. QED BY <1>2, <2>1, <2>2, <2>3, <2>4, <2>5, <2>6, <2>7, <2>8, <2>9, <2>10, <2>11
               DEF Move
  <1>3. CASE Advance
    BY <1>3, AdvanceShape, AdvanceFacts DEF Control
  <1>4. CASE (\E reply \in Replies : AssessorFinds(reply)) \/ AssessorGivesUp
    <2>1. PICK f \in Finding, usage \in Usage : Turn(f, usage)
      BY <1>4, AssessorTurn
    <2>2. QED BY <2>1, TurnShape DEF Turn, Control
  <1>5. CASE \E reply \in CriticReplies : CriticReviews(reply)
    <2>1. PICK reply \in CriticReplies : CriticReviews(reply)
      BY <1>5
    <2>2. state'.stage = state.stage
      BY <2>1 DEF CriticReviews, Base, RunStates
    <2>3. QED BY <2>1, <2>2 DEF CriticReviews, Control
  <1>6. QED BY <1>1, <1>2, <1>3, <1>4, <1>5, FourKinds

-----------------------------------------------------------------------------
(***************************************************************************)
(* What the checkpoint has.                                                *)
(***************************************************************************)

\* Inside a process that is not writing, the file can be read.
LEMMA Readable ==
  ASSUME Base, Files, pc \in {"node", "assess", "review", "save"}
  PROVE  disk # TornFile
  <1>1. CASE pc = "node"
    <2>1. disk = NoFile \/ disk = to_dict(state)
      BY <1>1 DEF Files
    <2>2. QED BY <2>1, ToDictFacts, Sentinels DEF Base
  <1>2. CASE pc # "node"
    BY <1>2 DEF Files
  <1>3. QED BY <1>1, <1>2

\* "created" is behind after the first node, all but "complete" after the last.
LEMMA BehindFacts ==
  /\ \A n \in 2..7 : "created" \in Behind(n)
  /\ Base /\ state.stage \notin Behind(7) => state.stage = "complete"
  <1>1. \A n \in 2..7 : "created" \in Behind(n)
    BY DEF Behind
  <1>2. ASSUME Base, state.stage \notin Behind(7) PROVE state.stage = "complete"
    BY <1>2 DEF Behind, Base, RunStates
  <1>3. QED BY <1>1, <1>2

\* Every step keeps the file what the control state says it is.
LEMMA FilesStep ==
  ASSUME Base, Control, Files, Clean, [Next]_vars
  PROVE  Files'
  <1> USE DEF Saved
  <1>1. CASE UNCHANGED vars
    BY <1>1 DEF vars, Files, to_dict
  <1>2. CASE Move
    <2>1. CASE Start
      <3>1. disk # TornFile /\ UNCHANGED disk /\ pc' = "node" /\ outcome' = "none"
            /\ state' = IF disk = NoFile THEN NewRunState ELSE disk
        BY <2>1 DEF Start
      <3>2. CASE disk = NoFile
        BY <3>1, <3>2, Sentinels DEF Files, NewRunState
      <3>3. CASE disk # NoFile
        <4>1. state' = disk /\ disk \in RunStates({NoReport}) /\ disk.stage # "created"
          BY <3>1, <3>3 DEF Files, Base
        <4>2. state' \in RunStates({state'.report}) /\ state'.report = NoReport
          BY <4>1 DEF RunStates
        <4>3. to_dict(state') = state'
          BY <4>2, ToDictFacts
        <4>4. disk' = to_dict(state') /\ state'.stage # "created"
          BY <3>1, <4>1, <4>3
        <4>5. QED BY <3>1, <3>3, <4>1, <4>4 DEF Files
      <3>4. QED BY <3>2, <3>3
    <2>2. CASE SkipNode
      BY <2>2 DEF SkipNode, Files, to_dict
    <2>3. CASE IntakeBlocks
      <3>1. disk # TornFile
        BY <2>3, Readable DEF IntakeBlocks, AtNode
      <3>2. QED BY <2>3, <3>1 DEF IntakeBlocks, Files
    <2>4. CASE Retry \/ AssessorSkips \/ AssessorBreaks \/ CriticSkips \/ CriticGivesUp
      <3>1. pc \in {"assess", "review"} /\ UNCHANGED <<disk, pc, outcome>>
        BY <2>4 DEF Retry, AssessorSkips, AssessorBreaks, CriticSkips, CriticGivesUp
      <3>2. QED BY <3>1 DEF Files
    <2>5. CASE AssessorStart \/ CriticStart \/ CriticOff
      <3>1. pc = "node" /\ pc' \in {"assess", "review", "save"} /\ UNCHANGED <<disk, outcome>>
        BY <2>5 DEF AssessorStart, CriticStart, CriticOff, AtNode
      <3>2. disk # TornFile
        BY <3>1, Readable
      <3>3. QED BY <3>1, <3>2 DEF Files
    <2>6. CASE Truncate
      BY <2>6 DEF Truncate, Files
    <2>7. CASE Write
      <3>1. state.stage # "created" /\ node \in 1..6
        BY <2>7, BehindFacts DEF Write, Control, Base
      <3>2. /\ disk' = to_dict(state) /\ state' = state /\ pc' = "node" /\ outcome' = "none"
            /\ disk'.stage # "created" /\ disk' # TornFile
        BY <2>7, <3>1, ToDictFacts DEF Write, Base, Control
      <3>3. disk' = to_dict(state')
        BY <3>2
      <3>4. QED BY <3>1, <3>2, <3>3 DEF Files
    <2>8. CASE Finish
      <3>1. pc = "node" /\ node = 7 /\ pc' = "down" /\ outcome' \in {"returned", "raised"}
            /\ UNCHANGED <<state, disk>>
        BY <2>8 DEF Finish, Base, PIPELINE
      <3>2. state.stage = "complete"
        BY <3>1, BehindFacts DEF Control
      <3>3. disk = to_dict(state) /\ disk # NoFile /\ disk # TornFile /\ disk.stage = "complete"
        BY <3>1, <3>2, ToDictFacts DEF Files, Base
      <3>4. disk' = to_dict(state')
        BY <3>1, <3>3
      <3>5. QED BY <3>1, <3>3, <3>4 DEF Files
    <2>9. CASE Crash
      BY <2>9 DEF Crash, Files
    <2>10. QED BY <1>2, <2>1, <2>2, <2>3, <2>4, <2>5, <2>6, <2>7, <2>8, <2>9 DEF Move
  <1>3. CASE Advance
    <2>1. disk # TornFile /\ disk' = disk /\ pc' = "save"
      BY <1>3, AdvanceFacts, AdvanceShape, Readable
    <2>2. QED BY <2>1 DEF Files
  <1>4. CASE (\E reply \in Replies : AssessorFinds(reply)) \/ AssessorGivesUp
    <2>1. pc = "assess" /\ UNCHANGED <<disk, pc, outcome>>
      BY <1>4 DEF AssessorFinds, AssessorGivesUp
    <2>2. QED BY <2>1 DEF Files
  <1>5. CASE \E reply \in CriticReplies : CriticReviews(reply)
    <2>1. pc = "review" /\ UNCHANGED <<disk, pc, outcome>>
      BY <1>5 DEF CriticReviews
    <2>2. QED BY <2>1 DEF Files
  <1>6. QED BY <1>1, <1>2, <1>3, <1>4, <1>5, FourKinds

-----------------------------------------------------------------------------
(***************************************************************************)
(* What a stage implies about the data.                                    *)
(***************************************************************************)

LEMMA ScopeInControls == InScope \subseteq Controls
  BY ScopeAssumption, ElementOfSeq DEF InScope

\* A state of a new run.
LEMMA NewClean ==
  /\ StageAgrees(NewRunState) /\ KeysAgree(NewRunState) /\ Settled(NewRunState)
  /\ NewRunState.report = NoReport
  <1>1. /\ NewRunState.stage = "created" /\ NewRunState.risk = NoRisk
        /\ \A c \in Controls : NewRunState.retrieved[c] = NotRetrieved
                               /\ NewRunState.findings[c] = NoFinding
        /\ NewRunState.keys = << >> /\ NewRunState.report = NoReport
    BY DEF NewRunState
  <1>2. StageAgrees(NewRunState)
    BY <1>1 DEF StageAgrees, Early
  <1>3. KeysAgree(NewRunState)
    BY <1>1, EmptySeq DEF KeysAgree
  <1>4. QED BY <1>1, <1>2, <1>3 DEF Settled

\* What was said of a state holds of its checkpoint.
LEMMA ToDictClean ==
  ASSUME NEW s, s \in RunStates({s.report}), StageAgrees(s), KeysAgree(s), Settled(s)
  PROVE  StageAgrees(to_dict(s)) /\ KeysAgree(to_dict(s)) /\ Settled(to_dict(s))
  <1> DEFINE d == to_dict(s)
  <1>1. /\ d.stage = s.stage /\ d.risk = s.risk /\ d.retrieved = s.retrieved
        /\ d.findings = s.findings /\ d.keys = s.keys /\ d.report = NoReport
    BY ToDictFacts
  <1> HIDE DEF d
  <1>2. StageAgrees(d) BY <1>1 DEF StageAgrees
  <1>3. KeysAgree(d) BY <1>1 DEF KeysAgree
  <1>4. Settled(d) BY <1>1 DEF Settled
  <1>5. QED BY <1>2, <1>3, <1>4 DEF d

\* A step that moves the stage.
LEMMA CleanAdvance ==
  ASSUME Base, Control, Files, Clean, Advance
  PROVE  Clean'
  <1>1. UNCHANGED disk /\ pc' = "save"
    BY AdvanceShape
  <1>2. Saved' = Saved /\ (Saved => StageAgrees(disk') /\ KeysAgree(disk') /\ Settled(disk'))
    BY <1>1 DEF Clean, Saved
  <1>3. StageAgrees(state) /\ KeysAgree(state)
    BY DEF Clean
  <1>4. pc \notin {"assess", "review"} => Settled(state)
    BY DEF Clean
  <1>5. SUFFICES /\ StageAgrees(state') /\ KeysAgree(state') /\ Settled(state')
                 /\ \/ state'.report = NoReport
                    \/ state'.report = ReportOf(state'.findings, state'.usage)
    BY <1>1, <1>2 DEF Clean
  <1>6. CASE IntakePasses
    <2>1. /\ SameData /\ SameRest /\ state'.stage = "intake_complete" /\ state.stage = "created"
      BY <1>6, AdvanceShape, AdvanceFacts
    <2>2. QED BY <2>1, <1>3 DEF SameData, SameRest, StageAgrees, KeysAgree, Settled, Early
  <1>7. CASE AssessRisk
    <2>1. /\ SameData /\ state'.report = state.report /\ state'.risk = config.tier
          /\ state'.stage = "risk_complete" /\ state.stage = "intake_complete"
      BY <1>7, AdvanceShape, AdvanceFacts
    <2>2. config.tier # NoRisk
      BY PipelineAssumption DEF Base
    <2>3. QED BY <2>1, <2>2, <1>3 DEF SameData, StageAgrees, KeysAgree, Settled, Early
  <1>8. CASE Retrieve
    <2>1. /\ SameRest /\ state'.findings = state.findings /\ state'.keys = state.keys
          /\ state'.stage = "retrieval_complete" /\ state.stage = "risk_complete"
          /\ \A c \in InScope : state'.retrieved[c] = RetrievedFor(c)
      BY <1>8, AdvanceShape, AdvanceFacts, ScopeInControls
    <2>2. \A c \in InScope : state'.retrieved[c] # NotRetrieved
      BY <2>1, RetrievedForType, ScopeInControls
    <2>3. \A c \in Controls : state'.findings[c] = NoFinding
      BY <2>1, <1>3 DEF StageAgrees, Early
    <2>4. QED BY <2>1, <2>2, <2>3, <1>3 DEF SameRest, StageAgrees, KeysAgree, Settled, Early
  <1>9. CASE AssessorEnds
    <2>1. /\ SameData /\ SameRest /\ state'.stage = "assessment_complete"
          /\ state.stage = "retrieval_complete" /\ pc = "assess"
      BY <1>9, AdvanceShape, AdvanceFacts DEF AssessorEnds
    <2>2. \A c \in Controls : state.findings[c] # NoFinding =>
            state.findings[c].critic_verdict = "not_reviewed"
      BY <2>1 DEF Clean
    <2>3. QED BY <2>1, <2>2, <1>3 DEF SameData, SameRest, StageAgrees, KeysAgree, Settled, Early
  <1>10. CASE CriticEnds
    <2>1. /\ SameData /\ SameRest /\ state'.stage = "critique_complete"
          /\ state.stage = "assessment_complete"
      BY <1>10, AdvanceShape, AdvanceFacts
    <2>2. QED BY <2>1, <1>3 DEF SameData, SameRest, StageAgrees, KeysAgree, Settled, Early
  <1>11. CASE Report
    <2>1. /\ SameData /\ state'.risk = state.risk /\ state'.stage = "complete"
          /\ state'.usage = state.usage /\ state'.report = ReportOf(state.findings, state.usage)
          /\ state.stage \in {"assessment_complete", "critique_complete"}
      BY <1>11, AdvanceShape, AdvanceFacts
    <2>2. QED BY <2>1, <1>3 DEF SameData, StageAgrees, KeysAgree, Settled, Early
  <1>12. QED BY <1>6, <1>7, <1>8, <1>9, <1>10, <1>11 DEF Advance

\* A turn of the assessor's loop.
LEMMA CleanTurn ==
  ASSUME Base, Control, Clean, NEW f \in Finding, NEW usage \in Usage, Turn(f, usage)
  PROVE  Clean'
  <1> DEFINE h == Head(todo)
  <1>1. /\ pc = "assess" /\ pc' = "assess" /\ disk' = disk /\ state.findings[h] = NoFinding
        /\ f.critic_verdict = "not_reviewed" /\ f # NoFinding
        /\ state.stage = "retrieval_complete"
    BY Sentinels DEF Turn, Control
  <1>2. /\ h \in Controls /\ state'.stage = state.stage /\ state'.risk = state.risk
        /\ state'.retrieved = state.retrieved /\ state'.report = state.report
        /\ state'.findings = [state.findings EXCEPT ![h] = f]
        /\ state'.keys = Append(state.keys, h)
    BY TurnShape
  <1>3. state.findings \in [Controls -> Finding \union {NoFinding}] /\ state.keys \in Seq(Controls)
    BY DEF Base, RunStates
  <1> HIDE DEF h
  <1>4. \A c \in Controls : state'.findings[c] = IF c = h THEN f ELSE state.findings[c]
    BY <1>2, <1>3
  <1>5. StageAgrees(state')
    BY <1>1, <1>2 DEF Clean, StageAgrees, Early
  <1>6. KeysAgree(state')
    <2>1. /\ Len(state'.keys) = Len(state.keys) + 1 /\ Len(state.keys) \in Nat
          /\ \A i \in 1..Len(state.keys) : state'.keys[i] = state.keys[i]
          /\ state'.keys[Len(state.keys) + 1] = h
      BY <1>2, <1>3, AppendProperties, LenProperties
    <2>2. \A i \in 1..Len(state.keys) : state.keys[i] \in Controls /\ state.keys[i] # h
      BY <1>1, <1>3, ElementOfSeq DEF Clean, KeysAgree
    <2>3. \A i \in 1..Len(state'.keys) : state'.findings[state'.keys[i]] # NoFinding
      BY <1>1, <1>2, <1>4, <2>1, <2>2 DEF Clean, KeysAgree
    <2>4. \A i, j \in 1..Len(state'.keys) : state'.keys[i] = state'.keys[j] => i = j
      BY <2>1, <2>2 DEF Clean, KeysAgree
    <2>5. QED BY <2>3, <2>4 DEF KeysAgree
  <1>7. \A c \in Controls : state'.findings[c] # NoFinding =>
          state'.findings[c].critic_verdict = "not_reviewed"
    BY <1>1, <1>4 DEF Clean
  <1>8. state'.report = NoReport
    BY <1>1, <1>2 DEF Clean, StageAgrees
  <1>9. QED BY <1>1, <1>5, <1>6, <1>7, <1>8 DEF Clean, Saved

\* A turn of the critic's loop.
LEMMA CleanReview ==
  ASSUME Base, Control, Clean, NEW reply \in CriticReplies, CriticReviews(reply)
  PROVE  Clean'
  <1> DEFINE h == Head(todo)
             g == Reviewed(state.findings[h], reply)
  <1>1. pc = "review" /\ pc' = "review" /\ UNCHANGED disk /\ todo # << >> /\ todo' = Tail(todo)
        /\ state.stage = "assessment_complete"
    BY DEF CriticReviews, Control
  <1>2. /\ Len(todo) \in Nat \ {0} /\ h = todo[1] /\ Len(Tail(todo)) = Len(todo) - 1
        /\ \A i \in 1..Len(Tail(todo)) : Tail(todo)[i] = todo[i + 1]
        /\ \A i \in 1..Len(todo) : todo[i] \in Controls
    <2>1. todo \in Seq(Controls)
      BY DEF Base
    <2>2. Len(todo) \in Nat \ {0} /\ \A i \in 1..Len(todo) : todo[i] \in Controls
      BY <1>1, <2>1, EmptySeq, ElementOfSeq
    <2>3. QED BY <1>1, <2>1, <2>2, HeadTailProperties
  <1>3. state.findings[h] # NoFinding
    BY <1>1, <1>2 DEF Clean
  <1>4. /\ h \in Controls /\ g \in Finding
        /\ state'.stage = state.stage /\ state'.risk = state.risk
        /\ state'.retrieved = state.retrieved /\ state'.report = state.report
        /\ state'.keys = state.keys /\ state'.findings = [state.findings EXCEPT ![h] = g]
    BY <1>3, ReviewShape
  <1>5. state.findings \in [Controls -> Finding \union {NoFinding}] /\ state.keys \in Seq(Controls)
    BY DEF Base, RunStates
  <1>6. g # NoFinding
    BY <1>4, Sentinels
  <1> HIDE DEF h, g
  <1>7. \A c \in Controls : state'.findings[c] = IF c = h THEN g ELSE state.findings[c]
    BY <1>4, <1>5
  <1>8. StageAgrees(state')
    BY <1>1, <1>4 DEF Clean, StageAgrees, Early
  <1>9. KeysAgree(state')
    <2>1. \A i \in 1..Len(state.keys) : state.keys[i] \in Controls
      BY <1>5, ElementOfSeq
    <2>2. QED BY <1>4, <1>6, <1>7, <2>1 DEF Clean, KeysAgree
  <1>10. \A i, j \in 1..Len(todo) : todo[i] = todo[j] => i = j
    BY <1>1 DEF Clean
  <1>11. \A i \in 1..Len(todo') :
           /\ todo'[i] = todo[i + 1] /\ i + 1 \in 1..Len(todo) /\ todo[i + 1] # h
    BY <1>1, <1>2, <1>10
  <1>12. \A i \in 1..Len(todo') :
           state'.findings[todo'[i]] # NoFinding /\
           state'.findings[todo'[i]].critic_verdict = "not_reviewed"
    BY <1>1, <1>2, <1>7, <1>11 DEF Clean
  <1>13. \A i, j \in 1..Len(todo') : todo'[i] = todo'[j] => i = j
    <2>1. Len(todo') \in Nat
      BY <1>1, <1>2
    <2>2. QED BY <1>10, <1>11, <2>1
  <1>14. state'.report = NoReport
    BY <1>1, <1>4 DEF Clean, StageAgrees
  <1>15. QED BY <1>1, <1>8, <1>9, <1>12, <1>13, <1>14 DEF Clean, Saved

\* The steps that only move the process.
LEMMA CleanMove ==
  ASSUME Base, Control, Files, Clean, Move
  PROVE  Clean'
  <1>1. CASE Start
    <2>1. /\ pc' = "node" /\ UNCHANGED disk /\ disk # TornFile
          /\ state' = IF disk = NoFile THEN NewRunState ELSE disk
      BY <1>1 DEF Start
    <2>2. StageAgrees(state') /\ KeysAgree(state') /\ Settled(state') /\ state'.report = NoReport
      <3>1. CASE disk = NoFile
        <4>1. state' = NewRunState
          BY <2>1, <3>1
        <4>2. QED BY <4>1, NewClean
      <3>2. CASE disk # NoFile
        <4>1. state' = disk /\ disk \in RunStates({NoReport}) /\ Saved
          BY <2>1, <3>2 DEF Base, Saved
        <4>2. StageAgrees(disk) /\ KeysAgree(disk) /\ Settled(disk) /\ disk.report = NoReport
          BY <4>1 DEF Clean, RunStates
        <4>3. QED BY <4>1, <4>2
      <3>3. QED BY <3>1, <3>2
    <2>3. QED BY <2>1, <2>2 DEF Clean, Saved
  <1>2. CASE SkipNode \/ IntakeBlocks \/ (Retry /\ pc = "assess") \/ AssessorSkips
             \/ AssessorBreaks \/ CriticOff \/ Finish
    <2>1. /\ UNCHANGED <<state, disk>>
          /\ pc' \in {"assess", "review"} => pc' = pc
          /\ pc' \notin {"assess", "review"} => pc \notin {"assess", "review"}
          /\ pc' # "review"
      BY <1>2 DEF SkipNode, IntakeBlocks, AssessorSkips, AssessorBreaks, CriticOff, Finish, AtNode,
                  Retry
    <2>2. QED BY <2>1 DEF Clean, Saved
  <1>3. CASE AssessorStart
    <2>1. /\ UNCHANGED <<state, disk>> /\ pc' = "assess" /\ pc = "node"
          /\ state.stage = "retrieval_complete"
      BY <1>3, AtNodeFacts DEF AssessorStart, AtNode
    <2>2. \A c \in Controls : state.findings[c] = NoFinding
      BY <2>1 DEF Clean, Settled
    <2>3. QED BY <2>1, <2>2 DEF Clean, Saved
  <1>4. CASE CriticStart
    <2>1. /\ UNCHANGED <<state, disk>> /\ pc' = "review" /\ pc = "node" /\ todo' = state.keys
          /\ state.stage = "assessment_complete"
      BY <1>4, AtNodeFacts DEF CriticStart, AtNode
    <2>2. state.keys \in Seq(Controls)
      BY DEF Base, RunStates
    <2>3. \A i \in 1..Len(state.keys) : state.keys[i] \in Controls
      BY <2>2, ElementOfSeq
    <2>4. \A i \in 1..Len(state.keys) :
            /\ state.findings[state.keys[i]] # NoFinding
            /\ state.findings[state.keys[i]].critic_verdict = "not_reviewed"
      BY <2>1, <2>3 DEF Clean, Settled, KeysAgree
    <2>5. \A i, j \in 1..Len(state.keys) : state.keys[i] = state.keys[j] => i = j
      BY DEF Clean, KeysAgree
    <2>6. QED BY <2>1, <2>4, <2>5 DEF Clean, Saved
  <1>5. CASE CriticSkips \/ CriticGivesUp
    <2>1. pc = "review" /\ todo # << >> /\ todo' = Tail(todo) /\ UNCHANGED <<state, disk, pc>>
      BY <1>5 DEF CriticSkips, CriticGivesUp
    <2>2. todo \in Seq(Controls)
      BY DEF Base
    <2>3. Len(todo) \in Nat \ {0}
      BY <2>1, <2>2, EmptySeq
    <2>4. /\ Len(todo') = Len(todo) - 1
          /\ \A i \in 1..Len(todo') : todo'[i] = todo[i + 1] /\ i + 1 \in 1..Len(todo)
      BY <2>1, <2>2, <2>3, HeadTailProperties
    <2>5. /\ \A i \in 1..Len(todo) : state.findings[todo[i]] # NoFinding /\
                                     state.findings[todo[i]].critic_verdict = "not_reviewed"
          /\ \A i, j \in 1..Len(todo) : todo[i] = todo[j] => i = j
      BY <2>1 DEF Clean
    <2>6. /\ \A i \in 1..Len(todo') : state.findings[todo'[i]] # NoFinding /\
                                      state.findings[todo'[i]].critic_verdict = "not_reviewed"
          /\ \A i, j \in 1..Len(todo') : todo'[i] = todo'[j] => i = j
      <3>1. Len(todo') \in Nat
        BY <2>3, <2>4
      <3>2. \A i, j \in 1..Len(todo') : todo'[i] = todo'[j] => i + 1 = j + 1
        BY <2>4, <2>5
      <3>3. QED BY <2>4, <2>5, <3>1, <3>2
    <2>7. QED BY <2>1, <2>6 DEF Clean, Saved
  <1>6. CASE Truncate
    BY <1>6 DEF Truncate, Clean, Saved
  <1>7. CASE Write
    <2>1. /\ UNCHANGED state /\ pc' = "node" /\ disk' = to_dict(state)
          /\ StageAgrees(state) /\ KeysAgree(state) /\ Settled(state)
      BY <1>7 DEF Write, Clean
    <2>2. StageAgrees(disk') /\ KeysAgree(disk') /\ Settled(disk')
      BY <2>1, ToDictClean DEF Base
    <2>3. QED BY <2>1, <2>2 DEF Clean, Saved
  <1>8. CASE Crash
    <2>1. UNCHANGED disk /\ pc' = "down" /\ state' = NewRunState
      BY <1>8 DEF Crash
    <2>2. StageAgrees(state') /\ KeysAgree(state') /\ Settled(state') /\ state'.report = NoReport
      BY <2>1, NewClean
    <2>3. QED BY <2>1, <2>2 DEF Clean, Saved
  <1>9. CASE Retry /\ pc = "review"
    <2>1. UNCHANGED <<state, disk, pc, todo>>
      BY <1>9 DEF Retry
    <2>2. QED BY <2>1 DEF Clean, Saved
  <1>10. QED BY <1>1, <1>2, <1>3, <1>4, <1>5, <1>6, <1>7, <1>8, <1>9 DEF Move, Retry

\* Every step keeps the data what the stage says.
LEMMA CleanStep ==
  ASSUME Base, Control, Files, Clean, [Next]_vars
  PROVE  Clean'
  <1>1. CASE UNCHANGED vars
    BY <1>1 DEF vars, Clean, Saved
  <1>2. CASE (\E reply \in Replies : AssessorFinds(reply)) \/ AssessorGivesUp
    BY <1>2, AssessorTurn, CleanTurn
  <1>3. QED BY <1>1, <1>2, CleanMove, CleanAdvance, CleanReview, FourKinds

-----------------------------------------------------------------------------
(***************************************************************************)
(* What the ledger has.                                                    *)
(***************************************************************************)

\* The ledger only grows.
LEMMA LedgerGrows ==
  ASSUME Base, [Next]_vars
  PROVE  /\ ledger.noted \subseteq ledger'.noted
         /\ \A c \in Controls : ledger.assessed[c] \in Nat /\ ledger'.assessed[c] \in Nat
                                /\ ledger'.assessed[c] >= ledger.assessed[c]
  <1> DEFINE Grown == /\ ledger.noted \subseteq ledger'.noted
                      /\ \A c \in Controls : ledger'.assessed[c] \in Nat
                                             /\ ledger'.assessed[c] >= ledger.assessed[c]
  <1>1. \A c \in Controls : ledger.assessed[c] \in Nat
    BY DEF Base
  <1>2. CASE ledger' = ledger
    BY <1>1, <1>2
  <1>3. ASSUME NEW event, Note(event) PROVE Grown
    <2>1. ledger' = [ledger EXCEPT !.noted = @ \union {event}]
      BY <1>3 DEF Note
    <2>2. ledger'.noted = ledger.noted \union {event} /\ ledger'.assessed = ledger.assessed
      BY <2>1 DEF Base
    <2>3. QED BY <1>1, <2>2
  <1>4. ASSUME (\E reply \in Replies : AssessorFinds(reply)) \/ AssessorGivesUp PROVE Grown
    <2>1. PICK f \in Finding, usage \in Usage : Turn(f, usage)
      BY <1>4, AssessorTurn
    <2>2. /\ ledger'.noted = ledger.noted /\ Head(todo) \in Controls
          /\ ledger'.assessed = [ledger.assessed EXCEPT ![Head(todo)] = @ + 1]
      BY <2>1, TurnShape
    <2>3. ledger.assessed \in [Controls -> Nat]
      BY DEF Base
    <2>4. \A c \in Controls : ledger'.assessed[c] =
            IF c = Head(todo) THEN ledger.assessed[c] + 1 ELSE ledger.assessed[c]
      BY <2>2, <2>3
    <2>5. QED BY <1>1, <2>2, <2>4
  <1>5. ledger' = ledger \/ (\E event : Note(event))
        \/ (\E reply \in Replies : AssessorFinds(reply)) \/ AssessorGivesUp
    <2>1. CASE UNCHANGED vars
      BY <2>1 DEF vars
    <2>2. CASE Move
      BY <2>2 DEF Move, Start, SkipNode, IntakeBlocks, Retry, AssessorStart, AssessorSkips,
         AssessorBreaks, CriticOff, CriticStart, CriticSkips, CriticGivesUp, Truncate, Write,
         Finish, Crash
    <2>3. CASE Advance
      BY <2>3 DEF Advance, IntakePasses, AssessRisk, Retrieve, AssessorEnds, CriticEnds, Report
    <2>4. CASE \E reply \in CriticReplies : CriticReviews(reply)
      BY <2>4 DEF CriticReviews
    <2>5. QED BY <2>1, <2>2, <2>3, <2>4, FourKinds
  <1>6. CASE \E event : Note(event)
    BY <1>1, <1>3, <1>6
  <1>7. QED BY <1>1, <1>2, <1>4, <1>5, <1>6

\* What the ledger had to say of a state it still says after a step.
LEMMA StillTold ==
  ASSUME Base, [Next]_vars, NEW s, Recorded(s), Partly(s)
  PROVE  /\ \A c \in Controls : s.findings[c] # NoFinding => ledger'.assessed[c] >= 1
         /\ s.stage \in {"assessment_complete", "critique_complete", "complete"}
              /\ (\E c \in InScope : s.findings[c] = NoFinding)
            => "budget_exceeded" \in ledger'.noted
  BY LedgerGrows DEF Recorded, Partly

\* A new run has nothing to tell.
LEMMA NewTold ==
  ASSUME state' = NewRunState
  PROVE  Recorded(state)' /\ Partly(state)' /\ state'.stage # "complete"
  <1>1. /\ \A c \in Controls : NewRunState.findings[c] = NoFinding
        /\ NewRunState.stage = "created"
    BY DEF NewRunState
  <1>2. QED BY <1>1 DEF Recorded, Partly

\* The same for a file that did not change.
LEMMA DiskTold ==
  ASSUME Base, [Next]_vars, Told, UNCHANGED disk
  PROVE  /\ Saved' => Recorded(disk)' /\ Partly(disk)'
         /\ Saved' => (disk'.stage = "complete" => "report_generated" \in ledger'.noted)
  <1>1. CASE Saved
    <2>1. Recorded(disk) /\ Partly(disk)
      BY <1>1 DEF Told
    <2>2. /\ \A c \in Controls : disk.findings[c] # NoFinding => ledger'.assessed[c] >= 1
          /\ disk.stage \in {"assessment_complete", "critique_complete", "complete"}
              /\ (\E c \in InScope : disk.findings[c] = NoFinding)
             => "budget_exceeded" \in ledger'.noted
      BY <2>1, StillTold
    <2>3. disk.stage = "complete" => "report_generated" \in ledger'.noted
      BY <1>1, LedgerGrows DEF Told
    <2>4. QED BY <2>2, <2>3 DEF Recorded, Partly
  <1>2. CASE ~Saved
    BY <1>2 DEF Saved
  <1>3. QED BY <1>1, <1>2

\* The same for a state that did not change.
LEMMA StateTold ==
  ASSUME Base, [Next]_vars, Told, UNCHANGED state
  PROVE  /\ Recorded(state)' /\ Partly(state)'
         /\ state'.stage = "complete" => "report_generated" \in ledger'.noted
  <1>1. Recorded(state) /\ Partly(state)
    BY DEF Told
  <1>2. /\ \A c \in Controls : state.findings[c] # NoFinding => ledger'.assessed[c] >= 1
        /\ state.stage \in {"assessment_complete", "critique_complete", "complete"}
            /\ (\E c \in InScope : state.findings[c] = NoFinding)
           => "budget_exceeded" \in ledger'.noted
    BY <1>1, StillTold
  <1>3. state.stage = "complete" => "report_generated" \in ledger'.noted
    BY LedgerGrows DEF Told
  <1>4. QED BY <1>2, <1>3 DEF Recorded, Partly

\* Every control in scope is found, still to come or accounted for.
LEMMA LoopMove ==
  ASSUME Base, Control, Told, [Next]_vars, Move, pc' = "assess"
  PROVE  \A c \in InScope :
           \/ state'.findings[c] # NoFinding
           \/ \E i \in 1..Len(todo') : todo'[i] = c
           \/ "budget_exceeded" \in ledger'.noted
  <1>1. CASE AssessorStart
    <2>1. todo' = Scope
      BY <1>1 DEF AssessorStart
    <2>2. QED BY <2>1 DEF InScope
  <1>2. CASE AssessorSkips
    <2>1. /\ pc = "assess" /\ todo # << >> /\ UNCHANGED state /\ todo' = Tail(todo)
          /\ state.findings[Head(todo)] # NoFinding /\ UNCHANGED ledger
      BY <1>2 DEF AssessorSkips
    <2>2. todo \in Seq(Controls) /\ Len(todo) \in Nat \ {0} /\ Head(todo) = todo[1]
      BY <2>1, EmptySeq DEF Base
    <2>3. /\ Len(todo') = Len(todo) - 1
          /\ \A i \in 1..Len(todo') : todo'[i] = todo[i + 1]
      BY <2>1, <2>2, HeadTailProperties
    <2>4. ASSUME NEW c \in InScope, NEW i \in 1..Len(todo), todo[i] = c
          PROVE  state.findings[c] # NoFinding \/ \E j \in 1..Len(todo') : todo'[j] = c
      <3>1. CASE i = 1
        BY <2>1, <2>2, <2>4, <3>1
      <3>2. CASE i # 1
        <4>1. i - 1 \in 1..Len(todo') /\ todo'[i - 1] = todo[(i - 1) + 1] /\ (i - 1) + 1 = i
          BY <2>2, <2>3, <3>2
        <4>2. QED BY <2>4, <4>1
      <3>3. QED BY <3>1, <3>2
    <2>5. QED BY <2>1, <2>4 DEF Told
  <1>3. CASE AssessorBreaks
    <2>1. ledger' = [ledger EXCEPT !.noted = @ \union {"budget_exceeded"}]
      BY <1>3 DEF AssessorBreaks, Note
    <2>2. "budget_exceeded" \in ledger'.noted
      BY <2>1 DEF Base
    <2>3. QED BY <2>2
  <1>4. CASE Retry
    <2>1. UNCHANGED <<state, todo, pc, ledger>>
      BY <1>4 DEF Retry
    <2>2. QED BY <2>1 DEF Told
  <1>5. CASE ~(AssessorStart \/ AssessorSkips \/ AssessorBreaks \/ Retry)
    BY <1>5 DEF Move, Start, SkipNode, IntakeBlocks, CriticOff, CriticStart, CriticSkips,
                CriticGivesUp, Truncate, Write, Finish, Crash, AtNode
  <1>6. QED BY <1>1, <1>2, <1>3, <1>4, <1>5

\* The steps that only move the process.
LEMMA ToldMove ==
  ASSUME Base, Control, Files, Told, [Next]_vars, Move
  PROVE  Told'
  <1>1. /\ Recorded(state)' /\ Partly(state)'
        /\ state'.stage = "complete" => "report_generated" \in ledger'.noted
    <2>1. CASE Start
      <3>1. UNCHANGED disk /\ disk # TornFile
            /\ state' = IF disk = NoFile THEN NewRunState ELSE disk
        BY <2>1 DEF Start
      <3>2. CASE disk = NoFile
        <4>1. state' = NewRunState
          BY <3>1, <3>2
        <4>2. QED BY <4>1, NewTold
      <3>3. CASE disk # NoFile
        <4>1. Saved' /\ state' = disk'
          BY <3>1, <3>3 DEF Saved
        <4>2. /\ Recorded(disk)' /\ Partly(disk)'
              /\ disk'.stage = "complete" => "report_generated" \in ledger'.noted
          BY <3>1, <4>1, DiskTold
        <4>3. QED BY <4>1, <4>2 DEF Recorded, Partly
      <3>4. QED BY <3>2, <3>3
    <2>2. CASE Crash
      <3>1. state' = NewRunState
        BY <2>2 DEF Crash
      <3>2. QED BY <3>1, NewTold
    <2>3. CASE ~Start /\ ~Crash
      <3>1. UNCHANGED state
        BY <2>3 DEF Move, SkipNode, IntakeBlocks, Retry, AssessorStart, AssessorSkips,
           AssessorBreaks, CriticOff, CriticStart, CriticSkips, CriticGivesUp, Truncate, Write,
           Finish
      <3>2. QED BY <3>1, StateTold
    <2>4. QED BY <2>1, <2>2, <2>3
  <1>2. /\ Saved' => Recorded(disk)' /\ Partly(disk)'
        /\ Saved' => (disk'.stage = "complete" => "report_generated" \in ledger'.noted)
    <2>1. CASE Truncate
      BY <2>1 DEF Truncate, Saved
    <2>2. CASE Write
      <3>1. UNCHANGED state /\ disk' = to_dict(state)
        BY <2>2 DEF Write
      <3>2. disk'.stage = state'.stage /\ disk'.findings = state'.findings
        BY <3>1, ToDictFacts DEF Base
      <3>3. QED BY <1>1, <3>2 DEF Recorded, Partly
    <2>3. CASE ~Truncate /\ ~Write
      <3>1. UNCHANGED disk
        BY <2>3 DEF Move, Start, SkipNode, IntakeBlocks, Retry, AssessorStart, AssessorSkips,
           AssessorBreaks, CriticOff, CriticStart, CriticSkips, CriticGivesUp, Finish, Crash
      <3>2. QED BY <3>1, DiskTold
    <2>4. QED BY <2>1, <2>2, <2>3
  <1>3. QED BY <1>1, <1>2, LoopMove DEF Told

\* A step that moves the stage.
LEMMA ToldAdvance ==
  ASSUME Base, Control, Files, Clean, Told, [Next]_vars, Advance
  PROVE  Told'
  <1>1. UNCHANGED disk /\ pc' = "save" /\ state'.findings = state.findings
    BY AdvanceShape DEF Advance, SameData
  <1>2. Recorded(state)'
    <2>1. Recorded(state) BY DEF Told
    <2>2. QED BY <1>1, <2>1, LedgerGrows DEF Recorded
  <1>3. Partly(state)'
    <2>1. CASE AssessorEnds
      <3>1. pc = "assess" /\ todo = << >>
        BY <2>1 DEF AssessorEnds
      <3>2. \A c \in InScope : state.findings[c] # NoFinding \/ "budget_exceeded" \in ledger.noted
        BY <3>1, EmptySeq DEF Told
      <3>3. QED BY <1>1, <3>2, LedgerGrows DEF Partly
    <2>2. CASE CriticEnds \/ Report
      <3>1. state.stage \in {"assessment_complete", "critique_complete", "complete"}
        BY <2>2, AdvanceFacts
      <3>2. Partly(state) BY DEF Told
      <3>3. QED BY <1>1, <3>1, <3>2, LedgerGrows DEF Partly
    <2>3. CASE IntakePasses \/ AssessRisk \/ Retrieve
      BY <2>3, AdvanceShape DEF Partly
    <2>4. QED BY <2>1, <2>2, <2>3 DEF Advance
  <1>4. state'.stage = "complete" => "report_generated" \in ledger'.noted
    <2>1. CASE Report
      <3>1. ledger' = [ledger EXCEPT !.noted = @ \union {"report_generated"}]
        BY <2>1 DEF Report, Note
      <3>2. QED BY <3>1 DEF Base
    <2>2. CASE ~Report
      BY <2>2, AdvanceShape DEF Advance
    <2>3. QED BY <2>1, <2>2
  <1>5. QED BY <1>1, <1>2, <1>3, <1>4, DiskTold DEF Told

\* A turn of the assessor's loop.
LEMMA ToldTurn ==
  ASSUME Base, Control, Told, [Next]_vars, NEW f \in Finding, NEW usage \in Usage, Turn(f, usage)
  PROVE  Told'
  <1> DEFINE h == Head(todo)
  <1>1. /\ pc = "assess" /\ pc' = "assess" /\ UNCHANGED disk /\ f # NoFinding /\ todo # << >>
        /\ state.stage = "retrieval_complete"
    BY Sentinels DEF Turn, Control
  <1>2. /\ h \in Controls /\ state'.stage = state.stage
        /\ state'.findings = [state.findings EXCEPT ![h] = f]
        /\ ledger'.noted = ledger.noted
        /\ ledger'.assessed = [ledger.assessed EXCEPT ![h] = @ + 1]
        /\ todo' = Tail(todo)
    BY TurnShape
  <1>3. /\ todo \in Seq(Controls) /\ Len(todo) \in Nat \ {0} /\ h = todo[1]
    BY <1>1, EmptySeq DEF Base
  <1>4. /\ Len(todo') = Len(todo) - 1
        /\ \A i \in 1..Len(todo') : todo'[i] = todo[i + 1]
    BY <1>1, <1>2, <1>3, HeadTailProperties
  <1> HIDE DEF h
  <1>5. \A c \in Controls : state'.findings[c] = IF c = h THEN f ELSE state.findings[c]
    BY <1>2 DEF Base, RunStates
  <1>6. \A c \in Controls : /\ ledger.assessed[c] \in Nat
                            /\ ledger'.assessed[c] = IF c = h THEN ledger.assessed[c] + 1
                                                     ELSE ledger.assessed[c]
    BY <1>2 DEF Base
  <1>7. Recorded(state)'
    <2>1. Recorded(state) BY DEF Told
    <2>2. QED BY <1>5, <1>6, <2>1 DEF Recorded
  <1>8. Partly(state)' /\ state'.stage # "complete"
    BY <1>1, <1>2 DEF Partly
  <1>9. ASSUME NEW c \in InScope
        PROVE  \/ state'.findings[c] # NoFinding
               \/ \E i \in 1..Len(todo') : todo'[i] = c
               \/ "budget_exceeded" \in ledger'.noted
    <2>1. c \in Controls
      BY ScopeInControls
    <2>2. \/ state.findings[c] # NoFinding
          \/ \E i \in 1..Len(todo) : todo[i] = c
          \/ "budget_exceeded" \in ledger.noted
      BY <1>1 DEF Told
    <2>3. ASSUME NEW i \in 1..Len(todo), todo[i] = c
          PROVE  c = h \/ \E j \in 1..Len(todo') : todo'[j] = c
      <3>1. CASE i = 1
        BY <1>3, <2>3, <3>1
      <3>2. CASE i # 1
        <4>1. i - 1 \in 1..Len(todo') /\ todo'[i - 1] = todo[(i - 1) + 1] /\ (i - 1) + 1 = i
          BY <1>3, <1>4, <3>2
        <4>2. QED BY <2>3, <4>1
      <3>3. QED BY <3>1, <3>2
    <2>4. QED BY <1>1, <1>2, <1>5, <2>1, <2>2, <2>3
  <1>10. QED BY <1>1, <1>7, <1>8, <1>9, DiskTold DEF Told

\* A turn of the critic's loop.
LEMMA ToldReview ==
  ASSUME Base, Control, Clean, Clean', Told, [Next]_vars,
         NEW reply \in CriticReplies, CriticReviews(reply)
  PROVE  Told'
  <1> DEFINE h == Head(todo)
             g == Reviewed(state.findings[h], reply)
  <1>1. pc = "review" /\ pc' = "review" /\ UNCHANGED <<disk, ledger>> /\ todo # << >>
        /\ state.stage = "assessment_complete"
    BY DEF CriticReviews, Control
  <1>2. Len(todo) \in Nat \ {0} /\ h = todo[1]
    BY <1>1, EmptySeq DEF Base
  <1>3. state.findings[h] # NoFinding
    BY <1>1, <1>2 DEF Clean
  <1>4. /\ h \in Controls /\ g \in Finding /\ state'.stage = state.stage
        /\ state'.findings = [state.findings EXCEPT ![h] = g]
    BY <1>3, ReviewShape
  <1>5. g # NoFinding
    BY <1>4, Sentinels
  <1> HIDE DEF h, g
  <1>6. \A c \in Controls : (state'.findings[c] = NoFinding) <=> (state.findings[c] = NoFinding)
    BY <1>3, <1>4, <1>5 DEF Base, RunStates
  <1>7. Recorded(state) /\ Partly(state)
    BY DEF Told
  <1>8. Recorded(state)'
    BY <1>1, <1>6, <1>7 DEF Recorded
  <1>9. Partly(state)' /\ state'.stage # "complete"
    BY <1>1, <1>4, <1>6, <1>7, ScopeInControls DEF Partly
  <1>10. QED BY <1>1, <1>8, <1>9, DiskTold DEF Told

\* Every step keeps the ledger's account complete.
LEMMA ToldStep ==
  ASSUME Base, Control, Files, Clean, Clean', Told, [Next]_vars
  PROVE  Told'
  <1>1. CASE UNCHANGED vars
    <2>1. UNCHANGED <<state, disk, ledger, pc, todo>>
      BY <1>1 DEF vars
    <2>2. QED BY <2>1 DEF Told, Saved, Recorded, Partly
  <1>2. CASE (\E reply \in Replies : AssessorFinds(reply)) \/ AssessorGivesUp
    BY <1>2, AssessorTurn, ToldTurn
  <1>3. QED BY <1>1, <1>2, ToldMove, ToldAdvance, ToldReview, FourKinds

-----------------------------------------------------------------------------
(***************************************************************************)
(* What the findings rest on.                                              *)
(***************************************************************************)

\* Groundedness looks at the findings and at what was retrieved.
LEMMA GroundedSame ==
  ASSUME NEW s, NEW t, Grounded(s), t.findings = s.findings, t.retrieved = s.retrieved
  PROVE  Grounded(t)
  BY DEF Grounded, RetrievedOf

\* A state without findings asserts nothing.
LEMMA GroundedEmpty ==
  ASSUME NEW s, \A c \in Controls : s.findings[c] = NoFinding
  PROVE  Grounded(s)
  BY DEF Grounded

\* Every step keeps every assertion grounded.
LEMMA GroundedStep ==
  ASSUME Base, Control, Files, Clean, AssertionsGrounded, [Next]_vars
  PROVE  AssertionsGrounded'
  <1> SUFFICES ASSUME \A s \in Settings : s.require_citations
               PROVE  Grounded(state') /\ (disk' \notin {NoFile, TornFile} => Grounded(disk'))
    BY DEF AssertionsGrounded, Grounded, RetrievedOf
  <1>1. Grounded(state) /\ (disk \notin {NoFile, TornFile} => Grounded(disk))
    BY DEF AssertionsGrounded
  <1>2. CASE UNCHANGED vars
    <2>1. state' = state /\ disk' = disk
      BY <1>2 DEF vars
    <2>2. QED BY <1>1, <2>1
  <1>3. CASE Move
    <2>1. Grounded(state')
      <3>1. CASE Start
        <4>1. state' = NewRunState \/ (state' = disk /\ disk \notin {NoFile, TornFile})
          BY <3>1 DEF Start
        <4>2. Grounded(NewRunState)
          BY GroundedEmpty DEF NewRunState
        <4>3. QED BY <1>1, <4>1, <4>2
      <3>2. CASE Crash
        <4>1. state' = NewRunState
          BY <3>2 DEF Crash
        <4>2. QED BY <4>1, GroundedEmpty DEF NewRunState
      <3>3. CASE ~Start /\ ~Crash
        <4>1. state' = state
          BY <1>3, <3>3 DEF Move, SkipNode, IntakeBlocks, Retry, AssessorStart, AssessorSkips,
             AssessorBreaks, CriticOff, CriticStart, CriticSkips, CriticGivesUp, Truncate,
             Write, Finish
        <4>2. QED BY <1>1, <4>1
      <3>4. QED BY <3>1, <3>2, <3>3
    <2>2. disk' \notin {NoFile, TornFile} => Grounded(disk')
      <3>1. CASE Write
        <4>1. disk' = to_dict(state)
          BY <3>1 DEF Write
        <4>2. disk'.findings = state.findings /\ disk'.retrieved = state.retrieved
          BY <4>1, ToDictFacts DEF Base
        <4>3. QED BY <1>1, <4>2, GroundedSame
      <3>2. CASE Truncate
        BY <3>2 DEF Truncate
      <3>3. CASE ~Write /\ ~Truncate
        <4>1. disk' = disk
          BY <1>3, <3>3 DEF Move, Start, SkipNode, IntakeBlocks, Retry, AssessorStart,
             AssessorSkips, AssessorBreaks, CriticOff, CriticStart, CriticSkips, CriticGivesUp,
             Finish, Crash
        <4>2. QED BY <1>1, <4>1
      <3>4. QED BY <3>1, <3>2, <3>3
    <2>3. QED BY <2>1, <2>2
  <1>4. CASE Advance
    <2>1. disk' = disk /\ state'.findings = state.findings
      BY <1>4, AdvanceShape DEF Advance, SameData
    <2>2. CASE Retrieve
      <3>1. state.stage = "risk_complete"
        BY <1>4, <2>2, AdvanceFacts
      <3>2. \A c \in Controls : state'.findings[c] = NoFinding
        BY <2>1, <3>1 DEF Clean, StageAgrees, Early
      <3>3. QED BY <1>1, <2>1, <3>2, GroundedEmpty
    <2>3. CASE ~Retrieve
      <3>1. state'.retrieved = state.retrieved
        BY <1>4, <2>3, AdvanceShape DEF Advance, SameData
      <3>2. Grounded(state')
        BY <1>1, <2>1, <3>1, GroundedSame
      <3>3. QED BY <1>1, <2>1, <3>2
    <2>4. QED BY <2>2, <2>3
  <1>5. CASE (\E reply \in Replies : AssessorFinds(reply)) \/ AssessorGivesUp
    <2>1. PICK f \in Finding, usage \in Usage : Turn(f, usage)
      BY <1>5, AssessorTurn
    <2> DEFINE h == Head(todo)
    <2>2. /\ disk' = disk
          /\ f.status \in Judged =>
               /\ \E cite \in f.citations : cite.source = "corpus"
               /\ \A cite \in f.citations : Retrievable(h, cite, RetrievedOf(state, h))
      BY <2>1 DEF Turn
    <2>3. /\ h \in Controls /\ state'.retrieved = state.retrieved
          /\ state'.findings = [state.findings EXCEPT ![h] = f]
      BY <2>1, TurnShape
    <2> HIDE DEF h
    <2>4. \A c \in Controls : state'.findings[c] = IF c = h THEN f ELSE state.findings[c]
      BY <2>3 DEF Base, RunStates
    <2>5. \A c : RetrievedOf(state', c) = RetrievedOf(state, c)
      BY <2>3 DEF RetrievedOf
    <2>6. Grounded(state')
      BY <1>1, <2>2, <2>3, <2>4, <2>5 DEF Grounded
    <2>7. QED BY <1>1, <2>2, <2>6
  <1>6. CASE \E reply \in CriticReplies : CriticReviews(reply)
    <2>1. PICK reply \in CriticReplies : CriticReviews(reply)
      BY <1>6
    <2> DEFINE h == Head(todo)
               g == Reviewed(state.findings[h], reply)
    <2>2. pc = "review" /\ disk' = disk /\ todo # << >>
      BY <2>1 DEF CriticReviews
    <2>3. Len(todo) \in Nat \ {0} /\ h = todo[1]
      BY <2>2, EmptySeq DEF Base
    <2>4. state.findings[h] # NoFinding
      BY <2>2, <2>3 DEF Clean
    <2>5. /\ h \in Controls /\ state.findings[h] \in Finding
          /\ state'.retrieved = state.retrieved
          /\ state'.findings = [state.findings EXCEPT ![h] = g]
      BY <2>1, <2>4, ReviewShape
    <2>6. g.citations = state.findings[h].citations
          /\ (g.status \in Judged => state.findings[h].status \in Judged)
      BY <2>5, ReviewedFacts
    <2> HIDE DEF h, g
    <2>7. \A c \in Controls : state'.findings[c] = IF c = h THEN g ELSE state.findings[c]
      <3>1. state.findings \in [Controls -> Finding \union {NoFinding}]
        BY DEF Base, RunStates
      <3>2. QED BY <2>5, <3>1
    <2>8. \A c : RetrievedOf(state', c) = RetrievedOf(state, c)
      BY <2>5 DEF RetrievedOf
    <2>9. ASSUME NEW c \in Controls, state'.findings[c] # NoFinding,
                 state'.findings[c].status \in Judged
          PROVE  /\ state.findings[c] # NoFinding /\ state.findings[c].status \in Judged
                 /\ state'.findings[c].citations = state.findings[c].citations
      BY <2>4, <2>6, <2>7, <2>9
    <2>10. Grounded(state')
      BY <1>1, <2>8, <2>9 DEF Grounded
    <2>11. QED BY <1>1, <2>2, <2>10
  <1>7. QED BY <1>2, <1>3, <1>4, <1>5, <1>6, FourKinds

-----------------------------------------------------------------------------
(***************************************************************************)
(* The budget.                                                             *)
(***************************************************************************)

\* One call more, within the budget, keeps the ceilings.
LEMMA SpendOne ==
  ASSUME Base, Thrift, Attempting, ctx.settings \in Settings,
         NEW price \in {CriticCost} \union {r.cost : r \in Replies},
         ctx'.settings = ctx.settings, ctx'.usage = Spent(price)
  PROVE  SpendBounded'
  <1>1. ~OverBudget
    <2>1. attempt > 0 => ~OverBudget
      BY DEF Thrift
    <2>2. QED BY <2>1 DEF Attempting
  <1>2. /\ ctx.usage.calls \in Nat /\ ctx.usage.cost \in Nat /\ price \in Nat
        /\ ctx.settings.max_llm_calls_per_run \in Nat
        /\ ctx.settings.max_cost_usd_per_run \in Nat
    BY PipelineAssumption DEF Base, Usage
  <1>3. /\ ctx.usage.calls < ctx.settings.max_llm_calls_per_run
        /\ ctx.usage.cost < ctx.settings.max_cost_usd_per_run
    BY <1>1, <1>2 DEF OverBudget
  <1>4. ctx'.usage.calls = ctx.usage.calls + 1 /\ ctx'.usage.cost = ctx.usage.cost + price
    BY DEF Spent
  <1>5. ctx'.usage.calls <= ctx'.settings.max_llm_calls_per_run
    BY <1>2, <1>3, <1>4
  <1>6. ctx'.usage.cost < ctx'.settings.max_cost_usd_per_run + price
    BY <1>2, <1>3, <1>4
  <1>7. QED BY <1>5, <1>6 DEF SpendBounded

\* Every step keeps the ceilings, and a retry is only ever under way within them.
LEMMA ThriftStep ==
  ASSUME Base, Control, Thrift, [Next]_vars
  PROVE  Thrift'
  <1>1. CASE UNCHANGED vars
    <2>1. UNCHANGED <<state, ctx, pc, todo, attempt>>
      BY <1>1 DEF vars
    <2>2. QED BY <2>1 DEF Thrift, SpendBounded, OverBudget
  <1>2. CASE Start \/ Crash
    <2>1. ctx'.usage = NoUsage
      BY <1>2 DEF Start, Crash, NoContext
    <2>2. ~(attempt' > 0)
      <3>1. CASE Start
        BY <3>1 DEF Start, Thrift
      <3>2. CASE Crash
        BY <3>2 DEF Crash
      <3>3. QED BY <1>2, <3>1, <3>2
    <2>3. QED BY <2>1, <2>2 DEF Thrift, SpendBounded
  <1>3. CASE Retry
    <2>1. /\ UNCHANGED <<state, ctx, pc, todo>> /\ pc \in {"assess", "review"} /\ todo # << >>
          /\ pc = "assess" => state.findings[Head(todo)] = NoFinding
          /\ pc = "review" => WorthReviewing(Head(todo), state.findings[Head(todo)])
          /\ Attempting
      BY <1>3 DEF Retry
    <2>2. ~OverBudget
      BY <2>1 DEF Attempting, Thrift
    <2>3. QED BY <2>1, <2>2 DEF Thrift, SpendBounded, OverBudget
  <1>4. CASE \E reply \in Replies : AssessorFinds(reply)
    <2>1. PICK reply \in Replies : AssessorFinds(reply)
      BY <1>4
    <2>2. /\ Attempting /\ pc = "assess" /\ attempt' = 0
          /\ ctx' = [ctx EXCEPT !.usage = Spent(reply.cost)]
      BY <2>1 DEF AssessorFinds, Find
    <2>3. ctx'.settings = ctx.settings /\ ctx'.usage = Spent(reply.cost)
          /\ ctx.settings \in Settings
      BY <2>2 DEF Base
    <2>4. SpendBounded'
      BY <2>2, <2>3, SpendOne
    <2>5. QED BY <2>2, <2>4 DEF Thrift
  <1>5. CASE \E reply \in CriticReplies : CriticReviews(reply)
    <2>1. PICK reply \in CriticReplies : CriticReviews(reply)
      BY <1>5
    <2>2. /\ Attempting /\ pc = "review" /\ attempt' = 0
          /\ ctx' = [ctx EXCEPT !.usage = Spent(CriticCost)]
      BY <2>1 DEF CriticReviews
    <2>3. ctx'.settings = ctx.settings /\ ctx'.usage = Spent(CriticCost)
          /\ ctx.settings \in Settings
      BY <2>2 DEF Base
    <2>4. SpendBounded'
      BY <2>2, <2>3, SpendOne
    <2>5. QED BY <2>2, <2>4 DEF Thrift
  <1>6. CASE AssessorGivesUp \/ CriticGivesUp
    <2>1. attempt' = 0 /\ ctx' = ctx
      BY <1>6 DEF AssessorGivesUp, CriticGivesUp, Find
    <2>2. QED BY <2>1 DEF Thrift, SpendBounded
  <1>7. CASE AssessorSkips \/ AssessorBreaks \/ CriticSkips
    <2>1. ~(attempt > 0) /\ UNCHANGED <<attempt, ctx>>
      BY <1>7 DEF AssessorSkips, AssessorBreaks, CriticSkips, Thrift
    <2>2. QED BY <2>1 DEF Thrift, SpendBounded
  <1>8. CASE AssessorEnds \/ CriticEnds
    <2>1. ~(attempt > 0) /\ UNCHANGED <<attempt, ctx>>
      BY <1>8 DEF AssessorEnds, CriticEnds, Thrift
    <2>2. QED BY <2>1 DEF Thrift, SpendBounded
  <1>9. CASE SkipNode \/ IntakeBlocks \/ AssessorStart \/ CriticOff \/ CriticStart \/ Truncate
             \/ Write \/ Finish \/ IntakePasses \/ AssessRisk \/ Retrieve \/ Report
    <2>1. pc \in {"node", "save", "cut"} /\ UNCHANGED <<attempt, ctx>>
      BY <1>9 DEF SkipNode, IntakeBlocks, AssessorStart, CriticOff, CriticStart, Truncate, Write,
         Finish, IntakePasses, AssessRisk, Retrieve, Report, AtNode
    <2>2. ~(attempt > 0)
      BY <2>1 DEF Thrift
    <2>3. QED BY <2>1, <2>2 DEF Thrift, SpendBounded
  <1>10. QED BY <1>1, <1>2, <1>3, <1>4, <1>5, <1>6, <1>7, <1>8, <1>9, FourKinds
             DEF Move, Advance

-----------------------------------------------------------------------------
(***************************************************************************)
(* The theorems.                                                           *)
(***************************************************************************)

\* A run begins within the invariant.
LEMMA InvInit == Init => Inv
  <1> SUFFICES ASSUME Init PROVE Inv
    OBVIOUS
  <1>1. /\ state = NewRunState /\ disk = NoFile /\ ctx = NoContext /\ pc = "down"
        /\ attempt = 0 /\ ledger = EmptyLedger /\ outcome = "none" /\ todo = << >>
        /\ node = 1 /\ processes = 0 /\ config \in Configs
    BY DEF Init
  <1>2. state.report = NoReport /\ \A c \in Controls : state.findings[c] = NoFinding
    BY <1>1, NewClean DEF NewRunState
  <1>3. Base
    <2>1. state \in RunStates({state.report})
      BY <1>1, <1>2, NewTypes
    <2>2. 0 \in 0..MaxProcesses /\ << >> \in Seq(Controls)
      BY PipelineAssumption
    <2>3. QED BY <1>1, <2>1, <2>2, NewTypes DEF Base
  <1>4. Control
    BY <1>1 DEF Control
  <1>5. Files
    BY <1>1, Sentinels DEF Files, Saved
  <1>6. Clean
    BY <1>1, NewClean DEF Clean, Saved
  <1>7. Told
    <2>1. state.stage = "created"
      BY <1>1 DEF NewRunState
    <2>2. QED BY <1>1, <1>2, <2>1 DEF Told, Recorded, Partly, Saved
  <1>8. AssertionsGrounded
    BY <1>1, <1>2, GroundedEmpty DEF AssertionsGrounded
  <1>9. Thrift
    BY <1>1 DEF Thrift, SpendBounded, NoContext
  <1>10. QED BY <1>3, <1>4, <1>5, <1>6, <1>7, <1>8, <1>9 DEF Inv

\* Every step stays within it.
LEMMA InvStep == Inv /\ [Next]_vars => Inv'
  <1> SUFFICES ASSUME Inv, [Next]_vars PROVE Inv'
    OBVIOUS
  <1>1. Base /\ Control /\ Files /\ Clean /\ Told /\ AssertionsGrounded /\ Thrift
    BY DEF Inv
  <1>2. Clean'
    BY <1>1, CleanStep
  <1>3. QED
    BY <1>1, <1>2, BaseStep, ControlStep, FilesStep, ToldStep, GroundedStep, ThriftStep DEF Inv

\* The inductive invariant holds of every run: what the stage, the checkpoint,
\* the ledger and the budget say agree wherever the process is or died
\* (graph/orchestrator.py, graph/state.py, agents/*.py).
THEOREM PipelineInvariant == Spec => []Inv
  BY InvInit, InvStep, PTL DEF Spec

\* The variables keep their types, and a report is always the report of the
\* findings in memory (ReporterAgent.run).
THEOREM PipelineTypeOK == Spec => []TypeOK
  <1>1. Inv => TypeOK
    BY DEF Inv, Base, Clean, TypeOK
  <1>2. QED BY <1>1, PipelineInvariant, PTL

\* At every node boundary the checkpoint has what memory has, and it is torn
\* only when a write was cut (RunState.checkpoint).
THEOREM CheckpointAlwaysCurrent == Spec => []CheckpointCurrent
  <1>1. Inv => CheckpointCurrent
    <2> SUFFICES ASSUME Inv PROVE CheckpointCurrent
      OBVIOUS
    <2>1. outcome = "returned" => pc = "down"
      BY DEF Inv, Base, Control
    <2>2. QED BY <2>1 DEF Inv, Files, CheckpointCurrent
  <1>2. QED BY <1>1, PipelineInvariant, PTL

\* The stage, in memory and in the file, tells which data is there, so that a
\* resumed run repeats no node and skips none it needs (Node.requires_stage).
THEOREM StageAlwaysTellsData == Spec => []StageTellsData
  <1>1. Inv => StageTellsData
    BY DEF Inv, Clean, Saved, Settled, StageTellsData
  <1>2. QED BY <1>1, PipelineInvariant, PTL

\* resume() raises for want of a report only on a run that was completed and
\* reported before (orchestrator.py's resume).
THEOREM RaisesOnlyWhenCompleted == Spec => []RaisesOnlyWhenComplete
  <1>1. Inv => RaisesOnlyWhenComplete
    <2> SUFFICES ASSUME Inv, outcome = "raised"
                 PROVE  disk.stage = "complete" /\ "report_generated" \in ledger.noted
      BY DEF RaisesOnlyWhenComplete
    <2>1. pc = "down"
      BY DEF Inv, Control
    <2>2. disk.stage = "complete" /\ Saved
      BY <2>1 DEF Inv, Files
    <2>3. QED BY <2>2 DEF Inv, Told
  <1>2. QED BY <1>1, PipelineInvariant, PTL

\* Where citations are required, no finding asserts a status without a citation
\* of the corpus or with one that was not retrieved (CitationGate.enforce).
THEOREM AssertionsAlwaysGrounded == Spec => []AssertionsGrounded
  <1>1. Inv => AssertionsGrounded
    BY DEF Inv
  <1>2. QED BY <1>1, PipelineInvariant, PTL

\* Every finding has its record in the ledger (AssessorAgent.run).
THEOREM FindingsAlwaysOnRecord == Spec => []FindingsOnRecord
  <1>1. Inv => FindingsOnRecord
    BY DEF Inv, Told, Saved, FindingsOnRecord
  <1>2. QED BY <1>1, PipelineInvariant, PTL

\* A run that leaves controls out has a budget_exceeded record
\* (AssessorAgent.run's break).
THEOREM PartialAlwaysOnRecord == Spec => []PartialOnRecord
  <1>1. Inv => PartialOnRecord
    BY DEF Inv, Told, Partly, PartialOnRecord
  <1>2. QED BY <1>1, PipelineInvariant, PTL

\* No process exceeds its ceiling of calls, and its ceiling of cost by less
\* than one call (ModelRouter._check_budget).
THEOREM SpendAlwaysBounded == Spec => []SpendBounded
  <1>1. Inv => SpendBounded
    BY DEF Inv, Thrift
  <1>2. QED BY <1>1, PipelineInvariant, PTL

\* A step of a running process leaves every finding it has, or reviews it once
\* and takes it one step down at most (CriticAgent.run).
LEMMA WeakensStep ==
  ASSUME Inv, [Next]_vars, ~UNCHANGED vars, Running, pc' # "down",
         NEW c \in Controls, state.findings[c] # NoFinding
  PROVE  Weakened(state.findings[c], state'.findings[c])
  <1>1. Base /\ Control /\ Clean /\ Next
    BY DEF Inv
  <1>2. CASE Move
    <2>1. ~Start /\ ~Crash
      BY DEF Start, Crash, Running
    <2>2. state' = state
      BY <1>2, <2>1 DEF Move, SkipNode, IntakeBlocks, Retry, AssessorStart, AssessorSkips,
         AssessorBreaks, CriticOff, CriticStart, CriticSkips, CriticGivesUp, Truncate, Write,
         Finish
    <2>3. QED BY <2>2 DEF Weakened
  <1>3. CASE Advance
    <2>1. state'.findings = state.findings
      BY <1>1, <1>3, AdvanceShape DEF Advance, SameData
    <2>2. QED BY <2>1 DEF Weakened
  <1>4. CASE (\E reply \in Replies : AssessorFinds(reply)) \/ AssessorGivesUp
    <2>1. PICK f \in Finding, usage \in Usage : Turn(f, usage)
      BY <1>1, <1>4, AssessorTurn
    <2> DEFINE h == Head(todo)
    <2>2. state.findings[h] = NoFinding
      BY <2>1 DEF Turn
    <2>3. state'.findings = [state.findings EXCEPT ![h] = f]
      BY <1>1, <2>1, TurnShape
    <2>4. c # h
      BY <2>2
    <2> HIDE DEF h
    <2>5. state.findings \in [Controls -> Finding \union {NoFinding}]
      BY <1>1 DEF Base, RunStates
    <2>6. state'.findings[c] = state.findings[c]
      BY <2>3, <2>4, <2>5
    <2>7. QED BY <2>6 DEF Weakened
  <1>5. CASE \E reply \in CriticReplies : CriticReviews(reply)
    <2>1. PICK reply \in CriticReplies : CriticReviews(reply)
      BY <1>5
    <2> DEFINE h == Head(todo)
               g == Reviewed(state.findings[h], reply)
    <2>2. pc = "review" /\ todo # << >>
      BY <2>1 DEF CriticReviews
    <2>3. Len(todo) \in Nat \ {0} /\ h = todo[1]
      BY <1>1, <2>2, EmptySeq DEF Base
    <2>4. state.findings[h] # NoFinding /\ state.findings[h].critic_verdict = "not_reviewed"
      BY <1>1, <2>2, <2>3 DEF Clean
    <2>5. /\ state.findings[h] \in Finding
          /\ state'.findings = [state.findings EXCEPT ![h] = g]
      BY <1>1, <2>1, <2>4, ReviewShape
    <2>6. Weakened(state.findings[h], g)
      BY <2>4, <2>5, ReviewedFacts
    <2> HIDE DEF h, g
    <2>7. state.findings \in [Controls -> Finding \union {NoFinding}]
      BY <1>1 DEF Base, RunStates
    <2>8. state'.findings[c] = IF c = h THEN g ELSE state.findings[c]
      BY <2>5, <2>7
    <2>9. CASE c = h
      BY <2>6, <2>8, <2>9
    <2>10. CASE c # h
      BY <2>8, <2>10 DEF Weakened
    <2>11. QED BY <2>9, <2>10
  <1>6. QED BY <1>1, <1>2, <1>3, <1>4, <1>5, FourKinds

\* The critic never upgrades, never reviews twice and no step loses a finding,
\* over every crash and resumption (critic.py:9-10).
THEOREM CriticNeverUpgrades == Spec => CriticOnlyWeakens
  <1> DEFINE A == Running /\ pc' # "down" =>
                    \A c \in Controls : state.findings[c] # NoFinding =>
                      Weakened(state.findings[c], state'.findings[c])
  <1>1. Inv /\ [Next]_vars => [A]_vars
    <2> SUFFICES ASSUME Inv, [Next]_vars, ~UNCHANGED vars PROVE A
      OBVIOUS
    <2>1. QED BY WeakensStep
  <1>2. Spec => [][A]_vars
    <2> HIDE DEF A
    <2>1. QED BY <1>1, PipelineInvariant, PTL DEF Spec
  <1>3. QED BY <1>2 DEF CriticOnlyWeakens

-----------------------------------------------------------------------------
(***************************************************************************)
(* The pipeline implements ResumableRun.                                   *)
(*                                                                         *)
(* The step that ends an agent's loop is the abstract node: it has to be   *)
(* right about everything the loop did since the file was written.  The    *)
(* invariant Loops says what a loop has done so far, against the file.     *)
(***************************************************************************)

-----------------------------------------------------------------------------
(***************************************************************************)
(* What the loops leave alone.                                             *)
(***************************************************************************)

\* The fields no loop writes are as they were kept.
Kept ==
  /\ Saved
  /\ disk.stage = state.stage /\ disk.risk = state.risk /\ disk.retrieved = state.retrieved

\* The assessor finds something for controls in scope only.
InAssessor ==
  /\ \A i \in 1..Len(todo) : todo[i] \in InScope
  /\ \A c \in Controls : state.findings[c] # NoFinding => c \in InScope

\* The critic adds no finding and has not touched what it has still to visit.
InCritic ==
  /\ disk.keys = state.keys
  /\ \A c \in Controls :
       IF disk.findings[c] = NoFinding THEN state.findings[c] = NoFinding
       ELSE Weakened(disk.findings[c], state.findings[c])
  /\ \A i \in 1..Len(todo) : state.findings[todo[i]] = disk.findings[todo[i]]

Loops ==
  /\ pc \in {"assess", "review"} => Kept
  /\ pc = "assess" => InAssessor
  /\ pc = "review" => InCritic

\* What is left of the controls to visit after the first of them.
LEMMA TodoFacts ==
  ASSUME Base, todo # << >>
  PROVE  /\ Len(todo) \in Nat \ {0} /\ Head(todo) = todo[1]
         /\ \A i \in 1..Len(Tail(todo)) : Tail(todo)[i] = todo[i + 1] /\ i + 1 \in 1..Len(todo)
         /\ \A i \in 1..Len(todo) : todo[i] \in Controls
  <1>1. todo \in Seq(Controls)
    BY DEF Base
  <1>2. Len(todo) \in Nat \ {0} /\ \A i \in 1..Len(todo) : todo[i] \in Controls
    BY <1>1, EmptySeq, ElementOfSeq
  <1>3. Len(Tail(todo)) = Len(todo) - 1 /\ \A i \in 1..Len(Tail(todo)) : Tail(todo)[i] = todo[i + 1]
    BY <1>1, HeadTailProperties
  <1>4. QED BY <1>2, <1>3

\* A loop begins with what is in the file.
LEMMA LoopBegins ==
  ASSUME Inv, AssessorStart \/ CriticStart
  PROVE  Loops' /\ disk = state
  <1>1. Base /\ Control /\ Files /\ Clean
    BY DEF Inv
  <1>2. /\ pc = "node" /\ UNCHANGED <<state, disk>>
        /\ state.stage \in {"retrieval_complete", "assessment_complete"}
    BY <1>1, AtNodeFacts DEF AssessorStart, CriticStart, AtNode
  <1>3. disk = to_dict(state) /\ state.report = NoReport
    BY <1>1, <1>2 DEF Files, Clean, StageAgrees
  <1>4. disk = state /\ Saved
    BY <1>1, <1>3, ToDictFacts DEF Base, Saved
  <1>5. Kept'
    BY <1>2, <1>4 DEF Kept, Saved
  <1>6. CASE AssessorStart
    <2>1. pc' = "assess" /\ todo' = Scope /\ state.stage = "retrieval_complete"
      BY <1>1, <1>6, AtNodeFacts DEF AssessorStart
    <2>2. \A c \in Controls : state.findings[c] = NoFinding
      BY <1>1, <1>2, <2>1 DEF Clean, Settled
    <2>3. InAssessor'
      BY <1>2, <2>1, <2>2 DEF InAssessor, InScope
    <2>4. QED BY <1>4, <1>5, <2>1, <2>3 DEF Loops
  <1>7. CASE CriticStart
    <2>1. pc' = "review"
      BY <1>7 DEF CriticStart
    <2>2. InCritic'
      BY <1>2, <1>4 DEF InCritic, Weakened
    <2>3. QED BY <1>4, <1>5, <2>1, <2>2 DEF Loops
  <1>8. QED BY <1>6, <1>7

\* The turns of a loop that change nothing but what is left to do.
Turns == Retry \/ AssessorSkips \/ AssessorBreaks \/ CriticSkips \/ CriticGivesUp

LEMMA LoopTurns ==
  ASSUME Inv, Loops, Turns
  PROVE  /\ Loops'
         /\ pc \in {"assess", "review"} /\ UNCHANGED <<pc, state, disk>>
  <1>1. /\ pc \in {"assess", "review"} /\ UNCHANGED <<pc, state, disk>> /\ todo # << >>
        /\ todo' \in {todo, Tail(todo), << >>}
    BY DEF Turns, Retry, AssessorSkips, AssessorBreaks, CriticSkips, CriticGivesUp
  <1>2. \A i \in 1..Len(todo') : \E j \in 1..Len(todo) : todo'[i] = todo[j]
    <2>1. CASE todo' = todo
      BY <2>1
    <2>2. CASE todo' = Tail(todo)
      BY <1>1, <2>2, TodoFacts DEF Inv
    <2>3. CASE todo' = << >>
      BY <2>3
    <2>4. QED BY <1>1, <2>1, <2>2, <2>3
  <1>3. Kept'
    BY <1>1 DEF Loops, Kept, Saved
  <1>4. pc = "assess" => InAssessor'
    BY <1>1, <1>2 DEF Loops, InAssessor
  <1>5. pc = "review" => InCritic'
    BY <1>1, <1>2 DEF Loops, InCritic
  <1>6. QED BY <1>1, <1>3, <1>4, <1>5 DEF Loops

\* A turn of the assessor's that ends in a finding.
LEMMA LoopFinds ==
  ASSUME Inv, Loops, (\E reply \in Replies : AssessorFinds(reply)) \/ AssessorGivesUp
  PROVE  Loops' /\ pc = "assess" /\ UNCHANGED <<pc, disk>> /\ ledger'.noted = ledger.noted
  <1>1. Base
    BY DEF Inv
  <1>2. PICK f \in Finding, usage \in Usage : Turn(f, usage)
    BY <1>1, AssessorTurn
  <1>3. pc = "assess" /\ todo # << >> /\ UNCHANGED <<pc, disk>>
    BY <1>2 DEF Turn
  <1> DEFINE h == Head(todo)
  <1>4. /\ h \in Controls /\ todo' = Tail(todo) /\ ledger'.noted = ledger.noted
        /\ state'.stage = state.stage /\ state'.risk = state.risk
        /\ state'.retrieved = state.retrieved
        /\ state'.findings = [state.findings EXCEPT ![h] = f]
    BY <1>1, <1>2, TurnShape
  <1>5. h \in InScope /\ \A i \in 1..Len(todo') : todo'[i] \in InScope
    BY <1>1, <1>3, <1>4, TodoFacts DEF Loops, InAssessor
  <1> HIDE DEF h
  <1>6. \A c \in Controls : state'.findings[c] = IF c = h THEN f ELSE state.findings[c]
    BY <1>1, <1>4 DEF Base, RunStates
  <1>7. InAssessor'
    BY <1>3, <1>5, <1>6 DEF Loops, InAssessor
  <1>8. Kept'
    BY <1>3, <1>4 DEF Loops, Kept, Saved
  <1>9. QED BY <1>3, <1>4, <1>7, <1>8 DEF Loops

\* A review.
LEMMA LoopReviews ==
  ASSUME Inv, Loops, NEW reply \in CriticReplies, CriticReviews(reply)
  PROVE  Loops' /\ pc = "review" /\ UNCHANGED <<pc, disk, ledger>>
  <1>1. Base /\ Clean
    BY DEF Inv
  <1>2. pc = "review" /\ todo # << >> /\ todo' = Tail(todo) /\ UNCHANGED <<pc, disk, ledger>>
    BY DEF CriticReviews
  <1> DEFINE h == Head(todo)
             g == Reviewed(state.findings[h], reply)
  <1>3. /\ Len(todo) \in Nat \ {0} /\ h = todo[1]
        /\ \A i \in 1..Len(Tail(todo)) : Tail(todo)[i] = todo[i + 1] /\ i + 1 \in 1..Len(todo)
        /\ \A i \in 1..Len(todo) : todo[i] \in Controls
    BY <1>1, <1>2, TodoFacts
  <1>4. 1 \in 1..Len(todo)
    BY <1>3
  <1>5. /\ state.findings[h] # NoFinding /\ state.findings[h].critic_verdict = "not_reviewed"
        /\ state.findings[h] = disk.findings[h]
    BY <1>1, <1>2, <1>3, <1>4 DEF Clean, Loops, InCritic
  <1>6. /\ h \in Controls /\ state.findings[h] \in Finding
        /\ state'.stage = state.stage /\ state'.risk = state.risk
        /\ state'.retrieved = state.retrieved /\ state'.keys = state.keys
        /\ state'.findings = [state.findings EXCEPT ![h] = g]
    BY <1>1, <1>5, ReviewShape
  <1>7. Weakened(disk.findings[h], g)
    BY <1>5, <1>6, ReviewedFacts
  <1> HIDE DEF h, g
  <1>8. \A c \in Controls : state'.findings[c] = IF c = h THEN g ELSE state.findings[c]
    BY <1>1, <1>6 DEF Base, RunStates
  <1>9. \A c \in Controls :
          IF disk'.findings[c] = NoFinding THEN state'.findings[c] = NoFinding
          ELSE Weakened(disk'.findings[c], state'.findings[c])
    <2> SUFFICES ASSUME NEW c \in Controls
                 PROVE  IF disk.findings[c] = NoFinding THEN state'.findings[c] = NoFinding
                        ELSE Weakened(disk.findings[c], state'.findings[c])
      BY <1>2
    <2>1. CASE c = h
      BY <1>5, <1>7, <1>8, <2>1
    <2>2. CASE c # h
      BY <1>2, <1>8, <2>2 DEF Loops, InCritic
    <2>3. QED BY <2>1, <2>2
  <1>10. \A i \in 1..Len(todo') : state'.findings[todo'[i]] = disk'.findings[todo'[i]]
    <2> SUFFICES ASSUME NEW i \in 1..Len(Tail(todo))
                 PROVE  state'.findings[todo[i + 1]] = disk.findings[todo[i + 1]]
      BY <1>2, <1>3
    <2>1. i + 1 \in 1..Len(todo) /\ i + 1 # 1
      BY <1>3
    <2>2. todo[i + 1] # h /\ todo[i + 1] \in Controls
      BY <1>1, <1>2, <1>3, <1>4, <2>1 DEF Clean
    <2>3. QED BY <1>2, <1>8, <2>1, <2>2 DEF Loops, InCritic
  <1>11. InCritic'
    BY <1>2, <1>6, <1>9, <1>10 DEF Loops, InCritic
  <1>12. Kept'
    BY <1>2, <1>6 DEF Loops, Kept, Saved
  <1>13. QED BY <1>2, <1>11, <1>12 DEF Loops

\* The steps that begin no loop and are no turn of one.
Outside ==
  \/ Start \/ SkipNode \/ IntakeBlocks \/ CriticOff \/ Truncate \/ Write \/ Finish \/ Crash

LEMMA FiveKinds ==
  ASSUME Next
  PROVE  \/ Outside \/ Advance \/ AssessorStart \/ CriticStart \/ Turns
         \/ (\E reply \in Replies : AssessorFinds(reply)) \/ AssessorGivesUp
         \/ \E reply \in CriticReplies : CriticReviews(reply)
  BY FourKinds DEF Move, Outside, Turns

\* Every step keeps a loop in agreement with the file.
LEMMA LoopsStep ==
  ASSUME Inv, Loops, [Next]_vars
  PROVE  Loops'
  <1>1. CASE UNCHANGED vars
    <2>1. UNCHANGED <<state, disk, pc, todo>>
      BY <1>1 DEF vars
    <2>2. QED BY <2>1 DEF Loops, Kept, Saved, InAssessor, InCritic
  <1>2. CASE Outside \/ Advance
    <2>1. pc' \notin {"assess", "review"}
      BY <1>2 DEF Outside, Start, SkipNode, IntakeBlocks, CriticOff, Truncate, Write, Finish, Crash,
         Advance, IntakePasses, AssessRisk, Retrieve, AssessorEnds, CriticEnds, Report
    <2>2. QED BY <2>1 DEF Loops
  <1>3. QED BY <1>1, <1>2, LoopBegins, LoopTurns, LoopFinds, LoopReviews, FiveKinds

\* Loops holds of every run.
LEMMA LoopsInvariant == Spec => []Loops
  <1>1. Init => Loops
    BY DEF Init, Loops
  <1>2. Inv /\ Loops /\ [Next]_vars => Loops'
    BY LoopsStep
  <1>3. QED BY <1>1, <1>2, PipelineInvariant, PTL DEF Spec

-----------------------------------------------------------------------------
(***************************************************************************)
(* What is found is in scope.                                              *)
(***************************************************************************)

OnlyScope(s) == \A c \in Controls : s.findings[c] # NoFinding => c \in InScope

\* Findings are made of the controls the assessor's loop visits, which are
\* those of the scope.
ScopeInv ==
  /\ OnlyScope(state)
  /\ Saved => OnlyScope(disk)
  /\ pc = "assess" => \A i \in 1..Len(todo) : todo[i] \in InScope

\* What the assessor has still to visit stays in scope.
LEMMA ScopeTodo ==
  ASSUME Base, ScopeInv, Next, pc' = "assess"
  PROVE  \A i \in 1..Len(todo') : todo'[i] \in InScope
  <1>1. CASE AssessorStart
    BY <1>1 DEF AssessorStart, InScope
  <1>2. CASE pc = "assess" /\ todo # << >> /\ todo' = Tail(todo)
    <2>1. \A i \in 1..Len(todo') : todo'[i] = todo[i + 1] /\ i + 1 \in 1..Len(todo)
      BY <1>2, TodoFacts
    <2>2. QED BY <1>2, <2>1 DEF ScopeInv
  <1>3. CASE pc = "assess" /\ (todo' = << >> \/ todo' = todo)
    BY <1>3 DEF ScopeInv
  <1>4. AssessorSkips \/ AssessorBreaks \/ AssessorGivesUp \/ (\E reply \in Replies : AssessorFinds(reply))
          => pc = "assess" /\ (todo' = << >> \/ (todo # << >> /\ todo' = Tail(todo)))
    BY DEF AssessorSkips, AssessorBreaks, AssessorGivesUp, AssessorFinds, Find
  <1>5. Retry => pc = "assess" /\ todo' = todo
    BY DEF Retry
  <1>6. ~Advance
    BY DEF Advance, IntakePasses, AssessRisk, Retrieve, AssessorEnds, CriticEnds, Report
  <1>7. \/ AssessorStart \/ AssessorSkips \/ AssessorBreaks \/ AssessorGivesUp \/ Retry
        \/ \E reply \in Replies : AssessorFinds(reply)
    BY <1>6, FourKinds DEF Move, Start, SkipNode, IntakeBlocks, CriticOff, CriticStart, CriticSkips,
         CriticGivesUp, CriticReviews, Truncate, Write, Finish, Crash, AtNode
  <1>8. QED BY <1>1, <1>2, <1>3, <1>4, <1>5, <1>7

\* A step adds no finding but the one the assessor makes.
LEMMA ScopeFindings ==
  ASSUME Base, Clean, ScopeInv, Next
  PROVE  OnlyScope(state)' /\ (Saved' => OnlyScope(disk)')
  <1>1. OnlyScope(NewRunState)
    BY DEF NewRunState, OnlyScope
  <1>2. CASE Move
    <2>1. CASE Start
      <3>1. state' = (IF disk = NoFile THEN NewRunState ELSE disk) /\ disk # TornFile /\ disk' = disk
        BY <2>1 DEF Start
      <3>2. QED BY <1>1, <3>1 DEF ScopeInv, OnlyScope, Saved
    <2>2. CASE Crash
      <3>1. state' = NewRunState /\ disk' = disk
        BY <2>2 DEF Crash
      <3>2. QED BY <1>1, <3>1 DEF ScopeInv, OnlyScope, Saved
    <2>3. CASE Truncate
      BY <2>3 DEF Truncate, ScopeInv, OnlyScope, Saved
    <2>4. CASE Write
      <3>1. UNCHANGED state /\ disk' = to_dict(state)
        BY <2>4 DEF Write
      <3>2. disk'.findings = state.findings
        BY <3>1, ToDictFacts DEF Base
      <3>3. QED BY <3>1, <3>2 DEF ScopeInv, OnlyScope
    <2>5. CASE ~Start /\ ~Crash /\ ~Truncate /\ ~Write
      <3>1. UNCHANGED <<state, disk>>
        BY <1>2, <2>5 DEF Move, SkipNode, IntakeBlocks, Retry, AssessorStart, AssessorSkips,
           AssessorBreaks, CriticOff, CriticStart, CriticSkips, CriticGivesUp, Finish
      <3>2. QED BY <3>1 DEF ScopeInv, OnlyScope, Saved
    <2>6. QED BY <2>1, <2>2, <2>3, <2>4, <2>5
  <1>3. CASE Advance
    <2>1. UNCHANGED disk /\ state'.findings = state.findings
      BY <1>3, AdvanceShape DEF Advance, SameData
    <2>2. QED BY <2>1 DEF ScopeInv, OnlyScope, Saved
  <1>4. CASE (\E reply \in Replies : AssessorFinds(reply)) \/ AssessorGivesUp
    <2>1. PICK f \in Finding, usage \in Usage : Turn(f, usage)
      BY <1>4, AssessorTurn
    <2>2. /\ state'.findings = [state.findings EXCEPT ![Head(todo)] = f]
          /\ pc = "assess" /\ todo # << >> /\ disk' = disk
      BY <2>1, TurnShape DEF Turn
    <2>3. Head(todo) \in InScope
      <3>1. Len(todo) \in Nat \ {0} /\ Head(todo) = todo[1]
        BY <2>2, TodoFacts
      <3>2. 1 \in 1..Len(todo)
        BY <3>1
      <3>3. QED BY <2>2, <3>1, <3>2 DEF ScopeInv
    <2>4. \A c \in Controls : c # Head(todo) => state'.findings[c] = state.findings[c]
      BY <2>2 DEF Base, RunStates
    <2>5. QED BY <2>2, <2>3, <2>4 DEF ScopeInv, OnlyScope, Saved
  <1>5. ASSUME NEW reply \in CriticReplies, CriticReviews(reply)
        PROVE  OnlyScope(state)' /\ (Saved' => OnlyScope(disk)')
    <2>1. pc = "review" /\ todo # << >> /\ disk' = disk
      BY <1>5 DEF CriticReviews
    <2>2. state.findings[Head(todo)] # NoFinding
      <3>1. Len(todo) \in Nat \ {0} /\ Head(todo) = todo[1]
        BY <2>1, TodoFacts
      <3>2. 1 \in 1..Len(todo)
        BY <3>1
      <3>3. QED BY <2>1, <3>1, <3>2 DEF Clean
    <2>3. state'.findings = [state.findings EXCEPT
              ![Head(todo)] = Reviewed(state.findings[Head(todo)], reply)]
      BY <1>5, <2>2, ReviewShape
    <2>4. \A c \in Controls : c # Head(todo) => state'.findings[c] = state.findings[c]
      BY <2>3 DEF Base, RunStates
    <2>5. QED BY <2>1, <2>2, <2>4 DEF ScopeInv, OnlyScope, Saved
  <1>6. QED BY <1>2, <1>3, <1>4, <1>5, FourKinds

\* Nothing is ever found, in memory or in the file, outside the scope.
LEMMA ScopeInvariant == Spec => []ScopeInv
  <1>1. Init => ScopeInv
    BY DEF Init, NewRunState, ScopeInv, OnlyScope, Saved
  <1>2. ASSUME Inv, ScopeInv, [Next]_vars PROVE ScopeInv'
    <2>1. CASE UNCHANGED vars
      <3>1. UNCHANGED <<state, disk, pc, todo>>
        BY <2>1 DEF vars
      <3>2. QED BY <1>2, <3>1 DEF ScopeInv, OnlyScope, Saved
    <2>2. CASE Next
      <3>1. Base /\ Clean /\ ScopeInv
        BY <1>2 DEF Inv
      <3>2. OnlyScope(state)' /\ (Saved' => OnlyScope(disk)')
        BY <2>2, <3>1, ScopeFindings
      <3>3. pc' = "assess" => \A i \in 1..Len(todo') : todo'[i] \in InScope
        BY <2>2, <3>1, ScopeTodo
      <3>4. QED BY <3>2, <3>3 DEF ScopeInv
    <2>3. QED BY <1>2, <2>1, <2>2
  <1>3. QED BY <1>1, <1>2, PipelineInvariant, PTL DEF Spec

-----------------------------------------------------------------------------
(***************************************************************************)
(* The steps of the pipeline are steps of the abstract run.                *)
(***************************************************************************)

\* A step that changes neither what is done nor what is kept.
LEMMA Stutters ==
  ASSUME Phase' = Phase, LastDone' = LastDone, disk' = disk,
         "budget_exceeded" \in ledger'.noted <=> "budget_exceeded" \in ledger.noted
  PROVE  UNCHANGED Resumable!vars
  BY DEF Resumable!vars

\* What a node that ends leaves: the run as memory has it, nothing kept yet.
LEMMA NodeEnds ==
  ASSUME Inv, Loops, Advance \/ CriticOff
  PROVE  /\ Phase = "ready" /\ Phase' = "done" /\ LastDone' = state'
         /\ disk' = disk /\ LastDone.stage = state.stage
         /\ LastDone.risk = state.risk /\ LastDone.retrieved = state.retrieved
         /\ LastDone.report = NoReport /\ state.report = NoReport
         /\ pc = "review" => LastDone.keys = state.keys
         /\ DOMAIN LastDone = {"stage", "risk", "retrieved", "findings", "keys", "usage", "report"}
         /\ DOMAIN state' = DOMAIN LastDone
  <1>1. Base /\ Control /\ Clean
    BY DEF Inv
  <1>2. /\ pc \in {"node", "assess", "review"} /\ pc' = "save" /\ disk' = disk
        /\ state' \in RunStates({state'.report}) /\ state.stage # "complete"
    <2>1. CASE Advance
      BY <1>1, <2>1, AdvanceShape, AdvanceFacts DEF Advance
    <2>2. CASE CriticOff
      BY <1>1, <2>2, AtNodeFacts DEF CriticOff, AtNode, Base
    <2>3. QED BY <2>1, <2>2
  <1>3. state.report = NoReport
    BY <1>1, <1>2 DEF Clean, StageAgrees
  <1>4. CASE pc = "node"
    BY <1>1, <1>2, <1>3, <1>4 DEF Phase, LastDone, Base, RunStates
  <1>5. CASE pc \in {"assess", "review"}
    <2>1. disk \in RunStates({NoReport}) /\ Kept
      BY <1>1, <1>5 DEF Loops, Kept, Saved, Base
    <2>2. pc = "review" => disk.keys = state.keys
      BY DEF Loops, InCritic
    <2>3. QED BY <1>2, <1>3, <1>5, <2>1, <2>2 DEF Phase, LastDone, Kept, RunStates
  <1>6. QED BY <1>2, <1>4, <1>5

LEMMA IntakeMaps ==
  ASSUME Inv, Loops, IntakePasses
  PROVE  Resumable!Intake
  <1>1. Base /\ Control
    BY DEF Inv
  <1>2. pc = "node" /\ LastDone = state /\ ledger' = ledger /\ state.stage = "created"
    BY <1>1, AdvanceFacts DEF IntakePasses, AtNode, LastDone, Advance
  <1>3. state' = [state EXCEPT !.stage = "intake_complete"]
    BY DEF IntakePasses
  <1>4. QED BY <1>2, <1>3, NodeEnds DEF Advance, Resumable!Intake, Resumable!Does

LEMMA ClassifyMaps ==
  ASSUME Inv, Loops, AssessRisk
  PROVE  Resumable!Classify
  <1>1. Base /\ Control
    BY DEF Inv
  <1>2. pc = "node" /\ LastDone = state /\ ledger' = ledger /\ state.stage = "intake_complete"
    BY <1>1, AdvanceFacts DEF AssessRisk, AtNode, LastDone, Advance
  <1>3. state' = [state EXCEPT !.stage = "risk_complete", !.risk = config.tier]
    BY DEF AssessRisk
  <1>4. QED BY <1>2, <1>3, NodeEnds DEF Advance, Resumable!Classify, Resumable!Does

LEMMA RetrieveMaps ==
  ASSUME Inv, Loops, Retrieve
  PROVE  Resumable!Retrieve
  <1>1. Base /\ Control
    BY DEF Inv
  <1>2. pc = "node" /\ LastDone = state /\ ledger' = ledger /\ state.stage = "risk_complete"
    BY <1>1, AdvanceFacts DEF Retrieve, AtNode, LastDone, Advance
  <1> DEFINE got == [c \in Controls |-> IF c \in InScope THEN RetrievedFor(c)
                                        ELSE state.retrieved[c]]
  <1>3. state' = [state EXCEPT !.stage = "retrieval_complete", !.retrieved = got]
    BY DEF Retrieve
  <1>4. \A c \in InScope : got[c] # << >>
    BY ScopeInControls, RetrievedForType DEF NotRetrieved
  <1> HIDE DEF got
  <1>5. state'.stage = "retrieval_complete" /\ state'.retrieved = got
        /\ \A f \in DOMAIN state \ {"retrieved", "stage"} : state'[f] = state[f]
    BY <1>1, <1>3 DEF Base, RunStates
  <1>6. QED
    BY <1>2, <1>4, <1>5, NodeEnds DEF Advance, Resumable!Retrieve, Resumable!Does

LEMMA ReportMaps ==
  ASSUME Inv, Loops, Report
  PROVE  Resumable!Report
  <1>1. Base /\ Control
    BY DEF Inv
  <1>2. /\ pc = "node" /\ LastDone = state
        /\ state.stage \in {"assessment_complete", "critique_complete"}
    BY <1>1, AdvanceFacts DEF Report, AtNode, LastDone, Advance
  <1>3. ledger' = [ledger EXCEPT !.noted = @ \union {"report_generated"}]
    BY DEF Report, Note
  <1>4. "budget_exceeded" \in ledger'.noted <=> "budget_exceeded" \in ledger.noted
    BY <1>1, <1>3 DEF Base
  <1> DEFINE r == ReportOf(state.findings, state.usage)
  <1>5. r # NoReport /\ r.findings = state.findings
    <2>1. "findings" \in DOMAIN r /\ "findings" \notin DOMAIN NoReport
      BY DEF ReportOf, NoReport
    <2>2. QED BY <2>1 DEF ReportOf
  <1>6. state' = [state EXCEPT !.stage = "complete", !.report = r]
    BY DEF Report
  <1> HIDE DEF r
  <1>7. state'.stage = "complete" /\ state'.report = r
        /\ \A f \in DOMAIN state \ {"report", "stage"} : state'[f] = state[f]
    BY <1>1, <1>6 DEF Base, RunStates
  <1>8. QED BY <1>2, <1>4, <1>5, <1>7, NodeEnds DEF Advance, Resumable!Report, Resumable!Does

\* The end of the assessor's loop.
LEMMA AssessMaps ==
  ASSUME Inv, Loops, AssessorEnds
  PROVE  Resumable!Assess
  <1>1. Base /\ Control /\ Clean /\ Told /\ AssertionsGrounded
    BY DEF Inv
  <1>2. /\ pc = "assess" /\ todo = << >> /\ ledger' = ledger /\ LastDone = disk
        /\ state' = [state EXCEPT !.stage = "assessment_complete"]
    BY DEF AssessorEnds, LastDone
  <1>3. /\ state'.stage = "assessment_complete" /\ state'.findings = state.findings
        /\ state'.risk = state.risk /\ state'.retrieved = state.retrieved
        /\ state'.report = state.report /\ state.stage = "retrieval_complete"
    BY <1>1, <1>2 DEF Base, RunStates, Control
  <1>4. /\ Phase = "ready" /\ Phase' = "done" /\ LastDone' = state' /\ disk' = disk
        /\ disk.stage = state.stage /\ disk.risk = state.risk
        /\ disk.retrieved = state.retrieved
        /\ disk.report = NoReport /\ state.report = NoReport
        /\ DOMAIN disk = {"stage", "risk", "retrieved", "findings", "keys", "usage", "report"}
        /\ DOMAIN state' = DOMAIN disk
    BY <1>2, NodeEnds DEF Advance
  <1>5. Resumable!Does({"retrieval_complete"}, "assessment_complete", {"findings", "keys", "usage"})
    BY <1>2, <1>3, <1>4 DEF Resumable!Does
  <1>6. ASSUME NEW c \in Controls, state.findings[c] = NoFinding
        PROVE  c \notin InScope \/ "budget_exceeded" \in ledger.noted
    BY <1>1, <1>2, <1>6 DEF Told
  <1>7. ASSUME NEW c \in Controls, state.findings[c] # NoFinding
        PROVE  c \in InScope /\ state.findings[c].critic_verdict = "not_reviewed"
    BY <1>1, <1>2, <1>7 DEF Clean, Loops, InAssessor
  <1>8. ASSUME NEW c \in Controls, state.findings[c] # NoFinding,
               \A s \in Settings : s.require_citations
        PROVE  Resumable!Grounded(c, state.findings[c], disk.retrieved[c])
    <2>1. state.findings[c].status \in Judged =>
            /\ \E cite \in state.findings[c].citations : cite.source = "corpus"
            /\ \A cite \in state.findings[c].citations : cite.source = "corpus" =>
                 cite.control_id \in RetrievedOf(state, c) \union {c}
      BY <1>1, <1>8 DEF AssertionsGrounded, Grounded, Retrievable
    <2>2. ASSUME NEW id \in RetrievedOf(state, c)
          PROVE  id = c \/ \E i \in 1..Len(state.retrieved[c]) : state.retrieved[c][i] = id
      BY DEF RetrievedOf
    <2>3. QED BY <1>4, <2>1, <2>2 DEF Resumable!Grounded, Resumable!Judged, Judged
  <1>9. NoFinding = Resumable!NoFinding
    BY DEF NoFinding, Resumable!NoFinding
  <1>10. QED
    BY <1>2, <1>3, <1>4, <1>5, <1>6, <1>7, <1>8, <1>9 DEF Resumable!Assess

\* The end of the critic's loop.
LEMMA ReviewMaps ==
  ASSUME Inv, Loops, CriticEnds
  PROVE  Resumable!Review
  <1>1. Base /\ Control
    BY DEF Inv
  <1>2. /\ pc = "review" /\ ledger' = ledger /\ LastDone = disk
        /\ state' = [state EXCEPT !.stage = "critique_complete", !.usage = ctx.usage]
    BY DEF CriticEnds, LastDone
  <1>3. /\ state'.stage = "critique_complete" /\ state'.findings = state.findings
        /\ state'.risk = state.risk /\ state'.retrieved = state.retrieved
        /\ state'.keys = state.keys
        /\ state'.report = state.report /\ state.stage = "assessment_complete"
    BY <1>1, <1>2 DEF Base, RunStates, Control
  <1>4. /\ Phase = "ready" /\ Phase' = "done" /\ LastDone' = state' /\ disk' = disk
        /\ disk.stage = state.stage /\ disk.risk = state.risk
        /\ disk.retrieved = state.retrieved /\ disk.keys = state.keys
        /\ disk.report = NoReport /\ state.report = NoReport
        /\ DOMAIN disk = {"stage", "risk", "retrieved", "findings", "keys", "usage", "report"}
        /\ DOMAIN state' = DOMAIN disk
    BY <1>2, NodeEnds DEF Advance
  <1>5. Resumable!Does({"assessment_complete"}, "critique_complete", {"findings", "usage"})
    BY <1>2, <1>3, <1>4 DEF Resumable!Does
  <1>6. ASSUME NEW f, NEW g, Weakened(f, g)
        PROVE  g \in Resumable!Outcomes(f)
    <2>1. CASE g = f \/ g = [f EXCEPT !.critic_verdict = "upheld"]
      BY <2>1 DEF Resumable!Outcomes
    <2>2. CASE f.status \in Downgradable
               /\ g = [f EXCEPT !.critic_verdict = "downgraded", !.status = Downgrade(f.status)]
      BY <2>2 DEF Resumable!Outcomes, Resumable!Downgradable, Resumable!Downgrade, Downgradable,
                  Downgrade
    <2>3. QED BY <1>6, <2>1, <2>2 DEF Weakened
  <1>7. NoFinding = Resumable!NoFinding
    BY DEF NoFinding, Resumable!NoFinding
  <1>8. ASSUME NEW c \in Controls
        PROVE  IF disk.findings[c] = NoFinding THEN state.findings[c] = NoFinding
               ELSE state.findings[c] \in Resumable!Outcomes(disk.findings[c])
    BY <1>2, <1>6 DEF Loops, InCritic
  <1>9. QED BY <1>2, <1>3, <1>4, <1>5, <1>7, <1>8 DEF Resumable!Review

\* The steps that begin no loop and are no turn of one.
LEMMA OutsideMaps ==
  ASSUME Inv, Loops, Outside
  PROVE  [Resumable!Next]_Resumable!vars
  <1>1. Base /\ Control /\ Files /\ Clean
    BY DEF Inv
  <1>2. CASE Start
    <2>1. /\ pc = "down" /\ pc' = "node" /\ disk # TornFile /\ UNCHANGED <<disk, ledger>>
          /\ state' = IF disk = NoFile THEN NewRunState ELSE disk
      BY <1>2 DEF Start
    <2>2. Resumable!Begin
      BY <2>1 DEF Resumable!Begin, Phase, LastDone
    <2>3. QED BY <2>2 DEF Resumable!Next
  <1>3. CASE SkipNode
    <2>1. UNCHANGED <<pc, state, disk, ledger>>
      BY <1>3 DEF SkipNode
    <2>2. Phase' = Phase /\ LastDone' = LastDone
      BY <2>1 DEF Phase, LastDone
    <2>3. QED BY <2>1, <2>2, Stutters
  <1>4. CASE IntakeBlocks
    <2>1. /\ pc = "node" /\ pc' = "down" /\ UNCHANGED <<state, disk>> /\ state.stage = "created"
          /\ ledger' = [ledger EXCEPT !.noted = @ \union {"run_blocked"}]
      BY <1>1, <1>4, AtNodeFacts DEF IntakeBlocks, AtNode, Note
    <2>2. "budget_exceeded" \in ledger'.noted <=> "budget_exceeded" \in ledger.noted
      BY <1>1, <2>1 DEF Base
    <2>3. Resumable!End
      BY <2>1, <2>2 DEF Resumable!End, Phase, LastDone
    <2>4. QED BY <2>3 DEF Resumable!Next
  <1>5. CASE CriticOff
    <2>1. /\ pc = "node" /\ pc' = "save" /\ UNCHANGED <<state, disk, ledger>>
          /\ state.stage = "assessment_complete"
      BY <1>1, <1>5, AtNodeFacts DEF CriticOff, AtNode
    <2>2. Resumable!PassBy
      BY <2>1 DEF Resumable!PassBy, Phase, LastDone
    <2>3. QED BY <2>2 DEF Resumable!Next, Resumable!Node
  <1>6. CASE Truncate
    <2>1. Resumable!Cut
      BY <1>6 DEF Truncate, Resumable!Cut, Phase, LastDone
    <2>2. QED BY <2>1 DEF Resumable!Next
  <1>7. CASE Write
    <2>1. pc = "cut" /\ pc' = "node" /\ UNCHANGED <<state, ledger>>
          /\ disk' = [state EXCEPT !.report = NoReport]
      BY <1>7 DEF Write, to_dict
    <2>2. Resumable!Keep
      BY <2>1 DEF Resumable!Keep, Phase, LastDone
    <2>3. QED BY <2>2 DEF Resumable!Next
  <1>8. CASE Finish
    <2>1. pc = "node" /\ node = 7 /\ pc' = "down" /\ UNCHANGED <<state, disk, ledger>>
      BY <1>1, <1>8 DEF Finish, Base, PIPELINE
    <2>2. state.stage = "complete"
      BY <1>1, <2>1, BehindFacts DEF Control
    <2>3. Resumable!End
      BY <2>1, <2>2 DEF Resumable!End, Phase, LastDone
    <2>4. QED BY <2>3 DEF Resumable!Next
  <1>9. CASE Crash
    <2>1. pc # "down" /\ pc' = "down" /\ state' = NewRunState /\ UNCHANGED <<disk, ledger>>
      BY <1>9 DEF Crash
    <2>2. Resumable!Die
      BY <1>1, <2>1 DEF Resumable!Die, Phase, LastDone, Base
    <2>3. QED BY <2>2 DEF Resumable!Next
  <1>10. QED BY <1>2, <1>3, <1>4, <1>5, <1>6, <1>7, <1>8, <1>9 DEF Outside

\* Every step of the pipeline is a step of the abstract run or a stutter.
LEMMA StepMaps ==
  ASSUME Inv, Loops, [Next]_vars
  PROVE  [Resumable!Next]_Resumable!vars
  <1>1. CASE UNCHANGED vars
    <2>1. UNCHANGED <<pc, state, disk, ledger>>
      BY <1>1 DEF vars
    <2>2. QED BY <2>1, Stutters DEF Phase, LastDone
  <1>2. CASE Outside
    BY <1>2, OutsideMaps
  <1>3. CASE Advance
    <2>1. Resumable!Node
      BY <1>3, IntakeMaps, ClassifyMaps, RetrieveMaps, AssessMaps, ReviewMaps, ReportMaps
         DEF Advance, Resumable!Node
    <2>2. QED BY <2>1 DEF Resumable!Next
  <1>4. CASE AssessorStart \/ CriticStart
    <2>1. /\ pc = "node" /\ pc' \in {"assess", "review"} /\ UNCHANGED <<state, disk, ledger>>
      BY <1>4 DEF AssessorStart, CriticStart, AtNode
    <2>2. disk = state
      BY <1>4, LoopBegins
    <2>3. Phase' = Phase /\ LastDone' = LastDone
      BY <2>1, <2>2 DEF Phase, LastDone
    <2>4. QED BY <2>1, <2>3, Stutters
  <1>5. CASE Turns
    <2>1. pc \in {"assess", "review"} /\ UNCHANGED <<pc, state, disk>>
      BY <1>5, LoopTurns
    <2>2. Phase' = Phase /\ LastDone' = LastDone
      BY <2>1 DEF Phase, LastDone
    <2>3. CASE AssessorBreaks
      <3>1. "budget_exceeded" \in ledger'.noted
        BY <2>3 DEF AssessorBreaks, Note, Inv, Base
      <3>2. pc = "assess" /\ disk.stage = "retrieval_complete"
        BY <2>3 DEF AssessorBreaks, Inv, Control, Loops, Kept
      <3>3. Resumable!RunShort
        BY <2>1, <2>2, <3>1, <3>2 DEF Resumable!RunShort, Phase, LastDone
      <3>4. QED BY <3>3 DEF Resumable!Next
    <2>4. CASE ~AssessorBreaks
      <3>1. ledger' = ledger
        BY <1>5, <2>4 DEF Turns, Retry, AssessorSkips, CriticSkips, CriticGivesUp
      <3>2. QED BY <2>1, <2>2, <3>1, Stutters
    <2>5. QED BY <2>3, <2>4
  <1>6. CASE (\E reply \in Replies : AssessorFinds(reply)) \/ AssessorGivesUp
    <2>1. pc = "assess" /\ UNCHANGED <<pc, disk>> /\ ledger'.noted = ledger.noted
      BY <1>6, LoopFinds
    <2>2. QED BY <2>1, Stutters DEF Phase, LastDone
  <1>7. CASE \E reply \in CriticReplies : CriticReviews(reply)
    <2>1. pc = "review" /\ UNCHANGED <<pc, disk, ledger>>
      BY <1>7, LoopReviews
    <2>2. QED BY <2>1, Stutters DEF Phase, LastDone
  <1>8. QED BY <1>1, <1>2, <1>3, <1>4, <1>5, <1>6, <1>7, FiveKinds

\* A run that has not begun is an abstract run that has not begun.
LEMMA InitMaps == Init => Resumable!Init
  BY DEF Init, Resumable!Init, Phase, LastDone, EmptyLedger

\* The pipeline, with its loops, retries and crashes, is a resumable run: each
\* node takes effect once and whole or not at all, on its own fields of the run,
\* and in order (graph/orchestrator.py, graph/state.py, agents/*.py).
THEOREM PipelineIsResumable == Spec => ImplementsResumableRun
  <1>1. Inv /\ Loops /\ [Next]_vars => [Resumable!Next]_Resumable!vars
    BY StepMaps
  <1>2. QED
    BY <1>1, InitMaps, PipelineInvariant, LoopsInvariant, PTL
       DEF Spec, ImplementsResumableRun, Resumable!Spec
-----------------------------------------------------------------------------
(***************************************************************************)
(* A running process goes forward: the safety part of RunsEnd.             *)
(***************************************************************************)

\* How far a node has come: it runs, loops, and is written to the file.
Stride(p) ==
  CASE p = "node" -> 1 [] p \in {"assess", "review"} -> 2 [] p = "save" -> 3 [] p = "cut" -> 4

\* In this order: the next node, further within it, fewer controls to visit,
\* one retry more of those allowed.
GoesForward ==
  \/ node' = node + 1
  \/ node' = node /\ Stride(pc') > Stride(pc)
  \/ node' = node /\ pc' = pc /\ Len(todo') \in 0..Len(todo) - 1
  \/ /\ UNCHANGED <<node, pc, todo>>
     /\ attempt' = attempt + 1 /\ attempt' < ctx.settings.max_retries

LEMMA ShorterTodo ==
  ASSUME Base, todo # << >>
  PROVE  Len(Tail(todo)) \in 0..Len(todo) - 1 /\ Len(<< >>) \in 0..Len(todo) - 1
  <1>1. todo \in Seq(Controls) /\ Len(todo) \in Nat \ {0}
    BY TodoFacts DEF Base
  <1>2. Len(Tail(todo)) = Len(todo) - 1
    BY <1>1, HeadTailProperties
  <1>3. QED BY <1>1, <1>2

LEMMA ForwardStep ==
  ASSUME Inv, Next, Running, pc' # "down"
  PROVE  GoesForward /\ ctx'.settings = ctx.settings
  <1>1. Base /\ pc \in {"node", "assess", "review", "save", "cut"}
    BY DEF Inv, Base, Running
  <1>2. CASE Outside
    <2>1. CASE SkipNode \/ Write
      BY <2>1 DEF SkipNode, Write, GoesForward
    <2>2. CASE CriticOff \/ Truncate
      BY <2>2 DEF CriticOff, AtNode, Truncate, GoesForward, Stride
    <2>3. CASE Start \/ IntakeBlocks \/ Finish \/ Crash
      BY <2>3 DEF Start, IntakeBlocks, Finish, Crash, Running
    <2>4. QED BY <1>2, <2>1, <2>2, <2>3 DEF Outside
  <1>3. CASE Advance
    <2>1. pc' = "save" /\ UNCHANGED <<ctx, node>>
      BY <1>1, <1>3, AdvanceShape
    <2>2. pc \in {"node", "assess", "review"}
      BY <1>3 DEF Advance, IntakePasses, AssessRisk, Retrieve, AssessorEnds, CriticEnds, Report, AtNode
    <2>3. QED BY <2>1, <2>2 DEF GoesForward, Stride
  <1>4. CASE AssessorStart \/ CriticStart
    BY <1>4 DEF AssessorStart, CriticStart, AtNode, GoesForward, Stride
  <1>5. CASE Turns
    <2>1. CASE Retry
      BY <2>1 DEF Retry, GoesForward
    <2>2. CASE AssessorSkips \/ AssessorBreaks \/ CriticSkips \/ CriticGivesUp
      <3>1. /\ todo # << >> /\ todo' \in {Tail(todo), << >>}
            /\ UNCHANGED <<ctx, node, pc>>
        BY <2>2 DEF AssessorSkips, AssessorBreaks, CriticSkips, CriticGivesUp
      <3>2. QED BY <1>1, <3>1, ShorterTodo DEF GoesForward
    <2>3. QED BY <1>5, <2>1, <2>2 DEF Turns
  <1>6. CASE (\E reply \in Replies : AssessorFinds(reply)) \/ AssessorGivesUp
    <2>1. PICK f \in Finding, usage \in Usage : Turn(f, usage)
      BY <1>1, <1>6, AssessorTurn
    <2>2. /\ todo # << >> /\ todo' = Tail(todo) /\ UNCHANGED <<node, pc>>
          /\ ctx' \in [settings : {ctx.settings}, usage : Usage]
      BY <2>1 DEF Turn, Find
    <2>3. QED BY <1>1, <2>2, ShorterTodo DEF GoesForward
  <1>7. CASE \E reply \in CriticReplies : CriticReviews(reply)
    <2>1. PICK reply \in CriticReplies : CriticReviews(reply)
      BY <1>7
    <2>2. /\ todo # << >> /\ todo' = Tail(todo) /\ UNCHANGED <<node, pc>>
          /\ ctx' = [ctx EXCEPT !.usage = Spent(CriticCost)]
      BY <2>1 DEF CriticReviews
    <2>3. ctx'.settings = ctx.settings
      BY <1>1, <2>2 DEF Base
    <2>4. QED BY <1>1, <2>2, <2>3, ShorterTodo DEF GoesForward
  <1>8. QED BY <1>2, <1>3, <1>4, <1>5, <1>6, <1>7, FiveKinds

\* No loop of a process runs for ever, over any scope and number of retries:
\* every step that it survives takes it to a later node, further within its
\* node, to fewer controls, or to one more of the retries its settings allow,
\* and there are six nodes.
THEOREM RunsGoForward ==
  Spec => [][Running /\ pc' # "down" =>
               GoesForward /\ ctx'.settings = ctx.settings /\ node' <= 7]_vars
  <1> DEFINE A == Running /\ pc' # "down" =>
                    GoesForward /\ ctx'.settings = ctx.settings /\ node' <= 7
  <1>1. Inv /\ Inv' /\ [Next]_vars => [A]_vars
    <2> SUFFICES ASSUME Inv, Inv', [Next]_vars, ~UNCHANGED vars PROVE A
      OBVIOUS
    <2>1. node' <= 7
      BY DEF Inv, Base
    <2>2. QED BY <2>1, ForwardStep
  <1>2. Spec => [][A]_vars
    <2> HIDE DEF A
    <2>1. QED BY <1>1, PipelineInvariant, PTL DEF Spec
  <1>3. QED BY <1>2
=============================================================================
