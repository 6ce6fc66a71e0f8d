--------------------------- MODULE GovernanceEngine ---------------------------
(***************************************************************************)
(* GovernanceEngine.evaluate (src/src/muraqib/runtime/engine.py), called   *)
(* for several transactions at a time on one engine: each call walks the   *)
(* six gates, records every gate it ran in the ledger the calls share, and *)
(* returns one decision.  A ledger whose file write fails raises out of    *)
(* evaluate.                                                               *)
(*                                                                         *)
(* ledger.record is one atomic step here: the module AuditLedger shows     *)
(* that the lock makes the chain grow by one entry at a time.              *)
(***************************************************************************)
EXTENDS RuntimeGates, SequencesExt

CONSTANTS
  Txns,        \* the transactions, one evaluate() call each
  Contexts,    \* the transaction contexts a caller may submit
  Policies,    \* the policies an engine may be built with
  MaxFaults    \* bound on the ledger.record calls that raise

NoContext == [none |-> "context"]
Undecided == [none |-> "decision"]
Raised == [none |-> "raised"]

\* A policy has the sections the gates read.  A response, when there is one,
\* tells whether it carries personal data; a retrieved item has one of the
\* classes there are.
ASSUME EngineAssumption ==
  /\ MaxFaults \in Nat
  /\ \A p \in Policies :
       /\ {"fail_closed", "identity", "entitlements", "residency", "dlp"} \subseteq DOMAIN p
       /\ p.fail_closed \in BOOLEAN
  /\ NoContext \notin Contexts
  /\ \A c \in Contexts : c.response # NoResponse => "pii" \in DOMAIN c.response
  /\ \A c \in Contexts : \A item \in c.retrieved :
       item.classification \in {"public", "internal", "confidential", "restricted", "unknown"}

VARIABLES
  policy,      \* GovernanceEngine.policy, the same for every call
  ctx,         \* evaluate's parameter, per transaction
  pc,          \* where the call is
  results,     \* evaluate's local list: the verdict of each gate so far
  stopped,     \* evaluate's local flag
  response,    \* ctx.response as the latest model_copy has it
  outcome,     \* what the call returned, or that it raised
  ledger,      \* the events recorded, oldest first
  faults       \* ledger.record calls that raised so far

vars == <<policy, ctx, pc, results, stopped, response, outcome, ledger, faults>>

Init ==
  /\ policy \in Policies
  /\ ctx = [x \in Txns |-> NoContext]
  /\ pc = [x \in Txns |-> "new"]
  /\ results = [x \in Txns |-> << >>]
  /\ stopped = [x \in Txns |-> FALSE]
  /\ response = [x \in Txns |-> NoResponse]
  /\ outcome = [x \in Txns |-> Undecided]
  /\ ledger = << >>
  /\ faults = 0

Record(x, event, what) ==
  /\ ledger' = Append(ledger, [txn |-> x, event |-> event, what |-> what])
  /\ UNCHANGED faults

\* ledger.record raises after the entry was put in memory; nothing catches it.
\* MaxFaults bounds how often.
RecordRaises(x, event, what) ==
  /\ faults < MaxFaults
  /\ faults' = faults + 1
  /\ ledger' = Append(ledger, [txn |-> x, event |-> event, what |-> what])
  /\ pc' = [pc EXCEPT ![x] = "raised"]
  /\ outcome' = [outcome EXCEPT ![x] = Raised]

\* The call: a context arrives and the start of the journey is recorded.
Submit(x) ==
  /\ pc[x] = "new"
  /\ \E c \in Contexts :
       /\ ctx' = [ctx EXCEPT ![x] = c]
       /\ response' = [response EXCEPT ![x] = c.response]
  /\ \/ /\ Record(x, "transaction_started", "")
        /\ pc' = [pc EXCEPT ![x] = "gates"]
        /\ UNCHANGED outcome
     \/ RecordRaises(x, "transaction_started", "")
  /\ UNCHANGED <<policy, results, stopped>>

\* The stopping rule, the only place it is written.
StopHere(verdict) ==
  verdict = "block" \/ (verdict = "not_evidenced" /\ policy.fail_closed)

\* Mutant of RunGate: the masked text is not put back into the context.
RunGate_KeepsText(x) ==
  /\ pc[x] = "gates"
  /\ Len(results[x]) < 6
  /\ ~stopped[x]
  /\ LET gate    == GATES[Len(results[x]) + 1]
         verdict == Evaluate(gate, policy, ctx[x], response[x])
     IN  /\ results' = [results EXCEPT ![x] = Append(@, verdict)]
         /\ Record(x, "gate_evaluated", verdict)
         /\ stopped' = [stopped EXCEPT ![x] = StopHere(verdict)]
         /\ UNCHANGED <<pc, outcome, response>>
  /\ UNCHANGED <<policy, ctx>>

\* The next gate on a journey that was not stopped: its result is kept and
\* recorded, it may stop the journey, and MASK replaces the response.
RunGate(x) ==
  /\ pc[x] = "gates"
  /\ Len(results[x]) < 6
  /\ ~stopped[x]
  /\ LET gate    == GATES[Len(results[x]) + 1]
         verdict == Evaluate(gate, policy, ctx[x], response[x])
     IN  /\ results' = [results EXCEPT ![x] = Append(@, verdict)]
         /\ \/ /\ Record(x, "gate_evaluated", verdict)
               /\ stopped' = [stopped EXCEPT ![x] = StopHere(verdict)]
               /\ response' = [response EXCEPT ![x] =
                    IF ~StopHere(verdict) /\ verdict = "mask" THEN Masked(@) ELSE @]
               /\ UNCHANGED <<pc, outcome>>
            \/ /\ RecordRaises(x, "gate_evaluated", verdict)
               /\ UNCHANGED <<stopped, response>>
  /\ UNCHANGED <<policy, ctx>>

\* Mutant of SkipGate: a gate after the stop waits for the journey to resume.
SkipGate_Waits(x) ==
  /\ pc[x] = "gates"
  /\ Len(results[x]) < 6
  /\ stopped[x]
  /\ UNCHANGED vars

\* A gate after the stop is kept as NOT_RUN and neither run nor recorded.
SkipGate(x) ==
  /\ pc[x] = "gates"
  /\ Len(results[x]) < 6
  /\ stopped[x]
  /\ results' = [results EXCEPT ![x] = Append(@, "not_run")]
  /\ UNCHANGED <<policy, ctx, pc, stopped, response, outcome, ledger, faults>>

\* Mutant of MaxSeverity: the verdict of the last gate that ran.
MaxSeverity_Last(rs) ==
  LET ran == {i \in 1..Len(rs) : rs[i] # "not_run"}
  IN  rs[CHOOSE i \in ran : \A j \in ran : j <= i]

\* max(..., key=SEVERITY) over the gates that ran.
MaxSeverity(rs) ==
  LET ran == {rs[i] : i \in 1..Len(rs)} \ {"not_run"}
  IN  CHOOSE v \in ran : \A w \in ran : SEVERITY[w] <= SEVERITY[v]

Decided(x) ==
  LET released == results[x][6] = "allow"
  IN  [verdict    |-> MaxSeverity(results[x]),
       gates      |-> results[x],
       released   |-> released,
       response   |-> IF released THEN response[x] ELSE NoResponse,
       masked     |-> \E i \in 1..6 : results[x][i] = "mask",
       provenance |-> IF released THEN {item.source : item \in ctx[x].retrieved} ELSE {}]

\* Mutant of Decide: the decision is returned before it is recorded.
Decide_ReturnsFirst(x) ==
  /\ pc[x] = "gates"
  /\ Len(results[x]) = 6
  /\ outcome' = [outcome EXCEPT ![x] = Decided(x)]
  /\ pc' = [pc EXCEPT ![x] = "done"]
  /\ UNCHANGED <<policy, ctx, results, stopped, response, ledger, faults>>

\* All six results are in: the decision is recorded and then returned.
Decide(x) ==
  /\ pc[x] = "gates"
  /\ Len(results[x]) = 6
  /\ \/ /\ Record(x, "transaction_decided", Decided(x).verdict)
        /\ outcome' = [outcome EXCEPT ![x] = Decided(x)]
        /\ pc' = [pc EXCEPT ![x] = "done"]
     \/ RecordRaises(x, "transaction_decided", Decided(x).verdict)
  /\ UNCHANGED <<policy, ctx, results, stopped, response>>

evaluate(x) == Submit(x) \/ RunGate(x) \/ SkipGate(x) \/ Decide(x)

Next == \E x \in Txns : evaluate(x)

Spec == Init /\ [][Next]_vars

\* A call that runs is not suspended for ever: evaluate awaits nothing but the
\* ledger's lock, and a caller that made the call made it.
FairSpec == Spec /\ \A x \in Txns : WF_vars(evaluate(x))

-----------------------------------------------------------------------------
(***************************************************************************)
(* Properties.                                                             *)
(***************************************************************************)

Abstract == INSTANCE GovernanceDecision

IsDecided(x) == outcome[x] \notin {Undecided, Raised}

Responses ==
  {NoResponse} \union {c.response : c \in Contexts} \union {Masked(c.response) : c \in Contexts}

Decisions ==
  [verdict : Verdict, gates : [1..6 -> Verdict], released : BOOLEAN, masked : BOOLEAN,
   response : Responses,
   provenance : SUBSET {item.source : item \in UNION {c.retrieved : c \in Contexts}}]

LedgerEvents ==
  [txn : Txns, what : Verdict \union {""},
   event : {"transaction_started", "gate_evaluated", "transaction_decided"}]

TypeOK ==
  /\ policy \in Policies
  /\ ctx \in [Txns -> Contexts \union {NoContext}]
  /\ pc \in [Txns -> {"new", "gates", "done", "raised"}]
  /\ results \in [Txns -> Seq(Verdict)]
  /\ \A x \in Txns : Len(results[x]) <= 6
  /\ stopped \in [Txns -> BOOLEAN]
  /\ response \in [Txns -> Responses]
  /\ outcome \in [Txns -> Decisions \union {Undecided, Raised}]
  /\ ledger \in Seq(LedgerEvents)
  /\ faults \in 0..MaxFaults

\* However calls interleave and whichever of them raise, each transaction gets
\* the decision its own context and the policy determine, in one step.
DecidesInIsolation == Abstract!Spec

\* A gate is NOT_RUN exactly when an earlier gate of the same journey stopped
\* it: nothing runs after a stop, and the trace has no silent gap.
JourneyStops ==
  \A x \in Txns : \A j \in 1..Len(results[x]) :
    results[x][j] = "not_run" <=> \E i \in 1..j - 1 : StopHere(results[x][i])

\* What a release under fail_closed says of the transaction: every fact that the
\* six gates look for.  An approved provider is only looked for where one is
\* declared, a second factor only where the principal is authenticated
\* (gates.py:69, 205-209).  What is classified and crosses a border is the
\* matter of ClassifiedStaysHome, what is masked that of MaskHolds.
Established(p, c) ==
  LET ent == effective_entitlement(p, c.principal.entitlement_keys)
  IN  /\ p.identity.require_authentication => c.principal.authenticated
      /\ p.identity.require_mfa /\ c.principal.authenticated => c.principal.mfa
      /\ p.identity.require_delegated_identity => c.principal.delegated_identity
      /\ p.identity.allowed_channels # {} => c.principal.channel \in p.identity.allowed_channels
      /\ c.principal.entitlement_keys # {}
      /\ \A a \in c.requested_agents : permits(ent.agents, a)
      /\ \A t \in c.requested_tools : permits(ent.tools, t)
      /\ \A s \in c.data_sources : permits(ent.sources, s)
      /\ \A item \in c.retrieved :
           /\ item.owner \in {"", c.principal.subject}
           /\ item.classification # "unknown"
           /\ ~item.injection
           /\ item.classification \in p.dlp.block_classifications => item \notin c.response.repeats
      /\ c.model # NoModel
      /\ p.residency.approved_models # {} => c.model.name \in p.residency.approved_models
      /\ p.residency.approved_providers # {} =>
           c.model.provider \in p.residency.approved_providers \union {""}
      /\ c.model.region # ""
      /\ region_allowed(p.residency, c.model.region) \/ p.residency.allow_cross_border
      /\ ~c.prompt.injection
      /\ p.residency.require_prompt_redaction => c.prompt_redacted
      /\ c.response # NoResponse
      /\ p.dlp.block_on_secrets => ~c.response.secret
      /\ \A phrase \in p.dlp.blocked_phrases : phrase \notin c.response.phrases
      /\ p.dlp.max_records # 0 => ~(c.record_count > p.dlp.max_records)

\* However its call was interleaved, no transaction is released under fail_closed
\* with one of these facts missing or not declared.
ReleaseEstablished ==
  \A x \in Txns :
    (policy.fail_closed /\ IsDecided(x) /\ outcome[x].released) => Established(policy, ctx[x])

\* Under fail_closed, with the default list of classes that stay at home, no
\* classified context reaches a model outside the approved regions.
ClassifiedStaysHome ==
  \A x \in Txns :
    (/\ policy.fail_closed /\ IsDecided(x) /\ outcome[x].released
     /\ {"confidential", "restricted"} \subseteq policy.residency.block_classifications_cross_border)
    => \A item \in ctx[x].retrieved :
         item.classification \in {"confidential", "restricted"} =>
           region_allowed(policy.residency, ctx[x].model.region)

\* What is released carries no personal data the policy wants masked, and a
\* masked response is never reported as a clean ALLOW or as a mere WARN.
MaskHolds ==
  \A x \in Txns :
    IsDecided(x) =>
      /\ outcome[x].released /\ policy.dlp.mask_pii => ~outcome[x].response.pii
      /\ outcome[x].masked => outcome[x].verdict \notin {"allow", "warn"}

\* Under fail_closed the verdict's `allowed` and the release agree.
AllowedIffReleased ==
  \A x \in Txns :
    (policy.fail_closed /\ IsDecided(x)) =>
      (outcome[x].released <=> outcome[x].verdict \in {"allow", "warn", "mask"})

\* Failing closed only ever withholds: what it releases, failing open would
\* have decided and released in the same way.
FailClosedOnlyWithholds ==
  \A x \in Txns :
    (policy.fail_closed /\ IsDecided(x) /\ outcome[x].released) =>
      outcome[x] = Abstract!Decision([policy EXCEPT !.fail_closed = FALSE], ctx[x])

\* Where the ledger speaks of one transaction, and how many of its entries
\* come before one of them.
EntriesOf(x) == {k \in DOMAIN ledger : ledger[k].txn = x}

Before(x, k) == Cardinality({j \in EntriesOf(x) : j < k})

\* The gates that ran.
Ran(x) == {i \in DOMAIN results[x] : results[x][i] # "not_run"}

\* The ledger's entry k is the one the journey of x has at its place: its
\* start, then one gate after the other with its verdict, then the decision.
TellsAt(x, k) ==
  LET n     == Before(x, k)
      entry == ledger[k]
  IN  /\ n = 0 => entry.event = "transaction_started"
      /\ n \in 1..Cardinality(Ran(x)) =>
           entry.event = "gate_evaluated" /\ entry.what = results[x][n]
      /\ n > Cardinality(Ran(x)) =>
           entry.event = "transaction_decided" /\ entry.what = outcome[x].verdict

\* However many calls share the ledger, the entries of each transaction are its
\* start, the gates that ran with their verdicts, and its decision, each once
\* and in this order.
LedgerTellsJourney ==
  \A x \in Txns : pc[x] \in {"gates", "done"} =>
    /\ Cardinality(EntriesOf(x)) = Cardinality(Ran(x)) + (IF pc[x] = "done" THEN 2 ELSE 1)
    /\ \A k \in EntriesOf(x) : TellsAt(x, k)

\* Nothing is said of a transaction before it is submitted, nor of anybody
\* else: with JourneyInv, an inductive strengthening of LedgerTellsJourney.
LedgerInv ==
  /\ \A x \in Txns : pc[x] = "new" => EntriesOf(x) = {}
  /\ LedgerTellsJourney

\* Every call that was made returns a decision or raises.
CallsReturn == \A x \in Txns : pc[x] = "gates" ~> pc[x] \in {"done", "raised"}

\* The journey so far agrees with the decision it will end in: an inductive
\* strengthening of JourneyStops and of the refinement.
JourneyInv ==
  \A x \in Txns :
    LET c == ctx[x]
        n == Len(results[x])
    IN  /\ pc[x] = "new" =>
             c = NoContext /\ results[x] = << >> /\ ~stopped[x] /\ outcome[x] = Undecided
        /\ pc[x] # "new" =>
             /\ c \in Contexts
             /\ \A i \in 1..n : results[x][i] = Abstract!Results(policy, c)[i]
        /\ pc[x] \in {"gates", "done"} =>
             /\ stopped[x] <=> ~Abstract!Reached(policy, c, n + 1)
             /\ response[x] = IF \E i \in 1..n : results[x][i] = "mask"
                              THEN Masked(c.response) ELSE c.response
        /\ pc[x] = "gates" => outcome[x] = Undecided
        /\ pc[x] = "done" => outcome[x] = Abstract!Decision(policy, c)
        /\ pc[x] = "raised" => outcome[x] = Raised

(***************************************************************************)
(* What the documents say and the code does not do.                        *)
(***************************************************************************)

\* RUNTIME_GOVERNANCE.md: confidential or restricted context never crosses the
\* border regardless.
SensitiveNeverCrosses ==
  \A x \in Txns :
    (IsDecided(x) /\ outcome[x].released /\ ctx[x].model # NoModel) =>
      \A item \in ctx[x].retrieved :
        item.classification \in policy.residency.block_classifications_cross_border =>
          ~OutsideRegion(policy, ctx[x])
=============================================================================
