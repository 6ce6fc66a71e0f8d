------------------------ MODULE GovernanceEngineProofs ------------------------
(***************************************************************************)
(* What holds of GovernanceEngine for every set of transactions, contexts  *)
(* and policies and every number of ledger faults.                         *)
(***************************************************************************)
EXTENDS GovernanceEngine, SequenceTheorems, FiniteSetTheorems, TLAPS

-----------------------------------------------------------------------------
(* The gates.                                                              *)

\* How many the numbers 1 to n are.
LEMMA UpTo ==
  ASSUME NEW n \in Nat
  PROVE  IsFiniteSet(1..n) /\ Cardinality(1..n) = n
  <1>1. 1 \in Int /\ n \in Int
    OBVIOUS
  <1>2. IsFiniteSet(1..n) /\ Cardinality(1..n) = IF 1 > n THEN 0 ELSE n - 1 + 1
    BY <1>1, FS_Interval
  <1>3. QED BY <1>2

\* The abstract specification's gates are the engine's.
LEMMA SameGates ==
  ASSUME NEW g, NEW p, NEW c, NEW r
  PROVE  Abstract!Evaluate(g, p, c, r) = Evaluate(g, p, c, r)
  <1>1. Abstract!IdentityGate(p, c) = IdentityGate(p, c)
    BY DEF Abstract!IdentityGate, IdentityGate, Abstract!Ranked, Ranked
  <1>2. Abstract!EntitlementGate(p, c) = EntitlementGate(p, c)
    BY DEF Abstract!EntitlementGate, EntitlementGate, Abstract!Ranked, Ranked,
           Abstract!permits, permits, Abstract!effective_entitlement, effective_entitlement
  <1>3. Abstract!SourceAuthorizationGate(p, c) = SourceAuthorizationGate(p, c)
    BY DEF Abstract!SourceAuthorizationGate, SourceAuthorizationGate, Abstract!Ranked, Ranked,
           Abstract!permits, permits, Abstract!effective_entitlement, effective_entitlement
  <1>4. Abstract!PreInferenceGate(p, c) = PreInferenceGate(p, c)
    BY DEF Abstract!PreInferenceGate, PreInferenceGate, Abstract!Ranked, Ranked,
           Abstract!OutsideRegion, OutsideRegion, Abstract!region_allowed, region_allowed,
           Abstract!Highest, Highest, Abstract!CLASSIFICATION_RANK, CLASSIFICATION_RANK,
           Abstract!NoModel, NoModel
  <1>5. Abstract!OutputProtectionGate(p, c, r) = OutputProtectionGate(p, c, r)
    BY DEF Abstract!OutputProtectionGate, OutputProtectionGate, Abstract!NoResponse, NoResponse
  <1>6. Abstract!ReleaseGate(r) = ReleaseGate(r)
    BY DEF Abstract!ReleaseGate, ReleaseGate, Abstract!NoResponse, NoResponse
  <1>7. QED BY <1>1, <1>2, <1>3, <1>4, <1>5, <1>6 DEF Abstract!Evaluate, Evaluate

\* A gate that runs returns a verdict other than NOT_RUN, and only the
\* output gate masks.
LEMMA GateVerdicts ==
  ASSUME NEW i \in 1..6, NEW p, NEW c, NEW r
  PROVE  /\ Evaluate(GATES[i], p, c, r) \in Verdict \ {"not_run"}
         /\ Evaluate(GATES[i], p, c, r) = "mask" => i = 5
  <1>1. \A b, u, w \in BOOLEAN : Ranked(b, u, w) \in Verdict \ {"not_run", "mask"}
    BY DEF Ranked, Verdict
  <1>2. CASE i = 1
    BY <1>2 DEF Evaluate, GATES, IdentityGate, Ranked, Verdict
  <1>3. CASE i = 2
    BY <1>3 DEF Evaluate, GATES, EntitlementGate, Ranked, Verdict
  <1>4. CASE i = 3
    BY <1>4 DEF Evaluate, GATES, SourceAuthorizationGate, Ranked, Verdict
  <1>5. CASE i = 4
    BY <1>5 DEF Evaluate, GATES, PreInferenceGate, Ranked, Verdict
  <1>6. CASE i = 5
    BY <1>6 DEF Evaluate, GATES, OutputProtectionGate, Verdict
  <1>7. CASE i = 6
    BY <1>7 DEF Evaluate, GATES, ReleaseGate, Verdict
  <1>8. QED BY <1>2, <1>3, <1>4, <1>5, <1>6, <1>7

\* Only the last two gates look at the response, and the last one only at
\* whether there is one.
LEMMA GateInputs ==
  ASSUME NEW i \in 1..6, NEW p, NEW c, NEW r, NEW s,
         i < 5 \/ (i = 6 /\ r # NoResponse /\ s # NoResponse)
  PROVE  Evaluate(GATES[i], p, c, r) = Evaluate(GATES[i], p, c, s)
  <1>1. CASE i = 1
    BY <1>1 DEF Evaluate, GATES
  <1>2. CASE i = 2
    BY <1>2 DEF Evaluate, GATES
  <1>3. CASE i = 3
    BY <1>3 DEF Evaluate, GATES
  <1>4. CASE i = 4
    BY <1>4 DEF Evaluate, GATES
  <1>5. CASE i = 6
    BY <1>5 DEF Evaluate, GATES, ReleaseGate
  <1>6. QED BY <1>1, <1>2, <1>3, <1>4, <1>5

\* A response that was masked was there and is there.
LEMMA MaskedResponse ==
  ASSUME NEW c \in Contexts, NEW p, Evaluate(GATES[5], p, c, c.response) = "mask"
  PROVE  c.response # NoResponse /\ Masked(c.response) # NoResponse
  <1>1. c.response # NoResponse
    BY DEF Evaluate, GATES, OutputProtectionGate
  <1>2. "pii" \in DOMAIN c.response
    BY <1>1, EngineAssumption
  <1>3. DOMAIN Masked(c.response) = DOMAIN c.response
    BY DEF Masked
  <1>4. DOMAIN NoResponse = {"none"}
    BY DEF NoResponse
  <1>5. QED BY <1>1, <1>2, <1>3, <1>4

-----------------------------------------------------------------------------
(* The decision.                                                           *)

\* The stopping rule is the abstract one.
LEMMA SameStop ==
  ASSUME NEW v
  PROVE  StopHere(v) <=> Abstract!Stops(policy, v)
  BY DEF StopHere, Abstract!Stops

\* The verdict of a gate, and of the abstract journey at that gate.
LEMMA JourneySteps ==
  ASSUME NEW p, NEW c, NEW i \in 1..6
  PROVE  /\ Abstract!GateVerdict(p, c, i) = Evaluate(GATES[i], p, c, c.response)
         /\ Abstract!GateVerdict(p, c, i) \in Verdict \ {"not_run"}
         /\ Abstract!Reached(p, c, 1)
         /\ Abstract!Reached(p, c, i + 1) <=>
              Abstract!Reached(p, c, i) /\ ~Abstract!Stops(p, Abstract!GateVerdict(p, c, i))
         /\ Abstract!Results(p, c)[i] = IF Abstract!Reached(p, c, i)
                                        THEN Abstract!GateVerdict(p, c, i) ELSE "not_run"
  <1>1. Abstract!GATES[i] = GATES[i]
    BY DEF Abstract!GATES, GATES
  <1>2. Abstract!GateVerdict(p, c, i) = Evaluate(GATES[i], p, c, c.response)
    BY <1>1, SameGates DEF Abstract!GateVerdict
  <1>3. Abstract!GateVerdict(p, c, i) \in Verdict \ {"not_run"}
    BY <1>2, GateVerdicts
  <1>4. Abstract!Reached(p, c, 1)
    BY DEF Abstract!Reached
  <1>5. 1..(i + 1) - 1 = (1..i - 1) \union {i}
    OBVIOUS
  <1>6. Abstract!Reached(p, c, i + 1) <=>
          Abstract!Reached(p, c, i) /\ ~Abstract!Stops(p, Abstract!GateVerdict(p, c, i))
    BY <1>5 DEF Abstract!Reached
  <1>7. Abstract!Results(p, c)[i] = IF Abstract!Reached(p, c, i)
                                    THEN Abstract!GateVerdict(p, c, i) ELSE "not_run"
    BY DEF Abstract!Results
  <1>8. QED BY <1>2, <1>3, <1>4, <1>6, <1>7

\* The loop's maximum is the abstract one.
LEMMA SameVerdict ==
  ASSUME NEW rs \in Seq(Verdict)
  PROVE  MaxSeverity(rs) = Abstract!Worst(Abstract!Verdicts(rs))
  <1>1. DOMAIN rs = 1..Len(rs)
    BY LenProperties
  <1>2. Abstract!Verdicts(rs) = {rs[i] : i \in 1..Len(rs)} \ {"not_run"}
    BY <1>1 DEF Abstract!Verdicts
  <1>3. QED BY <1>2 DEF MaxSeverity, Abstract!Worst, Abstract!SEVERITY, SEVERITY

\* The most severe of some verdicts is one of them.
LEMMA WorstIsOne ==
  ASSUME NEW V \in SUBSET (Verdict \ {"not_run"}), V # {}
  PROVE  /\ Abstract!Worst(V) \in V
         /\ \A w \in V : Abstract!SEVERITY[w] <= Abstract!SEVERITY[Abstract!Worst(V)]
  <1> DEFINE Top(v) == \A w \in V : Abstract!SEVERITY[w] <= Abstract!SEVERITY[v]
  <1>1. SUFFICES \E v \in V : Top(v)
    <2>1. Abstract!Worst(V) = CHOOSE v \in V : Top(v)
      BY DEF Abstract!Worst
    <2>2. PICK v \in V : Top(v)
      OBVIOUS
    <2> HIDE DEF Top
    <2>3. Abstract!Worst(V) \in V /\ Top(Abstract!Worst(V))
      BY <2>1, <2>2
    <2>4. QED BY <2>3 DEF Top
  <1>2. V \subseteq {"allow", "warn", "mask", "not_evidenced", "block"}
    BY DEF Verdict
  <1> USE DEF Abstract!SEVERITY
  <1>3. CASE "block" \in V
    BY <1>2, <1>3
  <1>4. CASE "block" \notin V /\ "not_evidenced" \in V
    BY <1>2, <1>4
  <1>5. CASE "block" \notin V /\ "not_evidenced" \notin V /\ "mask" \in V
    <2>1. V \subseteq {"allow", "warn", "mask"}
      BY <1>2, <1>5
    <2>2. Top("mask")
      BY <2>1
    <2>3. QED BY <1>5, <2>2
  <1>6. CASE "block" \notin V /\ "not_evidenced" \notin V /\ "mask" \notin V /\ "warn" \in V
    BY <1>2, <1>6
  <1>7. CASE V = {"allow"}
    <2>1. Abstract!SEVERITY["allow"] <= Abstract!SEVERITY["allow"]
      OBVIOUS
    <2>2. Top("allow")
      BY <1>7, <2>1
    <2>3. QED BY <1>7, <2>2
  <1>8. V = {"allow"} \/ V \intersect {"warn", "mask", "not_evidenced", "block"} # {}
    BY <1>2
  <1>9. QED BY <1>3, <1>4, <1>5, <1>6, <1>7, <1>8

\* A gate that was not reached lies behind one that was and stopped there.
LEMMA StopperRan ==
  ASSUME NEW p, NEW c, NEW j \in 1..7, ~Abstract!Reached(p, c, j)
  PROVE  \E i \in 1..j - 1 : /\ Abstract!Reached(p, c, i)
                            /\ Abstract!Stops(p, Abstract!GateVerdict(p, c, i))
  <1> DEFINE R(i) == Abstract!Reached(p, c, i)
             S(i) == Abstract!Stops(p, Abstract!GateVerdict(p, c, i))
  <1>1. R(1) /\ \A i \in 1..6 : R(i + 1) <=> R(i) /\ ~S(i)
    BY JourneySteps
  <1>2. ~R(j)
    OBVIOUS
  <1>3. SUFFICES \E i \in 1..j - 1 : R(i) /\ S(i)
    OBVIOUS
  <1> HIDE DEF R, S
  <1>4. /\ R(2) <=> R(1) /\ ~S(1)
        /\ R(3) <=> R(2) /\ ~S(2)
        /\ R(4) <=> R(3) /\ ~S(3)
        /\ R(5) <=> R(4) /\ ~S(4)
        /\ R(6) <=> R(5) /\ ~S(5)
        /\ R(7) <=> R(6) /\ ~S(6)
    BY <1>1
  <1>5. QED BY <1>1, <1>2, <1>4

-----------------------------------------------------------------------------
(* The journey.                                                            *)

\* The gate a running call takes next is the abstract journey's next gate,
\* and its verdict the abstract one.
LEMMA NextGate ==
  ASSUME TypeOK, JourneyInv, NEW x \in Txns, pc[x] = "gates", Len(results[x]) < 6
  PROVE  LET n == Len(results[x]) + 1
         IN  /\ n \in 1..6
             /\ ctx[x] \in Contexts
             /\ ~stopped[x] => Evaluate(GATES[n], policy, ctx[x], response[x])
                                 = Abstract!GateVerdict(policy, ctx[x], n)
             /\ ~stopped[x] <=> Abstract!Reached(policy, ctx[x], n)
  <1> DEFINE c == ctx[x]
             n == Len(results[x]) + 1
  <1>1. n \in 1..6 /\ results[x] \in Seq(Verdict)
    BY LenProperties DEF TypeOK
  <1>2. /\ c \in Contexts
        /\ \A i \in 1..n - 1 : results[x][i] = Abstract!Results(policy, c)[i]
        /\ stopped[x] <=> ~Abstract!Reached(policy, c, n)
        /\ response[x] = IF \E i \in 1..n - 1 : results[x][i] = "mask"
                         THEN Masked(c.response) ELSE c.response
        /\ stopped[x] \in BOOLEAN
    BY <1>1 DEF JourneyInv, TypeOK
  <1> HIDE DEF n, c
  <1>3. Abstract!GateVerdict(policy, c, n) = Evaluate(GATES[n], policy, c, c.response)
    BY <1>1, JourneySteps
  <1>4. CASE \A i \in 1..n - 1 : results[x][i] # "mask"
    BY <1>1, <1>2, <1>3, <1>4 DEF n, c
  <1>5. CASE \E i \in 1..n - 1 : results[x][i] = "mask"
    <2>1. PICK i \in 1..n - 1 : results[x][i] = "mask"
      BY <1>5
    <2>2. i \in 1..6 /\ Abstract!Results(policy, c)[i] = "mask"
      BY <1>1, <1>2, <2>1
    <2>3. Evaluate(GATES[i], policy, c, c.response) = "mask"
      BY <2>2, JourneySteps
    <2>4. i = 5 /\ n = 6
      BY <1>1, <2>2, <2>3, GateVerdicts
    <2>5. c.response # NoResponse /\ Masked(c.response) # NoResponse
      BY <1>2, <2>3, <2>4, MaskedResponse
    <2>6. response[x] = Masked(c.response)
      BY <1>2, <1>5
    <2>7. Evaluate(GATES[n], policy, c, response[x])
          = Evaluate(GATES[n], policy, c, c.response)
      BY <1>1, <2>4, <2>5, <2>6, GateInputs
    <2>8. QED BY <1>1, <1>2, <1>3, <2>7 DEF n, c
  <1>6. QED BY <1>4, <1>5

\* What a call returns is the abstract decision.
LEMMA DecidedIsDecision ==
  ASSUME TypeOK, JourneyInv, NEW x \in Txns, pc[x] = "gates", Len(results[x]) = 6
  PROVE  /\ Decided(x) = Abstract!Decision(policy, ctx[x])
         /\ Decided(x) \in Decisions
  <1> DEFINE c == ctx[x]
             rs == results[x]
  <1>1. /\ rs \in Seq(Verdict) /\ DOMAIN rs = 1..6
        /\ rs \in [1..6 -> Verdict]
    BY LenProperties DEF TypeOK
  <1>2. \A i \in 1..6 : rs[i] = Abstract!Results(policy, c)[i]
    BY DEF JourneyInv
  <1>3. rs = Abstract!Results(policy, c)
    BY <1>1, <1>2 DEF Abstract!Results
  <1>4. MaxSeverity(rs) = Abstract!Worst(Abstract!Verdicts(rs))
    BY <1>1, SameVerdict
  <1>5. response[x] = IF \E i \in 1..6 : rs[i] = "mask"
                      THEN Masked(c.response) ELSE c.response
    BY DEF JourneyInv
  <1>6. Decided(x) = Abstract!Decision(policy, c)
    BY <1>3, <1>4, <1>5 DEF Decided, Abstract!Decision, Abstract!NoResponse, NoResponse,
       Abstract!Masked, Masked
  <1>7. MaxSeverity(rs) \in Verdict
    <2>1. rs[1] # "not_run" /\ rs[1] \in Abstract!Verdicts(rs)
      BY <1>1, <1>2, JourneySteps DEF Abstract!Verdicts
    <2>2. Abstract!Verdicts(rs) \in SUBSET (Verdict \ {"not_run"})
      BY <1>1 DEF Abstract!Verdicts
    <2>3. QED BY <1>4, <2>1, <2>2, WorstIsOne
  <1>8. /\ response[x] \in Responses /\ NoResponse \in Responses
        /\ c \in Contexts
    BY DEF TypeOK, Responses, JourneyInv
  <1>9. {item.source : item \in c.retrieved}
        \in SUBSET {item.source : item \in UNION {d.retrieved : d \in Contexts}}
    BY <1>8
  <1>10. Decided(x) \in Decisions
    BY <1>1, <1>7, <1>8, <1>9 DEF Decided, Decisions
  <1>11. QED BY <1>6, <1>10

-----------------------------------------------------------------------------
(* Typing.                                                                 *)

LEMMA InitTyped == Init => TypeOK
  <1>1. << >> \in Seq(Verdict) /\ << >> \in Seq(LedgerEvents) /\ Len(<< >>) = 0
    BY EmptySeq
  <1>2. QED BY <1>1, EngineAssumption DEF Init, TypeOK, Responses

LEMMA OneMoreFault ==
  ASSUME NEW n \in 0..MaxFaults, n < MaxFaults
  PROVE  n + 1 \in 0..MaxFaults
  BY EngineAssumption

\* A recorded event leaves the ledger a sequence of events.
LEMMA RecordTyped ==
  ASSUME TypeOK, NEW x \in Txns,
         NEW e \in {"transaction_started", "gate_evaluated", "transaction_decided"},
         NEW w \in Verdict \union {""}
  PROVE  /\ Record(x, e, w) => ledger' \in Seq(LedgerEvents) /\ faults' \in 0..MaxFaults
         /\ RecordRaises(x, e, w) => /\ ledger' \in Seq(LedgerEvents)
                                     /\ faults' \in 0..MaxFaults
                                     /\ pc' = [pc EXCEPT ![x] = "raised"]
                                     /\ outcome' = [outcome EXCEPT ![x] = Raised]
  <1>1. [txn |-> x, event |-> e, what |-> w] \in LedgerEvents
    BY DEF LedgerEvents
  <1>2. ledger \in Seq(LedgerEvents) /\ faults \in 0..MaxFaults
    BY DEF TypeOK
  <1>3. Append(ledger, [txn |-> x, event |-> e, what |-> w]) \in Seq(LedgerEvents)
    BY <1>1, <1>2, AppendProperties
  <1>4. faults < MaxFaults => faults + 1 \in 0..MaxFaults
    BY <1>2, OneMoreFault
  <1>5. ASSUME Record(x, e, w) PROVE ledger' \in Seq(LedgerEvents) /\ faults' \in 0..MaxFaults
    <2>1. faults' = faults
      BY <1>5 DEF Record
    <2>2. QED BY <1>2, <1>3, <1>5, <2>1 DEF Record
  <1>6. ASSUME RecordRaises(x, e, w)
        PROVE  /\ ledger' \in Seq(LedgerEvents) /\ faults' \in 0..MaxFaults
               /\ pc' = [pc EXCEPT ![x] = "raised"]
               /\ outcome' = [outcome EXCEPT ![x] = Raised]
    <2>1. faults' \in 0..MaxFaults
      BY <1>4, <1>6 DEF RecordRaises
    <2>2. QED BY <1>3, <1>6, <2>1 DEF RecordRaises
  <1>7. QED BY <1>5, <1>6

LEMMA StepTyped ==
  ASSUME TypeOK, JourneyInv, NEW x \in Txns, evaluate(x)
  PROVE  TypeOK'
  <1>1. CASE Submit(x)
    <2>1. PICK c \in Contexts : /\ ctx' = [ctx EXCEPT ![x] = c]
                               /\ response' = [response EXCEPT ![x] = c.response]
      BY <1>1 DEF Submit
    <2>2. c.response \in Responses
      BY DEF Responses
    <2>3. /\ ledger' \in Seq(LedgerEvents) /\ faults' \in 0..MaxFaults
          /\ pc' \in {[pc EXCEPT ![x] = "gates"], [pc EXCEPT ![x] = "raised"]}
          /\ outcome' \in {outcome, [outcome EXCEPT ![x] = Raised]}
      BY <1>1, RecordTyped DEF Submit
    <2>4. UNCHANGED <<policy, results, stopped>>
      BY <1>1 DEF Submit
    <2>5. QED BY <2>1, <2>2, <2>3, <2>4 DEF TypeOK
  <1>2. CASE RunGate(x)
    <2> DEFINE verdict == Evaluate(GATES[Len(results[x]) + 1], policy, ctx[x], response[x])
    <2>1. /\ pc[x] = "gates" /\ Len(results[x]) < 6 /\ ~stopped[x]
          /\ results' = [results EXCEPT ![x] = Append(@, verdict)]
          /\ UNCHANGED <<policy, ctx>>
          /\ \/ /\ Record(x, "gate_evaluated", verdict)
                /\ stopped' = [stopped EXCEPT ![x] = StopHere(verdict)]
                /\ response' = [response EXCEPT ![x] =
                     IF ~StopHere(verdict) /\ verdict = "mask" THEN Masked(@) ELSE @]
                /\ UNCHANGED <<pc, outcome>>
             \/ /\ RecordRaises(x, "gate_evaluated", verdict)
                /\ UNCHANGED <<stopped, response>>
      BY <1>2 DEF RunGate
    <2>2. Len(results[x]) + 1 \in 1..6 /\ results[x] \in Seq(Verdict)
      BY <2>1, LenProperties DEF TypeOK
    <2>3. verdict \in Verdict
      BY <2>2, GateVerdicts
    <2> HIDE DEF verdict
    <2>4. Append(results[x], verdict) \in Seq(Verdict) /\ Len(Append(results[x], verdict)) <= 6
      BY <2>2, <2>3, AppendProperties, LenProperties
    <2>5. results' \in [Txns -> Seq(Verdict)] /\ \A y \in Txns : Len(results'[y]) <= 6
      BY <2>1, <2>4 DEF TypeOK
    <2>6. ledger' \in Seq(LedgerEvents) /\ faults' \in 0..MaxFaults
      BY <2>1, <2>3, RecordTyped
    <2>7. /\ pc' \in [Txns -> {"new", "gates", "done", "raised"}]
          /\ outcome' \in [Txns -> Decisions \union {Undecided, Raised}]
      BY <2>1, <2>3, RecordTyped DEF TypeOK
    <2>8. stopped' \in [Txns -> BOOLEAN]
      <3>1. StopHere(verdict) \in BOOLEAN
        BY DEF StopHere
      <3>2. QED BY <2>1, <3>1 DEF TypeOK
    <2>9. response' \in [Txns -> Responses]
      <3>1. CASE ~StopHere(verdict) /\ verdict = "mask"
        <4>1. Masked(response[x]) \in Responses
          <5>1. response[x] \in {ctx[x].response, Masked(ctx[x].response)} /\ ctx[x] \in Contexts
            BY <2>1 DEF JourneyInv
          <5>2. Len(results[x]) + 1 = 5
            BY <2>2, <3>1, GateVerdicts DEF verdict
          <5>3. \A i \in 1..Len(results[x]) : results[x][i] # "mask"
            <6>1. \A i \in 1..Len(results[x]) :
                    i \in 1..4 /\ results[x][i] = Abstract!Results(policy, ctx[x])[i]
              BY <2>1, <2>2, <5>2 DEF JourneyInv
            <6>2. QED BY <6>1, JourneySteps, GateVerdicts
          <5>4. response[x] = ctx[x].response
            BY <2>1, <5>3 DEF JourneyInv
          <5>5. QED BY <5>1, <5>4 DEF Responses
        <4>2. QED BY <2>1, <3>1, <4>1 DEF TypeOK
      <3>2. CASE ~(~StopHere(verdict) /\ verdict = "mask")
        BY <2>1, <3>2 DEF TypeOK
      <3>3. QED BY <3>1, <3>2
    <2>10. policy' \in Policies /\ ctx' \in [Txns -> Contexts \union {NoContext}]
      BY <2>1 DEF TypeOK
    <2>11. QED BY <2>5, <2>6, <2>7, <2>8, <2>9, <2>10 DEF TypeOK
  <1>3. CASE SkipGate(x)
    <2>1. results[x] \in Seq(Verdict) /\ Len(results[x]) < 6 /\ "not_run" \in Verdict
      BY <1>3 DEF SkipGate, TypeOK, Verdict
    <2>2. /\ Append(results[x], "not_run") \in Seq(Verdict)
          /\ Len(Append(results[x], "not_run")) <= 6
      BY <2>1, AppendProperties, LenProperties
    <2>3. QED BY <1>3, <2>2 DEF SkipGate, TypeOK
  <1>4. CASE Decide(x)
    <2>1. Decided(x) \in Decisions
      BY <1>4, DecidedIsDecision DEF Decide
    <2>2. Decided(x).verdict \in Verdict
      BY <2>1 DEF Decisions
    <2>3. ledger' \in Seq(LedgerEvents) /\ faults' \in 0..MaxFaults
      BY <1>4, <2>2, RecordTyped DEF Decide
    <2>4. /\ pc' \in {[pc EXCEPT ![x] = "done"], [pc EXCEPT ![x] = "raised"]}
          /\ outcome' \in {[outcome EXCEPT ![x] = Decided(x)], [outcome EXCEPT ![x] = Raised]}
          /\ UNCHANGED <<policy, ctx, results, stopped, response>>
      BY <1>4, <2>2, RecordTyped DEF Decide
    <2> HIDE DEF Decided
    <2>5. QED BY <2>1, <2>3, <2>4 DEF TypeOK
  <1>5. QED BY <1>1, <1>2, <1>3, <1>4 DEF evaluate

-----------------------------------------------------------------------------
(* The inductive invariant.                                                *)

\* What JourneyInv says of one transaction.
JourneyOf(x) ==
  LET c == ctx[x]
      n == Len(results[x])
  IN  /\ pc[x] = "new" =>
           c = NoContext /\ results[x] = << >> /\ ~stopped[x] /\ outcome[x] = Undecided
      /\ pc[x] # "new" =>
           /\ c \in Contexts
           /\ \A i \in 1..n : results[x][i] = Abstract!Results(policy, c)[i]
      /\ pc[x] \in {"gates", "done"} =>
           /\ stopped[x] <=> ~Abstract!Reached(policy, c, n + 1)
           /\ response[x] = IF \E i \in 1..n : results[x][i] = "mask"
                            THEN Masked(c.response) ELSE c.response
      /\ pc[x] = "gates" => outcome[x] = Undecided
      /\ pc[x] = "done" => outcome[x] = Abstract!Decision(policy, c)
      /\ pc[x] = "raised" => outcome[x] = Raised

LEMMA JourneyParts == JourneyInv <=> \A x \in Txns : JourneyOf(x)
  BY DEF JourneyInv, JourneyOf

\* The other transactions are left alone.
LEMMA OthersKept ==
  ASSUME TypeOK, NEW x \in Txns, evaluate(x), NEW y \in Txns, y # x, JourneyOf(y)
  PROVE  JourneyOf(y)'
  <1>1. /\ policy' = policy /\ ctx'[y] = ctx[y] /\ pc'[y] = pc[y]
        /\ results'[y] = results[y] /\ stopped'[y] = stopped[y]
        /\ response'[y] = response[y] /\ outcome'[y] = outcome[y]
    <2>1. CASE Submit(x)
      BY <2>1 DEF Submit, Record, RecordRaises, TypeOK
    <2>2. CASE RunGate(x)
      BY <2>2 DEF RunGate, Record, RecordRaises, TypeOK
    <2>3. CASE SkipGate(x)
      BY <2>3 DEF SkipGate, TypeOK
    <2>4. CASE Decide(x)
      BY <2>4 DEF Decide, Record, RecordRaises, TypeOK
    <2>5. QED BY <2>1, <2>2, <2>3, <2>4 DEF evaluate
  <1>2. QED BY <1>1 DEF JourneyOf

LEMMA SubmitKeeps ==
  ASSUME TypeOK, NEW x \in Txns, Submit(x), JourneyOf(x)
  PROVE  JourneyOf(x)'
  <1>1. PICK c \in Contexts : /\ ctx' = [ctx EXCEPT ![x] = c]
                             /\ response' = [response EXCEPT ![x] = c.response]
    BY DEF Submit
  <1>2. /\ pc[x] = "new" /\ results[x] = << >> /\ ~stopped[x] /\ outcome[x] = Undecided
    BY DEF Submit, JourneyOf
  <1>3. /\ ctx'[x] = c /\ response'[x] = c.response
        /\ policy' = policy /\ results' = results /\ stopped' = stopped
        /\ \/ pc'[x] = "gates" /\ outcome' = outcome
           \/ pc'[x] = "raised" /\ outcome'[x] = Raised
    BY <1>1 DEF Submit, Record, RecordRaises, TypeOK
  <1>4. Len(results'[x]) = 0 /\ 1..0 = {}
    BY <1>2, <1>3, EmptySeq
  <1>5. Abstract!Reached(policy', c, 0 + 1)
    BY JourneySteps
  <1>6. QED BY <1>2, <1>3, <1>4, <1>5 DEF JourneyOf

LEMMA SkipGateKeeps ==
  ASSUME TypeOK, JourneyInv, NEW x \in Txns, SkipGate(x)
  PROVE  JourneyOf(x)'
  <1> DEFINE c == ctx[x]
             n == Len(results[x]) + 1
  <1>1. JourneyOf(x)
    BY JourneyParts
  <1>2. /\ pc[x] = "gates" /\ stopped[x] /\ n \in 1..6 /\ results[x] \in Seq(Verdict)
        /\ c \in Contexts /\ ~Abstract!Reached(policy, c, n)
    BY NextGate, LenProperties DEF SkipGate, TypeOK
  <1>3. /\ results'[x] = Append(results[x], "not_run")
        /\ UNCHANGED <<policy, ctx, pc, stopped, response, outcome>>
    BY DEF SkipGate, TypeOK
  <1>4. /\ Len(results'[x]) = n /\ results'[x][n] = "not_run"
        /\ \A i \in 1..n - 1 : results'[x][i] = results[x][i]
    BY <1>2, <1>3, AppendProperties, LenProperties
  <1>5. Abstract!Results(policy, c)[n] = "not_run" /\ ~Abstract!Reached(policy, c, n + 1)
    BY <1>2, JourneySteps
  <1> HIDE DEF n
  <1>6. \A i \in 1..n - 1 : results[x][i] = Abstract!Results(policy, c)[i]
    BY <1>1, <1>2 DEF JourneyOf, n
  <1>7. \A i \in 1..n : results'[x][i] = Abstract!Results(policy, c)[i]
    BY <1>2, <1>4, <1>5, <1>6
  <1>8. (\E i \in 1..n : results'[x][i] = "mask") <=> (\E i \in 1..n - 1 : results[x][i] = "mask")
    BY <1>2, <1>4
  <1>9. response[x] = IF \E i \in 1..n - 1 : results[x][i] = "mask"
                      THEN Masked(c.response) ELSE c.response
    BY <1>1, <1>2 DEF JourneyOf, n
  <1>10. outcome[x] = Undecided
    BY <1>1, <1>2 DEF JourneyOf
  <1>11. QED BY <1>2, <1>3, <1>4, <1>5, <1>7, <1>8, <1>9, <1>10 DEF JourneyOf

LEMMA DecideKeeps ==
  ASSUME TypeOK, JourneyInv, NEW x \in Txns, Decide(x)
  PROVE  JourneyOf(x)'
  <1>1. JourneyOf(x)
    BY JourneyParts
  <1>2. /\ pc[x] = "gates" /\ Decided(x) = Abstract!Decision(policy, ctx[x])
        /\ UNCHANGED <<policy, ctx, results, stopped, response>>
    BY DecidedIsDecision DEF Decide
  <1>3. \/ pc'[x] = "done" /\ outcome'[x] = Decided(x)
        \/ pc'[x] = "raised" /\ outcome'[x] = Raised
    BY DEF Decide, Record, RecordRaises, TypeOK
  <1>4. QED BY <1>1, <1>2, <1>3 DEF JourneyOf

LEMMA RunGateKeeps ==
  ASSUME TypeOK, JourneyInv, NEW x \in Txns, RunGate(x)
  PROVE  JourneyOf(x)'
  <1> DEFINE c == ctx[x]
             n == Len(results[x]) + 1
             verdict == Evaluate(GATES[n], policy, c, response[x])
  <1>1. JourneyOf(x)
    BY JourneyParts
  <1>2. /\ pc[x] = "gates" /\ ~stopped[x] /\ n \in 1..6 /\ results[x] \in Seq(Verdict)
        /\ c \in Contexts /\ Abstract!Reached(policy, c, n)
        /\ verdict = Abstract!GateVerdict(policy, c, n)
    BY NextGate, LenProperties DEF RunGate, TypeOK
  <1>3. /\ results'[x] = Append(results[x], verdict)
        /\ UNCHANGED <<policy, ctx>>
        /\ \/ /\ pc' = pc /\ outcome' = outcome /\ stopped'[x] = StopHere(verdict)
              /\ response'[x] = IF ~StopHere(verdict) /\ verdict = "mask"
                                THEN Masked(response[x]) ELSE response[x]
           \/ pc'[x] = "raised" /\ outcome'[x] = Raised
    BY DEF RunGate, Record, RecordRaises, TypeOK
  <1>4. verdict = Evaluate(GATES[n], policy, c, c.response)
    BY <1>2, JourneySteps
  <1>5. verdict \in Verdict /\ (verdict = "mask" => n = 5)
    BY <1>2, GateVerdicts
  <1> HIDE DEF verdict
  <1>6. /\ Len(results'[x]) = n /\ results'[x][n] = verdict
        /\ \A i \in 1..n - 1 : results'[x][i] = results[x][i]
    BY <1>2, <1>3, <1>5, AppendProperties, LenProperties
  <1>7. /\ Abstract!Results(policy, c)[n] = verdict
        /\ ~Abstract!Reached(policy, c, n + 1) <=> StopHere(verdict)
    BY <1>2, JourneySteps, SameStop
  <1>8. \A i \in 1..n - 1 : results[x][i] = Abstract!Results(policy, c)[i]
    BY <1>1, <1>2 DEF JourneyOf
  <1>9. response[x] = IF \E i \in 1..n - 1 : results[x][i] = "mask"
                      THEN Masked(c.response) ELSE c.response
    BY <1>1, <1>2 DEF JourneyOf
  <1> HIDE DEF n
  <1>10. \A i \in 1..n : results'[x][i] = Abstract!Results(policy, c)[i]
    BY <1>2, <1>6, <1>7, <1>8
  <1>11. verdict = "mask" => /\ ~StopHere(verdict)
                            /\ \A i \in 1..n - 1 : results[x][i] # "mask"
    <2>1. SUFFICES ASSUME verdict = "mask"
                   PROVE  /\ ~StopHere(verdict)
                          /\ \A i \in 1..n - 1 : results[x][i] # "mask"
      OBVIOUS
    <2>2. n = 5
      BY <1>5, <2>1
    <2>3. \A i \in 1..n - 1 : i \in 1..4 /\ results[x][i] = Abstract!Results(policy, c)[i]
      BY <1>8, <2>2
    <2>4. \A i \in 1..4 : Abstract!Results(policy, c)[i] # "mask"
      BY JourneySteps, GateVerdicts
    <2>5. QED BY <2>1, <2>3, <2>4 DEF StopHere
  <1>12. (\E i \in 1..n : results'[x][i] = "mask")
           <=> (verdict = "mask" \/ \E i \in 1..n - 1 : results[x][i] = "mask")
    <2>1. n \in 1..n /\ n - 1 \in 0..5 /\ \A i \in 1..n : i = n \/ i \in 1..n - 1
      BY <1>2
    <2>2. \A i \in 1..n - 1 : i \in 1..n
      BY <1>2
    <2>3. results'[x][n] = verdict /\ \A i \in 1..n - 1 : results'[x][i] = results[x][i]
      BY <1>6
    <2>4. QED BY <2>1, <2>2, <2>3
  <1>13. CASE pc'[x] = "raised"
    BY <1>1, <1>2, <1>3, <1>6, <1>10, <1>13 DEF JourneyOf
  <1>14. CASE pc' = pc
    <2>1. /\ outcome'[x] = Undecided /\ stopped'[x] = StopHere(verdict) /\ pc'[x] = "gates"
          /\ response'[x] = IF ~StopHere(verdict) /\ verdict = "mask"
                             THEN Masked(response[x]) ELSE response[x]
      BY <1>1, <1>2, <1>3, <1>14 DEF JourneyOf
    <2>2. response'[x] = IF \E i \in 1..n : results'[x][i] = "mask"
                         THEN Masked(c.response) ELSE c.response
      BY <1>9, <1>11, <1>12, <2>1
    <2>3. QED BY <1>2, <1>3, <1>6, <1>7, <1>10, <2>1, <2>2 DEF JourneyOf
  <1>15. QED BY <1>3, <1>13, <1>14

\* Every step of a call keeps the invariant, its own part and the others'.
LEMMA StepKeeps ==
  ASSUME TypeOK, JourneyInv, [Next]_vars
  PROVE  TypeOK' /\ JourneyInv'
  <1>1. CASE UNCHANGED vars
    BY <1>1 DEF vars, TypeOK, JourneyInv
  <1>2. CASE Next
    <2>1. PICK x \in Txns : evaluate(x)
      BY <1>2 DEF Next
    <2>2. TypeOK'
      BY <2>1, StepTyped
    <2>3. JourneyOf(x)'
      BY <2>1, JourneyParts, SubmitKeeps, RunGateKeeps, SkipGateKeeps, DecideKeeps DEF evaluate
    <2>4. \A y \in Txns : JourneyOf(y)'
      BY <2>1, <2>3, JourneyParts, OthersKept
    <2>5. JourneyInv'
      BY <2>4 DEF JourneyInv, JourneyOf
    <2>6. QED BY <2>2, <2>5
  <1>3. QED BY <1>1, <1>2

\* Whatever the policies, contexts and faults, every variable of the engine
\* keeps its type.
THEOREM EngineTypeOK == Spec => []TypeOK
  <1>1. Init => TypeOK /\ JourneyInv
    BY InitTyped DEF Init, JourneyInv
  <1>2. TypeOK /\ JourneyInv /\ [Next]_vars => TypeOK' /\ JourneyInv'
    BY StepKeeps
  <1>3. QED BY <1>1, <1>2, PTL DEF Spec

\* At every point of every call the journey so far agrees with the decision
\* the policy and the context determine.
THEOREM EngineInvariant == Spec => [](TypeOK /\ JourneyInv)
  <1>1. Init => TypeOK /\ JourneyInv
    BY InitTyped DEF Init, JourneyInv
  <1>2. TypeOK /\ JourneyInv /\ [Next]_vars => TypeOK' /\ JourneyInv'
    BY StepKeeps
  <1>3. QED BY <1>1, <1>2, PTL DEF Spec

-----------------------------------------------------------------------------
(* The safety properties.                                                  *)

\* What a decided call returned is the abstract decision, and the journey is
\* as long as there are gates.
LEMMA DecidedOutcome ==
  ASSUME TypeOK, JourneyInv, NEW x \in Txns, IsDecided(x)
  PROVE  /\ outcome[x] = Abstract!Decision(policy, ctx[x])
         /\ ctx[x] \in Contexts /\ policy \in Policies
  BY DEF TypeOK, JourneyInv, IsDecided

\* A release means that every gate was reached and that the last one allowed;
\* under fail_closed no gate blocked or was left undecided.
LEMMA ReleasePassed ==
  ASSUME NEW p, NEW c, Abstract!Decision(p, c).released
  PROVE  /\ \A i \in 1..6 : /\ Abstract!Reached(p, c, i)
                            /\ Abstract!Results(p, c)[i] = Evaluate(GATES[i], p, c, c.response)
                            /\ Evaluate(GATES[i], p, c, c.response) # "block"
                            /\ p.fail_closed => Evaluate(GATES[i], p, c, c.response)
                                                  # "not_evidenced"
         /\ Evaluate(GATES[6], p, c, c.response) = "allow"
  <1> DEFINE V(i) == Abstract!GateVerdict(p, c, i)
             R(i) == Abstract!Reached(p, c, i)
  <1>1. Abstract!Results(p, c)[6] = "allow"
    BY DEF Abstract!Decision
  <1>2. R(6) /\ V(6) = "allow"
    BY <1>1, JourneySteps
  <1>3. \A i \in 1..5 : R(i + 1) => R(i) /\ ~Abstract!Stops(p, V(i))
    BY JourneySteps
  <1> HIDE DEF R
  <1>4. R(1) /\ R(2) /\ R(3) /\ R(4) /\ R(5)
    BY <1>2, <1>3
  <1>5. \A i \in 1..6 : R(i)
    BY <1>2, <1>4
  <1>6. \A i \in 1..5 : ~Abstract!Stops(p, V(i))
    BY <1>3, <1>5
  <1> HIDE DEF V
  <1>7. \A i \in 1..6 : V(i) # "block" /\ (p.fail_closed => V(i) # "not_evidenced")
    BY <1>2, <1>6 DEF Abstract!Stops
  <1>8. \A i \in 1..6 : V(i) = Evaluate(GATES[i], p, c, c.response)
    BY JourneySteps DEF V
  <1>9. \A i \in 1..6 : Abstract!Results(p, c)[i] = V(i)
    BY <1>5, JourneySteps DEF R, V
  <1>10. QED BY <1>2, <1>5, <1>7, <1>8, <1>9 DEF R

\* What a gate that neither blocks nor is left undecided has established.
LEMMA GatesEstablish ==
  ASSUME NEW p, NEW c,
         \A i \in 1..5 : Evaluate(GATES[i], p, c, c.response) \notin {"block", "not_evidenced"}
  PROVE  Established(p, c)
  <1> DEFINE r == p.residency
             ent == effective_entitlement(p, c.principal.entitlement_keys)
  <1>1. IdentityGate(p, c) \notin {"block", "not_evidenced"}
    BY DEF Evaluate, GATES
  <1>2. EntitlementGate(p, c) \notin {"block", "not_evidenced"}
    BY DEF Evaluate, GATES
  <1>3. SourceAuthorizationGate(p, c) \notin {"block", "not_evidenced"}
    BY DEF Evaluate, GATES
  <1>4. PreInferenceGate(p, c) \notin {"block", "not_evidenced"}
    BY DEF Evaluate, GATES
  <1>5. OutputProtectionGate(p, c, c.response) \notin {"block", "not_evidenced"}
    BY DEF Evaluate, GATES
  <1>6. /\ p.identity.require_authentication => c.principal.authenticated
        /\ p.identity.require_mfa /\ c.principal.authenticated => c.principal.mfa
        /\ p.identity.require_delegated_identity => c.principal.delegated_identity
        /\ p.identity.allowed_channels # {} => c.principal.channel \in p.identity.allowed_channels
        /\ c.principal.entitlement_keys # {}
    BY <1>1 DEF IdentityGate, Ranked
  <1>7. /\ \A a \in c.requested_agents : permits(ent.agents, a)
        /\ \A t \in c.requested_tools : permits(ent.tools, t)
    BY <1>2 DEF EntitlementGate, Ranked
  <1>8. /\ \A s \in c.data_sources : permits(ent.sources, s)
        /\ \A item \in c.retrieved : /\ item.owner \in {"", c.principal.subject}
                                     /\ item.classification # "unknown"
    BY <1>3 DEF SourceAuthorizationGate, Ranked
  <1>9. /\ c.model # NoModel
        /\ r.approved_models # {} => c.model.name \in r.approved_models
        /\ r.approved_providers # {} => c.model.provider \in r.approved_providers \union {""}
        /\ ~c.prompt.injection
        /\ \A item \in c.retrieved : ~item.injection
        /\ r.require_prompt_redaction => c.prompt_redacted
        /\ c.model.region # ""
        /\ OutsideRegion(p, c) => r.allow_cross_border
    BY <1>4 DEF PreInferenceGate, Ranked
  <1>10. region_allowed(r, c.model.region) \/ r.allow_cross_border
    BY <1>9 DEF OutsideRegion
  <1>11. /\ \A item \in c.retrieved :
              item.classification \in p.dlp.block_classifications => item \notin c.response.repeats
         /\ c.response # NoResponse
         /\ p.dlp.block_on_secrets => ~c.response.secret
         /\ \A phrase \in p.dlp.blocked_phrases : phrase \notin c.response.phrases
         /\ p.dlp.max_records # 0 => ~(c.record_count > p.dlp.max_records)
    BY <1>5 DEF OutputProtectionGate
  <1>12. QED BY <1>6, <1>7, <1>8, <1>9, <1>10, <1>11 DEF Established

LEMMA StopsImplied ==
  ASSUME TypeOK, JourneyInv
  PROVE  JourneyStops
  <1>1. SUFFICES ASSUME NEW x \in Txns, NEW j \in 1..Len(results[x])
                 PROVE  results[x][j] = "not_run" <=> \E i \in 1..j - 1 : StopHere(results[x][i])
    BY DEF JourneyStops
  <1> DEFINE c == ctx[x]
  <1>2. j \in 1..6 /\ Len(results[x]) \in Nat /\ Len(results[x]) <= 6
    BY LenProperties DEF TypeOK
  <1>3. pc[x] # "new"
    BY EmptySeq DEF JourneyInv
  <1>4. \A i \in 1..j : i \in 1..6 /\ results[x][i] = Abstract!Results(policy, c)[i]
    BY <1>2, <1>3 DEF JourneyInv
  <1>5. results[x][j] = "not_run" <=> ~Abstract!Reached(policy, c, j)
    BY <1>2, <1>4, JourneySteps
  <1>6. ASSUME ~Abstract!Reached(policy, c, j)
        PROVE  \E i \in 1..j - 1 : StopHere(results[x][i])
    <2>1. PICK i \in 1..j - 1 : /\ Abstract!Reached(policy, c, i)
                               /\ Abstract!Stops(policy, Abstract!GateVerdict(policy, c, i))
      BY <1>2, <1>6, StopperRan
    <2>2. i \in 1..j
      BY <1>2, <2>1
    <2>3. results[x][i] = Abstract!GateVerdict(policy, c, i)
      BY <1>4, <2>1, <2>2, JourneySteps
    <2>4. QED BY <2>1, <2>3, SameStop
  <1>7. ASSUME NEW i \in 1..j - 1, StopHere(results[x][i])
        PROVE  ~Abstract!Reached(policy, c, j)
    <2>1. i \in 1..6 /\ results[x][i] = Abstract!Results(policy, c)[i]
      BY <1>2, <1>4
    <2>2. results[x][i] # "not_run"
      BY <1>7 DEF StopHere
    <2>3. Abstract!Stops(policy, Abstract!GateVerdict(policy, c, i))
      BY <1>7, <2>1, <2>2, JourneySteps, SameStop
    <2>4. QED BY <2>3 DEF Abstract!Reached
  <1>8. QED BY <1>5, <1>6, <1>7

LEMMA EstablishedImplied ==
  ASSUME TypeOK, JourneyInv
  PROVE  ReleaseEstablished
  <1>1. SUFFICES ASSUME NEW x \in Txns, policy.fail_closed, IsDecided(x), outcome[x].released
                 PROVE  Established(policy, ctx[x])
    BY DEF ReleaseEstablished
  <1>2. Abstract!Decision(policy, ctx[x]).released
    BY <1>1, DecidedOutcome
  <1>3. \A i \in 1..5 : Evaluate(GATES[i], policy, ctx[x], ctx[x].response)
                         \notin {"block", "not_evidenced"}
    BY <1>1, <1>2, ReleasePassed
  <1>4. QED BY <1>3, GatesEstablish

\* A class ranked at least confidential is hidden from the residency check
\* only by an item without a label.
LEMMA ClassifiedRank ==
  ASSUME NEW retrieved, NEW item \in retrieved,
         item.classification \in {"confidential", "restricted"},
         \A other \in retrieved :
           other.classification \in {"public", "internal", "confidential", "restricted"}
  PROVE  Highest(retrieved) \in {"confidential", "restricted"}
  <1> DEFINE classes == {other.classification : other \in retrieved} \union {"public"}
             Top(c) == \A d \in classes : CLASSIFICATION_RANK[d] <= CLASSIFICATION_RANK[c]
             rank == CLASSIFICATION_RANK
  <1>1. rank["public"] = 0 /\ rank["internal"] = 1 /\ rank["confidential"] = 2
        /\ rank["restricted"] = 3
    BY DEF CLASSIFICATION_RANK
  <1>2. classes \subseteq {"public", "internal", "confidential", "restricted"}
        /\ item.classification \in classes
    OBVIOUS
  <1>3. Highest(retrieved) = CHOOSE c \in classes : Top(c)
    BY DEF Highest
  <1> HIDE DEF classes
  <1>4. \E c \in classes : Top(c)
    <2>1. CASE "restricted" \in classes
      BY <1>1, <1>2, <2>1
    <2>2. CASE "restricted" \notin classes
      BY <1>1, <1>2, <2>2
    <2>3. QED BY <2>1, <2>2
  <1>5. Highest(retrieved) \in classes /\ Top(Highest(retrieved))
    <2> HIDE DEF Top
    <2>1. QED BY <1>3, <1>4
  <1>6. PICK h \in classes : h = Highest(retrieved) /\ rank[item.classification] <= rank[h]
    BY <1>2, <1>5
  <1>7. h \in {"public", "internal", "confidential", "restricted"}
    BY <1>2, <1>6
  <1>8. rank[item.classification] >= 2
    BY <1>1
  <1> HIDE DEF rank
  <1>9. h \notin {"public", "internal"}
    BY <1>1, <1>2, <1>6, <1>8
  <1>10. QED BY <1>6, <1>7, <1>9

LEMMA ClassifiedImplied ==
  ASSUME TypeOK, JourneyInv
  PROVE  ClassifiedStaysHome
  <1>1. SUFFICES ASSUME NEW x \in Txns, policy.fail_closed, IsDecided(x), outcome[x].released,
                        {"confidential", "restricted"}
                          \subseteq policy.residency.block_classifications_cross_border,
                        NEW item \in ctx[x].retrieved,
                        item.classification \in {"confidential", "restricted"}
                 PROVE  region_allowed(policy.residency, ctx[x].model.region)
    BY DEF ClassifiedStaysHome
  <1> DEFINE c == ctx[x]
  <1>2. Abstract!Decision(policy, c).released /\ c \in Contexts
    BY <1>1, DecidedOutcome
  <1>3. \A i \in 1..5 : Evaluate(GATES[i], policy, c, c.response) \notin {"block", "not_evidenced"}
    BY <1>1, <1>2, ReleasePassed
  <1>4. Established(policy, c)
    BY <1>3, GatesEstablish
  <1>5. \A other \in c.retrieved :
          other.classification \in {"public", "internal", "confidential", "restricted"}
    BY <1>2, <1>4, EngineAssumption DEF Established
  <1>6. Highest(c.retrieved) \in {"confidential", "restricted"}
    BY <1>1, <1>5, ClassifiedRank
  <1>7. Highest(c.retrieved) \in policy.residency.block_classifications_cross_border
    BY <1>1, <1>6
  <1>8. PreInferenceGate(policy, c) \notin {"block", "not_evidenced"}
    BY <1>3 DEF Evaluate, GATES
  <1>9. ~OutsideRegion(policy, c) /\ c.model.region # ""
    BY <1>7, <1>8 DEF PreInferenceGate, Ranked
  <1>10. QED BY <1>9 DEF OutsideRegion

\* The verdict of a decision is that of a gate that ran, and no gate that ran
\* did worse.
LEMMA DecisionVerdict ==
  ASSUME NEW p, NEW c
  PROVE  LET d == Abstract!Decision(p, c)
         IN  /\ \E i \in 1..6 : Abstract!Results(p, c)[i] = d.verdict
             /\ d.verdict \in Verdict \ {"not_run"}
             /\ \A i \in 1..6 : Abstract!Results(p, c)[i] # "not_run" =>
                  Abstract!SEVERITY[Abstract!Results(p, c)[i]] <= Abstract!SEVERITY[d.verdict]
  <1> DEFINE rs == Abstract!Results(p, c)
             V  == Abstract!Verdicts(rs)
  <1>1. DOMAIN rs = 1..6
    BY DEF Abstract!Results
  <1>2. \A i \in 1..6 : rs[i] \in Verdict
    <2>1. "not_run" \in Verdict
      BY DEF Verdict
    <2>2. QED BY <2>1, JourneySteps
  <1>3. V = {rs[i] : i \in 1..6} \ {"not_run"}
    BY <1>1 DEF Abstract!Verdicts
  <1>4. rs[1] # "not_run"
    BY JourneySteps
  <1> HIDE DEF rs
  <1>5. V \in SUBSET (Verdict \ {"not_run"}) /\ V # {}
    BY <1>2, <1>3, <1>4
  <1> HIDE DEF V
  <1>6. Abstract!Worst(V) \in V /\ \A w \in V : Abstract!SEVERITY[w] <= Abstract!SEVERITY[Abstract!Worst(V)]
    BY <1>5, WorstIsOne
  <1>7. Abstract!Decision(p, c).verdict = Abstract!Worst(V)
    BY DEF Abstract!Decision, V, rs
  <1>8. QED BY <1>3, <1>5, <1>6, <1>7 DEF rs

LEMMA AllowedImplied ==
  ASSUME TypeOK, JourneyInv
  PROVE  AllowedIffReleased
  <1>1. SUFFICES ASSUME NEW x \in Txns, policy.fail_closed, IsDecided(x)
                 PROVE  outcome[x].released <=> outcome[x].verdict \in {"allow", "warn", "mask"}
    BY DEF AllowedIffReleased
  <1> DEFINE c == ctx[x]
             d == Abstract!Decision(policy, c)
             rs == Abstract!Results(policy, c)
  <1>2. outcome[x] = d
    BY <1>1, DecidedOutcome
  <1>3. ASSUME d.released PROVE d.verdict \in {"allow", "warn", "mask"}
    <2>1. \A i \in 1..6 : rs[i] \notin {"block", "not_evidenced"}
      BY <1>1, <1>3, ReleasePassed
    <2>2. QED BY <2>1, DecisionVerdict DEF Verdict
  <1>4. ASSUME d.verdict \in {"allow", "warn", "mask"} PROVE d.released
    <2> DEFINE R(i) == Abstract!Reached(policy, c, i)
               V(i) == Abstract!GateVerdict(policy, c, i)
    <2>1. /\ Abstract!SEVERITY[d.verdict] <= 2
          /\ Abstract!SEVERITY["block"] = 4 /\ Abstract!SEVERITY["not_evidenced"] = 3
      BY <1>4 DEF Abstract!SEVERITY
    <2>2. \A i \in 1..6 : rs[i] # "block" /\ rs[i] # "not_evidenced"
      <3>1. SUFFICES ASSUME NEW i \in 1..6, rs[i] \in {"block", "not_evidenced"} PROVE FALSE
        OBVIOUS
      <3>2. Abstract!SEVERITY[rs[i]] <= Abstract!SEVERITY[d.verdict]
        BY <3>1, DecisionVerdict
      <3>3. Abstract!SEVERITY[d.verdict] \in {0, 1, 2}
        BY <1>4 DEF Abstract!SEVERITY
      <3>4. Abstract!SEVERITY[rs[i]] \in {3, 4}
        BY <2>1, <3>1
      <3>5. QED BY <3>2, <3>3, <3>4
    <2>3. \A i \in 1..6 : R(i) => V(i) # "block" /\ V(i) # "not_evidenced" /\ rs[i] = V(i)
      BY <2>2, JourneySteps
    <2>4. R(1) /\ \A i \in 1..5 : R(i) => R(i + 1)
      BY <2>3, JourneySteps DEF Abstract!Stops
    <2> HIDE DEF R
    <2>5. R(2) /\ R(3) /\ R(4) /\ R(5) /\ R(6)
      BY <2>4
    <2>6. rs[6] = Evaluate(GATES[6], policy, c, c.response) /\ rs[6] # "not_evidenced"
      BY <2>3, <2>5, JourneySteps
    <2>7. Evaluate(GATES[6], policy, c, c.response) \in {"not_evidenced", "allow"}
      BY DEF Evaluate, GATES, ReleaseGate
    <2>8. rs[6] = "allow"
      BY <2>6, <2>7
    <2>9. QED BY <2>8 DEF Abstract!Decision
  <1>5. QED BY <1>2, <1>3, <1>4

LEMMA MaskImplied ==
  ASSUME TypeOK, JourneyInv
  PROVE  MaskHolds
  <1>1. SUFFICES ASSUME NEW x \in Txns, IsDecided(x)
                 PROVE  /\ outcome[x].released /\ policy.dlp.mask_pii => ~outcome[x].response.pii
                        /\ outcome[x].masked => outcome[x].verdict \notin {"allow", "warn"}
    BY DEF MaskHolds
  <1> DEFINE c == ctx[x]
             d == Abstract!Decision(policy, c)
             rs == Abstract!Results(policy, c)
  <1>2. outcome[x] = d /\ c \in Contexts
    BY <1>1, DecidedOutcome
  <1>3. ASSUME d.released, policy.dlp.mask_pii PROVE ~d.response.pii
    <2>1. /\ \A i \in 1..6 : rs[i] = Evaluate(GATES[i], policy, c, c.response) /\ rs[i] # "block"
          /\ Evaluate(GATES[6], policy, c, c.response) = "allow"
      BY <1>3, ReleasePassed
    <2>2. c.response # NoResponse
      BY <2>1 DEF Evaluate, GATES, ReleaseGate
    <2>3. "pii" \in DOMAIN c.response
      BY <1>2, <2>2, EngineAssumption
    <2>4. rs[5] = OutputProtectionGate(policy, c, c.response) /\ rs[5] # "block"
      BY <2>1 DEF Evaluate, GATES
    <2>5. rs[5] = IF policy.dlp.mask_pii /\ c.response.pii THEN "mask" ELSE "allow"
      BY <2>2, <2>4 DEF OutputProtectionGate
    <2>6. d.masked <=> c.response.pii
      <3>1. d.masked <=> \E i \in 1..6 : rs[i] = "mask"
        BY DEF Abstract!Decision
      <3>2. \A i \in 1..6 : rs[i] = "mask" => i = 5
        BY <2>1, GateVerdicts
      <3>3. QED BY <1>3, <2>5, <3>1, <3>2
    <2>7. d.response = IF d.masked THEN Abstract!Masked(c.response) ELSE c.response
      BY <1>3 DEF Abstract!Decision
    <2>8. Abstract!Masked(c.response)["pii"] = FALSE
      BY <2>3 DEF Abstract!Masked
    <2>9. QED BY <2>6, <2>7, <2>8
  <1>4. ASSUME d.masked PROVE d.verdict \notin {"allow", "warn"}
    <2>1. PICK i \in 1..6 : rs[i] = "mask"
      BY <1>4 DEF Abstract!Decision
    <2>2. Abstract!SEVERITY["mask"] <= Abstract!SEVERITY[d.verdict]
      BY <2>1, DecisionVerdict
    <2>3. QED BY <2>2 DEF Abstract!SEVERITY
  <1>5. QED BY <1>2, <1>3, <1>4

\* A gate reads four sections of the policy; whether the policy fails closed
\* is not in any of them.
LEMMA GatesReadSections ==
  ASSUME NEW p, NEW q, NEW c, NEW r, NEW i \in 1..6,
         q.identity = p.identity, q.entitlements = p.entitlements,
         q.residency = p.residency, q.dlp = p.dlp
  PROVE  Evaluate(GATES[i], q, c, r) = Evaluate(GATES[i], p, c, r)
  <1>1. effective_entitlement(q, c.principal.entitlement_keys)
          = effective_entitlement(p, c.principal.entitlement_keys)
    BY DEF effective_entitlement
  <1>2. IdentityGate(q, c) = IdentityGate(p, c)
    BY DEF IdentityGate
  <1>3. EntitlementGate(q, c) = EntitlementGate(p, c)
    BY <1>1 DEF EntitlementGate
  <1>4. SourceAuthorizationGate(q, c) = SourceAuthorizationGate(p, c)
    BY <1>1 DEF SourceAuthorizationGate
  <1>5. PreInferenceGate(q, c) = PreInferenceGate(p, c)
    BY DEF PreInferenceGate, OutsideRegion
  <1>6. OutputProtectionGate(q, c, r) = OutputProtectionGate(p, c, r)
    BY DEF OutputProtectionGate
  <1>7. QED BY <1>2, <1>3, <1>4, <1>5, <1>6 DEF Evaluate, GATES

\* A release under fail_closed stopped nowhere and was undecided nowhere, so
\* the same journey under the same policy failing open stops nowhere either.
LEMMA WithheldImplied ==
  ASSUME TypeOK, JourneyInv
  PROVE  FailClosedOnlyWithholds
  <1>1. SUFFICES ASSUME NEW x \in Txns, policy.fail_closed, IsDecided(x), outcome[x].released
                 PROVE  outcome[x] = Abstract!Decision([policy EXCEPT !.fail_closed = FALSE], ctx[x])
    BY DEF FailClosedOnlyWithholds
  <1> DEFINE p == policy
             q == [policy EXCEPT !.fail_closed = FALSE]
             c == ctx[x]
             V(i) == Abstract!GateVerdict(p, c, i)
             W(i) == Abstract!GateVerdict(q, c, i)
  <1>2. outcome[x] = Abstract!Decision(p, c) /\ p \in Policies
    BY <1>1, DecidedOutcome
  <1>3. /\ q.identity = p.identity /\ q.entitlements = p.entitlements
        /\ q.residency = p.residency /\ q.dlp = p.dlp /\ ~q.fail_closed
    BY <1>2, EngineAssumption
  <1> HIDE DEF q
  <1>4. \A i \in 1..6 : W(i) = V(i)
    BY <1>3, GatesReadSections, JourneySteps
  <1>5. \A i \in 1..6 : /\ Abstract!Reached(p, c, i) /\ Abstract!Results(p, c)[i] = V(i)
                        /\ V(i) # "block"
    BY <1>1, <1>2, ReleasePassed, JourneySteps
  <1>6. \A i \in 1..6 : ~Abstract!Stops(q, W(i))
    BY <1>3, <1>4, <1>5 DEF Abstract!Stops
  <1>7. \A i \in 1..6 : Abstract!Reached(q, c, i)
    BY <1>6 DEF Abstract!Reached
  <1>8. Abstract!Results(q, c) = Abstract!Results(p, c)
    BY <1>4, <1>5, <1>7 DEF Abstract!Results
  <1>9. Abstract!Decision(q, c) = Abstract!Decision(p, c)
    BY <1>8 DEF Abstract!Decision
  <1>10. QED BY <1>2, <1>9 DEF q

\* The engine's step is the abstract specification's, or a stutter.
LEMMA StepRefines ==
  ASSUME TypeOK, JourneyInv, Next
  PROVE  [Abstract!Next]_<<policy, ctx, outcome>>
  <1>1. PICK x \in Txns : evaluate(x)
    BY DEF Next
  <1>2. CASE Submit(x)
    <2>1. PICK c \in Contexts : ctx' = [ctx EXCEPT ![x] = c]
      BY <1>2 DEF Submit
    <2>2. ctx[x] = NoContext /\ UNCHANGED policy
      BY <1>2 DEF Submit, JourneyInv
    <2>3. outcome' \in {outcome, [outcome EXCEPT ![x] = Raised]}
      BY <1>2 DEF Submit, RecordRaises
    <2>4. Abstract!Submit(x)
      BY <2>1, <2>2, <2>3
         DEF Abstract!Submit, Abstract!NoContext, NoContext, Abstract!Raised, Raised
    <2>5. QED BY <2>4 DEF Abstract!Next
  <1>3. ASSUME pc[x] = "gates", UNCHANGED <<policy, ctx>>,
               outcome' \in {outcome, [outcome EXCEPT ![x] = Raised],
                             [outcome EXCEPT ![x] = Abstract!Decision(policy, ctx[x])]}
        PROVE  [Abstract!Next]_<<policy, ctx, outcome>>
    <2>1. ctx[x] # NoContext /\ outcome[x] = Undecided
      BY <1>3, EngineAssumption DEF JourneyInv
    <2>2. CASE outcome' = outcome
      BY <1>3, <2>2
    <2>3. CASE outcome' = [outcome EXCEPT ![x] = Raised]
      <3>1. Abstract!GiveUp(x)
        BY <1>3, <2>1, <2>3 DEF Abstract!GiveUp, Abstract!NoContext, NoContext,
           Abstract!Raised, Raised, Abstract!Undecided, Undecided
      <3>2. QED BY <3>1 DEF Abstract!Next
    <2>4. CASE outcome' = [outcome EXCEPT ![x] = Abstract!Decision(policy, ctx[x])]
      <3>1. Abstract!Decide(x)
        BY <1>3, <2>1, <2>4 DEF Abstract!Decide, Abstract!NoContext, NoContext,
           Abstract!Undecided, Undecided
      <3>2. QED BY <3>1 DEF Abstract!Next
    <2>5. QED BY <1>3, <2>2, <2>3, <2>4
  <1>4. CASE RunGate(x)
    BY <1>3, <1>4 DEF RunGate, RecordRaises
  <1>5. CASE SkipGate(x)
    BY <1>3, <1>5 DEF SkipGate
  <1>6. CASE Decide(x)
    <2>1. Decided(x) = Abstract!Decision(policy, ctx[x]) /\ pc[x] = "gates"
      BY <1>6, DecidedIsDecision DEF Decide
    <2>2. /\ UNCHANGED <<policy, ctx>>
          /\ outcome' \in {[outcome EXCEPT ![x] = Raised], [outcome EXCEPT ![x] = Decided(x)]}
      BY <1>6 DEF Decide, RecordRaises
    <2>3. QED BY <1>3, <2>1, <2>2
  <1>7. QED BY <1>1, <1>2, <1>4, <1>5, <1>6 DEF evaluate

-----------------------------------------------------------------------------
(* What the ledger tells.                                                  *)

LEMMA EntriesCount ==
  ASSUME TypeOK, NEW x \in Txns
  PROVE  /\ Len(ledger) \in Nat /\ EntriesOf(x) \subseteq 1..Len(ledger)
         /\ IsFiniteSet(EntriesOf(x)) /\ Cardinality(EntriesOf(x)) \in Nat
  <1>1. DOMAIN ledger = 1..Len(ledger) /\ Len(ledger) \in Nat
    BY LenProperties DEF TypeOK
  <1>2. IsFiniteSet(1..Len(ledger))
    BY <1>1, UpTo
  <1>3. EntriesOf(x) \subseteq 1..Len(ledger)
    BY <1>1 DEF EntriesOf
  <1>4. QED BY <1>1, <1>2, <1>3, FS_Subset, FS_CardinalityType

\* An entry recorded for x is the last one the ledger has of x, and changes
\* nothing of what it has of anybody.
LEMMA RecordedEntries ==
  ASSUME TypeOK, NEW x \in Txns, NEW e \in LedgerEvents, e.txn = x,
         NEW last, last = Len(ledger) + 1, ledger' = Append(ledger, e)
  PROVE  /\ \A k \in 1..Len(ledger) : ledger'[k] = ledger[k]
         /\ \A y \in Txns : \A k \in EntriesOf(y) : Before(y, k)' = Before(y, k)
         /\ \A y \in Txns \ {x} : EntriesOf(y)' = EntriesOf(y)
         /\ EntriesOf(x)' = EntriesOf(x) \union {last} /\ last \notin EntriesOf(x)
         /\ ledger'[last] = e
         /\ Cardinality(EntriesOf(x))' = Cardinality(EntriesOf(x)) + 1
         /\ Before(x, last)' = Cardinality(EntriesOf(x))
  <1>1. /\ Len(ledger) \in Nat /\ DOMAIN ledger = 1..Len(ledger)
        /\ \A y \in Txns : EntriesOf(y) \subseteq 1..Len(ledger) /\ IsFiniteSet(EntriesOf(y))
    BY EntriesCount, LenProperties DEF TypeOK
  <1>2. /\ DOMAIN ledger' = 1..last /\ ledger'[last] = e
        /\ \A k \in 1..Len(ledger) : ledger'[k] = ledger[k]
    BY <1>1, AppendProperties DEF TypeOK
  <1>3. 1..last = (1..Len(ledger)) \union {last} /\ last \notin 1..Len(ledger)
    BY <1>1
  <1>4. \A k \in 1..Len(ledger) : k < last
    BY <1>1
  <1>5. \A y \in Txns \ {x} : EntriesOf(y)' = EntriesOf(y)
    BY <1>1, <1>2, <1>3 DEF EntriesOf
  <1>6. EntriesOf(x)' = EntriesOf(x) \union {last} /\ last \notin EntriesOf(x)
    BY <1>1, <1>2, <1>3 DEF EntriesOf
  <1>7. Cardinality(EntriesOf(x))' = Cardinality(EntriesOf(x)) + 1
    BY <1>1, <1>6, FS_AddElement
  <1>8. ASSUME NEW y \in Txns, NEW k \in EntriesOf(y)
        PROVE  Before(y, k)' = Before(y, k)
    <2>1. k \in 1..Len(ledger) /\ ~(last < k)
      BY <1>1
    <2>2. {j \in EntriesOf(y)' : j < k} = {j \in EntriesOf(y) : j < k}
      BY <1>5, <1>6, <2>1
    <2>3. QED BY <2>2 DEF Before
  <1>9. Before(x, last)' = Cardinality(EntriesOf(x))
    <2>1. {j \in EntriesOf(x)' : j < last} = EntriesOf(x)
      <3>1. ~(last < last)
        BY <1>1
      <3>2. QED BY <1>1, <1>4, <1>6, <3>1
    <2>2. QED BY <2>1 DEF Before
  <1>10. QED BY <1>2, <1>5, <1>6, <1>7, <1>8, <1>9

\* Both ways of recording append the same entry.
LEMMA Recorded ==
  ASSUME NEW x \in Txns, NEW w \in Verdict \union {""}, 
         NEW ev \in {"transaction_started", "gate_evaluated", "transaction_decided"},
         Record(x, ev, w) \/ RecordRaises(x, ev, w)
  PROVE  LET e == [txn |-> x, event |-> ev, what |-> w]
         IN  ledger' = Append(ledger, e) /\ e \in LedgerEvents /\ e.txn = x
  BY DEF Record, RecordRaises, LedgerEvents

\* On a journey that was not stopped every gate so far ran.
LEMMA AllRan ==
  ASSUME TypeOK, JourneyInv, NEW x \in Txns, pc[x] = "gates", ~stopped[x]
  PROVE  Ran(x) = 1..Len(results[x]) /\ Cardinality(Ran(x)) = Len(results[x])
  <1> DEFINE c == ctx[x]
             n == Len(results[x])
  <1>1. n \in Nat /\ n <= 6 /\ DOMAIN results[x] = 1..n
    <2>1. results[x] \in Seq(Verdict) /\ n <= 6
      BY DEF TypeOK
    <2>2. QED BY <2>1, LenProperties
  <1>2. /\ Abstract!Reached(policy, c, n + 1)
        /\ \A i \in 1..n : results[x][i] = Abstract!Results(policy, c)[i]
    BY DEF JourneyInv
  <1> HIDE DEF n
  <1>3. \A i \in 1..n : Abstract!Reached(policy, c, i)
    BY <1>1, <1>2 DEF Abstract!Reached
  <1>4. \A i \in 1..n : results[x][i] # "not_run"
    BY <1>1, <1>2, <1>3, JourneySteps
  <1>5. Ran(x) = 1..n
    BY <1>1, <1>4 DEF Ran
  <1>6. Cardinality(1..n) = n
    BY <1>1, UpTo
  <1>7. QED BY <1>5, <1>6 DEF n

\* There are no more gates that ran than gates.
LEMMA RanCount ==
  ASSUME TypeOK, NEW x \in Txns
  PROVE  /\ Ran(x) \subseteq 1..Len(results[x]) /\ IsFiniteSet(Ran(x))
         /\ Cardinality(Ran(x)) \in 0..Len(results[x]) /\ Len(results[x]) \in Nat
  <1>1. Len(results[x]) \in Nat /\ DOMAIN results[x] = 1..Len(results[x])
    BY LenProperties DEF TypeOK
  <1>2. IsFiniteSet(1..Len(results[x])) /\ Cardinality(1..Len(results[x])) = Len(results[x])
    BY <1>1, UpTo
  <1>3. Ran(x) \subseteq 1..Len(results[x])
    BY <1>1 DEF Ran
  <1>4. QED BY <1>1, <1>2, <1>3, FS_Subset, FS_CardinalityType

\* What LedgerInv says of one transaction.
ToldOf(x) ==
  /\ pc[x] = "new" => EntriesOf(x) = {}
  /\ pc[x] \in {"gates", "done"} =>
       /\ Cardinality(EntriesOf(x)) = Cardinality(Ran(x)) + (IF pc[x] = "done" THEN 2 ELSE 1)
       /\ \A k \in EntriesOf(x) : TellsAt(x, k)

LEMMA ToldParts == LedgerInv <=> \A x \in Txns : ToldOf(x)
  BY DEF LedgerInv, LedgerTellsJourney, ToldOf

\* An entry counts the entries before it: fewer than there are.
LEMMA BeforeCount ==
  ASSUME TypeOK, NEW x \in Txns, NEW k \in EntriesOf(x)
  PROVE  Before(x, k) \in 0..Cardinality(EntriesOf(x)) - 1
  <1> DEFINE earlier == {j \in EntriesOf(x) : j < k}
  <1>1. /\ Len(ledger) \in Nat /\ k \in 1..Len(ledger)
        /\ IsFiniteSet(EntriesOf(x)) /\ Cardinality(EntriesOf(x)) \in Nat
    BY EntriesCount
  <1>2. earlier \subseteq EntriesOf(x) \ {k}
    BY <1>1
  <1> HIDE DEF earlier
  <1>3. /\ IsFiniteSet(EntriesOf(x) \ {k})
        /\ Cardinality(EntriesOf(x) \ {k}) = Cardinality(EntriesOf(x)) - 1
    BY <1>1, FS_RemoveElement
  <1>4. /\ IsFiniteSet(earlier) /\ Cardinality(earlier) \in Nat
        /\ Cardinality(earlier) <= Cardinality(EntriesOf(x)) - 1
    BY <1>2, <1>3, FS_Subset, FS_CardinalityType
  <1>5. QED BY <1>1, <1>4 DEF Before, earlier

\* The journeys of the others: their entries and their order stay.
LEMMA OthersTold ==
  ASSUME TypeOK, NEW x \in Txns, NEW y \in Txns, y # x, ToldOf(y),
         pc'[y] = pc[y], results'[y] = results[y], outcome'[y] = outcome[y],
         \/ ledger' = ledger
         \/ \E e \in LedgerEvents : e.txn = x /\ ledger' = Append(ledger, e)
  PROVE  ToldOf(y)'
  <1>1. /\ EntriesOf(y)' = EntriesOf(y) /\ Ran(y)' = Ran(y)
        /\ \A k \in EntriesOf(y) : Before(y, k)' = Before(y, k) /\ ledger'[k] = ledger[k]
    <2>1. CASE ledger' = ledger
      BY <2>1 DEF EntriesOf, Ran, Before
    <2>2. CASE ledger' # ledger
      <3>1. PICK e \in LedgerEvents : e.txn = x /\ ledger' = Append(ledger, e)
        BY <2>2
      <3>2. PICK last : last = Len(ledger) + 1
        OBVIOUS
      <3>3. QED BY <3>1, <3>2, RecordedEntries, EntriesCount DEF Ran
    <2>3. QED BY <2>1, <2>2
  <1>2. \A k \in EntriesOf(y) : TellsAt(y, k) => TellsAt(y, k)'
    BY <1>1 DEF TellsAt
  <1>3. QED BY <1>1, <1>2 DEF ToldOf

\* One more entry of x, that says what comes at its place of the journey, when
\* the gates that ran are those told and perhaps the one the entry tells of.
LEMMA OneMoreTold ==
  ASSUME TypeOK, NEW x \in Txns, ToldOf(x), pc[x] = "gates",
         NEW e \in LedgerEvents, e.txn = x, ledger' = Append(ledger, e),
         \/ /\ Cardinality(Ran(x))' = Cardinality(Ran(x)) + 1 /\ pc'[x] = "gates"
            /\ e.event = "gate_evaluated"
            /\ e.what = results'[x][Cardinality(Ran(x)) + 1]
         \/ /\ Cardinality(Ran(x))' = Cardinality(Ran(x)) /\ pc'[x] = "done"
            /\ e.event = "transaction_decided" /\ e.what = outcome'[x].verdict,
         \A i \in 1..Cardinality(Ran(x)) : results'[x][i] = results[x][i]
  PROVE  ToldOf(x)'
  <1> DEFINE m == Cardinality(Ran(x))
  <1>1. PICK last : last = Len(ledger) + 1
    OBVIOUS
  <1>2. /\ \A k \in EntriesOf(x) : ledger'[k] = ledger[k] /\ Before(x, k)' = Before(x, k)
        /\ EntriesOf(x)' = EntriesOf(x) \union {last}
        /\ ledger'[last] = e
        /\ Cardinality(EntriesOf(x))' = Cardinality(EntriesOf(x)) + 1
        /\ Before(x, last)' = Cardinality(EntriesOf(x))
    BY <1>1, RecordedEntries, EntriesCount
  <1>3. m \in Nat /\ Cardinality(EntriesOf(x)) = m + 1
    BY RanCount DEF ToldOf
  <1>4. \A k \in EntriesOf(x) : Before(x, k) \in 0..m
    BY <1>3, BeforeCount
  <1>5. Cardinality(Ran(x))' \in {m, m + 1}
    OBVIOUS
  <1> HIDE DEF m
  <1>6. ASSUME NEW k \in EntriesOf(x)
        PROVE  TellsAt(x, k)'
    <2>1. TellsAt(x, k) /\ Before(x, k) \in 0..m /\ Before(x, k)' = Before(x, k)
          /\ ledger'[k] = ledger[k]
      BY <1>2, <1>4 DEF ToldOf
    <2>2. Before(x, k) \in 1..m => results'[x][Before(x, k)] = results[x][Before(x, k)]
      BY DEF m
    <2>3. Before(x, k) \in 1..Cardinality(Ran(x))' => Before(x, k) \in 1..m
      BY <1>3, <1>5, <2>1
    <2>4. ~(Before(x, k) > Cardinality(Ran(x))')
      BY <1>3, <1>5, <2>1
    <2>5. QED BY <2>1, <2>2, <2>3, <2>4 DEF TellsAt, m
  <1>7. ASSUME NEW k, k = last
        PROVE  TellsAt(x, k)'
    <2>1. Before(x, k)' = m + 1 /\ ledger'[k] = e
      BY <1>2, <1>3, <1>7
    <2>2. m + 1 # 0 /\ (m + 1 > m) /\ ~(m + 1 > m + 1) /\ m + 1 \in 1..m + 1 /\ m + 1 \notin 1..m
      BY <1>3
    <2>3. CASE /\ Cardinality(Ran(x))' = m + 1
               /\ e.event = "gate_evaluated" /\ e.what = results'[x][m + 1]
      BY <2>1, <2>2, <2>3 DEF TellsAt
    <2>4. CASE /\ Cardinality(Ran(x))' = m
               /\ e.event = "transaction_decided" /\ e.what = outcome'[x].verdict
      BY <2>1, <2>2, <2>4 DEF TellsAt
    <2>5. QED BY <2>3, <2>4 DEF m
  <1>8. \A k \in EntriesOf(x)' : TellsAt(x, k)'
    BY <1>2, <1>6, <1>7
  <1>9. Cardinality(EntriesOf(x))'
          = Cardinality(Ran(x))' + (IF pc'[x] = "done" THEN 2 ELSE 1)
    BY <1>2, <1>3 DEF m
  <1>10. pc'[x] \in {"gates", "done"}
    OBVIOUS
  <1>11. QED BY <1>8, <1>9, <1>10 DEF ToldOf

LEMMA SubmitTells ==
  ASSUME TypeOK, JourneyInv, NEW x \in Txns, Submit(x), ToldOf(x)
  PROVE  ToldOf(x)'
  <1> DEFINE e == [txn |-> x, event |-> "transaction_started", what |-> ""]
  <1>1. /\ pc[x] = "new" /\ results' = results
        /\ \/ pc' = [pc EXCEPT ![x] = "gates"]
           \/ pc' = [pc EXCEPT ![x] = "raised"]
        /\ Record(x, "transaction_started", "") \/ RecordRaises(x, "transaction_started", "")
    BY DEF Submit, RecordRaises
  <1>2. e \in LedgerEvents /\ e.txn = x /\ ledger' = Append(ledger, e)
    BY <1>1, Recorded
  <1>3. results'[x] = << >> /\ EntriesOf(x) = {} /\ pc'[x] \in {"gates", "raised"}
    BY <1>1 DEF JourneyInv, ToldOf, TypeOK
  <1>4. Ran(x)' = {} /\ Cardinality(Ran(x))' = 0 /\ Cardinality(EntriesOf(x)) = 0
    BY <1>3, FS_EmptySet DEF Ran
  <1>5. PICK last : last = Len(ledger) + 1
    OBVIOUS
  <1>6. e.event = "transaction_started"
    OBVIOUS
  <1> HIDE DEF e
  <1>7. /\ EntriesOf(x)' = {last} /\ ledger'[last] = e
        /\ Cardinality(EntriesOf(x))' = 1 /\ Before(x, last)' = 0
    <2>1. /\ EntriesOf(x)' = EntriesOf(x) \union {last} /\ ledger'[last] = e
          /\ Cardinality(EntriesOf(x))' = Cardinality(EntriesOf(x)) + 1
          /\ Before(x, last)' = Cardinality(EntriesOf(x))
      BY <1>2, <1>5, RecordedEntries
    <2>2. QED BY <1>3, <1>4, <2>1
  <1>8. \A k \in EntriesOf(x)' : TellsAt(x, k)'
    BY <1>4, <1>6, <1>7 DEF TellsAt
  <1>9. QED BY <1>3, <1>4, <1>7, <1>8 DEF ToldOf

LEMMA RunGateTells ==
  ASSUME TypeOK, JourneyInv, NEW x \in Txns, RunGate(x), ToldOf(x)
  PROVE  ToldOf(x)'
  <1> DEFINE n == Len(results[x]) + 1
             verdict == Evaluate(GATES[n], policy, ctx[x], response[x])
             e == [txn |-> x, event |-> "gate_evaluated", what |-> verdict]
  <1>1. /\ pc[x] = "gates" /\ ~stopped[x] /\ Len(results[x]) < 6
        /\ results' = [results EXCEPT ![x] = Append(@, verdict)]
        /\ pc' = pc \/ pc' = [pc EXCEPT ![x] = "raised"]
        /\ Record(x, "gate_evaluated", verdict) \/ RecordRaises(x, "gate_evaluated", verdict)
    BY DEF RunGate, RecordRaises
  <1>2. results[x] \in Seq(Verdict) /\ n \in 1..6
    BY <1>1, LenProperties DEF TypeOK
  <1>3. verdict \in Verdict /\ verdict # "not_run"
    BY <1>2, GateVerdicts
  <1> HIDE DEF verdict
  <1>4. e \in LedgerEvents /\ e.txn = x /\ ledger' = Append(ledger, e)
    BY <1>1, <1>3, Recorded
  <1>5. /\ DOMAIN results'[x] = 1..n /\ results'[x][n] = verdict
        /\ \A i \in 1..n - 1 : results'[x][i] = results[x][i]
    <2>1. results'[x] = Append(results[x], verdict)
      BY <1>1 DEF TypeOK
    <2>2. QED BY <1>2, <1>3, <2>1, AppendProperties, LenProperties
  <1>6. Ran(x) = 1..n - 1 /\ Cardinality(Ran(x)) = n - 1
    BY <1>1, <1>2, AllRan
  <1>7. Ran(x)' = 1..n /\ Cardinality(Ran(x))' = Cardinality(Ran(x)) + 1
    <2>1. \A i \in 1..n - 1 : results[x][i] # "not_run"
      BY <1>6 DEF Ran
    <2>2. 1..n = (1..n - 1) \union {n}
      BY <1>2
    <2>3. Ran(x)' = 1..n
      BY <1>3, <1>5, <2>1, <2>2 DEF Ran
    <2>4. Cardinality(1..n) = n
      <3>1. n \in Nat /\ n > 0
        BY <1>2
      <3> HIDE DEF n
      <3>2. QED BY <3>1, UpTo
    <2>5. QED BY <1>2, <1>6, <2>3, <2>4
  <1>8. CASE pc' = pc
    <2>1. pc'[x] = "gates" /\ e.event = "gate_evaluated" /\ e.what = results'[x][n]
      BY <1>1, <1>5, <1>8
    <2>2. Cardinality(Ran(x)) + 1 = n
      BY <1>2, <1>6
    <2> HIDE DEF e, n
    <2>3. QED BY <1>1, <1>4, <1>5, <1>6, <1>7, <2>1, <2>2, OneMoreTold
  <1>9. CASE pc' # pc
    BY <1>1, <1>9 DEF TypeOK, ToldOf
  <1>10. QED BY <1>8, <1>9

LEMMA SkipGateTells ==
  ASSUME TypeOK, JourneyInv, NEW x \in Txns, SkipGate(x), ToldOf(x)
  PROVE  ToldOf(x)'
  <1> DEFINE n == Len(results[x]) + 1
  <1>1. /\ pc[x] = "gates" /\ UNCHANGED <<pc, outcome, ledger>>
        /\ results'[x] = Append(results[x], "not_run")
        /\ results[x] \in Seq(Verdict) /\ "not_run" \in Verdict
    BY DEF SkipGate, TypeOK, Verdict
  <1>2. /\ DOMAIN results'[x] = 1..n /\ results'[x][n] = "not_run" /\ n - 1 \in Nat
        /\ DOMAIN results[x] = 1..n - 1
        /\ \A i \in 1..n - 1 : results'[x][i] = results[x][i]
    BY <1>1, AppendProperties, LenProperties
  <1>3. 1..n = (1..n - 1) \union {n}
    BY <1>2
  <1>4. Ran(x)' = Ran(x)
    BY <1>2, <1>3 DEF Ran
  <1>5. EntriesOf(x)' = EntriesOf(x) /\ \A k : Before(x, k)' = Before(x, k)
    BY <1>1 DEF EntriesOf, Before
  <1>6. \A i \in 1..Cardinality(Ran(x)) : results'[x][i] = results[x][i]
    <2>1. Cardinality(Ran(x)) \in Nat /\ Cardinality(Ran(x)) <= n - 1
      BY RanCount
    <2>2. QED BY <1>2, <2>1
  <1>7. \A k \in EntriesOf(x) : TellsAt(x, k) => TellsAt(x, k)'
    BY <1>1, <1>4, <1>5, <1>6 DEF TellsAt
  <1>8. QED BY <1>1, <1>4, <1>5, <1>7 DEF ToldOf

LEMMA DecideTells ==
  ASSUME TypeOK, JourneyInv, NEW x \in Txns, Decide(x), ToldOf(x)
  PROVE  ToldOf(x)'
  <1> DEFINE e == [txn |-> x, event |-> "transaction_decided", what |-> Decided(x).verdict]
  <1>1. /\ pc[x] = "gates" /\ Len(results[x]) = 6 /\ results' = results
        /\ \/ pc' = [pc EXCEPT ![x] = "done"] /\ outcome' = [outcome EXCEPT ![x] = Decided(x)]
           \/ pc' = [pc EXCEPT ![x] = "raised"]
        /\ \/ Record(x, "transaction_decided", Decided(x).verdict)
           \/ RecordRaises(x, "transaction_decided", Decided(x).verdict)
    BY DEF Decide, RecordRaises
  <1>2. Decided(x).verdict \in Verdict
    BY <1>1, DecidedIsDecision DEF Decisions
  <1> HIDE DEF Decided
  <1>3. e \in LedgerEvents /\ e.txn = x /\ ledger' = Append(ledger, e)
    BY <1>1, <1>2, Recorded
  <1>4. CASE pc' = [pc EXCEPT ![x] = "done"] /\ outcome' = [outcome EXCEPT ![x] = Decided(x)]
    <2>1. /\ pc'[x] = "done" /\ e.event = "transaction_decided"
          /\ e.what = outcome'[x].verdict
      BY <1>4 DEF TypeOK
    <2>2. Ran(x)' = Ran(x)
      BY <1>1 DEF Ran
    <2> HIDE DEF e
    <2>3. QED BY <1>1, <1>3, <2>1, <2>2, OneMoreTold
  <1>5. CASE pc' = [pc EXCEPT ![x] = "raised"]
    BY <1>1, <1>5 DEF TypeOK, ToldOf
  <1>6. QED BY <1>1, <1>4, <1>5

\* Every step of a call tells its own journey on and leaves the others'.
LEMMA StepTells ==
  ASSUME TypeOK, JourneyInv, LedgerInv, [Next]_vars
  PROVE  LedgerInv'
  <1>1. CASE UNCHANGED vars
    <2>1. \A x \in Txns : EntriesOf(x)' = EntriesOf(x) /\ Ran(x)' = Ran(x)
                          /\ \A k : Before(x, k)' = Before(x, k)
      BY <1>1 DEF vars, EntriesOf, Ran, Before
    <2>2. \A x \in Txns : ToldOf(x)'
      BY <1>1, <2>1, ToldParts DEF vars, ToldOf, TellsAt
    <2>3. QED BY <2>2 DEF LedgerInv, LedgerTellsJourney, ToldOf
  <1>2. CASE Next
    <2>1. PICK x \in Txns : evaluate(x)
      BY <1>2 DEF Next
    <2>2. ToldOf(x)'
      BY <2>1, ToldParts, SubmitTells, RunGateTells, SkipGateTells, DecideTells DEF evaluate
    <2>3. \/ ledger' = ledger
          \/ \E e \in LedgerEvents : e.txn = x /\ ledger' = Append(ledger, e)
      <3>1. CASE Submit(x)
        BY <3>1, Recorded DEF Submit
      <3>2. CASE RunGate(x)
        <4>1. Len(results[x]) + 1 \in 1..6
          BY <3>2, LenProperties DEF RunGate, TypeOK
        <4>2. Evaluate(GATES[Len(results[x]) + 1], policy, ctx[x], response[x]) \in Verdict
          BY <4>1, GateVerdicts
        <4>3. QED BY <3>2, <4>2, Recorded DEF RunGate
      <3>3. CASE SkipGate(x)
        BY <3>3 DEF SkipGate
      <3>4. CASE Decide(x)
        <4>1. Decided(x).verdict \in Verdict
          BY <3>4, DecidedIsDecision DEF Decide, Decisions
        <4>2. QED BY <3>4, <4>1, Recorded DEF Decide
      <3>5. QED BY <2>1, <3>1, <3>2, <3>3, <3>4 DEF evaluate
    <2>4. ASSUME NEW y \in Txns, y # x
          PROVE  pc'[y] = pc[y] /\ results'[y] = results[y] /\ outcome'[y] = outcome[y]
      <3>1. CASE Submit(x)
        BY <2>4, <3>1 DEF Submit, Record, RecordRaises, TypeOK
      <3>2. CASE RunGate(x)
        BY <2>4, <3>2 DEF RunGate, Record, RecordRaises, TypeOK
      <3>3. CASE SkipGate(x)
        BY <2>4, <3>3 DEF SkipGate, TypeOK
      <3>4. CASE Decide(x)
        BY <2>4, <3>4 DEF Decide, Record, RecordRaises, TypeOK
      <3>5. QED BY <2>1, <3>1, <3>2, <3>3, <3>4 DEF evaluate
    <2>5. \A y \in Txns : ToldOf(y)'
      BY <2>2, <2>3, <2>4, ToldParts, OthersTold
    <2>6. QED BY <2>5 DEF LedgerInv, LedgerTellsJourney, ToldOf
  <1>3. QED BY <1>1, <1>2

-----------------------------------------------------------------------------

\* In every journey a gate is NOT_RUN exactly when an earlier one stopped it.
THEOREM EngineJourneyStops == Spec => []JourneyStops
  BY EngineInvariant, StopsImplied, PTL

\* Under fail_closed every release has all its facts established, whatever the
\* policy, the transaction, the interleaving and the ledger's failures.
THEOREM EngineReleaseEstablished == Spec => []ReleaseEstablished
  BY EngineInvariant, EstablishedImplied, PTL

\* Under fail_closed no classified context leaves the approved regions with a
\* released response.
THEOREM EngineClassifiedStaysHome == Spec => []ClassifiedStaysHome
  BY EngineInvariant, ClassifiedImplied, PTL

\* What is released is masked when the policy wants it, and then not reported
\* as a clean ALLOW.
THEOREM EngineMaskHolds == Spec => []MaskHolds
  BY EngineInvariant, MaskImplied, PTL

\* Under fail_closed the reported verdict allows exactly what is released.
THEOREM EngineAllowedIffReleased == Spec => []AllowedIffReleased
  BY EngineInvariant, AllowedImplied, PTL

\* Failing closed changes no decision it releases: it can only withhold.
THEOREM EngineFailClosedOnlyWithholds == Spec => []FailClosedOnlyWithholds
  BY EngineInvariant, WithheldImplied, PTL

\* For every number of concurrent calls, whatever raises, the ledger tells each
\* journey: its start, every gate that ran with its verdict, its decision.
THEOREM EngineLedgerTellsJourney == Spec => []LedgerTellsJourney
  <1>1. Init => LedgerInv
    <2>1. DOMAIN << >> = {}
      OBVIOUS
    <2>2. QED BY <2>1 DEF Init, LedgerInv, LedgerTellsJourney, EntriesOf
  <1>2. TypeOK /\ JourneyInv /\ LedgerInv /\ [Next]_vars => LedgerInv'
    BY StepTells
  <1>3. LedgerInv => LedgerTellsJourney
    BY DEF LedgerInv
  <1>4. QED BY <1>1, <1>2, <1>3, EngineInvariant, PTL DEF Spec

\* The engine implements its abstract specification: one step per transaction
\* decides it, by a function of the policy and its own context.
THEOREM EngineDecidesInIsolation == Spec => DecidesInIsolation
  <1>1. Init => Abstract!Init
    BY DEF Init, Abstract!Init, Abstract!NoContext, NoContext, Abstract!Undecided, Undecided
  <1>2. TypeOK /\ JourneyInv /\ [Next]_vars => [Abstract!Next]_<<policy, ctx, outcome>>
    BY StepRefines DEF vars
  <1>3. QED BY <1>1, <1>2, EngineInvariant, PTL DEF Spec, DecidesInIsolation, Abstract!Spec
-----------------------------------------------------------------------------
(***************************************************************************)
(* A call goes forward: the safety part of CallsReturn.                    *)
(***************************************************************************)

\* A step of a call brings the next of the six results or ends the call.
LEMMA ForwardStep ==
  ASSUME TypeOK, NEW x \in Txns, evaluate(x), pc[x] = "gates"
  PROVE  /\ pc'[x] \in {"done", "raised"} \/ Len(results'[x]) = Len(results[x]) + 1
         /\ \A y \in Txns \ {x} : pc'[y] = pc[y] /\ results'[y] = results[y]
  <1>1. pc \in [Txns -> {"new", "gates", "done", "raised"}] /\ results \in [Txns -> Seq(Verdict)]
    BY DEF TypeOK
  <1>2. ASSUME NEW v, results' = [results EXCEPT ![x] = Append(@, v)]
        PROVE  /\ Len(results'[x]) = Len(results[x]) + 1
               /\ \A y \in Txns \ {x} : results'[y] = results[y]
    <2>1. results'[x] = Append(results[x], v) /\ \A y \in Txns \ {x} : results'[y] = results[y]
      BY <1>1, <1>2
    <2>2. Len(Append(results[x], v)) = Len(results[x]) + 1
      BY <1>1
    <2>3. QED BY <2>1, <2>2
  <1>3. CASE Submit(x)
    BY <1>3 DEF Submit
  <1>4. CASE RunGate(x)
    <2> DEFINE verdict == Evaluate(GATES[Len(results[x]) + 1], policy, ctx[x], response[x])
    <2>1. /\ results' = [results EXCEPT ![x] = Append(@, verdict)]
          /\ pc' \in {pc, [pc EXCEPT ![x] = "raised"]}
      BY <1>4 DEF RunGate, RecordRaises
    <2> HIDE DEF verdict
    <2>2. QED BY <1>1, <1>2, <2>1
  <1>5. CASE SkipGate(x)
    <2>1. results' = [results EXCEPT ![x] = Append(@, "not_run")] /\ pc' = pc
      BY <1>5 DEF SkipGate
    <2>2. QED BY <1>2, <2>1
  <1>6. CASE Decide(x)
    <2>1. results' = results /\ pc' \in {[pc EXCEPT ![x] = "done"], [pc EXCEPT ![x] = "raised"]}
      BY <1>6 DEF Decide, RecordRaises
    <2>2. QED BY <1>1, <2>1
  <1>7. QED BY <1>3, <1>4, <1>5, <1>6 DEF evaluate

\* No call goes on for ever and none waits for another: each step of a call
\* under way brings the next of six results or ends it, and leaves where the
\* other calls are.
THEOREM EngineGoesForward ==
  Spec => [][\A x \in Txns : evaluate(x) /\ pc[x] = "gates" =>
               /\ \/ pc'[x] \in {"done", "raised"}
                  \/ Len(results'[x]) = Len(results[x]) + 1 /\ Len(results'[x]) <= 6
               /\ \A y \in Txns \ {x} : pc'[y] = pc[y] /\ results'[y] = results[y]]_vars
  <1> DEFINE A == \A x \in Txns : evaluate(x) /\ pc[x] = "gates" =>
                    /\ \/ pc'[x] \in {"done", "raised"}
                       \/ Len(results'[x]) = Len(results[x]) + 1 /\ Len(results'[x]) <= 6
                    /\ \A y \in Txns \ {x} : pc'[y] = pc[y] /\ results'[y] = results[y]
  <1>1. TypeOK /\ TypeOK' /\ [Next]_vars => [A]_vars
    <2> SUFFICES ASSUME TypeOK, TypeOK' PROVE A
      OBVIOUS
    <2>1. \A x \in Txns : Len(results'[x]) <= 6
      BY DEF TypeOK
    <2>2. QED BY <2>1, ForwardStep
  <1>2. Spec => [][A]_vars
    <2> HIDE DEF A
    <2>1. QED BY <1>1, EngineTypeOK, PTL DEF Spec
  <1>3. QED BY <1>2
=============================================================================
