-------------------------- MODULE GovernanceDecision --------------------------
(***************************************************************************)
(* What the runtime governance plane promises, whatever order its gates    *)
(* and its callers run in: a transaction is decided once, in one step, by  *)
(* a function of the policy and of its own context, or not at all.         *)
(***************************************************************************)
EXTENDS RuntimeGates

CONSTANTS Txns, Contexts, Policies

VARIABLES policy, ctx, outcome

NoContext == [none |-> "context"]
Undecided == [none |-> "decision"]
Raised == [none |-> "raised"]

-----------------------------------------------------------------------------
(* The decision, stated without a loop.                                    *)

\* BLOCK stops a journey, NOT_EVIDENCED does under fail_closed.
Stops(p, verdict) == verdict = "block" \/ (verdict = "not_evidenced" /\ p.fail_closed)

GateVerdict(p, c, i) == Evaluate(GATES[i], p, c, c.response)

\* Gate i is reached when no earlier gate stops the journey.
Reached(p, c, i) == \A j \in 1..i - 1 : ~Stops(p, GateVerdict(p, c, j))

Results(p, c) ==
  [i \in 1..6 |-> IF Reached(p, c, i) THEN GateVerdict(p, c, i) ELSE "not_run"]

\* The most severe verdict of the gates that ran.
Worst(verdicts) ==
  CHOOSE v \in verdicts : \A w \in verdicts : SEVERITY[w] <= SEVERITY[v]

Verdicts(results) == {results[i] : i \in DOMAIN results} \ {"not_run"}

Decision(p, c) ==
  LET results  == Results(p, c)
      released == results[6] = "allow"
      masked   == \E i \in 1..6 : results[i] = "mask"
  IN  [verdict    |-> Worst(Verdicts(results)),
       gates      |-> results,
       released   |-> released,
       response   |-> IF ~released THEN NoResponse
                      ELSE IF masked THEN Masked(c.response) ELSE c.response,
       masked     |-> masked,
       provenance |-> IF released THEN {item.source : item \in c.retrieved} ELSE {}]

-----------------------------------------------------------------------------
Init ==
  /\ policy \in Policies
  /\ ctx = [x \in Txns |-> NoContext]
  /\ outcome = [x \in Txns |-> Undecided]

Submit(x) ==
  /\ ctx[x] = NoContext
  /\ \E c \in Contexts : ctx' = [ctx EXCEPT ![x] = c]
  /\ outcome' \in {outcome, [outcome EXCEPT ![x] = Raised]}
  /\ UNCHANGED policy

Decide(x) ==
  /\ ctx[x] # NoContext
  /\ outcome[x] = Undecided
  /\ outcome' = [outcome EXCEPT ![x] = Decision(policy, ctx[x])]
  /\ UNCHANGED <<policy, ctx>>

GiveUp(x) ==
  /\ ctx[x] # NoContext
  /\ outcome[x] = Undecided
  /\ outcome' = [outcome EXCEPT ![x] = Raised]
  /\ UNCHANGED <<policy, ctx>>

Next == \E x \in Txns : Submit(x) \/ Decide(x) \/ GiveUp(x)

Spec == Init /\ [][Next]_<<policy, ctx, outcome>>
=============================================================================
