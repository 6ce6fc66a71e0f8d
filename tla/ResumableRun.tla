----------------------------- MODULE ResumableRun -----------------------------
(***************************************************************************)
(* What a resumable assessment promises (graph/orchestrator.py: "it must   *)
(* be resumable - state is checkpointed after every node"), without the    *)
(* loops, the models and the retries inside the nodes: every node acts     *)
(* once and at once, on its own fields of the run; what it did is kept     *)
(* before the next node begins; a process that dies loses the node it was  *)
(* in and nothing else; a run ends by itself only when it is complete.     *)
(***************************************************************************)
EXTENDS FindingGates

CONSTANTS
  InScope,   \* the controls of the selected frameworks
  Fresh,     \* a run nothing has been done for
  NoReport,  \* its report
  Nothing,   \* there is no file
  Torn,      \* a file that cannot be read
  Citing     \* whether every process requires citations

VARIABLES
  phase,  \* of the process: "down", "ready" for a node, "done" with one, "cut" in the file
  run,    \* the run as of the last node that was done
  file,   \* what is kept of it
  short   \* whether the budget has ever ended an assessment early

vars == <<phase, run, file, short>>

Init == phase = "down" /\ run = Fresh /\ file = Nothing /\ short = FALSE

\* A process begins with what was kept.
Begin ==
  /\ phase = "down" /\ file # Torn
  /\ run' = IF file = Nothing THEN Fresh ELSE file
  /\ phase' = "ready"
  /\ UNCHANGED <<file, short>>

-----------------------------------------------------------------------------
(***************************************************************************)
(* The nodes.                                                              *)
(***************************************************************************)

\* A node takes the run from one stage to the next and writes its own fields.
Does(from, to, fields) ==
  /\ phase = "ready" /\ phase' = "done"
  /\ run.stage \in from /\ run'.stage = to
  /\ DOMAIN run' = DOMAIN run
  /\ \A f \in DOMAIN run \ (fields \union {"stage"}) : run'[f] = run[f]
  /\ UNCHANGED <<file, short>>

Intake == Does({"created"}, "intake_complete", {})

Classify == Does({"intake_complete"}, "risk_complete", {"risk"})

Retrieve ==
  /\ Does({"risk_complete"}, "retrieval_complete", {"retrieved"})
  /\ \A c \in InScope : run'.retrieved[c] # << >>

\* A finding asserts no more than what was retrieved for its control allows.
Grounded(c, f, retrieved) ==
  f.status \in Judged =>
    /\ \E cite \in f.citations : cite.source = "corpus"
    /\ \A cite \in f.citations : cite.source = "corpus" =>
         cite.control_id = c \/ \E i \in 1..Len(retrieved) : retrieved[i] = cite.control_id

\* One finding for every control in scope, unless the budget ran out.
Assess ==
  /\ Does({"retrieval_complete"}, "assessment_complete", {"findings", "keys", "usage"})
  /\ \A c \in Controls :
       /\ run'.findings[c] = NoFinding => c \notin InScope \/ short
       /\ run'.findings[c] # NoFinding =>
            /\ c \in InScope
            /\ run'.findings[c].critic_verdict = "not_reviewed"
            /\ Citing => Grounded(c, run'.findings[c], run.retrieved[c])

\* A review upholds a finding or takes it one step down.
Outcomes(f) ==
  {f, [f EXCEPT !.critic_verdict = "upheld"]} \union
  {g \in {[f EXCEPT !.critic_verdict = "downgraded", !.status = Downgrade(@)]} :
     f.status \in Downgradable}

Review ==
  /\ Does({"assessment_complete"}, "critique_complete", {"findings", "usage"})
  /\ \A c \in Controls :
       IF run.findings[c] = NoFinding THEN run'.findings[c] = NoFinding
       ELSE run'.findings[c] \in Outcomes(run.findings[c])

\* A process without a critic passes it by.
PassBy ==
  /\ phase = "ready" /\ run.stage = "assessment_complete"
  /\ phase' = "done"
  /\ UNCHANGED <<run, file, short>>

Report ==
  /\ Does({"assessment_complete", "critique_complete"}, "complete", {"report"})
  /\ run'.report # NoReport
  /\ run'.report.findings = run.findings

Node == Intake \/ Classify \/ Retrieve \/ Assess \/ Review \/ PassBy \/ Report

-----------------------------------------------------------------------------
(***************************************************************************)
(* What is kept, and how a process ends.                                   *)
(***************************************************************************)

\* The budget ends the assessment under way, which goes on record at once.
RunShort ==
  /\ phase = "ready" /\ run.stage = "retrieval_complete"
  /\ short' = TRUE
  /\ UNCHANGED <<phase, run, file>>

Cut == phase = "done" /\ phase' = "cut" /\ file' = Torn /\ UNCHANGED <<run, short>>

\* All of the run but its report.
Keep ==
  /\ phase = "cut" /\ phase' = "ready"
  /\ file' = [run EXCEPT !.report = NoReport]
  /\ UNCHANGED <<run, short>>

\* A run is refused before anything was done for it, or ends complete.
End ==
  /\ phase = "ready" /\ run.stage \in {"created", "complete"}
  /\ phase' = "down"
  /\ UNCHANGED <<run, file, short>>

Die == phase # "down" /\ phase' = "down" /\ run' = Fresh /\ UNCHANGED <<file, short>>

Next == Begin \/ Node \/ RunShort \/ Cut \/ Keep \/ End \/ Die

Spec == Init /\ [][Next]_vars
===============================================================================
