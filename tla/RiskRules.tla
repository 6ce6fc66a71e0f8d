------------------------------ MODULE RiskRules ------------------------------
(***************************************************************************)
(* The risk tier of a platform's configuration (agents/risk.py).           *)
(*                                                                         *)
(* The code assigns the tier again with each rule that fires, so that the  *)
(* last one wins; the cross-border rule only lifts the lowest tier.  Read   *)
(* from its end this is a choice by precedence.                            *)
(***************************************************************************)
EXTENDS Naturals

RiskTier == <<"minimal", "limited", "high", "unacceptable">>

\* DataCategory, as far as a rule names one.
SENSITIVE == {"sensitive_personal", "health", "biometric", "government_id", "children"}
DataCategory == SENSITIVE \union {"personal", "none"}

HasPersonal(config) == config.data_categories \intersect (SENSITIVE \union {"personal"}) # {}
HasSensitive(config) == config.data_categories \intersect SENSITIVE # {}

Decides(config) == config.automated_decision_making /\ config.affects_individuals

\* Art. 5 screening.
Prohibited(config) ==
  "biometric" \in config.data_categories /\ config.automated_decision_making /\ ~config.human_in_the_loop

\* Mutant of assess_risk: a transfer abroad is handled by the last word.
assess_risk_LastWord(config) ==
  CASE config.cross_border_transfer /\ HasPersonal(config) -> 2
    [] Prohibited(config) -> 4
    [] HasSensitive(config) \/ Decides(config) -> 3
    [] HasPersonal(config) \/ config.affects_individuals -> 2
    [] OTHER -> 1

\* The position in RiskTier of the tier.
assess_risk(config) ==
  IF Prohibited(config) THEN 4
  ELSE IF HasSensitive(config) \/ Decides(config) THEN 3
  ELSE IF HasPersonal(config) \/ config.affects_individuals THEN 2
  ELSE 1

\* The rules that fire, by what they say.
drivers(config) ==
  {d \in {"personal", "individuals", "sensitive", "automated", "nobody_in_the_loop", "children",
          "biometric", "cross_border", "nothing_declared"} :
     CASE d = "personal" -> HasPersonal(config)
       [] d = "individuals" -> config.affects_individuals
       [] d = "sensitive" -> HasSensitive(config)
       [] d = "automated" -> Decides(config)
       [] d = "nobody_in_the_loop" -> Decides(config) /\ ~config.human_in_the_loop
       [] d = "children" -> "children" \in config.data_categories
       [] d = "biometric" -> Prohibited(config)
       [] d = "cross_border" -> config.cross_border_transfer /\ HasPersonal(config)
       [] OTHER -> ~HasPersonal(config) /\ ~config.affects_individuals}

\* d declares all that c declares, and no more human control.
Exposes(d, c) ==
  /\ c.data_categories \subseteq d.data_categories
  /\ c.affects_individuals => d.affects_individuals
  /\ c.automated_decision_making => d.automated_decision_making
  /\ c.cross_border_transfer => d.cross_border_transfer
  /\ d.human_in_the_loop => c.human_in_the_loop
=============================================================================
