----------------------------- MODULE MCMcpServer -----------------------------
(* Five controls of two frameworks, a corpus before and one after an edit of  *)
(* its files, and a client that calls every tool rightly and wrongly.         *)
EXTENDS McpServer

AllControls == {"N1", "N2", "N3", "G1", "G2"}
Before == <<"N1", "G1", "G2">>
After == <<"N1", "N2", "N3", "G1">>
BothCorpora == {Before, After}
AllQueries == AllControls \union {"transfer", "gibberish"}
FrameworkOf == [c \in AllControls |-> IF c \in {"G1", "G2"} THEN "GDPR" ELSE "NDMO"]

\* How close two texts are: a text to itself, to its neighbours, to the rest.
\* The text of G1 is short, and closer to others than to its own question.
Cosine ==
  [q \in AllQueries |-> [c \in AllControls |->
     CASE q = "G1" -> (CASE c \in {"N1", "N2"} -> 4 [] c = "G1" -> 1 [] OTHER -> 2)
       [] q = c -> 4
       [] q = "N2" /\ c \in {"G1", "G2"} -> 3
       [] q = "transfer" -> (CASE c = "N3" -> 3 [] c = "G2" -> 3 [] c = "G1" -> 2 [] OTHER -> 1)
       [] OTHER -> 0]]

\* A query of terms no control has scores nowhere; the terms of "transfer" are
\* rarer where there is one text less that has them.
Terms ==
  [packs \in BothCorpora |-> [q \in AllQueries |-> [c \in AllControls |->
     CASE q = "G1" -> (CASE c = "G1" -> 1 [] c = "N1" -> 3 [] OTHER -> 2)
       [] q = c -> 5
       [] q = "transfer" -> (CASE c = "G1" -> (IF packs = Before THEN 2 ELSE 1)
                               [] c = "N1" -> 2 [] c = "G2" -> 3 [] OTHER -> 0)
       [] OTHER -> 0]]]

TwoOrders == {<<"N1", "N2", "N3", "G1", "G2">>, <<"G2", "G1", "N3", "N2", "N1">>}

Config(categories, affects, automated, human, transfer) ==
  [data_categories |-> categories, affects_individuals |-> affects,
   automated_decision_making |-> automated, human_in_the_loop |-> human,
   cross_border_transfer |-> transfer]

Platforms ==
  {Config({}, FALSE, FALSE, TRUE, FALSE), Config({"personal"}, FALSE, FALSE, TRUE, FALSE),
   Config({"personal"}, TRUE, TRUE, TRUE, TRUE), Config({"health"}, FALSE, FALSE, TRUE, FALSE),
   Config({"health"}, FALSE, FALSE, TRUE, TRUE),
   Config({"biometric", "health"}, FALSE, TRUE, FALSE, FALSE)}

Call(tool) == [form |-> "object", id |-> <<"id", 0>>, method |-> "tools/call", tool |-> tool]
Search(query, top_k, frameworks) ==
  Call("search_controls") @@ [query |-> query, top_k |-> top_k, frameworks |-> frameworks]
Assess(frameworks, valid, blocked) ==
  Call("assess_platform") @@ [frameworks |-> frameworks, valid |-> valid, blocked |-> blocked]
Message(id, method) == [form |-> "object", id |-> id, method |-> method]

AllLines ==
  {[form |-> "blank"], [form |-> "garbage"], [form |-> "array"],
   Message(<<"id", 0>>, "ping"),
   Message(NoId, "notifications/initialized"), Message(<<"id", 0>>, "notifications/initialized"),
   Message(NoId, "other"), Message(<<"id", 0>>, "other"),
   Call("unknown"), Call("malformed"), Call("list_frameworks"), Call("get_control") @@ [control_id |-> "G2"],
   Search("", 1, {}), Search("gibberish", 2, {}), Search("transfer", 1, {}),
   Search("transfer", 0, {"NDMO"}),
   Assess({}, TRUE, FALSE), Assess({"NDMO"}, TRUE, FALSE), Assess({}, FALSE, FALSE), Assess({}, TRUE, TRUE),
   Call("evaluate_transaction") @@ [transaction |-> "t", valid |-> TRUE],
   Call("evaluate_transaction") @@ [transaction |-> "t", valid |-> FALSE],
   Call("verify_audit_ledger") @@ [path |-> 1]}
  \union {Call("classify_risk") @@ [platform |-> p, valid |-> TRUE] : p \in Platforms}

\* The enumeration, the selection and the sum by counting are those of the
\* community modules, over every set of four numbers and every weight up to 2.
ASSUME EnumerationAgrees ==
  \A T \in SUBSET (1..4) :
     /\ Enumerate(T, Ascending(T)) = SetToSortSeq(T, <)
     /\ Picked(<<1, 2, 3, 4>>, T) = SelectSeq(<<1, 2, 3, 4>>, LAMBDA i : i \in T)
     /\ \A f \in [T -> 0..2] : SumOf(f, T) = MapThenSumSet(LAMBDA x : f[x], T)
=============================================================================
