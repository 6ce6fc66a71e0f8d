---------------------------- MODULE MCApiService ----------------------------
(* Two keys of the identity provider, an assessor, an administrator, a       *)
(* reader and a developer, with different spellings of their roles, and a    *)
(* client without a token; all of them share one bucket.                     *)
EXTENDS ApiService, TLC

CONSTANTS s1, s2, k1, k2, desk

SlotSym == Permutations(Slots)

\* No step reads the latest answer.
View == <<mode, published, listed, gone, cache, rate, passed, reports, runs, slot, told, audit>>

Token(kid, signer, subject, claims) ==
  [kid |-> kid, signer |-> signer, subject |-> subject, claims |-> claims, valid |-> TRUE]

Assessor == Token(k1, k1, "ana", [roles |-> {"assess"}])
Admin == Token(k2, k2, "bo", [scope |-> {"admin"}, scp |-> {}])
Reader == Token(NoKid, k2, "cy", [permissions |-> {"read"}])
Developer == Token(NoKid, "dev", "di", [roles |-> {"read"}])

Ask(key, token, path) ==
  [key |-> key, token |-> token, path |-> path, platform |-> "p", run |-> 1, oversized |-> FALSE]

AllRequests ==
  {Ask(desk, Assessor, "assess"), [Ask(desk, Admin, "assess") EXCEPT !.platform = "q"],
   Ask(desk, Reader, "report"), Ask(desk, Developer, "assess"),
   Ask(desk, NoToken, "assess"), Ask(desk, NoToken, "health"),
   [Ask(desk, NoToken, "assess") EXCEPT !.oversized = TRUE]}
=============================================================================
