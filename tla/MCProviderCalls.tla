--------------------------- MODULE MCProviderCalls ---------------------------
(* A model with a price behind a key, one whose key is missing, one without a *)
(* price, and one whose settings allow no retry; prices in quarters of a      *)
(* micro-dollar, so that they are rounded up, down and at the half.           *)
EXTENDS ProviderCalls

Setup(provider, key, listed, calls, cost, retries) ==
  [provider |-> provider, key |-> key, listed |-> listed, max_llm_calls_per_run |-> calls,
   max_cost_usd_per_run |-> cost, max_retries |-> retries]

AllSetups ==
  {Setup("anthropic", TRUE, TRUE, 2, 5, 3), Setup("gemini", FALSE, TRUE, 2, 5, 2),
   Setup("ollama", FALSE, FALSE, 2, 1, 2), Setup("groq", TRUE, TRUE, 3, 3, 0),
   Setup("unknown", TRUE, TRUE, 1, 1, 1)}
===============================================================================
