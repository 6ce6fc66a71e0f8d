----------------------------- MODULE ProviderCalls -----------------------------
(***************************************************************************)
(* The calls of one run to an HTTP model: ModelRouter.complete             *)
(* (llm/router.py) and what it takes from an attempt of the provider       *)
(* (llm/providers.py), against a service that works, answers and bills on  *)
(* its own.  A request whose answer did not come may still be served, and  *)
(* is paid for then.                                                       *)
(*                                                                         *)
(* AssessmentPipeline has one step per call; here a call is its attempts.  *)
(* The offline provider makes no requests and is in OfflineRules.  The     *)
(* service is not part of the repository: it may do whatever _post and the *)
(* adapters tell apart.                                                    *)
(***************************************************************************)
EXTENDS Integers

CONSTANTS
  Setups,        \* settings, key and model a run may be started with
  Services,      \* whether the service reports usage in its answers
  Tokens,        \* the tokens an answer may take
  Statuses,      \* the statuses >= 400 the service may answer with
  Rate,          \* the price of a token
  HalfMicro,     \* half a micro-dollar, in the units of the prices
  Dearest,       \* what an answer costs at most
  MaxCompletes   \* bound on the calls of complete()

ASSUME ProviderAssumption ==
  /\ \A s \in Setups :
       /\ s.max_llm_calls_per_run \in Nat /\ s.max_cost_usd_per_run \in Nat
       /\ s.max_retries \in Nat
       /\ s.key \in BOOLEAN /\ s.listed \in BOOLEAN
  /\ Services \subseteq BOOLEAN
  /\ Tokens \subseteq Nat
  /\ Rate \in Nat /\ HalfMicro \in Nat \ {0}
  /\ Dearest \in Nat /\ MaxCompletes \in Nat
  /\ \A t \in Tokens : Rate * t <= Dearest

VARIABLES
  setup,     \* the run's settings: they do not change
  reports,   \* the service reports usage
  usage,     \* router.usage
  pc,        \* what complete() is doing; "escaped" once an exception ended the run
  attempt,   \* complete()'s variable of that name
  wire,      \* the request of this attempt, or the response to it
  lost,      \* requests the service still has though nobody waits for them
  bill,      \* what the service charges for
  sent,      \* requests sent
  begun,     \* calls of complete()
  outcome    \* how the latest of them ended

vars == <<setup, reports, usage, pc, attempt, wire, lost, bill, sent, begun, outcome>>

Nothing == [kind |-> "nothing"]
Request == [kind |-> "request"]

-----------------------------------------------------------------------------
\* _REGISTRY, without the offline provider: the adapter of each provider.
Registry ==
  [anthropic |-> "anthropic", openai |-> "openai", azure_openai |-> "openai",
   groq |-> "openai", gemini |-> "gemini", ollama |-> "openai"]

\* The adapters that refuse to send a request without a key; the others leave
\* the header out and let the service refuse.
KeyRequired == {"anthropic", "gemini"}

\* _HttpProvider._post
Retryable(status) == status \in {408, 409, 425, 429, 500, 502, 503, 504}

\* round(x, 6): the nearest micro-dollar, of two the even one.
Rounded(x) ==
  LET micro == 2 * HalfMicro
      low   == x \div micro
      rest  == x % micro
  IN  micro * (IF rest > HalfMicro \/ (rest = HalfMicro /\ low % 2 = 1) THEN low + 1 ELSE low)

\* _price: a model that is not in PRICE_TABLE costs nothing.
Price(tokens) == IF setup.listed THEN Rounded(Rate * tokens) ELSE 0

\* The adapters' usage.get(..., 0)
ReportedTokens(tokens) == IF reports THEN tokens ELSE 0

\* What the service may answer.  A "malformed" response has status 200 and no
\* JSON, or JSON whose usage or content is null: resp.json() or the adapter
\* raises something that is not a ProviderError.
Responses ==
  [kind : {"answer", "malformed"}, tokens : Tokens] \union [kind : {"error"}, status : Statuses]

\* max(1, s.max_retries)
Tries == IF setup.max_retries > 1 THEN setup.max_retries ELSE 1

\* _check_budget raises BudgetExceeded.
OverBudget ==
  \/ usage.calls >= setup.max_llm_calls_per_run
  \/ usage.cost >= setup.max_cost_usd_per_run

Init ==
  /\ setup \in {s \in Setups : s.provider \in DOMAIN Registry}
  /\ reports \in Services
  /\ usage = [calls |-> 0, cost |-> 0]
  /\ pc = "idle" /\ attempt = 0
  /\ wire = Nothing /\ lost = 0
  /\ bill = [served |-> 0, cost |-> 0]
  /\ sent = 0 /\ begun = 0
  /\ outcome = "none"

-----------------------------------------------------------------------------
Begins == pc = "idle" /\ begun < MaxCompletes /\ begun' = begun + 1

Refuse ==
  /\ Begins /\ OverBudget
  /\ outcome' = "budget_exceeded"
  /\ UNCHANGED <<setup, reports, usage, pc, attempt, wire, lost, bill, sent>>

\* Mutant of Begin: the budget is not looked at.
Begin_Unchecked ==
  /\ Begins
  /\ pc' = "attempt" /\ attempt' = 1
  /\ outcome' = "none"
  /\ UNCHANGED <<setup, reports, usage, wire, lost, bill, sent>>

Begin ==
  /\ Begins /\ ~OverBudget
  /\ pc' = "attempt" /\ attempt' = 1
  /\ outcome' = "none"
  /\ UNCHANGED <<setup, reports, usage, wire, lost, bill, sent>>

\* complete() is over: it returned, or raised one of its two exceptions.
Ends(how) == pc' = "idle" /\ attempt' = 0 /\ outcome' = how

MissingKey == Registry[setup.provider] \in KeyRequired /\ ~setup.key

\* The adapter raises before it sends anything, and not for a retry.
FailWithoutKey ==
  /\ pc = "attempt" /\ MissingKey
  /\ Ends("provider_error")
  /\ UNCHANGED <<setup, reports, usage, wire, lost, bill, sent, begun>>

\* httpx.post
Send ==
  /\ pc = "attempt" /\ ~MissingKey
  /\ pc' = "waiting"
  /\ wire' = Request /\ sent' = sent + 1
  /\ UNCHANGED <<setup, reports, usage, attempt, lost, bill, begun, outcome>>

\* except ProviderError: raise, or sleep and go on.
Failed(retryable) ==
  IF retryable /\ attempt < setup.max_retries
  THEN pc' = "backoff" /\ UNCHANGED <<attempt, outcome>>
  ELSE Ends("provider_error")

\* Mutant of NoAnswer: httpx.post is given no timeout.
NoAnswer_NoTimeout ==
  /\ pc = "waiting" /\ wire # Request
  /\ lost' = lost /\ wire' = Nothing
  /\ Failed(TRUE)
  /\ UNCHANGED <<setup, reports, usage, bill, sent, begun>>

\* A timeout or a transport error.  The service may have the request, and not
\* have served it yet; or its response gets lost.
NoAnswer ==
  /\ pc = "waiting"
  /\ lost' = IF wire = Request THEN lost + 1 ELSE lost
  /\ wire' = Nothing
  /\ Failed(TRUE)
  /\ UNCHANGED <<setup, reports, usage, bill, sent, begun>>

ErrorStatus ==
  /\ pc = "waiting" /\ wire.kind = "error"
  /\ wire' = Nothing
  /\ Failed(Retryable(wire.status))
  /\ UNCHANGED <<setup, reports, usage, lost, bill, sent, begun>>

\* Mutant of Answer: the call is counted without its tokens being priced.
Answer_Unpriced ==
  /\ pc = "waiting" /\ wire.kind = "answer"
  /\ wire' = Nothing
  /\ usage' = [usage EXCEPT !.calls = @ + 1]
  /\ Ends("answer")
  /\ UNCHANGED <<setup, reports, lost, bill, sent, begun>>

Answer ==
  /\ pc = "waiting" /\ wire.kind = "answer"
  /\ wire' = Nothing
  /\ usage' = [calls |-> usage.calls + 1,
               cost |-> usage.cost + Price(ReportedTokens(wire.tokens))]
  /\ Ends("answer")
  /\ UNCHANGED <<setup, reports, lost, bill, sent, begun>>

\* Neither the provider nor the router nor an agent catches it: the run ends
\* (AssessmentPipeline!Crash).
Escape ==
  /\ pc = "waiting" /\ wire.kind = "malformed"
  /\ wire' = Nothing
  /\ pc' = "escaped" /\ attempt' = 0 /\ outcome' = "raised"
  /\ UNCHANGED <<setup, reports, usage, lost, bill, sent, begun>>

\* _sleep is over: the next attempt.
Again ==
  /\ pc = "backoff"
  /\ pc' = "attempt" /\ attempt' = attempt + 1
  /\ UNCHANGED <<setup, reports, usage, wire, lost, bill, sent, begun, outcome>>

-----------------------------------------------------------------------------
(***************************************************************************)
(* The service (external).                                                 *)
(***************************************************************************)

Charge(tokens) == bill' = [served |-> bill.served + 1, cost |-> bill.cost + Rate * tokens]

\* It serves the request, and charges for it, or answers with an error.
Serve(response) ==
  /\ wire = Request
  /\ wire' = response
  /\ IF response.kind = "error" THEN UNCHANGED bill ELSE Charge(response.tokens)
  /\ UNCHANGED <<setup, reports, usage, pc, attempt, lost, sent, begun, outcome>>

\* It serves a request whose sender has gone.
ServeLost(tokens) ==
  /\ lost > 0 /\ lost' = lost - 1
  /\ Charge(tokens)
  /\ UNCHANGED <<setup, reports, usage, pc, attempt, wire, sent, begun, outcome>>

\* Or it never got it, or gives it up.
DropLost ==
  /\ lost > 0 /\ lost' = lost - 1
  /\ UNCHANGED <<setup, reports, usage, pc, attempt, wire, bill, sent, begun, outcome>>

-----------------------------------------------------------------------------
Client ==
  \/ Refuse \/ Begin \/ FailWithoutKey \/ Send
  \/ NoAnswer \/ ErrorStatus \/ Answer \/ Escape \/ Again

Service ==
  \/ \E response \in Responses : Serve(response)
  \/ \E tokens \in Tokens : ServeLost(tokens)
  \/ DropLost

Next == Client \/ Service

Spec == Init /\ [][Next]_vars

\* A call under way goes on: an answer comes or httpx's timeout expires, a sleep
\* ends, nothing blocks.  Nobody has to call, and the service has to do nothing.
Goes == pc # "idle" /\ Client

FairSpec == Spec /\ WF_vars(Goes)

-----------------------------------------------------------------------------
(***************************************************************************)
(* Properties.                                                             *)
(***************************************************************************)

\* The types of the variables.
TypeOK ==
  /\ setup \in Setups /\ setup.provider \in DOMAIN Registry
  /\ reports \in Services
  /\ usage \in [calls : Nat, cost : Nat]
  /\ pc \in {"idle", "attempt", "waiting", "backoff", "escaped"}
  /\ attempt \in Nat
  /\ wire \in {Nothing, Request} \union Responses
  /\ lost \in Nat
  /\ bill \in [served : Nat, cost : Nat]
  /\ sent \in Nat /\ begun \in Nat
  /\ outcome \in {"none", "answer", "provider_error", "budget_exceeded", "raised"}

Underway == pc \in {"attempt", "waiting", "backoff"}

\* The ceilings and the retries bound what leaves the machine: no more requests
\* than attempts allowed in the calls begun, no more answers than the ceiling of
\* calls, what is still out or was answered was sent, and once a ceiling is
\* reached no request is under way and none will be (router.py:92-96: the budget
\* is looked at once per call, before its first attempt).
RequestsBounded ==
  /\ sent <= Tries * begun
  /\ usage.calls <= setup.max_llm_calls_per_run
  /\ bill.served + lost + (IF wire = Request THEN 1 ELSE 0) <= sent
  /\ usage.calls <= bill.served
  /\ OverBudget => ~Underway

\* How far the recorded cost may be from the bill, while PRICE_TABLE has the
\* service's prices: above it by no more than half a micro-dollar for each counted
\* answer, which is what rounding one price may add, and, for a model that is
\* listed and a service that reports usage, below it by no more than that and the
\* dearest answer for each request that brought no counted answer
\* (providers.py:24-25, 39, router.py:115-123).
BillTracksUsage ==
  LET rounding == HalfMicro * usage.calls
  IN  /\ usage.cost <= bill.cost + rounding
      /\ setup.listed /\ reports =>
           bill.cost <= usage.cost + rounding + Dearest * (sent - usage.calls)

\* Every call of complete() ends: with an answer, with an exception of its own,
\* or with one that ends the run.
CallsEnd == Underway ~> ~Underway
===============================================================================
