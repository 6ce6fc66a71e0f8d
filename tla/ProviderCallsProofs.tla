-------------------------- MODULE ProviderCallsProofs --------------------------
(***************************************************************************)
(* Proofs about ProviderCalls: what leaves the machine is bounded by the   *)
(* ceilings and the retries, and the recorded cost follows the bill, for   *)
(* any service, settings, prices and number of calls.                      *)
(***************************************************************************)
EXTENDS ProviderCalls, TLAPS

-----------------------------------------------------------------------------
(***************************************************************************)
(* Lemmas about products and responses.                                    *)
(***************************************************************************)

LEMMA OneMore ==
  ASSUME NEW d \in Int, NEW k \in Int
  PROVE  /\ d * k \in Int
         /\ d * (k + 1) = d * k + d
         /\ d * (k - 1) = d * k - d
OBVIOUS

LEMMA NoFewer ==
  ASSUME NEW d \in Nat, NEW j \in Int, NEW k \in Int, j <= k
  PROVE  d * j <= d * k
<1>1. d * j \in Int /\ d * k \in Int /\ d * (k - j) \in Int  BY OneMore
<1>2. d * (k - j) = d * k - d * j  OBVIOUS
<1>3. d * (k - j) >= 0
  <2>1. k - j \in Nat  OBVIOUS
  <2> QED BY <2>1
<1> QED BY <1>1, <1>2, <1>3

\* What rounding changes.
LEMMA Rounds ==
  ASSUME NEW h \in Nat \ {0}, h = HalfMicro, NEW x \in Nat
  PROVE  /\ Rounded(x) \in Nat /\ Rounded(x) <= x + h /\ x <= Rounded(x) + h
         /\ Rounded(0) = 0
<1> DEFINE micro == 2 * h
           low == x \div micro
           rest == x % micro
<1>1. micro \in Nat /\ micro > 0  OBVIOUS
<1>2. low \in Nat /\ rest \in 0..micro - 1 /\ x = micro * low + rest  BY <1>1
<1>3. micro * low \in Nat /\ micro * (low + 1) = micro * low + micro  BY <1>1, <1>2, OneMore
<1>4. Rounded(x) = IF rest > h \/ (rest = h /\ low % 2 = 1) THEN micro * (low + 1) ELSE micro * low
  BY DEF Rounded
<1>5. 0 \div micro = 0 /\ 0 % micro = 0  BY <1>1
<1>6. Rounded(0) = 0
  <2>1. Rounded(0) = micro * (0 \div micro)  BY <1>5 DEF Rounded
  <2> QED BY <1>1, <1>5, <2>1
<1> HIDE DEF micro, low, rest
<1>7. rest \in Int /\ h \in Nat /\ h + h = micro  BY <1>1, <1>2 DEF micro
<1> QED BY <1>1, <1>2, <1>3, <1>4, <1>6, <1>7

\* What a call may cost, and how it is recorded.
LEMMA Costs ==
  ASSUME ProviderAssumption, NEW t \in Tokens, TypeOK
  PROVE  /\ Rate * t \in Nat /\ Rate * t <= Dearest
         /\ Price(ReportedTokens(t)) \in Nat
         /\ Price(ReportedTokens(t)) <= Rate * t + HalfMicro
         /\ setup.listed /\ reports => Rate * t <= Price(ReportedTokens(t)) + HalfMicro
<1>1. /\ t \in Nat /\ Rate \in Nat /\ Dearest \in Nat /\ Rate * t <= Dearest
      /\ HalfMicro \in Nat \ {0}
  BY DEF ProviderAssumption
<1>2. Rate * t \in Nat /\ Rate * 0 = 0  BY <1>1
<1>3. /\ Rounded(Rate * t) \in Nat /\ Rounded(0) = 0
      /\ Rounded(Rate * t) <= Rate * t + HalfMicro /\ Rate * t <= Rounded(Rate * t) + HalfMicro
  BY <1>1, <1>2, Rounds
<1>4. Price(ReportedTokens(t)) = IF setup.listed /\ reports THEN Rounded(Rate * t) ELSE 0
  BY <1>2, <1>3 DEF Price, ReportedTokens
<1> QED BY <1>1, <1>2, <1>3, <1>4

Pending == IF wire = Request THEN 1 ELSE 0
Unread == IF wire.kind = "answer" THEN 1 ELSE 0
UnreadBill == IF wire.kind = "answer" THEN Rate * wire.tokens ELSE 0

\* What rounding may have added to the recorded cost, or taken from it.
Rounding == HalfMicro * usage.calls

LEMMA Kinds ==
  /\ Nothing.kind = "nothing" /\ Request.kind = "request" /\ Nothing # Request
  /\ \A r \in Responses :
       /\ r.kind \in {"answer", "malformed", "error"} /\ r # Nothing /\ r # Request
       /\ r.kind \in {"answer", "malformed"} => r.tokens \in Tokens
       /\ r.kind = "error" => r.status \in Statuses
<1>1. \A r \in [kind : {"answer", "malformed"}, tokens : Tokens] :
        r.kind \in {"answer", "malformed"} /\ r.tokens \in Tokens
  OBVIOUS
<1>2. \A r \in [kind : {"error"}, status : Statuses] : r.kind = "error" /\ r.status \in Statuses
  OBVIOUS
<1>3. Nothing.kind = "nothing" /\ Request.kind = "request"  BY DEF Nothing, Request
<1>4. \A r \in Responses :
        /\ r.kind \in {"answer", "malformed", "error"}
        /\ r.kind \in {"answer", "malformed"} => r.tokens \in Tokens
        /\ r.kind = "error" => r.status \in Statuses
  BY <1>1, <1>2 DEF Responses
<1> QED BY <1>3, <1>4

-----------------------------------------------------------------------------
(***************************************************************************)
(* The inductive invariant.                                                *)
(***************************************************************************)

\* Where complete() is, and what is out there then.
Attempts ==
  /\ Underway => attempt \in 1..Tries /\ begun >= 1 /\ ~OverBudget
  /\ pc = "backoff" => attempt < setup.max_retries
  /\ pc # "waiting" => wire = Nothing
  /\ pc = "waiting" => wire # Nothing
  /\ usage.calls <= setup.max_llm_calls_per_run

\* The requests of the earlier calls and of this one.
Requests ==
  /\ ~Underway => sent <= Tries * begun
  /\ Underway => sent <= Tries * (begun - 1) + (IF pc = "attempt" THEN attempt - 1 ELSE attempt)

\* Every request is served once at most, every counted answer was served.
Accounts ==
  /\ bill.served + lost + Pending <= sent
  /\ usage.calls + Unread <= bill.served

\* A request the service has dealt with, other than by a counted answer or one
\* that is still to be read.
Settled == sent - usage.calls - lost - Pending - Unread

Money ==
  /\ usage.cost + UnreadBill <= bill.cost + Rounding
  /\ setup.listed /\ reports =>
       bill.cost <= usage.cost + Rounding + UnreadBill + Dearest * Settled

CallsInv == TypeOK /\ Attempts /\ Requests /\ Accounts /\ Money

LEMMA TriesFacts ==
  ASSUME ProviderAssumption, TypeOK
  PROVE  /\ Tries \in Nat /\ Tries >= 1 /\ setup.max_retries <= Tries
         /\ setup.max_retries \in Nat /\ setup.max_llm_calls_per_run \in Nat
         /\ setup.max_cost_usd_per_run \in Nat
BY DEF ProviderAssumption, TypeOK, Tries

-----------------------------------------------------------------------------
LEMMA CallsInit == ASSUME ProviderAssumption, Init PROVE CallsInv
<1>1. TypeOK  BY DEF Init, TypeOK, ProviderAssumption, Nothing
<1>2. Tries \in Nat  BY <1>1, TriesFacts
<1>3. wire = Nothing /\ Nothing.kind = "nothing" /\ Nothing # Request  BY Kinds DEF Init
<1>4. Pending = 0 /\ Unread = 0 /\ UnreadBill = 0
  BY <1>3 DEF Pending, Unread, UnreadBill
<1>5. Attempts  BY <1>1, <1>3, TriesFacts DEF Init, Attempts, Underway
<1>6. Requests  BY <1>2 DEF Init, Requests, Underway
<1>7. Accounts  BY <1>4 DEF Init, Accounts
<1>8. Money
  <2>1. Settled = 0  BY <1>4 DEF Init, Settled
  <2>2. Dearest * 0 = 0 /\ HalfMicro * 0 = 0  BY DEF ProviderAssumption
  <2>3. Rounding = 0  BY <2>2 DEF Init, Rounding
  <2> QED BY <1>4, <2>1, <2>2, <2>3 DEF Init, Money
<1> QED BY <1>1, <1>5, <1>6, <1>7, <1>8 DEF CallsInv

LEMMA CallsTypes ==
  ASSUME ProviderAssumption, TypeOK, [Next]_vars
  PROVE  TypeOK'
<1> USE DEF TypeOK
<1>1. CASE UNCHANGED vars  BY <1>1 DEF vars
<1>2. CASE Refuse \/ Begin  BY <1>2 DEF Refuse, Begin, Begins
<1>3. CASE FailWithoutKey  BY <1>3 DEF FailWithoutKey, Ends
<1>4. CASE Send  BY <1>4 DEF Send
<1>5. CASE NoAnswer  BY <1>5 DEF NoAnswer, Failed, Ends
<1>6. CASE ErrorStatus  BY <1>6 DEF ErrorStatus, Failed, Ends
<1>7. CASE Answer
  <2>1. wire \in Responses /\ wire.tokens \in Tokens  BY <1>7, Kinds DEF Answer
  <2>2. Price(ReportedTokens(wire.tokens)) \in Nat  BY <2>1, Costs
  <2> QED BY <1>7, <2>2 DEF Answer, Ends
<1>8. CASE Escape  BY <1>8 DEF Escape
<1>9. CASE Again  BY <1>9 DEF Again
<1>10. ASSUME NEW r \in Responses, Serve(r) PROVE TypeOK'
  <2>1. CASE r.kind = "error"  BY <1>10, <2>1 DEF Serve
  <2>2. CASE r.kind # "error"
    <3>1. r.tokens \in Tokens  BY <2>2, Kinds
    <3>2. Rate * r.tokens \in Nat  BY <3>1, Costs
    <3> QED BY <1>10, <2>2, <3>2 DEF Serve, Charge
  <2> QED BY <2>1, <2>2
<1>11. ASSUME NEW t \in Tokens, ServeLost(t) PROVE TypeOK'
  <2>1. Rate * t \in Nat  BY Costs
  <2> QED BY <1>11, <2>1 DEF ServeLost, Charge
<1>12. CASE DropLost  BY <1>12 DEF DropLost
<1> QED BY <1>1, <1>2, <1>3, <1>4, <1>5, <1>6, <1>7, <1>8, <1>9, <1>10, <1>11, <1>12
        DEF Next, Client, Service

-----------------------------------------------------------------------------
(***************************************************************************)
(* Where a call is.                                                        *)
(***************************************************************************)

LEMMA SettingsStay ==
  ASSUME [Next]_vars
  PROVE  setup' = setup /\ reports' = reports /\ Tries' = Tries
<1>1. setup' = setup /\ reports' = reports
  BY DEF vars, Next, Client, Service, Refuse, Begin, FailWithoutKey, Send, NoAnswer, ErrorStatus,
         Answer, Escape, Again, Serve, ServeLost, DropLost
<1> QED BY <1>1 DEF Tries

\* What a failed attempt leaves.
LEMMA FailedFacts ==
  ASSUME NoAnswer \/ ErrorStatus
  PROVE  /\ pc = "waiting" /\ wire' = Nothing
         /\ usage' = usage /\ begun' = begun /\ sent' = sent
         /\ pc' = "idle" \/ (pc' = "backoff" /\ attempt' = attempt /\ attempt < setup.max_retries)
<1>1. CASE NoAnswer  BY <1>1 DEF NoAnswer, Failed, Ends
<1>2. CASE ErrorStatus  BY <1>2 DEF ErrorStatus, Failed, Ends
<1> QED BY <1>1, <1>2

LEMMA AttemptsStep ==
  ASSUME ProviderAssumption, TypeOK, Attempts, [Next]_vars
  PROVE  Attempts'
<1>0. TypeOK' /\ setup' = setup /\ Tries' = Tries  BY CallsTypes, SettingsStay
<1>t. /\ Tries \in Nat /\ Tries >= 1 /\ setup.max_retries <= Tries
      /\ setup.max_retries \in Nat /\ setup.max_llm_calls_per_run \in Nat
  BY TriesFacts
<1>u. usage' = usage => (OverBudget' <=> OverBudget)  BY <1>0 DEF OverBudget
<1>1. CASE UNCHANGED vars  BY <1>0, <1>1, <1>u DEF vars, Attempts, Underway
<1>2. CASE Refuse  BY <1>0, <1>2, <1>u DEF Refuse, Begins, Attempts, Underway
<1>3. CASE Begin  BY <1>0, <1>t, <1>3, <1>u DEF Begin, Begins, Attempts, Underway, TypeOK
<1>4. CASE FailWithoutKey  BY <1>0, <1>4 DEF FailWithoutKey, Ends, Attempts, Underway
<1>5. CASE Send
  <2>1. Request # Nothing  BY Kinds
  <2> QED BY <1>0, <1>5, <1>u, <2>1 DEF Send, Attempts, Underway
<1>6. CASE NoAnswer \/ ErrorStatus
  BY <1>0, <1>6, <1>u, FailedFacts DEF Attempts, Underway
<1>7. CASE Answer
  <2>1. usage.calls < setup.max_llm_calls_per_run
    BY <1>7, <1>t DEF Answer, Attempts, Underway, OverBudget, TypeOK
  <2> QED BY <1>0, <1>t, <1>7, <2>1 DEF Answer, Ends, Attempts, Underway, TypeOK
<1>8. CASE Escape  BY <1>0, <1>8 DEF Escape, Attempts, Underway
<1>9. CASE Again  BY <1>0, <1>t, <1>9, <1>u DEF Again, Attempts, Underway, TypeOK
<1>10. ASSUME NEW r \in Responses, Serve(r) PROVE Attempts'
  <2>1. r # Nothing /\ Request # Nothing  BY Kinds
  <2>2. pc = "waiting"  BY <1>10, <2>1 DEF Serve, Attempts
  <2> QED BY <1>0, <1>10, <1>u, <2>1, <2>2 DEF Serve, Attempts, Underway
<1>11. ASSUME NEW t \in Tokens, ServeLost(t) PROVE Attempts'
  BY <1>0, <1>11, <1>u DEF ServeLost, Attempts, Underway
<1>12. CASE DropLost  BY <1>0, <1>12, <1>u DEF DropLost, Attempts, Underway
<1> QED BY <1>1, <1>2, <1>3, <1>4, <1>5, <1>6, <1>7, <1>8, <1>9, <1>10, <1>11, <1>12
        DEF Next, Client, Service

-----------------------------------------------------------------------------
(***************************************************************************)
(* How many requests.                                                      *)
(***************************************************************************)

\* A call that ends has sent no more than its attempts.
LEMMA CallOver ==
  ASSUME ProviderAssumption, TypeOK, Attempts, Requests, Underway
  PROVE  sent <= Tries * begun
<1>1. /\ Tries \in Nat /\ begun \in Nat /\ attempt \in Nat /\ sent \in Nat
      /\ attempt <= Tries
  BY TriesFacts DEF TypeOK, Attempts
<1>2. Tries * (begun - 1) = Tries * begun - Tries /\ Tries * begun \in Int  BY <1>1, OneMore
<1>3. sent <= Tries * (begun - 1) + attempt  BY <1>1, <1>2 DEF Requests
<1> QED BY <1>1, <1>2, <1>3

LEMMA RequestsStep ==
  ASSUME ProviderAssumption, TypeOK, Attempts, Requests, [Next]_vars
  PROVE  Requests'
<1>0. TypeOK' /\ Tries' = Tries  BY CallsTypes, SettingsStay
<1>t. Tries \in Nat /\ begun \in Nat /\ attempt \in Nat /\ sent \in Nat
  BY TriesFacts DEF TypeOK
<1>m. /\ Tries * begun \in Int /\ Tries * (begun - 1) \in Int
      /\ Tries * (begun + 1) = Tries * begun + Tries
  BY <1>t, OneMore
<1>e. ASSUME Underway, sent' = sent, begun' = begun, ~Underway' PROVE Requests'
  BY <1>0, <1>e, CallOver DEF Requests
<1>1. CASE UNCHANGED vars  BY <1>0, <1>1 DEF vars, Requests, Underway
<1>2. CASE Refuse
  <2>1. ~Underway /\ ~Underway' /\ sent' = sent /\ begun' = begun + 1
    BY <1>2 DEF Refuse, Begins, Underway
  <2> QED BY <1>0, <1>t, <1>m, <2>1 DEF Requests
<1>3. CASE Begin
  <2>1. /\ ~Underway /\ Underway' /\ sent' = sent /\ begun' = begun + 1
        /\ pc' = "attempt" /\ attempt' = 1
    BY <1>3 DEF Begin, Begins, Underway
  <2>2. begun' - 1 = begun  BY <1>t, <2>1
  <2> QED BY <1>0, <1>t, <1>m, <2>1, <2>2 DEF Requests
<1>4. CASE FailWithoutKey \/ Answer \/ Escape
  <2>1. Underway /\ ~Underway' /\ sent' = sent /\ begun' = begun
    BY <1>4 DEF FailWithoutKey, Answer, Escape, Ends, Underway
  <2> QED BY <1>e, <2>1
<1>5. CASE Send
  <2>1. /\ pc = "attempt" /\ pc' = "waiting" /\ sent' = sent + 1 /\ begun' = begun
        /\ attempt' = attempt
    BY <1>5 DEF Send
  <2> QED BY <1>0, <1>t, <1>m, <2>1 DEF Requests, Underway
<1>6. CASE NoAnswer \/ ErrorStatus
  <2>1. pc = "waiting" /\ sent' = sent /\ begun' = begun  BY <1>6, FailedFacts
  <2>2. pc' = "idle" \/ (pc' = "backoff" /\ attempt' = attempt)  BY <1>6, FailedFacts
  <2>3. CASE pc' = "idle"  BY <1>e, <2>1, <2>3 DEF Underway
  <2>4. CASE pc' = "backoff" /\ attempt' = attempt
    BY <1>0, <1>t, <1>m, <2>1, <2>4 DEF Requests, Underway
  <2> QED BY <2>2, <2>3, <2>4
<1>9. CASE Again
  BY <1>0, <1>t, <1>m, <1>9 DEF Again, Requests, Underway
<1>10. ASSUME NEW r \in Responses, Serve(r) PROVE Requests'
  BY <1>0, <1>10 DEF Serve, Requests, Underway
<1>11. ASSUME NEW t \in Tokens, ServeLost(t) PROVE Requests'
  BY <1>0, <1>11 DEF ServeLost, Requests, Underway
<1>12. CASE DropLost  BY <1>0, <1>12 DEF DropLost, Requests, Underway
<1> QED BY <1>1, <1>2, <1>3, <1>4, <1>5, <1>6, <1>9, <1>10, <1>11, <1>12
        DEF Next, Client, Service

-----------------------------------------------------------------------------
(***************************************************************************)
(* What is on the wire, and what each step does to it.                     *)
(***************************************************************************)

LEMMA WireFacts ==
  ASSUME ProviderAssumption, TypeOK
  PROVE  /\ Pending \in {0, 1} /\ Unread \in {0, 1} /\ UnreadBill \in Nat
         /\ UnreadBill <= Dearest
         /\ wire.kind # "answer" => Unread = 0 /\ UnreadBill = 0
         /\ wire.kind = "answer" => /\ Unread = 1 /\ Pending = 0 /\ wire.tokens \in Tokens
                                    /\ UnreadBill = Rate * wire.tokens
         /\ wire = Request => Pending = 1 /\ Unread = 0
         /\ wire # Request => Pending = 0
<1>1. wire.kind = "answer" => wire.tokens \in Tokens /\ wire # Request  BY Kinds DEF TypeOK
<1>2. CASE wire.kind = "answer"
  <2>1. Rate * wire.tokens \in Nat /\ Rate * wire.tokens <= Dearest  BY <1>1, <1>2, Costs
  <2> QED BY <1>1, <1>2, <2>1 DEF Pending, Unread, UnreadBill
<1>3. CASE wire.kind # "answer"
  BY <1>3 DEF Pending, Unread, UnreadBill, ProviderAssumption
<1> QED BY <1>2, <1>3

LEMMA Emptied ==
  ASSUME wire' = Nothing
  PROVE  Pending' = 0 /\ Unread' = 0 /\ UnreadBill' = 0
<1>1. wire' # Request /\ wire'.kind # "answer"  BY Kinds
<1> QED BY <1>1 DEF Pending, Unread, UnreadBill

LEMMA WireStays ==
  ASSUME wire' = wire, setup' = setup, reports' = reports
  PROVE  Pending' = Pending /\ Unread' = Unread /\ UnreadBill' = UnreadBill
BY DEF Pending, Unread, UnreadBill

\* A response: what was pending is now answered and charged, or settled.
LEMMA Served ==
  ASSUME ProviderAssumption, TypeOK, NEW r \in Responses, Serve(r)
  PROVE  /\ Pending = 1 /\ Unread = 0 /\ UnreadBill = 0 /\ Pending' = 0
         /\ usage' = usage /\ lost' = lost /\ sent' = sent
         /\ \/ /\ Unread' = 1 /\ bill'.served = bill.served + 1
               /\ UnreadBill' \in Nat
               /\ bill'.cost = bill.cost + UnreadBill'
            \/ /\ Unread' = 0 /\ UnreadBill' = 0
               /\ bill'.served \in {bill.served, bill.served + 1}
               /\ \E k \in 0..Dearest : bill'.cost = bill.cost + k
<1>1. /\ wire = Request /\ wire' = r /\ usage' = usage /\ lost' = lost /\ sent' = sent
      /\ setup' = setup /\ reports' = reports
      /\ IF r.kind = "error" THEN bill' = bill ELSE Charge(r.tokens)
  BY DEF Serve
<1>2. r.kind \in {"answer", "malformed", "error"} /\ r # Request /\ Request.kind # "answer"
  BY Kinds
<1>3. Pending = 1 /\ Unread = 0 /\ UnreadBill = 0 /\ Pending' = 0
  BY <1>1, <1>2 DEF Pending, Unread, UnreadBill
<1>4. bill.served \in Nat /\ bill.cost \in Nat /\ Dearest \in Nat
  BY DEF TypeOK, ProviderAssumption
<1>5. ASSUME r.kind # "error"
      PROVE  /\ r.tokens \in Tokens /\ Rate * r.tokens \in Nat /\ Rate * r.tokens <= Dearest
             /\ bill'.served = bill.served + 1 /\ bill'.cost = bill.cost + Rate * r.tokens
  <2>1. r.tokens \in Tokens  BY <1>2, <1>5, Kinds
  <2>2. Rate * r.tokens \in Nat /\ Rate * r.tokens <= Dearest  BY <2>1, Costs
  <2> QED BY <1>1, <1>5, <2>1, <2>2 DEF Charge
<1>6. CASE r.kind = "answer"
  <2>1. Unread' = 1 /\ UnreadBill' = Rate * r.tokens  BY <1>1, <1>6 DEF Unread, UnreadBill
  <2> QED BY <1>1, <1>3, <1>5, <1>6, <2>1
<1>7. CASE r.kind = "malformed"
  <2>1. Unread' = 0 /\ UnreadBill' = 0
    BY <1>1, <1>7 DEF Unread, UnreadBill
  <2>2. Rate * r.tokens \in 0..Dearest  BY <1>4, <1>5, <1>7
  <2> QED BY <1>1, <1>3, <1>4, <1>5, <1>7, <2>1, <2>2
<1>8. CASE r.kind = "error"
  <2>1. Unread' = 0 /\ UnreadBill' = 0
    BY <1>1, <1>8 DEF Unread, UnreadBill
  <2>2. bill'.cost = bill.cost + 0 /\ 0 \in 0..Dearest  BY <1>1, <1>4, <1>8
  <2> QED BY <1>1, <1>3, <1>8, <2>1, <2>2
<1> QED BY <1>2, <1>6, <1>7, <1>8

LEMMA NumberFacts ==
  ASSUME ProviderAssumption, TypeOK
  PROVE  /\ usage.calls \in Nat /\ usage.cost \in Nat /\ lost \in Nat /\ sent \in Nat
         /\ bill.served \in Nat /\ bill.cost \in Nat /\ Dearest \in Nat
         /\ HalfMicro \in Nat /\ Rounding \in Int
         /\ HalfMicro * (usage.calls + 1) = Rounding + HalfMicro
         /\ Settled \in Int /\ Dearest * Settled \in Int
         /\ Dearest * (Settled + 1) = Dearest * Settled + Dearest
<1>1. /\ usage.calls \in Nat /\ usage.cost \in Nat /\ lost \in Nat /\ sent \in Nat
      /\ bill.served \in Nat /\ bill.cost \in Nat /\ Dearest \in Nat
  BY DEF TypeOK, ProviderAssumption
<1>2. Settled \in Int  BY <1>1, WireFacts DEF Settled
<1>3. /\ HalfMicro \in Nat /\ Rounding \in Int
      /\ HalfMicro * (usage.calls + 1) = Rounding + HalfMicro
  BY <1>1, OneMore DEF ProviderAssumption, Rounding
<1> QED BY <1>1, <1>2, <1>3, OneMore

-----------------------------------------------------------------------------
(***************************************************************************)
(* The requests and the bill.                                              *)
(***************************************************************************)

\* Nothing on the wire changes, and nothing is counted or charged.
LEMMA NothingMoves ==
  ASSUME ProviderAssumption, TypeOK, Accounts, Money,
         wire' = wire, setup' = setup, reports' = reports, usage' = usage, lost' = lost,
         bill' = bill, sent' = sent
  PROVE  Accounts' /\ Money'
<1>1. Pending' = Pending /\ Unread' = Unread /\ UnreadBill' = UnreadBill
  BY WireStays
<1>2. Settled' = Settled /\ Rounding' = Rounding  BY <1>1 DEF Settled, Rounding
<1> QED BY <1>1, <1>2 DEF Accounts, Money

LEMMA SendCounts ==
  ASSUME ProviderAssumption, TypeOK, Attempts, Accounts, Money, Send
  PROVE  Accounts' /\ Money'
<1>1. wire = Nothing /\ wire # Request /\ wire.kind # "answer"  BY Kinds DEF Send, Attempts
<1>2. Pending = 0 /\ Unread = 0 /\ UnreadBill = 0  BY <1>1, WireFacts
<1>3. wire' = Request /\ Request.kind # "answer"  BY Kinds DEF Send
<1>4. Pending' = 1 /\ Unread' = 0 /\ UnreadBill' = 0
  BY <1>3 DEF Pending, Unread, UnreadBill
<1>5. /\ sent' = sent + 1 /\ usage' = usage /\ lost' = lost /\ bill' = bill
      /\ setup' = setup /\ reports' = reports
  BY DEF Send
<1>6. Settled' = Settled  BY <1>2, <1>4, <1>5, NumberFacts DEF Settled
<1>7. Rounding' = Rounding  BY <1>5 DEF Rounding
<1> QED BY <1>2, <1>4, <1>5, <1>6, <1>7, NumberFacts DEF Accounts, Money

\* What was on the wire is given up: a request is lost, an answer unread.
LEMMA GivenUp ==
  ASSUME ProviderAssumption, TypeOK, Accounts, Money, wire' = Nothing,
         setup' = setup, reports' = reports, usage' = usage, bill' = bill, sent' = sent,
         lost' = lost + Pending
  PROVE  Accounts' /\ Money'
<1>1. Pending' = 0 /\ Unread' = 0 /\ UnreadBill' = 0  BY Emptied
<1>2. Accounts' /\ Rounding' = Rounding  BY <1>1, WireFacts, NumberFacts DEF Accounts, Rounding
<1>3. CASE wire.kind = "answer"
  <2>1. Settled' = Settled + 1  BY <1>1, <1>3, WireFacts, NumberFacts DEF Settled
  <2>2. Dearest * Settled' = Dearest * Settled + Dearest  BY <2>1, NumberFacts
  <2> QED BY <1>1, <1>2, <2>2, WireFacts, NumberFacts DEF Money
<1>4. CASE wire.kind # "answer"
  <2>1. Settled' = Settled  BY <1>1, <1>4, WireFacts, NumberFacts DEF Settled
  <2> QED BY <1>1, <1>2, <1>4, <2>1, WireFacts, NumberFacts DEF Money
<1> QED BY <1>3, <1>4

LEMMA AnswerCounts ==
  ASSUME ProviderAssumption, TypeOK, Accounts, Money, Answer
  PROVE  Accounts' /\ Money'
<1>1. Pending' = 0 /\ Unread' = 0 /\ UnreadBill' = 0
  BY Emptied DEF Answer
<1>2. /\ lost' = lost /\ bill' = bill /\ sent' = sent /\ setup' = setup /\ reports' = reports
      /\ wire.kind = "answer"
      /\ usage'.calls = usage.calls + 1
      /\ usage'.cost = usage.cost + Price(ReportedTokens(wire.tokens))
  BY DEF Answer
<1>3. Unread = 1 /\ Pending = 0 /\ UnreadBill \in Nat  BY <1>2, WireFacts
<1>4. /\ Price(ReportedTokens(wire.tokens)) \in Nat
      /\ Price(ReportedTokens(wire.tokens)) <= UnreadBill + HalfMicro
      /\ setup.listed /\ reports => UnreadBill <= Price(ReportedTokens(wire.tokens)) + HalfMicro
  <2>1. wire.tokens \in Tokens /\ UnreadBill = Rate * wire.tokens  BY <1>2, WireFacts
  <2> QED BY <2>1, Costs
<1>5. Settled' = Settled  BY <1>1, <1>2, <1>3, NumberFacts DEF Settled
<1>6. Accounts'  BY <1>1, <1>2, <1>3, NumberFacts DEF Accounts
<1>7. Rounding' = Rounding + HalfMicro
  <2>1. Rounding' = HalfMicro * (usage.calls + 1)  BY <1>2 DEF Rounding
  <2> QED BY <2>1, NumberFacts
<1>8. Money'  BY <1>1, <1>2, <1>3, <1>4, <1>5, <1>7, NumberFacts DEF Money
<1> QED BY <1>6, <1>8

LEMMA ServiceCounts ==
  ASSUME ProviderAssumption, TypeOK, Accounts, Money, NEW r \in Responses, Serve(r)
  PROVE  Accounts' /\ Money'
<1>0. setup' = setup /\ reports' = reports /\ Rounding' = Rounding  BY DEF Serve, Rounding
<1>1. CASE /\ Unread' = 1 /\ bill'.served = bill.served + 1
           /\ UnreadBill' \in Nat
           /\ bill'.cost = bill.cost + UnreadBill'
  <2>1. Settled' = Settled  BY <1>1, Served, NumberFacts DEF Settled
  <2>2. Accounts'  BY <1>1, Served, NumberFacts DEF Accounts
  <2>3. Money'  BY <1>0, <1>1, <2>1, Served, NumberFacts DEF Money
  <2> QED BY <2>2, <2>3
<1>2. CASE /\ Unread' = 0 /\ UnreadBill' = 0
           /\ bill'.served \in {bill.served, bill.served + 1}
           /\ \E k \in 0..Dearest : bill'.cost = bill.cost + k
  <2>1. Settled' = Settled + 1  BY <1>2, Served, NumberFacts DEF Settled
  <2>2. Dearest * Settled' = Dearest * Settled + Dearest  BY <2>1, NumberFacts
  <2>3. bill'.cost \in Nat /\ bill.cost <= bill'.cost /\ bill'.cost <= bill.cost + Dearest
    BY <1>2, NumberFacts
  <2>4. Accounts'  BY <1>2, Served, NumberFacts DEF Accounts
  <2>5. Money'  BY <1>0, <1>2, <2>2, <2>3, Served, NumberFacts DEF Money
  <2> QED BY <2>4, <2>5
<1> QED BY <1>1, <1>2, Served

\* A lost request is served, for at most the dearest price, or dropped.
LEMMA LateCounts ==
  ASSUME ProviderAssumption, TypeOK, Accounts, Money,
         (\E t \in Tokens : ServeLost(t)) \/ DropLost
  PROVE  Accounts' /\ Money'
<1>1. /\ lost > 0 /\ lost' = lost - 1 /\ wire' = wire /\ usage' = usage /\ sent' = sent
      /\ setup' = setup /\ reports' = reports
  BY DEF ServeLost, DropLost
<1> DEFINE ChargedOnce ==
             /\ bill'.served \in {bill.served, bill.served + 1}
             /\ bill'.cost \in Nat /\ bill.cost <= bill'.cost /\ bill'.cost <= bill.cost + Dearest
<1>2. ChargedOnce
  <2>1. ASSUME NEW t \in Tokens, ServeLost(t) PROVE ChargedOnce
    <3>1. Rate * t \in Nat /\ Rate * t <= Dearest  BY Costs
    <3>2. bill'.served = bill.served + 1 /\ bill'.cost = bill.cost + Rate * t
      BY <2>1 DEF ServeLost, Charge
    <3> QED BY <3>1, <3>2, NumberFacts
  <2>2. ASSUME DropLost PROVE ChargedOnce
    <3>1. bill' = bill  BY <2>2 DEF DropLost
    <3> QED BY <3>1, NumberFacts
  <2> QED BY <2>1, <2>2
<1>3. Pending' = Pending /\ Unread' = Unread /\ UnreadBill' = UnreadBill
  BY <1>1, WireStays
<1>4. Settled' = Settled + 1  BY <1>1, <1>3, WireFacts, NumberFacts DEF Settled
<1>5. Dearest * Settled' = Dearest * Settled + Dearest  BY <1>4, NumberFacts
<1>6. Accounts' /\ Rounding' = Rounding  BY <1>1, <1>2, <1>3, WireFacts, NumberFacts DEF Accounts, Rounding
<1>7. Money'  BY <1>1, <1>2, <1>3, <1>5, <1>6, WireFacts, NumberFacts DEF Money
<1> QED BY <1>6, <1>7

LEMMA AccountsStep ==
  ASSUME ProviderAssumption, TypeOK, Attempts, Accounts, Money, [Next]_vars
  PROVE  Accounts' /\ Money'
<1>0. setup' = setup /\ reports' = reports  BY SettingsStay
<1>1. CASE UNCHANGED vars \/ Refuse \/ Begin \/ FailWithoutKey \/ Again
  <2>1. wire' = wire /\ usage' = usage /\ lost' = lost /\ bill' = bill /\ sent' = sent
    BY <1>1 DEF vars, Refuse, Begin, FailWithoutKey, Again
  <2> QED BY <1>0, <2>1, NothingMoves
<1>2. CASE Send  BY <1>2, SendCounts
<1>3. CASE NoAnswer
  <2>1. lost' = lost + Pending  BY <1>3, NumberFacts DEF NoAnswer, Pending
  <2> QED BY <1>0, <1>3, <2>1, GivenUp DEF NoAnswer
<1>4. CASE ErrorStatus \/ Escape
  <2>1. wire # Request  BY <1>4, Kinds DEF ErrorStatus, Escape
  <2>2. lost' = lost + Pending  BY <1>4, <2>1, NumberFacts DEF ErrorStatus, Escape, Pending
  <2> QED BY <1>0, <1>4, <2>2, GivenUp DEF ErrorStatus, Escape
<1>5. CASE Answer  BY <1>5, AnswerCounts
<1>6. CASE Service  BY <1>6, ServiceCounts, LateCounts DEF Service
<1> QED BY <1>1, <1>2, <1>3, <1>4, <1>5, <1>6 DEF Next, Client

-----------------------------------------------------------------------------
(***************************************************************************)
(* The theorems.                                                           *)
(***************************************************************************)

\* The inductive invariant: where a call is, how many requests it has sent, and
\* what was charged for the requests so far.
THEOREM CallsInvariant == Spec => []CallsInv
<1> USE ProviderAssumption
<1>1. Init => CallsInv  BY CallsInit
<1>2. CallsInv /\ [Next]_vars => CallsInv'
  BY CallsTypes, AttemptsStep, RequestsStep, AccountsStep DEF CallsInv
<1> QED BY <1>1, <1>2, PTL DEF Spec

\* The ceilings and the retries bound the requests, and past a ceiling none is
\* under way, however many calls are made and whatever the service does.
THEOREM RequestsAlwaysBounded == Spec => []RequestsBounded
<1> USE ProviderAssumption
<1>1. CallsInv => RequestsBounded
  <2> SUFFICES ASSUME CallsInv PROVE RequestsBounded  OBVIOUS
  <2> USE DEF CallsInv
  <2>1. sent <= Tries * begun  BY CallOver DEF Requests
  <2>2. bill.served + lost + (IF wire = Request THEN 1 ELSE 0) <= sent
    BY DEF Accounts, Pending
  <2>3. usage.calls <= bill.served  BY WireFacts, NumberFacts DEF Accounts
  <2>4. usage.calls <= setup.max_llm_calls_per_run /\ (OverBudget => ~Underway)  BY DEF Attempts
  <2> QED BY <2>1, <2>2, <2>3, <2>4 DEF RequestsBounded
<1> QED BY <1>1, CallsInvariant, PTL

\* The recorded cost is above the bill by no more than the rounding of the counted
\* answers, and below it by no more than that and the dearest answer for each
\* request that brought no counted answer.
THEOREM BillAlwaysTracked == Spec => []BillTracksUsage
<1> USE ProviderAssumption
<1>1. CallsInv => BillTracksUsage
  <2> SUFFICES ASSUME CallsInv PROVE BillTracksUsage  OBVIOUS
  <2> USE DEF CallsInv
  <2>1. usage.cost <= bill.cost + Rounding  BY WireFacts, NumberFacts DEF Money
  <2>2. ASSUME setup.listed, reports
        PROVE  bill.cost <= usage.cost + Rounding + Dearest * (sent - usage.calls)
    <3>1. bill.cost <= usage.cost + Rounding + UnreadBill + Dearest * Settled  BY <2>2 DEF Money
    <3>2. Settled + Unread <= sent - usage.calls /\ Settled + Unread \in Int
      BY WireFacts, NumberFacts DEF Settled
    <3>4. Dearest * (Settled + Unread) <= Dearest * (sent - usage.calls)
      BY <3>2, NoFewer, NumberFacts
    <3>5. Dearest * Settled + UnreadBill <= Dearest * (Settled + Unread)
      BY WireFacts, NumberFacts
    <3>6. Dearest * (sent - usage.calls) \in Int  BY NumberFacts, OneMore
    <3>7. Dearest * (Settled + Unread) \in Int  BY <3>2, NumberFacts, OneMore
    <3> QED BY <3>1, <3>4, <3>5, <3>6, <3>7, WireFacts, NumberFacts
  <2> QED BY <2>1, <2>2 DEF BillTracksUsage, Rounding
<1> QED BY <1>1, CallsInvariant, PTL
-----------------------------------------------------------------------------
(***************************************************************************)
(* A call goes forward: the safety part of CallsEnd.                       *)
(***************************************************************************)

\* How far an attempt has come.
Stride(p) == CASE p = "attempt" -> 1 [] p = "waiting" -> 2 [] p = "backoff" -> 3

\* Further within the attempt, or the next one.
GoesForward ==
  \/ attempt' = attempt /\ Stride(pc') > Stride(pc)
  \/ attempt' = attempt + 1

LEMMA ForwardStep ==
  ASSUME CallsInv, Client, Underway, Underway'
  PROVE  GoesForward
<1>1. CASE Refuse \/ Begin  BY <1>1 DEF Refuse, Begin, Begins, Underway
<1>2. CASE FailWithoutKey \/ Answer \/ Escape
  BY <1>2 DEF FailWithoutKey, Answer, Escape, Ends, Underway
<1>3. CASE Send  BY <1>3 DEF Send, GoesForward, Stride
<1>4. CASE NoAnswer \/ ErrorStatus  BY <1>4, FailedFacts DEF Underway, GoesForward, Stride
<1>5. CASE Again  BY <1>5 DEF Again, GoesForward
<1> QED BY <1>1, <1>2, <1>3, <1>4, <1>5 DEF Client

\* No call goes on for ever: every step of complete() that does not end it takes
\* it further within its attempt or to the next of at most max(1, max_retries),
\* and what the service does meanwhile takes it nowhere.
THEOREM CallsGoForward ==
  Spec => [][Underway /\ Underway' =>
               /\ Client => GoesForward
               /\ Service => UNCHANGED <<pc, attempt>>
               /\ attempt' \in 1..Tries /\ Tries' = Tries]_vars
<1> USE ProviderAssumption
<1> DEFINE A == Underway /\ Underway' =>
                  /\ Client => GoesForward
                  /\ Service => UNCHANGED <<pc, attempt>>
                  /\ attempt' \in 1..Tries /\ Tries' = Tries
<1>1. CallsInv /\ CallsInv' /\ [Next]_vars => [A]_vars
  <2> SUFFICES ASSUME CallsInv, CallsInv', [Next]_vars, Underway, Underway' PROVE A  OBVIOUS
  <2>1. Client => GoesForward  BY ForwardStep
  <2>2. Service => UNCHANGED <<pc, attempt>>  BY DEF Service, Serve, ServeLost, DropLost
  <2>3. Tries' = Tries  BY SettingsStay
  <2>4. attempt' \in 1..Tries  BY <2>3 DEF CallsInv, Attempts
  <2> QED BY <2>1, <2>2, <2>3, <2>4
<1>2. Spec => [][A]_vars
  <2> HIDE DEF A
  <2> QED BY <1>1, CallsInvariant, PTL DEF Spec
<1> QED BY <1>2
===============================================================================
