------------------------------ MODULE ApiService ------------------------------
(***************************************************************************)
(* The HTTP service (api/app.py, api/auth.py): the guard middleware with   *)
(* its sliding rate window, bearer tokens checked against a cached key set *)
(* of the identity provider, and the routes over the reports this process  *)
(* has made.                                                               *)
(*                                                                         *)
(* A request is in two steps.  The guard runs without a suspension up to   *)
(* call_next, and so do, once the route is called, the dependencies and    *)
(* the route itself: all of them are coroutines that await nothing else,   *)
(* the fetch of the keys and a whole assessment included.  Between the two *)
(* steps other requests run and time passes.                               *)
(*                                                                         *)
(* Time is a Tick.  A moment is kept as its age in ticks, up to one more   *)
(* than the longest age that any test tells apart.                         *)
(***************************************************************************)
EXTENDS Naturals, Sequences, FiniteSets

CONSTANTS
  Slots,                \* requests that may be in the service at a time
  Requests,             \* the requests the clients make
  Modes,                \* the ways the service may be configured
  Keys,                 \* signing keys of the identity provider
  NoKid,                \* the key id of a token that names none
  BucketKeys,           \* end of an Authorization header, or a host
  RATE_LIMIT_REQUESTS,
  RATE_LIMIT_WINDOW_S,  \* in ticks
  JWKS_CACHE_SECONDS,   \* settings.jwks_cache_seconds, in ticks
  MaxBucket,            \* bound on what other paths fill a bucket up to
  MaxRuns               \* bound on the assessments made

NoToken == [none |-> "token"]
Free == [none |-> "request"]

HasToken(req) == req.token # NoToken

ASSUME ApiAssumption ==
  /\ RATE_LIMIT_REQUESTS \in Nat \ {0}
  /\ RATE_LIMIT_WINDOW_S \in Nat /\ JWKS_CACHE_SECONDS \in Nat
  /\ MaxBucket \in Nat /\ MaxRuns \in Nat
  /\ IsFiniteSet(Slots) /\ NoKid \notin Keys
  /\ Modes \subseteq {"off", "jwks", "dev"}
  /\ Free \notin Requests
  /\ \A req \in Requests :
       /\ req.key \in BucketKeys /\ req.oversized \in BOOLEAN
       /\ HasToken(req) => /\ req.token.kid \in Keys \union {NoKid}
                          /\ req.token.signer # NoKid

VARIABLES
  mode,       \* "off": no authentication; "jwks": the provider's keys; "dev": a local secret
  published,  \* external: the keys the identity provider publishes, in order
  listed,     \* how long each key has been published without a break, 0 when it is not
  gone,       \* how long each key has not been published, 0 when it is
  cache,      \* _jwks: the keys fetched last and when
  rate,       \* app.state.rate: the moments of each bucket, oldest first
  passed,     \* history: the requests of each bucket the guard let pass
  reports,    \* app.state.reports
  runs,       \* run ids given out so far
  slot,       \* the request each slot works on
  reply,      \* the answer given in the latest step, if it gave one
  told,       \* history: what this process answered each assessment with
  audit       \* who asked for each run, from the runs' ledger files

vars == <<mode, published, listed, gone, cache, rate, passed, reports, runs,
          slot, reply, told, audit>>

NoCache == [none |-> "cache"]
NoReport == [none |-> "report"]
NoReply == [none |-> "reply"]
Nobody == ""

Init ==
  /\ mode \in Modes
  /\ \E k \in Keys : /\ published = <<k>>
                     /\ gone = [j \in Keys |-> IF j = k THEN 0 ELSE JWKS_CACHE_SECONDS + 1]
  /\ listed = [k \in Keys |-> 0]
  /\ cache = NoCache
  /\ rate = [b \in BucketKeys |-> << >>]
  /\ passed = [b \in BucketKeys |-> << >>]
  /\ reports = [r \in 1..MaxRuns |-> NoReport]
  /\ runs = 0
  /\ slot = [s \in Slots |-> Free]
  /\ reply = NoReply
  /\ told = reports
  /\ audit = [r \in 1..MaxRuns |-> Nobody]

-----------------------------------------------------------------------------
(***************************************************************************)
(* Time and the identity provider (external).                              *)
(***************************************************************************)

Older(age, most) == IF age > most THEN age ELSE age + 1

Publishes(k) == \E i \in 1..Len(published) : published[i] = k

Tick ==
  /\ listed' = [k \in Keys |->
       IF Publishes(k) THEN Older(listed[k], JWKS_CACHE_SECONDS) ELSE 0]
  /\ gone' = [k \in Keys |->
       IF Publishes(k) THEN 0 ELSE Older(gone[k], JWKS_CACHE_SECONDS)]
  /\ cache' = IF cache = NoCache THEN NoCache
              ELSE [cache EXCEPT !.age = Older(@, JWKS_CACHE_SECONDS)]
  /\ rate' = [b \in BucketKeys |->
       [i \in 1..Len(rate[b]) |-> Older(rate[b][i], RATE_LIMIT_WINDOW_S)]]
  /\ passed' = [b \in BucketKeys |->
       LET aged == [i \in 1..Len(passed[b]) |-> [passed[b][i] EXCEPT !.age = @ + 1]]
           old == {i \in 1..Len(aged) : aged[i].age > RATE_LIMIT_WINDOW_S}
       IN  SubSeq(aged, Cardinality(old) + 1, Len(aged))]
  /\ reply' = NoReply
  /\ UNCHANGED <<mode, published, reports, runs, slot, told, audit>>

\* The provider adds a key after the others, or withdraws its oldest one.
Rotate ==
  /\ \/ \E k \in Keys :
          /\ ~Publishes(k)
          /\ published' = Append(published, k)
          /\ gone' = [gone EXCEPT ![k] = 0]
          /\ UNCHANGED listed
     \/ /\ Len(published) > 1
        /\ published' = Tail(published)
        /\ listed' = [listed EXCEPT ![Head(published)] = 0]
        /\ UNCHANGED gone
  /\ reply' = NoReply
  /\ UNCHANGED <<mode, cache, rate, passed, reports, runs, slot, told, audit>>

-----------------------------------------------------------------------------
(***************************************************************************)
(* The guard middleware.                                                   *)
(***************************************************************************)

\* The moments that are out of the window leave from the left.
Trim(bucket) ==
  LET young == {i \in 1..Len(bucket) : bucket[i] <= RATE_LIMIT_WINDOW_S}
  IN  IF young = {} THEN << >>
      ELSE SubSeq(bucket, CHOOSE i \in young : \A j \in young : i <= j, Len(bucket))

\* Mutant of Full: one moment more than the limit.
Full_OffByOne(bucket) == Len(Trim(bucket)) > RATE_LIMIT_REQUESTS

\* Everything the bucket let pass counts, whatever its path.
Full(bucket) == Len(Trim(bucket)) >= RATE_LIMIT_REQUESTS

\* The guard answers in the route's place.
Refuse(req, status) ==
  /\ reply' = [status |-> status, key |-> req.key]
  /\ UNCHANGED <<passed, slot>>

Pass(s, req) ==
  /\ passed' = [passed EXCEPT ![req.key] = Append(@, [assess |-> req.path = "assess", age |-> 0])]
  /\ slot' = [slot EXCEPT ![s] = req]
  /\ reply' = NoReply

Assessing == {s \in Slots : slot[s] # Free /\ slot[s].path = "assess"}

\* guard, up to call_next.  Requests of the other paths are let pass, and kept,
\* without a limit: MaxBucket bounds them and no assessment.  MaxRuns bounds the
\* assessments that are under way or have a run.
guard(s, req) ==
  /\ slot[s] = Free
  /\ \/ /\ req.oversized
        /\ Refuse(req, 413)
        /\ UNCHANGED rate
     \/ /\ ~req.oversized
        /\ req.path = "assess" /\ Full(rate[req.key])
        /\ rate' = [rate EXCEPT ![req.key] = Trim(@)]
        /\ Refuse(req, 429)
     \/ /\ ~req.oversized
        /\ IF req.path = "assess"
           THEN ~Full(rate[req.key]) /\ runs + Cardinality(Assessing) < MaxRuns
           ELSE Len(Trim(rate[req.key])) < MaxBucket
        /\ rate' = [rate EXCEPT ![req.key] = Append(Trim(@), 0)]
        /\ Pass(s, req)
  /\ UNCHANGED <<mode, published, listed, gone, cache, reports, runs, told, audit>>

-----------------------------------------------------------------------------
(***************************************************************************)
(* Who asks: current_principal, decode_token and the cache of the keys.    *)
(***************************************************************************)

ROLE_IMPLIES ==
  [admin |-> {"admin", "assess", "read"}, assess |-> {"assess", "read"}, read |-> {"read"}]

\* Mutant of effective_roles: the implication is read the other way.
effective_roles_Upward(roles) ==
  {r \in DOMAIN ROLE_IMPLIES : \E held \in roles : held \in ROLE_IMPLIES[r]}

\* Principal.effective_roles
effective_roles(roles) ==
  UNION {IF r \in DOMAIN ROLE_IMPLIES THEN ROLE_IMPLIES[r] ELSE {r} : r \in roles}

\* _roles_from_claims: four spellings, all of them counted.
roles_from_claims(claims) == UNION {claims[spelling] : spelling \in DOMAIN claims}

Anonymous == [anonymous |-> TRUE, subject |-> "anonymous", roles |-> {}]

PrincipalOf(token) ==
  [anonymous |-> FALSE, subject |-> token.subject, roles |-> roles_from_claims(token.claims)]

has(principal, role) == principal.anonymous \/ role \in effective_roles(principal.roles)

\* Mutant of Due: a key set that is held is never fetched again.
Due_Never == cache = NoCache

\* _JwksCache.get fetches when it has nothing or what it has is too old.
Due == cache # NoCache => cache.age > JWKS_CACHE_SECONDS

\* Mutant of KeysInUse: what is fetched is used from the next request on.
KeysInUse_Late == IF cache = NoCache THEN published ELSE cache.keys

\* The keys that get() answers with; the fetch itself may fail.
KeysInUse == IF Due THEN published ELSE cache.keys

Refreshed == IF Due THEN [keys |-> published, age |-> 0] ELSE cache

\* The first key with the token's kid is the only one tried; any key matches a
\* token that names none.
Matching(token, keys) == {i \in 1..Len(keys) : token.kid \in {NoKid, keys[i]}}
SigningKey(token, keys) ==
  keys[CHOOSE i \in Matching(token, keys) : \A j \in Matching(token, keys) : i <= j]

\* jwt.decode: the signature is that key's, and the library finds nothing wrong
\* with issuer, audience and times.
Accepted(token, keys) ==
  /\ Matching(token, keys) # {}
  /\ token.signer = SigningKey(token, keys)
  /\ token.valid

-----------------------------------------------------------------------------
(***************************************************************************)
(* The routes.                                                             *)
(***************************************************************************)

Answer(s, status, body) ==
  /\ slot' = [slot EXCEPT ![s] = Free]
  /\ reply' = [status |-> status, body |-> body]

\* A request that changes nothing but its slot.
Plain(s, status, body) == Answer(s, status, body) /\ UNCHANGED <<reports, runs, told, audit>>

required_role(path) ==
  CASE path = "assess" -> {"assess"}
    [] path \in {"frameworks", "report"} -> {"read"}
    [] OTHER -> {}

\* assess: a new run, who asked for it in its ledger, the whole pipeline, and
\* the report under the run's id.  The pipeline may be blocked at intake, and
\* it or the record may raise, which the guard turns into 500.
Assess(s, who) ==
  LET run == runs + 1
      report == [run |-> run, platform |-> slot[s].platform]
  IN  /\ runs' = run
      /\ \/ /\ audit' = [audit EXCEPT ![run] = who.subject]
            /\ reports' = [reports EXCEPT ![run] = report]
            /\ told' = [told EXCEPT ![run] = report]
            /\ Answer(s, 200, report)
         \/ /\ audit' = [audit EXCEPT ![run] = who.subject]
            /\ Answer(s, 422, NoReport)
            /\ UNCHANGED <<reports, told>>
         \/ /\ audit' \in {audit, [audit EXCEPT ![run] = who.subject]}
            /\ Answer(s, 500, NoReport)
            /\ UNCHANGED <<reports, told>>

\* Mutant of GetReport: the latest report there is, whatever run is asked for.
GetReport_Latest(s) ==
  LET made == {r \in 1..MaxRuns : reports[r] # NoReport}
  IN  IF made # {}
      THEN Plain(s, 200, reports[CHOOSE r \in made : \A q \in made : q <= r])
      ELSE Plain(s, 404, NoReport)

\* get_report, get_report_html and get_remediation.
GetReport(s) ==
  LET run == slot[s].run
  IN  IF run \in 1..MaxRuns /\ reports[run] # NoReport
      THEN Plain(s, 200, reports[run]) ELSE Plain(s, 404, NoReport)

\* require_role and then the route.
Route(s, who) ==
  LET path == slot[s].path
  IN  \/ /\ \E role \in required_role(path) : ~has(who, role)
         /\ Plain(s, 403, NoReport)
      \/ /\ \A role \in required_role(path) : has(who, role)
         /\ \/ path = "assess" /\ Assess(s, who)
            \/ path = "report" /\ GetReport(s)
            \/ path \notin {"assess", "report"} /\ Plain(s, 200, NoReport)

\* Mutant of KeysFail: an answer that is an error is kept as a set of no keys.
KeysFail_Kept(s) ==
  /\ mode = "jwks" /\ Due
  /\ Plain(s, 401, NoReport)
  /\ cache' = [keys |-> << >>, age |-> 0]

\* The provider is asked for its keys and does not answer, or not with 200: the
\* exception is nobody's but the guard's.  Keys held until then stay held.
KeysFail(s) ==
  /\ mode = "jwks" /\ Due
  /\ Plain(s, 500, NoReport)
  /\ UNCHANGED cache

\* The token is looked at with the keys in use.
KeysAnswer(s) ==
  LET token == slot[s].token
  IN  /\ mode = "jwks"
      /\ cache' = Refreshed
      /\ IF Accepted(token, KeysInUse) THEN Route(s, PrincipalOf(token))
                                       ELSE Plain(s, 401, NoReport)

\* HS256 with the local secret.
DevSecret(s) ==
  LET token == slot[s].token
  IN  /\ mode = "dev"
      /\ IF token.signer = "dev" /\ token.valid THEN Route(s, PrincipalOf(token))
                                                ELSE Plain(s, 401, NoReport)
      /\ UNCHANGED cache

\* The rest of a request that the guard has let pass.
handle(s) ==
  /\ slot[s] # Free
  /\ \/ /\ slot[s].path = "health" \/ mode = "off"
        /\ Route(s, Anonymous)
        /\ UNCHANGED cache
     \/ /\ slot[s].path # "health" /\ mode # "off"
        /\ \/ ~HasToken(slot[s]) /\ Plain(s, 401, NoReport) /\ UNCHANGED cache
           \/ HasToken(slot[s]) /\ (KeysFail(s) \/ KeysAnswer(s) \/ DevSecret(s))
  /\ UNCHANGED <<mode, published, listed, gone, rate, passed>>

\* The process dies, and a new one starts with the environment of the day.
Restart ==
  /\ mode' \in Modes
  /\ cache' = NoCache
  /\ rate' = [b \in BucketKeys |-> << >>]
  /\ passed' = [b \in BucketKeys |-> << >>]
  /\ reports' = [r \in 1..MaxRuns |-> NoReport]
  /\ slot' = [s \in Slots |-> Free]
  /\ reply' = NoReply
  /\ told' = reports'
  /\ UNCHANGED <<published, listed, gone, runs, audit>>

Next ==
  \/ Tick \/ Rotate \/ Restart
  \/ \E s \in Slots : handle(s) \/ \E req \in Requests : guard(s, req)

Spec == Init /\ [][Next]_vars

-----------------------------------------------------------------------------
(***************************************************************************)
(* Properties.                                                             *)
(***************************************************************************)

Windowed == 0..RATE_LIMIT_WINDOW_S
KeyAge == 0..JWKS_CACHE_SECONDS + 1
Report == [run : 1..MaxRuns, platform : {req.platform : req \in Requests}]

TypeOK ==
  /\ mode \in Modes
  /\ published \in Seq(Keys) /\ published # << >>
  /\ \A i, j \in 1..Len(published) : published[i] = published[j] => i = j
  /\ listed \in [Keys -> KeyAge] /\ gone \in [Keys -> KeyAge]
  /\ cache \in {NoCache} \union [keys : Seq(Keys) \ {<< >>}, age : KeyAge]
  /\ rate \in [BucketKeys -> Seq(0..RATE_LIMIT_WINDOW_S + 1)]
  /\ passed \in [BucketKeys -> Seq([assess : BOOLEAN, age : Windowed])]
  /\ reports \in [1..MaxRuns -> Report \union {NoReport}]
  /\ runs \in 0..MaxRuns
  /\ slot \in [Slots -> Requests \union {Free}]
  /\ reply \in {NoReply} \union [status : {413, 429}, key : BucketKeys] \union
       [status : {200, 401, 403, 404, 422, 500}, body : Report \union {NoReport}]
  /\ told \in [1..MaxRuns -> Report \union {NoReport}]
  /\ audit \in [1..MaxRuns ->
       {Nobody, "anonymous"} \union {req.token.subject : req \in {q \in Requests : HasToken(q)}}]

Assessments(b) == {i \in 1..Len(passed[b]) : passed[b][i].assess}

\* However requests overlap, one bucket has no more than RATE_LIMIT_REQUESTS
\* assessments let pass within any window, both its ends included.
RateBound == \A b \in BucketKeys : Cardinality(Assessments(b)) <= RATE_LIMIT_REQUESTS

\* The step in which the request of a slot is answered.
Answers(s) == slot[s] # Free /\ slot'[s] = Free /\ reply' # NoReply

Identified(s) ==
  Answers(s) /\ mode = "jwks" /\ slot[s].path # "health" /\ HasToken(slot[s])

\* A token is only taken whose signing key the provider published at some
\* moment of the last JWKS_CACHE_SECONDS: a key that was withdrawn is good for
\* no longer, whether or not the provider can be reached.
KeysFresh ==
  [][\A s \in Slots : Identified(s) /\ reply'.status \notin {401, 500} =>
       slot[s].token.signer \in Keys /\ gone[slot[s].token.signer] <= JWKS_CACHE_SECONDS]_vars

\* A valid token that names its key is only refused when that key has been
\* published for JWKS_CACHE_SECONDS at most: no rotation is missed for longer.
RotationLag ==
  [][\A s \in Slots :
       LET token == slot[s].token
       IN  Identified(s) /\ reply'.status = 401 /\ token.valid /\ token.kid = token.signer =>
             listed[token.signer] <= JWKS_CACHE_SECONDS]_vars

\* Every report was made for somebody on record who held the assessor's role,
\* or for anybody where authentication is off.
OnlyAssessorsAssess ==
  \A r \in 1..MaxRuns : reports[r] # NoReport =>
    \/ mode = "off" /\ audit[r] = "anonymous"
    \/ \E req \in Requests :
         /\ HasToken(req) /\ req.token.subject = audit[r]
         /\ roles_from_claims(req.token.claims) \intersect {"assess", "admin"} # {}

\* What an assessment was answered with is what the same process answers to
\* whoever asks for that run, and it never forgets one.
ReportsServed ==
  [][\A s \in Slots :
       Answers(s) /\ slot[s].path = "report" /\ reply'.status \in {200, 404} =>
         reply'.body = IF slot[s].run \in 1..MaxRuns THEN told[slot[s].run] ELSE NoReport]_vars
=============================================================================
