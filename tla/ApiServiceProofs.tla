--------------------------- MODULE ApiServiceProofs ---------------------------
(***************************************************************************)
(* What holds of ApiService for every set of clients, keys and slots, every *)
(* time to live and every limit: which keys a token is checked against, and *)
(* for whom assessments are made.                                           *)
(***************************************************************************)
EXTENDS ApiService, SequenceTheorems, FiniteSetTheorems, FunctionTheorems, TLAPS

-----------------------------------------------------------------------------
(* Keys.                                                                    *)

\* How many the numbers 1 to n are.
LEMMA UpTo ==
  ASSUME NEW n \in Nat
  PROVE  IsFiniteSet(1..n) /\ Cardinality(1..n) = n
  <1>1. 1 \in Int /\ n \in Int
    OBVIOUS
  <1>2. IsFiniteSet(1..n) /\ Cardinality(1..n) = IF 1 > n THEN 0 ELSE n - 1 + 1
    BY <1>1, FS_Interval
  <1>3. QED BY <1>2

\* A set of positions that is not empty has a first one: the initial segments
\* that end in it have a smallest one.
LEMMA FirstPosition ==
  ASSUME NEW n \in Nat, NEW T, T \subseteq 1..n, T # {}
  PROVE  \E i \in T : \A j \in T : i <= j
  <1> DEFINE Segments == {1..i : i \in T}
  <1>1. T \subseteq Nat
    OBVIOUS
  <1>2. \A i \in T : IsFiniteSet(1..i) /\ 1..i \subseteq Nat
    BY <1>1, UpTo
  <1>3. Segments \subseteq FiniteSubsetsOf(Nat) /\ Segments # {}
    BY <1>2 DEF FiniteSubsetsOf
  <1>4. PICK I \in Segments : \A J \in Segments : ~(<<J, I>> \in StrictSubsetOrdering(Nat))
    <2> HIDE DEF Segments
    <2> QED BY <1>3, FS_StrictSubsetOrderingWellFounded, WFMin, Zenon
  <1>5. PICK i \in T : I = 1..i
    OBVIOUS
  <1>6. ASSUME NEW j \in T, j < i
        PROVE  FALSE
    <2>1. 1..j \subseteq 1..i /\ 1..j # 1..i /\ 1..i \subseteq Nat /\ 1..j \subseteq Nat
      <3>1. i \in 1..i /\ i \notin 1..j
        BY <1>1, <1>6
      <3>2. QED BY <1>1, <1>6, <3>1
    <2>2. <<1..j, 1..i>> \in StrictSubsetOrdering(Nat)
      BY <2>1 DEF StrictSubsetOrdering
    <2>3. QED BY <1>4, <1>5, <2>2
  <1>7. QED BY <1>1, <1>6

\* A match that exists has a first one, which is the key that is tried.
LEMMA SigningKeyMatches ==
  ASSUME NEW token, NEW keys \in Seq(Keys), Matching(token, keys) # {}
  PROVE  \E i \in 1..Len(keys) :
            SigningKey(token, keys) = keys[i] /\ token.kid \in {NoKid, keys[i]}
  <1> DEFINE T == Matching(token, keys)
             first == CHOOSE i \in T : \A j \in T : i <= j
  <1>1. T \subseteq 1..Len(keys) /\ Len(keys) \in Nat
    BY LenProperties DEF Matching
  <1>2. \E i \in T : \A j \in T : i <= j
    BY <1>1, FirstPosition, Zenon
  <1>3. first \in T
    <2> HIDE DEF T
    <2> QED BY <1>2
  <1>4. SigningKey(token, keys) = keys[first]
    BY DEF SigningKey
  <1>5. first \in 1..Len(keys) /\ token.kid \in {NoKid, keys[first]}
    BY <1>3 DEF Matching
  <1>6. QED BY <1>4, <1>5

\* k is among keys.
Holds(keys, k) == \E i \in 1..Len(keys) : keys[i] = k

\* The types of what the keys' history is about.
KeyTypes ==
  /\ published \in Seq(Keys)
  /\ listed \in [Keys -> KeyAge]
  /\ gone \in [Keys -> KeyAge]
  /\ cache = NoCache \/ cache \in [keys : Seq(Keys), age : KeyAge]
  /\ slot \in [Slots -> Requests \union {Free}]

\* The two clocks of a key, and the clock of the cache, say the same of what
\* was published when.
KeyHistory ==
  /\ \A k \in Keys : Publishes(k) => gone[k] = 0
  /\ \A k \in Keys : ~Publishes(k) => listed[k] = 0
  /\ cache # NoCache =>
       \A k \in Keys : /\ Holds(cache.keys, k) => gone[k] <= cache.age
                       /\ listed[k] > cache.age => Holds(cache.keys, k)

KeyInv == KeyTypes /\ KeyHistory

\* NoCache is not a fetched key set: the one has a field that the other lacks.
LEMMA NotNoCache == ASSUME NEW keys, NEW age PROVE [keys |-> keys, age |-> age] # NoCache
  <1>1. DOMAIN [keys |-> keys, age |-> age] = {"keys", "age"} /\ DOMAIN NoCache = {"none"}
    BY DEF NoCache
  <1>2. "keys" # "none"
    OBVIOUS
  <1>3. QED BY <1>1, <1>2

\* Ages are numbers.
LEMMA AgesAreNumbers ==
  ASSUME KeyTypes
  PROVE  /\ \A k \in Keys : listed[k] \in Nat /\ gone[k] \in Nat
         /\ cache # NoCache => cache.age \in Nat
  <1>1. KeyAge \subseteq Nat
    BY ApiAssumption DEF KeyAge
  <1>2. QED BY <1>1 DEF KeyTypes

\* It holds at the start.
LEMMA KeyInit == Init => KeyInv
  <1> SUFFICES ASSUME Init PROVE KeyInv
    OBVIOUS
  <1> USE ApiAssumption
  <1>1. PICK k \in Keys : /\ published = <<k>>
                          /\ gone = [j \in Keys |-> IF j = k THEN 0 ELSE JWKS_CACHE_SECONDS + 1]
    BY DEF Init
  <1>2. published \in Seq(Keys) /\ Len(published) = 1 /\ published[1] = k
    BY <1>1
  <1>3. KeyTypes
    BY <1>1, <1>2 DEF Init, KeyTypes, KeyAge
  <1>4. KeyHistory
    BY <1>1, <1>2 DEF Init, KeyHistory, Publishes
  <1>5. QED BY <1>3, <1>4 DEF KeyInv

\* Ages grow without losing their order.
LEMMA OlderAges ==
  ASSUME NEW a \in KeyAge, NEW b \in KeyAge
  PROVE  /\ Older(a, JWKS_CACHE_SECONDS) \in KeyAge
         /\ a <= b => Older(a, JWKS_CACHE_SECONDS) <= Older(b, JWKS_CACHE_SECONDS)
         /\ Older(a, JWKS_CACHE_SECONDS) > Older(b, JWKS_CACHE_SECONDS) => a > b
         /\ Older(a, JWKS_CACHE_SECONDS) > 0
  BY ApiAssumption DEF Older, KeyAge

\* A tick ages the clocks alike.
LEMMA KeyTick == ASSUME KeyInv, Tick PROVE KeyInv'
  <1> USE ApiAssumption
  <1> USE DEF KeyInv
  <1>1. published' = published /\ slot' = slot
    BY DEF Tick
  <1>2. KeyTypes'
    <2>1. listed' \in [Keys -> KeyAge]
      BY OlderAges DEF Tick, KeyTypes, KeyAge
    <2>2. gone' \in [Keys -> KeyAge]
      BY OlderAges DEF Tick, KeyTypes, KeyAge
    <2>3. cache' = NoCache \/ cache' \in [keys : Seq(Keys), age : KeyAge]
      BY OlderAges DEF Tick, KeyTypes
    <2>4. QED BY <1>1, <2>1, <2>2, <2>3 DEF KeyTypes
  <1>3. \A k \in Keys : Publishes(k)' <=> Publishes(k)
    BY <1>1 DEF Publishes
  <1>4. \A k \in Keys : /\ Publishes(k)' => gone'[k] = 0
                        /\ ~Publishes(k)' => listed'[k] = 0
    BY <1>3 DEF Tick, KeyTypes
  <1>5. ASSUME cache' # NoCache, NEW k \in Keys
        PROVE  /\ Holds(cache'.keys, k) => gone'[k] <= cache'.age
               /\ listed'[k] > cache'.age => Holds(cache'.keys, k)
    <2>1. cache # NoCache /\ cache \in [keys : Seq(Keys), age : KeyAge]
      BY <1>5 DEF Tick, KeyTypes
    <2>2. cache'.keys = cache.keys /\ cache'.age = Older(cache.age, JWKS_CACHE_SECONDS)
      BY <2>1 DEF Tick
    <2>3. cache.age \in KeyAge /\ gone[k] \in KeyAge /\ listed[k] \in KeyAge
      BY <2>1 DEF KeyTypes
    <2>4. gone'[k] = IF Publishes(k) THEN 0 ELSE Older(gone[k], JWKS_CACHE_SECONDS)
      BY DEF Tick
    <2>5. listed'[k] = IF Publishes(k) THEN Older(listed[k], JWKS_CACHE_SECONDS) ELSE 0
      BY DEF Tick
    <2>6. /\ Holds(cache.keys, k) => gone[k] <= cache.age
          /\ listed[k] > cache.age => Holds(cache.keys, k)
      BY <2>1 DEF KeyHistory
    <2>7. Older(cache.age, JWKS_CACHE_SECONDS) \in Nat /\ Older(cache.age, JWKS_CACHE_SECONDS) > 0
      BY <2>3, OlderAges DEF KeyAge
    <2>8. Holds(cache'.keys, k) => gone'[k] <= cache'.age
      BY <2>2, <2>3, <2>4, <2>6, <2>7, OlderAges
    <2>9. listed'[k] > cache'.age => Holds(cache'.keys, k)
      BY <2>2, <2>3, <2>5, <2>6, <2>7, OlderAges
    <2>10. QED BY <2>8, <2>9
  <1>6. QED BY <1>2, <1>4, <1>5 DEF KeyHistory

\* A key that is added was gone until now; one that is withdrawn is gone from
\* now on.
LEMMA KeyRotate == ASSUME KeyInv, Rotate PROVE KeyInv'
  <1> USE DEF KeyInv
  <1>1. UNCHANGED <<cache, slot>>
    BY DEF Rotate
  <1>2. CASE \E k \in Keys : /\ ~Publishes(k)
                             /\ published' = Append(published, k)
                             /\ gone' = [gone EXCEPT ![k] = 0]
                             /\ UNCHANGED listed
    <2>1. PICK k \in Keys : /\ ~Publishes(k)
                            /\ published' = Append(published, k)
                            /\ gone' = [gone EXCEPT ![k] = 0]
                            /\ UNCHANGED listed
      BY <1>2
    <2>2. published \in Seq(Keys) /\ Len(published) \in Nat
      BY LenProperties DEF KeyTypes
    <2>3. /\ published' \in Seq(Keys) /\ Len(published') = Len(published) + 1
          /\ \A i \in 1..Len(published) : published'[i] = published[i]
          /\ published'[Len(published) + 1] = k
      BY <2>1, <2>2, AppendProperties
    <2>4. \A j \in Keys : Publishes(j)' <=> Publishes(j) \/ j = k
      BY <2>2, <2>3 DEF Publishes
    <2>5. gone' \in [Keys -> KeyAge] /\ \A j \in Keys : gone'[j] = IF j = k THEN 0 ELSE gone[j]
      BY <2>1, ApiAssumption DEF KeyTypes, KeyAge
    <2>6. KeyTypes'
      BY <1>1, <2>1, <2>3, <2>5 DEF KeyTypes
    <2>7. \A j \in Keys : gone'[j] <= gone[j]
      BY <2>5, AgesAreNumbers
    <2>8. ASSUME cache' # NoCache, NEW j \in Keys
          PROVE  /\ Holds(cache'.keys, j) => gone'[j] <= cache'.age
                 /\ listed'[j] > cache'.age => Holds(cache'.keys, j)
      <3>1. cache \in [keys : Seq(Keys), age : KeyAge] /\ cache' = cache
        BY <1>1, <2>8 DEF KeyTypes
      <3>2. cache.age \in Nat /\ gone[j] \in Nat /\ gone'[j] \in Nat
        BY <3>1, <2>5, ApiAssumption DEF KeyTypes, KeyAge
      <3>3. QED BY <2>1, <2>7, <2>8, <3>1, <3>2 DEF KeyHistory
    <2>9. \A j \in Keys : /\ Publishes(j)' => gone'[j] = 0
                          /\ ~Publishes(j)' => listed'[j] = 0
      BY <2>1, <2>4, <2>5 DEF KeyHistory
    <2>10. QED BY <2>6, <2>8, <2>9 DEF KeyHistory
  <1>3. CASE /\ Len(published) > 1
             /\ published' = Tail(published)
             /\ listed' = [listed EXCEPT ![Head(published)] = 0]
             /\ UNCHANGED gone
    <2>1. published \in Seq(Keys) /\ published # << >> /\ Len(published) \in Nat
      BY <1>3, LenProperties, EmptySeq DEF KeyTypes
    <2>2. /\ published' \in Seq(Keys) /\ Len(published') = Len(published) - 1
          /\ \A i \in 1..Len(published') : published'[i] = published[i + 1]
      BY <1>3, <2>1, HeadTailProperties
    <2>3. Head(published) = published[1] /\ Head(published) \in Keys
      BY <2>1, HeadTailProperties
    <2>4. \A j \in Keys : /\ Publishes(j)' => Publishes(j)
                          /\ Publishes(j) => Publishes(j)' \/ j = Head(published)
      <3>1. ASSUME NEW j \in Keys, Publishes(j)' PROVE Publishes(j)
        BY <2>1, <2>2, <3>1 DEF Publishes
      <3>2. ASSUME NEW j \in Keys, Publishes(j), j # Head(published) PROVE Publishes(j)'
        <4>1. PICK i \in 1..Len(published) : published[i] = j
          BY <3>2 DEF Publishes
        <4>2. i # 1
          BY <2>3, <3>2, <4>1
        <4>3. i - 1 \in 1..Len(published') /\ published'[i - 1] = j
          <5>1. i - 1 \in 1..Len(published')
            BY <2>1, <2>2, <4>1, <4>2
          <5>2. (i - 1) + 1 = i
            BY <4>1, <2>1
          <5>3. QED BY <2>2, <4>1, <5>1, <5>2
        <4>4. QED BY <4>3 DEF Publishes
      <3>3. QED BY <3>1, <3>2
    <2>5. /\ listed' \in [Keys -> KeyAge]
          /\ \A j \in Keys : listed'[j] = IF j = Head(published) THEN 0 ELSE listed[j]
      BY <1>3, <2>3, ApiAssumption DEF KeyTypes, KeyAge
    <2>6. KeyTypes'
      BY <1>1, <1>3, <2>2, <2>5 DEF KeyTypes
    <2>7. ASSUME cache' # NoCache, NEW j \in Keys
          PROVE  /\ Holds(cache'.keys, j) => gone'[j] <= cache'.age
                 /\ listed'[j] > cache'.age => Holds(cache'.keys, j)
      <3>1. cache \in [keys : Seq(Keys), age : KeyAge] /\ cache' = cache
        BY <1>1, <2>7 DEF KeyTypes
      <3>2. cache.age \in Nat /\ listed[j] \in Nat /\ listed'[j] <= listed[j]
        BY <3>1, <2>5, <2>7, AgesAreNumbers
      <3>3. listed'[j] > cache.age => listed[j] > cache.age
        BY <2>5, <3>2
      <3>4. QED BY <1>3, <2>7, <3>1, <3>3 DEF KeyHistory
    <2>8. \A j \in Keys : /\ Publishes(j)' => gone'[j] = 0
                          /\ ~Publishes(j)' => listed'[j] = 0
      BY <1>3, <2>4, <2>5 DEF KeyHistory
    <2>9. QED BY <2>6, <2>7, <2>8 DEF KeyHistory
  <1>4. QED BY <1>2, <1>3 DEF Rotate

\* What the routes leave in the slot, and what they answer.
LEMMA RouteAnswers ==
  ASSUME NEW s, NEW who, Route(s, who)
  PROVE  /\ slot' = [slot EXCEPT ![s] = Free]
         /\ reply'.status \in {200, 403, 404, 422, 500}
  <1> USE DEF Plain, Answer
  <1>1. CASE Plain(s, 403, NoReport)
    BY <1>1
  <1>2. CASE Assess(s, who)
    BY <1>2 DEF Assess
  <1>3. CASE GetReport(s)
    BY <1>3 DEF GetReport
  <1>4. CASE Plain(s, 200, NoReport)
    BY <1>4
  <1>5. QED BY <1>1, <1>2, <1>3, <1>4 DEF Route

\* A request that the guard let pass frees its slot, and at most refreshes the
\* cache of the keys.
LEMMA HandleShape ==
  ASSUME NEW s, handle(s)
  PROVE  /\ slot' = [slot EXCEPT ![s] = Free]
         /\ cache' = cache \/ cache' = Refreshed
         /\ UNCHANGED <<mode, published, listed, gone>>
  <1>1. \A who : Route(s, who) => slot' = [slot EXCEPT ![s] = Free]
    BY RouteAnswers
  <1>2. \A status, body : Plain(s, status, body) => slot' = [slot EXCEPT ![s] = Free]
    BY DEF Plain, Answer
  <1>3. QED BY <1>1, <1>2 DEF handle, KeysFail, KeysAnswer, DevSecret

\* A refreshed cache holds what is published now.
LEMMA KeyRefresh ==
  ASSUME KeyInv, UNCHANGED <<published, listed, gone>>, cache' = cache \/ cache' = Refreshed,
         slot' \in [Slots -> Requests \union {Free}]
  PROVE  KeyInv'
  <1> USE DEF KeyInv
  <1>1. CASE cache' = cache
    BY <1>1 DEF KeyTypes, KeyHistory, Publishes
  <1>2. CASE cache' = [keys |-> published, age |-> 0]
    <2>1. cache'.keys = published /\ cache'.age = 0 /\ 0 \in KeyAge
      BY <1>2, ApiAssumption DEF KeyAge
    <2>2. KeyTypes'
      BY <1>2, <2>1 DEF KeyTypes
    <2>3. \A k \in Keys : listed[k] \in Nat /\ (Holds(published, k) <=> Publishes(k))
      BY ApiAssumption DEF KeyTypes, KeyAge, Holds, Publishes
    <2>4. \A k \in Keys : /\ Holds(published, k) => gone[k] <= 0
                          /\ listed[k] > 0 => Holds(published, k)
      BY <2>3 DEF KeyHistory
    <2>5. KeyHistory'
      BY <2>1, <2>4 DEF KeyHistory, Publishes
    <2>6. QED BY <2>2, <2>5
  <1>3. QED BY <1>1, <1>2 DEF Refreshed

\* Every step keeps it.
LEMMA KeyStep == ASSUME KeyInv, [Next]_vars PROVE KeyInv'
  <1>1. CASE UNCHANGED vars
    BY <1>1 DEF vars, KeyInv, KeyTypes, KeyHistory, Publishes
  <1>2. CASE Tick
    BY <1>2, KeyTick
  <1>3. CASE Rotate
    BY <1>3, KeyRotate
  <1>4. CASE Restart
    <2>1. UNCHANGED <<published, listed, gone>> /\ cache' = NoCache
      BY <1>4 DEF Restart
    <2>2. slot' \in [Slots -> Requests \union {Free}]
      BY <1>4 DEF Restart
    <2>3. QED BY <2>1, <2>2 DEF KeyInv, KeyTypes, KeyHistory, Publishes
  <1>5. ASSUME NEW s \in Slots, handle(s) PROVE KeyInv'
    <2>1. slot' \in [Slots -> Requests \union {Free}]
      BY <1>5, HandleShape DEF KeyInv, KeyTypes
    <2>2. QED BY <1>5, <2>1, HandleShape, KeyRefresh
  <1>6. ASSUME NEW s \in Slots, NEW req \in Requests, guard(s, req) PROVE KeyInv'
    <2>1. slot' \in [Slots -> Requests \union {Free}]
      BY <1>6 DEF guard, Refuse, Pass, KeyInv, KeyTypes
    <2>2. UNCHANGED <<published, listed, gone, cache>>
      BY <1>6 DEF guard
    <2>3. QED BY <2>1, <2>2, KeyRefresh
  <1>7. QED BY <1>1, <1>2, <1>3, <1>4, <1>5, <1>6 DEF Next

\* So it always holds.
LEMMA KeyAlways == Spec => []KeyInv
  <1>1. QED BY KeyInit, KeyStep, PTL DEF Spec

\* The keys in use were published at some moment of the last JWKS_CACHE_SECONDS,
\* and no key that has been published for longer is missing among them.
LEMMA KeysInUseFresh ==
  ASSUME KeyInv
  PROVE  /\ KeysInUse \in Seq(Keys)
         /\ \A k \in Keys : Holds(KeysInUse, k) => gone[k] <= JWKS_CACHE_SECONDS
         /\ \A k \in Keys : listed[k] > JWKS_CACHE_SECONDS => Holds(KeysInUse, k)
  <1> USE ApiAssumption
  <1>1. \A k \in Keys : listed[k] \in Nat /\ gone[k] \in Nat
    BY AgesAreNumbers DEF KeyInv
  <1>2. CASE Due
    <2>1. KeysInUse = published /\ published \in Seq(Keys)
      BY <1>2 DEF KeysInUse, KeyInv, KeyTypes
    <2>2. \A k \in Keys : Holds(published, k) <=> Publishes(k)
      BY DEF Holds, Publishes
    <2>3. \A k \in Keys : /\ Publishes(k) => gone[k] = 0
                          /\ ~Publishes(k) => listed[k] = 0
      BY DEF KeyInv, KeyHistory
    <2>4. QED BY <1>1, <2>1, <2>2, <2>3
  <1>3. CASE ~Due
    <2>1. /\ cache # NoCache /\ cache \in [keys : Seq(Keys), age : KeyAge]
          /\ KeysInUse = cache.keys
      BY <1>3 DEF Due, KeysInUse, KeyInv, KeyTypes
    <2>2. cache.age \in Nat /\ cache.age <= JWKS_CACHE_SECONDS /\ cache.keys \in Seq(Keys)
      <3>1. cache.age \in Nat
        BY <2>1, AgesAreNumbers DEF KeyInv
      <3>2. QED BY <1>3, <2>1, <3>1 DEF Due
    <2>3. \A k \in Keys : /\ Holds(cache.keys, k) => gone[k] <= cache.age
                          /\ listed[k] > cache.age => Holds(cache.keys, k)
      BY <2>1 DEF KeyInv, KeyHistory
    <2>4. QED BY <1>1, <2>1, <2>2, <2>3
  <1>4. QED BY <1>2, <1>3

\* A request is answered by its own slot's step.
LEMMA OwnAnswer ==
  ASSUME KeyTypes, Next, NEW s \in Slots, Answers(s)
  PROVE  slot[s] \in Requests /\ handle(s)
  <1> USE DEF Answers
  <1>1. slot \in [Slots -> Requests \union {Free}]
    BY DEF KeyTypes
  <1>2. ~Tick /\ ~Rotate /\ ~Restart
    BY DEF Tick, Rotate, Restart
  <1>3. ASSUME NEW t \in Slots, NEW req \in Requests, guard(t, req) PROVE FALSE
    BY <1>1, <1>3 DEF guard, Refuse, Pass
  <1>4. PICK t \in Slots : handle(t)
    BY <1>2, <1>3 DEF Next
  <1>5. t = s
    BY <1>1, <1>4, HandleShape
  <1>6. QED BY <1>1, <1>4, <1>5

\* The answer to a request with a token, where the provider's keys are used, is
\* the work of handle: 401 when the token is not accepted, 500 when the fetch
\* fails, and the route's own answer otherwise.
LEMMA IdentifiedAnswer ==
  ASSUME KeyInv, Next, NEW s \in Slots, Identified(s)
  PROVE  /\ slot[s] \in Requests /\ HasToken(slot[s])
         /\ \/ Accepted(slot[s].token, KeysInUse) /\ reply'.status # 401
            \/ ~Accepted(slot[s].token, KeysInUse) /\ reply'.status = 401
            \/ reply'.status = 500
  <1> USE DEF Identified
  <1>1. slot[s] \in Requests /\ HasToken(slot[s]) /\ handle(s)
    BY OwnAnswer DEF KeyInv
  <1>2. KeysFail(s) \/ KeysAnswer(s) \/ DevSecret(s)
    BY <1>1 DEF handle
  <1>3. CASE KeysFail(s)
    BY <1>1, <1>3 DEF KeysFail, Plain, Answer
  <1>4. CASE KeysAnswer(s)
    <2>1. CASE Accepted(slot[s].token, KeysInUse)
      <3>1. Route(s, PrincipalOf(slot[s].token))
        BY <1>4, <2>1 DEF KeysAnswer
      <3>2. QED BY <1>1, <2>1, <3>1, RouteAnswers
    <2>2. CASE ~Accepted(slot[s].token, KeysInUse)
      BY <1>1, <1>4, <2>2 DEF KeysAnswer, Plain, Answer
    <2>3. QED BY <2>1, <2>2
  <1>5. CASE DevSecret(s)
    BY <1>5 DEF DevSecret
  <1>6. QED BY <1>2, <1>3, <1>4, <1>5

\* A token is only taken whose signing key the provider published at some
\* moment of the last JWKS_CACHE_SECONDS (_JwksCache.get, decode_token).
THEOREM WithdrawnKeysExpire == Spec => KeysFresh
  <1> DEFINE Fresh(s) == Identified(s) /\ reply'.status \notin {401, 500} =>
        slot[s].token.signer \in Keys /\ gone[slot[s].token.signer] <= JWKS_CACHE_SECONDS
  <1>1. ASSUME KeyInv, Next, NEW s \in Slots PROVE Fresh(s)
    <2> SUFFICES ASSUME Identified(s), reply'.status \notin {401, 500}
                 PROVE  /\ slot[s].token.signer \in Keys
                        /\ gone[slot[s].token.signer] <= JWKS_CACHE_SECONDS
      OBVIOUS
    <2> DEFINE token == slot[s].token
    <2>1. Accepted(token, KeysInUse)
      BY <1>1, IdentifiedAnswer
    <2>2. KeysInUse \in Seq(Keys)
      BY <1>1, KeysInUseFresh
    <2>3. PICK i \in 1..Len(KeysInUse) : SigningKey(token, KeysInUse) = KeysInUse[i]
      BY <2>1, <2>2, SigningKeyMatches DEF Accepted
    <2>4. token.signer = KeysInUse[i]
      BY <2>1, <2>3 DEF Accepted
    <2>5. token.signer \in Keys /\ Holds(KeysInUse, token.signer)
      BY <2>2, <2>3, <2>4, ElementOfSeq DEF Holds
    <2>6. QED BY <1>1, <2>5, KeysInUseFresh
  <1>2. ASSUME KeyInv, [Next]_vars PROVE [\A s \in Slots : Fresh(s)]_vars
    BY <1>1, <1>2
  <1>3. QED BY <1>2, KeyAlways, PTL DEF Spec, KeysFresh

\* A valid token that names its key is only refused when that key has been
\* published for JWKS_CACHE_SECONDS at most (_JwksCache.get, decode_token).
THEOREM RotationsAreSeen == Spec => RotationLag
  <1> DEFINE Seen(s) ==
        LET token == slot[s].token
        IN  Identified(s) /\ reply'.status = 401 /\ token.valid /\ token.kid = token.signer =>
              listed[token.signer] <= JWKS_CACHE_SECONDS
  <1>1. ASSUME KeyInv, Next, NEW s \in Slots PROVE Seen(s)
    <2> DEFINE token == slot[s].token
    <2> SUFFICES ASSUME Identified(s), reply'.status = 401, token.valid, token.kid = token.signer,
                        ~(listed[token.signer] <= JWKS_CACHE_SECONDS)
                 PROVE  FALSE
      OBVIOUS
    <2>1. slot[s] \in Requests /\ HasToken(slot[s]) /\ ~Accepted(token, KeysInUse)
      BY <1>1, IdentifiedAnswer
    <2>2. token.signer \in Keys /\ token.signer # NoKid
      BY <2>1, ApiAssumption
    <2>3. listed[token.signer] > JWKS_CACHE_SECONDS
      BY <1>1, <2>2, AgesAreNumbers, ApiAssumption DEF KeyInv
    <2>4. KeysInUse \in Seq(Keys) /\ Holds(KeysInUse, token.signer)
      BY <1>1, <2>2, <2>3, KeysInUseFresh
    <2>5. Matching(token, KeysInUse) # {}
      BY <2>4 DEF Holds, Matching
    <2>6. SigningKey(token, KeysInUse) = token.kid
      BY <2>2, <2>4, <2>5, SigningKeyMatches
    <2>7. QED BY <2>1, <2>5, <2>6 DEF Accepted
  <1>2. ASSUME KeyInv, [Next]_vars PROVE [\A s \in Slots : Seen(s)]_vars
    BY <1>1, <1>2
  <1>3. QED BY <1>2, KeyAlways, PTL DEF Spec, RotationLag

-----------------------------------------------------------------------------
(* Who assessments are made for.                                            *)

\* "assess" is implied by two roles only.
LEMMA AssessRoles ==
  ASSUME NEW R, "assess" \in effective_roles(R)
  PROVE  R \intersect {"assess", "admin"} # {}
  <1>1. PICK r \in R : "assess" \in IF r \in DOMAIN ROLE_IMPLIES THEN ROLE_IMPLIES[r] ELSE {r}
    BY DEF effective_roles
  <1>2. DOMAIN ROLE_IMPLIES = {"admin", "assess", "read"} /\ ROLE_IMPLIES["read"] = {"read"}
    BY DEF ROLE_IMPLIES
  <1>3. CASE r \in DOMAIN ROLE_IMPLIES
    BY <1>1, <1>2, <1>3
  <1>4. CASE r \notin DOMAIN ROLE_IMPLIES
    BY <1>1, <1>2, <1>4
  <1>5. QED BY <1>3, <1>4

\* The subject on record for run r may have it made.
EntitledRun(r) ==
  \/ mode = "off" /\ audit[r] = "anonymous"
  \/ \E req \in Requests :
       /\ HasToken(req) /\ req.token.subject = audit[r]
       /\ roles_from_claims(req.token.claims) \intersect {"assess", "admin"} # {}

\* A number that has not been given out yet has no report, so that what the
\* next run writes down beside its report says who that report is for.
RunInv ==
  /\ runs \in Nat
  /\ slot \in [Slots -> Requests \union {Free}]
  /\ DOMAIN reports = 1..MaxRuns /\ DOMAIN audit = 1..MaxRuns
  /\ \A r \in 1..MaxRuns : reports[r] # NoReport => r <= runs /\ EntitledRun(r)

\* Nothing has been reported at the start.
LEMMA RunInit == Init => RunInv
  BY DEF Init, RunInv

\* The subject an assessment is made for may have one made.
LEMMA AssessEntitled ==
  ASSUME NEW s \in Slots, slot[s] \in Requests, slot[s].path = "assess",
         NEW who, \A role \in required_role(slot[s].path) : has(who, role),
         \/ mode = "off" /\ who = Anonymous
         \/ HasToken(slot[s]) /\ who = PrincipalOf(slot[s].token)
  PROVE  \/ mode = "off" /\ who.subject = "anonymous"
         \/ \E req \in Requests :
              /\ HasToken(req) /\ req.token.subject = who.subject
              /\ roles_from_claims(req.token.claims) \intersect {"assess", "admin"} # {}
  <1>1. has(who, "assess")
    BY DEF required_role
  <1>2. CASE mode = "off" /\ who = Anonymous
    BY <1>2 DEF Anonymous
  <1>3. CASE HasToken(slot[s]) /\ who = PrincipalOf(slot[s].token)
    <2>1. ~who.anonymous /\ who.subject = slot[s].token.subject
          /\ who.roles = roles_from_claims(slot[s].token.claims)
      BY <1>3 DEF PrincipalOf
    <2>2. "assess" \in effective_roles(who.roles)
      BY <1>1, <2>1 DEF has
    <2>3. who.roles \intersect {"assess", "admin"} # {}
      BY <2>2, AssessRoles
    <2>4. QED BY <1>3, <2>1, <2>3
  <1>4. QED BY <1>2, <1>3

\* A step that makes no report and leaves the record of the runs before as it
\* was keeps RunInv.
LEMMA RunKept ==
  ASSUME RunInv, mode' = mode, reports' = reports,
         slot' \in [Slots -> Requests \union {Free}],
         runs' = runs \/ runs' = runs + 1,
         audit' = audit \/ \E x : audit' = [audit EXCEPT ![runs + 1] = x]
  PROVE  RunInv'
  <1>1. runs' \in Nat /\ \A r \in 1..MaxRuns : r <= runs => r <= runs'
    BY ApiAssumption DEF RunInv
  <1>2. DOMAIN reports' = 1..MaxRuns /\ DOMAIN audit' = 1..MaxRuns
    BY DEF RunInv
  <1>3. \A r \in 1..MaxRuns : r <= runs => audit'[r] = audit[r]
    <2>1. \A r \in 1..MaxRuns : r <= runs => r # runs + 1
      BY ApiAssumption DEF RunInv
    <2>2. QED BY <2>1 DEF RunInv
  <1>4. QED BY <1>1, <1>2, <1>3 DEF RunInv, EntitledRun

\* A route keeps RunInv: assess gives out a new number and writes down for whom
\* before it keeps the report, and the other routes make none.
LEMMA RunRoute ==
  ASSUME RunInv, NEW s \in Slots, NEW who, Route(s, who), slot[s] \in Requests, mode' = mode,
         \/ mode = "off" /\ who = Anonymous
         \/ slot[s].path = "health" /\ who = Anonymous
         \/ HasToken(slot[s]) /\ who = PrincipalOf(slot[s].token)
  PROVE  RunInv'
  <1>1. slot' \in [Slots -> Requests \union {Free}]
    BY RouteAnswers DEF RunInv
  <1>2. \A status, body : Plain(s, status, body) => RunInv'
    BY <1>1, RunKept DEF Plain
  <1>3. CASE /\ slot[s].path = "assess"
             /\ \A role \in required_role(slot[s].path) : has(who, role)
             /\ Assess(s, who)
    <2> DEFINE run == runs + 1
               report == [run |-> run, platform |-> slot[s].platform]
    <2>1. runs' = run
      BY <1>3 DEF Assess
    <2>2. CASE /\ audit' = [audit EXCEPT ![run] = who.subject]
               /\ reports' = [reports EXCEPT ![run] = report]
      <3>1. \/ mode = "off" /\ who.subject = "anonymous"
            \/ \E req \in Requests :
                 /\ HasToken(req) /\ req.token.subject = who.subject
                 /\ roles_from_claims(req.token.claims) \intersect {"assess", "admin"} # {}
        BY <1>3, AssessEntitled
      <3>2. DOMAIN reports' = 1..MaxRuns /\ DOMAIN audit' = 1..MaxRuns /\ runs' \in Nat
        BY <2>1, <2>2 DEF RunInv
      <3>3. ASSUME NEW r \in 1..MaxRuns, reports'[r] # NoReport
            PROVE  r <= runs' /\ EntitledRun(r)'
        <4>1. CASE r = run
          <5>1. audit'[r] = who.subject
            BY <2>2, <4>1 DEF RunInv
          <5>2. r <= runs'
            BY <2>1, <4>1 DEF RunInv
          <5>3. QED BY <3>1, <5>1, <5>2 DEF EntitledRun
        <4>2. CASE r # run
          <5>1. reports'[r] = reports[r] /\ audit'[r] = audit[r]
            BY <2>2, <4>2 DEF RunInv
          <5>2. r <= runs /\ EntitledRun(r)
            BY <3>3, <5>1 DEF RunInv
          <5>3. r <= runs'
            BY <2>1, <5>2, ApiAssumption DEF RunInv
          <5>4. QED BY <5>1, <5>2, <5>3 DEF EntitledRun
        <4>3. QED BY <4>1, <4>2
      <3>4. QED BY <1>1, <3>2, <3>3 DEF RunInv
    <2>3. CASE reports' = reports
      <3>1. audit' = audit \/ \E x : audit' = [audit EXCEPT ![runs + 1] = x]
        BY <1>3 DEF Assess
      <3>2. QED BY <1>1, <2>1, <2>3, <3>1, RunKept
    <2>4. QED BY <1>3, <2>2, <2>3 DEF Assess
  <1>4. GetReport(s) => RunInv'
    BY <1>2 DEF GetReport
  <1>5. QED BY <1>2, <1>3, <1>4 DEF Route

\* So does the rest of a request, whoever asks.
LEMMA RunHandle ==
  ASSUME RunInv, NEW s \in Slots, handle(s)
  PROVE  RunInv'
  <1>1. slot[s] \in Requests /\ mode' = mode
    BY DEF handle, RunInv
  <1>2. slot' \in [Slots -> Requests \union {Free}]
    BY HandleShape DEF RunInv
  <1>3. \A status, body : Plain(s, status, body) => RunInv'
    BY <1>1, <1>2, RunKept DEF Plain
  <1>4. CASE (slot[s].path = "health" \/ mode = "off") /\ Route(s, Anonymous)
    BY <1>1, <1>4, RunRoute
  <1>5. HasToken(slot[s]) /\ Route(s, PrincipalOf(slot[s].token)) => RunInv'
    BY <1>1, RunRoute
  <1>6. HasToken(slot[s]) /\ KeysFail(s) => RunInv'
    BY <1>3 DEF KeysFail
  <1>7. HasToken(slot[s]) /\ KeysAnswer(s) => RunInv'
    BY <1>3, <1>5 DEF KeysAnswer
  <1>8. HasToken(slot[s]) /\ DevSecret(s) => RunInv'
    BY <1>3, <1>5 DEF DevSecret
  <1>9. QED BY <1>3, <1>4, <1>6, <1>7, <1>8 DEF handle

\* And every other step: a restart forgets the reports, and only it changes mode.
LEMMA RunStep == ASSUME RunInv, [Next]_vars PROVE RunInv'
  <1>1. CASE UNCHANGED vars
    BY <1>1 DEF vars, RunInv, EntitledRun
  <1>2. CASE Tick \/ Rotate
    BY <1>2 DEF Tick, Rotate, RunInv, EntitledRun
  <1>3. CASE Restart
    BY <1>3 DEF Restart, RunInv
  <1>4. ASSUME NEW s \in Slots, handle(s) PROVE RunInv'
    BY <1>4, RunHandle
  <1>5. ASSUME NEW s \in Slots, NEW req \in Requests, guard(s, req) PROVE RunInv'
    <2>1. slot' \in [Slots -> Requests \union {Free}]
      BY <1>5 DEF guard, Refuse, Pass, RunInv
    <2>2. UNCHANGED <<mode, reports, runs, audit>>
      BY <1>5 DEF guard
    <2>3. QED BY <2>1, <2>2, RunKept
  <1>6. QED BY <1>1, <1>2, <1>3, <1>4, <1>5 DEF Next

\* Every report was made for somebody on record who held the assessor's role,
\* or for anybody where authentication is off (require_role, assess).
THEOREM AssessorsOnly == Spec => []OnlyAssessorsAssess
  <1>1. RunInv => OnlyAssessorsAssess
    BY DEF RunInv, OnlyAssessorsAssess, EntitledRun
  <1>2. QED BY <1>1, RunInit, RunStep, PTL DEF Spec

-----------------------------------------------------------------------------
(* The rate window.                                                         *)

\* What a bucket holds of the requests let pass: its last moments are theirs,
\* the oldest first, and what is before them is out of the window.
Tracks(r, p) ==
  /\ r \in Seq(0..RATE_LIMIT_WINDOW_S + 1) /\ p \in Seq([assess : BOOLEAN, age : Windowed])
  /\ Len(r) \in Nat /\ Len(p) \in Nat /\ Len(r) - Len(p) \in Nat
  /\ \A i \in 1..Len(p) : r[Len(r) - Len(p) + i] = p[i].age
  /\ \A i \in 1..Len(r) - Len(p) : r[i] > RATE_LIMIT_WINDOW_S
  /\ \A i, j \in 1..Len(p) : i <= j => p[j].age <= p[i].age

WindowInv ==
  /\ rate \in [BucketKeys -> Seq(0..RATE_LIMIT_WINDOW_S + 1)]
  /\ passed \in [BucketKeys -> Seq([assess : BOOLEAN, age : Windowed])]
  /\ \A b \in BucketKeys : Tracks(rate[b], passed[b])
  /\ RateBound

\* What Trim leaves of a bucket are the requests let pass within the window.
LEMMA TrimTracks ==
  ASSUME NEW r, NEW p, Tracks(r, p)
  PROVE  /\ Trim(r) \in Seq(0..RATE_LIMIT_WINDOW_S + 1)
         /\ Len(Trim(r)) = Len(p)
         /\ \A i \in 1..Len(p) : Trim(r)[i] = p[i].age
  <1> DEFINE W == RATE_LIMIT_WINDOW_S
             n == Len(r)
             m == Len(p)
             young == {i \in 1..n : r[i] <= W}
  <1>1. /\ r \in Seq(0..W + 1) /\ n \in Nat /\ m \in Nat /\ n - m \in Nat /\ W \in Nat
        /\ \A i \in 1..m : r[n - m + i] = p[i].age /\ p[i].age \in 0..W
        /\ \A i \in 1..n - m : r[i] > W
    <2>1. \A i \in 1..m : p[i] \in [assess : BOOLEAN, age : Windowed]
      BY ElementOfSeq DEF Tracks
    <2>2. \A i \in 1..m : p[i].age \in 0..W
      BY <2>1 DEF Windowed
    <2>3. QED BY <2>2, ApiAssumption DEF Tracks
  <1>2. \A i \in 1..n : r[i] \in 0..W + 1
    BY <1>1, ElementOfSeq
  <1>3. \A i \in 1..n : r[i] <= W <=> i > n - m
    <2>1. \A i \in 1..n : i > n - m => i - (n - m) \in 1..m /\ (n - m) + (i - (n - m)) = i
      BY <1>1
    <2>2. ASSUME NEW i \in 1..n, i > n - m PROVE r[i] <= W
      <3>1. r[(n - m) + (i - (n - m))] = p[i - (n - m)].age /\ p[i - (n - m)].age \in 0..W
        BY <1>1, <2>1, <2>2
      <3>2. QED BY <1>1, <2>1, <2>2, <3>1
    <2>3. \A i \in 1..n : ~(i > n - m) => i \in 1..n - m
      BY <1>1
    <2>4. QED BY <1>1, <1>2, <2>2, <2>3
  <1>4. CASE m = 0
    <2>1. young = {}
      BY <1>1, <1>3, <1>4
    <2>2. Trim(r) = << >>
      BY <2>1 DEF Trim
    <2>3. QED BY <1>1, <1>4, <2>2
  <1>5. CASE m > 0
    <2>1. n - m + 1 \in young /\ \A j \in young : n - m + 1 <= j
      BY <1>1, <1>3, <1>5
    <2>2. (CHOOSE i \in young : \A j \in young : i <= j) = n - m + 1
      <3>1. \A i \in young : i \in Nat
        BY <1>1
      <3> HIDE DEF young
      <3>2. \A i \in young : (\A j \in young : i <= j) => i = n - m + 1
        BY <1>1, <2>1, <3>1
      <3>3. QED BY <2>1, <3>2
    <2>3. Trim(r) = SubSeq(r, n - m + 1, n)
      <3>1. young # {}
        BY <2>1
      <3>2. QED BY <2>2, <3>1 DEF Trim
    <2>4. \A i \in (n - m + 1)..n : r[i] \in 0..W + 1
      BY <1>1, <1>2
    <2>5. /\ Trim(r) \in Seq(0..W + 1) /\ Len(Trim(r)) = n - (n - m + 1) + 1
          /\ \A i \in 1..n - (n - m + 1) + 1 : Trim(r)[i] = r[(n - m + 1) + i - 1]
      BY <1>1, <1>5, <2>3, <2>4, SubSeqProperties
    <2>6. n - (n - m + 1) + 1 = m /\ \A i \in 1..m : (n - m + 1) + i - 1 = n - m + i
      BY <1>1
    <2>7. QED BY <1>1, <2>5, <2>6
  <1>6. QED BY <1>1, <1>4, <1>5

\* A bucket and its requests, a tick older.
Ticked(r, p, s, aged) ==
  /\ s \in Seq(0..RATE_LIMIT_WINDOW_S + 1) /\ Len(s) = Len(r)
  /\ \A i \in 1..Len(r) : s[i] = Older(r[i], RATE_LIMIT_WINDOW_S)
  /\ Len(aged) = Len(p)
  /\ \A i \in 1..Len(p) : /\ aged[i] \in [assess : BOOLEAN, age : Nat]
                          /\ aged[i].age = p[i].age + 1 /\ aged[i].assess = p[i].assess

\* Those of them that are still within the window.
Within(aged) ==
  SubSeq(aged, Cardinality({i \in 1..Len(aged) : aged[i].age > RATE_LIMIT_WINDOW_S}) + 1, Len(aged))

\* A tick ages both alike, and what leaves the window leaves from the left.
LEMMA TickTracks ==
  ASSUME NEW r, NEW p, Tracks(r, p), NEW s, NEW aged, Ticked(r, p, s, aged)
  PROVE  LET q == Within(aged)
         IN  /\ Tracks(s, q)
             /\ Cardinality({i \in 1..Len(q) : q[i].assess}) <= Cardinality({i \in 1..Len(p) : p[i].assess})
  <1> DEFINE W == RATE_LIMIT_WINDOW_S
             n == Len(r)
             m == Len(p)
             q == Within(aged)
             old == {i \in 1..m : aged[i].age > W}
  <1>1. /\ r \in Seq(0..W + 1) /\ n \in Nat /\ m \in Nat /\ n - m \in Nat /\ W \in Nat
        /\ \A i \in 1..m : /\ r[n - m + i] = p[i].age /\ p[i].age \in 0..W
                           /\ p[i] \in [assess : BOOLEAN, age : Windowed]
        /\ \A i \in 1..n - m : r[i] > W
        /\ \A i, j \in 1..m : i <= j => p[j].age <= p[i].age
    <2>1. \A i \in 1..m : p[i] \in [assess : BOOLEAN, age : Windowed]
      BY ElementOfSeq DEF Tracks
    <2>2. \A i \in 1..m : p[i].age \in 0..W
      BY <2>1 DEF Windowed
    <2>3. QED BY <2>1, <2>2, ApiAssumption DEF Tracks
  <1>2. /\ s \in Seq(0..W + 1) /\ Len(s) = n /\ \A i \in 1..n : s[i] = Older(r[i], W)
        /\ \A i \in 1..m : /\ aged[i] \in [assess : BOOLEAN, age : Nat]
                           /\ aged[i].age = p[i].age + 1 /\ aged[i].assess = p[i].assess
        /\ q = SubSeq(aged, Cardinality(old) + 1, m)
    BY DEF Ticked, Within
  <1>3. old \subseteq 1..m /\ \A i \in 1..m : i \in old <=> p[i].age = W
    <2>1. \A i \in 1..m : i \in old <=> p[i].age + 1 > W
      BY <1>2
    <2> HIDE DEF old, m, W
    <2>2. \A i \in 1..m : p[i].age + 1 > W <=> p[i].age = W
      BY <1>1
    <2>3. old \subseteq 1..m
      BY DEF old
    <2>4. QED BY <2>1, <2>2, <2>3
  <1> HIDE DEF W, n, m, q, old
  <1>4. ASSUME NEW i \in 1..m, NEW j \in 1..m, i <= j, j \in old
        PROVE  i \in old
    <2>1. p[j].age <= p[i].age /\ p[i].age \in 0..W /\ p[j].age = W
      BY <1>1, <1>3, <1>4
    <2>2. p[i].age = W
      BY <1>1, <2>1
    <2>3. QED BY <1>3, <2>2
  <1>5. PICK l \in 0..m : old = 1..l
    <2>1. CASE old = {}
      <3>1. old = 1..0 /\ 0 \in 0..m
        BY <1>1, <2>1
      <3>2. QED BY <3>1
    <2>2. CASE old # {}
      <3>1. IsFiniteSet(old)
        <4>1. IsFiniteSet(1..m)
          BY <1>1, UpTo
        <4>2. QED BY <1>3, <4>1, FS_Subset
      <3>2. PICK l \in old : \A j \in old : j <= l
        <4>1. PICK i \in {m + 1 - j : j \in old} : \A h \in {m + 1 - j : j \in old} : i <= h
          <5>1. {m + 1 - j : j \in old} \subseteq 1..m /\ {m + 1 - j : j \in old} # {}
            <6>1. \A j \in 1..m : m + 1 - j \in 1..m
              BY <1>1
            <6>2. QED BY <1>3, <2>2, <6>1
          <5>2. QED BY <1>1, <5>1, FirstPosition, Zenon
        <4>2. PICK l \in old : i = m + 1 - l
          OBVIOUS
        <4>3. \A j \in old : j <= l
          <5>1. \A j \in old : i <= m + 1 - j /\ j \in 1..m /\ l \in 1..m
            BY <1>3, <4>1
          <5>2. QED BY <1>1, <4>2, <5>1
        <4>4. QED BY <4>3
      <3>3. old = 1..l
        <4>1. l \in 1..m /\ \A j \in old : j \in 1..m /\ j <= l
          BY <1>3, <3>2
        <4>2. \A j \in 1..l : j \in 1..m /\ j <= l
          BY <1>1, <4>1
        <4>3. \A j \in 1..l : j \in old
          BY <1>4, <3>2, <4>1, <4>2
        <4>4. \A j \in old : j \in 1..l
          BY <1>1, <4>1
        <4>5. QED BY <4>3, <4>4
      <3>4. QED BY <1>1, <1>3, <3>2, <3>3
    <2>3. QED BY <2>1, <2>2
  <1>6. Cardinality(old) = l
    <2>1. l \in Nat
      BY <1>1
    <2>2. Cardinality(1..l) = l
      BY <2>1, UpTo
    <2>3. QED BY <1>5, <2>2
  <1>7. \A i \in (l + 1)..m : aged[i] \in [assess : BOOLEAN, age : Windowed]
    <2>1. ASSUME NEW i \in (l + 1)..m
          PROVE  aged[i].age \in Windowed /\ aged[i] \in [assess : BOOLEAN, age : Nat]
      <3>1. i \in 1..m /\ i \notin 1..l
        BY <1>1, <1>5
      <3>2. p[i].age \in 0..W /\ p[i].age # W
        BY <1>1, <1>3, <1>5, <3>1
      <3>3. p[i].age + 1 \in 0..W
        BY <1>1, <3>2
      <3>4. QED BY <1>2, <3>1, <3>3 DEF Windowed, W
    <2>2. \A x \in [assess : BOOLEAN, age : Nat] :
            x.age \in Windowed => x \in [assess : BOOLEAN, age : Windowed]
      OBVIOUS
    <2>3. QED BY <2>1, <2>2
  <1>8. /\ q \in Seq([assess : BOOLEAN, age : Windowed]) /\ Len(q) = m - l
        /\ \A i \in 1..m - l : q[i] = aged[l + i]
    <2>1. q = SubSeq(aged, l + 1, m)
      BY <1>2, <1>6
    <2>2. /\ q \in Seq([assess : BOOLEAN, age : Windowed])
          /\ Len(q) = IF l + 1 <= m THEN m - (l + 1) + 1 ELSE 0
          /\ \A i \in 1..m - (l + 1) + 1 : q[i] = aged[(l + 1) + i - 1]
      BY <1>1, <1>5, <1>7, <2>1, SubSeqProperties
    <2>3. /\ m - (l + 1) + 1 = m - l /\ (~(l + 1 <= m) => m - l = 0)
          /\ \A i \in 1..m - l : (l + 1) + i - 1 = l + i
      BY <1>1, <1>5
    <2>4. QED BY <2>2, <2>3
  <1>9. /\ s \in Seq(0..W + 1) /\ Len(s) = n
        /\ \A i \in 1..n : s[i] = Older(r[i], W) /\ r[i] \in 0..W + 1
    <2>1. \A i \in 1..n : r[i] \in 0..W + 1
      BY <1>1, ElementOfSeq DEF n
    <2>2. QED BY <1>2, <2>1
  <1>10. ASSUME NEW i \in 1..m - l
         PROVE  s[n - (m - l) + i] = q[i].age
    <2>1. l + i \in 1..m /\ n - (m - l) + i \in 1..n /\ n - (m - l) + i = n - m + (l + i)
      BY <1>1, <1>5
    <2>2. r[n - (m - l) + i] = p[l + i].age /\ p[l + i].age \in 0..W
      BY <1>1, <1>5, <2>1
    <2>3. s[n - (m - l) + i] = p[l + i].age + 1
      <3>1. s[n - (m - l) + i] = Older(p[l + i].age, W)
        BY <1>9, <2>1, <2>2
      <3>2. ~(p[l + i].age > W)
        BY <1>1, <2>2
      <3>3. QED BY <3>1, <3>2 DEF Older
    <2>4. q[i].age = p[l + i].age + 1
      BY <1>2, <1>8, <2>1
    <2>5. QED BY <2>3, <2>4
  <1>11. ASSUME NEW i \in 1..n - (m - l)
         PROVE  s[i] > W
    <2>1. i \in 1..n
      BY <1>1, <1>5
    <2>2. CASE i \in 1..n - m
      BY <1>1, <1>5, <1>9, <2>1, <2>2 DEF Older
    <2>3. CASE i \notin 1..n - m
      <3>1. i - (n - m) \in 1..l /\ n - m + (i - (n - m)) = i
        BY <1>1, <1>5, <2>1, <2>3
      <3>2. i - (n - m) \in 1..m /\ p[i - (n - m)].age = W
        BY <1>1, <1>3, <1>5, <3>1
      <3>3. r[i] = W
        BY <1>1, <1>5, <3>1, <3>2
      <3>4. QED BY <1>1, <1>5, <1>9, <2>1, <3>3 DEF Older
    <2>4. QED BY <2>2, <2>3
  <1>12. ASSUME NEW i \in 1..m - l, NEW j \in 1..m - l, i <= j
         PROVE  q[j].age <= q[i].age
    <2>1. l + i \in 1..m /\ l + j \in 1..m /\ l + i <= l + j
      BY <1>1, <1>5, <1>12
    <2>2. q[i].age = p[l + i].age + 1 /\ q[j].age = p[l + j].age + 1
      BY <1>2, <1>8, <2>1
    <2>3. p[l + j].age <= p[l + i].age
      BY <1>1, <2>1
    <2>4. p[l + i].age \in 0..W /\ p[l + j].age \in 0..W
      BY <1>1, <2>1
    <2>5. \A x, y \in 0..W : x <= y => x + 1 <= y + 1
      BY <1>1
    <2>6. QED BY <2>2, <2>3, <2>4, <2>5
  <1>13. Tracks(s, q)
    BY <1>1, <1>5, <1>8, <1>9, <1>10, <1>11, <1>12 DEF Tracks, W
  <1>14. Cardinality({i \in 1..Len(q) : q[i].assess}) <= Cardinality({i \in 1..m : p[i].assess})
    <2> DEFINE A == {i \in 1..m - l : q[i].assess}
               B == {i \in 1..m : p[i].assess}
               f == [i \in A |-> l + i]
    <2>1. \A i \in 1..m - l : l + i \in 1..m /\ q[i].assess = p[l + i].assess
      <3>1. \A i \in 1..m - l : l + i \in 1..m
        BY <1>1, <1>5
      <3>2. QED BY <1>2, <1>8, <3>1
    <2>2. f \in Injection(A, B)
      <3>1. f \in [A -> B]
        BY <2>1
      <3>2. \A i, j \in A : f[i] = f[j] => i = j
        BY <1>1, <1>5
      <3>3. QED BY <3>1, <3>2, Fun_IsInj
    <2>3. IsFiniteSet(B)
      <3>1. IsFiniteSet(1..m)
        BY <1>1, UpTo
      <3>2. B \subseteq 1..m
        OBVIOUS
      <3>3. QED BY <3>1, <3>2, FS_Subset
    <2> HIDE DEF A, B, f
    <2>4. Cardinality(A) <= Cardinality(B)
      BY <2>2, <2>3, FS_Injection
    <2>5. QED BY <1>8, <2>4 DEF A, B
  <1>15. QED BY <1>13, <1>14 DEF q, m

\* A bucket that is trimmed still tracks the same requests.
LEMMA TrimmedTracks ==
  ASSUME NEW r, NEW p, Tracks(r, p)
  PROVE  Tracks(Trim(r), p)
  <1> DEFINE t == Trim(r)
             m == Len(p)
  <1>1. /\ t \in Seq(0..RATE_LIMIT_WINDOW_S + 1) /\ Len(t) = m
        /\ \A i \in 1..m : t[i] = p[i].age
    BY TrimTracks
  <1>2. /\ p \in Seq([assess : BOOLEAN, age : Windowed]) /\ m \in Nat
        /\ \A i, j \in 1..m : i <= j => p[j].age <= p[i].age
    BY DEF Tracks
  <1> HIDE DEF t, m
  <1>3. Len(t) - m = 0 /\ 1..Len(t) - m = {} /\ \A i \in 1..m : Len(t) - m + i = i
    BY <1>1, <1>2
  <1>4. QED BY <1>1, <1>2, <1>3 DEF Tracks, t, m

\* A request let pass is the latest moment of the bucket.
LEMMA PassTracks ==
  ASSUME NEW r, NEW p, Tracks(r, p), NEW a \in BOOLEAN
  PROVE  LET q == Append(p, [assess |-> a, age |-> 0])
             assessed == {i \in 1..Len(p) : p[i].assess}
         IN  /\ Tracks(Append(Trim(r), 0), q)
             /\ Cardinality(assessed) <= Len(p)
             /\ Cardinality({i \in 1..Len(q) : q[i].assess}) = Cardinality(assessed) + IF a THEN 1 ELSE 0
  <1> DEFINE t == Trim(r)
             m == Len(p)
             last == [assess |-> a, age |-> 0]
             q == Append(p, last)
             u == Append(t, 0)
             assessed == {i \in 1..m : p[i].assess}
             after == {i \in 1..Len(q) : q[i].assess}
  <1>1. /\ t \in Seq(0..RATE_LIMIT_WINDOW_S + 1) /\ Len(t) = m
        /\ \A i \in 1..m : t[i] = p[i].age
    BY TrimTracks
  <1>2. /\ p \in Seq([assess : BOOLEAN, age : Windowed]) /\ m \in Nat
        /\ \A i, j \in 1..m : i <= j => p[j].age <= p[i].age
    BY DEF Tracks
  <1>3. last \in [assess : BOOLEAN, age : Windowed] /\ 0 \in 0..RATE_LIMIT_WINDOW_S + 1
        /\ last.age = 0 /\ last.assess = a
    BY ApiAssumption DEF Windowed
  <1>4. \A i \in 1..m : p[i].age \in Nat
    <2>1. \A i \in 1..m : p[i] \in [assess : BOOLEAN, age : Windowed]
      BY <1>2, ElementOfSeq
    <2>2. Windowed \subseteq Nat
      BY ApiAssumption DEF Windowed
    <2>3. QED BY <2>1, <2>2
  <1> HIDE DEF t, last
  <1>5. /\ q \in Seq([assess : BOOLEAN, age : Windowed]) /\ Len(q) = m + 1
        /\ \A i \in 1..m : q[i] = p[i]
        /\ q[m + 1] = last
    BY <1>2, <1>3, AppendProperties
  <1>6. /\ u \in Seq(0..RATE_LIMIT_WINDOW_S + 1) /\ Len(u) = m + 1
        /\ \A i \in 1..m : u[i] = t[i]
        /\ u[m + 1] = 0
    BY <1>1, <1>3, AppendProperties
  <1> HIDE DEF q, u
  <1>7. \A i \in 1..m + 1 : i \in 1..m \/ i = m + 1
    BY <1>2
  <1> HIDE DEF m
  <1>8. \A i \in 1..m + 1 : u[i] = q[i].age
    BY <1>1, <1>3, <1>5, <1>6, <1>7
  <1>9. ASSUME NEW i \in 1..m + 1, NEW j \in 1..m + 1, i <= j
        PROVE  q[j].age <= q[i].age
    <2>1. CASE j = m + 1
      <3>1. q[j].age = 0 /\ q[i].age \in Nat
        BY <1>3, <1>4, <1>5, <1>7, <2>1
      <3>2. QED BY <3>1
    <2>2. CASE j \in 1..m
      <3>1. i \in 1..m
        BY <1>2, <1>9, <2>2
      <3>2. QED BY <1>2, <1>5, <1>9, <2>2, <3>1
    <2>3. QED BY <1>7, <2>1, <2>2
  <1>10. Tracks(u, q)
    <2>1. /\ m + 1 \in Nat /\ (m + 1) - (m + 1) = 0 /\ 1..(m + 1) - (m + 1) = {}
          /\ \A i \in 1..m + 1 : (m + 1) - (m + 1) + i = i
      BY <1>2
    <2>2. QED BY <1>5, <1>6, <1>8, <1>9, <2>1 DEF Tracks
  <1>11. IsFiniteSet(assessed) /\ Cardinality(assessed) \in Nat /\ Cardinality(assessed) <= m
    <2>1. IsFiniteSet(1..m) /\ Cardinality(1..m) = m
      BY <1>2, UpTo
    <2>2. assessed \subseteq 1..m
      OBVIOUS
    <2> HIDE DEF assessed
    <2>3. QED BY <2>1, <2>2, FS_Subset, FS_CardinalityType
  <1>12. after = IF a THEN assessed \union {m + 1} ELSE assessed
    BY <1>3, <1>5, <1>7, <1>2
  <1>13. m + 1 \notin assessed
    BY <1>2
  <1> HIDE DEF assessed, after
  <1>14. Cardinality(assessed \union {m + 1}) = Cardinality(assessed) + 1
    BY <1>11, <1>13, FS_AddElement
  <1>15. Cardinality(after) = Cardinality(assessed) + IF a THEN 1 ELSE 0
    BY <1>11, <1>12, <1>14
  <1>16. QED BY <1>10, <1>11, <1>15 DEF after, assessed, m, q, u, t, last

\* Nothing to track.
LEMMA NothingTracked ==
  Tracks(<< >>, << >>) /\ Cardinality({i \in 1..Len(<< >>) : << >>[i].assess}) = 0
  <1>1. Len(<< >>) = 0 /\ \A A : << >> \in Seq(A)
    OBVIOUS
  <1>2. 1..0 = {} /\ 0 - 0 = 0
    OBVIOUS
  <1>3. Cardinality({}) = 0
    BY FS_EmptySet
  <1>4. {i \in 1..Len(<< >>) : << >>[i].assess} = {}
    BY <1>1, <1>2
  <1>5. QED BY <1>1, <1>2, <1>3, <1>4 DEF Tracks

\* A bucket's window, when it tracks what was let pass and holds no more
\* assessments than it may.
Bounded(r, p) ==
  Tracks(r, p) /\ Cardinality({i \in 1..Len(p) : p[i].assess}) <= RATE_LIMIT_REQUESTS

LEMMA EmptyBounded == Bounded(<< >>, << >>)
  BY NothingTracked, ApiAssumption DEF Bounded

\* Buckets that are all empty are within bounds.
LEMMA WindowEmpty ==
  ASSUME NEW r, NEW p, r = [b \in BucketKeys |-> << >>], p = [b \in BucketKeys |-> << >>]
  PROVE  /\ r \in [BucketKeys -> Seq(0..RATE_LIMIT_WINDOW_S + 1)]
         /\ p \in [BucketKeys -> Seq([assess : BOOLEAN, age : Windowed])]
         /\ \A b \in BucketKeys : Bounded(r[b], p[b])
  <1>1. \A A : << >> \in Seq(A)
    OBVIOUS
  <1>2. \A b \in BucketKeys : r[b] = << >> /\ p[b] = << >>
    OBVIOUS
  <1>3. QED BY <1>1, <1>2, EmptyBounded

LEMMA WindowInit == Init => WindowInv
  <1> SUFFICES ASSUME Init PROVE WindowInv
    OBVIOUS
  <1>1. rate = [b \in BucketKeys |-> << >>] /\ passed = [b \in BucketKeys |-> << >>]
    BY DEF Init
  <1>2. \A b \in BucketKeys : Bounded(rate[b], passed[b])
    BY <1>1, WindowEmpty
  <1>3. \A A : << >> \in Seq(A)
    OBVIOUS
  <1>4. QED BY <1>1, <1>2, <1>3 DEF WindowInv, RateBound, Assessments, Bounded

\* A tick takes nothing into a window.
LEMMA WindowTick == ASSUME WindowInv, Tick PROVE WindowInv'
  <1> DEFINE aged(b) == [i \in 1..Len(passed[b]) |-> [passed[b][i] EXCEPT !.age = @ + 1]]
  <1>1. ASSUME NEW b \in BucketKeys
        PROVE  /\ Ticked(rate[b], passed[b], rate'[b], aged(b))
               /\ passed'[b] = Within(aged(b))
    <2>1. /\ rate[b] \in Seq(0..RATE_LIMIT_WINDOW_S + 1) /\ Len(rate[b]) \in Nat
          /\ passed[b] \in Seq([assess : BOOLEAN, age : Windowed]) /\ Len(passed[b]) \in Nat
      BY DEF WindowInv, Tracks
    <2>2. /\ \A i \in 1..Len(passed[b]) : passed[b][i] \in [assess : BOOLEAN, age : Windowed]
          /\ \A i \in 1..Len(rate[b]) : rate[b][i] \in 0..RATE_LIMIT_WINDOW_S + 1
      BY <2>1, ElementOfSeq
    <2>3. \A x \in [assess : BOOLEAN, age : Windowed] :
            /\ [x EXCEPT !.age = @ + 1] \in [assess : BOOLEAN, age : Nat]
            /\ [x EXCEPT !.age = @ + 1].age = x.age + 1
            /\ [x EXCEPT !.age = @ + 1].assess = x.assess
      BY ApiAssumption DEF Windowed
    <2> DEFINE grown(x) == [x EXCEPT !.age = @ + 1]
    <2>4. aged(b) = [i \in 1..Len(passed[b]) |-> grown(passed[b][i])]
      OBVIOUS
    <2>5. \A i \in 1..Len(passed[b]) :
            /\ grown(passed[b][i]) \in [assess : BOOLEAN, age : Nat]
            /\ grown(passed[b][i]).age = passed[b][i].age + 1
            /\ grown(passed[b][i]).assess = passed[b][i].assess
      BY <2>2, <2>3
    <2>6. passed'[b] = Within(aged(b))
      BY DEF Tick, Within
    <2> HIDE DEF grown, aged
    <2>7. /\ Len(aged(b)) = Len(passed[b])
          /\ \A i \in 1..Len(passed[b]) : aged(b)[i] = grown(passed[b][i])
      BY <2>1, <2>4
    <2>8. \A x \in 0..RATE_LIMIT_WINDOW_S + 1 :
            Older(x, RATE_LIMIT_WINDOW_S) \in 0..RATE_LIMIT_WINDOW_S + 1
      BY ApiAssumption DEF Older
    <2>9. rate'[b] = [i \in 1..Len(rate[b]) |-> Older(rate[b][i], RATE_LIMIT_WINDOW_S)]
      BY DEF Tick
    <2>10. /\ rate'[b] \in Seq(0..RATE_LIMIT_WINDOW_S + 1) /\ Len(rate'[b]) = Len(rate[b])
           /\ \A i \in 1..Len(rate[b]) : rate'[b][i] = Older(rate[b][i], RATE_LIMIT_WINDOW_S)
      BY <2>1, <2>2, <2>8, <2>9
    <2>11. QED BY <2>5, <2>6, <2>7, <2>10 DEF Ticked
  <1> HIDE DEF aged
  <1>2. \A b \in BucketKeys :
          /\ Tracks(rate'[b], passed'[b])
          /\ Cardinality({i \in 1..Len(passed'[b]) : passed'[b][i].assess})
               <= Cardinality({i \in 1..Len(passed[b]) : passed[b][i].assess})
    <2>1. SUFFICES ASSUME NEW b \in BucketKeys
                   PROVE  /\ Tracks(rate'[b], passed'[b])
                          /\ Cardinality({i \in 1..Len(passed'[b]) : passed'[b][i].assess})
                               <= Cardinality({i \in 1..Len(passed[b]) : passed[b][i].assess})
      OBVIOUS
    <2>2. Tracks(rate[b], passed[b]) /\ Ticked(rate[b], passed[b], rate'[b], aged(b))
      BY <1>1 DEF WindowInv
    <2>3. passed'[b] = Within(aged(b))
      BY <1>1
    <2>4. /\ Tracks(rate'[b], Within(aged(b)))
          /\ Cardinality({i \in 1..Len(Within(aged(b))) : Within(aged(b))[i].assess})
               <= Cardinality({i \in 1..Len(passed[b]) : passed[b][i].assess})
      BY <2>2, TickTracks
    <2>5. QED BY <2>3, <2>4
  <1>3. /\ DOMAIN rate' = BucketKeys /\ DOMAIN passed' = BucketKeys
        /\ rate' = [b \in BucketKeys |-> rate'[b]] /\ passed' = [b \in BucketKeys |-> passed'[b]]
    BY DEF Tick
  <1>4. /\ rate' \in [BucketKeys -> Seq(0..RATE_LIMIT_WINDOW_S + 1)]
        /\ passed' \in [BucketKeys -> Seq([assess : BOOLEAN, age : Windowed])]
    BY <1>2, <1>3 DEF Tracks
  <1>5. RateBound'
    <2>1. \A b \in BucketKeys : Cardinality(Assessments(b)') <= Cardinality(Assessments(b))
      BY <1>2 DEF Assessments
    <2>2. \A b \in BucketKeys : /\ Cardinality(Assessments(b)) \in Nat
                               /\ Cardinality(Assessments(b)') \in Nat
      <3>1. \A b \in BucketKeys : Len(passed[b]) \in Nat /\ Len(passed'[b]) \in Nat
        BY <1>2 DEF WindowInv, Tracks
      <3>2. \A b \in BucketKeys : IsFiniteSet(1..Len(passed[b])) /\ IsFiniteSet(1..Len(passed'[b]))
        BY <3>1, UpTo
      <3>3. \A b \in BucketKeys : /\ Assessments(b) \subseteq 1..Len(passed[b])
                                 /\ Assessments(b)' \subseteq 1..Len(passed'[b])
        BY DEF Assessments
      <3>4. QED BY <3>2, <3>3, FS_Subset, FS_CardinalityType
    <2>3. \A b \in BucketKeys : Cardinality(Assessments(b)) <= RATE_LIMIT_REQUESTS
      BY DEF WindowInv, RateBound
    <2>4. \A b \in BucketKeys : Cardinality(Assessments(b)') <= RATE_LIMIT_REQUESTS
      BY <2>1, <2>2, <2>3, ApiAssumption
    <2>5. QED BY <2>4 DEF RateBound
  <1>6. QED BY <1>2, <1>4, <1>5 DEF WindowInv

\* A bucket that is not full has fewer moments than the limit.
LEMMA NotFull ==
  ASSUME WindowInv, NEW b \in BucketKeys, ~Full(rate[b])
  PROVE  Len(Trim(rate[b])) < RATE_LIMIT_REQUESTS
  <1>1. Len(Trim(rate[b])) = Len(passed[b]) /\ Len(passed[b]) \in Nat
    BY TrimTracks DEF WindowInv, Tracks
  <1>2. QED BY <1>1, ApiAssumption DEF Full

\* The guard lets an assessment pass only when there is room in its window.
LEMMA WindowGuard ==
  ASSUME WindowInv, NEW s \in Slots, NEW req \in Requests, guard(s, req)
  PROVE  WindowInv'
  <1> DEFINE key == req.key
             a == req.path = "assess"
             trimmed == Trim(rate[key])
             more == Append(passed[key], [assess |-> a, age |-> 0])
  <1>1. key \in BucketKeys /\ a \in BOOLEAN
    BY ApiAssumption
  <1>2. Tracks(rate[key], passed[key])
    BY <1>1 DEF WindowInv
  <1>3. CASE UNCHANGED <<rate, passed>>
    BY <1>3 DEF WindowInv, RateBound, Assessments
  <1>4. ASSUME rate' = [rate EXCEPT ![key] = trimmed], passed' = passed
        PROVE  WindowInv'
    <2>1. Tracks(trimmed, passed[key])
      BY <1>2, TrimmedTracks
    <2>2. trimmed \in Seq(0..RATE_LIMIT_WINDOW_S + 1)
      BY <2>1 DEF Tracks
    <2> HIDE DEF trimmed
    <2>3. QED BY <1>1, <1>4, <2>1, <2>2 DEF WindowInv, RateBound, Assessments
  <1>5. ASSUME rate' = [rate EXCEPT ![key] = Append(trimmed, 0)],
               passed' = [passed EXCEPT ![key] = more],
               a => Len(trimmed) < RATE_LIMIT_REQUESTS
        PROVE  WindowInv'
    <2> DEFINE assessed == {i \in 1..Len(passed[key]) : passed[key][i].assess}
               after == {i \in 1..Len(more) : more[i].assess}
    <2>1. /\ Tracks(Append(trimmed, 0), more)
          /\ Cardinality(assessed) <= Len(passed[key])
          /\ Cardinality(after) = Cardinality(assessed) + IF a THEN 1 ELSE 0
      BY <1>1, <1>2, PassTracks
    <2>2. Len(trimmed) = Len(passed[key]) /\ Len(passed[key]) \in Nat
      BY <1>2, TrimTracks DEF Tracks
    <2>3. Cardinality(assessed) \in Nat
      <3>1. IsFiniteSet(1..Len(passed[key]))
        BY <2>2, UpTo
      <3>2. assessed \subseteq 1..Len(passed[key])
        OBVIOUS
      <3> HIDE DEF assessed
      <3>3. QED BY <3>1, <3>2, FS_Subset, FS_CardinalityType
    <2>4. Cardinality(assessed) <= RATE_LIMIT_REQUESTS
      BY <1>1 DEF WindowInv, RateBound, Assessments
    <2> HIDE DEF assessed, after, trimmed, more, a
    <2>5. Cardinality(after) <= RATE_LIMIT_REQUESTS
      BY <1>5, <2>1, <2>2, <2>3, <2>4, ApiAssumption
    <2>6. /\ Append(trimmed, 0) \in Seq(0..RATE_LIMIT_WINDOW_S + 1)
          /\ more \in Seq([assess : BOOLEAN, age : Windowed])
      BY <2>1 DEF Tracks
    <2>7. /\ rate' \in [BucketKeys -> Seq(0..RATE_LIMIT_WINDOW_S + 1)]
          /\ passed' \in [BucketKeys -> Seq([assess : BOOLEAN, age : Windowed])]
          /\ rate'[key] = Append(trimmed, 0) /\ passed'[key] = more
          /\ \A b \in BucketKeys : b # key => rate'[b] = rate[b] /\ passed'[b] = passed[b]
      BY <1>1, <1>5, <2>6 DEF WindowInv
    <2>8. \A b \in BucketKeys : Tracks(rate'[b], passed'[b])
      BY <2>1, <2>7 DEF WindowInv
    <2>9. ASSUME NEW b \in BucketKeys
          PROVE  Cardinality({i \in 1..Len(passed'[b]) : passed'[b][i].assess}) <= RATE_LIMIT_REQUESTS
      <3>1. CASE b = key
        <4>1. passed'[b] = more
          BY <2>7, <3>1
        <4>2. QED BY <2>5, <4>1 DEF after
      <3>2. CASE b # key
        BY <2>7, <3>2 DEF WindowInv, RateBound, Assessments
      <3>3. QED BY <3>1, <3>2
    <2>10. QED BY <2>7, <2>8, <2>9 DEF WindowInv, RateBound, Assessments
  <1>6. ~Full(rate[key]) => Len(trimmed) < RATE_LIMIT_REQUESTS
    BY <1>1, NotFull
  <1>7. QED
    <2>1. CASE Refuse(req, 413) /\ UNCHANGED rate
      BY <1>3, <2>1 DEF Refuse
    <2>2. CASE Refuse(req, 429) /\ rate' = [rate EXCEPT ![key] = trimmed]
      BY <1>4, <2>2 DEF Refuse
    <2>3. CASE /\ a => ~Full(rate[key])
               /\ rate' = [rate EXCEPT ![key] = Append(trimmed, 0)] /\ Pass(s, req)
      BY <1>5, <1>6, <2>3 DEF Pass
    <2>4. QED BY <2>1, <2>2, <2>3 DEF guard

LEMMA WindowStep == ASSUME WindowInv, [Next]_vars PROVE WindowInv'
  <1>1. CASE UNCHANGED vars
    BY <1>1 DEF vars, WindowInv, RateBound, Assessments
  <1>2. CASE Tick
    BY <1>2, WindowTick
  <1>3. CASE Restart
    <2>1. rate' = [b \in BucketKeys |-> << >>] /\ passed' = [b \in BucketKeys |-> << >>]
      BY <1>3 DEF Restart
    <2>2. \A b \in BucketKeys : Bounded(rate'[b], passed'[b])
      BY <2>1, WindowEmpty
    <2>3. \A A : << >> \in Seq(A)
      OBVIOUS
    <2>4. QED BY <2>1, <2>2, <2>3 DEF WindowInv, RateBound, Assessments, Bounded
  <1>4. ASSUME UNCHANGED <<rate, passed>> PROVE WindowInv'
    BY <1>4 DEF WindowInv, RateBound, Assessments
  <1>5. CASE Rotate
    BY <1>4, <1>5 DEF Rotate
  <1>6. ASSUME NEW s \in Slots, handle(s) PROVE WindowInv'
    BY <1>4, <1>6 DEF handle
  <1>7. ASSUME NEW s \in Slots, NEW req \in Requests, guard(s, req) PROVE WindowInv'
    BY <1>7, WindowGuard
  <1>8. QED BY <1>1, <1>2, <1>3, <1>5, <1>6, <1>7 DEF Next

\* One bucket has at most RATE_LIMIT_REQUESTS assessments let pass within any
\* window, however its requests overlap (guard).
THEOREM RateLimited == Spec => []RateBound
  <1>1. WindowInv => RateBound
    BY DEF WindowInv
  <1>2. QED BY <1>1, WindowInit, WindowStep, PTL DEF Spec

-----------------------------------------------------------------------------
(* The types, and the reports that are served.                              *)

Subjects ==
  {Nobody, "anonymous"} \union {req.token.subject : req \in {q \in Requests : HasToken(q)}}

Replies ==
  {NoReply} \union [status : {413, 429}, key : BucketKeys] \union
    [status : {200, 401, 403, 404, 422, 500}, body : Report \union {NoReport}]

\* The provider publishes some keys, none of them twice.
Published ==
  /\ published # << >>
  /\ \A i, j \in 1..Len(published) : published[i] = published[j] => i = j

\* What is held of it is not empty either.
KeysHeld == cache # NoCache => cache.keys # << >>

\* Every assessment that is under way has a number left to take.
Numbers == runs \in Nat /\ runs + Cardinality(Assessing) <= MaxRuns

\* What is known of the runs made: their reports, which this process has told
\* as they are, and who asked for them.
Known ==
  /\ reports \in [1..MaxRuns -> Report \union {NoReport}] /\ told = reports
  /\ audit \in [1..MaxRuns -> Subjects]
  /\ reply \in Replies

ServiceInv ==
  KeyInv /\ WindowInv /\ mode \in Modes /\ Published /\ KeysHeld /\ Numbers /\ Known

\* The requests under way that ask for an assessment are finitely many.
LEMMA AssessingFinite ==
  IsFiniteSet(Assessing) /\ Cardinality(Assessing) \in Nat
  <1>1. Assessing \subseteq Slots
    BY DEF Assessing
  <1>2. QED BY <1>1, ApiAssumption, FS_Subset, FS_CardinalityType

\* Only the slots tell which requests ask for an assessment.
LEMMA AssessingKept == slot' = slot => Assessing' = Assessing
  BY DEF Assessing

LEMMA ServiceInit == Init => ServiceInv
  <1> SUFFICES ASSUME Init PROVE ServiceInv
    OBVIOUS
  <1>1. Published
    <2>1. PICK k \in Keys : published = <<k>>
      BY DEF Init
    <2>2. published # << >> /\ Len(published) = 1
      BY <2>1
    <2>3. QED BY <2>2 DEF Published
  <1>2. Numbers
    <2>1. Assessing = {}
      BY DEF Init, Assessing
    <2>2. Cardinality(Assessing) = 0
      BY <2>1, FS_EmptySet
    <2>3. QED BY <2>2, ApiAssumption DEF Init, Numbers
  <1>3. Known
    BY DEF Init, Known, Replies, Subjects
  <1>4. QED BY <1>1, <1>2, <1>3, KeyInit, WindowInit DEF Init, ServiceInv, KeysHeld

\* The provider withdraws and adds keys without doubling one.
LEMMA PublishedRotate == ASSUME KeyTypes, Published, Rotate PROVE Published'
  <1>1. published \in Seq(Keys) /\ Len(published) \in Nat
    BY LenProperties DEF KeyTypes
  <1>2. CASE \E k \in Keys : ~Publishes(k) /\ published' = Append(published, k)
    <2>1. PICK k \in Keys : ~Publishes(k) /\ published' = Append(published, k)
      BY <1>2
    <2>2. /\ published' \in Seq(Keys) /\ Len(published') = Len(published) + 1
          /\ \A i \in 1..Len(published) : published'[i] = published[i]
          /\ published'[Len(published) + 1] = k
      BY <1>1, <2>1, AppendProperties
    <2>3. \A i \in 1..Len(published') : i \in 1..Len(published) \/ i = Len(published) + 1
      BY <1>1, <2>2
    <2>4. \A i \in 1..Len(published) : published'[i] # k
      BY <2>1, <2>2 DEF Publishes
    <2>5. published' # << >>
      BY <1>1, <2>2
    <2>6. \A i, j \in 1..Len(published') : published'[i] = published'[j] => i = j
      BY <2>2, <2>3, <2>4 DEF Published
    <2>7. QED BY <2>5, <2>6 DEF Published
  <1>3. CASE Len(published) > 1 /\ published' = Tail(published)
    <2>1. /\ published' \in Seq(Keys) /\ Len(published') = Len(published) - 1
          /\ \A i \in 1..Len(published') : published'[i] = published[i + 1]
      BY <1>1, <1>3, HeadTailProperties, EmptySeq
    <2>2. \A i \in 1..Len(published') : i \in Nat /\ i + 1 \in 1..Len(published)
      BY <1>1, <2>1
    <2>3. \A i, j \in 1..Len(published') : published'[i] = published'[j] => i = j
      <3>1. ASSUME NEW i \in 1..Len(published'), NEW j \in 1..Len(published'),
                   published'[i] = published'[j]
            PROVE  i = j
        <4>1. i + 1 = j + 1
          BY <2>1, <2>2, <3>1 DEF Published
        <4>2. QED BY <2>2, <4>1
      <3>2. QED BY <3>1
    <2>4. published' # << >>
      <3>1. Len(published') > 0
        BY <1>1, <1>3, <2>1
      <3>2. QED BY <3>1
    <2>5. QED BY <2>3, <2>4 DEF Published
  <1>4. QED BY <1>2, <1>3 DEF Rotate

\* What a route answers, and what becomes of the runs: a number is given out to
\* an assessment only, and what its requester is told is what is kept.
LEMMA RouteEffects ==
  ASSUME Known, Numbers, NEW s \in Slots, NEW who, who.subject \in Subjects,
         slot[s] \in Requests, Route(s, who)
  PROVE  /\ Known'
         /\ runs' = runs \/ (slot[s].path = "assess" /\ runs' = runs + 1)
  <1> DEFINE Bodies == Report \union {NoReport}
  <1>1. \A status \in {200, 401, 403, 404, 422, 500}, body \in Bodies :
          Plain(s, status, body) => Known' /\ runs' = runs
    BY DEF Plain, Answer, Known, Replies
  <1>2. Plain(s, 403, NoReport) => Known' /\ runs' = runs
    BY <1>1
  <1>3. Plain(s, 200, NoReport) => Known' /\ runs' = runs
    BY <1>1
  <1>4. GetReport(s) => Known' /\ runs' = runs
    BY <1>1 DEF GetReport, Known
  <1>5. CASE slot[s].path = "assess" /\ Assess(s, who)
    <2> DEFINE run == runs + 1
               report == [run |-> run, platform |-> slot[s].platform]
    <2>1. s \in Assessing
      BY <1>5, ApiAssumption DEF Assessing
    <2>2. Cardinality(Assessing) # 0
      BY <2>1, AssessingFinite, FS_EmptySet
    <2>3. run \in 1..MaxRuns
      BY <2>2, AssessingFinite, ApiAssumption DEF Numbers
    <2>4. report \in Report
      BY <2>3 DEF Report
    <2>5. runs' = run
      BY <1>5 DEF Assess
    <2>6. audit' \in [1..MaxRuns -> Subjects]
      BY <1>5, <2>3 DEF Assess, Known
    <2>7. reports' \in [1..MaxRuns -> Bodies] /\ told' = reports'
      <3>1. CASE reports' = [reports EXCEPT ![run] = report] /\ told' = [told EXCEPT ![run] = report]
        BY <2>4, <3>1 DEF Known
      <3>2. CASE UNCHANGED <<reports, told>>
        BY <3>2 DEF Known
      <3>3. QED BY <1>5, <3>1, <3>2 DEF Assess
    <2>8. reply' \in Replies
      BY <1>5, <2>4 DEF Assess, Answer, Replies
    <2>9. QED BY <1>5, <2>5, <2>6, <2>7, <2>8 DEF Known
  <1>6. QED BY <1>2, <1>3, <1>4, <1>5 DEF Route

\* So does the rest of a request, whoever asks.
LEMMA HandleEffects ==
  ASSUME Known, Numbers, NEW s \in Slots, slot[s] \in Requests, handle(s)
  PROVE  /\ Known'
         /\ runs' = runs \/ (slot[s].path = "assess" /\ runs' = runs + 1)
  <1> DEFINE Done == Known' /\ (runs' = runs \/ (slot[s].path = "assess" /\ runs' = runs + 1))
  <1>1. /\ Plain(s, 401, NoReport) => Done
        /\ Plain(s, 500, NoReport) => Done
    BY DEF Plain, Answer, Known, Replies
  <1>2. Route(s, Anonymous) => Done
    BY RouteEffects DEF Anonymous, Subjects
  <1>3. HasToken(slot[s]) /\ Route(s, PrincipalOf(slot[s].token)) => Done
    <2>1. HasToken(slot[s]) => PrincipalOf(slot[s].token).subject \in Subjects
      BY DEF PrincipalOf, Subjects
    <2>2. QED BY <2>1, RouteEffects
  <1>4. HasToken(slot[s]) /\ (KeysFail(s) \/ KeysAnswer(s) \/ DevSecret(s)) => Done
    <2> HIDE DEF Done
    <2>1. QED BY <1>1, <1>3 DEF KeysFail, KeysAnswer, DevSecret
  <1> HIDE DEF Done
  <1>5. Done
    BY <1>1, <1>2, <1>4 DEF handle
  <1>6. QED BY <1>5 DEF Done

\* A slot that is freed is one assessment less under way, at most.
LEMMA NumbersHandle ==
  ASSUME KeyTypes, Known, Numbers, NEW s \in Slots, handle(s)
  PROVE  Known' /\ Numbers'
  <1>1. slot[s] \in Requests /\ slot \in [Slots -> Requests \union {Free}]
    BY DEF handle, KeyTypes
  <1>2. Assessing' = Assessing \ {s}
    BY <1>1, HandleShape DEF Assessing
  <1>3. /\ Cardinality(Assessing') \in Nat
        /\ Cardinality(Assessing') = IF s \in Assessing THEN Cardinality(Assessing) - 1
                                                         ELSE Cardinality(Assessing)
    <2>1. IsFiniteSet(Assessing \ {s})
      BY AssessingFinite, FS_Subset
    <2>2. Cardinality(Assessing \ {s}) \in Nat
      BY <2>1, FS_CardinalityType
    <2>3. Cardinality(Assessing \ {s}) = IF s \in Assessing THEN Cardinality(Assessing) - 1
                                                              ELSE Cardinality(Assessing)
      BY AssessingFinite, FS_RemoveElement
    <2>4. QED BY <1>2, <2>2, <2>3
  <1>4. slot[s].path = "assess" => s \in Assessing
    BY <1>1, ApiAssumption DEF Assessing
  <1>5. Known' /\ (runs' = runs \/ (slot[s].path = "assess" /\ runs' = runs + 1))
    BY <1>1, HandleEffects
  <1>6. Numbers'
    BY <1>3, <1>4, <1>5, AssessingFinite, ApiAssumption DEF Numbers
  <1>7. QED BY <1>5, <1>6

\* The guard starts an assessment only when there is a number left for it.
LEMMA NumbersGuard ==
  ASSUME KeyTypes, Known, Numbers, NEW s \in Slots, NEW req \in Requests, guard(s, req)
  PROVE  Known' /\ Numbers'
  <1>1. slot[s] = Free /\ slot \in [Slots -> Requests \union {Free}] /\ req # Free
    BY ApiAssumption DEF guard, KeyTypes
  <1>2. UNCHANGED <<reports, told, audit, runs>>
    BY DEF guard
  <1>3. reply' \in Replies
    BY ApiAssumption DEF guard, Refuse, Pass, Replies
  <1>4. Known'
    BY <1>2, <1>3 DEF Known
  <1>5. CASE slot' = slot
    BY <1>2, <1>4, <1>5, AssessingKept DEF Numbers
  <1>6. CASE /\ slot' = [slot EXCEPT ![s] = req]
             /\ req.path = "assess" => runs + Cardinality(Assessing) < MaxRuns
    <2>1. Assessing' = IF req.path = "assess" THEN Assessing \union {s} ELSE Assessing
      BY <1>1, <1>6 DEF Assessing
    <2>2. s \notin Assessing
      BY <1>1 DEF Assessing
    <2>3. Cardinality(Assessing \union {s}) = Cardinality(Assessing) + 1
      BY <2>2, AssessingFinite, FS_AddElement
    <2>4. QED BY <1>2, <1>4, <1>6, <2>1, <2>3, AssessingFinite, ApiAssumption DEF Numbers
  <1>7. QED BY <1>5, <1>6 DEF guard, Refuse, Pass

\* Only what is published is fetched, and an answer that is an error is not kept.
LEMMA KeysHeldStep == ASSUME KeyTypes, Published, KeysHeld, [Next]_vars PROVE KeysHeld'
  <1>1. CASE UNCHANGED cache
    BY <1>1 DEF KeysHeld
  <1>2. CASE Tick
    <2>1. CASE cache = NoCache
      BY <1>2, <2>1 DEF Tick, KeysHeld
    <2>2. CASE cache # NoCache
      <3>1. cache \in [keys : Seq(Keys), age : KeyAge]
        BY <2>2 DEF KeyTypes
      <3>2. cache'.keys = cache.keys
        BY <1>2, <2>2, <3>1 DEF Tick
      <3>3. QED BY <2>2, <3>2 DEF KeysHeld
    <2>3. QED BY <2>1, <2>2
  <1>3. CASE Restart
    BY <1>3 DEF Restart, KeysHeld
  <1>4. ASSUME NEW s, handle(s) PROVE KeysHeld'
    <2>1. CASE cache' = [keys |-> published, age |-> 0]
      BY <2>1 DEF KeysHeld, Published
    <2>2. QED BY <1>1, <1>4, <2>1, HandleShape DEF Refreshed
  <1>5. ASSUME NEW s, NEW req, guard(s, req) PROVE KeysHeld'
    BY <1>1, <1>5 DEF guard
  <1>6. CASE Rotate
    BY <1>1, <1>6 DEF Rotate
  <1>7. CASE UNCHANGED vars
    BY <1>1, <1>7 DEF vars
  <1>8. QED BY <1>2, <1>3, <1>4, <1>5, <1>6, <1>7 DEF Next

LEMMA ServiceStep == ASSUME ServiceInv, [Next]_vars PROVE ServiceInv'
  <1>1. KeyInv' /\ WindowInv' /\ KeysHeld' /\ KeyTypes
    BY KeyStep, WindowStep, KeysHeldStep DEF ServiceInv, KeyInv
  <1>2. CASE UNCHANGED vars
    BY <1>1, <1>2, AssessingKept DEF vars, ServiceInv, Published, Numbers, Known
  <1>3. CASE Tick
    BY <1>1, <1>3, AssessingKept DEF Tick, ServiceInv, Published, Numbers, Known, Replies
  <1>4. CASE Rotate
    <2>1. Published'
      BY <1>1, <1>4, PublishedRotate DEF ServiceInv
    <2>2. QED BY <1>1, <1>4, <2>1, AssessingKept DEF Rotate, ServiceInv, Numbers, Known, Replies
  <1>5. CASE Restart
    <2>1. Assessing' = {}
      BY <1>5 DEF Restart, Assessing
    <2>2. Cardinality(Assessing') = 0
      BY <2>1, FS_EmptySet
    <2>3. Numbers'
      BY <1>5, <2>2, AssessingFinite, ApiAssumption DEF Restart, ServiceInv, Numbers
    <2>4. Published' /\ Known'
      BY <1>5 DEF Restart, ServiceInv, Published, Known, Replies
    <2>5. QED BY <1>1, <1>5, <2>3, <2>4 DEF Restart, ServiceInv
  <1>6. ASSUME NEW s \in Slots, handle(s) PROVE ServiceInv'
    <2>1. Known' /\ Numbers'
      BY <1>1, <1>6, NumbersHandle DEF ServiceInv
    <2>2. UNCHANGED <<mode, published>>
      BY <1>6 DEF handle
    <2>3. QED BY <1>1, <2>1, <2>2 DEF ServiceInv, Published
  <1>7. ASSUME NEW s \in Slots, NEW req \in Requests, guard(s, req) PROVE ServiceInv'
    <2>1. Known' /\ Numbers'
      BY <1>1, <1>7, NumbersGuard DEF ServiceInv
    <2>2. UNCHANGED <<mode, published>>
      BY <1>7 DEF guard
    <2>3. QED BY <1>1, <2>1, <2>2 DEF ServiceInv, Published
  <1>8. QED BY <1>2, <1>3, <1>4, <1>5, <1>6, <1>7 DEF Next

LEMMA ServiceAlways == Spec => []ServiceInv
  <1>1. QED BY ServiceInit, ServiceStep, PTL DEF Spec

\* Every variable keeps its type, and no assessment is numbered past the bound.
THEOREM ServiceTypes == Spec => []TypeOK
  <1>1. ServiceInv => TypeOK
    <2> SUFFICES ASSUME ServiceInv PROVE TypeOK
      OBVIOUS
    <2>1. runs \in 0..MaxRuns
      BY AssessingFinite, ApiAssumption DEF ServiceInv, Numbers
    <2>2. /\ published \in Seq(Keys) /\ listed \in [Keys -> KeyAge] /\ gone \in [Keys -> KeyAge]
          /\ cache \in {NoCache} \union [keys : Seq(Keys) \ {<< >>}, age : KeyAge]
          /\ slot \in [Slots -> Requests \union {Free}]
      <3>1. cache # NoCache => cache \in [keys : Seq(Keys) \ {<< >>}, age : KeyAge]
        BY DEF ServiceInv, KeyInv, KeyTypes, KeysHeld
      <3>2. QED BY <3>1 DEF ServiceInv, KeyInv, KeyTypes
    <2>3. /\ rate \in [BucketKeys -> Seq(0..RATE_LIMIT_WINDOW_S + 1)]
          /\ passed \in [BucketKeys -> Seq([assess : BOOLEAN, age : Windowed])]
      BY DEF ServiceInv, WindowInv
    <2>4. /\ mode \in Modes /\ published # << >>
          /\ \A i, j \in 1..Len(published) : published[i] = published[j] => i = j
      BY DEF ServiceInv, Published
    <2>5. /\ reports \in [1..MaxRuns -> Report \union {NoReport}]
          /\ told \in [1..MaxRuns -> Report \union {NoReport}]
          /\ audit \in [1..MaxRuns -> Subjects] /\ reply \in Replies
      BY DEF ServiceInv, Known
    <2>6. QED BY <2>1, <2>2, <2>3, <2>4, <2>5, Zenon DEF TypeOK, Replies, Subjects
  <1>2. QED BY <1>1, ServiceAlways, PTL

\* What an assessment was answered with is what the same process answers to
\* whoever asks for that run (assess, get_report).
THEOREM ReportsAsTold == Spec => ReportsServed
  <1> DEFINE Served(s) ==
        Answers(s) /\ slot[s].path = "report" /\ reply'.status \in {200, 404} =>
          reply'.body = IF slot[s].run \in 1..MaxRuns THEN told[slot[s].run] ELSE NoReport
  <1>1. ASSUME ServiceInv, Next, NEW s \in Slots PROVE Served(s)
    <2> SUFFICES ASSUME Answers(s), slot[s].path = "report", reply'.status \in {200, 404}
                 PROVE  reply'.body = IF slot[s].run \in 1..MaxRuns THEN told[slot[s].run]
                                                                    ELSE NoReport
      OBVIOUS
    <2>1. handle(s) /\ told = reports
      BY <1>1, OwnAnswer DEF ServiceInv, KeyInv, Known
    <2>2. \A status, body : Plain(s, status, body) => reply'.status = status /\ reply'.body = body
      BY DEF Plain, Answer
    <2>3. ~Plain(s, 401, NoReport) /\ ~Plain(s, 403, NoReport) /\ ~Plain(s, 500, NoReport)
      BY <2>2
    <2>4. \E who : Route(s, who)
      BY <2>1, <2>3 DEF handle, KeysFail, KeysAnswer, DevSecret
    <2>5. GetReport(s)
      BY <2>3, <2>4 DEF Route
    <2>6. QED BY <2>1, <2>2, <2>5 DEF GetReport
  <1>2. ASSUME ServiceInv, [Next]_vars PROVE [\A s \in Slots : Served(s)]_vars
    BY <1>1, <1>2
  <1>3. QED BY <1>2, ServiceAlways, PTL DEF Spec, ReportsServed
=============================================================================
