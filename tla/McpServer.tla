------------------------------ MODULE McpServer ------------------------------
(***************************************************************************)
(* The MCP server (mcp/server.py): a loop that reads a line, calls a tool  *)
(* and writes at most one line, over what the tools keep: the corpus, an   *)
(* index built when it is first wanted, and the vector store of the        *)
(* assessments, which may outlive the process and its corpus.              *)
(*                                                                         *)
(* The tools that only hand over to a part modelled elsewhere answer with  *)
(* a token for what that part says (AuditLedger, GovernanceDecision,       *)
(* AssessmentPipeline).                                                    *)
(***************************************************************************)
EXTENDS RiskRules, HybridRetriever

CONSTANTS
  Lines,      \* what a client may write
  Backends,   \* the vector backends the service may be configured with
  Orders,     \* the orders in which a process may iterate over a set of ids
  RETRIEVAL_TOP_K,
  MaxLines,   \* bound on the lines of all sessions
  MaxStarts   \* bound on the sessions after the first

NoId == <<"null">>
NotBuilt == "not built"
Ids == [i \in 1..MaxLines |-> <<"id", i>>]

ASSUME ServerAssumption ==
  /\ Backends \subseteq {"memory", "chroma"}
  /\ Orders \subseteq Seq(Controls) /\ \A order \in Orders : ToSet(order) = Controls
  /\ RETRIEVAL_TOP_K \in Nat /\ MaxLines \in Nat /\ MaxStarts \in Nat

\* What each tool reads of the line that calls it.  A "malformed" call is one that
\* cannot be looked up: its params are no object, or its tool's name no string.
Arguments ==
  [list_frameworks |-> {}, search_controls |-> {"query", "top_k", "frameworks"},
   get_control |-> {"control_id"}, classify_risk |-> {"platform", "valid"},
   assess_platform |-> {"frameworks", "valid", "blocked"},
   evaluate_transaction |-> {"transaction", "valid"}, verify_audit_ledger |-> {"path"},
   unknown |-> {}, malformed |-> {}]

\* A client's messages have the fields that are read of them, and a search is
\* for something there are scores for.
ASSUME ClientAssumption ==
  \A line \in Lines :
    /\ "form" \in DOMAIN line
    /\ line.form = "object" =>
         /\ {"id", "method"} \subseteq DOMAIN line
         /\ line.method = "tools/call" =>
              /\ "tool" \in DOMAIN line /\ line.tool \in DOMAIN Arguments
              /\ Arguments[line.tool] \subseteq DOMAIN line
              /\ line.tool = "search_controls" =>
                   line.query \in Queries \union {""} /\ line.top_k \in Nat

VARIABLES
  alive,    \* the loop has not been left
  corpus,   \* self.corpus
  backend,  \* settings.vector_backend
  order,    \* how this process iterates over a set of ids
  index,    \* the documents of self._retriever, or NotBuilt
  store,    \* the documents in the persistent store
  stdin,    \* the lines of this session
  read,     \* how many of them have been read
  stdout,   \* the lines written in this session
  runs,     \* run ids given out, whose ledger files are there
  starts,   \* sessions begun after the first
  sent,     \* lines written in all sessions
  said      \* history: every tool's result, with the corpus it was given over

session == <<alive, corpus, backend, order, index, stdin, read, stdout>>
vars == <<session, store, runs, starts, sent, said>>

Start ==
  /\ alive' = TRUE
  /\ corpus' \in Corpora /\ backend' \in Backends /\ order' \in Orders
  /\ index' = NotBuilt
  /\ stdin' = << >> /\ read' = 0 /\ stdout' = << >>

Init ==
  /\ alive = TRUE
  /\ corpus \in Corpora /\ backend \in Backends /\ order \in Orders
  /\ index = NotBuilt
  /\ stdin = << >> /\ read = 0 /\ stdout = << >>
  /\ store = << >> /\ runs = 0 /\ starts = 0 /\ sent = 0
  /\ said = {}

\* The client writes a line, a request with an id of its own.
Send ==
  /\ alive /\ sent < MaxLines
  /\ sent' = sent + 1
  /\ \E line \in Lines :
       stdin' = Append(stdin, IF line.form = "object" /\ line.id # NoId
                              THEN [line EXCEPT !.id = Ids[sent']] ELSE line)
  /\ UNCHANGED <<alive, corpus, backend, order, index, read, stdout, store, runs, starts, said>>

\* The client ends the session, or the process dies; another one is started,
\* over what the disk holds by then.
Restart ==
  /\ starts < MaxStarts
  /\ starts' = starts + 1
  /\ Start
  /\ UNCHANGED <<store, runs, sent, said>>

-----------------------------------------------------------------------------
(***************************************************************************)
(* The answer to one line.                                                 *)
(***************************************************************************)

Write(id, kind) == stdout' = Append(stdout, [id |-> id, kind |-> kind])

\* Nothing but the answer.
Nothing == UNCHANGED <<index, store, runs, said>>

\* Mutant of Fail: a tool that raises leaves the loop with nothing written.
Fail_Silent(line) == Nothing /\ UNCHANGED stdout

\* ToolError, or any exception of a tool: arguments it cannot convert end here too.
Fail(line) == Nothing /\ Write(line.id, "tool_error")

Say(line, result) ==
  /\ said' = said \union {[corpus |-> corpus, line |-> [line EXCEPT !.id = NoId], result |-> result]}
  /\ Write(line.id, "result")

list_frameworks(line) ==
  Say(line, [controls |-> ToSet(corpus)]) /\ UNCHANGED <<index, store, runs>>

\* The index is built for the first search that has a query.
SearchDocs == IF index = NotBuilt THEN Upsert(<< >>, corpus) ELSE index

search_controls(line) ==
  IF line.query = "" THEN Fail(line)
  ELSE LET found == retrieve(line.query, corpus, SearchDocs, order, line.top_k, line.frameworks)
           sides == Sides(line.query, corpus, SearchDocs, line.top_k)
       IN  /\ index' = SearchDocs
           /\ Say(line, [found |-> found, scores |-> [i \in DOMAIN found |-> Fused(sides, found[i])]])
           /\ UNCHANGED <<store, runs>>

get_control(line) ==
  IF ~Contains(corpus, line.control_id) THEN Fail(line)
  ELSE Say(line, [control |-> line.control_id]) /\ UNCHANGED <<index, store, runs>>

classify_risk(line) ==
  IF ~line.valid THEN Fail(line)
  ELSE /\ Say(line, [tier |-> assess_risk(line.platform), drivers |-> drivers(line.platform)])
       /\ UNCHANGED <<index, store, runs>>

\* The controls of the frameworks, which raises for one the corpus has not got.
Loaded(frameworks) == frameworks \subseteq {framework_of[c] : c \in ToSet(corpus)}
Scope(frameworks) ==
  {c \in ToSet(corpus) : frameworks = {} \/ framework_of[c] \in frameworks}

\* A run of its own: a platform that is invalid or asks for unknown frameworks
\* fails before there is one, a blocked one before retrieval; what comes after
\* retrieval may raise.  With a persistent store the retriever's documents are
\* the store's.
assess_platform(line) ==
  LET docs == Upsert(IF backend = "chroma" THEN store ELSE << >>, corpus)
      picked == [c \in Scope(line.frameworks) |->
                   evidence(c, corpus, docs, order, RETRIEVAL_TOP_K)]
  IN  IF ~line.valid THEN Fail(line)
      ELSE /\ runs' = runs + 1
           /\ IF line.blocked \/ ~Loaded(line.frameworks)
              THEN Write(line.id, "tool_error") /\ UNCHANGED <<store, said>>
              ELSE /\ store' = IF backend = "chroma" THEN docs ELSE store
                   /\ \/ Say(line, [evidence |-> picked])
                      \/ Write(line.id, "tool_error") /\ UNCHANGED said
           /\ UNCHANGED index

\* A ledger and a journey of their own.
evaluate_transaction(line) ==
  IF ~line.valid THEN Fail(line)
  ELSE Say(line, [decision_on |-> line.transaction]) /\ UNCHANGED <<index, store, runs>>

verify_ledger(line) ==
  IF line.path \notin 1..runs THEN Fail(line)
  ELSE /\ \E ok \in BOOLEAN : Say(line, [verified |-> ok])
       /\ UNCHANGED <<index, store, runs>>

call(line) ==
  \/ line.tool = "list_frameworks" /\ list_frameworks(line)
  \/ line.tool = "search_controls" /\ search_controls(line)
  \/ line.tool = "get_control" /\ get_control(line)
  \/ line.tool = "classify_risk" /\ classify_risk(line)
  \/ line.tool = "assess_platform" /\ assess_platform(line)
  \/ line.tool = "evaluate_transaction" /\ evaluate_transaction(line)
  \/ line.tool = "verify_audit_ledger" /\ verify_ledger(line)
  \/ line.tool = "unknown" /\ Write(line.id, "error") /\ Nothing

\* handle: initialize, ping and tools/list have fixed answers; of the
\* notifications one is known, which is never answered, with an id or without,
\* and every other one is a method not found.
handle(line) ==
  \/ line.method = "ping" /\ Write(line.id, "result") /\ Nothing
  \/ line.method = "notifications/initialized" /\ UNCHANGED stdout /\ Nothing
  \/ line.method = "tools/call" /\ call(line)
  \/ line.method = "other" /\ Write(line.id, "error") /\ Nothing

\* What raises in handle where nothing catches it: a line that is JSON but not an
\* object, and a call, with an id or without, that cannot be looked up.
Escapes(line) ==
  \/ line.form = "array"
  \/ line.form = "object" /\ line.method = "tools/call" /\ line.tool = "malformed"

\* One turn of the loop, which an exception of handle ends for good.
serve ==
  /\ alive /\ read < Len(stdin)
  /\ read' = read + 1
  /\ LET line == stdin[read + 1]
     IN  \/ line.form = "blank" /\ UNCHANGED <<alive, stdout>> /\ Nothing
         \/ line.form = "garbage" /\ Write(NoId, "error") /\ UNCHANGED alive /\ Nothing
         \/ Escapes(line) /\ alive' = FALSE /\ UNCHANGED stdout /\ Nothing
         \/ line.form = "object" /\ ~Escapes(line) /\ handle(line) /\ UNCHANGED alive
  /\ UNCHANGED <<corpus, backend, order, stdin, starts, sent>>

Next == Send \/ serve \/ Restart

Spec == Init /\ [][Next]_vars

-----------------------------------------------------------------------------
(***************************************************************************)
(* Properties.                                                             *)
(***************************************************************************)

\* The results of a tool, whenever and over whatever corpus it was called.
Results(tool) == {s \in said : s.line.tool = tool}

TypeOK ==
  /\ alive \in BOOLEAN
  /\ corpus \in Corpora /\ backend \in Backends /\ order \in Orders
  /\ index = NotBuilt \/ index \in Seq(Controls)
  /\ store \in Seq(Controls) /\ IsInjective(store)
  /\ Len(stdin) <= sent /\ read \in 0..Len(stdin)
  /\ stdout \in Seq([id : ToSet(Ids) \union {NoId}, kind : {"result", "tool_error", "error"}])
  /\ runs \in 0..sent /\ sent \in 0..MaxLines /\ starts \in 0..MaxStarts
  /\ \A s \in said : s.corpus \in Corpora

\* The client waits for an answer to each request with an id, but for the one
\* notification the server knows.
Expects(line) ==
  line.form = "object" /\ line.id # NoId /\ line.method # "notifications/initialized"

\* The line the loop was left on.
DiedOn == IF alive THEN {} ELSE {read}

\* The lines read, but for that one, that are to be answered, and the answers.
Asked == {i \in 1..read : Expects(stdin[i])} \ DiedOn
Answered == {k \in DOMAIN stdout : stdout[k].id # NoId}

\* Every request with an id that was read has been answered, once, in the order
\* of the requests, and no id is answered that was not asked: whatever fails in
\* a tool, the client can tell its calls apart.  The one request without an
\* answer is the line on which the loop was left, and only a line that cannot be
\* handled (server.py:402, 433-435) makes it leave.
AnswersPaired ==
  LET asked    == Picked(stdin, Asked)
      answered == Picked(stdout, Answered)
  IN  /\ Len(answered) = Len(asked)
      /\ \A k \in DOMAIN asked : answered[k].id = asked[k].id
      /\ ~alive => read > 0 /\ Escapes(stdin[read])

\* The same search over the same corpus has the same scores in the same places,
\* in this process or another one: only controls with equal scores may differ.
SearchesAgree ==
  \A s, t \in Results("search_controls") :
    s.corpus = t.corpus /\ s.line = t.line => s.result.scores = t.result.scores

\* No control of the corpus that the search may return is left out, or put
\* behind one, that scores less on both sides; and nothing else is returned.
\* With all the weight on one side (alpha 0 or 10) what the other side puts
\* behind may tie.
SearchFair ==
  \A s \in Results("search_controls") :
    LET found == s.result.found
        may == {c \in ToSet(s.corpus) : Kept(c, s.corpus, s.line.frameworks)}
        Beats(c, d) == /\ bm25[s.corpus][s.line.query][c] > bm25[s.corpus][s.line.query][d]
                       /\ cosine[s.line.query][c] > cosine[s.line.query][d]
    IN  /\ ToSet(found) \subseteq may /\ Len(found) <= Max({1, s.line.top_k})
        /\ alpha \in 1..9 =>
             \A i \in DOMAIN found : \A c \in may :
               Beats(c, found[i]) => \E j \in 1..i : found[j] = c

\* Each control of a run's scope is judged on its own text, among at most
\* RETRIEVAL_TOP_K controls of the corpus the run was over, whatever earlier
\* corpora have left in the store.  A limit of 0, which the settings accept
\* (config.py:64), leaves it no text at all, not even its own.
EvidenceOwn ==
  \A s \in Results("assess_platform") : \A c \in DOMAIN s.result.evidence :
    LET ids == s.result.evidence[c]
    IN  /\ RETRIEVAL_TOP_K > 0 => Contains(ids, c)
        /\ ToSet(ids) \subseteq ToSet(s.corpus)
        /\ IsInjective(ids) /\ Len(ids) <= RETRIEVAL_TOP_K

\* A platform that declares more, or less human control, is never in a lower
\* tier and has every driver of the other one.
RiskMonotone ==
  \A s, t \in Results("classify_risk") :
    Exposes(s.line.platform, t.line.platform) =>
      /\ t.result.tier <= s.result.tier
      /\ t.result.drivers \ {"nothing_declared"} \subseteq s.result.drivers
=============================================================================
