# Muraqib: formal models

TLA+ models of Muraqib (the assessment pipeline and the runtime governance
plane under `src/src/muraqib/`), the TLC configurations that check them on small
instances and the theorems TLAPS proves about them for every instance.
All paths below are relative to `src/src/muraqib/` unless they start with `src/`.

Contents: 1 the system, 2 the modules and the code they stand for, 3 the
model-checking runs, 4 what the failing runs show, 5 the proofs, 6 what is only
model-checked and what is not modelled, 7 the plan.

## 1. The system

Muraqib is two programs around one ledger.

* The **assessment pipeline** answers "which obligations does this AI system
  meet": six agents in a fixed order read and write one `RunState`, two of them
  talk to a model through a router with a budget, and the state is saved after
  every agent so that a run can be resumed.
* The **runtime governance plane** decides one transaction at a time: six gates
  look at who asks, for what, with which data, and at what the model answered.

| Component | State it keeps | Operations | Talks to |
|---|---|---|---|
| Audit ledger (`observability/audit.py`) | list of entries, JSONL file, a lock | `record`, `verify`, `load`, `summary` | every agent and the engine record; `verify-ledger` loads |
| Runtime policy (`runtime/policy.py`) | none (data) | entitlement union, region rule | read by the gates |
| Runtime gates (`runtime/gates.py`) | none | six `evaluate` | policy, injection scanner, redactor |
| Governance engine (`runtime/engine.py`) | `results`, `stopped`, the current `ctx` | `evaluate` | gates, ledger, tracer |
| Run state (`graph/state.py`) | run, profile, evidence, findings, stage | `checkpoint`, `load` | file system |
| Orchestrator (`graph/orchestrator.py`) | the position in `PIPELINE` | `run`, `resume` | agents, checkpoint, ledger |
| LangGraph backend (`graph/langgraph_backend.py`) | the same state in a graph | `run`, `resume` | as the orchestrator |
| Agents (`agents/*.py`) | none of their own | `run(state)` | router, retriever, gates, ledger |
| Model router (`llm/router.py`) | usage counters, provider chain | `complete`, `_check_budget` | providers |
| Providers and offline engine (`llm/providers.py`) | none | `complete`: one request with a timeout, its status, its usage and price | the models' services, which bill; offline rules |
| Guardrails (`guardrails/*.py`) | the list of rejections | citation gate, schema gate, PII redaction, injection scan | called by agents, gates |
| Corpus (`corpus.py`) | frameworks and controls | load, index, lookup | YAML |
| Retriever and store (`rag/*.py`) | chunks, vectors, an index on disk | index, search, fuse | embeddings |
| API (`api/app.py`, `api/auth.py`) | rate-limit window, reports, JWKS cache | middleware, `assess`, reports by run | orchestrator, identity provider |
| MCP server (`mcp/server.py`) | an index built on demand | JSON-RPC loop over stdio, seven tools | corpus, retriever, orchestrator, engine, ledger |
| CLI (`cli.py`) | none | `assess`, `govern`, `verify-ledger`, ... | everything |
| Reporting (`reporting/render.py`) | none | Markdown, HTML, the remediation plan | report |
| Evaluation (`evals/harness.py`) | none | five rates over golden cases, and a verdict CI gates on | orchestrator |

**How they interact.** Agents and the engine call `AuditLedger.record`
synchronously; the ledger object is shared by the threads that share a context
and its file by the processes that are given its path. Agents communicate only
through `RunState`; what survives a process is the checkpoint file and the ledger
file, and nothing else. The assessor and the critic draw on one router, hence on
one budget. The engine copies the transaction context from gate to gate and
shares the policy and the ledger between calls.

**What is hard about it.**

* Threads in `record`: sequence number, last hash, memory and file must move
  together, and `verify` reads the list without the lock.
* A process can die at any point of a record or of a checkpoint; another process
  then continues with the file only, and possibly with other settings.
* Memory and file of the ledger are written one after the other, and the second
  write can fail.
* The budget ends a loop in the middle, and what was not visited looks like what
  was not asked for.
* A request whose answer did not come in time may have been served, and is paid for;
  a response can break in the adapter after it was paid for.
* Model answers are arbitrary: they cite controls that do not exist, or that were
  not retrieved, or none, and they may not fit the schema.
* Concurrent transactions on one engine must not see each other, a stop must hold
  for the rest of the journey and must not be undone by missing evidence.
* Two severities (`ALLOW`, `NOT_RUN`) and one rank (`UNKNOWN`, 99) sit at the edges
  of orderings on which maxima are taken.

**What makes each component correct.**

* *Ledger*: the chain verifies in memory under every interleaving; the file is a
  prefix-faithful copy of memory; lines that were written are never altered; a
  crash costs at most the last line; a change in the middle is noticed.
* *Gates and engine*: a decision is a function of policy and context alone; a stop
  is final; a release means every fact the gates exist to establish was
  established; masked is masked; the ledger tells the journey.
* *Pipeline and checkpoint*: the stage says which data is there, on disk and in
  memory, so a resumed process neither repeats a finished node nor skips an
  unfinished one; nothing is asserted without a retrieved citation; every finding
  is on record; the critic only weakens.
* *Router and providers*: calls stay within the ceiling, the cost within the ceiling plus a
  call, requests within the attempts allowed; the recorded cost follows the bill as far as it can;
  every call ends.
* *Reporter*: its figures are counted over one population; what could not be
  assessed never improves the result; the claim is only permitted when it is true.
* *What is made of a report*: the plan has every finding to fix once; what was not judged
  is said; a passed evaluation is not passed on what it left out.
* *API*: at most the allowed number of assessments per bucket and window; a
  withdrawn signing key dies, and a new one is seen, within the cache's time to
  live; only assessors assess; a report is the one its run made.
* *MCP server*: one answer per request with an id, in order, whatever a tool does.
* *Retriever and risk rules*: results of the corpus that is loaded and not of an
  older one; no better control left out; a tier that never falls when more is declared.

## 2. The modules and the code they stand for

```
AuditLedger ── AuditLedgerProofs                     MCAuditLedger
RuntimeGates ─┬─ GovernanceDecision (abstract)
              └─ GovernanceEngine ── GovernanceEngineProofs   MCGovernanceEngine
                   (implements GovernanceDecision)
FindingGates ─┬─ AssessmentReport ── AssessmentPipeline ─┬─ AssessmentPipelineProofs ─┐
              │    (implements ResumableRun)             └─ AssessmentDeliverables ───┤
              ├─ ResumableRun (abstract)                      MCAssessmentPipeline    │
              └─ OfflineRules ────────────────────────────── AssessmentDeliverablesProofs
ProviderCalls ── ProviderCallsProofs                 MCProviderCalls
ApiService ── ApiServiceProofs                       MCApiService
RiskRules ──────┬─ McpServer ── McpServerProofs      MCMcpServer
HybridRetriever ┘
Enumeration ── EnumerationProofs   (used by HybridRetriever, McpServer, AssessmentReport,
                                    AssessmentDeliverables and their proofs)
```

The table in `PROJECT.json` under `map` gives the lines of every definition.
The `_Something` variants of a definition (for example `Acquire_NoLock`) are deliberately
wrong versions of it, one plausible mistake each; every property is shown to fail
when one of them is put in the place of the original.

### AuditLedger (`observability/audit.py`, `verify-ledger` in `cli.py`)

`record` is cut where another thread or a crash can come between:
`Acquire` (the lock), `Build` (last hash, sequence number, hash), `Remember`
(`_entries.append`), `Persist` or `PersistFails` (open, write, fsync). `Stop` ends
the process anywhere, `Open` constructs an `AuditLedger` on the path again, which
starts from an empty list and does not read the file (as `__init__`).
`EditLine`, `DeleteLine` and `InsertLine` stand for somebody else's changes to a
closed file and are the only actions not taken from the code.

A digest is represented by the sequence of bodies it covers: `compute_hash(e)` is
`Append(e.prev_hash, e.body)`. That is exactly the assumption that SHA-256 has no
collisions, and it makes "recompute the hash" something an edit can do.
A payload is a member of `Events`; the one thing about it that matters is whether
its text contains a Unicode line separator (`SplitEvents`), because the writer
ends lines with `\n` and the reader cuts with `splitlines()`.
A line of the file is an entry, `TORN` (cut by a crash, no newline) or `GARBLED`
(a later append glued to a torn one).

### RuntimeGates (`runtime/{models,policy,gates}.py`)

Each gate is a function from a policy and a context to a verdict. Conditions that
add a reason are disjuncts, and `Ranked` is the code's order of precedence: block,
then not-evidenced, then warn. A text is what a gate can tell about it (personal data, a credential,
an instruction pattern, the policy's phrases, which excerpts it repeats); patterns are not modelled.
An empty region or provider is one that was not declared.
`Highest` is the code's maximum over `CLASSIFICATION_RANK`, 99 for UNKNOWN included.

### GovernanceEngine and GovernanceDecision (`runtime/engine.py`)

`Submit`, `RunGate`, `SkipGate`, `Decide` are the steps of one call of `evaluate`,
each up to and including its ledger record; several transactions interleave. A
record may raise (`RecordRaises`): `evaluate` catches nothing, so the caller gets
the exception and no decision, and the entry is in the ledger's memory already.
`GovernanceDecision` says what the plane promises without any loop: a decision is
made in one step and equals `Decision(policy, context)`, or the call raises. The
engine is checked, and proved, to implement it; the refinement mapping is the
identity on `policy`, `ctx` and `outcome`.

### FindingGates (`guardrails/{schema,citations}.py`, rules of `agents/{assessor,critic}.py`)

How an answer becomes a `Finding`: the schema's defaults and coercions (a blank
control id means the control itself, an unknown source means the corpus), the
citation gate, and the critic's downgrade by one step.

### OfflineRules (`OfflineProvider` in `llm/providers.py`)

The provider that needs no model, as operators: what it concludes from the evidence
declared for a control, what it cites, and its rule for the critic. Evidence is
reduced to the counts the rules compare (`neg`, `tokens`, `patterns`); the word
lists and phrase patterns that produce them are not modelled. `Baseline` and
`Criticised` compose it with the gates. One of its answers is among the replies of
the pipeline's runs.

### Enumeration

A finite set put in order (`Enumerate`), a selection from a sequence (`Picked`) and a sum over
a set (`SumOf`), which are what `sorted`, a comprehension with a condition and a loop over findings
do in the code. They stand in for `SetToSortSeq`, `SelectSeq` and `MapThenSumSet` of the
libraries, which are recursive or take an operator, so that nothing can be proved about
them: here the place of a member is the number of members before it, and a sum is the number of
pairs of a member and one of its units. `MCMcpServer` compares the two on small sets (`EnumerationAgrees`).

### AssessmentReport (`agents/reporter.py`)

Coverage per framework and per domain, posture, claim and blocking gaps as
functions of the findings, in exact fractions. Rounding is left out.

### AssessmentPipeline (`graph/*.py`, `agents/*.py`, `llm/router.py`)

`Start` is a process that builds a context and calls `run` or `resume`; `SkipNode`
and the agents' actions are the loop over `PIPELINE` with `requires_stage`;
`Truncate` and `Write` are `checkpoint` (`Path.write_text` empties the file before it
writes); `Finish` is the end of `resume`, with or without a report; `Crash` is the
process dying, or a failing write raising out of `resume`.
The assessor's and the critic's loops take one step per turn, and `Retry` is a failed attempt of
`ModelRouter.complete` that will be repeated. `OverBudget` is `_check_budget`,
tested only before the first attempt. `to_dict` is what a checkpoint keeps:
everything but the report. `ctx` (settings and usage) belongs to the process and
is fresh in each; `config` (the configuration assessed) belongs to the run.
`ledger` keeps, of the records of the run, how often each control was assessed and
which of the other notable events occurred: the ledger's own mechanics are
AuditLedger's subject.

The LangGraph backend runs the same nodes in the same order with the same test and
the same checkpoint (`graph/langgraph_backend.py`, `_make_node`), so the actions are
its actions too; the scheduling of that library is external.

### ResumableRun (what `graph/orchestrator.py` promises)

The pipeline without its loops, models and retries: six nodes, each of which acts once
and at once, on its own fields of the run, when the run is at its stage; what it did
is kept (`Cut`, `Keep`) before the next begins; a process that dies (`Die`) loses the
node it was in and nothing else; a run ends by itself only before anything was done
for it, or complete. `Assess` promises a grounded finding for every control unless the
budget ran short, `Review` one step down at most. Both executors promise it: the lines of
`Does` and `Node` in `map` are those of the LangGraph backend.

The refinement mapping is in AssessmentPipeline: while an agent's loop is under way,
its node has not happened yet, and the run is what the file says it is (`LastDone`).
That this mapping works is the statement that the file is current whenever a loop
starts. `short` is the ledger's `budget_exceeded`.

### ProviderCalls (`llm/router.py`, `llm/providers.py`)

AssessmentPipeline has one step per call of the router; here a call is its attempts, and
the service at the other end acts on its own. `Begin` and `Refuse` are the budget test,
`Send` is `httpx.post`, and the ways a request ends are `Answer`, `ErrorStatus`,
`NoAnswer` (timeout or transport error) and `Escape`: a response of status 200 that is no JSON, or
whose usage or content is null, raises out of the adapter something that the router does not catch. `Failed`
is the `except` clause, `Again` the end of the sleep. The service may serve a request,
or one whose sender has gone (`ServeLost`), and it charges for either; that is all
that is assumed of it. Tokens are one number with one price, and `Rounded` is the rounding of
`_price` to the nearest micro-dollar, of two the even one; a model that is not in
PRICE_TABLE costs nothing (`listed`), and a service may leave usage out (`reports`).

### AssessmentDeliverables (`reporting/render.py`, `evals/harness.py`)

What is computed from a finished run: `Plan`, the rows of the remediation plan with
their findings and order, `BlindSpots`, the section on what could not be assessed, and
`EvalResult` and `Passed`, the counts, rates and verdict of `muraqib evaluate` for the cases of one
platform. They are operators over the findings, evaluated at every report the pipeline can
produce. A title is a number (its place in the alphabet); thresholds are tenths.

### ApiService (`api/app.py`, `api/auth.py`)

All handlers are coroutines on one event loop, and the only suspension between a
request's arrival and its answer is `await call_next` in the middleware: the fetch
of the keys (`httpx.get`) and a whole assessment are synchronous calls. So a request
takes two steps, `guard` (size, window, admission) and `handle` (the token, the
role, the route), and other requests, `Tick` and `Rotate` come between them.

There is no clock. A moment is kept as its age in ticks, up to one more than the
largest age the code compares with, so the state space is finite without a bound
on time. `Tick` and the identity provider's `Rotate` are external. `Restart` empties
what the process keeps (`cache`, `rate`, `reports`) and may change the mode.
`cache.age` is compared exactly as `_JwksCache.get` does, the fetch can fail
(`KeysFail`: nothing is taken in, the held keys stay), and the key is the first of
the set with the token's key id, or the first of all for a token without one.
Cryptography is its specification: a token has a signer. `Full` is the limit's test; it refuses
assessments only, and requests of any other path go on filling the bucket. There `MaxBucket`
stops them, which is a bound of the model and not of the code. `passed` and `told` are
histories for the properties; no action reads them.

### RiskRules (`agents/risk.py`)

The code runs through its rules and assigns the tier again in each that fires, so
the last assignment wins. `assess_risk` reads that chain from its end, as a
precedence; the cross-border rule lifts only the lowest tier, and where it fires
the tier is above that already. `drivers` is the set of rules that fired.

### HybridRetriever (`rag/retriever.py`, `rag/store.py`, `agents/retrieval.py`)

The scores of a text, BM25 and cosine, are constants, numbers per query and control; what is
done with them is modelled: which documents are among the nearest, normalising
over those that were found, the weighted sum (over a common denominator, so that
it stays an integer), the order, the filters and the cut. `order` is the order in
which the process iterates over a set of ids, which is what decides between equal
scores (`rag/retriever.py:127-130`). A limit of 0 yields one result, as in the code,
where it is tested after a result was taken. `Upsert` keeps the documents of
earlier corpora, as the persistent store does.

### McpServer (`mcp/server.py`)

`Send` is a client that writes a line, `serve` one turn of the loop, `Restart` the next
session, possibly over an edited corpus and another backend. Every tool is an
operator with its failures. Where a tool hands over to a part with a module of its
own, its answer is a token for what that part says. A line that raises outside the
handlers' `try` leaves the loop (`Escapes`, `alive`), as in the code: one that is JSON but not an
object, and a call, with or without an id, whose params are no object or whose tool's name
cannot be looked up. `said` is a history of what the tools answered and over which corpus.

## 3. The runs

Deadlock is not an error in any run: a closed ledger, an engine whose calls have
all ended and a run whose last permitted process has ended really stop.

| Run | Instance | Properties |
|---|---|---|
| `ledger_record` | 2 threads, 3 events of which one splits its line, 2 sessions, 3 records a session, 1 failed write, 1 edit | `MemoryVerifies`, `FileFollowsMemory`, `CrashedFileVerifies`, `MiddleEditEvident`, `SessionsStayChained` |
| `engine_gates` | 1 transaction, all combinations of contexts that pass, fail and leave undecided each gate, 5 policies | `ReleaseEstablished`, `ClassifiedStaysHome`, `MaskHolds`, `FailClosedOnlyWithholds` |
| `engine_calls` | 2 transactions, 3 contexts, 1 record that raises | `LedgerTellsJourney`, `DecidesInIsolation` (refinement), `CallsReturn` (liveness) |
| `pipeline_run` | 3 controls, 2 frameworks of which one is selected twice, 7 kinds of answer, 2 settings, 2 configurations, 2 processes, 4 golden sets | `StageTellsData`, `AssertionsGrounded`, `FindingsOnRecord`, `PartialOnRecord`, `SpendBounded`, `ReportAddsUp`, `RejectionCosts`, `ClaimHonestWhenComplete`, `NothingUnsaid`, `GateMeans`, `CriticOnlyWeakens`, `ImplementsResumableRun` (refinement), `RunsEnd` (liveness) |
| `provider_calls` | 3 calls of the router, 5 setups, 2 statuses, answers of 1 to 3 tokens, prices in quarters of a micro-dollar | `RequestsBounded`, `BillTracksUsage`, `CallsEnd` (liveness) |
| `api_serve` | 2 requests at a time of 7 kinds, 1 bucket, 2 keys, 3 modes, limit 1 in a window of 1, up to 2 moments in a bucket, keys cached for 1 | `TypeOK`, `RateBound`, `OnlyAssessorsAssess`, `KeysFresh`, `RotationLag`, `ReportsServed` |
| `mcp_serve` | 2 lines of 29 kinds in 2 sessions, 5 controls, 2 corpora, 2 backends, 2 iteration orders | `TypeOK`, `AnswersPaired`, `SearchesAgree`, `SearchFair`, `EvidenceOwn`, `RiskMonotone` |
| `ledger_reopened`, `ledger_split`, `engine_border`, `pipeline_claim`, `pipeline_restart` | see section 4 | one statement of the documents or tests each, violated |

**`ledger_record`.** Two threads are enough for every overlap inside `record`
(the lock is all they share with the entry list), three records for an entry in
the middle of a chain, so that an edit can be at the first line, in between, and at
the last; two sessions for a file that was used before; one fault or one edit
because the properties speak of files with none or one. Threads, and events whose
payload is ordinary, are interchangeable, and the run uses that symmetry. It has no liveness property, so symmetry is
sound.

**`engine_gates`.** The verdicts depend on one context at a time, so one
transaction suffices. The contexts are two products of the choices the gates
distinguish: what is asked for, retrieved and answered, and who asks (authenticated, with a
second factor, delegated, over which channel), of which provider and region, declared or not, with an
instruction in the prompt and phrases in the answer. The policies are the default-like one, one that permits
cross-border processing, one that also fails open, one that does not mask, and one that asks for no
authentication and leaves channels, regions and providers open. About 305 000 states.

**`engine_calls`.** One journey is stopped at the first gate, one is left
undecided, one is masked and released, so two concurrent calls cover every pair of
kinds; the fault may hit any of their records.

**`pipeline_run`.** Three controls give the assessor's loop a first, a middle and
a last turn, so that a crash or the budget can fall before, inside and after it.
The weights (5, 2, 4) put a control on each side of the critic's threshold; two are critical, one of
them outside binding law. A framework selected twice is a legal request and the only way the assessor
meets a control it has already assessed. The replies pass the citation gate, lose a
citation and keep another, lose all, need none, do not fit the schema, and are
the offline provider's, at no cost; a
provider failure is a behaviour of every turn. One setting (5 calls, 5 cents, critic and
injection blocking on) lets the budget fall in the assessor's or in the
critic's loop, by calls or by cost; the other (2 calls) always cuts the assessor,
and has the critic off. Two attempts are one retry. Two processes are one crash at any point, and one
resumption, with either setting. Two controls share a title, the lighter of them first in the report, so that a row
of the plan has two findings of different weights. The golden sets are an empty one, one
that runs do pass, one with a failure and a silence to tell, and one with a
control that is not assessed. About 400 000 states.

**`provider_calls`.** Three calls are one that is answered, one that meets what the first
left behind, and one that meets a ceiling. The setups are a priced model with two retries, whose
ceilings of calls and of cost can both be reached; one whose key is missing; an unpriced one; one
that allows no retry at all; and a provider that is not in the registry, with which no run
starts. The statuses are one that is retried and one that is not; the service reports usage or
does not. A token costs a quarter of a micro-dollar, so one token is rounded down, three are rounded up, and two are at
the half, where the even neighbour is taken. About 112 000 states.

**`api_serve`.** Two requests are every overlap of one request's two steps with
another's. All share one bucket, since buckets do not meet. The limit of one is below `MaxBucket`,
so it is the test of the limit, and not the bound, that refuses a second assessment, and the other
paths can fill a window over the limit. Lifetimes of one tick have
an age below, at and above them, and moments may be out of step with each other. The requests are an assessor and
an administrator (by `scope`), a reader whose token names no key, a developer's token,
no token, the health check, and one over the size limit. `MaxBucket` (2) bounds
the moments that paths other than the assessment put in a bucket, which the code does
not do, and `MaxRuns` (2) the run ids. The slots are interchangeable, and the
view leaves out `reply`, which no guard reads, so the state graph is the same;
the action properties are evaluated on every step TLC generates. About
900 000 states; a limit of 2 with three moments in a bucket was too large to finish in five minutes.

**`mcp_serve`.** Every property compares at most two answers, or an answer with its
call, so two lines suffice; two sessions put a restart, a change of corpus, a
change of backend and another iteration order between them. The corpora share
controls, and each has one the other lacks. The scores contain ties, a control that
is not the nearest to its own text, a query that matches nothing, and one whose best match exists
in one corpus only. `DENSE_FACTOR` and `DENSE_MIN` are 2 (in the code 4 and 20) so that the nearest documents
are fewer than all and older documents do take places. About 69 000 states.

**Fairness.** `api_serve` and `mcp_serve` have safety properties only and assume none. `engine_calls` assumes weak fairness of each call that was made
(`WF(evaluate(x))`): `evaluate` awaits nothing but the ledger's lock, which is
released on every path, and the worker pool runs each thread. `pipeline_run`
assumes weak fairness of a running process (`WF(Step)`): a provider answers or its timeout expires, and
nothing else blocks. `provider_calls` assumes weak fairness
of a call under way (`WF(Goes)`): httpx has a timeout and a sleep ends. The timeout is per operation, so
a server that sends a byte now and then could hold a call for longer; that is assumed away. Nothing is assumed
of the service. Fairness is not assumed of starting, crashing or resuming a process,
of failed writes, or of any particular answer. In particular, nothing forces a
provider to succeed.

## 4. What the failing runs show

Each of these checks one statement made by the repository; the trace TLC finds is
a behaviour of the code.

| Run | Statement | What happens |
|---|---|---|
| `ledger_reopened` | `UneditedNeverTampered`: verify-ledger says TAMPERED only of changed files (`src/README.md:343`) | A second `AuditLedger` on the path starts again at GENESIS and sequence 0, and the link to the line before is missing |
| `ledger_split` | `RecordedReloads`: what was recorded reloads and verifies (`src/tests/test_audit_and_reporting.py:39-41`) | A payload with U+2028, U+2029 or U+0085 is one line to the writer and two to the reader |
| `engine_border` | `SensitiveNeverCrosses`: "confidential or restricted context never crosses the border regardless" (`src/docs/RUNTIME_GOVERNANCE.md:91`) | With `fail_closed` off, an unlabelled item (rank 99) outranks a confidential one; the border rule sees UNKNOWN |
| `pipeline_claim` | `ClaimHonest`: "Every critical control is satisfied" (`agents/reporter.py:243`) | The budget leaves a critical control without a finding, and only findings can block the claim |
| `pipeline_restart` | `AssessedOnce`: "restarts at 80" (`src/README.md:268-269`) | Checkpoints are taken between nodes; a crash in the assessor's loop loses the loop |

Each has a counterpart that does hold and marks how far the problem goes:
`SessionsStayChained` (each session is a chain of its own), `CrashedFileVerifies`
(without such payloads a crash costs at most the last line), `ClassifiedStaysHome`
(under `fail_closed` the unlabelled item stops the journey earlier),
`ClaimHonestWhenComplete` (without the budget the claim is true), and
`FindingsOnRecord` (what was assessed twice is on record twice).

Differences between code and documents that were met while modelling and have no
run of their own:

* A failed file write leaves the entry in memory; the next one is chained to an
  entry the file does not have (`observability/audit.py:81-85`).
* Deleting the tail of a ledger leaves a file that verifies: no later link covers
  it (`observability/audit.py:92-100`, against `src/docs/SECURITY.md:97`).
* An item without an owner passes the source gate (`runtime/gates.py:145`), and so does one
  whose source is neither declared nor permitted: only `ctx.data_sources` is checked (`:141`),
  though the gate is to tell "whether the data actually retrieved was the principal's to see"
  (`:129`). `ReleaseEstablished` says that the declared sources are permitted.
* A model whose provider is left undeclared passes the test of approved providers
  (`runtime/gates.py:205-210`), while an undeclared region leaves the gate undecided (`:212`).
  `ReleaseEstablished` says of the provider what follows from a release, and no more.
* NOT_RUN results are in the decision and not in the ledger
  (`runtime/engine.py:69-77`, against `src/docs/RUNTIME_GOVERNANCE.md:140`).
* The budget is per process: a resumed run starts a new one, and a process exceeds
  its cost ceiling by the last call (`llm/router.py:5` says "cannot exceed").
* "A run cannot exceed a call count or a USD ceiling" (`llm/router.py:5`): attempts that fail are not counted, though a
  service may serve and bill them; a model that is not in PRICE_TABLE costs
  nothing (`llm/providers.py:40`), and neither does an answer without usage
  (`llm/base.py:69-71` has an estimate for that case, which the HTTP providers do not use), nor one that
  costs less than half a micro-dollar (`llm/providers.py:39`). `BillTracksUsage` says how
  far the record can be from the bill, in either direction.
* A response of status 200 that is no JSON, or whose usage is null, raises out of the
  provider, the router and the agents: it is neither retried nor a finding, and ends
  the run (`llm/providers.py:578`, `:612-613`).
* The last line of `complete` (`llm/router.py:125`) is never reached.
* Azure and Groq share OpenAI's address unless `MURAQIB_BASE_URL` is set
  (`llm/router.py:36-37`, `llm/providers.py:628-632`).
* What the budget left out is not among "what could not be assessed", which has findings only
  (`reporting/render.py:134`), and that section comes after the scores
  (`src/README.md:92` has it before them). `NothingUnsaid` holds without the budget's cut.
* A row of the plan has the weight of the first finding of its title, so rows are not always
  "highest weight failures first" (`reporting/render.py:236-237`).
* Retrieval recall counts the controls that have a finding (`evals/harness.py:142`), whatever
  was retrieved for them (`:11`).
* The advice to raise `MURAQIB_MAX_COST_USD` and continue (`llm/router.py:80-81`)
  cannot work: the stage has moved past the assessor.
* Resuming a completed run raises, since the checkpoint does not keep the report
  (`graph/orchestrator.py:149`, marked as unreachable there).
* A crash between the two halves of `write_text` destroys the checkpoint that was
  there before (`graph/state.py:54`); `CheckpointCurrent`, which is proved, states exactly when.
* A framework named twice is counted twice in a domain's total
  (`agents/reporter.py:147-161`), so a fully judged domain reports half; `ReportAddsUp` says
  by how much it falls short.
* The rate limit is "per-principal" (`api/app.py:5`, `src/docs/SECURITY.md:113`), but its key is
  the end of the Authorization header, else the host (`api/app.py:77-81`): a
  principal with two tokens has two windows, and a client without a token shares
  its host's. Requests of every path fill the window, though only assessments are refused.
* Retrieval is "deterministic" (`src/README.md:271-272`), but equal scores are ranked in
  the iteration order of a set of strings, which Python varies from process to process
  (`rag/retriever.py:127-130`); `SearchesAgree` states what is the same
  nevertheless. Documents an earlier corpus left in a persistent store still move
  the normalised scores of the others.
* One line that is JSON but no object ends the MCP loop (`mcp/server.py:402`), and so does a
  call whose params are no object or whose tool's name cannot be looked up (`:433-435`, before the
  `try`). That call has an id and is never answered; `AnswersPaired` says that it is the one request of a
  session that is not. A notification the server does not know is answered, with id null (`:463`), and
  `notifications/initialized` is not, even with an id (`:426`).
* A limit of 0 results yields one (`rag/retriever.py:148`); as a setting, which is accepted
  (`config.py:64`), it leaves every control without evidence, its own text included
  (`agents/retrieval.py:29`), as `EvidenceOwn` says.
* The offline critic's rule also names evidence of maturity "none"
  (`llm/providers.py:424-426`), but the critic's prompt only carries a maturity
  that is not "none" (`agents/critic.py:81-82`), so it never applies to it.
* The assessor puts the name of the evidence's source behind the evidence, also when
  there is no text (`agents/assessor.py:76-77`), and the offline rules count words
  in it: a control can be compliant on its source's name, with maturity "none".
* The usage in the report is that of the last process, and its gate rejections are
  those of the last process.

## 5. The proofs

TLAPS checks eight modules (`AuditLedgerProofs`, `GovernanceEngineProofs`,
`AssessmentPipelineProofs`, `AssessmentDeliverablesProofs`, `ProviderCallsProofs`,
`ApiServiceProofs`, `McpServerProofs`, and `EnumerationProofs` with lemmas for the others) for every value of the
constants that meets the named assumptions, which TLC also evaluates in the runs. Every invariant and every action
property of the passing runs, and both refinements, are theorems; what is left to TLC alone is liveness.
Some properties are proved and in no run, as what a run does check contains most of what they say:
the type invariants of the ledger, the engine, the pipeline and the calls;
`FileAppendOnly`; `JourneyStops` and `AllowedIffReleased`, beside the decision
of `DecidesInIsolation`; `CheckpointCurrent`, beside `ImplementsResumableRun`; and
`RaisesOnlyWhenComplete`.

### EnumerationProofs

Lemmas about `Enumeration`, for every finite set. `RankGrows` and `RankTaken`: who comes
earlier has fewer members before it, and every place is taken, since as many ranks as members fit into as many
places. `Enumerated`, `EnumeratedAt`, `RankOrders`: an enumeration has every member once, in order.
`PickedElements`, `PickedSame`, `PickedNext`: what a selection has, on what it depends, and how it
grows with the sequence. `Extremes`: least and largest of a set of numbers.
`SumGrows`, `SumAdds`, `SumTimes`, `SumWithout`, `SumParts` (sizes of the parts add up to the
size of the whole): by bijections between sets of units, where a textbook has an
induction, which would need an operator for a parameter.

### AuditLedgerProofs

From `ConstantsAssumption` (the bounds are naturals, `NoThread` is not a thread,
`SplitEvents` are events). `MemoryVerifies` is not inductive: a thread appends an entry it
built earlier. `LedgerInv` adds what makes that safe. Whoever is inside `record` holds the lock
(`LockInv`), what a thread built continues the chain as it still is (`BuiltInv`),
what it has remembered is the last entry (`RememberedInv`), only a closed file is
edited (`ClosedInv`). The file properties need each other: a crashed file verifies
because it was a prefix of a memory that verified, and an edit is evident because
the file did verify. Across sessions, `SessionsInv` adds that entries are
numbered by their place in memory (`NumberedInv`), and that the end of the file is what the living session has
saved of its memory (`TailInv`), so that an entry appended to the file either continues the line
before it or is numbered 0.

* `LedgerTypeOK`, `LedgerInvariant`
* `MemoryAlwaysVerifies`, `FileAlwaysFollowsMemory`, `CrashedFileAlwaysVerifies`,
  `MiddleEditAlwaysEvident`, `SessionsAlwaysChained`: the invariants of `ledger_record`, for any number of
  threads, records and sessions
* `FileOnlyGrows`: the action property, a step at a time

### GovernanceEngineProofs

From `EngineAssumption`. `JourneyInv` relates every intermediate state of a call
to the abstract decision it will end in: the results so far are a prefix of
`Results(policy, context)`, the flag `stopped` says exactly that the next gate is
not `Reached`, and the response is masked iff a MASK is among the results. With
it, `Decide` produces `Decision(policy, context)`, and no other step changes
`outcome` except to raise.

* `EngineTypeOK`, `EngineInvariant`
* `EngineDecidesInIsolation`: `Spec => Abstract!Spec`, for any number of
  concurrent transactions, contexts and policies
* `EngineJourneyStops`, `EngineReleaseEstablished`, `EngineClassifiedStaysHome`,
  `EngineMaskHolds`, `EngineAllowedIffReleased`
  `EngineReleaseEstablished` goes through the six gates: under `fail_closed`, what was released came over an
  allowed channel from a principal who proved what is asked of one, stayed within its entitlements and sources, and
  went to an approved model, of an approved or undeclared provider, in a region that was declared and permitted, with no
  credential or blocked phrase in the answer. Each is read from what the gate's verdict excludes.
* `EngineFailClosedOnlyWithholds`: a release under `fail_closed` means that each gate passed without
  its help, so each has the same result without it, and so has the maximum over them
* `EngineLedgerTellsJourney`: where an entry stands among those of its transaction is said by counting
  the ones before it, so a record of another transaction changes nothing. `LedgerInv` adds that a
  transaction that was not submitted has no entry.
* `EngineGoesForward`: the safety part of `CallsReturn`. A step of a call brings the next of six results
  or ends the call, and moves no other call

### AssessmentPipelineProofs

From `CorpusAssumption`, `ScopeAssumption` and `PipelineAssumption`. The
inductive invariant is `Base /\ Control /\ Files /\ Clean /\ Told /\
AssertionsGrounded /\ Thrift`:

* `Base`: types, and a running process has settings of `Settings`.
* `Control`: at node *n* the stage is not one that an earlier node waits for
  (`Behind(n)`), and each loop runs at its own stage. This is why a skipped node
  is a node that was done.
* `Files`: the file against memory at each point of the loop.
* `Clean`: outside the two loops a state is `Settled` (no finding before the
  assessor's stage, no verdict before the critic's); within them, the controls
  still to be visited have not been reviewed and are distinct, so that no review
  is applied twice. It needs that `keys` lists each finding once.
* `Told`: every finding is on record; while the assessor loops, every control in
  scope has a finding, or is still to come, or the budget's end is on record.
* `AssertionsGrounded`: what the citation gate leaves, over the critic and resumption.
* `Thrift`: an attempt under way passed the budget test, so an answer adds at most
  one call above a count that was below the ceiling. Retries are not tested again,
  which is why the invariant must speak of `attempt > 0`.

Each invariant part has a lemma per kind of step: a node that only moves the
stage, a turn of the assessor, a turn of the critic, and the file's and the
process's moves (`FourKinds`).

* `PipelineInvariant`, `PipelineTypeOK`
* `CheckpointAlwaysCurrent`, `StageAlwaysTellsData`, `RaisesOnlyWhenCompleted`
* `AssertionsAlwaysGrounded`, `FindingsAlwaysOnRecord`, `PartialAlwaysOnRecord`
* `SpendAlwaysBounded`
* `CriticNeverUpgrades`: the action property
* `RunsGoForward`: the safety part of `RunsEnd`. Each step that a process survives goes forward in the lexicographic
  order of the node, how far the node has come, the controls left to visit, and the retries taken
  of those its settings allow

The number of processes, hence of crashes, the scope, the retriever's ranking and the replies
are arbitrary in all of these.

`PipelineIsResumable`: `Spec => ImplementsResumableRun`, from the pipeline's invariant and one more,
`Loops`, on the turns of the two loops against the file: stage, tier and what was retrieved are as
they were kept; the assessor has found something for controls in scope only; the critic has added
nothing, weakened at most, and not touched what it has still to visit. So when a loop ends,
the difference between memory and file is one abstract step. `Stutters` covers the turns,
`NodeEnds` the shape of a finished node, and each node has its own lemma; `OutsideMaps` is about processes that
start, die, end, or write the checkpoint.

`ScopeInvariant` is another addition: nothing is found, in memory or in the file, outside the scope, and the
assessor's loop visits nothing else. The report's counts rest on it.

### AssessmentDeliverablesProofs

From `DeliverablesAssumption` and the pipeline's assumptions; every theorem about a report
starts from the pipeline's invariants, by which the report is of the findings in memory and the run is complete.

* `ReportAlwaysAddsUp`: the judged controls fall into parts by framework and by domain, and sizes of parts
  add up (`SumParts`), which needs that each has its framework in the selection (`ScopeFacts`, from
  `ScopeInvariant` and `ScopeAssumption`). A domain's places in the scope are its controls, and
  once more each for every repetition (`DomainSize`); judged and not applicable are disjoint (`CoverageFits`).
* `RejectionAlwaysCosts`: the dropped control has earned nothing, so both postures have
  the same numerator and the denominators differ by its weight (`DroppedCounts`).
* `NothingEverUnsaid`: a row lists the findings of its title (`RowLists`); since a title has one row, weight and title
  order the rows strictly (`RowsOrdered`), so that the plan has each once (`PlanRows`).

`ClaimAlwaysHonest` combines
three invariants of the pipeline: a report is of the findings in memory, the
run is complete, and where no budget cut it every control in scope has a finding. `GateAlwaysMeans`
rests on the rate of valid citations: it is over all cases and must be 1, and a part
of the cases that is as large as all of them is all of them (`WholePart`), so no case is
missing from any denominator.

### ProviderCallsProofs

From `ProviderAssumption`. `CallsInv` adds to the types: an attempt's number stays within the tries, and only a call
under way has one; a request is on the wire only while a call waits for it; the requests sent are within those
of the calls begun; each request was served at most once; and the bill against the recorded cost, counted in
dearest answers for each request that has not brought a counted one, and half a micro-dollar for each that has.
`Rounds` says that a rounded price is no further than that from the exact one. Products of settings and counters are
isolated in lemmas (`OneMore`, `Costs`), as the solver does no non-linear arithmetic.

* `CallsInvariant`, `RequestsAlwaysBounded`, `BillAlwaysTracked`: for every setting, price and service
* `CallsGoForward`: the safety part of `CallsEnd`. A step of `complete()` goes on within its attempt, to the next
  of at most `max(1, max_retries)`, or ends the call; the service moves it nowhere

### The offline rules (in AssessmentDeliverablesProofs)

From `CorpusAssumption`, about operators, for every count:

* `EvidenceMonotone`: more that speaks for a control, and no more against it, never
  makes the rules claim less; by cases over the rules' precedence.
* `BaselinePassesGates`: the gates leave every answer as it is, whatever was retrieved.
* `DesignNeverCompliant`: where the critic looks, no control stays compliant on
  evidence declared as design or simulated.

### ApiServiceProofs

From `ApiAssumption`. That a withdrawn key dies with the cache is a race of three
ages: the cache's, the time a key has been gone, and the time it has been listed.
`KeyInv` compares them: a key in the cache has been gone for no longer than the
cache is old, and one that is not in the cache but is published has been listed
for no longer. Ages stop growing at the same value, so the comparison survives
it. `FirstPosition` and `SigningKeyMatches` show that the key chosen from the set
is one with the token's key id; the former finds the least index in a finite set
of positions by well-founded descent. `RunInv` says that only given-out runs have
a report, each of somebody who may assess.

* `WithdrawnKeysExpire` (`KeysFresh`), `RotationsAreSeen` (`RotationLag`): for any
  number of keys and requests, any time to live, and any failures of the provider
* `AssessorsOnly` (`OnlyAssessorsAssess`)
* `RateLimited` (`RateBound`). The code trims a bucket and then counts it; the property counts the
  requests that were let pass. `WindowInv` ties the two: the last moments of a bucket are those of
  what was let pass within the window, the oldest first, and what stands before them is out of it
  (`Tracks`), over ticks, trims and passes (`Bounded`).
  It holds for any limit and any `MaxBucket`, since an assessment was let pass only where the bucket was not
  full (`NotFull`).
* `ServiceTypes` (`TypeOK`, that a fetch leaves no empty set of keys included), from `ServiceInv`, which joins the above with what is known of the runs: a
  request under way has a number left to take (`Numbers`), and what was told is what is kept (`Known`)
* `ReportsAsTold` (`ReportsServed`): the action property

### McpServerProofs

From `RetrieverAssumption`, `ServerAssumption` and `ClientAssumption` (a call that can be looked up has the
fields that are read of it; every other line is arbitrary). `ServerInv` says of every answer given that it is what the
tools' operators return for its corpus over some possible index, store and iteration order (`Sound`), of the
index that it is of the corpus, of the store that it has nothing twice, and of the lines read and
written that the requests among them pair up.

* `McpTypes` (`TypeOK`), `McpAnswersPaired` (`AnswersPaired`): each turn of the loop writes at most one
  line, and one with the id of the line it read exactly when that has one, but for a line that raises out of
  the loop, which is the last one read
* `McpSearchesAgree` (`SearchesAgree`): two orders that differ within ties put the same scores in the same places
* `McpSearchFair` (`SearchFair`): normalising and weighing keep the order of what both
  sides agree on (`FusedGrows`). For `alpha` of 0 or 10 one side has no weight, and what
  it puts behind may tie; the property says so.
* `McpEvidenceOwn` (`EvidenceOwn`), `McpRiskMonotone` (`RiskMonotone`): facts on `evidence`
  and `assess_risk` carried by `Sound`

## 6. What is only model-checked, and what is not modelled

Only model-checked:

* `CallsReturn`, `RunsEnd`, `CallsEnd`: liveness under fairness is outside the prover's reach. `EngineGoesForward`,
  `RunsGoForward` and `CallsGoForward` prove for every instance that no step goes round in circles; that a step is
  always enabled, and that fairness takes it, is what the runs show.
* That `Enumeration` agrees with the library's operators, on small sets.

Abstracted away, in what is modelled: the text of payloads and findings; timings,
backoff and timeouts' lengths; wall-clock times (an entry only tells its session);
the rounding of scores and of the report's percentages; the regular expressions of redactor and scanner; confidence values;
tracing. `_safe` (which shortens and stringifies a payload) happens before the
hash is taken and so does not touch the chain. `errors`, `guardrail_events`
and `model_used` of `RunState` are carried along and decide nothing.

Not modelled, with the reason:

* A retrieval limit below 0, which the settings accept as well and which cuts from the end (`agents/retrieval.py:29`);
  in the pipeline's runs and theorems also one of 0, where a control's retrieved list is empty (`TopK`).
* What a string may contain beyond what a property tells apart: an id or a text that cannot be
  encoded on the way out ends the MCP loop too.
* Embeddings and BM25 arithmetic: floating-point; `HybridRetriever` takes any scores
  and the pipeline any ranking (`Hits`). The SQL of the pgvector store, and failures of a remote
  store, are not modelled either.
* The offline engine's word lists: text matching without state.
* The shapes of the providers' requests and responses, and the extraction of JSON from a text.
* The rest of the rendering, tracing, logging, prompts, most of the CLI: output only.
* The service a provider talks to is external: it may do what `ProviderCalls` lists, and nothing more is known of it.

## 7. The plan

Done: the ledger, because everything else relies on its file; the engine with its
abstract decision; the pipeline with checkpoints, budget, gates and report; the
two services in front of them, with retrieval and the risk rules; the offline
provider's rules; the abstract run that the pipeline implements; the calls to a model
attempt by attempt; what is made of a report, with the evaluation; theorems of each, which state every invariant
and action property of the runs.

Next, in this order:

1. Proofs: what the operators of the retriever return, as theorems of their own (a search has
   the best of what it may return); the evaluation's rates against each other.
2. The guardrail events of a run, the gate's rejections among them, and what of them survives
   a resumption.
3. A run in which the pipeline's retries are those of ProviderCalls, so that a cost that was
   billed and not counted is seen in the run's report.

New properties join the existing runs where their instance covers them. None of
the modules that are proved about uses a recursive operator.
