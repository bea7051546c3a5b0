# BugFix AI in TLA+

This directory specifies the parts of BugFix AI whose correctness depends on
order, failure or concurrency: the graph that replays a saved fix under an
engineer's decisions, the lane that records how an engineer fixes a new issue,
the two stores a fix is kept in, the search for similar fixes, the executor of
commands, the ingestion of alerts, and the daily categorization of issues. TLC
checks the modules on small instances, TLAPS proves the main invariants for
every value of the constants.

Paths are relative to the repository; `PROJECT.json` maps every definition to
its lines.

## 1. Inventory

### The program

BugFix AI has two phases in one code base. Phase 2 is a LangGraph state
machine over a Postgres checkpointer: a *thread* (`gh-<alert>` or a ticket id)
goes through intake and classification into one of three lanes: **capture**
(A: record what the engineer does), **assist** (B: show similar fixes),
**autonomous** (C: replay a saved fix with a pause before each step). Phase 1
categorizes GitHub issues into a workbook once a day and shares no state with
phase 2.

| Component | State it keeps | Operations | Talks to |
|---|---|---|---|
| Graph, autonomous lane (`core/graph.py`, `nodes/autonomous/*`) | the thread: plan, step index, results, redo count, decision | one node per superstep; pauses before `consent_gate`, `pre_execute_review`, `hitl_checkpoint` | checkpointer, model client, safe executor, fix memory |
| Session router (`api/routers/session.py`) | none of its own | start, decision, capture/event, capture/resolve | the graph through `ainvoke`, `aget_state`, `aupdate_state`; the recorder |
| Capture lane (`nodes/capture/*`) | recorder per thread in memory; trace mirrored in the thread | arm, record, merge, finalize, store | session router, fix memory, model client |
| Assist lane (`nodes/assist/*`) | candidates in the thread | retrieve, filter, rank, present | fix memory, rules database |
| Fix memory (`memory/fix_store.py`, `vector_store.py`) | `fixes` table, Qdrant collection | store, read, reconcile, ensure the collection | capture lane, load_fix_plan, operator scripts |
| Alert ingestion (`integrations/github/poller.py`, `client.py`, `routers/ingest.py`) | `ingestion_seen`, the ETag of the loop | poll, webhook, manual trigger | GitHub, the graph |
| Safe executor (`integrations/terminal/safe_executor.py`) | allowlist; a process per call | static check, dry run, subprocess with timeout | execute_step, pre_execute_review |
| Model client (`core/llm_client.py`) | connection | chat with transport and parse retries | every node that asks the model |
| Retrieval (`memory/retrieval/*`) | none | two searches, reciprocal rank fusion with decay | fix memory, rules database; the assist lane makes the same calls node by node |
| Issue categorization, collection, workbook, scheduler (`categorization/*`, `issues_client.py`, `graphql_client.py`, `api/scheduler.py`) | a workbook file | collect pages, classify, write, once a day | GitHub, model client |
| Training data (`rl/*`) | preference table, JSONL files | record pairs, export | not called by the graph |
| Observability, application assembly, configuration, schema | logs, metrics, settings | | |

`PROJECT.json` lists every component with its status.

### What is hard here

* **No lock around a thread.** A request loads a copy of the thread, works on
  it node by node and writes it back; the last checkpoint wins. Every handler
  of the router reads, awaits and writes.
* **The graph has no program counter.** What runs next is the outgoing edge of
  the last node, evaluated on the values now in the thread. `aupdate_state`
  changes those values and re-evaluates the edge, so a decision is answered by
  the node that ran *before* the pause.
* **Side effects before the checkpoint.** A command runs, then its result is
  saved. A request that ends in between has acted and left no trace.
* **Two copies of everything.** Recorder and checkpoint, row and vector,
  GitHub's index and the ETag kept of it: each pair is written one after the
  other, and a process can be killed in between.
* **Threads are reused.** Starting a session on a thread runs intake again,
  which resets some fields and not others.
* **A process is not its pipes.** The executor's timer, the death of the
  command and the end of its output come in any order, and a descendant can
  hold the output open after the command was killed.

### What makes each component correct

* Autonomous lane: steps in plan order, none skipped, none executed without a
  decision of its own, none repeated without a redo or a crash; success only
  when nothing is left; the record of a run is what happened in it; the fix
  replayed is the one clicked; a session whose engineer answers ends.
* Capture lane: what a hook was told is kept is kept, over restarts; a stored
  fix contains all that was acknowledged before the resolve, in order, up to a
  resolution the hook posted itself, and nothing of another run; one fix per run; the thread says what was stored.
* Fix memory: no vector without a row; every row gets its vector in the end; a
  clean reconcile pass has closed every gap, as long as no other script makes
  new ones behind it; indexing loses nothing.
* Ingestion: no alert missed, none marked before it has run, none run twice.
* Categorization: a listing without gap or overlap, a bounded number of model
  requests, no permit lost on any way a task ends, the next run whatever
  happened to this one.
* Safe executor: nothing runs that the check refused; a success is the exit 0
  of the command; whoever has an answer has left no process of its own running;
  a call ends although its process would not.
* Retrieval: what both searches find comes before what one finds, what is stale
  comes last, whatever the order of equals and wherever the lists are cut.

## 2. Modules

| Module | Models |
|---|---|
| `FixGraph` | nodes, edges and interrupts of the graph as pure operators on the thread |
| `FixSession` | threads driven by requests: start and decision await by await, each node as a step, requests that die |
| `PlanReplay` | what autonomous mode promises, without graph, requests or checkpoints |
| `FixSessionProofs` | theorems about `FixSession` with any number of requests |
| `FixReplayProofs` | theorems about `FixSession` with one request at a time, the refinement of `PlanReplay` and the record of outputs, clicks and repeats among them |
| `Selections` | what the code writes as a list comprehension with a condition; used by three modules |
| `SelectionProofs` | lemmas: induction over numbers and sequences, and what a selection keeps |
| `TraceBaseline` | the plan a trace is turned into, as pure operators |
| `CaptureLane` | recorder, mirror, resolve and the row it stores |
| `CaptureLaneProofs` | theorems about `CaptureLane` |
| `FixStore` | `store_fix`, the retried upsert, reconcile passes, and `ensure_collection` as the scripts begin with it |
| `FixStoreProofs` | theorems about `FixStore` |
| `SafeExecutor` | static check and dry run, a call of the executor beside its process and the event loop |
| `Retrieval` | both searches, their fusion, and what is read back |
| `Tools` | executor and retrieval side by side, for one run of both |
| `ToolsProofs` | theorems about `SafeExecutor` and `Retrieval`, of the behaviours of `Tools` |
| `AlertIngest` | poll loop, webhook and manual tasks, `ingest_one_alert` |
| `AlertIngestProofs` | theorems about `AlertIngest` |
| `Categorization` | listing of issues, the batch under its semaphore, retries of the model, scheduler |
| `CategorizationProofs` | theorems about `Categorization` |
| `MC*` | values for constants that a configuration file cannot write |

### FixGraph and FixSession

A thread is a record of the fields of `BugFixState` that steer a run, and the
node that wrote it last. `FixGraph` defines each node as an operator from the
state it receives to the state it leaves (`LoadFixPlanNode`,
`PreExecuteReviewNode`, `ExecuteStepNode`, `HitlCheckpointNode`,
`AdvanceStepNode`, ...) and `Following` as the conditional edges. In
`FixSession`, `saved` is the latest checkpoint; a client's `mem` is the copy its
`ainvoke` works on, `snap` the results its `aget_state` read, `body` its
payload. An action per node runs the operator on `mem` and checkpoints it
(`Checkpoint`): it stops before an interrupt, at END, or goes on. `ExecuteStep`
and `SaveExecuted` are two steps, because the command has run before its
result is saved. `Die` is a request that ends at any await.

Abstracted: what the model answers (any mode, any command), what a process
returns (ok or failed, with or without output), command text (a command is
allowed by the static check or not), logs and narrative. A result that came
from a command without output is kept apart (`quiet`), because
`_upsert_staged` guesses from it whether an entry was executed.

LangGraph is external. The model takes from its use here: a checkpoint per
superstep, the latest one wins; `aupdate_state` is one step and re-evaluates
the edge of the last node; an exception leaves the checkpoint as it was; new
input starts over at intake and keeps the fields it does not name; an
interrupt is passed by the first tick of a resume.

`visits` (what `execute_step` acted on since intake, with which command, under
which decision) and `picked` (the fix a client has named) are history.

### CaptureLane and TraceBaseline

`saved` is the part of the thread the lane uses, `buffer` and `flagged` the
recorder of the thread, `rows` the fixes it stored. `capture_event` is three
steps (read, record, mirror), `finalize_capture` five (read, merge and mark,
extract and store, update, clear): the awaits of the code at which another
request can run. The lock inside the recorder is never contended between
awaits, so merge and mark are one step. `Crash` is a restart, which empties the
recorder. `acked`, `recorded` and `owed` are history. `Begin` counts as an
overlap a request that begins while another is in flight: many promises of the
lane hold only while there is none, and one instance then serves both cases.

`TraceBaseline` is the loop that makes a plan of a trace: actions are steps, a
file goes to the last step if that has none and also to the next one, files
after the last action become a step without a command, notes are dropped, the
first resolution ends it. `Covered` is what such a plan names. An event stands
for a command or a file; the wording of steps is left out. `StoreFix` leaves
open whether the model returned steps: those replace the plan and are data.

Hooks may post events of any kind, a `resolution` among them, and with any
timestamps. Three sets say what the promises of a stored fix can be about:
`Deeds`, the actions and files of the hooks; `Cleanup(trace)`, what a trace has
behind a resolution that a *hook* posted (not behind the `Marker` of
`mark_resolved`), where the plan ends; and `Twins(trace)`, events that share
their timestamp with another entry of the trace, which a merge may take for it.

### FixStore

A fix is named by its `resolved_at`, which `store_fix` takes before it
commits; two writers can commit in the other order. A pass reads windows by
LIMIT and OFFSET (`Rank` is the position of a row in the order), asks which
points exist, upserts the gaps one by one and moves on. An upsert that raises
may have taken effect.

Every script begins with `ensure_collection`: `opening` is where it is in there
(`get`, `delete`, `create`), `collection` whether Qdrant has the collection.
`get_collection` raises `UnexpectedResponse` when there is none, and may raise it
when there is one; either way the script goes on to `recreate_collection`, whose
delete takes every vector. A collection that another script has created
meanwhile makes the create fail, which ends this one. Without a collection every
call on its points raises. `Workers` go on to a reconcile pass; `Starters` are
`ingest_github` and `backfill_embeddings`, of which only the start matters here
(`backfill_embeddings` ends at its first row). The payload indexes that follow
the create are part of it: they can raise, which is a create that took effect
and raised.

`before` (the rows there were when the pass began) and `lost` (another script has
deleted the collection since) are history.

### SafeExecutor

A call is a coroutine (`pc`), its process a record beside it: running or
exited, with an exit code; `held` says that a descendant has inherited the
pipes, `seen` that asyncio has noticed the death, `closed` that it has dropped
the process. Each of these changes is a step of its own, because timer, death
and end of the pipes come in any order: `communicate` and `proc.wait` are
answered from `seen`, `held` and `closed`, never from the process itself.
`Cancel` is a request that ends at an await. A command line is what the static
check looks at: deny tokens, metacharacters, whether it can be split, its words
and what its arguments contain. Output and its cut to a limit are data.

### Retrieval

A fix has a profile: what the ticket shares with it, its age in half-lives,
its ruler score, whether it has a vector and still has a row. `SemanticLegs`
and `RulesLegs` are *all* answers the two searches can give: any order for the
vectors (how similar texts are is not modelled), every order of equal scores
for the SQL query, each cut to its limit. From there on the code is
deterministic: `FuseResults` adds `1 / (k + rank)` exactly, as fractions,
multiplies by the decay, and sorts stably in the order in which `by_id` met the
fixes. Ages between two half-lives are left out.

### Tools

The two share nothing, so a behaviour of `Tools` is one of the executor or one
of the retrieval, chosen at the start.

### AlertIngest

Alerts are numbered as they are raised; the list is paged newest first, so an
alert raised during a poll shifts the pages; the number of alerts stands for
the ETag of the index. `HEAD` may answer without ETag, a first page may answer
304. `ingest_one_alert` is `check`, `start`, `run`, `mark` for pollers and
tasks alike. Alerts that are closed, and the filters of the listing, are left
out. A poller that is killed is started again without its ETag; a poll
triggered by hand is a first pass of such a poller.

### Categorization

GitHub is a sequence of open issues in the order of the listing; opening,
closing and (REST) updating an issue changes it between two pages. A run is
one record: `pc`, the page it asks for next, its records, one slot per record
and the free permits of its semaphore. `ListPage` is one page with the limits
that can end the listing there; `EnterCall` and the four outcomes of a request
are the awaits of `categorize` and `chat_structured`, with the two retry
counters (`parse`, `tries`) in the slot. What `chat_structured` raises ends in
`_one`, so every way out of a call is `Ends`. A row from a URL takes no await
and is one step. `start`, `seen` and `capped` remember what the listing began
with, what happened to the repository meanwhile (or that the records are from
a file), and whether the cap ended the listing. `RunFromJson` is the command line's
other source: a file whose items are cut, then parsed, and no pages.

Abstracted: rules, taxonomy and the text of rows (a record has a URL or has
none), the contents of the workbook, the five attempts at a page (one outcome,
`Fails`). The semaphore serves its waiters in order, as `asyncio` does.

## 3. Runs

| Run | Instance | Shows |
|---|---|---|
| `sequential` | one request at a time, plans of one and two steps (a manual one among them), 2 starts, 7 decisions, 1 death, edited commands | types; `CompletedMeansEveryStepActed`, `IndexIsBacked`, `ResultsFollowPlan`, `EachVisitHasItsOwnApproval`, `RepeatsAreAccounted`, `RecordIsOfThisRun`, `PickIsReplayed`, `ExecutedOutputIsKept`; `FixSession` implements `PlanReplay` |
| `liveness` | one client, 12 decisions, 2 deaths, redo limit 1 | `SessionEnds`: a session whose engineer answers reaches END |
| `capture` | two clients, 1 overlap, 3 events (an action, a file, and a resolution of the hook with the timestamp of the file), recorder of 2, 2 runs, 3 resolves, 1 death, 1 restart; clients symmetric | types; alone, nothing acknowledged is lost (`AckedIsMirrored`) or missing from a fix (`StoredFixIsComplete`), fixes are separate (`NoEventInTwoRuns`) and in order (`OrderIsKept`), and the thread says what was stored (`FinalizedTraceIsKept`); beside others, `LoneResolveIsComplete` and `RowsAreBounded` |
| `fix_store` | two writers, one reconcile script, one other script that starts once, 2 fixes, windows of 1, 2 attempts, 2 faults, 1 kill | `VectorsHaveRows`, `PassClosesGaps`, `CountsAddUp`; `EveryFixIsIndexed` in the end |
| `ingest` | one poller, one task, 3 alerts, pages of 1, 2 webhooks, 1 failure, 1 kill | `NoAlertIsMissed`, `SeenHasRun`, `RunsAreBounded`; `EveryAlertIsTaken` |
| `categorization` | one run at a time, of the repository or of a file, 4 issues (two with a URL, one without a record), listings of 2, 3 and 4, pages of 1, cap of 3 pages, limit 1 or none, 2 permits, 2 requests for each of 2 answers, 1 change, 4 faults | pages meet (`ListingIsExact`), opened issues hide none (`OpeningHidesNothing`), `CallsAreBounded`, `PermitsAddUp`; a run ends, the scheduler goes on |
| `tools` | two calls, ten command lines (one for each way through the check), processes that fork, exit or run for ever; three fixes of 12 profiles, searches of two, two shown | `AnswerTellsTheChild`, `CallsEnd`; `AgreementComesFirst`, `StaleComesLast` |
| `reviewed`, `redo`, `capture_lost`, `alert_twice`, `executor_hang` | | a violation each, section 4 |

**Bounds.** Plans of two steps have a first, a last and a manual step, and a
plan of one step has a step that is both; a redo limit of 1 lets redo be used
and refused; 7 decisions suffice to replay both steps with a redo and to
restart; in `liveness` 12 decisions suffice for every path to END with two
dead requests, so the bound never stops a session. A recorder of 2 overflows
with 3 events, and the two that share a timestamp meet in a merge; two clients
and one overlap are the least in which mirrors and
resolves race, and the theorems say the same for any number. In `fix_store` a
fix committed during a pass shifts its windows, of two fixes either can be
committed first, and one start of the other script meets every place of a pass; starts must be few because two scripts that
both saw no collection may delete each other's for as long as both go on. Windows and pages of 1 put every row or alert on a boundary.
One failure is enough for each handler to fail at each of its awaits; two let
an upsert exhaust its attempts. In `categorization` a listing of 4 passes the
cap of 3 pages, one of 2 leaves room for an issue that is opened, and of four
faults three lead one record to its fourth and last request and the last one
would lead it on to a fifth, if the retries allowed one. Requests have
`max_issues` of at least one (`SizeAssumption`; the command line's
`--max-issues 0` is left out), and with pages of one no page is partial in the
run: `ListingStaysExact` holds for pages of any size. Runs share nothing but
the workbook, so one run at a time shows what a run does. Calls of the executor
share nothing either; two show that. In `tools` the smoothing constant is 2
with searches of two, the tightest case of `Limit <= Smoothing` that
`RankingAssumption` asks for (the code has 20 and 60): closer to it, ranks
weigh most. Three fixes are one in both lists, one in one list and one that
the cut takes away.

**Fairness.** `HandlersRun` is weak fairness of every handler: asyncio runs a
coroutine that can run, and a blocked await returns or raises in the end
(timeouts in the model client and the HTTP clients; for the executor see
`executor_hang`). `EngineerAnswers` is an
assumption about people. In `FixStore`, calls and passes run on, and passes
over the whole table are started again and again (strong fairness, because
limited passes may come between; `ensure_collection` runs on like the rest), which is the schedule `fix_store.py` asks
for. In `AlertIngest`, pollers and actors run on. In `Categorization` a run goes on,
and the scheduler's sleep ends; strong fairness stands in because a requested
run may occupy the only place of the instance. A process that was stopped is
started again. In `SafeExecutor`, `LoopRuns` is the event loop: callbacks that
are due run, a timer fires, and a process need not end by itself.
`PipesAreLetGo` says of a command's descendants what nothing in the code
enforces; `tools` assumes it, `executor_hang` is what happens without. Faults, failures and deaths
are bounded: eventually Qdrant, GitHub and the database answer.

`CHECK_DEADLOCK FALSE` stands where the system may stop: a session that is over
or whose bounds are used up.

## 4. Where the code and its documentation differ

Five runs expect a violation; each finding in `PROJECT.json` quotes the text.

* `reviewed`: the pause is before `pre_execute_review`, which adapts the
  command and is not followed by a pause: the command that runs was adapted
  after the approval. An edit posted at that pause is overwritten too.
* `redo`: after a redo the decision "continue" is answered by the edge of
  `hitl_checkpoint`, so the step is passed without being repeated.
* `capture_lost`: two events in flight, one mirror overwrites the other.
* `alert_twice`: a webhook and a poll both run the graph on one thread.
* `executor_hang`: `proc.wait` after the kill returns only when the pipes are
  closed, and a descendant that was not killed keeps them open: the "hard"
  timeout of `safe_executor.py:43` is none.

The following were met on the same models with other instances; they are not
runs of their own.

* An edit rewrites the record of the step executed *before* the pause
  (`session.py:152-156`), and with two requests it can write results back that
  lack the staged step. `RecordIsOfThisRun` excepts typed commands for this.
* Two decisions that both passed the check of `snap.next` can run a command
  after `manual_fallback` (`session.py:138`).
* A result without output that exited 0 is taken for a staged one and replaced
  by a redo (`pre_execute_review.py:187`); `ExecutedOutputIsKept` is what is left.
* intake does not reset `selected_fix_id`: a second run without a click replays
  the fix of the first (`intake.py:77`). `PickIsReplayed` speaks of this run's click.
* Classified as autonomous without a choice, a thread has an empty plan; two
  "continue" make it a success.
* Two resolves in flight store a run twice (`finalize.py:78`); an event in
  flight replaces the finalized trace (`session.py:241`); `mark_resolved` does
  not shut the recorder (`recorder.py:64`); a run that was never resolved
  leaves its events to the next (`emit_new_issue.py:74`).
* Events of one timestamp are taken for one (`finalize.py:92`): when a mirror was
  overwritten and only the recorder has an event, a merge drops it for another
  with its timestamp. `LoneResolveIsComplete` excepts these (`Twins`).
* A hook can post an event of kind `resolution` (`session.py:171`; `state.py:89`
  lists the kind). It neither resolves the run nor shuts the recorder, and the
  plan ends at it: everything posted afterwards is in the trace and in no step.
  The docstring calls that cleanup (`extract_steps.py:104-105`); but hooks that
  post at once may find their earlier actions merged behind it. `Cleanup` excepts
  what stands there.
* `ensure_collection` is "safe to call on every startup" and "Idempotent"
  (`vector_store.py:8`, `:40`), and takes any `UnexpectedResponse` to
  `get_collection`, one of an overloaded server too, for a collection that does
  not exist (`:46`): `recreate_collection` then deletes all vectors. So do two
  scripts that start together and both see none: the second deletes what the
  first has created, and perhaps filled. A reconcile pass beside it goes on and
  reports success over the gaps behind it; `PassClosesGaps` excepts passes that
  were `lost`, and `EveryFixIsIndexed` says that a later pass brings the vectors
  back, those of `store_fix` by poorer ones as below.
* A run without steps is answered with the `fix_id` of an earlier run
  (`finalize.py:118`), or stored with steps the model made up from the marker
  (`extract_steps.py:220`).
* A reconcile pass indexes the gaps it found without looking again
  (`fix_store.py:282-305`): the vector `store_fix` writes meanwhile is
  overwritten by one rebuilt without title, description and log, although
  `fix_store.py:265` counts on short-circuiting indexed rows.
* An issue that is closed, or updated in a REST listing, between two pages
  hides the issue that moves into its place or shows one twice; the listing is
  called exhaustive (`issues_client.py:135`, `graphql_client.py:212`).
  `OpeningHidesNothing` is what is left. An opened issue makes a duplicate row.
* A transport error of the model reaches the caller as the API's exception and
  not as `LLMError` (`llm_client.py:101,185`, with `reraise=True` no `RetryError`
  is raised): a batch makes a row of it, `categorize_manual` answers 500.
* With `force_llm` a failing model makes a row "uncategorized" although its URL
  names a category (`pipeline.py:175-197`; its comment says the extractor abstained).
* `_one` calls `rule_classify` again for its fallback row (`pipeline.py:228`): if
  that is what raised, the batch does abort.
* Two runs write one workbook, and the older listing may be written last; a
  download can read the file while it is rewritten (`excel_exporter.py:191`).
* Of the executor: a process that was dropped between the timer and the kill
  makes `proc.kill` raise `ProcessLookupError`, which nobody catches, although
  the command exited (`safe_executor.py:254`); a command that exited 0 is
  answered 124 while a descendant holds its pipes; a cancelled request leaves
  its process running. `safe_executor.py:50-51` makes the dry run the default
  of irreversible binaries, which no code does; a wrong claim of reversibility
  is only logged (`:191-200`).
* The nodes of the assist lane hand their lists over in keys the state does not
  declare (`semantic_retrieve.py:30-32`), so the graph drops them and the lane
  ranks empty lists; `retrieve_similar_bugs`, which does the same in one
  function, has no caller. `Retrieval` models the two searches as that function
  makes them.
* A file touched between two commands is named by the step before it, if that
  names none yet, and by the one after; after the last command it makes a step
  of its own. The docstring (`extract_steps.py:101-105`) attaches it to the
  preceding command so that "the plan doesn't grow a step per saved file".
* A run of an alert that raises is not tried again by the poller, whose ETag
  moves on (`poller.py:81-85`); the module comment accepts that.

## 5. Proofs

Every invariant that a passing run checks is stated by a theorem here. Each
theorem holds for every value of the constants that satisfies the named
assumptions of the module (they ask for no more than types, a page, batch,
recorder, `max_issues` or number of permits of at least one, finite sets of
clients, stored fixes and the like, disjoint names, a `resolution` as the kind of
the marker, and ranks that stay below the smoothing constant), and under a
hypothesis where the theorem names one (`OneAtATime` or no edits).

`FixSessionProofs`, for any number of requests in flight:

* `TypesHold`: `Spec => []TypeOK`, over the types of every node
  (`NodeTypes`) and of a checkpoint (`CheckpointType`).
* `IndexStaysBacked`: `[]IndexIsBacked`, assuming that no edited commands are
  posted, or that there is one request at a time:
  `Edits \subseteq {None} \/ \A c, d \in Clients : c = d`. The assumption is needed:
  with two requests an edit writes back results that lack a staged step.
* `CompletionIsSound`: under the same assumption
  `[]CompletedMeansEveryStepActed`.

Completion says nothing of the checkpoints before it, so it is not inductive.
What is: `Backed` (each step below the index has a result that is not staged,
and the nodes that run at one place have what their predecessor wrote) holds of
the checkpoint *and of the copy of every request in flight*, since any copy may
become the checkpoint; and where an edit will be written, the results its
request read are still those of the thread. The proof has one lemma per node (`BackedReview`,
`BackedExecute`, `BackedAdvance`, ...), one for the engineer's update, and one
step per action.

`FixReplayProofs`, under `OneAtATime` (`\A c, d \in Clients : c = d`). The
assumption is needed: two requests give a step two visits for one decision, or
write each other's results back.

* `ResultsStayInOrder`, `VisitsAreApproved`, `RecordStaysOfThisRun`:
  `[]ResultsFollowPlan`, `[]EachVisitHasItsOwnApproval`, `[]RecordIsOfThisRun`.
* `SessionImplementsReplay`: `Spec => ImplementsReplay`, the refinement of
  `PlanReplay`.

The invariant is `Alone`. Of the checkpoint it says `Ledger`: the three
properties of results and visits, with what makes them inductive (the steps of
results never fall, the last one is at most one behind the index, a thread
before its plan has neither results nor visits). Of the request it says
`Stage`: the copy it works on is the checkpoint, except between a command and
its saving; and the decision it carries is `Fresh`, answered by no visit,
until it reaches `execute_step`. For the refinement, the abstract plan, the
steps acted on and the outcome are functions of the checkpoint alone
(`MapPlan`, `MapActed`, `MapOutcome`); one lemma per abstract action
(`MapRestart`, `MapLoad`, `MapAct`, `MapSucceed`, `MapHandBack`) says which
nodes are that action, and every other step stutters.

On it build, in the same module and under the same assumption:

* `OutputStaysOnRecord` and `ClickedFixIsLoaded`: the action properties
  `ExecutedOutputIsKept` and `PickIsReplayed`. The invariant `Handed` says what
  one node relies on from the one before it: the fix a request carries is the
  one the thread has selected, the last result is staged while `execute_step`
  is due, and both survive while the result of a command is being saved.
* `RepeatsStayAccounted`: `[]RepeatsAreAccounted`, from the stronger `Accounted`:
  every step was visited at most once and once more for each request that died,
  and no step ahead of the index was visited. A redo alone repeats nothing, as the
  run `redo` shows from the other side.

`SelectionProofs` has what the recursive definitions need. The library's induction
theorems take an operator, which no backend can instantiate; here the property
is a *set*, of numbers or of sequences, and the induction is the least number
outside of it, from `WFMin` and `NatLessThanWellFounded` (`Induction`,
`AppendInduction`). A recursive function is first shown to exist
(`SelectionExists`; `ScanExists` for the plan of a trace, `DoublingExists`
for the decay), then its two equations are used. Of `Selected` it is proved
what it contains, that it distributes over concatenation, and that it keeps
order and keeps items apart.

`CaptureLaneProofs`:

* `TypesAreKept`: `[]TypeOK`; what a merge adds are entries, and a push keeps
  the recorder within its limit.
* `AcknowledgedIsKept`: `[]AckedIsMirrored`. While no two requests were in
  flight at once, the checkpoint contains what was acknowledged, and so does
  the list that an event in flight has read and will write back (`Mirrored`).
* `RowsStayBounded`: `[]RowsAreBounded`. Per run, its rows and the
  requests that can still store one for it (`Storing`) are at most one for each
  overlap and cut, and one more unless the run is still captured and nobody is
  resolving it (`Due`). A resolve that begins alone takes that one; any other
  begins beside a request, which is an overlap, or finds the run captured again
  because an earlier one was cut off.
* `FinalizedStaysTrue`: `[]FinalizedTraceIsKept`. While a request is at work alone
  nobody finalizes the run under it (`Handing`), so an event is written back to a
  captured thread only; a captured thread names the fix of an earlier run
  (`NamesEarlierRun`), and a resolve hands on that name or that of the row it
  has stored, with the trace it was made of.
* `StoredFixStaysComplete`: `[]StoredFixIsComplete`, for events of any kind and
  timestamp. By induction over a trace its plan names every command and file
  before the first resolution, and both the plan and the cleanup of a longer
  trace contain those of a shorter one. So a trace without the marker tells all
  its deeds (`DeedsAreTold`): they are in the plan or behind a hook's
  resolution, and stay so when more is appended. The invariant
  `Complete` says that nothing marks a trace while its run is captured, so
  what a resolve merges begins with what was read, marker-free, and that what it
  owes has been in there since it read.
* `RunsStayApart`: `[]NoEventInTwoRuns`. `Separate`: no event of a stored trace is
  left where the next resolve will look. A run is emptied in two places, and
  between them (`Finishing`, `Updating`) only one of them still has it.
* `OrderStaysKept`: `[]OrderIsKept`. `Ordered`: every trace is ordered as the log of
  what was recorded (`Settled`), and what is in the recorder is in the list that
  will be written back too, so a merge appends nothing (`Held`).
* `LoneResolveStaysComplete`: `[]LoneResolveIsComplete`, with any timestamps. A
  merge drops an entry only if the checkpoint has one with its time
  (`MergeMisses`), which is then its twin. `LoneInv`: until the merge the
  recorder has everything that is acknowledged, whatever mirrors overwrote, and
  it has room for each event that is still to be recorded.

`FixStoreProofs`: `TypesHold`, `NoVectorIsOrphaned`, `PassesCloseGaps`,
`CountsAreTrue`. A pass walks by offset over a table into which rows are
committed anywhere. The invariant `PassOK` says of a pass that, while nothing
failed or was lost, every row it began with whose rank lies before the end of its
window is indexed or in hand (`Covers`), and that its counts agree with the gaps it holds
and the rows it has passed (`Counts`). Rows are never deleted, so a rank never
falls: a row can be met twice, but not passed by. That ranks have no gap, so
that an empty window is the end of the table, is proved by well-founded descent
over subsets. Vectors only vanish where a script deletes the collection, and that
robs every pass but its own, which has not begun (`OpensFirst`, `OpenIsSafe`).

`AlertIngestProofs`:

* `TypesHold`.
* `NoAlertIsEverMissed`: `[]NoAlertIsMissed`. The invariant says of each poller
  that the ETag it sleeps with covers only alerts that are done with
  (`TagIsBacked`); that of the index whose ETag it read before it listed, what
  stands before the next page is handled (`ListedIsHandled`: new alerts shift
  the pages towards it, never away, so pages meet without a gap); that after
  the last page this is the whole index (`LastPageIsTheEnd`); and that it holds
  alerts only while it ingests (`HandsAreFree`). Done is for good, so no
  other actor disturbs it.
* `SeenAlertsHaveRun` and `RunsOfAnAlertAddUp`: `[]SeenHasRun` and
  `[](SeenHasRun /\ RunsAreBounded)`, from a ledger per
  alert (`RunsAdd`): until it is marked, its runs are those lost and those in
  flight; from then on only an actor that had asked before can begin one.
  The steps are counted with the cardinality theorems of the library.

`ToolsProofs`, for the behaviours of `ToolsSpec`:

* `AnswersTellTheChild`, `[]AnswerTellsTheChild`, for any commands and any
  allowlist. The invariant relates the place of a call to its process (before
  `communicate` there is none; `wait` is reached only when it has exited; only
  an exited process is noticed, and only a noticed one is closed), and a process
  or the wish for one to a command that passed the check.
* `AgreementStaysFirst` and `StaleStaysLast`, `[]AgreementComesFirst` and
  `[]StaleComesLast`, for any finite set of fixes, limits and smoothing. The
  steps are few, the weight is in the arithmetic and in the sort. Two ranks below
  the smoothing constant `k` add up to more than `1 / k`, which one rank never
  exceeds; two ranks are at most `2 / k`, one at least `1 / (2k - 1)`, and two
  half-lives divide by four. Fractions are compared by lemmas that cancel one
  factor at a time, as the provers do no nonlinear arithmetic of their own.
  `Sorted` puts an item at one more than the number of those ahead of it; these
  places differ and are as many as the items, so by the pigeonhole every place
  is taken once (`Fixes` is finite, which counting needs). What is cut from the
  end and skipped in the middle leaves the rest in order.

`CategorizationProofs`:

* `PermitsAreKept` and `CallsStayBounded`, `[]PermitsAddUp` and
  `[]CallsAreBounded`. The invariant `GoodRun` counts the slots whose request is
  under way (a finite set, also while the batch is being made) and says of each
  slot that it has spent no more requests than its two retry counters account
  for.
* `TypesAreKept`: `[]TypeOK`.
* `ListingStaysExact` and `OpeningStaysHarmless`: `[]ListingIsExact` and
  `[]OpeningHidesNothing`. `Exact`: while nothing changes, the records are the
  parsed beginning of the listing, as far as the pages have gone; pages are
  adjacent subsequences, and parsing distributes over their concatenation.
  `Whole`: while issues are only opened, the listing still *ends* with the one at
  the start, and what the pages have passed of that end is among the records:
  what moves, moves towards pages to come. Each of the ways a listing can end
  (the last page, the cap, the limit) carries one of these over to the batch.

## 6. Checked but not proved, and not modelled

Liveness under fairness (`SessionEnds`, `EveryFixIsIndexed`,
`EveryAlertIsTaken`, `RunEnds`, `SchedulerGoesOn`, `CallsEnd`) is out of the
prover's reach and stays with TLC. No module of the theorems declares a
RECURSIVE operator: recursion is by functions, as `Selected`, `Scan` and
`Doubled` are.

What the theorems do not cover beside that: the properties of one request at a
time where there are more (section 4 says what goes wrong).

Not modelled, and why:

* What the model answers, embedding and similarity: numerical, any value is
  admitted where they are used.
* Wording of prompts, rules, rows and logs; the sheets, names and styling of
  the workbook; the parsing of issues and alerts: conversions of text that no
  property here speaks of.
* The next fire time of the scheduler: arithmetic on dates.
* Training data (`rl/*`): called by an export script only, straight filters and
  appends without an order to get wrong.
* Metrics, settings, database schema and seeds, start and stop of the
  application, the HTTP layer (authentication, health): no state of their own.
* The retired `prompt_capture`, and functions without a caller (`get_issue`,
  `get_issues_index_etag`, `delete_fix`). `scripts/backfill_embeddings.py`
  awaits `embed_composite`, which is not a coroutine, and ends at its first row;
  its start is a `StartScript` of `FixStore`.
* A single manual issue (`categorize_manual`): one call as `Categorization`
  has them, without a batch.

## 7. Plan

Done, in this order: FixGraph, FixSession, PlanReplay → CaptureLane → FixStore →
AlertIngest → Categorization → TraceBaseline, SafeExecutor, Retrieval, and the
theorems of section 5.

What would come next:

1. Compositions: `AlertIngest` with `FixSession` (a second ingest restarts a
   thread in use), `CaptureLane` with `FixStore` (the row and its vector),
   `FixSession` with `SafeExecutor` (a request that is cancelled in a command).
2. The next fire time of the scheduler and the grouping of the workbook, as pure
   functions checked against a definition.
3. More theorems: the safety half of the liveness properties (how many decisions
   a session can take, how many windows a pass), and which of the properties of one
   request at a time hold for several once edits are forbidden.
