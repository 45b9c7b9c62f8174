# LocalScript: formal models

TLA+ models of LocalScript (`src/app`): a local service that turns a request into a
small Lua transformation by way of a planner, a generator, a deterministic validator
and a reviewer, keeps conversations in sessions on disk, and serves an HTTP API, a CLI
and a browser page from one engine. Everything below is translated from the code; line
numbers are those of the files under `src/`.

## 1. The system

| Component | State | Operations | Interacts with |
|---|---|---|---|
| Session store (`core/sessions.py`, `core/storage.py`) | one JSON file per session, a lock per session, a store lock | `transaction`, `update`, `write`, `read`, `cleanup`, quarantine | engine (transaction), API (read), other processes (files, flocks) |
| File lock (`core/storage.py:190-278`) | RLock per process and path, flock per file | `file_lock`, `try_file_lock` | session store, trace store |
| Trace store (`core/traces.py`) | trace files by date, two indexes | `write`, `read`, `latest_for_session`, `cleanup` | engine, API |
| Engine (`generation/engine.py`) | the admission slot of the process; the session record | `generate`, `request_slot` | stores, coordinator |
| Workflow coordinator (`workflow/coordinator.py`) | plan, candidate, validation, review of one run | `run` | roles, validator, context inspector |
| Model roles (`workflow/roles.py`) | none | `StructuredModelClient.request` with one correction | backend, budget |
| Budgets (`core/budgets.py`) | a deadline per request, nested | `workflow_budget`, `remaining_seconds` | roles, validator, backend |
| Validator (`workflow/validation.py`, `validation/runtime.py`) | the checks so far and the deadline of one validation | `validate`, `validate_existing` | AST policy, luac, Lua executor, budgets |
| Context inspector (`workflow/context.py`) | none | `inventory`, `sample`, `roots_overlap` | coordinator |
| Ollama backend (`generation/ollama.py`) | model lock and cache, semaphore, count of requests, closing/closed, HTTP client | `complete`, `refresh_model`, `list_tag_details`, `close` | model server |
| Lua AST policy (`validation/lua_ast.py`) | a stack of scopes during one pass | `analyze_lua_output` | validator, executor |
| Lua executor (`validation/runtime_executor.py`) | a child process per chunk; in it the proxies of the input and the roots read | `execute_output` | validator |
| Model resolver, output parser | none | pure functions | backend, validator |
| Browser page (`ui/static/app.js`) | session, results and panels on the page, `busy`, request version | generate, continue, feedback, validate, reset, edit, examples | API |
| API, CLI | none of their own | routes, commands | engine, stores |
| Evaluation, benchmarks, scripts | none while serving | offline runs and gates | engine |

What is hard about it: the server's threads and every CLI invocation share sessions
through files and two-level locks while a generation of up to three minutes holds one of
them; retention runs after each commit, judges by files it reads one by one and must not
wait for a session; a process may die anywhere; a file may be spoilt from outside; the
coordinator nests three kinds of second chances under a deadline, and code must leave it
only when it, and not an earlier version, passed every check; what the checks are worth
depends on two views of one Lua program, the scopes of a static pass and the metatables of
a run, and on a handful of processes that share nested deadlines; a conversation consists of
requests that may carry any mix of answer, feedback, context and choice of roots, and of
questions that outlive requests, processes and failures; the page abandons requests that
the server runs to their end; and shutdown races with requests on one HTTP client.

What makes each part correct:

* Session store: no update is lost, retention removes only what is expendable, locks are
  held exactly as intended and released, the size limit is kept up to transactions that
  did not end normally, readers do not disturb writers.
* File lock: exclusion across threads and processes, refusals only while somebody holds
  it, no deadlock between its two levels.
* Engine: the session agrees with its last trace; turns, contract and roots are kept;
  questions go away only when they are answered; every trace is accounted for.
* Coordinator and roles: published code is validated, reviewed and reads chosen sources
  only; rejection comes after the second chance; model calls are bounded; a run ends; a
  late answer is not used.
* Backend: the client outlives its requests, `close()` returns, slots are neither lost
  nor made up.
* Trace store: whenever its lock is free, a trace has all of its files or none, unless a
  call was cut short; the latest trace of a session is found; the size limit holds;
  retention removes what is old or superseded and nothing else.
* Validator, policy, executor: an accepted candidate breaks no rule, returns the right
  value on the request's shape and on every case, and uses selected roots only; the input
  reaches the program and comes back unchanged; what the policy lets through does not
  write to the input; a validation keeps to its own and to the outer deadline.
* Page: what it shows belongs to the task in the prompt box; a question it shows is open;
  an answer meets the question its author saw; it is busy exactly while a request is
  wanted, and not for ever.

`PROJECT.json` lists the components with their status and the hazards, each at its line.

## 2. Modules

| Module | What it is |
|---|---|
| `SessionRegister` | abstract: what the store promises, an atomic register per session with retention |
| `SessionStore` | `sessions.py` over `storage.py`, step by step |
| `MCSessionStore` | model values; runs `store_damage`, `store_quota`, `store_read` |
| `SessionStore_proofs` | types, locks, refinement of `SessionRegister`, the bound on sessions |
| `FileLock`, `MCFileLock`, `FileLock_proofs` | the two-level lock that `SessionStore` and `Engine` take as one |
| `Workflow`, `MCWorkflow`, `Workflow_proofs` | one run of the coordinator with roles and budget |
| `Engine`, `MCEngine`, `Engine_proofs` | requests, sessions and traces around the workflow |
| `Backend`, `MCBackend`, `Backend_proofs` | model lock, slots and shutdown of the Ollama client |
| `TraceStore`, `MCTraceStore`, `TraceStore_proofs` | `traces.py`, file by file under its lock |
| `UiRequests`, `UiRequests_proofs` | the page and the sessions of the server it talks to |
| `LuaPolicy` | the language, a small Lua, and `lua_ast.py` as a function of a chunk of it |
| `LuaSandbox` | `runtime_executor.py`: what a program of that language computes, reads and returns |
| `Candidate`, `MCCandidate`, `Candidate_proofs` | `validation.py` over the two: one validation with its processes and deadlines |

How they fit: `FileLock` shows that both lock functions exclude each other and are never
left behind, which lets `SessionStore` use a lock as a variable with one holder.
`SessionStore` shows that a session is an atomic register under a lock, which lets
`Engine` use one record, a lock and an atomic commit. `Workflow` gives the results
`Engine` takes (`Results`). `Backend` gives the errors `Workflow` takes. `Candidate` opens
the step that `Workflow` takes as one (`Validate`, `ValidationTimesOut`). `TraceStore`
stands behind the log that `Engine` appends to. `UiRequests` runs the page against what
`Engine` keeps of a session: its runs and its open question.

### Session store

Variables: `file` (what is on disk), `lock`, `storeLock`, and for each actor (a server
thread or a CLI process) `pc`, the session it is bound to, its working copy, and a
garbage file it has read and not yet set aside. `scan` is what the holder of the store
lock has read so far. A session's JSON is the number of turns it records with its two
timestamps. `damaged` and `lost` are history.

`Begin`/`Load` is entering `transaction`; `Raise` a body that raises; `Stamp` is
`_write_unlocked` up to the replacement, `Replace` is `os.replace`, `Unlock` leaves the
`with`; `StartCleanup`, `ScanOne`, `EndScan`, `Visit`, `Decide`, `EndCleanup` are
`cleanup` with both scans, one file at a time; `ReadCorrupt`/`SetAside` a reader that
meets garbage. `Crash` and `Damage` may come anywhere. Merged into one step are only an
acquisition with the read under it and a deletion with the release after it: nobody else
may touch the file there. The directory listing is taken as a snapshot.

Assumptions: the clock does not go back; every file carries its timestamp (the fallback
to the file's mtime, sessions.py:193, is for files of older versions); `write()` has no
caller outside the tests, and `update()` is a transaction.

### File lock

`rlock` per process, `flock` for the file, `pc` per thread. No caller takes a path it
already holds, so the RLock is not re-entered. A dying process loses both levels.

### Workflow

`req` is the arguments of `run()`, `stage` the stage last announced, `call` where
`StructuredModelClient.request` stands, `left` the budget. A plan is its output contract,
its roots and whether its cases are consistent; a candidate is its number; a validation
is its verdict, whether the AST policy objected and which roots the code read. The model
may answer anything of the schema, or not; every backend error may come at every call;
time passes between any two steps. Not modelled: the branch for a `ValidationError`
inside `run()` (coordinator.py:364), which the contracts of the stages rule out, is
subsumed in the failing outcomes; the size limit of a prompt is checked before the first
request only (roles.py:58), and so it is here; the intermediate stages that `_observe`
filters out are not announced.

### Engine

`slot` per process, `lock` and `session` for the session, `log` the statuses of the
traces written, and `draft` the copy of each thread. A request is which fields it
carries; `Conflict` is every refusal, `Prepared` the session after
`_prepare_session_state`, `Recorded` the session after the workflow's result. A turn is
the trace whose question it answers, so a property can say that an answer is recorded
with its question. `Raise` covers refused requests, effective requests that are too large
and backend errors that leave the workflow: in each case the copy is dropped. The engine
does not tell validation failures, policy rejections and an unavailable model apart;
neither does the model. Retention is `Expire`; traces are never removed here. One session
is enough because nothing but retention relates sessions.

The session may be one that an earlier version left (`Inherited`): it has no history of
turns but a list of answers and a list of feedback (`legacy`), from which `Canonical` is
the history it is read as; `Ambiguous` is the case whose order is unknown and is refused,
and `Migrated` the session once its turns have become a history. A caller gives roots as a
list (`RootLists`), of which the session keeps the set (`Selected`).

### Backend

`permits`, `active`, `closing`, `closed`, `open`, `modelLock`, `resolved`, and a `pc` and a
`call` per thread. A waiter on the condition leaves only by `NotifyAll`, so a lost wake-up
would show as a thread that waits for ever. `complete()` is `Resolve`, `LockModel` (from
the cache, or with a GET under the lock), `Infer` (the POST) and, between `Enter` and
`Release`, the exchange of each; `refresh_model()` ignores the cache. There is one model,
the profile's: no caller passes another.

### Trace store

`file`, `byId` and `bySession` are the three files of each trace, `lock` the store lock,
`job` what a writer writes and its time, `doomed` and `victim` what the cleanup still
deletes. `Stamp` takes the time before the lock is waited for; `WriteTrace`,
`WriteIdIndex`, `WriteSessionIndex`, `Scan`, `DeleteFile`, `DeleteIdIndex` and
`DeleteSessionIndex` are one file operation each, and `Abandon` may cut the call short
before each of them. Reads change something only when they meet garbage, so those are the
reads that are actions (`Read`, `ReadLatest`). `torn` and `overrun` are history. What the
code does not do, and the model shows: pointers of a trace that was cut short are never
reclaimed; a write may retire the trace it has just written, if older than the others;
`latest_for_session` and a `cleanup` by itself have no caller outside the tests.

### Page

`view` is what the page holds: the session, and which run of which session each panel
shows. `task` is the text in the prompt box, `version` is `state.requestVersion`,
`actions` the calls of `runAction` that have not ended, with what each has sent and
received. `server` is what the engine keeps. A request goes on at the server after the
page has aborted it (`ServeRun`), its answer may be lost (`Reply.ok`), a feedback on a
session with an open question may be answered with that question again and no run
(`AskAgain`, engine.py:223-238), and each `await`
is a step: the POST, the session, the trace. `Refuse` is an action that throws before it
sends. `LoadExample` comes from its button and, once, from the end of `boot()`.
Assumption: the page's session is used by this page alone; a second client of it would
make `ShownQuestionIsOpen` and `AnswersMeetTheirQuestion` false. A failed refresh leaves
the panels of the run before.

### Policy, sandbox and candidate

A program is a sequence of statements of a small language (`Statement` and `Expression` of
`LuaPolicy`, over the identifiers and keys in `Names`): locals, assignments to names and
fields, `table.insert`, `return`, `goto`, each plain or in the block of an `if`, of a
function under `pcall`, of a loop over `pairs`, or of a function called with the table.
That is enough for every rule of the policy but the other names of globals, for every way
in which a part of the input gets a second name, and for every metamethod of the proxies.
Everything a chunk goes through is a function of the number of steps done: `Analysis` the
scopes and findings after each statement, `Run` the state of the execution, `Walk` the keys
of a path, `Turns` the turns of a loop, `Json` the levels of the tables of a run, each
written in every place where it may stand, so that it is bounded by the depth limit as
`_ls_to_json` is.

`LuaSandbox` executes a program on proxies of the input, notes the roots and turns the
result into JSON. Of the globals (`AllowedGlobals`) it has `wf`, `pairs`, `pcall` and two
libraries, `table` with `insert` and `_utils` with `array.markAsArray`, which are tables
behind read-only proxies as in runtime_executor.py:245-262: a chunk may bind them to
locals, put them in its own tables and return them, and a write to one is refused with the
same message as a write to the input. They stand for `math`, `string` and `utf8` too; those
and the other plain functions are no names of the model (`OtherGlobals`). The functions a
chunk calls are looked up by their paths (`Calling`): when a local hides `pairs`, `pcall`,
`table` or `_utils`, the call fails where Lua's would, after its arguments. No table of a
chunk gets a key `insert` or `markAsArray`, so what is called there is the library's or
nothing. The key a loop visits must still be in the table. `Document` says what the `wf` of a context is: a tree of
objects and arrays with scalars at its ends, the items of an array under the first of the
names in `Position`; a list holds five items at most, a bound, and `table.insert` into a
full one fails in the model.

In `Candidate`, `Write` writes a program, `Submit` picks the task (contract, roots,
request, cases) and what is left of the outer budget, and the checks follow one by one;
`clock` counts the seconds of every process, which may end by itself, take all it is
given, fail or be missing. The probes for the versions of Lua and luac (`LocateLuac`) are
held to no deadline but their own two seconds, although docs/architecture.md:40 names 20
seconds for a whole validation: `TimeIsBounded` allows for them. The policy runs again in
front of each run (runtime_executor.py:436); it is the same function of the same text and
is left out. A timeout that is due to a spent budget is reported with the text of the
5-second limit (runtime_executor.py:490). No program in the model is slow by itself: how
long a run takes is chosen freely.

## 3. What the runs check

| Run | Properties | States |
|---|---|---|
| `store_damage` | `TypeOK`, `LocksAreHeld`, `Implements` | 1.1 million |
| `store_quota` | `QuotaBound`, `LocksAreReleased` | 516 thousand |
| `file_lock` | `TypeOK`, `MutualExclusion`, `RefusalHasAReason`, `SomebodyProceeds` | 762 |
| `workflow` | `TypeOK`, `PublishedIsVerified`, `SourcesAreChosen`, `VerdictIsEarned`, `ModelCallsBounded`, `Termination` | 215 thousand |
| `engine` | `TypeOK`, `SessionMatchesTrace`, `CodeIsLastCompleted`, `RunsAreKept`, `ConversationIsKept`, `QuestionsAreAnswered` | 891 thousand |
| `backend` | `TypeOK`, `ClientOutlivesRequests`, `CloseReturns` | 117 thousand |
| `traces` | `TypeOK`, `IndexesAgree`, `LatestIsCurrent`, `SizeBound`, `RetentionIsJust` | 657 thousand |
| `ui` | `TypeOK`, `PageIsOfTask`, `ShownQuestionIsOpen`, `AnswersMeetTheirQuestion`, `BusyIsCurrent`, `BusyEnds` | 268 thousand |
| `candidate` | `AcceptedIsRight`, `SelectedRootsOnly`, `InputComesBack`, `AliasesAreCaught`, `TimeIsBounded` | 1.8 million |
| `store_read` (violated) | `ReadsKeepSnapshots` | |
| `workflow_late` (violated) | `LateAnswersAreRefused` | |
| `engine_offers` (violated) | `OfferedRootsAreAccepted` | |

Each property has a mutant in `PROJECT.json`: a plausible mistake in the code, written
beside the definition it would replace as "A wrong ..." or "(mutant) ...", under which TLC finds the
property violated.

Bounds, and why they are enough:

* Store: two actors, since every race is between a cleaner or reader and a transaction
  or between two transactions; two or three sessions with room for one, so that one or
  two are over the limit and ties occur; `MaxTime` passes the TTL; `MaxTurns` lets a
  session be rewritten between two scans; `MaxLost` = 1 or 2 exceptions or crashes.
* File lock: two threads of one process and one of another are all the ways to share
  each level; two failures.
* Workflow: two roots, two contracts, and a budget of two steps, which is spent before,
  between or during any two steps.
* Engine: two turns reach the limit of turns (`MaxTurns` stands for ten), three runs are
  a question, its answer and a revision, and also a session that is recreated. Three
  sessions of an earlier version: one that asks after a revision, one whose order of turns
  is unknown, one with more turns than are allowed. Lists of one root and of both in
  either order.
* Backend: four threads are two callers of `close()` with two requests of any kind, of
  which one may wait for the model lock while the other looks for the model.
* Traces: two writers, three traces of two sessions with room for two, so that a session
  has a trace to lose and one to keep; the clock passes the TTL; every file of one trace
  may be spoilt; any call may be cut short.
* Page: three tasks, two sessions of up to three runs (a question, its answer and a
  revision), four requests begun or abandoned: two current ones with an abandoned one
  still out, and a retry.
* Candidate: programs of up to three statements and a `return`: a name for a part of the
  input, a second name or a new value for it in or out of a block, and a use of it. Depth
  4 and size 8 stand for 16 and 64 KiB and are both exceeded. Budgets of 4 seconds of
  its own and 1 or 4 around it, against caps of 1 and 2 and probes of 2, stand for 20, 180,
  5 and 2: several processes spend either budget, and a probe outlasts an outer budget that
  is nearly spent, the one overshoot that `TimeIsBounded` allows.
  Only programs of one statement meet processes that are slow or fail (`MaxTimed`), since
  what those do does not depend on the program. `pairs` has two orders of keys. Seven
  tasks: each shape, each selection of roots, an envelope, a context with a null, cases.

Symmetry is used between actors, threads and writers in safety runs; never with
liveness. `CHECK_DEADLOCK FALSE` is set where the model really stops: the store's clock
and turns and the page's tasks are bounded, and a workflow run or a validation ends.
`file_lock`, `engine`, `backend` and `traces` are checked for deadlock, which says that
slots, locks and conditions never block everybody.

Fairness: weak fairness of each thread's own steps, that is: threads are scheduled,
transaction bodies end because the workflow's deadline ends them, HTTP exchanges and
subprocesses have timeouts. Nothing is assumed about who wins a lock, so no run claims
that a given waiter gets it. No fairness is put on calls, crashes, time or damage. For the
page it is weak fairness of the steps of the current request: the server's budget ends its
work, the connection ends with the answer, an error or the abort, and callbacks run.

### Findings

* `store_read`: `read()` takes no lock because replacement is atomic (sessions.py:91-92),
  but a read of a spoilt file ends in `_quarantine_corrupt_file`, which moves whatever is
  at the path by then (storage.py:281-288, 309). In the run, a transaction has loaded the
  session when its file is spoilt; a reader finds the garbage, the transaction commits over
  it, and the reader then moves the committed session away.
* `workflow_late`: a first answer that arrives after the deadline is refused
  (roles.py:61), as the test `test_model_response_after_overall_deadline_is_not_accepted`
  says; a corrected answer is not checked (roles.py:67-69).
* `engine_offers`: the planner may answer with `source_choices` although the session has
  selected its roots; the engine keeps the question as a `source_root` question and
  offers both roots (engine.py:231-235, 273-275), and then refuses any but the stored
  choice (engine.py:403-407). docs/architecture.md:36 says that a continuation may
  consist of the choice alone.

## 4. What is proved

With TLAPS, for all values of the constants that satisfy the assumptions named in the
modules (`StoreAssumption`, `LockAssumption`, `WorkflowAssumption`, `TraceAssumption`,
`EngineAssumption`, `InheritedAssumption`, `BackendAssumption`, `UiAssumption`,
`CandidateAssumption`, `NamesAssumption`, `RootsAssumption`, `InputAssumption`). They say
that limits and durations are natural numbers, that the lists and processes given are lists
and processes, for `InheritedAssumption` what an earlier version left in a session, and for
the last three that the program is of the language, that the names the modules use are
names, and that what is given as a context is one (`Document`). TLC evaluates each of them
on the instances it checks.

Every invariant and every action property of the passing runs is a theorem. In each module
`IInv` (or the invariant named below) is inductive; TLC has checked it on the instance of
the run.

* `SessionStore_proofs`: `IInvCorrect`, and from it `TypeCorrect`, `LocksCorrect` and
  `StoreImplementsRegister`. The invariant `IInv` says what each actor knows at each
  point of its code. `LocksAreHeld` alone is inductive but refinement needs more: that a
  working copy is still what is on disk (`WorkIsCurrent`), that times are not in the
  future (`PastOnly`), that garbage comes from damage only (`GarbageIsDamage`), and that
  a file the cleaner has read is still there, can only have become more recent, and is
  unchanged once it is locked (`ScanIsSound`). The last is the reason for the second
  scan: with it, what is expired by the timestamps read is expendable in the present,
  because the sessions that were ahead of the victim are still ahead of it.

  `QuotaIsBounded` needs an account of what nobody has removed yet. `Debt`: the sessions
  stored, but for those whose transaction is still to commit, exceed the limit by at most
  the transactions that were lost plus the cleanups that are owed (`Owing`), one for each
  transaction that has replaced its file and not finished its cleanup. The debt is paid
  when a cleanup ends, which is right only if that cleanup was thorough
  (`CleanupIsThorough`): at each of its steps there is a set `D` of sessions that others
  answer for, no larger than the debt without the cleaner's own share, such that all that
  is stored outside `D` is still to be scanned, still to be visited, or within the limit
  (`Answers(D)`). A session the cleaner skips because it is locked, or does not see
  because it was committed behind the scan, goes to `D`, and so to the account of the
  transaction that was in the way.
* `FileLock_proofs`: `LevelsAreOwned` (each level is owned by exactly the thread in the
  code it guards) is inductive with `TypeOK` and gives `TypeCorrect`, `LockExcludes` and
  `RefusalsHaveReasons`.
* `Workflow_proofs`: `IInv` adds to the properties what each stage knows of the plan, the
  candidate, its validation and its review (`Phases`) and how many completions were asked
  before each stage (`CallsCounted`). From it `PublishedCodeIsVerified`,
  `PublishedSourcesAreChosen`, `VerdictsAreEarned`, `CallsAreBounded` (for any budget) and
  `TypeCorrect`.
* `TraceStore_proofs`: `IInv` says which of its three files each whole trace has at each
  point of the code (`FilesFollow`), that a trace has one writer and nothing of it exists
  before that writer has the lock (`WritersApart`), what a cleanup still has to delete
  (`DeletionsKnown`), and that what it has not condemned is within the limit
  (`SizeCounted`). `IndexesAgree` alone is not inductive, since it speaks of moments when
  the lock is free. From `IInv` follow `TypeCorrect`, `IndexesAlwaysAgree`,
  `LatestIsAlwaysCurrent` and `SizeIsBounded`. `RetentionIsAlwaysJust`, about the step
  that deletes a trace, rests on one more invariant, `DoomedRightly`: each trace condemned
  by a scan is too old, or outranked by enough traces that are not condemned, and stays so
  while the others are deleted one by one.
* `Engine_proofs`: `IInv` ties each thread's copy to the committed session. Under the
  lock a copy is the session itself, then the session with the request and no open
  question (`Ready`), then the session with the request and its run (`CopiesFollow`); the
  session agrees with the log (`Sound`) and every completed run is in it, expired or lost.
  The lemmas before it say what `Prepared` and `Recorded` do to a session, an inherited
  one included. From it `TypeCorrect`, `SessionAlwaysMatchesTrace`,
  `CodeIsAlwaysLastCompleted`, `RunsAreAlwaysKept`, and of the steps `ConversationsAreKept`
  and `QuestionsAreAlwaysAnswered`.
* `Backend_proofs`: `Places` (who stands where and holds what), `Counts` (permits and
  active requests are the sizes of two sets of threads, which stay finite) and
  `ClosingIsOrderly` (one caller closes; from the moment it has seen no request, none
  begins). They give `TypeCorrect` and `ClientAlwaysOutlivesRequests` for any number of
  threads and permits.
* `UiRequests_proofs`: what an action carries is about the task it was sent for whether
  it was abandoned or not (`ActionsAreSound`), the current one finds the page as it left
  it (`CurrentFits`), no two requests are to continue one session (`SessionsAreApart`),
  the question open in a session is one asked in it (`QuestionsAreOwn`), and a question
  stays open until the answer of the request that closes it reaches the page
  (`QuestionsAreOpen`). The third is the reason why an abandoned answer cannot close a
  question that is still shown. From it `TypeCorrect`, `PageIsAlwaysOfTask`,
  `BusyIsAlwaysCurrent`, `ShownQuestionIsAlwaysOpen` and `AnswersAlwaysMeetTheirQuestion`.
* `Candidate_proofs`, about the steps of a validation: `IInv` is `Typed`, `InTime` (how much
  of the limit may be spent at each check) and `ChecksAreEarned` (as long as every check
  passed, each one made stands for what it is about). What the policy finds in a chunk and
  what the sandbox makes of it stay opaque there; the proofs hold for any analyser and any
  sandbox. They give `AcceptedIsAlwaysRight` and `TimeIsAlwaysBounded`. `RunsAreReal` adds
  that nothing runs before the policy has let every chunk through and that each result is
  that of a run of the chunks on their own context (`RunsAreAlwaysReal`).

The other three properties of `Candidate` say what a program computes. With
`RunsAreAlwaysReal` they become statements about `Findings` and `Output`, for any sequence
of statements, any context, any order of a loop and any depth:

* `OnlySelectedRootsAlways`. `Sound(r)`: every value a run holds, in its locals, its
  tables and its last expression, is a scalar of its own, a table that exists, or a part of
  the input from outside the roots or under a root that is noted. Every operation leads
  from a sound state to a sound one that has forgotten no root and dropped no table
  (`Leads`: `IndexLeads`, `StoreLeads`, `TurnLeads`, ... up to `ExecuteLeads`). What the
  result tells is then from the noted roots also when writing it reads more
  (`JsonTells`), and the validator compares those roots with the selected ones.
* `AliasesAreAlwaysCaught`. `Agrees(scopes, env)`: the scopes of the policy and of the run
  declare the same names, a local that holds a part of the input is flagged, and none
  holds a library (`OfLibrary`). With the chunk's own tables free of both (`Clean`), a
  statement without a finding keeps all of it (`Kept`), and each write goes to a table of
  the chunk's own. Outside of `Followed` the invariant is false: a loop, a function or a
  table can bind a part of the input that the policy does not know for one, a block that is
  not run clears a flag all the same, and `local a = table` binds a library, which the
  policy never flags, under a name that may be written to (and `table.insert(table, 0)`
  names one directly); there it is the proxies that refuse the write.
* `InputAlwaysComesBack`. No statement that the policy lets through hides `wf` (`Free`) and
  none changes the input (part of `Leads`), so the last expression leads where the context
  says (`OnTheWay`); level by level, what the runner writes of a part of the input is that
  part (`Back`, `JsonBack`), and the shape of the contract does not touch a table that the
  input marks.

These are inductions over recursively defined functions, of which the prover has no rule
for lack of operator parameters. They are done with sets instead: `Counting` says that a
set of numbers with 0 and the successor of each member holds all of them, the statement to
be proved is put into such a set, and each recursive function gets a lemma that it exists
and what it is at 0 and at `n + 1` (`AnalysisUnfolds`,
`WalkUnfolds`, `TurnsUnfold`, `RunUnfolds`, `JsonUnfolds`).

Only model-checked: the liveness properties (`LocksAreReleased`, `SomebodyProceeds`,
`Termination`, `CloseReturns`, `BusyEnds`), which the prover cannot do, and with them all
that rests on `ENABLED`.

## 5. Not modelled, and the plan

Not modelled, and why: the operating-system limits of the Lua process (`worker.py`, the
memory monitor of macOS), of which only the outcomes matter here; string escaping and
number formatting; HTTP and JSON rendering, prompts and settings; the context inspector
and the comparison of model tags and digests, pure functions without state whose results
are inputs of `Workflow` and `Backend`; evaluation, benchmarks and release gates, which
compute reports from finished runs one after the other; the command line's parsing.

What would come next is `WorkflowContract`, an abstract specification of one run (received,
then one result of an allowed shape), with `Workflow` shown to implement it and
`Engine.Results` taken from it; today that the two agree is read off `Results`.
