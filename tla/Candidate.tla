----------------------------- MODULE Candidate -----------------------------
(***************************************************************************)
(* app/workflow/validation.py: validate() takes the code the model wrote   *)
(* through the output contract, the policy (LuaPolicy), luac, a run on the *)
(* request (LuaSandbox) and a run per acceptance case, the caller's before *)
(* the model's.  Each process it starts may be slow, fail or be missing;   *)
(* every one is held to what is left of the validation's budget and of the *)
(* budget around it.  Workflow uses its verdict alone.                     *)
(*                                                                         *)
(* A task is what the request and the plan fix:                            *)
(*   [envelope, shape, nullable, roots, context, cases, companion]         *)
(* where roots are the selected ones (all of them when none is selected),  *)
(* cases a sequence of [context, expected] and companion the second chunk  *)
(* of an envelope, whose first is the program.                             *)
(***************************************************************************)
EXTENDS LuaSandbox, Integers

CONSTANTS
  Statements,       \* what the model may write
  Tasks,
  Orders,           \* the orders in which pairs may visit keys
  Budget,           \* the seconds of one validation, 20 in the code
  LuacCap,          \* the seconds of one luac, 5 in the code
  RunCap,           \* the seconds of one run of a chunk, 5 in the code
  Probe,            \* the seconds of the probes for the versions of Lua and luac, 2 each in the code
  Outer,            \* what may be left of the budget around the validation
  MaxStatements,    \* bound on the statements before the last
  MaxTimed          \* bound on the statements of programs that may be slow or fail outside

ASSUME CandidateAssumption ==
  /\ {Budget, LuacCap, RunCap, Probe, MaxStatements, MaxTimed, MaxDepth, MaxSize} \subseteq Nat \ {0}
  /\ Outer \subseteq Nat \ {0}
  /\ \A t \in Tasks : Len(t.cases) \in Nat /\ DOMAIN t.cases = 1..Len(t.cases)

\* What the model writes, and what an envelope holds behind it, are statements of the language; what
\* they run on is JSON.
ASSUME InputAssumption ==
  /\ Statements \subseteq Statement /\ Orders \subseteq Seq(Names)
  /\ \A t \in Tasks : /\ t.companion \in Seq(Statement) /\ Document(t.context)
                      /\ \A c \in Range(t.cases) : Document(c.context)

VARIABLES
  program,          \* the model's chunk
  task,
  outer,            \* what was left of the outer budget when the validation began
  clock,            \* seconds since then
  stage,            \* the check that comes next
  checks,           \* the checks made
  results           \* what the runs returned, the request's first

vars == <<program, task, outer, clock, stage, checks, results>>

Init ==
  /\ program = <<>> /\ task = <<>> /\ outer = 0 /\ clock = 0
  /\ stage = "writing" /\ checks = <<>> /\ results = <<>>

\* The model writes the candidate, a statement at a time.  What the policy refuses already is not
\* written on: a finding is never taken back.
Write(s) ==
  /\ stage = "writing"
  /\ Findings(program) = {}
  /\ s.do # "return" => Len(program) < MaxStatements
  /\ program # <<>> => Last(program).do # "return"
  /\ program' = Append(program, s)
  /\ UNCHANGED <<task, outer, clock, stage, checks, results>>

Submit(t, o) ==
  /\ stage = "writing"
  /\ Len(program) > MaxTimed => o = Budget
  /\ task' = t /\ outer' = o /\ stage' = "format"
  /\ UNCHANGED <<program, clock, checks, results>>

Chunks == IF task.envelope THEN <<program, task.companion>> ELSE <<program>>

Timed == Len(program) <= MaxTimed

\* (mutant) the budget around the validation is forgotten.
RemainingOfOwn(cap) == Min({cap, Budget - clock})

\* remaining_seconds(): the validation's budget lies within the one around it.
Remaining(cap) == Min({cap, Min({Budget, outer}) - clock})

Exhausted == Remaining(Budget) <= 0

\* What n processes with the same cap may take together.
Durations(n, cap) == IF Timed THEN 0..Remaining(n * cap) ELSE {0}

Passed == [status |-> "passed", code |-> ""]
Failed(code) == [status |-> "failed", code |-> code]

Pass(next) ==
  /\ checks' = Append(checks, Passed)
  /\ stage' = next

\* A check that fails ends the validation; see Case for the one exception.
Fail(code) ==
  /\ checks' = Append(checks, Failed(code))
  /\ stage' = "done"

Checked(code, next) == IF code = "" THEN Pass(next) ELSE Fail(code)

\* parse_output(): the text is no chunk, or no object of wrapped chunks.
FormatErrors ==
  IF ~Timed THEN {}
  ELSE IF task.envelope THEN {"json_envelope_invalid", "json_envelope_wrapper_invalid"}
  ELSE {"lua_block_wrapper_forbidden"}

ValidateFormat ==
  /\ stage = "format"
  /\ IF program = <<>> THEN Fail("lua_chunk_empty")
     ELSE \E code \in {""} \cup FormatErrors : Checked(code, "policy")
  /\ UNCHANGED <<program, task, outer, clock, results>>

\* Every finding becomes a failed check, here one of them.
AnalyzePolicy ==
  /\ stage = "policy"
  /\ LET findings == UNION {Findings(Chunks[i]) : i \in DOMAIN Chunks}
     IN \/ findings = {} /\ Pass("luac")
        \/ \E code \in findings : Fail(code)
        \/ findings = {} /\ Timed /\ Fail("policy_internal_error")
  /\ UNCHANGED <<program, task, outer, clock, results>>

\* _default_luac_locator(): the versions are asked for once, outside of the budget; a probe that
\* fails, or a version that differs, leaves no luac.
LocateLuac ==
  /\ stage = "luac"
  /\ \E d \in IF Timed THEN 0..Probe ELSE {0} : clock' = clock + d
  /\ \/ stage' = "compile" /\ UNCHANGED checks
     \/ Timed /\ Fail("luac_runtime_missing")
  /\ UNCHANGED <<program, task, outer, results>>

\* luac runs once per chunk.
LuacCodes(d) ==
  (IF d < Remaining(Len(Chunks) * LuacCap) THEN {""} ELSE {}) \cup
  (IF Timed /\ d >= Remaining(LuacCap) THEN {"luac_timeout"} ELSE {}) \cup
  (IF Timed THEN {"luac_execution_failed", "lua_syntax_error"} ELSE {})

CompileChunks ==
  /\ stage = "compile" /\ ~Exhausted
  /\ \E d \in Durations(Len(Chunks), LuacCap) : \E code \in LuacCodes(d) :
       /\ clock' = clock + d
       /\ Checked(code, "request")
  /\ UNCHANGED <<program, task, outer, results>>

\* A run that took d: its own end, the end of its time, or a failure of what runs it.
Executions(context, d) ==
  (IF d < Remaining(Len(Chunks) * RunCap)
   THEN {Output(Chunks, task.envelope, context, task.shape, order) : order \in Orders} ELSE {}) \cup
  (IF Timed /\ d >= Remaining(RunCap) THEN {Result("lua_runtime_timeout", <<>>, {})} ELSE {}) \cup
  (IF Timed THEN {Result(code, <<>>, {}) : code \in {"lua_runtime_missing", "lua_process_failed",
                                                    "sandbox_internal_error"}} ELSE {})

ShapeError(doc) ==
  LET is == doc[<<>>]
  IN IF is = "null" THEN ~task.nullable
     ELSE IF task.shape \in {"array", "object"} THEN is # task.shape
     ELSE is \in {"array", "object"}

\* What is wrong with a run, before its value is compared.
RunError(x) ==
  IF x.code # "" THEN x.code
  ELSE IF ~(x.reads \subseteq task.roots) THEN "source_root_not_selected"
  ELSE IF ShapeError(x.doc) THEN "output_shape_mismatch"
  ELSE ""

Request ==
  /\ stage = "request" /\ ~Exhausted
  /\ \E d \in Durations(Len(Chunks), RunCap) : \E x \in Executions(task.context, d) :
       /\ clock' = clock + d
       /\ results' = Append(results, x)
       /\ Checked(RunError(x), "cases")
  /\ UNCHANGED <<program, task, outer>>

CaseCheck(x, expected) ==
  IF RunError(x) # "" THEN Failed(RunError(x))
  ELSE IF x.doc # expected THEN Failed("acceptance_result_mismatch")
  ELSE Passed

\* (mutant) a case whose run failed leaves no check behind.
CaseUnnoted ==
  LET i == Len(results)
  IN /\ stage = "cases" /\ i <= Len(task.cases) /\ ~Exhausted
     /\ \E d \in Durations(Len(Chunks), RunCap) : \E x \in Executions(task.cases[i].context, d) :
          /\ clock' = clock + d
          /\ results' = Append(results, x)
          /\ checks' = IF RunError(x) # "" THEN checks
                       ELSE Append(checks, CaseCheck(x, task.cases[i].expected))
     /\ UNCHANGED <<program, task, outer, stage>>

\* The next case; a failed one is noted and the others still run.
Case ==
  LET i == Len(results)
  IN /\ stage = "cases" /\ i <= Len(task.cases) /\ ~Exhausted
     /\ \E d \in Durations(Len(Chunks), RunCap) : \E x \in Executions(task.cases[i].context, d) :
          /\ clock' = clock + d
          /\ results' = Append(results, x)
          /\ checks' = Append(checks, CaseCheck(x, task.cases[i].expected))
     /\ UNCHANGED <<program, task, outer, stage>>

Conclude ==
  /\ stage = "cases" /\ Len(results) > Len(task.cases)
  /\ stage' = "done"
  /\ UNCHANGED <<program, task, outer, clock, checks, results>>

\* BackendTimeout: nothing is started once the time is spent, be it by the chunks before the last of
\* an envelope, and there is no verdict.  (A request whose context cannot be written in Lua fails
\* before the time is looked at; left out.)
Raise ==
  /\ \/ stage \in {"compile", "request"}
     \/ stage = "cases" /\ Len(results) <= Len(task.cases)
  /\ LET first == (Len(Chunks) - 1) * IF stage = "compile" THEN LuacCap ELSE RunCap
     IN \/ Exhausted /\ UNCHANGED clock
        \/ Timed /\ Remaining(Budget) \in 1..first /\ clock' = clock + Remaining(Budget)
  /\ stage' = "raised"
  /\ UNCHANGED <<program, task, outer, checks, results>>

Step ==
  \/ \E s \in Statements : Write(s)
  \/ \E t \in Tasks, o \in Outer : Submit(t, o)
  \/ ValidateFormat \/ AnalyzePolicy \/ LocateLuac \/ CompileChunks \/ Request \/ Case \/ Conclude \/ Raise

Spec == Init /\ [][Step]_vars
-----------------------------------------------------------------------------
(* Properties. *)

\* ValidationResult.ok
AllPassed == \A i \in DOMAIN checks : checks[i].status = "passed"
Accepted  == stage = "done" /\ AllPassed

Context(i) == IF i = 1 THEN task.context ELSE task.cases[i - 1].context

\* An accepted candidate breaks no rule of the policy, and on the request and on every case of the
\* caller and of the model it returns a value of the contract's shape, on a case the expected one:
\* no check, no case and no early return is lost on the way to the verdict.
AcceptedIsRight ==
  Accepted =>
    /\ \A i \in DOMAIN Chunks : Findings(Chunks[i]) = {}
    /\ \E order \in Orders :
         LET x == Output(Chunks, task.envelope, task.context, task.shape, order)
         IN x.code = "" /\ ~ShapeError(x.doc)
    /\ \A c \in Range(task.cases) : \E order \in Orders :
         LET x == Output(Chunks, task.envelope, c.context, task.shape, order)
         IN x.code = "" /\ ~ShapeError(x.doc) /\ x.doc = c.expected

\* What an accepted candidate returns, it made itself or found outside of the roots that are not
\* selected, however a value got there: through a local, a loop over wf, a table, or the writing of
\* the result.
SelectedRootsOnly ==
  Accepted =>
    \A i \in DOMAIN results : \A x \in Range(results[i].doc) \ {"object", "array", "null", "0"} :
      \E p \in DOMAIN Context(i) :
        Context(i)[p] = x /\ (p # <<>> /\ p[1] \in Roots => p[1] \in task.roots)

\* What the input holds is what an expression over wf returns at the end, whatever the candidate did
\* to it before, and as it was: empty arrays and empty objects are told apart under every contract.
InputComesBack ==
  \A i \in DOMAIN results :
    LET path == Tail(Last(program).exp.path)
        c    == RawWf(Context(i))
    IN /\ results[i].code = "" /\ ~task.envelope
       /\ Last(program).do = "return" /\ Last(program).exp.op = "read"
       /\ Last(program).exp.path[1] = "wf" /\ path \in DOMAIN Context(i)
       => results[i].doc = [q \in {SubSeq(p, Len(path) + 1, Len(p)) :
                                   p \in {p \in DOMAIN c : IsPrefix(path, p)}} |->
                              IF c[path \o q] = "table" THEN "object" ELSE c[path \o q]]

Libraries == AllowedGlobals \ {"wf"}

\* Statements whose aliases the policy can follow.  It follows no library: a local bound to table or
\* _utils is not flagged, and the proxy behind it refuses a write with the message of the input's.
Followed(s) ==
  /\ s.in \in {"plain", "taken"}
  /\ s.exp.op \in {"read", "zero", "empty"}
  /\ s.exp.op = "read" => s.exp.path[1] \notin Libraries
  /\ s.do = "insert" => s.at[1] \notin Libraries
  /\ s.do = "assign" /\ Len(s.at) > 1 => s.exp.op # "read"

\* Where the policy can follow every alias, what it lets through never runs into the read-only proxies:
\* the flags of its scopes agree with the values of the run.
AliasesAreCaught ==
  \A i \in DOMAIN results :
    (\A c \in DOMAIN Chunks : \A j \in DOMAIN Chunks[c] : Followed(Chunks[c][j])) =>
      results[i].code # "workflow input is read-only"

\* Through all its processes a validation takes no longer than its own budget, nor than what was left
\* of the one around it, but for the probes; and it reaches no verdict on a run after that time.
TimeIsBounded ==
  stage # "writing" => /\ clock <= Min({Budget, outer}) + Probe
                       /\ results # <<>> => clock <= Min({Budget, outer})
=============================================================================
