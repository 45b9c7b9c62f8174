------------------------------ MODULE Workflow ------------------------------
(***************************************************************************)
(* One run of WorkflowCoordinator (src/app/workflow/coordinator.py): the   *)
(* planner, the generator, the deterministic validator and the reviewer,   *)
(* with one replan, one code revision, one schema correction per model     *)
(* answer (roles.py) and the request-local time budget (budgets.py).       *)
(*                                                                         *)
(* The model, the HTTP client and the clock are the environment: an answer *)
(* is any value of its schema or an invalid one, a call may fail in every  *)
(* way the backend names, and the budget may run out between two steps.    *)
(* A candidate is 1 (first) or 2 (revised), 0 standing for none.           *)
(***************************************************************************)
EXTENDS Naturals

CONSTANTS
    Roots,      \* the workflow data roots (WorkflowRoot)
    Outputs,    \* the output contracts a caller or a plan may name
    Unset,      \* None: an argument, an artefact or an answer not there
    Budget      \* the time budget, in steps of the clock (bound)

VARIABLES
    req,         \* the arguments of run()
    stage,       \* the stage announced last through observe()
    call,        \* where StructuredModelClient.request stands
    left,        \* what is left of the budget
    calls,       \* completions asked from the backend so far
    plan,        \* the TaskPlan in hand
    candidate,   \* the CodeCandidate in hand
    validation,  \* its ValidationResult
    review,      \* its ReviewDecision
    result       \* the WorkflowResult, Unset while run() works

vars == <<req, stage, call, left, calls, plan, candidate, validation, review,
          result>>
artefacts == <<plan, candidate, validation, review>>

Requests == [context : {"none", "object", "invalid"},
             overlap : BOOLEAN,
             output  : Outputs \cup {Unset},
             roots   : {Unset} \cup (SUBSET Roots \ {{}})]

\* What _validate_plan looks at; cases says whether the acceptance cases have
\* distinct names and expected values of the declared shape.
Plans == [output : Outputs, inputs : SUBSET Roots, cases : BOOLEAN]

Validations == [of : 1 .. 2, ok : BOOLEAN, policy : BOOLEAN, reads : SUBSET Roots]
Reviews     == [of : 1 .. 2, approved : BOOLEAN]

Work   == {"received", "planning", "generating", "validating", "reviewing", "revising"}
Stages == Work \cup {"completed", "failed", "clarification_required"}
Roles  == {"planning", "generating", "reviewing", "revising"}

Statuses == {"completed", "clarification_required", "validation_failed",
             "policy_rejected", "backend_unavailable", "raised"}
Reasons  == {"done", "question", "refused", "plan", "checks", "review", "context",
             "protocol", "backend"}
Results  == [status : Statuses, reason : Reasons, code : 0 .. 2, checked : 0 .. 2,
             revisions : 0 .. 1]

ASSUME WorkflowAssumption ==
    /\ Budget \in Nat \ {0}
    /\ Unset \notin Outputs \cup Plans \cup Validations \cup Reviews \cup Results
    /\ \A S \in SUBSET Roots : S # Unset

TypeOK ==
    /\ req \in Requests
    /\ stage \in Stages
    /\ call \in {"idle", "first", "second"}
    /\ left \in 0 .. Budget
    /\ calls \in Nat
    /\ plan \in Plans \cup {Unset}
    /\ candidate \in 0 .. 2
    /\ validation \in Validations \cup {Unset}
    /\ review \in Reviews \cup {Unset}
    /\ result \in Results \cup {Unset}

Init ==
    /\ req \in Requests
    /\ stage = "received"
    /\ call = "idle"
    /\ left = Budget
    /\ calls = 0
    /\ candidate = 0
    /\ plan = Unset /\ validation = Unset /\ review = Unset
    /\ result = Unset

-----------------------------------------------------------------------------
Running == result = Unset

\* A result that carries neither code nor a validation of code.
Outcome(status, reason) ==
    [status |-> status, reason |-> reason, code |-> 0, checked |-> 0, revisions |-> 0]

\* _failure, and a last rejection by the reviewer: the findings are published,
\* the code they are about is not.
Rejected(status, reason, v) ==
    [status |-> status, reason |-> reason, code |-> 0, checked |-> v.of, revisions |-> 1]
RejectedBy(v) == IF v.policy THEN "policy_rejected" ELSE "validation_failed"

\* The code goes out with the validation and the plan's output contract.
Published ==
    [status |-> "completed", reason |-> "done", code |-> candidate,
     checked |-> validation.of, revisions |-> candidate - 1]

\* run() announces s and returns r.
Finish(s, r) == stage' = s /\ result' = r

\* _validate_plan: the plan keeps the caller's output contract, reads only the
\* selected roots, and does not contradict itself.
PlanOk(p) ==
    /\ req.output # Unset => p.output = req.output
    /\ req.roots # Unset => p.inputs \subseteq req.roots
    /\ p.cases

\* A wrong SourceUnclear: code that reads both roots passes for a choice of both.
UnclearUnlessAllRead(v) ==
    req.roots = Unset /\ req.overlap /\ v.reads # {} /\ v.reads # Roots

\* _source_clarification_required: paths exist under both roots, nobody chose
\* between them, and the code read one on the request's own data.
SourceUnclear(v) == req.roots = Unset /\ req.overlap /\ v.reads # {}

\* What DeterministicCandidateValidator.validate may return for the candidate:
\* a policy finding ends the check before the code runs, and code that read a
\* root the caller did not select never passes.
Outcomes ==
    {v \in Validations : /\ v.of = candidate
                         /\ v.policy => ~v.ok /\ v.reads = {}
                         /\ v.ok /\ req.roots # Unset => v.reads \subseteq req.roots}

-----------------------------------------------------------------------------
\* run() looks at the context and starts planning, or ends at once.
Receive ==
    /\ Running /\ stage = "received"
    /\ \/ req.context = "object" /\ stage' = "planning" /\ UNCHANGED result
       \/ req.context = "none"
          /\ Finish("clarification_required", Outcome("clarification_required", "question"))
       \/ req.context = "invalid" /\ Finish("failed", Outcome("validation_failed", "context"))
    /\ UNCHANGED <<req, call, left, calls, artefacts>>

\* A wrong Ask: a spent budget keeps the role waiting instead of ending the run.
AskWaits ==
    /\ Running /\ stage \in Roles /\ call = "idle" /\ left > 0
    /\ \/ call' = "first" /\ calls' = calls + 1 /\ UNCHANGED <<stage, result>>
       \/ Finish("failed", Outcome("validation_failed", "protocol"))
          /\ UNCHANGED <<call, calls>>
    /\ UNCHANGED <<req, left, artefacts>>

\* A role asks the model: nothing is sent once the budget is spent, nor when
\* the prompt is longer than 24000 characters.
Ask ==
    /\ Running /\ stage \in Roles /\ call = "idle"
    /\ \/ left > 0 /\ call' = "first" /\ calls' = calls + 1 /\ UNCHANGED <<stage, result>>
       \/ left > 0 /\ Finish("failed", Outcome("validation_failed", "protocol"))
          /\ UNCHANGED <<call, calls>>
       \/ left = 0 /\ Finish("failed", Outcome("raised", "backend")) /\ UNCHANGED <<call, calls>>
    /\ UNCHANGED <<req, left, artefacts>>

\* The backend, or a budget check around it, raises instead of answering: busy,
\* timeout and model errors leave run(), the others become its result.
BackendFails ==
    /\ Running /\ call # "idle"
    /\ \E r \in {Outcome("raised", "backend"), Outcome("backend_unavailable", "backend"),
                 Outcome("validation_failed", "protocol")} : Finish("failed", r)
    /\ call' = "idle"
    /\ UNCHANGED <<req, left, calls, artefacts>>

\* The answer is not of the schema: the model is asked once more, then never.
Invalid ==
    /\ Running
    /\ \/ call = "first" /\ left > 0 /\ call' = "second" /\ calls' = calls + 1
          /\ UNCHANGED <<stage, result>>
       \/ call = "second" /\ call' = "idle" /\ UNCHANGED calls
          /\ Finish("failed", Outcome("validation_failed", "protocol"))
    /\ UNCHANGED <<req, left, artefacts>>

\* request() returns a valid answer to the role that asked. The budget is
\* looked at after the first answer, not after the corrected one.
Answered(s) ==
    /\ Running /\ stage = s
    /\ call = "second" \/ (call = "first" /\ left > 0)
    /\ call' = "idle"

\* The planner asks the user; after a rejected plan that is no answer any more.
PlannerAsks ==
    /\ Answered("planning")
    /\ IF plan = Unset
       THEN Finish("clarification_required", Outcome("clarification_required", "question"))
       ELSE Finish(stage, Outcome("validation_failed", "plan"))
    /\ UNCHANGED <<req, left, calls, artefacts>>

PlannerRefuses ==
    /\ Answered("planning")
    /\ Finish("failed", Outcome("policy_rejected", "refused"))
    /\ UNCHANGED <<req, left, calls, artefacts>>

\* A wrong PlannerPlans: the planner is asked again however often its plan is rejected.
PlannerPlansForever(p) ==
    /\ Answered("planning")
    /\ plan' = p
    /\ stage' = IF PlanOk(p) THEN "generating" ELSE "planning"
    /\ UNCHANGED <<req, left, calls, candidate, validation, review, result>>

\* The planner plans: a plan that breaks a requirement is planned once more.
PlannerPlans(p) ==
    /\ Answered("planning")
    /\ plan' = p
    /\ \/ PlanOk(p) /\ stage' = "generating" /\ UNCHANGED result
       \/ ~PlanOk(p) /\ plan = Unset /\ stage' = "planning" /\ UNCHANGED result
       \/ ~PlanOk(p) /\ plan # Unset /\ Finish(stage, Outcome("validation_failed", "plan"))
    /\ UNCHANGED <<req, left, calls, candidate, validation, review>>

\* The generator writes the first candidate, or revises it with the findings.
Generate ==
    /\ Answered("generating")
    /\ candidate' = 1 /\ stage' = "validating"
    /\ UNCHANGED <<req, left, calls, plan, validation, review, result>>

\* A wrong Revise: the revised code goes to the reviewer with the old validation.
ReviseUnchecked ==
    /\ Answered("revising")
    /\ candidate' = 2 /\ stage' = "reviewing" /\ review' = Unset
    /\ UNCHANGED <<req, left, calls, plan, validation, result>>

Revise ==
    /\ Answered("revising")
    /\ candidate' = 2 /\ stage' = "validating"
    /\ validation' = Unset /\ review' = Unset
    /\ UNCHANGED <<req, left, calls, plan, result>>

\* The validator runs over its 20 seconds or the rest of the budget.
ValidationTimesOut ==
    /\ Running /\ stage = "validating"
    /\ Finish("failed", Outcome("raised", "backend"))
    /\ UNCHANGED <<req, call, left, calls, artefacts>>

\* A wrong Validate: a candidate that fails its checks is rejected at once.
ValidateOnce ==
    /\ Running /\ stage = "validating"
    /\ \E v \in Outcomes :
        /\ validation' = v
        /\ \/ /\ SourceUnclear(v)
              /\ Finish("clarification_required", Outcome("clarification_required", "question"))
           \/ ~SourceUnclear(v) /\ v.ok /\ stage' = "reviewing" /\ UNCHANGED result
           \/ ~SourceUnclear(v) /\ ~v.ok /\ Finish(stage, Rejected(RejectedBy(v), "checks", v))
    /\ UNCHANGED <<req, call, left, calls, plan, candidate, review>>

\* The candidate is validated: an unclear source is asked about, a failure is
\* revised once, a success is reviewed.
Validate ==
    /\ Running /\ stage = "validating"
    /\ \E v \in Outcomes :
        /\ validation' = v
        /\ \/ /\ SourceUnclear(v)
              /\ Finish("clarification_required", Outcome("clarification_required", "question"))
           \/ ~SourceUnclear(v) /\ v.ok /\ stage' = "reviewing" /\ UNCHANGED result
           \/ ~SourceUnclear(v) /\ ~v.ok /\ candidate = 1 /\ stage' = "revising"
              /\ UNCHANGED result
           \/ ~SourceUnclear(v) /\ ~v.ok /\ candidate = 2 /\ Finish(stage, Rejected(RejectedBy(v), "checks", v))
    /\ UNCHANGED <<req, call, left, calls, plan, candidate, review>>

\* A wrong ReviewerDecides: the result counts candidates, not revisions.
ReviewerMiscounts ==
    /\ Answered("reviewing")
    /\ review' = [of |-> candidate, approved |-> TRUE]
    /\ Finish("completed", [Published EXCEPT !.revisions = candidate])
    /\ UNCHANGED <<req, left, calls, plan, candidate, validation>>

\* The reviewer decides on the candidate and its validation.
ReviewerDecides ==
    /\ Answered("reviewing")
    /\ \E ok \in BOOLEAN :
        /\ review' = [of |-> candidate, approved |-> ok]
        /\ \/ ok /\ Finish("completed", Published)
           \/ ~ok /\ candidate = 1 /\ stage' = "revising" /\ UNCHANGED result
           \/ ~ok /\ candidate = 2
              /\ Finish("failed", Rejected("validation_failed", "review", validation))
    /\ UNCHANGED <<req, left, calls, plan, candidate, validation>>

\* Time passes.
Elapse ==
    /\ Running /\ left > 0
    /\ left' = left - 1
    /\ UNCHANGED <<req, stage, call, calls, artefacts, result>>

Step ==
    \/ Receive \/ Ask \/ BackendFails \/ Invalid
    \/ PlannerAsks \/ PlannerRefuses \/ \E p \in Plans : PlannerPlans(p)
    \/ Generate \/ Revise \/ ValidationTimesOut \/ Validate \/ ReviewerDecides

Next == Step \/ Elapse

Spec == Init /\ [][Next]_vars

\* Every HTTP call and every subprocess has a timeout of its own, so the thread
\* that runs the coordinator never waits for ever.
FairSpec == Spec /\ WF_vars(Step)
-----------------------------------------------------------------------------
(* Properties.                                                             *)

\* Code leaves the workflow only in a completed result, and it is the very
\* candidate that the last validation passed and the reviewer then approved,
\* made from a plan that keeps the caller's requirements (coordinator.py: the
\* two COMPLETED results; WorkflowResult.validate_public_shape).
PublishedIsVerified ==
    Running \/
    /\ (result.status = "completed") <=> (result.code # 0)
    /\ result.code # 0 =>
          /\ result.code = candidate /\ result.checked = candidate
          /\ result.revisions = candidate - 1
          /\ PlanOk(plan)
          /\ validation # Unset /\ validation.of = candidate /\ validation.ok
          /\ review # Unset /\ review.of = candidate /\ review.approved

\* Published code read, on the request's own data, only roots the caller
\* selected, and none at all while the caller has still to choose between
\* roots that hold the same paths (_source_clarification_required, run after
\* the first validation and again after the revised one).
SourcesAreChosen ==
    ~Running /\ result.code # 0 =>
        /\ req.roots # Unset => validation.reads \subseteq req.roots
        /\ req.roots = Unset /\ req.overlap => validation.reads = {}

\* Nothing is given up without reason or before its second chance: a rejected
\* plan was the second one, a rejected candidate is the revised one and a check
\* or the reviewer objected to it, a candidate is revised only after an
\* objection to it, and only the planner or the AST policy rejects by policy.
VerdictIsEarned ==
    /\ Running /\ stage = "revising" =>
          /\ candidate = 1 /\ validation # Unset /\ validation.of = 1
          /\ validation.ok => review # Unset /\ review.of = 1 /\ ~review.approved
    /\ ~Running /\ result.reason \in {"checks", "review"} =>
          /\ candidate = 2 /\ result.checked = 2 /\ result.revisions = 1
          /\ validation.ok => ~review.approved
    /\ ~Running /\ result.reason = "plan" => candidate = 0 /\ plan # Unset
    /\ ~Running /\ result.status = "policy_rejected" =>
          \/ result.reason = "refused" /\ candidate = 0
          \/ result.reason = "checks" /\ validation.policy

\* One run asks the model at most twelve times: six role answers (two plans,
\* two candidates, two reviews) with one schema correction each.
ModelCallsBounded == calls <= 12

\* Every run ends with a result or an exception, also when the budget is spent.
Termination == <>(~Running)

\* A model answer that arrives after the overall deadline is not accepted
\* (tests/test_request_budgets.py:8). The first answer is held against the
\* budget, the corrected one is not (roles.py:61 and 67-69).
LateAnswersAreRefused ==
    [][plan' # plan \/ candidate' # candidate \/ (result' # Unset /\ result'.code # 0)
         => left > 0]_vars

-----------------------------------------------------------------------------
(* The inductive invariant: what each stage knows of the artefacts.        *)

Phases ==
    /\ Running => stage \in Work
    /\ Running /\ stage \notin Roles => call = "idle"
    /\ Running /\ stage \in {"received", "planning", "generating"} =>
          candidate = 0 /\ validation = Unset /\ review = Unset
    /\ Running /\ stage = "received" => plan = Unset
    /\ Running /\ stage \notin {"received", "planning"} => plan # Unset /\ PlanOk(plan)
    /\ Running /\ stage \in {"validating", "reviewing", "revising"} => candidate # 0
    /\ Running /\ stage = "validating" => validation = Unset /\ review = Unset
    /\ Running /\ stage = "reviewing" =>
          /\ validation # Unset /\ validation.of = candidate /\ validation.ok
          /\ ~SourceUnclear(validation)
          /\ req.roots # Unset => validation.reads \subseteq req.roots
          /\ review = Unset

\* Completions asked: two at most for each of the n answers before the stage
\* that runs, and those asked within it.
CallsBefore(n) ==
    calls <= 2 * n + (IF call = "idle" THEN 0 ELSE IF call = "first" THEN 1 ELSE 2)

CallsCounted ==
    /\ calls <= 12
    /\ Running /\ stage = "received" => calls = 0
    /\ Running /\ stage = "planning" => CallsBefore(IF plan = Unset THEN 0 ELSE 1)
    /\ Running /\ stage = "generating" => CallsBefore(2)
    /\ Running /\ stage \in {"validating", "reviewing"} =>
          CallsBefore(IF candidate = 1 THEN 3 ELSE 5)
    /\ Running /\ stage = "revising" => CallsBefore(4)

IInv ==
    /\ TypeOK /\ Phases /\ CallsCounted
    /\ PublishedIsVerified /\ SourcesAreChosen /\ VerdictIsEarned
=============================================================================
