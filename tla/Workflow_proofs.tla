--------------------------- MODULE Workflow_proofs ---------------------------
(***************************************************************************)
(* What a run of the workflow guarantees for any roots, output contracts   *)
(* and time budget.                                                        *)
(***************************************************************************)
EXTENDS Workflow, TLAPS

\* What the result says of the candidate.
Verdicts == PublishedIsVerified /\ SourcesAreChosen /\ VerdictIsEarned

\* The results run() builds are of the result type, hence not Unset.
LEMMA ResultTypes ==
  /\ \A s \in Statuses, r \in Reasons : Outcome(s, r) \in Results
  /\ \A s \in Statuses, r \in Reasons, v \in Validations : Rejected(s, r, v) \in Results
  /\ \A v \in Validations : RejectedBy(v) \in Statuses
  /\ Unset \notin Results
<1>1. \A s \in Statuses, r \in Reasons : Outcome(s, r) \in Results
  BY DEF Outcome, Results
<1>2. \A s \in Statuses, r \in Reasons, v \in Validations : Rejected(s, r, v) \in Results
  BY DEF Rejected, Results, Validations
<1>3. \A v \in Validations : RejectedBy(v) \in Statuses
  BY DEF RejectedBy, Statuses
<1> QED
  BY <1>1, <1>2, <1>3, WorkflowAssumption

\* Every step keeps the types.
LEMMA TypeStep == TypeOK /\ Phases /\ [Next]_vars => TypeOK'
<1> SUFFICES ASSUME TypeOK /\ Phases, [Next]_vars PROVE TypeOK'
  OBVIOUS
<1> USE WorkflowAssumption DEF TypeOK, Running, Finish, Statuses, Reasons, Stages, Work,
             Roles, artefacts
<1>1. CASE Receive
  BY ResultTypes, <1>1 DEF Receive
<1>2. CASE Ask
  BY ResultTypes, <1>2 DEF Ask, Phases
<1>3. CASE BackendFails
  BY ResultTypes, <1>3 DEF BackendFails, Phases
<1>4. CASE Invalid
  BY ResultTypes, <1>4 DEF Invalid, Phases
<1>5. CASE PlannerAsks
  BY ResultTypes, <1>5 DEF PlannerAsks, Answered, Phases
<1>6. CASE PlannerRefuses
  BY ResultTypes, <1>6 DEF PlannerRefuses, Answered, Phases
<1>7. ASSUME NEW p \in Plans, PlannerPlans(p) PROVE TypeOK'
  BY ResultTypes, <1>7 DEF PlannerPlans, Answered, Phases
<1>8. CASE Generate
  BY ResultTypes, <1>8 DEF Generate, Answered, Phases
<1>9. CASE Revise
  BY ResultTypes, <1>9 DEF Revise, Answered, Phases
<1>10. CASE ValidationTimesOut
  BY ResultTypes, <1>10 DEF ValidationTimesOut, Phases
<1>11. CASE Validate
  <2>1. PICK v \in Outcomes :
          /\ validation' = v
          /\ \/ /\ SourceUnclear(v)
                /\ Finish("clarification_required",
                          Outcome("clarification_required", "question"))
             \/ ~SourceUnclear(v) /\ v.ok /\ stage' = "reviewing" /\ UNCHANGED result
             \/ ~SourceUnclear(v) /\ ~v.ok /\ candidate = 1 /\ stage' = "revising"
                /\ UNCHANGED result
             \/ ~SourceUnclear(v) /\ ~v.ok /\ candidate = 2
                /\ Finish(stage, Rejected(RejectedBy(v), "checks", v))
    BY ResultTypes, <1>11 DEF Validate
  <2>2. v \in Validations /\ v.of = candidate
    BY <2>1 DEF Outcomes
  <2>3. Running /\ stage = "validating"
        /\ UNCHANGED <<req, call, left, calls, plan, candidate, review>>
    BY ResultTypes, <1>11 DEF Validate
  <2>4. validation' \in Validations
    BY <2>1, <2>2
  <2>5. result' \in Results \cup {Unset} /\ stage' \in Stages
    BY <2>1, <2>2, <2>3, ResultTypes DEF Finish, TypeOK
  <2> QED
    BY <2>3, <2>4, <2>5 DEF TypeOK
<1>12. CASE ReviewerDecides
  <2>1. PICK ok \in BOOLEAN :
          /\ review' = [of |-> candidate, approved |-> ok]
          /\ \/ ok /\ Finish("completed", Published)
             \/ ~ok /\ candidate = 1 /\ stage' = "revising" /\ UNCHANGED result
             \/ ~ok /\ candidate = 2
                /\ Finish("failed", Rejected("validation_failed", "review", validation))
    BY ResultTypes, <1>12 DEF ReviewerDecides
  <2>2. Running /\ stage = "reviewing" /\ call' = "idle"
        /\ UNCHANGED <<req, left, calls, plan, candidate, validation>>
    BY ResultTypes, <1>12 DEF ReviewerDecides, Answered
  <2>3. candidate \in 1 .. 2 /\ validation \in Validations /\ validation.of = candidate
    BY <2>2 DEF TypeOK, Phases
  <2>4. review' \in Reviews
    BY <2>1, <2>3 DEF Reviews
  <2>5. Published \in Results
    BY <2>3 DEF Published, Results
  <2>6. result' \in Results \cup {Unset} /\ stage' \in Stages
    BY <2>1, <2>3, <2>5, ResultTypes DEF Finish, TypeOK
  <2> QED
    BY <2>2, <2>4, <2>6 DEF TypeOK
<1>13. CASE Elapse
  BY ResultTypes, <1>13 DEF Elapse, Phases
<1>14. CASE UNCHANGED vars
  BY ResultTypes, <1>14 DEF vars, Phases
<1> QED
  BY <1>1, <1>2, <1>3, <1>4, <1>5, <1>6, <1>7, <1>8, <1>9,
     <1>10, <1>11, <1>12, <1>13, <1>14 DEF Next, Step

\* Every stage finds the artefacts it needs, and no stale one.
LEMMA PhaseStep == TypeOK /\ Phases /\ TypeOK' /\ [Next]_vars => Phases'
<1> SUFFICES ASSUME TypeOK /\ Phases /\ TypeOK', [Next]_vars, result' = Unset
             PROVE  Phases'
  BY WorkflowAssumption DEF TypeOK, Phases, Running
<1> USE WorkflowAssumption DEF Running, Finish, Statuses, Reasons, Stages, Work,
             Roles, artefacts
<1>1. CASE Receive
  BY ResultTypes, <1>1 DEF Receive, Phases, PlanOk, SourceUnclear
<1>2. CASE Ask
  BY ResultTypes, <1>2 DEF Ask, Phases, PlanOk, SourceUnclear
<1>3. CASE BackendFails
  BY ResultTypes, <1>3 DEF BackendFails, Phases, PlanOk, SourceUnclear
<1>4. CASE Invalid
  BY ResultTypes, <1>4 DEF Invalid, Phases, PlanOk, SourceUnclear
<1>5. CASE PlannerAsks
  BY ResultTypes, <1>5 DEF PlannerAsks, Answered, Phases, PlanOk, SourceUnclear
<1>6. CASE PlannerRefuses
  BY ResultTypes, <1>6 DEF PlannerRefuses, Answered, Phases, PlanOk, SourceUnclear
<1>7. ASSUME NEW p \in Plans, PlannerPlans(p) PROVE Phases'
  BY ResultTypes, <1>7 DEF PlannerPlans, Answered, Phases, PlanOk, SourceUnclear
<1>8. CASE Generate
  BY ResultTypes, <1>8 DEF Generate, Answered, Phases, PlanOk, SourceUnclear
<1>9. CASE Revise
  BY ResultTypes, <1>9 DEF Revise, Answered, Phases, PlanOk, SourceUnclear
<1>10. CASE ValidationTimesOut
  BY ResultTypes, <1>10 DEF ValidationTimesOut, Phases, PlanOk, SourceUnclear
<1>11. CASE Validate
  <2>1. PICK v \in Outcomes :
          /\ validation' = v
          /\ \/ /\ SourceUnclear(v)
                /\ Finish("clarification_required",
                          Outcome("clarification_required", "question"))
             \/ ~SourceUnclear(v) /\ v.ok /\ stage' = "reviewing" /\ UNCHANGED result
             \/ ~SourceUnclear(v) /\ ~v.ok /\ candidate = 1 /\ stage' = "revising"
                /\ UNCHANGED result
             \/ ~SourceUnclear(v) /\ ~v.ok /\ candidate = 2
                /\ Finish(stage, Rejected(RejectedBy(v), "checks", v))
    BY ResultTypes, <1>11 DEF Validate
  <2>2. v \in Validations /\ v.of = candidate
    BY <2>1 DEF Outcomes
  <2>3. Running /\ stage = "validating"
        /\ UNCHANGED <<req, call, left, calls, plan, candidate, review>>
    BY ResultTypes, <1>11 DEF Validate
  <2>4. /\ SourceUnclear(v)' = SourceUnclear(v)
        /\ v.ok /\ req.roots # Unset => v.reads \subseteq req.roots
    BY <2>3, <2>1 DEF Outcomes, SourceUnclear
  <2>5. PlanOk(plan)' /\ candidate' # 0
    BY <2>3 DEF Phases, PlanOk
  <2>6. stage' \in {"reviewing", "revising"} /\ call' = "idle"
    BY <2>1, <2>2, <2>3, ResultTypes DEF Phases
  <2> QED
    BY <2>1, <2>2, <2>3, <2>4, <2>5, <2>6, ResultTypes DEF Phases
<1>12. CASE ReviewerDecides
  <2>1. PICK ok \in BOOLEAN :
          /\ review' = [of |-> candidate, approved |-> ok]
          /\ \/ ok /\ Finish("completed", Published)
             \/ ~ok /\ candidate = 1 /\ stage' = "revising" /\ UNCHANGED result
             \/ ~ok /\ candidate = 2
                /\ Finish("failed", Rejected("validation_failed", "review", validation))
    BY ResultTypes, <1>12 DEF ReviewerDecides
  <2>2. Running /\ stage = "reviewing" /\ call' = "idle"
        /\ UNCHANGED <<req, left, calls, plan, candidate, validation>>
    BY ResultTypes, <1>12 DEF ReviewerDecides, Answered
  <2>3. candidate \in 1 .. 2 /\ validation \in Validations /\ validation.of = candidate
    BY <2>2 DEF TypeOK, Phases
  <2>4. Published \in Results
    BY <2>3 DEF Published, Results
  <2>5. stage' = "revising" /\ candidate = 1
    BY <2>1, <2>3, <2>4, ResultTypes
  <2> QED
    BY <2>2, <2>5 DEF Phases, PlanOk
<1>13. CASE Elapse
  BY ResultTypes, <1>13 DEF Elapse, Phases, PlanOk, SourceUnclear
<1>14. CASE UNCHANGED vars
  BY ResultTypes, <1>14 DEF vars, Phases, PlanOk, SourceUnclear
<1> QED
  BY <1>1, <1>2, <1>3, <1>4, <1>5, <1>6, <1>7, <1>8, <1>9,
     <1>10, <1>11, <1>12, <1>13, <1>14 DEF Next, Step

\* An answer costs two completions at most, and six answers end a run.
LEMMA CallsStep == TypeOK /\ Phases /\ CallsCounted /\ TypeOK' /\ [Next]_vars => CallsCounted'
<1> SUFFICES ASSUME TypeOK /\ Phases /\ CallsCounted /\ TypeOK', [Next]_vars PROVE CallsCounted'
  OBVIOUS
<1> USE WorkflowAssumption DEF Running, Finish, Statuses, Reasons, Stages, Work,
             Roles, artefacts
<1>1. CASE Receive
  BY ResultTypes, <1>1 DEF Receive, Phases, CallsCounted, CallsBefore, TypeOK
<1>2. CASE Ask
  BY ResultTypes, <1>2 DEF Ask, Phases, CallsCounted, CallsBefore, TypeOK
<1>3. CASE BackendFails
  BY ResultTypes, <1>3 DEF BackendFails, Phases, CallsCounted, CallsBefore, TypeOK
<1>4. CASE Invalid
  BY ResultTypes, <1>4 DEF Invalid, Phases, CallsCounted, CallsBefore, TypeOK
<1>5. CASE PlannerAsks
  BY ResultTypes, <1>5 DEF PlannerAsks, Answered, Phases, CallsCounted, CallsBefore, TypeOK
<1>6. CASE PlannerRefuses
  BY ResultTypes, <1>6 DEF PlannerRefuses, Answered, Phases, CallsCounted, CallsBefore, TypeOK
<1>7. ASSUME NEW p \in Plans, PlannerPlans(p) PROVE CallsCounted'
  BY ResultTypes, <1>7 DEF PlannerPlans, Answered, Phases, CallsCounted, CallsBefore, TypeOK
<1>8. CASE Generate
  BY ResultTypes, <1>8 DEF Generate, Answered, Phases, CallsCounted, CallsBefore, TypeOK
<1>9. CASE Revise
  BY ResultTypes, <1>9 DEF Revise, Answered, Phases, CallsCounted, CallsBefore, TypeOK
<1>10. CASE ValidationTimesOut
  BY ResultTypes, <1>10 DEF ValidationTimesOut, Phases, CallsCounted, CallsBefore, TypeOK
<1>11. CASE Validate
  <2>1. PICK v \in Outcomes :
          /\ validation' = v
          /\ \/ /\ SourceUnclear(v)
                /\ Finish("clarification_required",
                          Outcome("clarification_required", "question"))
             \/ ~SourceUnclear(v) /\ v.ok /\ stage' = "reviewing" /\ UNCHANGED result
             \/ ~SourceUnclear(v) /\ ~v.ok /\ candidate = 1 /\ stage' = "revising"
                /\ UNCHANGED result
             \/ ~SourceUnclear(v) /\ ~v.ok /\ candidate = 2
                /\ Finish(stage, Rejected(RejectedBy(v), "checks", v))
    BY <1>11 DEF Validate
  <2>2. v \in Validations /\ v.of = candidate
    BY <2>1 DEF Outcomes
  <2>3. Running /\ stage = "validating"
        /\ UNCHANGED <<req, call, left, calls, plan, candidate, review>>
    BY <1>11 DEF Validate
  <2>4. calls <= 10 /\ (candidate = 1 => calls <= 6)
    BY <2>3 DEF Phases, CallsCounted, CallsBefore, TypeOK
  <2>5. candidate \in 1 .. 2 /\ call' = "idle" /\ calls' = calls /\ candidate' = candidate
    BY <2>3 DEF Phases, TypeOK
  <2>6. CASE Running'
    <3>1. stage' = "reviewing" \/ (stage' = "revising" /\ candidate = 1)
      BY <2>1, <2>2, <2>6, ResultTypes
    <3> QED
      BY <2>4, <2>5, <2>6, <3>1 DEF CallsCounted, CallsBefore, TypeOK
  <2>7. CASE ~Running'
    BY <2>4, <2>5, <2>7 DEF CallsCounted, TypeOK
  <2> QED
    BY <2>6, <2>7
<1>12. CASE ReviewerDecides
  <2>1. PICK ok \in BOOLEAN :
          /\ review' = [of |-> candidate, approved |-> ok]
          /\ \/ ok /\ Finish("completed", Published)
             \/ ~ok /\ candidate = 1 /\ stage' = "revising" /\ UNCHANGED result
             \/ ~ok /\ candidate = 2
                /\ Finish("failed", Rejected("validation_failed", "review", validation))
    BY <1>12 DEF ReviewerDecides
  <2>2. Running /\ stage = "reviewing" /\ call' = "idle"
        /\ UNCHANGED <<req, left, calls, plan, candidate, validation>>
    BY <1>12 DEF ReviewerDecides, Answered
  <2>3. candidate \in 1 .. 2 /\ validation \in Validations /\ validation.of = candidate
    BY <2>2 DEF TypeOK, Phases
  <2>4. calls <= 12 /\ (candidate = 1 => calls <= 8)
    BY <1>12, <2>2, <2>3 DEF ReviewerDecides, Answered, CallsCounted, CallsBefore, TypeOK
  <2>5. Published \in Results
    BY <2>3 DEF Published, Results
  <2>6. CASE Running'
    <3>1. stage' = "revising" /\ candidate = 1
      BY <2>1, <2>3, <2>5, <2>6, ResultTypes
    <3> QED
      BY <2>2, <2>4, <2>6, <3>1 DEF CallsCounted, CallsBefore, TypeOK
  <2>7. CASE ~Running'
    BY <2>2, <2>4, <2>7 DEF CallsCounted, TypeOK
  <2> QED
    BY <2>6, <2>7
<1>13. CASE Elapse
  BY ResultTypes, <1>13 DEF Elapse, Phases, CallsCounted, CallsBefore, TypeOK
<1>14. CASE UNCHANGED vars
  BY ResultTypes, <1>14 DEF vars, Phases, CallsCounted, CallsBefore, TypeOK
<1> QED
  BY <1>1, <1>2, <1>3, <1>4, <1>5, <1>6, <1>7, <1>8, <1>9,
     <1>10, <1>11, <1>12, <1>13, <1>14 DEF Next, Step

\* What a result says of the candidate is what was found about it.
LEMMA VerdictStep == IInv /\ TypeOK' /\ [Next]_vars => Verdicts'
<1> SUFFICES ASSUME IInv /\ TypeOK', [Next]_vars PROVE Verdicts'
  OBVIOUS
<1> USE WorkflowAssumption DEF IInv, Verdicts, Running, Finish, Statuses, Reasons, Stages, Work,
             Roles, artefacts
<1>1. CASE Receive
  BY <1>1 DEF Receive, Outcome, Phases, PlanOk,
        PublishedIsVerified, SourcesAreChosen, VerdictIsEarned
<1>2. CASE Ask
  BY <1>2 DEF Ask, Outcome, Phases, PlanOk,
        PublishedIsVerified, SourcesAreChosen, VerdictIsEarned
<1>3. CASE BackendFails
  BY <1>3 DEF BackendFails, Outcome, Phases, PlanOk,
        PublishedIsVerified, SourcesAreChosen, VerdictIsEarned
<1>4. CASE Invalid
  BY <1>4 DEF Invalid, Outcome, Phases, PlanOk,
        PublishedIsVerified, SourcesAreChosen, VerdictIsEarned
<1>5. CASE PlannerAsks
  BY <1>5 DEF PlannerAsks, Answered, Outcome, Phases, PlanOk,
        PublishedIsVerified, SourcesAreChosen, VerdictIsEarned
<1>6. CASE PlannerRefuses
  BY <1>6 DEF PlannerRefuses, Answered, Outcome, Phases, PlanOk,
        PublishedIsVerified, SourcesAreChosen, VerdictIsEarned
<1>7. ASSUME NEW p \in Plans, PlannerPlans(p) PROVE Verdicts'
  BY <1>7 DEF PlannerPlans, Answered, Outcome, Phases, PlanOk,
        PublishedIsVerified, SourcesAreChosen, VerdictIsEarned
<1>8. CASE Generate
  <2>1. Running' /\ stage' = "validating"
    BY <1>8 DEF Generate, Answered
  <2> QED
    BY <2>1 DEF PublishedIsVerified, SourcesAreChosen, VerdictIsEarned
<1>9. CASE Revise
  <2>1. Running' /\ stage' = "validating"
    BY <1>9 DEF Revise, Answered
  <2> QED
    BY <2>1 DEF PublishedIsVerified, SourcesAreChosen, VerdictIsEarned
<1>10. CASE ValidationTimesOut
  BY <1>10 DEF ValidationTimesOut, Outcome, Phases, PlanOk,
        PublishedIsVerified, SourcesAreChosen, VerdictIsEarned
<1>11. CASE Validate
  <2>1. PICK v \in Outcomes :
          /\ validation' = v
          /\ \/ /\ SourceUnclear(v)
                /\ Finish("clarification_required",
                          Outcome("clarification_required", "question"))
             \/ ~SourceUnclear(v) /\ v.ok /\ stage' = "reviewing" /\ UNCHANGED result
             \/ ~SourceUnclear(v) /\ ~v.ok /\ candidate = 1 /\ stage' = "revising"
                /\ UNCHANGED result
             \/ ~SourceUnclear(v) /\ ~v.ok /\ candidate = 2
                /\ Finish(stage, Rejected(RejectedBy(v), "checks", v))
    BY <1>11 DEF Validate
  <2>2. v \in Validations /\ v.of = candidate
    BY <2>1 DEF Outcomes
  <2>3. Running /\ stage = "validating"
        /\ UNCHANGED <<req, call, left, calls, plan, candidate, review>>
    BY <1>11 DEF Validate
  <2>4. CASE Running'
    <3>1. stage' = "revising" => candidate' = 1 /\ validation' = v /\ v.of = 1 /\ ~v.ok /\ v # Unset
      BY <2>1, <2>2, <2>3, <2>4, ResultTypes, WorkflowAssumption
    <3> QED
      BY <2>4, <3>1 DEF PublishedIsVerified, SourcesAreChosen, VerdictIsEarned
  <2>5. CASE SourceUnclear(v) /\ result' = Outcome("clarification_required", "question")
    BY <2>5, ResultTypes DEF Outcome, PublishedIsVerified, SourcesAreChosen, VerdictIsEarned
  <2>6. CASE ~v.ok /\ candidate = 2 /\ result' = Rejected(RejectedBy(v), "checks", v)
    <3>1. candidate' = 2 /\ validation' = v /\ v.of = 2 /\ ~v.ok /\ ~Running'
      BY <2>1, <2>2, <2>3, <2>6, ResultTypes
    <3>2. RejectedBy(v) = "policy_rejected" => v.policy
      BY DEF RejectedBy
    <3>3. RejectedBy(v) # "completed"
      BY DEF RejectedBy
    <3> QED
      BY <2>6, <3>1, <3>2, <3>3
         DEF Rejected, PublishedIsVerified, SourcesAreChosen, VerdictIsEarned
  <2> QED
    BY <2>1, <2>3, <2>4, <2>5, <2>6
<1>12. CASE ReviewerDecides
  <2>1. PICK ok \in BOOLEAN :
          /\ review' = [of |-> candidate, approved |-> ok]
          /\ \/ ok /\ Finish("completed", Published)
             \/ ~ok /\ candidate = 1 /\ stage' = "revising" /\ UNCHANGED result
             \/ ~ok /\ candidate = 2
                /\ Finish("failed", Rejected("validation_failed", "review", validation))
    BY <1>12 DEF ReviewerDecides
  <2>2. Running /\ stage = "reviewing" /\ call' = "idle"
        /\ UNCHANGED <<req, left, calls, plan, candidate, validation>>
    BY <1>12 DEF ReviewerDecides, Answered
  <2>3. candidate \in 1 .. 2 /\ validation \in Validations /\ validation.of = candidate
    BY <2>2 DEF TypeOK, Phases
  <2>4. /\ validation.ok /\ validation # Unset /\ PlanOk(plan)'
        /\ req.roots # Unset => validation.reads \subseteq req.roots
        /\ ~SourceUnclear(validation)
    BY <2>2 DEF Phases, PlanOk
  <2>5. review' # Unset /\ review'.of = candidate /\ review'.approved = ok
    BY <2>1, <2>3, WorkflowAssumption DEF Reviews
  <2>6. CASE ok /\ result' = Published
    <3>1. ~Running'
      BY <2>3, <2>6, ResultTypes DEF Published, Results
    <3> QED
      BY <2>2, <2>3, <2>4, <2>5, <2>6, <3>1
         DEF Published, SourceUnclear, PublishedIsVerified, SourcesAreChosen, VerdictIsEarned
  <2>7. CASE ~ok /\ candidate = 1 /\ stage' = "revising" /\ UNCHANGED result
    BY <2>2, <2>3, <2>4, <2>5, <2>7 DEF PublishedIsVerified, SourcesAreChosen, VerdictIsEarned
  <2>8. CASE ~ok /\ candidate = 2 /\ result' = Rejected("validation_failed", "review", validation)
    <3>1. ~Running'
      BY <2>3, <2>8, ResultTypes
    <3> QED
      BY <2>2, <2>3, <2>4, <2>5, <2>8, <3>1
         DEF Rejected, PublishedIsVerified, SourcesAreChosen, VerdictIsEarned
  <2> QED
    BY <2>1, <2>6, <2>7, <2>8
<1>13. CASE Elapse
  BY <1>13 DEF Elapse, Outcome, Phases, PlanOk,
        PublishedIsVerified, SourcesAreChosen, VerdictIsEarned
<1>14. CASE UNCHANGED vars
  BY <1>14 DEF vars, Outcome, Phases, PlanOk,
        PublishedIsVerified, SourcesAreChosen, VerdictIsEarned
<1> QED
  BY <1>1, <1>2, <1>3, <1>4, <1>5, <1>6, <1>7, <1>8, <1>9,
     <1>10, <1>11, <1>12, <1>13, <1>14 DEF Next, Step

\* IInv is an invariant, and with it everything it conjoins.
LEMMA Invariance == Spec => []IInv
<1>1. Init => IInv
  <2> SUFFICES ASSUME Init PROVE IInv
    OBVIOUS
  <2> USE WorkflowAssumption DEF Init
  <2>1. TypeOK
    BY DEF TypeOK, Stages, Work
  <2>2. Running
    BY DEF Running
  <2>3. Phases
    BY <2>2 DEF Phases, Work, Roles
  <2>4. CallsCounted
    BY <2>2 DEF CallsCounted
  <2>5. PublishedIsVerified /\ SourcesAreChosen /\ VerdictIsEarned
    BY <2>2 DEF PublishedIsVerified, SourcesAreChosen, VerdictIsEarned
  <2> QED
    BY <2>1, <2>3, <2>4, <2>5 DEF IInv
<1>2. IInv /\ [Next]_vars => IInv'
  BY TypeStep, PhaseStep, CallsStep, VerdictStep DEF IInv, Verdicts
<1> QED
  BY <1>1, <1>2, PTL DEF Spec

\* Published code passed the last validation and the review, under a plan that
\* keeps the caller's requirements.
THEOREM PublishedCodeIsVerified == Spec => []PublishedIsVerified
<1>1. IInv => PublishedIsVerified
  BY DEF IInv
<1> QED
  BY <1>1, Invariance, PTL

\* Published code read no root the caller did not choose.
THEOREM PublishedSourcesAreChosen == Spec => []SourcesAreChosen
<1>1. IInv => SourcesAreChosen
  BY DEF IInv
<1> QED
  BY <1>1, Invariance, PTL

\* A plan or a candidate is given up only after its second chance.
THEOREM VerdictsAreEarned == Spec => []VerdictIsEarned
<1>1. IInv => VerdictIsEarned
  BY DEF IInv
<1> QED
  BY <1>1, Invariance, PTL

\* A run asks for twelve completions at most.
THEOREM CallsAreBounded == Spec => []ModelCallsBounded
<1>1. IInv => ModelCallsBounded
  BY DEF IInv, CallsCounted, ModelCallsBounded
<1> QED
  BY <1>1, Invariance, PTL

\* The types, for every value of the constants.
THEOREM TypeCorrect == Spec => []TypeOK
<1>1. IInv => TypeOK
  BY DEF IInv
<1> QED
  BY <1>1, Invariance, PTL
=============================================================================
