----------------------------- MODULE UiRequests -----------------------------
(***************************************************************************)
(* app/ui/static/app.js against the API: what the page shows while the     *)
(* user starts, abandons and repeats requests, answers come late or not at *)
(* all, and the server runs to its end every request it has received,      *)
(* abandoned or not.                                                       *)
(*                                                                         *)
(* A session is numbered in the order the server makes them; a run of a    *)
(* session stands for its trace, its code and its question; a task for     *)
(* what the prompt box says.  The page's sessions are used by nobody else. *)
(* A continuation that brings context or roots but no answer is like a     *)
(* feedback.  The timeline, badges and form fields are left out.           *)
(***************************************************************************)
EXTENDS Integers, Sequences

CONSTANTS
  MaxTasks,         \* bound on the tasks the user enters
  MaxVersions,      \* bound on the requests begun or abandoned
  MaxSessions,      \* bound on the sessions of the server
  MaxRuns           \* bound on the runs of a session

ASSUME UiAssumption == {MaxTasks, MaxVersions, MaxSessions, MaxRuns} \subseteq Nat

VARIABLES
  task,             \* the prompt box
  view,             \* what the page holds and shows
  busy,             \* state.busy
  version,          \* state.requestVersion
  actions,          \* the calls of runAction that have not ended
  booting,          \* boot() has not loaded the first example yet
  server            \* the sessions: their task, number of runs, open question

vars == <<task, view, busy, version, actions, booting, server>>

None == <<0, 0>>    \* no run
Run  == (0..MaxSessions) \X (0..MaxRuns)

View == [session : 0..MaxSessions, trace : Run, code : Run, question : Run, validation : Run,
         contract : 0..MaxSessions, sessionPanel : 0..MaxSessions, tracePanel : Run]

Session == [task : Nat, runs : 0..MaxRuns, question : Run]

Reply  == [ok : BOOLEAN, run : Run, outcome : {"completed", "clarification_required", "rejected"}]
Failed == [ok |-> FALSE, run |-> None, outcome |-> "rejected"]

Action == [kind : {"generate", "answer", "revise", "validate"}, version : Nat,
           session : 0..MaxSessions, task : Nat, shown : Run, code : Run,
           stage : {"sent", "replied", "session", "trace"}, reply : Reply]

\* clearSessionState: what is left.
Cleared == [session |-> 0, trace |-> None, code |-> None, question |-> None,
            validation |-> None, contract |-> 0, sessionPanel |-> 0, tracePanel |-> None]

\* A wrong AfterError: the question stays on the page.
ErrorKeepsQuestion(v) == [v EXCEPT !.code = None, !.validation = None, !.contract = 0]

\* showError: what the page still holds.
AfterError(v) ==
  [v EXCEPT !.code = None, !.validation = None, !.contract = 0, !.question = None]

\* A wrong Rendered: the contract is taken from the wrong place.
RenderedAmiss(v, r) == [v EXCEPT !.session = r.run[1], !.trace = r.run, !.contract = r.run[2]]

\* renderResult.
Rendered(v, r) ==
  [v EXCEPT !.session = r.run[1], !.trace = r.run, !.contract = r.run[1],
            !.code = IF r.outcome = "completed" THEN r.run ELSE None,
            !.question = IF r.outcome = "clarification_required" THEN r.run ELSE None,
            !.validation = IF r.outcome = "clarification_required" THEN None ELSE r.run]

IsCurrent(a) == a.version = version
-----------------------------------------------------------------------------
Init ==
  /\ task = 0
  /\ view = Cleared
  /\ busy = FALSE
  /\ version = 0
  /\ actions = {}
  /\ booting = TRUE
  /\ server = <<>>

\* runAction up to the first await: the action clears the page (generate) or takes
\* what it sends from it.
Start(kind, v) ==
  /\ ~busy
  /\ version < MaxVersions
  /\ busy' = TRUE
  /\ version' = version + 1
  /\ view' = v
  /\ actions' = actions \cup
       {[kind |-> kind, version |-> version + 1, session |-> v.session, task |-> task,
         shown |-> view.question, code |-> view.code, stage |-> "sent", reply |-> Failed]}
  /\ UNCHANGED <<task, booting, server>>

Generate == Start("generate", Cleared)

Continue == view.session # 0 /\ Start("answer", view)

Feedback == view.session # 0 /\ Start("revise", view)

Validate == view.code # None /\ Start("validate", view)

\* An action that throws before it sends anything: no session, no code, nothing
\* to say, or a context that is no JSON.
Refuse ==
  /\ ~busy
  /\ version < MaxVersions
  /\ version' = version + 1
  /\ view' = AfterError(view)
  /\ UNCHANGED <<task, busy, actions, booting, server>>

\* A wrong Invalidate: the buttons stay disabled.
InvalidateOnly == version' = version + 1 /\ UNCHANGED busy

\* invalidateActiveRequest: whatever is under way is abandoned.
Invalidate == version' = version + 1 /\ busy' = FALSE

\* A wrong EditPrompt: the request is abandoned, the session is kept.
EditKeepsSession ==
  /\ task < MaxTasks
  /\ task' = task + 1
  /\ IF busy \/ view.session # 0
     THEN version < MaxVersions /\ Invalidate
     ELSE UNCHANGED <<busy, version>>
  /\ UNCHANGED <<view, actions, booting, server>>

\* The user edits the prompt: a new task, and a new session if there was one.
EditPrompt ==
  /\ task < MaxTasks
  /\ task' = task + 1
  /\ IF busy \/ view.session # 0
     THEN version < MaxVersions /\ Invalidate /\ view' = Cleared
     ELSE UNCHANGED <<busy, version, view>>
  /\ UNCHANGED <<actions, booting, server>>

\* resetSession, from its button.
Reset ==
  /\ version < MaxVersions
  /\ Invalidate
  /\ view' = Cleared
  /\ UNCHANGED <<task, actions, booting, server>>

\* loadSelectedExample, from its button or at the end of boot(), whatever the user
\* has begun meanwhile.
LoadExample ==
  /\ task < MaxTasks
  /\ version < MaxVersions
  /\ task' = task + 1
  /\ Invalidate
  /\ view' = Cleared
  /\ booting' \in {booting, FALSE}
  /\ UNCHANGED <<actions, server>>

\* boot() fails: the error is shown whatever the page shows by then.
BootFails ==
  /\ booting
  /\ booting' = FALSE
  /\ view' = AfterError(view)
  /\ UNCHANGED <<task, busy, version, actions, server>>
-----------------------------------------------------------------------------
Becomes(a, b) == actions' = (actions \ {a}) \cup {b}

\* The server does what it was sent.  The answer may be lost on its way (or be an
\* error although the run was recorded: the model backend is unavailable).
ServeRun(a) ==
  /\ a.stage = "sent"
  /\ a.kind # "validate"
  /\ a.kind = "answer" => server[a.session].question # None
  /\ a.kind = "generate" => Len(server) < MaxSessions
  /\ LET old == IF a.kind = "generate" THEN [task |-> a.task, runs |-> 0, question |-> None]
                ELSE server[a.session]
         s   == IF a.kind = "generate" THEN Len(server) + 1 ELSE a.session
         run == <<s, old.runs + 1>>
     IN
     /\ old.runs < MaxRuns
     /\ \E outcome \in {"completed", "clarification_required", "rejected"}, ok \in BOOLEAN :
          LET new == [old EXCEPT !.runs = @ + 1,
                        !.question = IF outcome = "clarification_required" THEN run ELSE None]
          IN
          /\ server' = IF a.kind = "generate" THEN Append(server, new)
                       ELSE [server EXCEPT ![s] = new]
          /\ Becomes(a, [a EXCEPT !.stage = "replied",
                           !.reply = IF ok THEN [ok |-> TRUE, run |-> run, outcome |-> outcome]
                                     ELSE Failed])
  /\ UNCHANGED <<task, view, busy, version, booting>>

\* A feedback on a session with an open question: the question is asked again, no run is made.  (A
\* continuation with the context or the roots that were asked for is one that ServeRun serves.)
AskAgain(a) ==
  /\ a.stage = "sent"
  /\ a.kind = "revise"
  /\ server[a.session].question # None
  /\ Becomes(a, [a EXCEPT !.stage = "replied",
                   !.reply = [ok |-> TRUE, run |-> server[a.session].question,
                              outcome |-> "clarification_required"]])
  /\ UNCHANGED <<task, view, busy, version, booting, server>>

\* The request is refused, never arrives, or its answer gets lost where the server did nothing.
Decline(a) ==
  /\ a.stage = "sent"
  /\ Becomes(a, [a EXCEPT !.stage = "replied"])
  /\ UNCHANGED <<task, view, busy, version, booting, server>>

ServeValidate(a) ==
  /\ a.stage = "sent"
  /\ a.kind = "validate"
  /\ Becomes(a, [a EXCEPT !.stage = "replied",
                   !.reply = [ok |-> TRUE, run |-> a.code, outcome |-> "completed"]])
  /\ UNCHANGED <<task, view, busy, version, booting, server>>

\* A wrong End: it does not look whether the request is still the current one.
EndAnyway(a) == actions' = actions \ {a} /\ busy' = FALSE

\* The end of runAction.
End(a) ==
  /\ actions' = actions \ {a}
  /\ busy' = IF IsCurrent(a) THEN FALSE ELSE busy

\* A wrong Abandoned: every answer counts.
NeverAbandoned(a) == FALSE

\* What an await finds out first when it resumes.
Abandoned(a) == ~IsCurrent(a) \/ (a.kind \in {"answer", "revise"} /\ view.session # a.session)

\* The await of the POST resumes with an error.
Fail(a) ==
  /\ a.stage = "replied"
  /\ ~a.reply.ok
  /\ view' = IF IsCurrent(a) THEN AfterError(view) ELSE view
  /\ End(a)
  /\ UNCHANGED <<task, version, booting, server>>

\* ... or with an answer: nothing is done with a late one.
Deliver(a) ==
  /\ a.stage = "replied"
  /\ a.reply.ok
  /\ CASE Abandoned(a) -> view' = view /\ End(a)
       [] ~Abandoned(a) /\ a.kind = "validate" ->
            view' = [view EXCEPT !.validation = a.reply.run] /\ End(a)
       [] OTHER ->
            /\ view' = Rendered(view, a.reply)
            /\ Becomes(a, [a EXCEPT !.stage = "session"])
            /\ UNCHANGED busy
  /\ UNCHANGED <<task, version, booting, server>>

\* refreshSession: its failure is only noted.
RefreshSession(a) ==
  LET s == a.reply.run[1] IN
  /\ a.stage = "session"
  /\ \/ UNCHANGED view
     \/ /\ IsCurrent(a) /\ view.session = s
        /\ view' = [view EXCEPT !.sessionPanel = s]
  /\ Becomes(a, [a EXCEPT !.stage = "trace"])
  /\ UNCHANGED <<task, busy, version, booting, server>>

\* refreshTrace, and the end of the action.
RefreshTrace(a) ==
  /\ a.stage = "trace"
  /\ \/ UNCHANGED view
     \/ /\ IsCurrent(a) /\ view.trace = a.reply.run
        /\ view' = [view EXCEPT !.tracePanel = a.reply.run]
  /\ End(a)
  /\ UNCHANGED <<task, version, booting, server>>

\* What goes on without the user.
Step(a) ==
  \/ ServeRun(a) \/ AskAgain(a) \/ ServeValidate(a) \/ Decline(a)
  \/ Fail(a) \/ Deliver(a) \/ RefreshSession(a) \/ RefreshTrace(a)

Next ==
  \/ Generate \/ Continue \/ Feedback \/ Validate \/ Refuse
  \/ EditPrompt \/ Reset \/ LoadExample \/ BootFails
  \/ \E a \in actions : Step(a)

Spec == Init /\ [][Next]_vars

\* A request that is still wanted is answered or fails: the server's budget ends
\* its work, the connection ends with it, and the page's callbacks run.
FairSpec == Spec /\ WF_vars(\E a \in actions : IsCurrent(a) /\ Step(a))
-----------------------------------------------------------------------------
\* Every variable has its type.
TypeOK ==
  /\ task \in 0..MaxTasks
  /\ view \in View
  /\ busy \in BOOLEAN
  /\ version \in 0..MaxVersions
  /\ actions \subseteq Action
  /\ booting \in BOOLEAN
  /\ server \in Seq(Session)

\* Everything on the page is about the task in the prompt box: its session was made
\* for this task, and the code, question, contract and panels are that session's.
\* An answer that arrives after the user has moved on changes nothing, although the
\* server has done its work (app.js:162-173, 418-420, 447-449, 475-477).
PageIsOfTask ==
  /\ view.session # 0 => server[view.session].task = task
  /\ \A r \in {view.trace, view.code, view.question, view.validation, view.tracePanel} :
       r # None => r[1] = view.session
  /\ {view.contract, view.sessionPanel} \subseteq {0, view.session}

\* A question on the page of which nothing is under way is the session's open
\* question: one that was answered, or replaced by a run whose result got lost, is
\* not offered for an answer any more (app.js:309-324, 626-635).
ShownQuestionIsOpen ==
  ~busy /\ view.question # None => server[view.session].question = view.question

\* An answer is recorded with the question its author saw, if the page showed one:
\* no other run of the session can put another question in its place before the
\* answer arrives (engine.py:450-464).
AnswersMeetTheirQuestion ==
  \A a \in actions :
    a.kind = "answer" /\ a.stage = "sent" /\ a.shown # None =>
      server[a.session].question = a.shown

\* The page is busy exactly while one request is current; of those abandoned none
\* can end it, and no two requests of the page are ever current (app.js:162-199).
BusyIsCurrent ==
  /\ busy <=> \E a \in actions : IsCurrent(a)
  /\ \A a, b \in actions : a.version = b.version => a = b

\* The buttons are enabled again (app.js:152-199).
BusyEnds == busy ~> ~busy
=============================================================================
