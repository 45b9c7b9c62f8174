------------------------- MODULE UiRequests_proofs -------------------------
(***************************************************************************)
(* Proofs about UiRequests, for every bound on tasks, requests, sessions   *)
(* and runs.                                                               *)
(***************************************************************************)
EXTENDS UiRequests, TLAPS

Outcomes == {"completed", "clarification_required", "rejected"}

\* A request that continues a session, and one of them that is still to be served.
Talks(a) == a.kind \in {"answer", "revise"}
Asks(a)  == a.stage = "sent" /\ Talks(a)

\* A run of the server of which the answer is on its way to the page.
Brings(a) == a.stage = "replied" /\ a.kind # "validate" /\ a.reply.ok

\* What is true of an action whether it was abandoned or not: the session it
\* continues and the run it brings exist, and they are about the task it was sent
\* for.
Sound(a) ==
  /\ a.version <= version
  /\ a.session <= Len(server)
  /\ a.session # 0 => server[a.session].task = a.task
  /\ a.kind = "generate" => a.session = 0
  /\ Talks(a) => a.session # 0
  /\ a.kind = "validate" => a.code # None /\ a.code[1] = a.session
  /\ a.stage = "sent" => ~a.reply.ok
  /\ a.stage \in {"session", "trace"} => a.reply.ok /\ a.kind # "validate"
  /\ a.kind = "validate" /\ a.reply.ok => a.reply.run = a.code
  /\ a.kind # "validate" /\ a.reply.ok =>
       /\ a.reply.run[1] \in 1..Len(server)
       /\ server[a.reply.run[1]].task = a.task
       /\ Talks(a) => a.reply.run[1] = a.session

ActionsAreSound == \A a \in actions : Sound(a)

\* Until its answer is shown, the current action finds the page as it left it.
Fits(a) ==
  /\ a.task = task
  /\ a.stage \in {"sent", "replied"} => view.session = a.session
  /\ a.stage \in {"sent", "replied"} /\ a.kind = "generate" => view = Cleared

CurrentFits == \A a \in actions : IsCurrent(a) => Fits(a)

\* The page is about the task and shows a session that exists.
PageIsSound ==
  /\ view.session <= Len(server)
  /\ view.question # None => view.session # 0
  /\ PageIsOfTask

\* No two requests are to continue one session: an abandoned one is never about the
\* session on the page, nor about one that is on its way there.
SessionsAreApart ==
  /\ \A a \in actions : Asks(a) /\ ~IsCurrent(a) => a.session # view.session
  /\ \A a, b \in actions :
       Asks(a) /\ Brings(b) /\ IsCurrent(b) /\ b.kind = "generate" =>
       b.reply.run[1] # a.session
  /\ \A a, b \in actions : Asks(a) /\ Asks(b) /\ a.session = b.session => a = b

\* A question is open from the moment the server asks it until the answer to the
\* request that closes it reaches the page.
QuestionsAreOpen ==
  /\ \A a \in actions :
       IsCurrent(a) /\ Brings(a) /\ a.reply.outcome = "clarification_required" =>
       server[a.reply.run[1]].question = a.reply.run
  /\ (view.question # None
        /\ ~\E a \in actions : IsCurrent(a) /\ a.stage = "replied" /\ Talks(a)) =>
     server[view.session].question = view.question
  /\ AnswersMeetTheirQuestion

\* The open question of a session is one of its own.
QuestionsAreOwn ==
  \A s \in 1..Len(server) : server[s].question # None => server[s].question[1] = s

Bounded == TypeOK /\ Len(server) <= MaxSessions /\ QuestionsAreOwn

IInv == /\ Bounded /\ BusyIsCurrent /\ ActionsAreSound /\ CurrentFits
        /\ PageIsSound /\ SessionsAreApart /\ QuestionsAreOpen

-----------------------------------------------------------------------------
\* The next stage of an action.
LEMMA Advance ==
  ASSUME NEW a \in Action, NEW st \in {"sent", "replied", "session", "trace"},
         NEW r \in Reply
  PROVE  /\ [a EXCEPT !.stage = st, !.reply = r] \in Action
         /\ [a EXCEPT !.stage = st] = [a EXCEPT !.stage = st, !.reply = a.reply]
         /\ a.reply \in Reply
BY DEF Action

\* What the page shows after each of its operations.
LEMMA Pages ==
  /\ None \in Run
  /\ Failed \in Reply
  /\ Cleared \in View
  /\ \A v \in View : AfterError(v) \in View
  /\ \A v \in View, r \in Reply : Rendered(v, r) \in View
<1>0. MaxSessions \in Nat /\ MaxRuns \in Nat
  BY UiAssumption
<1>1. None \in Run
  BY <1>0 DEF None, Run
<1>2. Failed \in Reply
  BY <1>1 DEF Failed, Reply
<1>3. Cleared \in View
  BY <1>0, <1>1 DEF Cleared, View
<1>4. ASSUME NEW v \in View PROVE AfterError(v) \in View
  <2>1. PICK r \in Run, z \in 0..MaxSessions : r = None /\ z = 0
    BY <1>0, <1>1
  <2>2. [v EXCEPT !.code = r, !.validation = r, !.contract = z, !.question = r] \in View
    BY DEF View
  <2> QED
    BY <2>1, <2>2 DEF AfterError
<1>5. ASSUME NEW v \in View, NEW r \in Reply PROVE Rendered(v, r) \in View
  <2>1. r.run \in Run /\ r.run[1] \in 0..MaxSessions
    BY DEF Reply, Run
  <2> QED
    BY <2>1, <1>1 DEF Rendered, View
<1> QED
  BY <1>1, <1>2, <1>3, <1>4, <1>5

\* Nothing is left of a page that was cleared.
LEMMA ClearedStays == AfterError(Cleared) = Cleared
<1>1. \A v \in View : v.code = None /\ v.validation = None /\ v.contract = 0 /\ v.question = None
        => AfterError(v) = v
  BY DEF View, AfterError
<1> QED
  BY <1>1, Pages DEF Cleared

\* The action that Start begins.
Begun(kind, v) ==
  [kind |-> kind, version |-> version + 1, session |-> v.session, task |-> task,
   shown |-> view.question, code |-> view.code, stage |-> "sent", reply |-> Failed]

LEMMA StartTyped ==
  ASSUME Bounded, NEW v \in View, NEW kind \in {"generate", "answer", "revise", "validate"},
         Start(kind, v)
  PROVE  Bounded' /\ Begun(kind, v) \in Action
         /\ actions' = actions \cup {Begun(kind, v)}
<1>0. MaxVersions \in Nat /\ MaxTasks \in Nat /\ MaxSessions \in Nat
  BY UiAssumption
<1>1. actions' = actions \cup {Begun(kind, v)}
  BY DEF Start, Begun
<1>2. Begun(kind, v) \in Action
  BY <1>0, Pages DEF Bounded, TypeOK, Begun, View, Action
<1>3. Bounded'
  <2> HIDE DEF Begun
  <2> QED
    BY <1>0, <1>1, <1>2 DEF Bounded, TypeOK, Start, QuestionsAreOwn
<1> QED
  BY <1>1, <1>2, <1>3

\* An action at its next stage, with the answer to its request.
Moved(a, st, r) == [a EXCEPT !.stage = st, !.reply = r]

\* What the server makes of a request: the run it records and the answer to it.
LEMMA RunRecorded ==
  ASSUME Bounded, NEW a \in actions, ServeRun(a), Talks(a) => a.session \in 1..Len(server)
  PROVE  \E s \in 1..MaxSessions, new \in Session, r \in Reply, b \in Action :
           /\ b = Moved(a, "replied", r)
           /\ actions' = (actions \ {a}) \cup {b}
           /\ a.stage = "sent"
           /\ \/ /\ a.kind = "generate" /\ s = Len(server) + 1
                 /\ server' = Append(server, new)
                 /\ new.task = a.task
              \/ /\ Talks(a) /\ s = a.session
                 /\ server' = [server EXCEPT ![s] = new]
                 /\ new.task = server[s].task
           /\ r.ok => r.run[1] = s
           /\ r.ok /\ r.outcome = "clarification_required" => new.question = r.run
           /\ r.ok => r.run # None
           /\ new.question # None => new.question[1] = s
<1>0. MaxSessions \in Nat /\ MaxRuns \in Nat
  BY UiAssumption
<1>1. a \in Action /\ server \in Seq(Session) /\ Len(server) \in Nat /\ Len(server) <= MaxSessions
  BY DEF Bounded, TypeOK
<1>2. PICK n \in Run : n = None
  BY Pages
<1>3. PICK old \in Session, s \in 1..MaxSessions :
        /\ a.kind = "generate" => old = [task |-> a.task, runs |-> 0, question |-> n] /\ s = Len(server) + 1
        /\ a.kind # "generate" => Talks(a) /\ old = server[a.session] /\ s = a.session
        /\ a.kind = "generate" => Len(server) < MaxSessions
        /\ a.kind # "validate"
  <2>1. CASE a.kind = "generate"
    <3>1. [task |-> a.task, runs |-> 0, question |-> n] \in Session
      BY <1>0, <1>1 DEF Action, Session
    <3>2. Len(server) < MaxSessions /\ Len(server) + 1 \in 1..MaxSessions
      BY <2>1, <1>0, <1>1 DEF ServeRun
    <3> QED
      BY <2>1, <3>1, <3>2
  <2>2. CASE a.kind # "generate"
    <3>1. Talks(a)
      BY <1>1, <2>2 DEF ServeRun, Action, Talks
    <3>2. a.session \in 1..MaxSessions /\ server[a.session] \in Session
      BY <1>0, <1>1, <3>1
    <3> QED
      BY <2>2, <3>1, <3>2 DEF Talks
  <2> QED
    BY <2>1, <2>2
<1>4. old.runs < MaxRuns /\ old.runs + 1 \in 0..MaxRuns
  BY <1>0, <1>2, <1>3 DEF ServeRun, Session
<1>5. PICK run \in Run : run = <<s, old.runs + 1>>
  <2>1. s \in 0..MaxSessions
    BY <1>0
  <2>2. <<s, old.runs + 1>> \in Run
    BY <1>4, <2>1 DEF Run
  <2> QED
    BY <2>2
<1> DEFINE Old == IF a.kind = "generate" THEN [task |-> a.task, runs |-> 0, question |-> None]
                  ELSE server[a.session]
           S   == IF a.kind = "generate" THEN Len(server) + 1 ELSE a.session
           New(o, question, none, outcome) ==
             [o EXCEPT !.runs = @ + 1,
                !.question = IF outcome = "clarification_required" THEN question ELSE none]
<1>6. PICK outcome \in Outcomes, ok \in BOOLEAN :
        /\ server' = IF a.kind = "generate" THEN Append(server, New(Old, <<S, Old.runs + 1>>, None, outcome))
                     ELSE [server EXCEPT ![S] = New(Old, <<S, Old.runs + 1>>, None, outcome)]
        /\ Becomes(a, [a EXCEPT !.stage = "replied",
               !.reply = IF ok THEN [ok |-> TRUE, run |-> <<S, Old.runs + 1>>, outcome |-> outcome]
                         ELSE Failed])
  BY DEF ServeRun, Outcomes
<1>7. Old = old /\ S = s
  BY <1>2, <1>3
<1> HIDE DEF Old, S
<1> DEFINE new == New(old, run, n, outcome)
           r   == IF ok THEN [ok |-> TRUE, run |-> run, outcome |-> outcome] ELSE Failed
           b   == [a EXCEPT !.stage = "replied", !.reply = r]
<1>8. new \in Session /\ new.task = old.task
      /\ (outcome = "clarification_required" => new.question = run)
      /\ new.question \in {run, n}
  BY <1>2, <1>4 DEF Session
<1>9. /\ r \in Reply /\ (r.ok => ok /\ r.run = run /\ r.outcome = outcome)
  BY Pages DEF Reply, Failed, Outcomes
<1>10. b \in Action
  BY <1>1, <1>9, Advance
<1>11. /\ server' = IF a.kind = "generate" THEN Append(server, new)
                    ELSE [server EXCEPT ![s] = new]
       /\ actions' = (actions \ {a}) \cup {b}
  BY <1>2, <1>5, <1>6, <1>7 DEF Becomes
<1>12. run[1] = s /\ run # None
  BY <1>5 DEF None
<1>13. a.stage = "sent"
  BY DEF ServeRun
<1>14. b = Moved(a, "replied", r)
  BY DEF Moved
<1> HIDE DEF new, r, b
<1>15. a.kind = "generate" => new.task = a.task
  BY <1>1, <1>3, <1>8 DEF Action
<1>16. \/ /\ a.kind = "generate" /\ s = Len(server) + 1
          /\ server' = Append(server, new)
          /\ new.task = a.task
       \/ /\ Talks(a) /\ s = a.session
          /\ server' = [server EXCEPT ![s] = new]
          /\ new.task = server[s].task
  BY <1>3, <1>8, <1>11, <1>15
<1>17. (r.ok => r.run[1] = s) /\ (r.ok => r.run # None)
       /\ (r.ok /\ r.outcome = "clarification_required" => new.question = r.run)
       /\ (new.question # None => new.question[1] = s)
  BY <1>2, <1>8, <1>9, <1>12
<1> new \in Session /\ r \in Reply /\ b \in Action
  BY <1>8, <1>9, <1>10
<1> WITNESS s \in 1..MaxSessions, new \in Session, r \in Reply, b \in Action
<1> QED
  BY <1>11, <1>13, <1>14, <1>16, <1>17

\* An answer without a run: the code's validation or the open question once more.
Answers(a, r) ==
  \/ a.kind = "validate" /\ r.run = a.code
  \/ /\ a.kind = "revise" /\ a.session \in 1..Len(server)
     /\ r.run = server[a.session].question /\ r.run[1] = a.session

\* What the server answers without recording a run.
LEMMA Answered ==
  ASSUME Bounded, ActionsAreSound, NEW a \in actions, Decline(a) \/ ServeValidate(a) \/ AskAgain(a)
  PROVE  /\ UNCHANGED <<task, view, busy, version, booting, server>>
         /\ a.stage = "sent"
         /\ \E r \in Reply, b \in Action :
              /\ b = Moved(a, "replied", r)
              /\ actions' = (actions \ {a}) \cup {b}
              /\ r.ok => Answers(a, r)
<1>1. a \in Action /\ a.reply \in Reply /\ a.code \in Run
  BY DEF Bounded, TypeOK, Action
<1>2. UNCHANGED <<task, view, busy, version, booting, server>> /\ a.stage = "sent"
  BY DEF Decline, ServeValidate, AskAgain
<1>3. ~a.reply.ok
  BY <1>2 DEF ActionsAreSound, Sound
<1>4. CASE Decline(a)
  <2>1. Moved(a, "replied", a.reply) \in Action
    BY <1>1, Advance DEF Moved
  <2>2. actions' = (actions \ {a}) \cup {Moved(a, "replied", a.reply)}
    BY <1>1, <1>4, Advance DEF Decline, Becomes, Moved
  <2> QED
    BY <1>1, <1>2, <1>3, <2>1, <2>2
<1>5. CASE ServeValidate(a)
  <2> DEFINE r == [ok |-> TRUE, run |-> a.code, outcome |-> "completed"]
  <2>1. r \in Reply
    BY <1>1 DEF Reply
  <2>2. Moved(a, "replied", r) \in Action
    BY <1>1, <2>1, Advance DEF Moved
  <2>3. actions' = (actions \ {a}) \cup {Moved(a, "replied", r)}
    BY <1>5 DEF ServeValidate, Becomes, Moved
  <2>4. r.run = a.code /\ a.kind = "validate"
    BY <1>5 DEF ServeValidate
  <2> HIDE DEF r
  <2> QED
    BY <1>2, <2>1, <2>2, <2>3, <2>4 DEF Answers
<1>6. CASE AskAgain(a)
  <2>1. a.kind = "revise" /\ server[a.session].question # None
    BY <1>6 DEF AskAgain
  <2>2. a.session \in 1..Len(server)
    <3>1. a.session # 0 /\ a.session <= Len(server)
      BY <2>1 DEF ActionsAreSound, Sound, Talks
    <3>2. a.session \in Nat /\ Len(server) \in Nat
      BY <1>1, UiAssumption DEF Action, Bounded, TypeOK
    <3> QED
      BY <3>1, <3>2
  <2>3. PICK run \in Run : run = server[a.session].question /\ run[1] = a.session
    <3>1. PICK old \in Session : old = server[a.session]
      BY <2>2 DEF Bounded, TypeOK
    <3>2. old.question \in Run
      BY DEF Session
    <3>3. old.question[1] = a.session
      BY <2>1, <2>2, <3>1 DEF Bounded, QuestionsAreOwn
    <3> QED
      BY <3>1, <3>2, <3>3
  <2> DEFINE r == [ok |-> TRUE, run |-> run, outcome |-> "clarification_required"]
  <2>4. r \in Reply /\ r.run = run
    BY DEF Reply
  <2>5. Moved(a, "replied", r) \in Action
    BY <1>1, <2>4, Advance DEF Moved
  <2>6. actions' = (actions \ {a}) \cup {Moved(a, "replied", r)}
    BY <1>6, <2>3 DEF AskAgain, Becomes, Moved
  <2> HIDE DEF r
  <2> QED
    BY <1>2, <2>1, <2>2, <2>3, <2>4, <2>5, <2>6 DEF Answers
<1> QED
  BY <1>4, <1>5, <1>6

\* The fields of an action that moves on.
LEMMA MovedFields ==
  ASSUME NEW a \in Action, NEW st, NEW r, NEW b, b = Moved(a, st, r)
  PROVE  /\ b.kind = a.kind /\ b.version = a.version /\ b.session = a.session
         /\ b.task = a.task /\ b.shown = a.shown /\ b.code = a.code
         /\ b.stage = st /\ b.reply = r
BY DEF Action, Moved

-----------------------------------------------------------------------------
\* A request that talks is about a session that exists.
LEMMA TalksOfSession ==
  ASSUME Bounded, ActionsAreSound, NEW a \in actions
  PROVE  /\ a \in Action
         /\ a.session \in 0..Len(server)
         /\ Talks(a) => a.session \in 1..Len(server)
         /\ a.reply \in Reply
<1>1. a \in Action /\ a.reply \in Reply /\ a.session \in 0..MaxSessions /\ Len(server) \in Nat
  BY DEF Bounded, TypeOK, Action
<1>2. MaxSessions \in Nat
  BY UiAssumption
<1>3. a.session <= Len(server) /\ (Talks(a) => a.session # 0)
  BY DEF ActionsAreSound, Sound
<1> QED
  BY <1>1, <1>2, <1>3

\* The user's actions that begin none: the page is left, with or without what is
\* under way.
Leaves ==
  /\ version' \in Nat /\ version' <= MaxVersions
  /\ task' \in 0..MaxTasks
  /\ actions' = actions /\ server' = server
  /\ \/ version' = version + 1 /\ busy' = FALSE /\ view' = Cleared
     \/ version' = version + 1 /\ ~busy /\ busy' = busy /\ task' = task
          /\ view' = AfterError(view)
     \/ version' = version /\ ~busy /\ busy' = busy /\ view' = view /\ view.session = 0
     \/ version' = version /\ busy' = busy /\ task' = task /\ view' = AfterError(view)

LEMMA UserLeaves ==
  ASSUME TypeOK, Refuse \/ EditPrompt \/ Reset \/ LoadExample \/ BootFails
  PROVE  Leaves /\ booting' \in BOOLEAN
<1> MaxVersions \in Nat /\ MaxTasks \in Nat
  BY UiAssumption
<1> USE DEF TypeOK, Leaves
<1>1. CASE Refuse BY <1>1 DEF Refuse
<1>2. CASE EditPrompt
  <2>1. /\ version' \in Nat /\ version' <= MaxVersions /\ task' \in 0..MaxTasks
        /\ actions' = actions /\ server' = server /\ booting' = booting
    BY <1>2 DEF EditPrompt, Invalidate
  <2>2. CASE busy \/ view.session # 0
    BY <1>2, <2>1, <2>2 DEF EditPrompt, Invalidate
  <2>3. CASE ~(busy \/ view.session # 0)
    BY <1>2, <2>1, <2>3, Zenon DEF EditPrompt
  <2> QED
    BY <2>2, <2>3
<1>3. CASE Reset BY <1>3 DEF Reset, Invalidate
<1>4. CASE LoadExample
  <2>1. booting' \in BOOLEAN
    BY <1>4, Zenon DEF LoadExample
  <2>2. version' = version + 1 /\ busy' = FALSE /\ view' = Cleared /\ actions' = actions
        /\ server' = server /\ version < MaxVersions /\ task < MaxTasks /\ task' = task + 1
    BY <1>4 DEF LoadExample, Invalidate
  <2> QED
    BY <2>1, <2>2
<1>5. CASE BootFails
  <2>1. booting' \in BOOLEAN
    BY <1>5, Zenon DEF BootFails
  <2>2. version' = version /\ busy' = busy /\ task' = task /\ view' = AfterError(view)
        /\ actions' = actions /\ server' = server
    BY <1>5 DEF BootFails
  <2> QED
    BY <2>1, <2>2
<1> QED
  BY <1>1, <1>2, <1>3, <1>4, <1>5

\* The user's actions that begin a request, and of what page.
Begins(kind, v) ==
  /\ Start(kind, v)
  /\ \/ kind = "generate" /\ v = Cleared
     \/ kind \in {"answer", "revise"} /\ v = view /\ view.session # 0
     \/ kind = "validate" /\ v = view /\ view.code # None

LEMMA UserBegins ==
  ASSUME TypeOK, Generate \/ Continue \/ Feedback \/ Validate
  PROVE  \E kind \in {"generate", "answer", "revise", "validate"}, v \in View : Begins(kind, v)
<1>1. Cleared \in View /\ view \in View
  BY Pages DEF TypeOK
<1> QED
  BY <1>1 DEF Generate, Continue, Feedback, Validate, Begins

\* The page's callbacks: which end the action and which let it go on, and what they
\* show.
Goes(a, st) ==
  /\ actions' = (actions \ {a}) \cup {Moved(a, st, a.reply)}
  /\ busy' = busy

LEMMA PageResumes ==
  ASSUME Bounded, ActionsAreSound, NEW a \in actions,
         Fail(a) \/ Deliver(a) \/ RefreshSession(a) \/ RefreshTrace(a)
  PROVE  /\ UNCHANGED <<task, version, booting, server>>
         /\ \/ End(a) /\ a.stage \in {"replied", "trace"} /\ view' = view
                 /\ (a.stage = "replied" => ~IsCurrent(a) \/ (Talks(a) /\ view.session # a.session))
            \/ End(a) /\ a.stage = "replied" /\ IsCurrent(a) /\ view' = AfterError(view)
            \/ End(a) /\ a.stage = "replied" /\ a.kind = "validate" /\ a.reply.ok /\ IsCurrent(a)
                 /\ view' = [view EXCEPT !.validation = a.reply.run]
            \/ Goes(a, "session") /\ Brings(a) /\ IsCurrent(a)
                 /\ (Talks(a) => view.session = a.session)
                 /\ view' = Rendered(view, a.reply)
            \/ Goes(a, "trace") /\ a.stage = "session" /\ view' = view
            \/ Goes(a, "trace") /\ a.stage = "session" /\ IsCurrent(a)
                 /\ view.session = a.reply.run[1]
                 /\ view' = [view EXCEPT !.sessionPanel = a.reply.run[1]]
            \/ End(a) /\ a.stage = "trace" /\ IsCurrent(a) /\ view.trace = a.reply.run
                 /\ view' = [view EXCEPT !.tracePanel = a.reply.run]
<1>1. a \in Action /\ a.reply \in Reply
  BY TalksOfSession
<1>2. ASSUME NEW st \in {"session", "trace"}
      PROVE  [a EXCEPT !.stage = st] = Moved(a, st, a.reply)
  BY <1>1, Advance DEF Moved
<1>3. CASE Fail(a)
  BY <1>3 DEF Fail
<1>4. CASE Deliver(a)
  BY <1>2, <1>4 DEF Deliver, Abandoned, Talks, Brings, Goes, Becomes
<1>5. CASE RefreshSession(a)
  BY <1>2, <1>5 DEF RefreshSession, Goes, Becomes
<1>6. CASE RefreshTrace(a)
  BY <1>6 DEF RefreshTrace
<1> QED
  BY <1>3, <1>4, <1>5, <1>6
-----------------------------------------------------------------------------
\* Every step keeps the types, and the sessions within their bound.
LEMMA BoundedStep == Bounded /\ ActionsAreSound /\ [Next]_vars => Bounded'
<1> SUFFICES ASSUME Bounded, ActionsAreSound, [Next]_vars PROVE Bounded'
  OBVIOUS
<1>0. MaxVersions \in Nat /\ MaxTasks \in Nat /\ MaxSessions \in Nat
  BY UiAssumption
<1>1. CASE Generate \/ Continue \/ Feedback \/ Validate
  BY <1>1, UserBegins, StartTyped DEF Begins, Bounded
<1>2. CASE Refuse \/ EditPrompt \/ Reset \/ LoadExample \/ BootFails
  <2>1. Leaves /\ booting' \in BOOLEAN
    BY <1>2, UserLeaves DEF Bounded
  <2>2. view' \in View
    BY <2>1, Pages DEF Leaves, Bounded, TypeOK
  <2>3. busy' \in BOOLEAN
    BY <2>1, Zenon DEF Leaves, Bounded, TypeOK
  <2> QED
    BY <1>0, <2>1, <2>2, <2>3 DEF Leaves, Bounded, TypeOK, QuestionsAreOwn
<1>3. ASSUME NEW a \in actions, ServeRun(a) PROVE Bounded'
  <2>1. PICK s \in 1..MaxSessions, new \in Session, b \in Action :
          /\ actions' = (actions \ {a}) \cup {b}
          /\ \/ server' = Append(server, new) /\ s = Len(server) + 1
             \/ server' = [server EXCEPT ![s] = new]
          /\ new.question # None => new.question[1] = s
    BY <1>3, RunRecorded, TalksOfSession
  <2>2. UNCHANGED <<task, view, busy, version, booting>>
    BY <1>3 DEF ServeRun
  <2>3. server' \in Seq(Session) /\ Len(server') <= MaxSessions
    BY <1>0, <2>1 DEF Bounded, TypeOK
  <2>4. QuestionsAreOwn'
    BY <2>1 DEF Bounded, TypeOK, QuestionsAreOwn
  <2> QED
    BY <2>1, <2>2, <2>3, <2>4 DEF Bounded, TypeOK
<1>4. ASSUME NEW a \in actions, Decline(a) \/ ServeValidate(a) \/ AskAgain(a) PROVE Bounded'
  BY <1>4, Answered DEF Bounded, TypeOK, QuestionsAreOwn
<1>5. ASSUME NEW a \in actions,
             Fail(a) \/ Deliver(a) \/ RefreshSession(a) \/ RefreshTrace(a)
      PROVE  Bounded'
  <2>1. a \in Action /\ a.reply \in Reply /\ view \in View
    BY TalksOfSession DEF Bounded, TypeOK
  <2>2. a.reply.run \in Run /\ a.reply.run[1] \in 0..MaxSessions
    BY <2>1 DEF Reply, Run
  <2>3. ASSUME NEW st \in {"session", "trace"} PROVE Moved(a, st, a.reply) \in Action
    BY <2>1, Advance DEF Moved
  <2>4. actions' \subseteq Action
    BY <1>5, <2>3, PageResumes DEF Goes, End, Bounded, TypeOK
  <2>5. view' \in View
    <3>1. /\ [view EXCEPT !.validation = a.reply.run] \in View
          /\ [view EXCEPT !.sessionPanel = a.reply.run[1]] \in View
          /\ [view EXCEPT !.tracePanel = a.reply.run] \in View
      BY <2>1, <2>2 DEF View
    <3> QED
      BY <1>5, <2>1, <3>1, PageResumes, Pages
  <2>6. busy' \in BOOLEAN
    <3>1. End(a) \/ busy' = busy
      BY <1>5, PageResumes DEF Goes
    <3> QED
      BY <3>1, Zenon DEF End, Bounded, TypeOK
  <2>7. UNCHANGED <<task, version, booting, server>>
    BY <1>5, PageResumes
  <2> QED
    BY <2>4, <2>5, <2>6, <2>7 DEF Bounded, TypeOK, QuestionsAreOwn
<1>6. CASE UNCHANGED vars
  BY <1>6 DEF vars, Bounded, TypeOK, QuestionsAreOwn
<1> QED
  BY <1>1, <1>2, <1>3, <1>4, <1>5, <1>6 DEF Next, Step

\* Every step leaves at most one request current, and the page busy exactly then.
LEMMA BusyStep ==
  Bounded /\ ActionsAreSound /\ BusyIsCurrent /\ [Next]_vars => BusyIsCurrent'
<1> SUFFICES ASSUME Bounded, ActionsAreSound, BusyIsCurrent, [Next]_vars PROVE BusyIsCurrent'
  OBVIOUS
<1>0. /\ version \in Nat /\ actions \subseteq Action
      /\ \A a \in actions : a.version \in Nat /\ a.version <= version
  BY DEF Bounded, TypeOK, Action, ActionsAreSound, Sound
<1>1. ASSUME NEW kind \in {"generate", "answer", "revise", "validate"}, NEW v \in View,
             Begins(kind, v)
      PROVE  BusyIsCurrent'
  <2>1. actions' = actions \cup {Begun(kind, v)} /\ busy' = TRUE /\ version' = version + 1
    BY <1>1, StartTyped DEF Begins, Start
  <2>2. Begun(kind, v).version = version + 1
    BY DEF Begun
  <2> QED
    BY <1>0, <2>1, <2>2 DEF BusyIsCurrent, IsCurrent
<1>2. CASE Leaves
  <2>1. CASE version' = version + 1
    <3>1. ~busy'
      BY <1>2, <2>1, <1>0 DEF Leaves
    <3>2. \A a \in actions' : a.version # version'
      BY <1>2, <2>1, <1>0 DEF Leaves
    <3> QED
      BY <3>1, <3>2, <1>2, Zenon DEF Leaves, BusyIsCurrent, IsCurrent
  <2>2. CASE version' = version
    <3>1. busy' = busy /\ actions' = actions
      BY <1>2, <2>2, <1>0 DEF Leaves
    <3> QED
      BY <2>2, <3>1, Zenon DEF BusyIsCurrent, IsCurrent
  <2> QED
    BY <1>2, <2>1, <2>2 DEF Leaves
<1>3. ASSUME NEW a \in actions, NEW b, b.version = a.version,
             actions' = (actions \ {a}) \cup {b}, busy' = busy, version' = version
      PROVE  BusyIsCurrent'
  <2>1. (\E c \in actions' : c.version = version) <=> (\E c \in actions : c.version = version)
    BY <1>3
  <2>2. \A c, d \in actions' : c.version = d.version => c = d
    BY <1>3 DEF BusyIsCurrent
  <2> QED
    BY <1>3, <2>1, <2>2, Zenon DEF BusyIsCurrent, IsCurrent
<1>4. ASSUME NEW a \in actions, End(a), version' = version PROVE BusyIsCurrent'
  <2>1. \A c, d \in actions' : c.version = d.version => c = d
    BY <1>4 DEF End, BusyIsCurrent
  <2>2. CASE IsCurrent(a)
    <3>1. ~busy' /\ \A c \in actions' : c.version # version
      BY <1>4, <2>2 DEF End, BusyIsCurrent, IsCurrent
    <3> QED
      BY <1>4, <2>1, <3>1, Zenon DEF BusyIsCurrent, IsCurrent
  <2>3. CASE ~IsCurrent(a)
    <3>1. busy' = busy
      BY <1>4, <2>3, Zenon DEF End
    <3>2. (\E c \in actions' : c.version = version) <=> (\E c \in actions : c.version = version)
      BY <1>4, <2>3 DEF End, IsCurrent
    <3> QED
      BY <1>4, <2>1, <3>1, <3>2, Zenon DEF BusyIsCurrent, IsCurrent
  <2> QED
    BY <2>2, <2>3
<1>5. ASSUME NEW a \in actions, ServeRun(a) PROVE BusyIsCurrent'
  <2>1. a \in Action /\ (Talks(a) => a.session \in 1..Len(server))
    BY TalksOfSession
  <2>2. PICK r \in Reply, b \in Action :
          b = Moved(a, "replied", r) /\ actions' = (actions \ {a}) \cup {b}
    BY <1>5, <2>1, RunRecorded
  <2>3. b.version = a.version
    BY <2>1, <2>2, MovedFields
  <2>4. busy' = busy /\ version' = version
    BY <1>5 DEF ServeRun
  <2> QED
    BY <1>3, <2>2, <2>3, <2>4
<1>6. ASSUME NEW a \in actions, Decline(a) \/ ServeValidate(a) \/ AskAgain(a) PROVE BusyIsCurrent'
  <2>1. PICK r \in Reply, b \in Action :
          b = Moved(a, "replied", r) /\ actions' = (actions \ {a}) \cup {b}
    BY <1>6, Answered
  <2>2. b.version = a.version
    BY <2>1, TalksOfSession, MovedFields
  <2>3. busy' = busy /\ version' = version
    BY <1>6, Answered
  <2> QED
    BY <1>3, <2>1, <2>2, <2>3
<1>7. ASSUME NEW a \in actions,
             Fail(a) \/ Deliver(a) \/ RefreshSession(a) \/ RefreshTrace(a)
      PROVE  BusyIsCurrent'
  <2>1. version' = version /\ (End(a) \/ Goes(a, "session") \/ Goes(a, "trace"))
    BY <1>7, PageResumes
  <2>2. ASSUME NEW st \in {"session", "trace"}, Goes(a, st) PROVE BusyIsCurrent'
    <3>1. Moved(a, st, a.reply).version = a.version
      BY MovedFields, TalksOfSession
    <3> QED
      BY <1>3, <2>1, <2>2, <3>1 DEF Goes
  <2> QED
    BY <1>4, <2>1, <2>2
<1>8. CASE UNCHANGED vars
  BY <1>8, Zenon DEF vars, BusyIsCurrent, IsCurrent
<1> QED
  BY <1>1, <1>2, <1>5, <1>6, <1>7, <1>8, UserBegins, UserLeaves DEF Next, Step, Bounded

\* What a step of the server leaves of its sessions.
Grows == /\ Len(server) <= Len(server')
         /\ \A s \in 1..Len(server) : server'[s].task = server[s].task

LEMMA ServerGrows ==
  ASSUME Bounded, ActionsAreSound, NEW a \in actions, ServeRun(a)
  PROVE  Grows
<1>1. (Talks(a) => a.session \in 1..Len(server)) /\ server \in Seq(Session)
  BY TalksOfSession DEF Bounded, TypeOK
<1>2. PICK s \in 1..MaxSessions, new \in Session :
        \/ server' = Append(server, new)
        \/ /\ server' = [server EXCEPT ![s] = new] /\ new.task = server[s].task
           /\ s \in 1..Len(server)
  BY <1>1, RunRecorded
<1> QED
  BY <1>1, <1>2 DEF Grows

LEMMA StillSound ==
  ASSUME Bounded, NEW a \in actions, Sound(a), Grows, version' \in Nat, version <= version'
  PROVE  Sound(a)'
<1>1. a \in Action /\ a.session \in Nat /\ a.version \in Nat /\ version \in Nat
      /\ Len(server) \in Nat /\ Len(server) <= Len(server')
  BY UiAssumption DEF Bounded, TypeOK, Action, Grows
<1>2. Len(server') \in Nat
  OBVIOUS
<1> QED
  BY <1>1 DEF Sound, Grows, Talks

\* Every step keeps the actions sound.
LEMMA SoundStep ==
  Bounded /\ Bounded' /\ ActionsAreSound /\ PageIsSound /\ [Next]_vars => ActionsAreSound'
<1> SUFFICES ASSUME Bounded, Bounded', ActionsAreSound, PageIsSound, [Next]_vars
             PROVE  ActionsAreSound'
  OBVIOUS
<1>0. /\ version \in Nat /\ version' \in Nat /\ server \in Seq(Session)
      /\ Len(server) \in Nat /\ Len(server') \in Nat
  BY DEF Bounded, TypeOK
<1>1. ASSUME NEW kind \in {"generate", "answer", "revise", "validate"}, NEW v \in View,
             Begins(kind, v)
      PROVE  ActionsAreSound'
  <2>1. /\ actions' = actions \cup {Begun(kind, v)} /\ version' = version + 1
        /\ server' = server
    BY <1>1, StartTyped DEF Begins, Start
  <2>2. Grows
    BY <1>0, <2>1 DEF Grows
  <2>3. PICK b : b = Begun(kind, v)
    OBVIOUS
  <2>4. /\ b.kind = kind /\ b.version = version + 1 /\ b.session = v.session /\ b.task = task
        /\ b.code = view.code /\ b.stage = "sent" /\ ~b.reply.ok
    BY <2>3 DEF Begun, Failed
  <2>5. Sound(b)'
    <3>1. CASE kind = "generate"
      <4>1. v.session = 0
        BY <1>1, <3>1 DEF Begins, Cleared
      <4> QED
        BY <1>0, <2>1, <2>4, <3>1, <4>1 DEF Sound, Talks
    <3>2. CASE kind # "generate"
      <4>1. v = view /\ (kind = "validate" => view.code # None)
            /\ (kind # "validate" => view.session # 0)
        BY <1>1, <3>2 DEF Begins
      <4>2. view.session \in Nat /\ view.session <= Len(server)
            /\ (view.session # 0 => server[view.session].task = task)
            /\ (view.code # None => view.code[1] = view.session)
        BY DEF PageIsSound, PageIsOfTask, Bounded, TypeOK, View
      <4> QED
        BY <1>0, <2>1, <2>4, <3>2, <4>1, <4>2 DEF Sound, Talks
    <3> QED
      BY <3>1, <3>2
  <2> QED
    BY <1>0, <2>1, <2>2, <2>3, <2>5, StillSound DEF ActionsAreSound
<1>2. ASSUME actions' \subseteq actions, server' = server, version' \in {version, version + 1}
      PROVE  ActionsAreSound'
  <2>1. Grows
    BY <1>0, <1>2 DEF Grows
  <2> QED
    BY <1>0, <1>2, <2>1, StillSound DEF ActionsAreSound
<1>3. ASSUME NEW a \in actions, ServeRun(a) PROVE ActionsAreSound'
  <2>1. a \in Action /\ (Talks(a) => a.session \in 1..Len(server)) /\ Sound(a)
    BY TalksOfSession DEF ActionsAreSound
  <2>2. PICK s \in 1..MaxSessions, new \in Session, r \in Reply, b \in Action :
          /\ b = Moved(a, "replied", r)
          /\ actions' = (actions \ {a}) \cup {b}
          /\ \/ /\ a.kind = "generate" /\ s = Len(server) + 1
                /\ server' = Append(server, new) /\ new.task = a.task
             \/ /\ Talks(a) /\ s = a.session
                /\ server' = [server EXCEPT ![s] = new] /\ new.task = server[s].task
          /\ r.ok => r.run[1] = s
    BY <1>3, <2>1, RunRecorded
  <2>3. /\ b.kind = a.kind /\ b.version = a.version /\ b.session = a.session
        /\ b.task = a.task /\ b.code = a.code /\ b.stage = "replied" /\ b.reply = r
    BY <2>1, <2>2, MovedFields
  <2>4. Grows /\ version' = version
    BY <1>3, ServerGrows DEF ServeRun
  <2>5. Sound(a)'
    BY <1>0, <2>1, <2>4, StillSound
  <2>6. s \in 1..Len(server') /\ server'[s].task = a.task
    BY <1>0, <2>1, <2>2 DEF Sound, Talks
  <2>7. Sound(b)'
    BY <2>2, <2>3, <2>5, <2>6 DEF Sound, Talks
  <2> QED
    BY <1>0, <2>2, <2>4, <2>7, StillSound DEF ActionsAreSound
<1>4. ASSUME NEW a \in actions, NEW st \in {"replied", "session", "trace"}, NEW r \in Reply,
             actions' = (actions \ {a}) \cup {Moved(a, st, r)},
             server' = server, version' = version,
             r.ok => r = a.reply \/ Answers(a, r),
             st # "replied" => r.ok /\ a.kind # "validate"
      PROVE  ActionsAreSound'
  <2>1. a \in Action /\ Sound(a)
    BY TalksOfSession DEF ActionsAreSound
  <2>2. Grows
    BY <1>0, <1>4 DEF Grows
  <2>3. PICK b : b = Moved(a, st, r)
    OBVIOUS
  <2>4. /\ b.kind = a.kind /\ b.version = a.version /\ b.session = a.session
        /\ b.task = a.task /\ b.code = a.code /\ b.stage = st /\ b.reply = r
    BY <2>1, <2>3, MovedFields
  <2>5. Sound(a)'
    BY <1>0, <1>4, <2>1, <2>2, StillSound
  <2>6. Sound(b)'
    BY <1>4, <2>4, <2>5 DEF Sound, Talks, Answers
  <2> QED
    BY <1>0, <1>4, <2>2, <2>3, <2>6, StillSound DEF ActionsAreSound
<1>5. ASSUME NEW a \in actions, Decline(a) \/ ServeValidate(a) \/ AskAgain(a) PROVE ActionsAreSound'
  BY <1>4, <1>5, Answered
<1>6. ASSUME NEW a \in actions,
             Fail(a) \/ Deliver(a) \/ RefreshSession(a) \/ RefreshTrace(a)
      PROVE  ActionsAreSound'
  <2>1. a.reply \in Reply /\ Sound(a)
    BY TalksOfSession DEF ActionsAreSound
  <2>2. version' = version /\ server' = server
        /\ (End(a) \/ (Goes(a, "session") /\ Brings(a)) \/ (Goes(a, "trace") /\ a.stage = "session"))
    BY <1>6, PageResumes
  <2>3. CASE End(a)
    BY <1>2, <2>2, <2>3 DEF End
  <2>4. CASE Goes(a, "session") /\ Brings(a)
    BY <1>4, <2>1, <2>2, <2>4 DEF Goes, Brings
  <2>5. CASE Goes(a, "trace") /\ a.stage = "session"
    BY <1>4, <2>1, <2>2, <2>5 DEF Goes, Sound
  <2> QED
    BY <2>2, <2>3, <2>4, <2>5
<1>7. CASE Leaves
  BY <1>0, <1>2, <1>7 DEF Leaves
<1>8. CASE UNCHANGED vars
  BY <1>2, <1>8 DEF vars
<1> QED
  BY <1>1, <1>3, <1>5, <1>6, <1>7, <1>8, UserBegins, UserLeaves DEF Next, Step, Bounded

\* What a page's callback does to the current action and to the page.
LEMMA PageOfCurrent ==
  ASSUME Bounded, ActionsAreSound, BusyIsCurrent, NEW a \in actions,
         Fail(a) \/ Deliver(a) \/ RefreshSession(a) \/ RefreshTrace(a)
  PROVE  /\ UNCHANGED <<task, version, server>>
         /\ view' = view \/ IsCurrent(a)
         /\ \A c \in actions' :
              \/ c \in actions /\ c # a
              \/ c.version = a.version /\ c.stage \in {"session", "trace"} /\ c.task = a.task
<1>1. a \in Action
  BY TalksOfSession
<1>2. UNCHANGED <<task, version, server>> /\ (view' = view \/ IsCurrent(a))
      /\ (End(a) \/ Goes(a, "session") \/ Goes(a, "trace"))
  BY PageResumes
<1>3. ASSUME NEW st \in {"session", "trace"}, Goes(a, st), NEW c \in actions'
      PROVE  \/ c \in actions /\ c # a
             \/ c.version = a.version /\ c.stage \in {"session", "trace"} /\ c.task = a.task
  <2>1. CASE c \in actions /\ c # a
    BY <2>1
  <2>2. CASE c = Moved(a, st, a.reply)
    <3>1. c.version = a.version /\ c.stage = st /\ c.task = a.task
      BY <1>1, <2>2, MovedFields
    <3> QED
      BY <3>1
  <2> QED
    BY <1>3, <2>1, <2>2 DEF Goes
<1>4. ASSUME End(a), NEW c \in actions' PROVE c \in actions /\ c # a
  BY <1>4 DEF End
<1> QED
  BY <1>2, <1>3, <1>4

\* Every step leaves the current action the page it expects.
LEMMA FitsStep ==
  Bounded /\ ActionsAreSound /\ BusyIsCurrent /\ CurrentFits /\ [Next]_vars => CurrentFits'
<1> SUFFICES ASSUME Bounded, ActionsAreSound, BusyIsCurrent, CurrentFits, [Next]_vars
             PROVE  CurrentFits'
  OBVIOUS
<1>0. /\ version \in Nat /\ actions \subseteq Action /\ view \in View
      /\ \A a \in actions : a.version \in Nat /\ a.version <= version
  BY DEF Bounded, TypeOK, Action, ActionsAreSound, Sound
<1>1. ASSUME NEW kind \in {"generate", "answer", "revise", "validate"}, NEW v \in View,
             Begins(kind, v)
      PROVE  CurrentFits'
  <2>1. actions' = actions \cup {Begun(kind, v)} /\ version' = version + 1
        /\ view' = v /\ task' = task
    BY <1>1, StartTyped DEF Begins, Start
  <2>2. PICK b : b = Begun(kind, v)
    OBVIOUS
  <2>3. b.kind = kind /\ b.version = version + 1 /\ b.session = v.session /\ b.task = task
    BY <2>2 DEF Begun
  <2>4. kind = "generate" => v = Cleared
    BY <1>1 DEF Begins
  <2> QED
    BY <1>0, <2>1, <2>2, <2>3, <2>4 DEF CurrentFits, IsCurrent, Fits
<1>2. CASE Leaves
  <2>1. CASE version' = version + 1
    BY <1>0, <1>2, <2>1 DEF Leaves, CurrentFits, IsCurrent
  <2>2. CASE version' = version /\ ~busy
    BY <1>0, <1>2, <2>2 DEF Leaves, CurrentFits, BusyIsCurrent, IsCurrent
  <2>3. CASE version' = version /\ task' = task /\ view' = AfterError(view)
    <3>1. view'.session = view.session
      BY <1>0, <2>3 DEF AfterError, View
    <3>2. view = Cleared => view' = Cleared
      BY <2>3, ClearedStays
    <3> QED
      BY <1>2, <2>3, <3>1, <3>2 DEF Leaves, CurrentFits, IsCurrent, Fits
  <2> QED
    BY <1>0, <1>2, <2>1, <2>2, <2>3 DEF Leaves
<1>3. ASSUME NEW a \in actions, NEW r, NEW b, b = Moved(a, "replied", r), a.stage = "sent",
             actions' = (actions \ {a}) \cup {b}, UNCHANGED <<task, view, version>>
      PROVE  CurrentFits'
  <2>1. b.kind = a.kind /\ b.version = a.version /\ b.session = a.session /\ b.task = a.task
    BY <1>0, <1>3, MovedFields
  <2> QED
    BY <1>3, <2>1 DEF CurrentFits, IsCurrent, Fits
<1>4. ASSUME NEW a \in actions, ServeRun(a) PROVE CurrentFits'
  <2>1. \E r \in Reply, b \in Action : b = Moved(a, "replied", r) /\ a.stage = "sent"
          /\ actions' = (actions \ {a}) \cup {b}
    BY <1>4, TalksOfSession, RunRecorded
  <2>2. UNCHANGED <<task, view, version>>
    BY <1>4 DEF ServeRun
  <2> QED
    BY <1>3, <2>1, <2>2
<1>5. ASSUME NEW a \in actions, Decline(a) \/ ServeValidate(a) \/ AskAgain(a) PROVE CurrentFits'
  BY <1>3, <1>5, Answered
<1>6. ASSUME NEW a \in actions,
             Fail(a) \/ Deliver(a) \/ RefreshSession(a) \/ RefreshTrace(a)
      PROVE  CurrentFits'
  <2> SUFFICES ASSUME NEW c \in actions', c.version = version' PROVE Fits(c)'
    BY DEF CurrentFits, IsCurrent
  <2>1. CASE c \in actions /\ c # a
    <3>1. IsCurrent(c) /\ ~IsCurrent(a)
      BY <1>6, <2>1, PageOfCurrent DEF BusyIsCurrent, IsCurrent
    <3> QED
      BY <1>6, <2>1, <3>1, PageOfCurrent DEF CurrentFits, Fits
  <2>2. CASE c.version = a.version /\ c.stage \in {"session", "trace"} /\ c.task = a.task
    BY <1>6, <2>2, PageOfCurrent DEF CurrentFits, Fits, IsCurrent
  <2> QED
    BY <1>6, <2>1, <2>2, PageOfCurrent
<1>7. CASE UNCHANGED vars
  BY <1>7 DEF vars, CurrentFits, Fits, IsCurrent
<1> QED
  BY <1>1, <1>2, <1>4, <1>5, <1>6, <1>7, UserBegins, UserLeaves DEF Next, Step, Bounded

\* The page, field by field.
OfSession(v) ==
  /\ v.trace # None => v.trace[1] = v.session
  /\ v.code # None => v.code[1] = v.session
  /\ v.question # None => v.question[1] = v.session /\ v.session # 0
  /\ v.validation # None => v.validation[1] = v.session
  /\ v.tracePanel # None => v.tracePanel[1] = v.session
  /\ v.contract = 0 \/ v.contract = v.session
  /\ v.sessionPanel = 0 \/ v.sessionPanel = v.session

LEMMA PageFields ==
  PageIsSound <=> /\ view.session <= Len(server)
                  /\ view.session # 0 => server[view.session].task = task
                  /\ OfSession(view)
BY DEF PageIsSound, PageIsOfTask, OfSession

LEMMA PageFieldsNext ==
  PageIsSound' <=> /\ view'.session <= Len(server')
                   /\ view'.session # 0 => server'[view'.session].task = task'
                   /\ OfSession(view')
BY DEF PageIsSound, PageIsOfTask, OfSession

LEMMA PagesOfSession ==
  /\ Cleared.session = 0 /\ OfSession(Cleared)
  /\ \A v \in View : OfSession(v) => /\ AfterError(v).session = v.session
                                     /\ OfSession(AfterError(v))
BY DEF Cleared, OfSession, AfterError, View

\* Every step keeps the page about its task and its session.
LEMMA PageStep ==
  Bounded /\ ActionsAreSound /\ BusyIsCurrent /\ CurrentFits /\ PageIsSound /\ [Next]_vars
    => PageIsSound'
<1> SUFFICES ASSUME Bounded, ActionsAreSound, BusyIsCurrent, CurrentFits, PageIsSound,
                    [Next]_vars
             PROVE  PageIsSound'
  OBVIOUS
<1>0. /\ view \in View /\ view.session \in Nat /\ Len(server) \in Nat
      /\ view.session <= Len(server) /\ OfSession(view)
      /\ view.session # 0 => server[view.session].task = task
  BY PageFields DEF Bounded, TypeOK, View
<1>1. ASSUME NEW kind, NEW v, Begins(kind, v) PROVE PageIsSound'
  <2>1. view' = v /\ (v = Cleared \/ v = view) /\ task' = task /\ server' = server
    BY <1>1 DEF Begins, Start
  <2> QED
    BY <1>0, <2>1, PagesOfSession, PageFieldsNext
<1>2. CASE Leaves
  <2>1. \/ view' = Cleared
        \/ view' = AfterError(view) /\ task' = task
        \/ view' = view /\ view.session = 0
    BY <1>2 DEF Leaves
  <2>2. server' = server
    BY <1>2 DEF Leaves
  <2> QED
    BY <1>0, <2>1, <2>2, PagesOfSession, PageFieldsNext
<1>3. ASSUME NEW a \in actions, ServeRun(a) PROVE PageIsSound'
  <2>1. view' = view /\ task' = task /\ Grows
    BY <1>3, ServerGrows DEF ServeRun
  <2>2. Len(server') \in Nat /\ Len(server) <= Len(server')
    BY <1>3, <2>1, BoundedStep DEF Bounded, TypeOK, Grows, Next, Step
  <2> QED
    BY <1>0, <2>1, <2>2, PageFieldsNext DEF Grows
<1>4. ASSUME NEW a \in actions,
             Fail(a) \/ Deliver(a) \/ RefreshSession(a) \/ RefreshTrace(a)
      PROVE  PageIsSound'
  <2>0. a \in Action /\ a.reply \in Reply /\ Sound(a) /\ (IsCurrent(a) => Fits(a))
        /\ task' = task /\ server' = server
    BY <1>4, TalksOfSession, PageResumes DEF ActionsAreSound, CurrentFits
  <2>1. CASE view' = view \/ view' = AfterError(view)
    BY <1>0, <2>0, <2>1, PagesOfSession, PageFieldsNext
  <2>2. CASE /\ a.stage = "replied" /\ a.kind = "validate" /\ a.reply.ok /\ IsCurrent(a)
             /\ view' = [view EXCEPT !.validation = a.reply.run]
    <3>1. a.reply.run[1] = view.session
      BY <2>0, <2>2 DEF Sound, Fits
    <3>2. view'.session = view.session /\ OfSession(view')
      BY <1>0, <2>2, <3>1 DEF OfSession, View
    <3> QED
      BY <1>0, <2>0, <3>2, PageFieldsNext
  <2>3. CASE /\ Brings(a) /\ IsCurrent(a) /\ (Talks(a) => view.session = a.session)
             /\ view' = Rendered(view, a.reply)
    <3>1. a.reply.run[1] \in 1..Len(server) /\ server[a.reply.run[1]].task = task
      BY <2>0, <2>3 DEF Sound, Fits, Brings
    <3>2. \/ view = Cleared
          \/ view.session = a.reply.run[1]
      BY <2>0, <2>3 DEF Sound, Fits, Brings, Talks, Action
    <3>3. /\ view'.session = a.reply.run[1] /\ view'.trace = a.reply.run
          /\ view'.contract = a.reply.run[1]
          /\ view'.code \in {a.reply.run, None} /\ view'.question \in {a.reply.run, None}
          /\ view'.validation \in {a.reply.run, None}
          /\ view'.sessionPanel = view.sessionPanel /\ view'.tracePanel = view.tracePanel
      BY <1>0, <2>3 DEF Rendered, View
    <3>4. view.sessionPanel \in {0, a.reply.run[1]}
          /\ (view.tracePanel # None => view.tracePanel[1] = a.reply.run[1])
      BY <1>0, <3>2 DEF OfSession, Cleared
    <3>5. OfSession(view')
      BY <3>1, <3>3, <3>4 DEF OfSession
    <3> QED
      BY <1>0, <2>0, <3>1, <3>3, <3>5, PageFieldsNext
  <2>4. CASE /\ view.session = a.reply.run[1]
             /\ view' = [view EXCEPT !.sessionPanel = a.reply.run[1]]
    <3>1. view'.session = view.session /\ OfSession(view')
      BY <1>0, <2>4 DEF OfSession, View
    <3> QED
      BY <1>0, <2>0, <3>1, PageFieldsNext
  <2>5. CASE view.trace = a.reply.run /\ view' = [view EXCEPT !.tracePanel = a.reply.run]
    <3>1. view'.session = view.session /\ OfSession(view')
      BY <1>0, <2>5 DEF OfSession, View
    <3> QED
      BY <1>0, <2>0, <3>1, PageFieldsNext
  <2> QED
    BY <1>4, <2>1, <2>2, <2>3, <2>4, <2>5, PageResumes
<1>5. ASSUME UNCHANGED <<task, view, server>> PROVE PageIsSound'
  BY <1>0, <1>5, PageFieldsNext
<1>6. ASSUME NEW a \in actions, Decline(a) \/ ServeValidate(a) \/ AskAgain(a) PROVE PageIsSound'
  BY <1>5, <1>6, Answered
<1>7. CASE UNCHANGED vars
  BY <1>5, <1>7 DEF vars
<1> QED
  BY <1>1, <1>2, <1>3, <1>4, <1>6, <1>7, UserBegins, UserLeaves DEF Next, Step, Bounded

\* Every step keeps the requests that continue a session apart.
LEMMA ApartStep ==
  Bounded /\ ActionsAreSound /\ BusyIsCurrent /\ CurrentFits /\ SessionsAreApart /\ [Next]_vars
    => SessionsAreApart'
<1> SUFFICES ASSUME Bounded, ActionsAreSound, BusyIsCurrent, CurrentFits, SessionsAreApart,
                    [Next]_vars
             PROVE  SessionsAreApart'
  OBVIOUS
<1>0. /\ version \in Nat /\ actions \subseteq Action /\ view \in View
      /\ \A a \in actions : a.version \in Nat /\ a.version <= version
      /\ \A a \in actions : Asks(a) => a.session # 0
      /\ AfterError(view).session = view.session /\ Cleared.session = 0
  BY DEF Bounded, TypeOK, Action, ActionsAreSound, Sound, Asks, AfterError, View, Cleared
<1>1. ASSUME NEW kind \in {"generate", "answer", "revise", "validate"}, NEW v \in View,
             Begins(kind, v)
      PROVE  SessionsAreApart'
  <2>1. actions' = actions \cup {Begun(kind, v)} /\ version' = version + 1 /\ view' = v
    BY <1>1, StartTyped DEF Begins, Start
  <2>2. PICK b : b = Begun(kind, v)
    OBVIOUS
  <2>3. b.kind = kind /\ b.version = version + 1 /\ b.session = v.session /\ b.stage = "sent"
    BY <2>2 DEF Begun
  <2>4. \A c \in actions : c.version # version /\ c.version # version'
    BY <1>0, <1>1, <2>1 DEF Begins, Start, BusyIsCurrent, IsCurrent
  <2>5. \A c \in actions : Asks(c) => c.session # view.session /\ c.session # v.session
    <3>1. v = Cleared \/ v = view
      BY <1>1 DEF Begins
    <3> QED
      BY <1>0, <2>4, <3>1 DEF SessionsAreApart, IsCurrent
  <2>6. ~Brings(b) /\ b.version = version'
    BY <2>1, <2>3 DEF Brings
  <2> HIDE DEF Begun
  <2>7. \A c \in actions' : Asks(c) /\ ~(c.version = version') => c.session # view'.session
    BY <2>1, <2>2, <2>5, <2>6
  <2>8. \A c, d \in actions' : ~(Asks(c) /\ Brings(d) /\ d.version = version')
    BY <2>1, <2>2, <2>4, <2>6
  <2>9. \A c, d \in actions' : Asks(c) /\ Asks(d) /\ c.session = d.session => c = d
    BY <2>1, <2>2, <2>3, <2>5 DEF SessionsAreApart
  <2> QED
    BY <2>7, <2>8, <2>9 DEF SessionsAreApart, IsCurrent, Asks, Brings, Talks
<1>2. CASE Leaves
  <2>1. actions' = actions
    BY <1>2 DEF Leaves
  <2>2. CASE version' = version + 1
    <3>1. \A c \in actions : c.version # version'
      BY <1>0, <2>2
    <3>2. \A c \in actions : Asks(c) => c.session # view'.session
      <4>1. CASE view' = Cleared
        BY <1>0, <4>1
      <4>2. CASE ~busy /\ view' = AfterError(view)
        BY <1>0, <4>2 DEF SessionsAreApart, BusyIsCurrent
      <4> QED
        BY <1>0, <1>2, <2>2, <4>1, <4>2 DEF Leaves
    <3> QED
      BY <2>1, <3>1, <3>2 DEF SessionsAreApart, IsCurrent, Asks, Brings, Talks
  <2>3. CASE version' = version /\ view'.session = view.session
    BY <2>1, <2>3 DEF SessionsAreApart, IsCurrent, Asks, Brings, Talks
  <2> QED
    BY <1>0, <1>2, <2>2, <2>3 DEF Leaves
<1>3. ASSUME NEW a \in actions, NEW b, actions' = (actions \ {a}) \cup {b}, ~Asks(b),
             UNCHANGED version,
             \A c \in actions : Asks(c) /\ ~IsCurrent(c) => c.session # view'.session,
             \A c \in actions : Brings(b) /\ IsCurrent(b) /\ b.kind = "generate" /\ Asks(c) =>
               b.reply.run[1] # c.session
      PROVE  SessionsAreApart'
  <2>1. \A c \in actions' : Asks(c) => c \in actions
    BY <1>3
  <2>2. \A c, d \in actions' : Asks(c) /\ Brings(d) /\ IsCurrent(d) /\ d.kind = "generate" =>
          d.reply.run[1] # c.session
    BY <1>3, <2>1 DEF SessionsAreApart
  <2>3. \A c, d \in actions' : Asks(c) /\ Asks(d) /\ c.session = d.session => c = d
    BY <2>1 DEF SessionsAreApart
  <2> QED
    BY <1>3, <2>1, <2>2, <2>3 DEF SessionsAreApart, IsCurrent, Asks, Brings, Talks
<1>4. ASSUME NEW a \in actions, ServeRun(a) PROVE SessionsAreApart'
  <2>1. PICK s \in 1..MaxSessions, r \in Reply, b \in Action :
          /\ b = Moved(a, "replied", r)
          /\ actions' = (actions \ {a}) \cup {b}
          /\ a.kind = "generate" => s = Len(server) + 1
          /\ r.ok => r.run[1] = s
    BY <1>4, TalksOfSession, RunRecorded DEF Talks
  <2>2. b.kind = a.kind /\ b.stage = "replied" /\ b.reply = r
    BY <1>0, <2>1, MovedFields
  <2>3. view' = view /\ version' = version
    BY <1>4 DEF ServeRun
  <2>4. \A c \in actions : c.session \in Nat /\ c.session <= Len(server) /\ Len(server) \in Nat
    BY TalksOfSession DEF Bounded, TypeOK
  <2>5. \A c \in actions : Brings(b) /\ b.kind = "generate" => b.reply.run[1] # c.session
    BY <2>1, <2>2, <2>4 DEF Brings
  <2> QED
    BY <1>3, <2>1, <2>2, <2>3, <2>5 DEF Asks, SessionsAreApart
<1>5. ASSUME NEW a \in actions, Decline(a) \/ ServeValidate(a) \/ AskAgain(a) PROVE SessionsAreApart'
  <2>1. PICK r \in Reply, b \in Action :
          /\ b = Moved(a, "replied", r)
          /\ actions' = (actions \ {a}) \cup {b}
          /\ r.ok => a.kind \in {"validate", "revise"}
    BY <1>5, Answered DEF Answers
  <2>2. b.kind = a.kind /\ b.stage = "replied" /\ b.reply = r
    BY <1>0, <2>1, MovedFields
  <2>3. view' = view /\ version' = version
    BY <1>5, Answered
  <2> QED
    BY <1>3, <2>1, <2>2, <2>3 DEF Asks, Brings, SessionsAreApart
<1>6. ASSUME NEW a \in actions,
             Fail(a) \/ Deliver(a) \/ RefreshSession(a) \/ RefreshTrace(a)
      PROVE  SessionsAreApart'
  <2>1. version' = version /\ a \in Action /\ a.reply \in Reply /\ Sound(a)
        /\ (IsCurrent(a) => Fits(a))
    BY <1>6, PageResumes, TalksOfSession DEF ActionsAreSound, CurrentFits
  <2>2. \A c \in actions : Asks(c) /\ ~IsCurrent(c) => c.session # view'.session
    <3>1. CASE view'.session = view.session
      BY <3>1 DEF SessionsAreApart
    <3>2. CASE /\ Brings(a) /\ IsCurrent(a) /\ (Talks(a) => view.session = a.session)
               /\ view' = Rendered(view, a.reply)
      <4>1. view'.session = a.reply.run[1]
        BY <1>0, <3>2 DEF Rendered, View
      <4>2. CASE a.kind = "generate"
        BY <3>2, <4>1, <4>2 DEF SessionsAreApart
      <4>3. CASE Talks(a)
        BY <2>1, <3>1, <3>2, <4>1, <4>3 DEF Sound, Brings
      <4> QED
        BY <2>1, <3>2, <4>2, <4>3 DEF Brings, Talks, Action
    <3>3. \/ view' = view \/ view' = AfterError(view)
          \/ view' = [view EXCEPT !.validation = a.reply.run]
          \/ view' = [view EXCEPT !.tracePanel = a.reply.run]
          \/ view' = [view EXCEPT !.sessionPanel = a.reply.run[1]]
          \/ /\ Brings(a) /\ IsCurrent(a) /\ (Talks(a) => view.session = a.session)
             /\ view' = Rendered(view, a.reply)
      BY <1>6, PageResumes
    <3>4. /\ [view EXCEPT !.validation = a.reply.run].session = view.session
          /\ [view EXCEPT !.tracePanel = a.reply.run].session = view.session
          /\ [view EXCEPT !.sessionPanel = a.reply.run[1]].session = view.session
      BY <1>0 DEF View
    <3> QED
      BY <1>0, <3>1, <3>2, <3>3, <3>4
  <2>3. CASE End(a)
    <3>1. actions' \subseteq actions
      BY <2>3 DEF End
    <3> QED
      BY <2>1, <2>2, <3>1 DEF SessionsAreApart, IsCurrent, Asks, Brings, Talks
  <2>4. ASSUME NEW st \in {"session", "trace"}, Goes(a, st) PROVE SessionsAreApart'
    <3>1. PICK b : b = Moved(a, st, a.reply)
      OBVIOUS
    <3>2. b.stage = st
      BY <2>1, <3>1, MovedFields
    <3>3. ~Asks(b) /\ ~Brings(b)
      BY <3>2 DEF Asks, Brings
    <3> QED
      BY <1>3, <2>1, <2>2, <2>4, <3>1, <3>3 DEF Goes
  <2> QED
    BY <1>6, <2>3, <2>4, PageResumes
<1>7. CASE UNCHANGED vars
  BY <1>7 DEF vars, SessionsAreApart, IsCurrent, Asks, Brings, Talks
<1> QED
  BY <1>1, <1>2, <1>4, <1>5, <1>6, <1>7, UserBegins, UserLeaves DEF Next, Step, Bounded

\* What an awaited answer can change.
Awaited == \E a \in actions : IsCurrent(a) /\ a.stage = "replied" /\ Talks(a)

\* Every step keeps a question open until the answer to the request that closes it
\* reaches the page.
LEMMA OpenStep ==
  IInv /\ [Next]_vars => QuestionsAreOpen'
<1> SUFFICES ASSUME IInv, [Next]_vars PROVE QuestionsAreOpen'
  OBVIOUS
<1>0. /\ Bounded /\ BusyIsCurrent /\ ActionsAreSound /\ CurrentFits
      /\ PageIsSound /\ SessionsAreApart /\ QuestionsAreOpen
  BY DEF IInv
<1>1. /\ version \in Nat /\ actions \subseteq Action /\ view \in View /\ server \in Seq(Session)
      /\ \A a \in actions : a.version \in Nat /\ a.version <= version /\ Sound(a)
      /\ AfterError(view).question = None /\ Cleared.question = None
  BY <1>0 DEF Bounded, TypeOK, Action, ActionsAreSound, Sound, AfterError, View, Cleared
<1> DEFINE O1 == \A c \in actions :
                   c.version = version /\ Brings(c) /\ c.reply.outcome = "clarification_required" =>
                   server[c.reply.run[1]].question = c.reply.run
           O2 == view.question # None /\ ~Awaited => server[view.session].question = view.question
           O3 == \A c \in actions : Asks(c) /\ c.kind = "answer" /\ c.shown # None =>
                   server[c.session].question = c.shown
<1>2. O1 /\ O2 /\ O3
  BY <1>0 DEF QuestionsAreOpen, Awaited, IsCurrent, AnswersMeetTheirQuestion, Asks
<1>3. SUFFICES O1' /\ O2' /\ O3'
  <2>1. O1' => \A c \in actions' :
          c.version = version' /\ Brings(c) /\ c.reply.outcome = "clarification_required" =>
          server'[c.reply.run[1]].question = c.reply.run
    BY DEF Brings
  <2>2. O3' => \A c \in actions' :
          c.kind = "answer" /\ c.stage = "sent" /\ c.shown # None =>
          server'[c.session].question = c.shown
    BY DEF Asks, Talks
  <2> QED
    BY <2>1, <2>2 DEF QuestionsAreOpen, Awaited, IsCurrent, AnswersMeetTheirQuestion, Brings
<1>4. ASSUME NEW kind \in {"generate", "answer", "revise", "validate"}, NEW v \in View,
             Begins(kind, v)
      PROVE  O1' /\ O2' /\ O3'
  <2>1. actions' = actions \cup {Begun(kind, v)} /\ version' = version + 1 /\ view' = v
        /\ server' = server /\ ~busy
    BY <1>0, <1>4, StartTyped DEF Begins, Start
  <2>2. PICK b : b = Begun(kind, v)
    OBVIOUS
  <2>3. b.kind = kind /\ b.session = v.session /\ b.stage = "sent" /\ b.shown = view.question
    BY <2>2 DEF Begun
  <2> HIDE DEF Begun
  <2>4. \A c \in actions : c.version # version /\ c.version # version'
    BY <1>0, <1>1, <2>1 DEF BusyIsCurrent, IsCurrent
  <2>5. ~Awaited
    BY <2>4 DEF Awaited, IsCurrent
  <2>6. O1'
    BY <2>1, <2>2, <2>3, <2>4 DEF Brings
  <2>7. O2'
    BY <1>1, <1>2, <1>4, <2>1, <2>5 DEF Begins
  <2>8. O3'
    <3>1. kind = "answer" => v = view
      BY <1>4 DEF Begins
    <3> QED
      BY <1>2, <2>1, <2>2, <2>3, <2>5, <3>1 DEF Asks
  <2> QED
    BY <2>6, <2>7, <2>8
<1>5. CASE Leaves
  <2>1. actions' = actions /\ server' = server
    BY <1>5 DEF Leaves
  <2>2. O3'
    BY <1>2, <2>1 DEF Asks, Talks
  <2>3. CASE version' = version + 1
    <3>1. O1'
      BY <1>1, <2>1, <2>3
    <3>2. view'.question = None
      BY <1>1, <1>5, <2>3 DEF Leaves
    <3> QED
      BY <2>2, <3>1, <3>2
  <2>4. CASE version' = version
    <3>1. O1'
      BY <1>2, <2>1, <2>4 DEF Brings
    <3>2. view'.question = None \/ view' = view
      BY <1>1, <1>5, <2>4 DEF Leaves
    <3>3. O2'
      BY <1>2, <2>1, <2>4, <3>2 DEF Awaited, IsCurrent, Talks
    <3> QED
      BY <2>2, <3>1, <3>3
  <2> QED
    BY <1>5, <2>3, <2>4 DEF Leaves
<1>6. ASSUME NEW a \in actions, ServeRun(a) PROVE O1' /\ O2' /\ O3'
  <2>1. PICK s \in 1..MaxSessions, new \in Session, r \in Reply, b \in Action :
          /\ b = Moved(a, "replied", r)
          /\ actions' = (actions \ {a}) \cup {b}
          /\ a.stage = "sent"
          /\ \/ /\ a.kind = "generate" /\ s = Len(server) + 1
                /\ server' = Append(server, new)
             \/ /\ Talks(a) /\ s = a.session
                /\ server' = [server EXCEPT ![s] = new]
          /\ r.ok => r.run[1] = s
          /\ r.ok /\ r.outcome = "clarification_required" => new.question = r.run
    BY <1>0, <1>6, TalksOfSession, RunRecorded
  <2>2. b.kind = a.kind /\ b.version = a.version /\ b.stage = "replied" /\ b.reply = r
    BY <1>1, <2>1, MovedFields
  <2>3. view' = view /\ version' = version
    BY <1>6 DEF ServeRun
  <2>4. \A c \in actions : (Talks(c) => c.session \in 1..Len(server)) /\ c \in Action
    BY <1>0, TalksOfSession
  <2>5. /\ \A t \in 1..Len(server) : t # s => server'[t] = server[t]
        /\ server'[s] = new
    BY <1>1, <2>1, <2>4
  <2>6. O1'
    <3> SUFFICES ASSUME NEW c \in actions', c.version = version', Brings(c),
                        c.reply.outcome = "clarification_required"
                 PROVE  server'[c.reply.run[1]].question = c.reply.run
      BY DEF Brings
    <3>1. CASE c = b
      BY <2>1, <2>2, <2>5, <3>1 DEF Brings
    <3>2. CASE c \in actions /\ c # a
      <4>1. IsCurrent(c) /\ Fits(c) /\ Sound(c) /\ ~IsCurrent(a)
        BY <1>0, <1>1, <2>3, <3>2 DEF IsCurrent, CurrentFits, BusyIsCurrent
      <4>2. c.reply.run[1] \in 1..Len(server)
        BY <4>1 DEF Sound, Brings
      <4>3. CASE s = Len(server) + 1
        BY <1>1, <1>2, <2>3, <2>5, <3>2, <4>2, <4>3
      <4>4. CASE Talks(a) /\ s = a.session
        <5>1. Asks(a)
          BY <2>1, <4>4 DEF Asks
        <5>2. CASE c.kind = "generate"
          BY <1>0, <1>2, <2>3, <2>5, <3>2, <4>1, <4>2, <4>4, <5>1, <5>2 DEF SessionsAreApart
        <5>3. CASE Talks(c)
          <6>1. c.reply.run[1] = view.session /\ a.session # view.session
            BY <1>0, <4>1, <5>1, <5>3 DEF Sound, Fits, Brings, Talks, SessionsAreApart
          <6> QED
            BY <1>2, <2>3, <2>5, <3>2, <4>2, <4>4, <6>1
        <5> QED
          BY <2>4, <3>2, <5>2, <5>3 DEF Brings, Talks, Action
      <4> QED
        BY <2>1, <4>3, <4>4
    <3> QED
      BY <2>1, <3>1, <3>2
  <2>7. O2'
    <3> SUFFICES ASSUME view.question # None, ~Awaited'
                 PROVE  server'[view.session].question = view.question
      BY <2>3
    <3>1. \A c \in actions' : ~(c.version = version /\ c.stage = "replied" /\ Talks(c))
      BY <2>3 DEF Awaited, IsCurrent, Talks
    <3>2. ~Awaited
      BY <2>1, <3>1 DEF Awaited, IsCurrent
    <3>3. view.session \in 1..Len(server)
      BY <1>0, <1>1 DEF PageIsSound, View
    <3>4. s # view.session
      <4>1. CASE a.kind = "generate"
        BY <1>1, <2>1, <3>3, <4>1 DEF Talks
      <4>2. CASE Talks(a)
        <5>1. ~IsCurrent(a)
          BY <2>1, <2>2, <3>1, <4>2 DEF IsCurrent, Talks
        <5> QED
          BY <1>0, <2>1, <4>2, <5>1 DEF SessionsAreApart, Asks, Talks
      <4> QED
        BY <2>1, <4>1, <4>2
    <3> QED
      BY <1>2, <2>5, <3>2, <3>3, <3>4
  <2>8. O3'
    <3> SUFFICES ASSUME NEW c \in actions', Asks(c), c.kind = "answer", c.shown # None
                 PROVE  server'[c.session].question = c.shown
      BY DEF Asks, Talks
    <3>1. c \in actions /\ c # a
      BY <2>1, <2>2 DEF Asks
    <3>2. c.session \in 1..Len(server)
      BY <2>4, <3>1 DEF Asks
    <3>3. c.session # s
      BY <1>0, <1>1, <2>1, <3>1, <3>2 DEF SessionsAreApart, Asks
    <3> QED
      BY <1>2, <2>5, <3>1, <3>2, <3>3
  <2> QED
    BY <2>6, <2>7, <2>8
<1>7. ASSUME NEW a \in actions, Decline(a) \/ ServeValidate(a) \/ AskAgain(a) PROVE O1' /\ O2' /\ O3'
  <2>1. PICK r \in Reply, b \in Action :
          /\ b = Moved(a, "replied", r)
          /\ actions' = (actions \ {a}) \cup {b}
          /\ r.ok => Answers(a, r)
    BY <1>0, <1>7, Answered
  <2>2. b.kind = a.kind /\ b.stage = "replied" /\ b.reply = r /\ a.stage = "sent"
    BY <1>0, <1>1, <1>7, <2>1, MovedFields, Answered
  <2>3. view' = view /\ version' = version /\ server' = server
    BY <1>0, <1>7, Answered
  <2>4. ~Asks(b) /\ (Brings(b) => server[b.reply.run[1]].question = b.reply.run)
    BY <2>1, <2>2 DEF Brings, Asks, Answers
  <2>5. O1'
    BY <1>2, <2>1, <2>3, <2>4 DEF Brings
  <2>6. Awaited => Awaited'
    BY <2>1, <2>2, <2>3 DEF Awaited, IsCurrent, Talks
  <2>7. O2'
    BY <1>2, <2>3, <2>6
  <2>8. O3'
    BY <1>2, <2>1, <2>3, <2>4 DEF Asks, Talks
  <2> QED
    BY <2>5, <2>7, <2>8
<1>8. ASSUME NEW a \in actions,
             Fail(a) \/ Deliver(a) \/ RefreshSession(a) \/ RefreshTrace(a)
      PROVE  O1' /\ O2' /\ O3'
  <2>1. /\ version' = version /\ server' = server /\ a \in Action /\ a.reply \in Reply
        /\ (IsCurrent(a) => Fits(a)) /\ Sound(a)
    BY <1>0, <1>8, PageResumes, TalksOfSession DEF CurrentFits, ActionsAreSound
  <2>2. \A c \in actions' : c.stage \in {"sent", "replied"} => c \in actions
    BY <1>0, <1>8, PageOfCurrent
  <2>3. O1'
    BY <1>2, <2>1, <2>2 DEF Brings
  <2>4. O3'
    BY <1>2, <2>1, <2>2 DEF Asks, Talks
  <2>5. actions \ {a} \subseteq actions'
    BY <1>0, <1>8, PageResumes DEF End, Goes
  <2>6. CASE ~(IsCurrent(a) /\ a.stage = "replied" /\ Talks(a)) /\ view'.question = view.question
             /\ view'.session = view.session
    <3>1. Awaited => Awaited'
      BY <2>1, <2>5, <2>6 DEF Awaited, IsCurrent, Talks
    <3> QED
      BY <1>2, <2>1, <2>3, <2>4, <2>6, <3>1
  <2>7. CASE view' = AfterError(view)
    BY <1>1, <2>3, <2>4, <2>7
  <2>8. CASE Brings(a) /\ IsCurrent(a) /\ view' = Rendered(view, a.reply)
    <3>1. view'.session = a.reply.run[1]
          /\ (view'.question = None
                \/ (a.reply.outcome = "clarification_required" /\ view'.question = a.reply.run))
      BY <1>1, <2>8 DEF Rendered, View
    <3> QED
      BY <1>2, <2>1, <2>3, <2>4, <2>8, <3>1 DEF IsCurrent
  <2>9. \A f : /\ [view EXCEPT !.validation = f].session = view.session
               /\ [view EXCEPT !.validation = f].question = view.question
               /\ [view EXCEPT !.tracePanel = f].session = view.session
               /\ [view EXCEPT !.tracePanel = f].question = view.question
               /\ [view EXCEPT !.sessionPanel = f].session = view.session
               /\ [view EXCEPT !.sessionPanel = f].question = view.question
    BY <1>1 DEF View
  <2>10. \/ view' = AfterError(view)
         \/ Brings(a) /\ IsCurrent(a) /\ view' = Rendered(view, a.reply)
         \/ /\ ~(IsCurrent(a) /\ a.stage = "replied" /\ Talks(a))
            /\ \/ view' = view
               \/ view' = [view EXCEPT !.validation = a.reply.run]
               \/ view' = [view EXCEPT !.tracePanel = a.reply.run]
               \/ view' = [view EXCEPT !.sessionPanel = a.reply.run[1]]
    BY <1>0, <1>8, <2>1, PageResumes DEF Fits, Talks
  <2> QED
    BY <2>6, <2>7, <2>8, <2>9, <2>10
<1>9. CASE UNCHANGED vars
  <2>1. view' = view /\ version' = version /\ server' = server /\ actions' = actions
    BY <1>9 DEF vars
  <2> QED
    BY <1>2, <2>1 DEF Brings, Awaited, IsCurrent, Asks, Talks
<1> QED
  BY <1>0, <1>4, <1>5, <1>6, <1>7, <1>8, <1>9, UserBegins, UserLeaves DEF Next, Step, Bounded
-----------------------------------------------------------------------------
\* The page that is loaded: no session, no request.
LEMMA InitInvariant == Init => IInv
<1> SUFFICES ASSUME Init PROVE IInv
  OBVIOUS
<1>0. MaxSessions \in Nat /\ MaxTasks \in Nat /\ MaxVersions \in Nat
  BY UiAssumption
<1>1. Bounded
  <2>1. server \in Seq(Session) /\ Len(server) = 0
    BY DEF Init
  <2>2. task \in 0..MaxTasks /\ version \in 0..MaxVersions /\ actions \subseteq Action
    BY <1>0 DEF Init
  <2>3. busy \in BOOLEAN /\ booting \in BOOLEAN
    BY DEF Init
  <2>4. view \in View
    BY Pages DEF Init
  <2>5. QuestionsAreOwn
    BY <2>1 DEF QuestionsAreOwn
  <2> QED
    BY <1>0, <2>1, <2>2, <2>3, <2>4, <2>5 DEF Bounded, TypeOK
<1>2. BusyIsCurrent
  BY DEF Init, BusyIsCurrent
<1>3. ActionsAreSound /\ CurrentFits /\ SessionsAreApart
  BY DEF Init, ActionsAreSound, CurrentFits, SessionsAreApart
<1>4. Cleared.session = 0 /\ Cleared.question = None
  BY DEF Cleared
<1>5. PageIsSound
  <2>1. Len(server) = 0
    BY DEF Init
  <2> QED
    BY <1>4, <2>1, PageFields, PagesOfSession DEF Init
<1>6. QuestionsAreOpen
  BY <1>4 DEF Init, QuestionsAreOpen, AnswersMeetTheirQuestion
<1> QED
  BY <1>1, <1>2, <1>3, <1>5, <1>6 DEF IInv

\* Every step keeps the invariant.
LEMMA InvariantStep == IInv /\ [Next]_vars => IInv'
<1> SUFFICES ASSUME IInv, [Next]_vars PROVE IInv'
  OBVIOUS
<1>1. Bounded'
  BY BoundedStep DEF IInv
<1>2. BusyIsCurrent'
  BY BusyStep DEF IInv
<1>3. ActionsAreSound'
  BY <1>1, SoundStep DEF IInv
<1>4. CurrentFits'
  BY FitsStep DEF IInv
<1>5. PageIsSound'
  BY PageStep DEF IInv
<1>6. SessionsAreApart'
  BY ApartStep DEF IInv
<1>7. QuestionsAreOpen'
  BY OpenStep
<1> QED
  BY <1>1, <1>2, <1>3, <1>4, <1>5, <1>6, <1>7 DEF IInv

LEMMA Invariant == Spec => []IInv
BY InitInvariant, InvariantStep, PTL DEF Spec

\* Every variable has its type, and the page shows no run that the bounds exclude.
THEOREM TypeCorrect == Spec => []TypeOK
<1>1. IInv => TypeOK
  BY DEF IInv, Bounded
<1> QED
  BY <1>1, Invariant, PTL

\* Whatever the user abandons and however late its answer comes, the page never
\* shows anything of another task than the one in the prompt box (app.js:162-173).
THEOREM PageIsAlwaysOfTask == Spec => []PageIsOfTask
<1>1. IInv => PageIsOfTask
  BY DEF IInv, PageIsSound
<1> QED
  BY <1>1, Invariant, PTL

\* No abandoned request ends the current one, and no two requests are current
\* (app.js:162-199).
THEOREM BusyIsAlwaysCurrent == Spec => []BusyIsCurrent
<1>1. IInv => BusyIsCurrent
  BY DEF IInv
<1> QED
  BY <1>1, Invariant, PTL

\* A page at rest offers for an answer only the question that is open
\* (app.js:309-324, 626-635).
THEOREM ShownQuestionIsAlwaysOpen == Spec => []ShownQuestionIsOpen
<1>1. IInv => ShownQuestionIsOpen
  BY DEF IInv, QuestionsAreOpen, BusyIsCurrent, ShownQuestionIsOpen
<1> QED
  BY <1>1, Invariant, PTL

\* An answer meets the question its author saw, even one that was abandoned before
\* the server got to it (engine.py:450-464).
THEOREM AnswersAlwaysMeetTheirQuestion == Spec => []AnswersMeetTheirQuestion
<1>1. IInv => AnswersMeetTheirQuestion
  BY DEF IInv, QuestionsAreOpen
<1> QED
  BY <1>1, Invariant, PTL
=============================================================================
