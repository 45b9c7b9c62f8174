------------------------------- MODULE Engine -------------------------------
(***************************************************************************)
(* app/generation/engine.py: how requests become turns of one session.     *)
(* A thread takes its process's admission slot without waiting, waits for  *)
(* the session's lock, prepares its copy of the session, runs the workflow *)
(* on it, writes a trace, and commits the copy.  The server and every CLI  *)
(* invocation are processes of their own: the slot is per process, the     *)
(* session is shared.                                                      *)
(*                                                                         *)
(* The workflow is its result (see Workflow); the store is a lock, a copy  *)
(* and an atomic commit (see SessionStore); a trace is its status, and its *)
(* identifier its place in the log.  An output contract with its examples  *)
(* is an opaque value.  A turn is the trace that asked the question it     *)
(* answers, or Feedback.                                                   *)
(*                                                                         *)
(* A session may have been left by an earlier version, which kept the      *)
(* answers and the feedback in two lists and named no traces; its open     *)
(* question is Former.                                                     *)
(***************************************************************************)
EXTENDS Integers, FiniteSets, Sequences, SequencesExt

CONSTANTS
  Threads,
  Processes,
  Process,          \* [Threads -> Processes]
  Nobody,           \* the holder of a free slot or lock
  Contracts,        \* output contracts with caller examples
  Roots,            \* WorkflowRoot
  RootLists,        \* the lists of roots that callers give
  Unset,            \* a contract or a choice of roots that was not given
  Inherited,        \* sessions an earlier version may have left
  MaxTurns,         \* MAX_SESSION_USER_TURNS
  MaxTraces         \* bound on the workflow runs

VARIABLES
  slot,             \* [Processes -> Threads \cup {Nobody}], _admission
  lock,             \* who has the session's transaction
  session,          \* the committed session, or Absent
  log,              \* the statuses of the traces written
  pc,
  draft,            \* each thread's copy of the session
  expired,          \* traces of the session when retention removed it
  lost              \* traces whose process died before it committed

vars == <<slot, lock, session, log, pc, draft, expired, lost>>

Former   == -1      \* a question that no trace asked
Feedback == 0
NoTrace  == 0
Asked    == Nat \cup {Former}
Statuses == {"completed", "clarification_required", "failed"}
Kinds    == {"", "planner", "missing_context", "source_root"}

Selections == {ToSet(o) : o \in RootLists}

\* A session.  status: "failed" stands for validation_failed, policy_rejected
\* and backend_unavailable, which the engine treats alike.  legacy: there is no
\* user_turn_history yet, only answers and feedback; once there is one, the two
\* lists are derived from it and left out.
Record ==
  [contract : Contracts \cup {Unset}, roots : Selections \cup {Unset},
   context : {"none", "some"}, status : Statuses \cup {"pending"},
   question : Asked, kind : Kinds, history : Seq(Asked), code : Nat, traces : Seq(Nat),
   legacy : BOOLEAN, answers : Seq(Asked), feedback : Seq({Feedback})]

Absent ==
  [contract |-> Unset, roots |-> Unset, context |-> "none", status |-> "absent",
   question |-> NoTrace, kind |-> "", history |-> <<>>, code |-> NoTrace,
   traces |-> <<>>, legacy |-> FALSE, answers |-> <<>>, feedback |-> <<>>]

ASSUME EngineAssumption ==
  /\ Process \in [Threads -> Processes]
  /\ Nobody \notin Threads
  /\ Unset \notin Contracts \cup Selections
  \* One or two roots, each once; their order says nothing.
  /\ RootLists \subseteq {<<a>> : a \in Roots} \cup {o \in Roots \X Roots : o[1] # o[2]}
  /\ MaxTurns \in Nat
  /\ MaxTraces \in Nat

\* What an earlier version left: no trace, and a question of no kind.
ASSUME InheritedAssumption ==
  \A s \in Inherited :
    /\ s \in Record
    /\ s.legacy
    /\ s.history = <<>> /\ s.traces = <<>> /\ s.code = NoTrace
    /\ s.roots = Unset /\ s.kind = ""
    /\ s.status \in Statuses
    /\ s.question = IF s.status = "clarification_required" THEN Former ELSE NoTrace

Latest(s) == IF s.traces = <<>> THEN NoTrace ELSE Last(s.traces)

\* What a caller may send.  "null" is an explicit null context.
Requests ==
  [prompt : BOOLEAN, context : {"unset", "null", "some"}, feedback : BOOLEAN,
   answer : BOOLEAN, contract : Contracts \cup {Unset}, roots : RootLists \cup {Unset}]

\* _normalize_source_roots.
Selected(r) == IF r.roots = Unset THEN Unset ELSE ToSet(r.roots)

\* What the workflow may return; the planner may offer roots at any time, also
\* when roots are already selected.  Without a context it only asks for one.
Results(s) ==
  IF s.context = "none"
  THEN {[status |-> "clarification_required", offers |-> FALSE]}
  ELSE {w \in [status : Statuses, offers : BOOLEAN] :
          w.offers => w.status = "clarification_required"}
-----------------------------------------------------------------------------
\* The turns of the session in their order: the history, or the one list that an
\* earlier version filled.
Canonical(s) == IF s.legacy THEN s.answers \o s.feedback ELSE s.history

\* Both lists have turns: nothing says in which order they came.
Ambiguous(s) == s.legacy /\ s.answers # <<>> /\ s.feedback # <<>>

\* A choice of roots answers the open question unless a text does.
Chooses(s, r) == r.roots # Unset /\ s.kind = "source_root" /\ ~r.answer

Silent(r) ==
  /\ ~r.prompt /\ r.context = "unset" /\ ~r.feedback /\ ~r.answer
  /\ r.contract = Unset /\ r.roots = Unset

\* The turns the request adds, in order.
Turns(s, r) ==
  (IF r.answer \/ Chooses(s, r) THEN <<s.question>> ELSE <<>>)
    \o (IF r.feedback THEN <<Feedback>> ELSE <<>>)

\* The roots the request selects cannot be stored.
RootsConflict(s, r) ==
  /\ r.roots # Unset
  /\ \/ s.roots \notin {Unset, Selected(r)}
     \/ s.roots = Unset /\ s.kind # "source_root"

\* The request is refused, and with it everything it carries.
Conflict(s, r) ==
  \/ s = Absent /\ ~r.prompt
  \/ s # Absent /\ r.prompt
  \/ s.status = "completed" /\ Silent(r)
  \/ s # Absent /\ r.contract \notin {Unset, s.contract}
  \/ s # Absent /\ RootsConflict(s, r)
  \/ r.answer /\ s.question = NoTrace
  \/ Ambiguous(s)
  \/ Len(Canonical(s)) + Len(Turns(s, r)) > MaxTurns

\* The session a request that initialises it starts from.
Initial(r) ==
  [Absent EXCEPT !.status = "pending", !.contract = r.contract]

ContextAfter(s, r) ==
  IF r.context = "unset" THEN s.context
  ELSE IF r.context = "null" THEN "none" ELSE "some"

\* _ensure_user_turn_history: the turns move into the history.
Migrated(s) ==
  [s EXCEPT !.history = Canonical(s), !.legacy = FALSE, !.answers = <<>>, !.feedback = <<>>]

\* A wrong Prepared: the question is closed before the answer is recorded.
PreparedAfterClosing(s, r) ==
  LET base == IF s = Absent THEN Initial(r) ELSE s
      closes == \/ r.answer \/ Chooses(s, r)
                \/ s.kind = "missing_context" /\ r.context = "some"
      closed == IF closes THEN [base EXCEPT !.question = NoTrace, !.kind = ""] ELSE base
  IN [Migrated(closed) EXCEPT
        !.roots = IF r.roots # Unset THEN Selected(r) ELSE @,
        !.context = ContextAfter(s, r),
        !.history = @ \o Turns([s EXCEPT !.question = closed.question], r)]

\* A wrong Prepared: any context closes the question, whatever it asked.
PreparedByAnyContext(s, r) ==
  LET base == IF s = Absent THEN Initial(r) ELSE s
      closes == r.answer \/ Chooses(s, r) \/ r.context = "some" IN
  [Migrated(base) EXCEPT
     !.roots = IF r.roots # Unset THEN Selected(r) ELSE @,
     !.context = ContextAfter(s, r),
     !.history = @ \o Turns(s, r),
     !.question = IF closes THEN NoTrace ELSE @,
     !.kind = IF closes THEN "" ELSE @]

\* _prepare_session_state.
Prepared(s, r) ==
  LET base == IF s = Absent THEN Initial(r) ELSE s
      closes == \/ r.answer \/ Chooses(s, r)
                \/ s.kind = "missing_context" /\ r.context = "some" IN
  [Migrated(base) EXCEPT
     !.roots = IF r.roots # Unset THEN Selected(r) ELSE @,
     !.context = ContextAfter(s, r),
     !.history = @ \o Turns(s, r),
     !.question = IF closes THEN NoTrace ELSE @,
     !.kind = IF closes THEN "" ELSE @]

KindOf(s, w) ==
  IF w.status # "clarification_required" THEN ""
  ELSE IF w.offers THEN "source_root"
  ELSE IF s.context = "none" THEN "missing_context" ELSE "planner"

\* A wrong Recorded: every candidate becomes the code to revise.
RecordedAsCode(s, w, trace) ==
  [s EXCEPT
     !.status = w.status,
     !.traces = Append(@, trace),
     !.question = IF w.status = "clarification_required" THEN trace ELSE NoTrace,
     !.kind = KindOf(s, w),
     !.code = trace]

\* The session after a workflow that wrote this trace.
Recorded(s, w, trace) ==
  [s EXCEPT
     !.status = w.status,
     !.traces = Append(@, trace),
     !.question = IF w.status = "clarification_required" THEN trace ELSE NoTrace,
     !.kind = KindOf(s, w),
     !.code = IF w.status = "completed" THEN trace ELSE @]
-----------------------------------------------------------------------------
Goto(t, label) == pc' = [pc EXCEPT ![t] = label]

Init ==
  /\ slot = [p \in Processes |-> Nobody]
  /\ lock = Nobody
  /\ session \in Inherited \cup {Absent}
  /\ log = <<>>
  /\ pc = [t \in Threads |-> "idle"]
  /\ draft = [t \in Threads |-> Absent]
  /\ expired = {}
  /\ lost = {}

\* request_slot(): a thread that finds it taken is told the service is busy.
Admit(t) ==
  /\ pc[t] = "idle"
  /\ slot[Process[t]] = Nobody
  /\ slot' = [slot EXCEPT ![Process[t]] = t]

\* generate().
Call(t) ==
  /\ Admit(t)
  /\ Goto(t, "entering")
  /\ UNCHANGED <<lock, session, log, draft, expired, lost>>

\* POST /api/validate: the slot, and no session.
Check(t) ==
  /\ Admit(t)
  /\ Goto(t, "leaving")
  /\ UNCHANGED <<lock, session, log, draft, expired, lost>>

\* A wrong Load: the session is read without waiting for its lock.
LoadUnlocked(t) ==
  /\ pc[t] = "entering"
  /\ lock' = t
  /\ draft' = [draft EXCEPT ![t] = session]
  /\ Goto(t, "preparing")
  /\ UNCHANGED <<slot, session, log, expired, lost>>

\* The session's transaction begins.
Load(t) ==
  /\ pc[t] = "entering"
  /\ lock = Nobody
  /\ lock' = t
  /\ draft' = [draft EXCEPT ![t] = session]
  /\ Goto(t, "preparing")
  /\ UNCHANGED <<slot, session, log, expired, lost>>

\* A wrong Prepare: it looks at the question that was open before the request.
PrepareByOldQuestion(t, r) ==
  /\ pc[t] = "preparing"
  /\ ~Conflict(draft[t], r)
  /\ draft' = [draft EXCEPT ![t] = Prepared(@, r)]
  /\ Goto(t, IF draft[t].question # NoTrace THEN "committing" ELSE "running")
  /\ UNCHANGED <<slot, lock, session, log, expired, lost>>

\* The request is compatible: run the workflow, unless a question is still open.
Prepare(t, r) ==
  /\ pc[t] = "preparing"
  /\ ~Conflict(draft[t], r)
  /\ draft' = [draft EXCEPT ![t] = Prepared(@, r)]
  /\ Goto(t, IF draft'[t].question # NoTrace THEN "committing" ELSE "running")
  /\ UNCHANGED <<slot, lock, session, log, expired, lost>>

\* The request conflicts or is too large, or the workflow raises BackendBusy,
\* BackendTimeout or BackendModel: the copy is dropped.
Raise(t) ==
  /\ pc[t] \in {"preparing", "running"}
  /\ lock' = Nobody
  /\ draft' = [draft EXCEPT ![t] = Absent]
  /\ Goto(t, "leaving")
  /\ UNCHANGED <<slot, session, log, expired, lost>>

\* The workflow returns: its trace is written, then the copy is updated.
Finish(t, w) ==
  /\ pc[t] = "running"
  /\ Len(log) < MaxTraces
  /\ log' = Append(log, w.status)
  /\ draft' = [draft EXCEPT ![t] = Recorded(@, w, Len(log) + 1)]
  /\ Goto(t, "committing")
  /\ UNCHANGED <<slot, lock, session, expired, lost>>

\* The transaction ends: the file is replaced and its lock given up.
Commit(t) ==
  /\ pc[t] = "committing"
  /\ session' = draft[t]
  /\ lock' = Nobody
  /\ draft' = [draft EXCEPT ![t] = Absent]
  /\ Goto(t, "leaving")
  /\ UNCHANGED <<slot, log, expired, lost>>

\* The slot is given up; the caller has the committed result, or an error.
Return(t) ==
  /\ pc[t] = "leaving"
  /\ slot' = [slot EXCEPT ![Process[t]] = Nobody]
  /\ Goto(t, "idle")
  /\ UNCHANGED <<lock, session, log, draft, expired, lost>>

\* A process dies, and with it its slot, its lock and its copy.
Crash(p) ==
  LET dead == {t \in Threads : Process[t] = p}
      open == {Latest(draft[t]) : t \in {u \in dead : pc[u] = "committing"}} IN
  /\ \E t \in dead : pc[t] # "idle"
  /\ slot' = [slot EXCEPT ![p] = Nobody]
  /\ lock' = IF lock \in dead THEN Nobody ELSE lock
  /\ lost' = lost \cup (open \ ({NoTrace} \cup ToSet(session.traces)))
  /\ pc' = [t \in Threads |-> IF t \in dead THEN "idle" ELSE pc[t]]
  /\ draft' = [t \in Threads |-> IF t \in dead THEN Absent ELSE draft[t]]
  /\ UNCHANGED <<session, log, expired>>

\* Retention removes the session while no transaction has it.
Expire ==
  /\ session # Absent
  /\ lock = Nobody
  /\ session' = Absent
  /\ expired' = expired \cup ToSet(session.traces)
  /\ UNCHANGED <<slot, lock, log, pc, draft, lost>>

Step(t) ==
  \/ Call(t) \/ Check(t) \/ Load(t) \/ Raise(t) \/ Commit(t) \/ Return(t)
  \/ \E r \in Requests : Prepare(t, r)
  \/ \E w \in Results(draft[t]) : Finish(t, w)

Next ==
  \/ \E t \in Threads : Step(t)
  \/ \E p \in Processes : Crash(p)
  \/ Expire

Spec == Init /\ [][Next]_vars
-----------------------------------------------------------------------------
\* The variables have their types, and the slots and the lock are taken exactly
\* while a thread is between taking them and giving them up.
TypeOK ==
  /\ session \in Record \cup {Absent}
  /\ log \in Seq(Statuses)
  /\ draft \in [Threads -> Record \cup {Absent}]
  /\ expired \cup lost \subseteq 1..Len(log)
  /\ pc \in [Threads -> {"idle", "entering", "preparing", "running", "committing",
                         "leaving"}]
  /\ slot \in [Processes -> Threads \cup {Nobody}]
  /\ lock \in Threads \cup {Nobody}
  /\ \A t \in Threads :
       /\ pc[t] # "idle" <=> slot[Process[t]] = t
       /\ pc[t] \in {"preparing", "running", "committing"} <=> lock = t

\* The committed session agrees with the last trace it names: it has the
\* trace's status, and a question of a kind exactly when the trace asked one,
\* however many requests, crashes and other processes came between (engine.py
\* keeps the five fields by hand).  While it names none, it is as an earlier
\* version left it but for its context and the form of its turns.
SessionMatchesTrace ==
  session # Absent =>
    /\ session.question # NoTrace <=> session.status = "clarification_required"
    /\ session.kind = "missing_context" => session.context = "none"
    /\ IF session.traces = <<>>
       THEN session.question \in {NoTrace, Former} /\ session.kind = ""
       ELSE /\ session.status = log[Latest(session)]
            /\ session.question \in {NoTrace, Latest(session)}
            /\ session.question # NoTrace <=> session.kind # ""
            /\ ~session.legacy

\* Feedback revises the code of the session's last completed run, whatever
\* failed or was asked since.
CodeIsLastCompleted ==
  LET completed == {t \in ToSet(session.traces) : log[t] = "completed"} IN
  IF completed = {} THEN session.code = NoTrace
  ELSE session.code \in completed /\ \A t \in completed : t <= session.code

\* No run is lost to another request: a trace is named by the session until
\* retention removes it, or by the copy about to be committed, or its process
\* died between writing it and committing.
RunsAreKept ==
  \A i \in 1..Len(log) :
    \/ i \in ToSet(session.traces) \cup expired \cup lost
    \/ \E t \in Threads : pc[t] = "committing" /\ Latest(draft[t]) = i

\* The places of the turns that d has more than s.
Places(s, d) == Len(Canonical(s)) + 1 .. Len(Canonical(d))

\* The session d continues the conversation of s.
Continues(s, d) ==
  s # Absent =>
    /\ d.contract = s.contract
    /\ d.roots # s.roots => s.roots = Unset /\ s.kind = "source_root"
    /\ ~Ambiguous(s) /\ ~d.legacy
    /\ IsPrefix(Canonical(s), Canonical(d))
    /\ IsPrefix(s.traces, d.traces)
    /\ \A i \in Places(s, d) : Canonical(d)[i] \in {Feedback, s.question}
    /\ \A i, k \in Places(s, d) :
         Canonical(d)[i] = Feedback /\ Canonical(d)[k] = Feedback => i = k

\* If the open question of s is not that of d, d has its answer, or the context
\* it asked for.
Answers(s, d) ==
  s # Absent /\ s.question # NoTrace /\ d.question # s.question =>
    \/ \E i \in Places(s, d) : Canonical(d)[i] = s.question
    \/ s.kind = "missing_context" /\ d.context = "some"

\* Confirmed requirements are never replaced: within one session the contract
\* stays, roots are selected once and only when asked for, turns and traces are
\* only added, an answer is recorded with the question it answers and at most one
\* feedback with it.  Turns an earlier version left are kept in their order, and
\* a session that has lost it is not continued.
ConversationIsKept ==
  [][session # Absent /\ session' # Absent => Continues(session, session')]_session

\* An open question goes away only when it is answered, or when it asked for a
\* context and got one.
QuestionsAreAnswered ==
  [][session # Absent /\ session' # Absent => Answers(session, session')]_session

\* "the continuation may consist of the choice alone" (docs/architecture.md):
\* while a session asks for roots, none of them conflicts with it.
OfferedRootsAreAccepted ==
  session.kind = "source_root" /\ Len(Canonical(session)) < MaxTurns =>
    \A choice \in RootLists :
      ~Conflict(session, [prompt |-> FALSE, context |-> "unset", feedback |-> FALSE,
                          answer |-> FALSE, contract |-> Unset, roots |-> choice])
=============================================================================
