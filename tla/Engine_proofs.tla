---------------------------- MODULE Engine_proofs ----------------------------
(***************************************************************************)
(* Proofs about Engine, for every set of threads, processes, contracts and *)
(* roots, every session an earlier version may have left, and any limits.  *)
(***************************************************************************)
EXTENDS Engine, SequenceTheorems, TLAPS

(***************************************************************************)
(* What the operators on a session do to its fields.                       *)
(***************************************************************************)

\* The turns of a session are a sequence of turns.
LEMMA CanonicalType == ASSUME NEW s \in Record PROVE Canonical(s) \in Seq(Asked)
<1>1. s.answers \in Seq(Asked) /\ s.history \in Seq(Asked) /\ s.feedback \in Seq({Feedback})
  BY DEF Record
<1>2. s.feedback \in Seq(Asked)
  BY <1>1, SeqMonotonic DEF Asked, Feedback
<1>3. s.answers \o s.feedback \in Seq(Asked)
  BY <1>1, <1>2, ConcatProperties
<1> QED
  BY <1>1, <1>3 DEF Canonical

\* Moving an earlier version's turns into the history changes nothing else.
LEMMA MigratedFields ==
  ASSUME NEW s \in Record
  PROVE  LET m == Migrated(s) IN
         /\ m \in Record
         /\ m.history = Canonical(s)
         /\ m.legacy = FALSE /\ m.answers = <<>> /\ m.feedback = <<>>
         /\ m.contract = s.contract /\ m.roots = s.roots /\ m.context = s.context
         /\ m.status = s.status /\ m.question = s.question /\ m.kind = s.kind
         /\ m.code = s.code /\ m.traces = s.traces
<1>1. PICK a \in Seq(Asked), f \in Seq({Feedback}) : a = <<>> /\ f = <<>>
  BY EmptySeq
<1>2. PICK h \in Seq(Asked) : h = Canonical(s)
  BY CanonicalType
<1> DEFINE m == [s EXCEPT !.history = h, !.legacy = FALSE, !.answers = a, !.feedback = f]
<1>3. m \in Record
  BY DEF Record
<1>4. m.history = h /\ m.legacy = FALSE /\ m.answers = a /\ m.feedback = f
  BY DEF Record
<1>5. /\ m.contract = s.contract /\ m.roots = s.roots /\ m.context = s.context
      /\ m.status = s.status /\ m.question = s.question /\ m.kind = s.kind
      /\ m.code = s.code /\ m.traces = s.traces
  BY DEF Record
<1>6. Migrated(s) = m
  BY <1>1, <1>2 DEF Migrated
<1> HIDE DEF m
<1> QED
  BY <1>1, <1>2, <1>3, <1>4, <1>5, <1>6

\* A new session has nothing but its contract.
LEMMA InitialFields ==
  ASSUME NEW r \in Requests
  PROVE  LET b == Initial(r) IN
         /\ b \in Record
         /\ b.status = "pending" /\ b.contract = r.contract
         /\ b.history = <<>> /\ b.legacy = FALSE
         /\ b.roots = Absent.roots /\ b.context = Absent.context
         /\ b.question = Absent.question /\ b.kind = Absent.kind
         /\ b.code = Absent.code /\ b.traces = Absent.traces
<1>1. PICK a \in Seq(Asked), f \in Seq({Feedback}), n \in Seq(Nat) :
        a = <<>> /\ f = <<>> /\ n = <<>>
  BY EmptySeq
<1> DEFINE b == [contract |-> r.contract, roots |-> Unset, context |-> "none",
                 status |-> "pending", question |-> NoTrace, kind |-> "", history |-> a,
                 code |-> NoTrace, traces |-> n, legacy |-> FALSE, answers |-> a,
                 feedback |-> f]
<1>2. Initial(r) = b
  <2>1. Initial(r) = [Absent EXCEPT !.status = "pending", !.contract = r.contract]
    BY DEF Initial
  <2>2. Absent = [contract |-> Unset, roots |-> Unset, context |-> "none", status |-> "absent",
                  question |-> NoTrace, kind |-> "", history |-> a, code |-> NoTrace,
                  traces |-> n, legacy |-> FALSE, answers |-> a, feedback |-> f]
    BY <1>1 DEF Absent
  <2> QED
    BY <2>1, <2>2
<1>3. b \in Record
  BY DEF Record, Requests, Asked, NoTrace, Kinds
<1>4. /\ b.status = "pending" /\ b.contract = r.contract
      /\ b.history = <<>> /\ b.legacy = FALSE
      /\ b.roots = Absent.roots /\ b.context = Absent.context
      /\ b.question = Absent.question /\ b.kind = Absent.kind
      /\ b.code = Absent.code /\ b.traces = Absent.traces
  BY <1>1 DEF Absent
<1> HIDE DEF b
<1> QED
  BY <1>2, <1>3, <1>4

\* The turns a request adds are the answer to the open question, then a feedback.
LEMMA TurnsAdded ==
  ASSUME NEW s \in Record \cup {Absent}, NEW r \in Requests
  PROVE  /\ Turns(s, r) \in Seq(Asked)
         /\ \A i \in 1..Len(Turns(s, r)) : Turns(s, r)[i] \in {Feedback, s.question}
         /\ r.answer \/ Chooses(s, r) =>
              \E i \in 1..Len(Turns(s, r)) : Turns(s, r)[i] = s.question
         /\ (r.answer \/ Chooses(s, r) => s.question # Feedback) =>
              \A i, k \in 1..Len(Turns(s, r)) :
                Turns(s, r)[i] = Feedback /\ Turns(s, r)[k] = Feedback => i = k
<1>1. s.question \in Asked /\ Feedback \in Asked
  <2>1. CASE s = Absent
    BY <2>1 DEF Absent, Asked, NoTrace, Feedback
  <2>2. CASE s \in Record
    BY <2>2 DEF Record, Asked, Feedback
  <2> QED
    BY <2>1, <2>2
<1> DEFINE answers == r.answer \/ Chooses(s, r)
<1>2. CASE answers /\ r.feedback
  <2>1. Turns(s, r) = <<s.question>> \o <<Feedback>>
    BY <1>2 DEF Turns
  <2>2. /\ Turns(s, r) \in Seq(Asked) /\ Len(Turns(s, r)) = 2
        /\ Turns(s, r)[1] = s.question /\ Turns(s, r)[2] = Feedback
    BY <1>1, <2>1
  <2> QED
    BY <1>2, <2>2
<1>3. CASE answers /\ ~r.feedback
  <2>1. Turns(s, r) = <<s.question>>
    BY <1>3 DEF Turns
  <2> QED
    BY <1>1, <1>3, <2>1
<1>4. CASE ~answers /\ r.feedback
  <2>1. Turns(s, r) = <<Feedback>>
    BY <1>4 DEF Turns
  <2> QED
    BY <1>1, <1>4, <2>1
<1>5. CASE ~answers /\ ~r.feedback
  <2>1. Turns(s, r) = <<>>
    BY <1>5 DEF Turns
  <2> QED
    BY <1>1, <1>5, <2>1
<1> QED
  BY <1>2, <1>3, <1>4, <1>5

\* The request closes the open question.
Closes(s, r) ==
  \/ r.answer \/ Chooses(s, r)
  \/ s.kind = "missing_context" /\ r.context = "some"

\* Preparing a request adds its turns to those of the session, and leaves what
\* the runs gave it alone.
LEMMA PreparedFields ==
  ASSUME NEW s \in Record \cup {Absent}, NEW r \in Requests
  PROVE  LET p == Prepared(s, r) IN
         /\ p \in Record
         /\ p.contract = (IF s = Absent THEN r.contract ELSE s.contract)
         /\ p.status = (IF s = Absent THEN "pending" ELSE s.status)
         /\ p.roots = (IF r.roots # Unset THEN Selected(r) ELSE s.roots)
         /\ p.context = ContextAfter(s, r)
         /\ p.question = (IF Closes(s, r) THEN NoTrace ELSE s.question)
         /\ p.kind = (IF Closes(s, r) THEN "" ELSE s.kind)
         /\ p.history = Canonical(s) \o Turns(s, r)
         /\ p.code = s.code /\ p.traces = s.traces
         /\ p.legacy = FALSE
<1> DEFINE base == IF s = Absent THEN Initial(r) ELSE s
           m == Migrated(base)
<1>1. /\ base \in Record
      /\ base.contract = (IF s = Absent THEN r.contract ELSE s.contract)
      /\ base.status = (IF s = Absent THEN "pending" ELSE s.status)
      /\ base.roots = s.roots /\ base.context = s.context
      /\ base.question = s.question /\ base.kind = s.kind
      /\ base.code = s.code /\ base.traces = s.traces
      /\ Canonical(base) = Canonical(s)
  <2>1. CASE s = Absent
    <3>1. Canonical(Initial(r)) = <<>> /\ Canonical(Absent) = <<>>
      BY InitialFields DEF Canonical, Absent
    <3> QED
      BY <2>1, <3>1, InitialFields
  <2>2. CASE s # Absent
    BY <2>2
  <2> QED
    BY <2>1, <2>2
<1> HIDE DEF base
<1>2. /\ m \in Record /\ m.history = Canonical(s) /\ m.legacy = FALSE
      /\ m.contract = base.contract /\ m.status = base.status
      /\ m.roots = s.roots /\ m.context = s.context
      /\ m.question = s.question /\ m.kind = s.kind
      /\ m.code = s.code /\ m.traces = s.traces
  BY <1>1, MigratedFields
<1>3. PICK ro \in Selections \cup {Unset} : ro = IF r.roots # Unset THEN Selected(r) ELSE m.roots
  BY <1>2 DEF Requests, Selected, Selections, Record
<1>4. PICK c \in {"none", "some"} : c = ContextAfter(s, r)
  BY <1>2 DEF ContextAfter, Record
<1>5. PICK h \in Seq(Asked) : h = m.history \o Turns(s, r)
  <2>1. Canonical(s) \in Seq(Asked)
    BY <1>1, CanonicalType
  <2> QED
    BY <1>2, <2>1, TurnsAdded, ConcatProperties
<1>6. PICK q \in Asked : q = IF Closes(s, r) THEN NoTrace ELSE m.question
  BY <1>2 DEF Record, Asked, NoTrace
<1>7. PICK k \in Kinds : k = IF Closes(s, r) THEN "" ELSE m.kind
  BY <1>2 DEF Record, Kinds
<1> DEFINE p == [m EXCEPT !.roots = ro, !.context = c, !.history = h, !.question = q,
                          !.kind = k]
<1>8. Prepared(s, r) = p
  BY <1>3, <1>4, <1>5, <1>6, <1>7 DEF Prepared, Closes, base
<1> HIDE DEF m
<1>9. p \in Record
  BY <1>2 DEF Record
<1>10. /\ p.roots = ro /\ p.context = c /\ p.history = h /\ p.question = q /\ p.kind = k
       /\ p.contract = m.contract /\ p.status = m.status
       /\ p.code = m.code /\ p.traces = m.traces /\ p.legacy = m.legacy
  BY <1>2 DEF Record
<1> HIDE DEF p
<1> QED
  BY <1>1, <1>2, <1>3, <1>4, <1>5, <1>6, <1>7, <1>8, <1>9, <1>10

\* A run sets what it found out and leaves the rest alone.
LEMMA RecordedFields ==
  ASSUME NEW s \in Record, NEW w \in Results(s), NEW n \in Nat
  PROVE  LET d == Recorded(s, w, n) IN
         /\ d \in Record
         /\ d.status = w.status /\ w.status \in Statuses
         /\ d.traces = Append(s.traces, n)
         /\ d.question = (IF w.status = "clarification_required" THEN n ELSE NoTrace)
         /\ d.kind = KindOf(s, w)
         /\ d.code = (IF w.status = "completed" THEN n ELSE s.code)
         /\ d.contract = s.contract /\ d.roots = s.roots /\ d.context = s.context
         /\ d.history = s.history /\ d.legacy = s.legacy
         /\ d.answers = s.answers /\ d.feedback = s.feedback
<1>1. w.status \in Statuses
  BY DEF Results, Statuses
<1>2. PICK ts \in Seq(Nat) : ts = Append(s.traces, n)
  BY AppendProperties DEF Record
<1>3. PICK q \in Asked : q = IF w.status = "clarification_required" THEN n ELSE NoTrace
  BY DEF Asked, NoTrace
<1>4. PICK k \in Kinds : k = KindOf(s, w)
  BY DEF Kinds, KindOf
<1>5. PICK c \in Nat : c = IF w.status = "completed" THEN n ELSE s.code
  BY DEF Record
<1> DEFINE d == [s EXCEPT !.status = w.status, !.traces = ts, !.question = q, !.kind = k,
                          !.code = c]
<1>6. Recorded(s, w, n) = d
  BY <1>2, <1>3, <1>4, <1>5 DEF Recorded
<1>7. d \in Record
  BY <1>1 DEF Record
<1>8. /\ d.status = w.status /\ d.traces = ts /\ d.question = q /\ d.kind = k /\ d.code = c
      /\ d.contract = s.contract /\ d.roots = s.roots /\ d.context = s.context
      /\ d.history = s.history /\ d.legacy = s.legacy
      /\ d.answers = s.answers /\ d.feedback = s.feedback
  BY DEF Record
<1> HIDE DEF d
<1> QED
  BY <1>1, <1>2, <1>3, <1>4, <1>5, <1>6, <1>7, <1>8

\* A sequence is a prefix of its continuations.
LEMMA ConcatPrefix ==
  ASSUME NEW S, NEW u \in Seq(S), NEW v \in Seq(S)
  PROVE  IsPrefix(u, u \o v)
<1>1. SubSeq(u, 1, Len(u)) = u
  BY SubSeqFull
<1>2. SubSeq(u \o v, 1, Len(u)) = u
  <2>1. CASE u = <<>>
    BY <2>1, SubSeqEmpty
  <2>2. CASE u # <<>>
    <3>1. 1 \in 1..Len(u) /\ Len(u) \in 1..Len(u)
      BY <2>2, LenProperties, EmptySeq
    <3> QED
      BY <1>1, <3>1, SubSeqOfConcat1
  <2> QED
    BY <2>1, <2>2
<1>3. Len(u) <= Len(u \o v)
  BY ConcatProperties, LenProperties
<1> QED
  BY <1>1, <1>2, <1>3 DEF IsPrefix

\* Appending an element adds it to the elements, at the end.
LEMMA AppendedElements ==
  ASSUME NEW S, NEW u \in Seq(S), NEW e \in S
  PROVE  /\ ToSet(Append(u, e)) = ToSet(u) \cup {e}
         /\ Append(u, e) # <<>>
         /\ Last(Append(u, e)) = e
         /\ IsPrefix(u, Append(u, e))
<1>1. ToSet(Append(u, e)) = ToSet(u) \cup {e}
  <2>1. /\ Len(u) \in Nat /\ DOMAIN u = 1..Len(u)
        /\ DOMAIN Append(u, e) = 1..Len(u) + 1
        /\ \A i \in 1..Len(u) : Append(u, e)[i] = u[i]
        /\ Append(u, e)[Len(u) + 1] = e
    BY AppendProperties, LenProperties
  <2>2. 1..Len(u) + 1 = (1..Len(u)) \cup {Len(u) + 1}
    BY <2>1
  <2>3. ToSet(u) = {u[i] : i \in 1..Len(u)}
    BY <2>1 DEF ToSet
  <2>4. ToSet(Append(u, e)) = {Append(u, e)[i] : i \in (1..Len(u)) \cup {Len(u) + 1}}
    BY <2>1, <2>2 DEF ToSet
  <2> DEFINE A == Append(u, e)
  <2>5. \A x : x \in ToSet(A) <=> \E i \in (1..Len(u)) \cup {Len(u) + 1} : x = A[i]
    BY <2>4
  <2>6. \A x : x \in ToSet(u) <=> \E i \in 1..Len(u) : x = u[i]
    BY <2>3
  <2>7. (\A i \in 1..Len(u) : A[i] = u[i]) /\ A[Len(u) + 1] = e
    BY <2>1
  <2> HIDE DEF A
  <2>8. \A x : x \in ToSet(A) <=> x \in ToSet(u) \/ x = e
    BY <2>5, <2>6, <2>7
  <2> QED
    BY <2>8 DEF A
<1>2. PICK v \in Seq(S) : v = <<e>>
  <2>1. <<e>> \in Seq(S)
    OBVIOUS
  <2> QED
    BY <2>1
<1>3. Append(u, e) = u \o v
  BY <1>2, AppendIsConcat
<1>4. IsPrefix(u, u \o v)
  BY ConcatPrefix
<1>5. Append(u, e) # <<>> /\ Last(Append(u, e)) = e
  BY AppendProperties DEF Last
<1> QED
  BY <1>1, <1>3, <1>4, <1>5

(***************************************************************************)
(* The inductive invariant.                                                *)
(***************************************************************************)

\* The session s is in accord with the log l.
Sound(s, l) ==
  LET completed == {t \in ToSet(s.traces) : l[t] = "completed"} IN
  /\ s \in Record
  /\ ToSet(s.traces) \subseteq 1..Len(l)
  /\ s.question # NoTrace <=> s.status = "clarification_required"
  /\ s.kind = "missing_context" => s.context = "none"
  /\ IF s.traces = <<>>
     THEN s.question \in {NoTrace, Former} /\ s.kind = ""
     ELSE /\ s.status = l[Latest(s)]
          /\ s.question \in {NoTrace, Latest(s)}
          /\ s.question # NoTrace <=> s.kind # ""
          /\ ~s.legacy
  /\ IF completed = {} THEN s.code = NoTrace
     ELSE s.code \in completed /\ \A t \in completed : t <= s.code

\* d is s with a request that leaves no question open.
Ready(s, d) ==
  /\ d \in Record
  /\ d.question = NoTrace /\ ~d.legacy
  /\ d.traces = s.traces /\ d.code = s.code
  /\ Continues(s, d) /\ Answers(s, d)

\* A thread in the transaction has a copy of the session that is still the
\* committed one, and then its continuation.
CopiesFollow ==
  \A t \in Threads :
    /\ pc[t] = "preparing" => draft[t] = session
    /\ pc[t] = "running" => Ready(session, draft[t])
    /\ pc[t] = "committing" =>
         /\ Sound(draft[t], log) /\ Continues(session, draft[t]) /\ Answers(session, draft[t])
         /\ ToSet(session.traces) \subseteq ToSet(draft[t].traces)

SessionIsSound == session # Absent => Sound(session, log)

IInv == TypeOK /\ SessionIsSound /\ CopiesFollow /\ RunsAreKept

(***************************************************************************)
(* Preparing a request and recording a run keep a session sound and the    *)
(* conversation going.                                                     *)
(***************************************************************************)

\* What the absent session is.
LEMMA AbsentFields ==
  /\ Absent.question = NoTrace /\ Absent.kind = "" /\ Absent.code = NoTrace
  /\ ToSet(Absent.traces) = {}
  /\ Absent \notin Record
<1>1. /\ Absent.question = NoTrace /\ Absent.kind = "" /\ Absent.code = NoTrace
      /\ Absent.traces = <<>> /\ Absent.status = "absent"
  BY DEF Absent
<1>2. ToSet(<<>>) = {}
  BY DEF ToSet
<1>3. \A s \in Record : s.status # "absent"
  BY DEF Record, Statuses
<1> QED
  BY <1>1, <1>2, <1>3

\* A session in accord with the log, or none.
Known(s, l) == s = Absent \/ Sound(s, l)

\* Only an open question is answered.
LEMMA OpenIsAnswered ==
  ASSUME NEW s, NEW l, Known(s, l), NEW r \in Requests, ~Conflict(s, r)
  PROVE  /\ s \in Record \cup {Absent}
         /\ r.answer \/ Chooses(s, r) => s.question # NoTrace
<1>1. CASE s = Absent
  BY <1>1 DEF Conflict, Chooses, Absent
<1>2. CASE Sound(s, l)
  BY <1>2 DEF Conflict, Chooses, Sound
<1> QED
  BY <1>1, <1>2 DEF Known

\* A request that is compatible continues the conversation.
LEMMA PreparedContinues ==
  ASSUME NEW s, NEW l, Known(s, l), NEW r \in Requests, ~Conflict(s, r)
  PROVE  Continues(s, Prepared(s, r)) /\ Answers(s, Prepared(s, r))
<1> DEFINE p == Prepared(s, r)
<1> SUFFICES ASSUME s # Absent
             PROVE  Continues(s, p) /\ Answers(s, p)
  BY DEF Continues, Answers
<1>1. s \in Record
  BY OpenIsAnswered
<1>2. /\ p.contract = s.contract
      /\ p.roots = (IF r.roots # Unset THEN Selected(r) ELSE s.roots)
      /\ p.context = ContextAfter(s, r)
      /\ p.question = (IF Closes(s, r) THEN NoTrace ELSE s.question)
      /\ p.history = Canonical(s) \o Turns(s, r)
      /\ p.traces = s.traces /\ p.legacy = FALSE
  BY <1>1, PreparedFields
<1> HIDE DEF p
<1>3. Canonical(s) \in Seq(Asked) /\ s.traces \in Seq(Nat)
  BY <1>1, CanonicalType DEF Record
<1>4. /\ Turns(s, r) \in Seq(Asked)
      /\ \A i \in 1..Len(Turns(s, r)) : Turns(s, r)[i] \in {Feedback, s.question}
      /\ r.answer \/ Chooses(s, r) =>
           \E i \in 1..Len(Turns(s, r)) : Turns(s, r)[i] = s.question
      /\ \A i, k \in 1..Len(Turns(s, r)) :
           Turns(s, r)[i] = Feedback /\ Turns(s, r)[k] = Feedback => i = k
  BY <1>1, TurnsAdded, OpenIsAnswered DEF Feedback, NoTrace
<1>5. Canonical(p) = Canonical(s) \o Turns(s, r)
  BY <1>2 DEF Canonical
<1>6. \A i \in Places(s, p) :
        /\ i - Len(Canonical(s)) \in 1..Len(Turns(s, r))
        /\ Canonical(p)[i] = Turns(s, r)[i - Len(Canonical(s))]
  BY <1>3, <1>4, <1>5, ConcatProperties, LenProperties DEF Places
<1>7. \A j \in 1..Len(Turns(s, r)) :
        /\ j + Len(Canonical(s)) \in Places(s, p)
        /\ Canonical(p)[j + Len(Canonical(s))] = Turns(s, r)[j]
  BY <1>3, <1>4, <1>5, ConcatProperties, LenProperties DEF Places
<1>8. p.roots # s.roots => s.roots = Unset /\ s.kind = "source_root"
  BY <1>2 DEF Conflict, RootsConflict
<1>9. ~Ambiguous(s)
  BY DEF Conflict
<1>10. IsPrefix(Canonical(s), Canonical(p))
  BY <1>3, <1>4, <1>5, ConcatPrefix
<1>11. IsPrefix(s.traces, p.traces)
  <2>1. SubSeq(s.traces, 1, Len(s.traces)) = SubSeq(p.traces, 1, Len(s.traces))
    BY <1>2
  <2>2. Len(s.traces) \in Nat
    BY <1>3, LenProperties
  <2> QED
    BY <1>2, <2>1, <2>2 DEF IsPrefix
<1>12. \A i \in Places(s, p) : Canonical(p)[i] \in {Feedback, s.question}
  BY <1>4, <1>6
<1>13. ASSUME NEW i \in Places(s, p), NEW k \in Places(s, p),
              Canonical(p)[i] = Feedback, Canonical(p)[k] = Feedback
       PROVE  i = k
  <2>1. i - Len(Canonical(s)) = k - Len(Canonical(s))
    BY <1>4, <1>6, <1>13
  <2>2. i \in Int /\ k \in Int /\ Len(Canonical(s)) \in Int
    BY <1>3, LenProperties DEF Places
  <2> QED
    BY <2>1, <2>2
<1>14. Continues(s, p)
  BY <1>2, <1>8, <1>9, <1>10, <1>11, <1>12, <1>13 DEF Continues
<1>15. ASSUME s.question # NoTrace, p.question # s.question
       PROVE  \/ \E i \in Places(s, p) : Canonical(p)[i] = s.question
              \/ s.kind = "missing_context" /\ p.context = "some"
  <2>1. Closes(s, r)
    BY <1>2, <1>15
  <2>2. CASE r.answer \/ Chooses(s, r)
    BY <1>4, <1>7, <2>2
  <2>3. CASE s.kind = "missing_context" /\ r.context = "some"
    BY <1>2, <2>3 DEF ContextAfter
  <2> QED
    BY <2>1, <2>2, <2>3 DEF Closes
<1>16. Answers(s, p)
  BY <1>15 DEF Answers
<1> QED
  BY <1>14, <1>16

\* A request that leaves the question open leaves the session sound.
LEMMA PreparedSound ==
  ASSUME NEW s, NEW l, Known(s, l), NEW r \in Requests, ~Conflict(s, r),
         Prepared(s, r).question # NoTrace
  PROVE  Sound(Prepared(s, r), l) /\ Prepared(s, r).traces = s.traces
<1> DEFINE p == Prepared(s, r)
<1>1. s \in Record \cup {Absent}
  BY OpenIsAnswered
<1>2. /\ p \in Record
      /\ p.status = (IF s = Absent THEN "pending" ELSE s.status)
      /\ p.context = ContextAfter(s, r)
      /\ p.question = (IF Closes(s, r) THEN NoTrace ELSE s.question)
      /\ p.kind = (IF Closes(s, r) THEN "" ELSE s.kind)
      /\ p.code = s.code /\ p.traces = s.traces /\ p.legacy = FALSE
  BY <1>1, PreparedFields
<1>3. p.question # NoTrace
  OBVIOUS
<1> HIDE DEF p
<1>4. ~Closes(s, r) /\ p.question = s.question /\ p.kind = s.kind
  BY <1>2, <1>3
<1>5. s # Absent /\ Sound(s, l)
  BY <1>3, <1>4, AbsentFields DEF Known
<1>6. p.kind = "missing_context" => p.context = "none"
  <2>1. s.kind = "missing_context" => s.context = "none" /\ r.context # "some"
    BY <1>4, <1>5 DEF Sound, Closes
  <2> QED
    BY <1>2, <1>4, <2>1 DEF ContextAfter, Requests
<1>7. Latest(p) = Latest(s)
  BY <1>2 DEF Latest
<1>8. Sound(p, l)
  BY <1>2, <1>3, <1>4, <1>5, <1>6, <1>7 DEF Sound
<1> QED
  BY <1>2, <1>8 DEF p

\* A request that leaves none open is ready to run.
LEMMA PreparedReady ==
  ASSUME NEW s, NEW l, Known(s, l), NEW r \in Requests, ~Conflict(s, r),
         Prepared(s, r).question = NoTrace
  PROVE  Ready(s, Prepared(s, r))
  BY OpenIsAnswered, PreparedFields, PreparedContinues DEF Ready

\* A run leaves the session sound.
LEMMA RecordedSound ==
  ASSUME NEW s, NEW l \in Seq(Statuses), Known(s, l), NEW p, Ready(s, p),
         NEW w \in Results(p)
  PROVE  LET d == Recorded(p, w, Len(l) + 1) IN
         /\ Sound(d, Append(l, w.status))
         /\ ToSet(d.traces) = ToSet(s.traces) \cup {Len(l) + 1}
         /\ Latest(d) = Len(l) + 1
<1> DEFINE n == Len(l) + 1
           m == Append(l, w.status)
           d == Recorded(p, w, n)
<1>1. n \in Nat /\ p \in Record /\ Len(l) \in Nat
  BY LenProperties DEF Ready
<1>2. /\ d \in Record
      /\ d.status = w.status /\ w.status \in Statuses
      /\ d.traces = Append(p.traces, n)
      /\ d.question = (IF w.status = "clarification_required" THEN n ELSE NoTrace)
      /\ d.kind = KindOf(p, w)
      /\ d.code = (IF w.status = "completed" THEN n ELSE p.code)
      /\ d.context = p.context /\ d.legacy = p.legacy
  BY <1>1, RecordedFields
<1> HIDE DEF d
<1>3. Len(m) = n /\ m[n] = w.status /\ \A i \in 1..Len(l) : m[i] = l[i]
  BY <1>2, AppendProperties
<1>4. p.traces = s.traces /\ p.code = s.code /\ ~p.legacy /\ p.traces \in Seq(Nat)
  BY <1>1 DEF Ready, Record
<1>5. /\ ToSet(d.traces) = ToSet(s.traces) \cup {n}
      /\ d.traces # <<>>
      /\ Latest(d) = n
  <2> DEFINE ts == Append(p.traces, n)
  <2>1. ToSet(ts) = ToSet(p.traces) \cup {n} /\ ts # <<>> /\ Last(ts) = n
    BY <1>1, <1>4, AppendedElements
  <2> QED
    BY <1>2, <1>4, <2>1 DEF Latest
<1>6. ToSet(s.traces) \subseteq 1..Len(l) /\ s.code \in Nat
  <2>1. CASE s = Absent
    <3>1. s.code = NoTrace /\ ToSet(s.traces) = {}
      BY <2>1, AbsentFields
    <3> QED
      BY <3>1 DEF NoTrace
  <2>2. CASE Sound(s, l)
    BY <2>2 DEF Sound, Record
  <2> QED
    BY <2>1, <2>2 DEF Known
<1> HIDE DEF m
<1>7. ToSet(d.traces) \subseteq 1..Len(m)
  BY <1>1, <1>3, <1>5, <1>6
<1>8. d.kind = "missing_context" => d.context = "none"
  BY <1>2 DEF KindOf
<1>9. d.question # NoTrace <=> d.kind # ""
  <2>1. KindOf(p, w) # "" <=> w.status = "clarification_required"
    BY DEF KindOf
  <2>2. n # NoTrace
    BY <1>1 DEF NoTrace
  <2> QED
    BY <1>2, <2>1, <2>2
<1>10. d.question # NoTrace <=> d.status = "clarification_required"
  BY <1>1, <1>2 DEF NoTrace
<1> DEFINE Completed(x, k) == {t \in ToSet(x.traces) : k[t] = "completed"}
<1>11. IF Completed(d, m) = {} THEN d.code = NoTrace
       ELSE d.code \in Completed(d, m) /\ \A t \in Completed(d, m) : t <= d.code
  <2>1. Completed(d, m) = Completed(s, l) \cup (IF w.status = "completed" THEN {n} ELSE {})
    BY <1>1, <1>3, <1>5, <1>6
  <2>2. IF Completed(s, l) = {} THEN s.code = NoTrace
        ELSE s.code \in Completed(s, l) /\ \A t \in Completed(s, l) : t <= s.code
    <3>1. CASE s = Absent
      BY <3>1, AbsentFields
    <3>2. CASE Sound(s, l)
      BY <3>2 DEF Sound
    <3> QED
      BY <3>1, <3>2 DEF Known
  <2>3. Completed(s, l) \subseteq 1..Len(l)
    BY <1>6
  <2> HIDE DEF Completed
  <2> QED
    BY <1>1, <1>2, <1>4, <2>1, <2>2, <2>3
<1>12. Sound(d, m)
  BY <1>2, <1>3, <1>4, <1>5, <1>7, <1>8, <1>9, <1>10, <1>11 DEF Sound
<1> QED
  BY <1>5, <1>12 DEF d, m

\* A run continues the conversation.
LEMMA RecordedContinues ==
  ASSUME NEW s, NEW l \in Seq(Statuses), Known(s, l), NEW p, Ready(s, p),
         NEW w \in Results(p)
  PROVE  LET d == Recorded(p, w, Len(l) + 1) IN
         Continues(s, d) /\ Answers(s, d)
<1> DEFINE n == Len(l) + 1
           d == Recorded(p, w, n)
<1>1. n \in Nat /\ p \in Record
  BY LenProperties DEF Ready
<1>2. /\ d.traces = Append(p.traces, n)
      /\ d.contract = p.contract /\ d.roots = p.roots /\ d.context = p.context
      /\ d.history = p.history /\ d.legacy = p.legacy
  BY <1>1, RecordedFields
<1> HIDE DEF d
<1>3. p.traces = s.traces /\ ~p.legacy /\ p.question = NoTrace /\ p.traces \in Seq(Nat)
  BY <1>1 DEF Ready, Record
<1>4. IsPrefix(s.traces, d.traces)
  BY <1>1, <1>2, <1>3, AppendedElements
<1>5. Canonical(d) = Canonical(p) /\ Places(s, d) = Places(s, p)
  BY <1>2, <1>3 DEF Canonical, Places
<1>6. Continues(s, d)
  BY <1>2, <1>3, <1>4, <1>5 DEF Ready, Continues
<1>7. Answers(s, d)
  BY <1>2, <1>3, <1>5 DEF Ready, Answers
<1> QED
  BY <1>6, <1>7 DEF d

\* A longer log contradicts no session.
LEMMA SoundGrows ==
  ASSUME NEW l \in Seq(Statuses), NEW e \in Statuses, NEW s, Sound(s, l)
  PROVE  Sound(s, Append(l, e))
<1> DEFINE m == Append(l, e)
<1>1. /\ Len(l) \in Nat /\ Len(m) = Len(l) + 1
      /\ \A i \in 1..Len(l) : m[i] = l[i]
  BY AppendProperties, LenProperties
<1>2. ToSet(s.traces) \subseteq 1..Len(l) /\ s.traces \in Seq(Nat)
  BY DEF Sound, Record
<1> HIDE DEF m
<1>3. s.traces # <<>> => Latest(s) \in ToSet(s.traces)
  BY <1>2, EmptySeq, LenProperties DEF Latest, Last, ToSet
<1>4. {t \in ToSet(s.traces) : m[t] = "completed"} = {t \in ToSet(s.traces) : l[t] = "completed"}
  BY <1>1, <1>2
<1>5. ToSet(s.traces) \subseteq 1..Len(m)
  BY <1>1, <1>2
<1>6. s.traces # <<>> => m[Latest(s)] = l[Latest(s)]
  BY <1>1, <1>2, <1>3
<1>7. Sound(s, m)
  BY <1>4, <1>5, <1>6 DEF Sound
<1> QED
  BY <1>7 DEF m

(***************************************************************************)
(* Every step keeps the inductive invariant.                               *)
(***************************************************************************)

\* Who is where: the slots, the lock and the program counters.
Control ==
  /\ pc \in [Threads -> {"idle", "entering", "preparing", "running", "committing",
                         "leaving"}]
  /\ slot \in [Processes -> Threads \cup {Nobody}]
  /\ lock \in Threads \cup {Nobody}
  /\ \A t \in Threads :
       /\ pc[t] # "idle" <=> slot[Process[t]] = t
       /\ pc[t] \in {"preparing", "running", "committing"} <=> lock = t

\* What they hold: the session, the log and the copies.
Data ==
  /\ session \in Record \cup {Absent}
  /\ log \in Seq(Statuses)
  /\ draft \in [Threads -> Record \cup {Absent}]
  /\ expired \cup lost \subseteq 1..Len(log)

LEMMA TypeParts == TypeOK <=> Control /\ Data
  BY DEF TypeOK, Control, Data

\* A thread that moves alone keeps the slots and the lock with their holders.
LEMMA ControlStep == Control /\ [Next]_vars => Control'
<1> SUFFICES ASSUME Control, [Next]_vars PROVE Control'
  OBVIOUS
<1> USE EngineAssumption DEF Control, Goto
<1>1. ASSUME NEW t \in Threads, Call(t) PROVE Control'
  BY <1>1 DEF Call, Admit
<1>2. ASSUME NEW t \in Threads, Check(t) PROVE Control'
  BY <1>2 DEF Check, Admit
<1>3. ASSUME NEW t \in Threads, Load(t) PROVE Control'
  BY <1>3 DEF Load
<1>4. ASSUME NEW t \in Threads, NEW r \in Requests, Prepare(t, r) PROVE Control'
  BY <1>4 DEF Prepare
<1>5. ASSUME NEW t \in Threads, Raise(t) PROVE Control'
  BY <1>5 DEF Raise
<1>6. ASSUME NEW t \in Threads, NEW w \in Results(draft[t]), Finish(t, w) PROVE Control'
  BY <1>6 DEF Finish
<1>7. ASSUME NEW t \in Threads, Commit(t) PROVE Control'
  BY <1>7 DEF Commit
<1>8. ASSUME NEW t \in Threads, Return(t) PROVE Control'
  BY <1>8 DEF Return
<1>9. ASSUME NEW p \in Processes, Crash(p) PROVE Control'
  BY <1>9 DEF Crash
<1>10. CASE Expire
  BY <1>10 DEF Expire
<1>11. CASE UNCHANGED vars
  BY <1>11 DEF vars
<1> QED
  BY <1>1, <1>2, <1>3, <1>4, <1>5, <1>6, <1>7, <1>8, <1>9, <1>10, <1>11 DEF Next, Step

\* The last trace of a sound session is one of its traces, if it has any.
LEMMA LatestIsOwn ==
  ASSUME NEW s, NEW l, Sound(s, l)
  PROVE  Latest(s) \in {NoTrace} \cup ToSet(s.traces)
<1>1. s.traces \in Seq(Nat)
  BY DEF Sound, Record
<1>2. s.traces # <<>> => Last(s.traces) \in ToSet(s.traces)
  BY <1>1, EmptySeq, LenProperties DEF Last, ToSet
<1> QED
  BY <1>2 DEF Latest

\* The session and the copies stay records, and the log keeps what is named.
LEMMA DataStep == IInv /\ [Next]_vars => Data'
<1> SUFFICES ASSUME IInv, [Next]_vars PROVE Data'
  OBVIOUS
<1> USE EngineAssumption DEF Data, Goto
<1>0. Control /\ Data /\ SessionIsSound /\ CopiesFollow
  BY TypeParts DEF IInv
<1>1. ASSUME NEW t \in Threads, Call(t) PROVE Data'
  BY <1>0, <1>1 DEF Call
<1>2. ASSUME NEW t \in Threads, Check(t) PROVE Data'
  BY <1>0, <1>2 DEF Check
<1>3. ASSUME NEW t \in Threads, Load(t) PROVE Data'
  BY <1>0, <1>3 DEF Load
<1>4. ASSUME NEW t \in Threads, NEW r \in Requests, Prepare(t, r) PROVE Data'
  <2>1. Prepared(draft[t], r) \in Record
    BY <1>0, PreparedFields
  <2> QED
    BY <1>0, <1>4, <2>1 DEF Prepare
<1>5. ASSUME NEW t \in Threads, Raise(t) PROVE Data'
  BY <1>0, <1>5 DEF Raise
<1>6. ASSUME NEW t \in Threads, NEW w \in Results(draft[t]), Finish(t, w) PROVE Data'
  <2>1. draft[t] \in Record
    BY <1>0, <1>6 DEF Finish, CopiesFollow, Ready
  <2>2. Len(log) \in Nat /\ Len(log) + 1 \in Nat
    BY <1>0, LenProperties
  <2>3. Recorded(draft[t], w, Len(log) + 1) \in Record /\ w.status \in Statuses
    BY <2>1, <2>2, RecordedFields
  <2>4. log' \in Seq(Statuses) /\ Len(log') = Len(log) + 1
    BY <1>0, <1>6, <2>3, AppendProperties DEF Finish
  <2> QED
    BY <1>0, <1>6, <2>2, <2>3, <2>4 DEF Finish
<1>7. ASSUME NEW t \in Threads, Commit(t) PROVE Data'
  BY <1>0, <1>7 DEF Commit
<1>8. ASSUME NEW t \in Threads, Return(t) PROVE Data'
  BY <1>0, <1>8 DEF Return
<1>9. ASSUME NEW p \in Processes, Crash(p) PROVE Data'
  <2>1. \A t \in Threads : pc[t] = "committing" => Latest(draft[t]) \in {NoTrace} \cup 1..Len(log)
    BY <1>0, LatestIsOwn DEF CopiesFollow, Sound
  <2>2. lost' \subseteq 1..Len(log)
    BY <1>0, <1>9, <2>1 DEF Crash
  <2> QED
    BY <1>0, <1>9, <2>2 DEF Crash
<1>10. CASE Expire
  BY <1>0, <1>10 DEF Expire, SessionIsSound, Sound
<1>11. CASE UNCHANGED vars
  BY <1>0, <1>11 DEF vars
<1> QED
  BY <1>1, <1>2, <1>3, <1>4, <1>5, <1>6, <1>7, <1>8, <1>9, <1>10, <1>11 DEF Next, Step

\* The committed session stays in accord with the log.
LEMMA SoundStep == IInv /\ [Next]_vars => SessionIsSound'
<1> SUFFICES ASSUME IInv, [Next]_vars PROVE SessionIsSound'
  OBVIOUS
<1>0. Control /\ Data /\ SessionIsSound /\ CopiesFollow
  BY TypeParts DEF IInv
<1>1. ASSUME session' = session, log' = log PROVE SessionIsSound'
  BY <1>0, <1>1 DEF SessionIsSound
<1>2. ASSUME NEW t \in Threads, Call(t) \/ Check(t) \/ Load(t) \/ Raise(t) \/ Return(t)
      PROVE  SessionIsSound'
  BY <1>1, <1>2 DEF Call, Check, Load, Raise, Return
<1>3. ASSUME NEW t \in Threads, NEW r \in Requests, Prepare(t, r) PROVE SessionIsSound'
  BY <1>1, <1>3 DEF Prepare
<1>4. ASSUME NEW t \in Threads, NEW w \in Results(draft[t]), Finish(t, w)
      PROVE  SessionIsSound'
  <2>1. draft[t] \in Record
    BY <1>0, <1>4 DEF Finish, CopiesFollow, Ready
  <2>2. w.status \in Statuses
    BY <2>1, RecordedFields, LenProperties DEF Results, Statuses
  <2> QED
    BY <1>0, <1>4, <2>2, SoundGrows DEF Finish, SessionIsSound, Data
<1>5. ASSUME NEW t \in Threads, Commit(t) PROVE SessionIsSound'
  BY <1>0, <1>5 DEF Commit, CopiesFollow, SessionIsSound
<1>6. ASSUME NEW p \in Processes, Crash(p) PROVE SessionIsSound'
  BY <1>1, <1>6 DEF Crash
<1>7. CASE Expire
  BY <1>7 DEF Expire, SessionIsSound
<1>8. CASE UNCHANGED vars
  BY <1>1, <1>8 DEF vars
<1> QED
  BY <1>2, <1>3, <1>4, <1>5, <1>6, <1>7, <1>8 DEF Next, Step

\* The copy of the thread with the lock goes on following the session, which no
\* one else changes meanwhile.
LEMMA CopiesStep == IInv /\ [Next]_vars => CopiesFollow'
<1> SUFFICES ASSUME IInv, [Next]_vars PROVE CopiesFollow'
  OBVIOUS
<1> USE EngineAssumption DEF Goto
<1>0. Control /\ Data /\ SessionIsSound /\ CopiesFollow
  BY TypeParts DEF IInv
<1>1. ASSUME NEW t \in Threads, Call(t) PROVE CopiesFollow'
  BY <1>0, <1>1 DEF Call, Control, CopiesFollow
<1>2. ASSUME NEW t \in Threads, Check(t) PROVE CopiesFollow'
  BY <1>0, <1>2 DEF Check, Control, CopiesFollow
<1>3. ASSUME NEW t \in Threads, Load(t) PROVE CopiesFollow'
  BY <1>0, <1>3 DEF Load, Control, Data, CopiesFollow
<1>4. ASSUME NEW t \in Threads, NEW r \in Requests, Prepare(t, r) PROVE CopiesFollow'
  <2> DEFINE p == Prepared(session, r)
  <2>1. draft[t] = session /\ ~Conflict(session, r) /\ Known(session, log)
    BY <1>0, <1>4 DEF Prepare, CopiesFollow, SessionIsSound, Known
  <2>2. p.question = NoTrace => Ready(session, p)
    BY <2>1, PreparedReady
  <2>3. p.question # NoTrace =>
          /\ Sound(p, log) /\ Continues(session, p) /\ Answers(session, p)
          /\ ToSet(session.traces) \subseteq ToSet(p.traces)
    BY <2>1, PreparedSound, PreparedContinues
  <2> HIDE DEF p
  <2>4. /\ draft' = [draft EXCEPT ![t] = p]
        /\ pc' = [pc EXCEPT ![t] = IF p.question # NoTrace THEN "committing" ELSE "running"]
        /\ session' = session /\ log' = log /\ lock = t
    BY <1>0, <1>4, <2>1 DEF Prepare, Control, Data, p
  <2> QED
    BY <1>0, <2>2, <2>3, <2>4 DEF Control, Data, CopiesFollow
<1>5. ASSUME NEW t \in Threads, Raise(t) PROVE CopiesFollow'
  BY <1>0, <1>5 DEF Raise, Control, Data, CopiesFollow
<1>6. ASSUME NEW t \in Threads, NEW w \in Results(draft[t]), Finish(t, w)
      PROVE  CopiesFollow'
  <2> DEFINE d == Recorded(draft[t], w, Len(log) + 1)
             l == Append(log, w.status)
  <2>1. Ready(session, draft[t]) /\ Known(session, log) /\ log \in Seq(Statuses)
    BY <1>0, <1>6 DEF Finish, CopiesFollow, SessionIsSound, Known, Data
  <2>2. Sound(d, l) /\ ToSet(session.traces) \subseteq ToSet(d.traces)
    BY <2>1, RecordedSound
  <2>3. Continues(session, d) /\ Answers(session, d)
    BY <2>1, RecordedContinues
  <2> HIDE DEF d, l
  <2>4. /\ draft' = [draft EXCEPT ![t] = d]
        /\ pc' = [pc EXCEPT ![t] = "committing"]
        /\ session' = session /\ log' = l /\ lock = t
    BY <1>0, <1>6 DEF Finish, Control, d, l
  <2> QED
    BY <1>0, <2>2, <2>3, <2>4 DEF Control, Data, CopiesFollow
<1>7. ASSUME NEW t \in Threads, Commit(t) PROVE CopiesFollow'
  BY <1>0, <1>7 DEF Commit, Control, Data, CopiesFollow
<1>8. ASSUME NEW t \in Threads, Return(t) PROVE CopiesFollow'
  BY <1>0, <1>8 DEF Return, Control, CopiesFollow
<1>9. ASSUME NEW p \in Processes, Crash(p) PROVE CopiesFollow'
  BY <1>0, <1>9 DEF Crash, Control, CopiesFollow
<1>10. CASE Expire
  BY <1>0, <1>10 DEF Expire, Control, CopiesFollow
<1>11. CASE UNCHANGED vars
  BY <1>0, <1>11 DEF vars, CopiesFollow
<1> QED
  BY <1>1, <1>2, <1>3, <1>4, <1>5, <1>6, <1>7, <1>8, <1>9, <1>10, <1>11 DEF Next, Step

\* No run drops out of sight.
LEMMA RunsStep == IInv /\ [Next]_vars => RunsAreKept'
<1> SUFFICES ASSUME IInv, [Next]_vars PROVE RunsAreKept'
  OBVIOUS
<1> USE EngineAssumption DEF Goto
<1>0. Control /\ Data /\ SessionIsSound /\ CopiesFollow /\ RunsAreKept
  BY TypeParts DEF IInv
<1>1. ASSUME NEW t \in Threads, Call(t) PROVE RunsAreKept'
  BY <1>0, <1>1 DEF Call, Admit, Control, RunsAreKept
<1>2. ASSUME NEW t \in Threads, Check(t) PROVE RunsAreKept'
  BY <1>0, <1>2 DEF Check, Admit, Control, RunsAreKept
<1>3. ASSUME NEW t \in Threads, Load(t) PROVE RunsAreKept'
  BY <1>0, <1>3 DEF Load, Control, RunsAreKept
<1>4. ASSUME NEW t \in Threads, NEW r \in Requests, Prepare(t, r) PROVE RunsAreKept'
  BY <1>0, <1>4 DEF Prepare, Control, RunsAreKept
<1>5. ASSUME NEW t \in Threads, Raise(t) PROVE RunsAreKept'
  BY <1>0, <1>5 DEF Raise, Control, RunsAreKept
<1>6. ASSUME NEW t \in Threads, NEW w \in Results(draft[t]), Finish(t, w)
      PROVE  RunsAreKept'
  <2> DEFINE d == Recorded(draft[t], w, Len(log) + 1)
  <2>1. Ready(session, draft[t]) /\ Known(session, log) /\ log \in Seq(Statuses)
    BY <1>0, <1>6 DEF Finish, CopiesFollow, SessionIsSound, Known, Data
  <2>2. Latest(d) = Len(log) + 1
    BY <2>1, RecordedSound
  <2>3. Len(log) \in Nat /\ Len(log') = Len(log) + 1
    <3>1. w.status \in Statuses
      BY DEF Results, Statuses
    <3> QED
      BY <1>6, <2>1, <3>1, AppendProperties, LenProperties DEF Finish
  <2> HIDE DEF d
  <2>4. /\ pc[t] = "running" /\ lock = t
        /\ draft' = [draft EXCEPT ![t] = d] /\ pc' = [pc EXCEPT ![t] = "committing"]
        /\ session' = session /\ expired' = expired /\ lost' = lost
    BY <1>0, <1>6 DEF Finish, Control, d
  <2>5. ASSUME NEW i \in 1..Len(log)
        PROVE  i \in ToSet(session'.traces) \cup expired' \cup lost'
    BY <1>0, <2>4 DEF Control, RunsAreKept
  <2>6. pc'[t] = "committing" /\ Latest(draft'[t]) = Len(log) + 1
    BY <1>0, <2>2, <2>4 DEF Control, Data
  <2> QED
    BY <2>3, <2>5, <2>6 DEF RunsAreKept
<1>7. ASSUME NEW t \in Threads, Commit(t) PROVE RunsAreKept'
  <2>1. /\ Sound(draft[t], log) /\ ToSet(session.traces) \subseteq ToSet(draft[t].traces)
        /\ lock = t
    BY <1>0, <1>7 DEF Commit, CopiesFollow, Control
  <2>2. Latest(draft[t]) \in {NoTrace} \cup ToSet(draft[t].traces)
    BY <2>1, LatestIsOwn
  <2>3. \A u \in Threads \ {t} : pc[u] # "committing"
    BY <1>0, <2>1 DEF Control
  <2>4. session' = draft[t] /\ log' = log /\ expired' = expired /\ lost' = lost
    BY <1>7 DEF Commit
  <2> QED
    BY <1>0, <2>1, <2>2, <2>3, <2>4 DEF RunsAreKept, NoTrace
<1>8. ASSUME NEW t \in Threads, Return(t) PROVE RunsAreKept'
  BY <1>0, <1>8 DEF Return, Control, RunsAreKept
<1>9. ASSUME NEW p \in Processes, Crash(p) PROVE RunsAreKept'
  <2>1. ASSUME NEW i \in 1..Len(log)
        PROVE  \/ i \in ToSet(session'.traces) \cup expired' \cup lost'
               \/ \E t \in Threads : pc'[t] = "committing" /\ Latest(draft'[t]) = i
    <3>1. CASE i \in ToSet(session.traces) \cup expired \cup lost
      BY <1>9, <3>1 DEF Crash
    <3>2. ASSUME NEW t \in Threads, pc[t] = "committing", Latest(draft[t]) = i,
                 Process[t] = p, i \notin ToSet(session.traces)
          PROVE  i \in lost'
      BY <1>9, <2>1, <3>2 DEF Crash, NoTrace
    <3>3. ASSUME NEW t \in Threads, pc[t] = "committing", Latest(draft[t]) = i,
                 Process[t] # p
          PROVE  pc'[t] = "committing" /\ Latest(draft'[t]) = i
      BY <1>9, <3>3 DEF Crash
    <3>4. session' = session
      BY <1>9 DEF Crash
    <3> QED
      BY <1>0, <3>1, <3>2, <3>3, <3>4 DEF RunsAreKept
  <2>2. log' = log
    BY <1>9 DEF Crash
  <2> QED
    BY <2>1, <2>2 DEF RunsAreKept
<1>10. CASE Expire
  BY <1>0, <1>10 DEF Expire, RunsAreKept
<1>11. CASE UNCHANGED vars
  BY <1>0, <1>11 DEF vars, RunsAreKept
<1> QED
  BY <1>1, <1>2, <1>3, <1>4, <1>5, <1>6, <1>7, <1>8, <1>9, <1>10, <1>11 DEF Next, Step

\* A session only changes by the commit of a copy that continues it.
LEMMA SessionContinues ==
  ASSUME IInv, Next, session # Absent, session' # Absent, session' # session
  PROVE  Continues(session, session') /\ Answers(session, session')
<1>0. CopiesFollow
  BY DEF IInv
<1>1. ASSUME NEW t \in Threads, Commit(t)
      PROVE  Continues(session, session') /\ Answers(session, session')
  BY <1>0, <1>1 DEF Commit, CopiesFollow
<1>2. ASSUME NEW t \in Threads, Call(t) \/ Check(t) \/ Load(t) \/ Raise(t) \/ Return(t)
      PROVE  FALSE
  BY <1>2 DEF Call, Check, Load, Raise, Return
<1>3. ASSUME NEW t \in Threads, NEW r \in Requests, Prepare(t, r) PROVE FALSE
  BY <1>3 DEF Prepare
<1>4. ASSUME NEW t \in Threads, NEW w \in Results(draft[t]), Finish(t, w) PROVE FALSE
  BY <1>4 DEF Finish
<1>5. ASSUME NEW p \in Processes, Crash(p) PROVE FALSE
  BY <1>5 DEF Crash
<1>6. ASSUME Expire PROVE FALSE
  BY <1>6 DEF Expire
<1> QED
  BY <1>1, <1>2, <1>3, <1>4, <1>5, <1>6 DEF Next, Step

(***************************************************************************)
(* The theorems.                                                           *)
(***************************************************************************)

\* What an earlier version left is sound.
LEMMA Initially == Init => IInv
<1> SUFFICES ASSUME Init PROVE IInv
  OBVIOUS
<1>1. /\ log = <<>> /\ Len(log) = 0 /\ log \in Seq(Statuses) /\ lock = Nobody
      /\ expired = {} /\ lost = {}
      /\ \A t \in Threads : pc[t] = "idle" /\ draft[t] = Absent
      /\ draft \in [Threads -> {Absent}]
  BY DEF Init
<1>2. session = Absent \/ session \in Inherited
  BY DEF Init
<1>3. session # Absent => Sound(session, log)
  <2> SUFFICES ASSUME session \in Inherited PROVE Sound(session, log)
    BY <1>2
  <2>1. /\ session \in Record /\ session.code = NoTrace /\ session.kind = ""
        /\ session.question = IF session.status = "clarification_required" THEN Former ELSE NoTrace
    BY InheritedAssumption
  <2>2. session.traces = <<>>
    BY InheritedAssumption
  <2>3. ToSet(session.traces) = {}
    BY <2>2 DEF ToSet
  <2>4. {t \in ToSet(session.traces) : log[t] = "completed"} = {}
    BY <2>3
  <2>5. /\ session.question # NoTrace <=> session.status = "clarification_required"
        /\ session.question \in {NoTrace, Former}
    <3>1. Former # NoTrace
      BY DEF Former, NoTrace
    <3> QED
      BY <2>1, <3>1
  <2> QED
    BY <2>1, <2>2, <2>3, <2>4, <2>5 DEF Sound
<1>4. Data
  BY <1>1, <1>2, InheritedAssumption DEF Data
<1>5. Control
  BY <1>1, EngineAssumption DEF Init, Control
<1> QED
  BY <1>1, <1>3, <1>4, <1>5, TypeParts DEF IInv, SessionIsSound, CopiesFollow, RunsAreKept

\* Every reachable state satisfies the inductive invariant.
LEMMA Invariance == Spec => []IInv
<1>1. IInv /\ [Next]_vars => IInv'
  <2> SUFFICES ASSUME IInv, [Next]_vars PROVE IInv'
    OBVIOUS
  <2>1. Control /\ Data
    BY TypeParts DEF IInv
  <2>2. Control' /\ Data'
    BY <2>1, ControlStep, DataStep
  <2>3. TypeOK'
    BY <2>2 DEF TypeOK, Control, Data
  <2> QED
    BY <2>3, SoundStep, CopiesStep, RunsStep DEF IInv
<1> QED
  BY Initially, <1>1, PTL DEF Spec

\* The variables have their types, the slots and the lock their holders.
THEOREM TypeCorrect == Spec => []TypeOK
<1>1. IInv => TypeOK
  BY DEF IInv
<1> QED
  BY Invariance, <1>1, PTL

\* The committed session agrees with the last trace it names.
THEOREM SessionAlwaysMatchesTrace == Spec => []SessionMatchesTrace
<1>1. IInv => SessionMatchesTrace
  BY DEF IInv, SessionIsSound, Sound, SessionMatchesTrace
<1> QED
  BY Invariance, <1>1, PTL

\* The code to revise is that of the last completed run.
THEOREM CodeIsAlwaysLastCompleted == Spec => []CodeIsLastCompleted
<1>1. ASSUME IInv PROVE CodeIsLastCompleted
  <2>1. CASE session = Absent
    <3>1. session.code = NoTrace /\ ToSet(session.traces) = {}
      BY <2>1, AbsentFields
    <3> QED
      BY <3>1 DEF CodeIsLastCompleted
  <2>2. CASE Sound(session, log)
    BY <2>2 DEF Sound, CodeIsLastCompleted
  <2> QED
    BY <1>1, <2>1, <2>2 DEF IInv, SessionIsSound
<1> QED
  BY Invariance, <1>1, PTL

\* No run is lost to another request.
THEOREM RunsAreAlwaysKept == Spec => []RunsAreKept
<1>1. IInv => RunsAreKept
  BY DEF IInv
<1> QED
  BY Invariance, <1>1, PTL

\* Confirmed requirements are never replaced.
THEOREM ConversationsAreKept == Spec => ConversationIsKept
<1>1. IInv /\ [Next]_vars =>
        [session # Absent /\ session' # Absent => Continues(session, session')]_session
  BY SessionContinues DEF vars
<1> QED
  BY Invariance, <1>1, PTL DEF Spec, ConversationIsKept

\* An open question goes away only when it is answered.
THEOREM QuestionsAreAlwaysAnswered == Spec => QuestionsAreAnswered
<1>1. IInv /\ [Next]_vars =>
        [session # Absent /\ session' # Absent => Answers(session, session')]_session
  BY SessionContinues DEF vars
<1> QED
  BY Invariance, <1>1, PTL DEF Spec, QuestionsAreAnswered

=============================================================================
