----------------------------- MODULE TraceStore -----------------------------
(***************************************************************************)
(* app/core/traces.py: a trace is a file in a directory per day and two    *)
(* pointers, one by trace and one by session, all under one store lock.    *)
(* A write stamps the trace before it waits for the lock, then writes the  *)
(* three files and retires old traces; a process may die, or an OSError    *)
(* end the call, between any two of them.                                  *)
(*                                                                         *)
(* A trace is written once (its identifier is fresh), so its path is a     *)
(* function of the trace and a pointer is either there or not.  What only  *)
(* reads under the lock is one step, and so is a scan of the directories:  *)
(* nobody else touches the files then.                                     *)
(***************************************************************************)
EXTENDS Integers, FiniteSets

CONSTANTS
  Writers,          \* threads of the server and CLI processes
  Traces,
  Sessions,
  SessionOf,        \* the session of each trace
  Nobody,           \* the holder of a free lock
  NoTrace,
  RetentionCount,   \* retention_count
  Ttl,              \* retention_ttl_seconds
  Damageable,       \* traces whose files something outside the program may spoil
  MaxTime           \* bound on the clock

ASSUME TraceAssumption ==
  /\ Nobody \notin Writers
  /\ NoTrace \notin Traces
  /\ IsFiniteSet(Traces)
  /\ SessionOf \in [Traces -> Sessions]
  /\ RetentionCount \in Nat
  /\ Ttl \in Nat
  /\ Damageable \subseteq Traces
  /\ MaxTime \in Nat

VARIABLES
  now,              \* the wall clock
  file,             \* [Traces -> created_at \cup {Absent, Garbage}]
  byId,             \* .index/traces: [Traces -> Pointer]
  bySession,        \* .index/sessions: [Traces -> Pointer]
  lock,             \* the holder of store.lock
  pc,               \* where each writer is
  job,              \* the trace each writer writes and its created_at
  doomed,           \* what the cleanup under way still has to delete
  victim,           \* the trace it is deleting
  begun,            \* traces ever begun
  torn,             \* traces whose writing or deletion was cut short, or spoilt
  overrun           \* writes cut short after their file, since the last full cleanup

vars == <<now, file, byId, bySession, lock, pc, job, doomed, victim, begun, torn, overrun>>

Absent  == -1
Garbage == -2       \* read_json refuses it
Pointer == {"none", "ok", "bad"}
NoJob   == [trace |-> NoTrace, at |-> 0]

Readable(t) == file[t] >= 0
Entries     == {t \in Traces : Readable(t)}
-----------------------------------------------------------------------------
\* What the time limit removes, judging at time at.
Outlived(at) == {t \in Entries : file[t] < at - Ttl}

\* A wrong Kept: the count limit keeps the oldest traces.
KeptOldest(keep, at) ==
  LET survivors == Entries \ Outlived(at) IN
  /\ keep \subseteq survivors
  /\ \/ keep = survivors /\ Cardinality(survivors) <= RetentionCount
     \/ Cardinality(keep) = RetentionCount
  /\ \A k \in keep, d \in survivors \ keep : file[k] <= file[d]

\* A wrong Kept: the count limit keeps one trace too many.
KeptOneMore(keep, at) ==
  LET survivors == Entries \ Outlived(at) IN
  /\ keep \subseteq survivors
  /\ \/ keep = survivors /\ Cardinality(survivors) <= RetentionCount + 1
     \/ Cardinality(keep) = RetentionCount + 1
  /\ \A k \in keep, d \in survivors \ keep : file[k] >= file[d]

\* The count limit keeps the most recent survivors; the order of the directory
\* decides between equal times.
Kept(keep, at) ==
  LET survivors == Entries \ Outlived(at) IN
  /\ keep \subseteq survivors
  /\ \/ keep = survivors /\ Cardinality(survivors) <= RetentionCount
     \/ Cardinality(keep) = RetentionCount
  /\ \A k \in keep, d \in survivors \ keep : file[k] >= file[d]

Goto(w, label) == pc' = [pc EXCEPT ![w] = label]

GoIdle(w) ==
  /\ Goto(w, "idle")
  /\ job' = [job EXCEPT ![w] = NoJob]
  /\ lock' = IF lock = w THEN Nobody ELSE lock
-----------------------------------------------------------------------------
Init ==
  /\ now = 0
  /\ file = [t \in Traces |-> Absent]
  /\ byId = [t \in Traces |-> "none"]
  /\ bySession = [t \in Traces |-> "none"]
  /\ lock = Nobody
  /\ pc = [w \in Writers |-> "idle"]
  /\ job = [w \in Writers |-> NoJob]
  /\ doomed = {}
  /\ victim = NoTrace
  /\ begun = {}
  /\ torn = {}
  /\ overrun = 0

Tick ==
  /\ now < MaxTime
  /\ now' = now + 1
  /\ UNCHANGED <<file, byId, bySession, lock, pc, job, doomed, victim, begun, torn, overrun>>

\* A wrong Stamp: the trace is dated by the tick before.
StampEarly(w, t) ==
  /\ pc[w] = "idle"
  /\ t \notin begun
  /\ begun' = begun \cup {t}
  /\ job' = [job EXCEPT ![w] = [trace |-> t, at |-> now - 1]]
  /\ Goto(w, "waiting")
  /\ UNCHANGED <<now, file, byId, bySession, lock, doomed, victim, torn, overrun>>

\* write(): the time is taken and the identifiers are chosen, then the lock is
\* waited for.
Stamp(w, t) ==
  /\ pc[w] = "idle"
  /\ t \notin begun
  /\ begun' = begun \cup {t}
  /\ job' = [job EXCEPT ![w] = [trace |-> t, at |-> now]]
  /\ Goto(w, "waiting")
  /\ UNCHANGED <<now, file, byId, bySession, lock, doomed, victim, torn, overrun>>

\* The lock, then the trace itself.
WriteTrace(w) ==
  /\ pc[w] = "waiting"
  /\ lock = Nobody
  /\ lock' = w
  /\ file' = [file EXCEPT ![job[w].trace] = job[w].at]
  /\ Goto(w, "indexing")
  /\ UNCHANGED <<now, byId, bySession, job, doomed, victim, begun, torn, overrun>>

WriteIdIndex(w) ==
  /\ pc[w] = "indexing"
  /\ byId' = [byId EXCEPT ![job[w].trace] = "ok"]
  /\ Goto(w, "listing")
  /\ UNCHANGED <<now, file, bySession, lock, job, doomed, victim, begun, torn, overrun>>

\* A wrong WriteSessionIndex: the pointer by session is left out.
WriteSessionIndexNot(w) ==
  /\ pc[w] = "listing"
  /\ Goto(w, "cleaning")
  /\ UNCHANGED <<now, file, byId, bySession, lock, job, doomed, victim, begun, torn, overrun>>

WriteSessionIndex(w) ==
  /\ pc[w] = "listing"
  /\ bySession' = [bySession EXCEPT ![job[w].trace] = "ok"]
  /\ Goto(w, "cleaning")
  /\ UNCHANGED <<now, file, byId, lock, job, doomed, victim, begun, torn, overrun>>

\* cleanup() called by itself.
Sweep(w) ==
  /\ pc[w] = "idle"
  /\ lock = Nobody
  /\ lock' = w
  /\ Goto(w, "cleaning")
  /\ UNCHANGED <<now, file, byId, bySession, job, doomed, victim, begun, torn, overrun>>

\* The scan sets garbage aside and goes on; its pointers stay.
Scan(w) ==
  /\ pc[w] = "cleaning"
  /\ \E keep \in SUBSET Entries :
       /\ Kept(keep, now)
       /\ doomed' = Entries \ keep
  /\ file' = [t \in Traces |-> IF file[t] = Garbage THEN Absent ELSE file[t]]
  /\ Goto(w, "deleting")
  /\ UNCHANGED <<now, byId, bySession, lock, job, victim, begun, torn, overrun>>

\* The most recent first.
DeleteFile(w, t) ==
  /\ pc[w] = "deleting"
  /\ t \in doomed
  /\ \A u \in doomed : file[u] <= file[t]
  /\ doomed' = doomed \ {t}
  /\ victim' = t
  /\ file' = [file EXCEPT ![t] = Absent]
  /\ Goto(w, "unindexing")
  /\ UNCHANGED <<now, byId, bySession, lock, job, begun, torn, overrun>>

DeleteIdIndex(w) ==
  /\ pc[w] = "unindexing"
  /\ byId' = [byId EXCEPT ![victim] = "none"]
  /\ Goto(w, "unlisting")
  /\ UNCHANGED <<now, file, bySession, lock, job, doomed, victim, begun, torn, overrun>>

DeleteSessionIndex(w) ==
  /\ pc[w] = "unlisting"
  /\ bySession' = [bySession EXCEPT ![victim] = "none"]
  /\ victim' = NoTrace
  /\ Goto(w, "deleting")
  /\ UNCHANGED <<now, file, byId, lock, job, doomed, begun, torn, overrun>>

\* The lock is given up and the call returns.
Return(w) ==
  /\ pc[w] = "deleting"
  /\ doomed = {}
  /\ overrun' = 0
  /\ GoIdle(w)
  /\ UNCHANGED <<now, file, byId, bySession, doomed, victim, begun, torn>>

\* A failing system call raises through the lock, or the process dies; what was
\* done stays done.
Abandon(w) ==
  /\ pc[w] # "idle"
  /\ torn' = torn \cup (IF lock = w THEN ({job[w].trace, victim} \ {NoTrace}) ELSE {})
  /\ overrun' = IF lock = w /\ job[w] # NoJob THEN overrun + 1 ELSE overrun
  /\ doomed' = IF lock = w THEN {} ELSE doomed
  /\ victim' = IF lock = w THEN NoTrace ELSE victim
  /\ GoIdle(w)
  /\ UNCHANGED <<now, file, byId, bySession, begun>>
-----------------------------------------------------------------------------
\* read(): the trace found by its pointer or, without one, by looking through
\* the days; nothing when there is no file.
Path(t) == IF byId[t] \in {"ok", "none"} /\ file[t] # Absent THEN {t} ELSE {}

\* What latest_for_session(s) opens: the most recent listed trace that still has
\* a file, and without one the most recent of all files of the session.
Newest(S) == {t \in S : \A u \in S : file[u] <= file[t]}

\* A wrong Latest: the oldest of the listed traces.
LatestReversed(s) ==
  LET all    == {t \in Traces : SessionOf[t] = s /\ file[t] # Absent}
      listed == {t \in all : bySession[t] = "ok"}
  IN  IF listed # {} THEN {t \in listed : \A u \in listed : file[u] >= file[t]}
      ELSE Newest(all)

Latest(s) ==
  LET all    == {t \in Traces : SessionOf[t] = s /\ file[t] # Absent}
      listed == {t \in all : bySession[t] = "ok"}
  IN  IF listed # {} THEN Newest(listed) ELSE Newest(all)

\* A read that meets garbage sets it aside and fails: the pointer first, then
\* the trace it leads to.
Read(t) ==
  /\ lock = Nobody
  /\ \/ /\ byId[t] = "bad"
        /\ byId' = [byId EXCEPT ![t] = "none"]
        /\ UNCHANGED file
     \/ /\ t \in Path(t)
        /\ file[t] = Garbage
        /\ file' = [file EXCEPT ![t] = Absent]
        /\ UNCHANGED byId
  /\ UNCHANGED <<now, bySession, lock, pc, job, doomed, victim, begun, torn, overrun>>

\* latest_for_session() reads every pointer of the session first, and every trace
\* of the store when no pointer leads to a file.
ReadLatest(s) ==
  /\ lock = Nobody
  /\ LET bad == {t \in Traces : SessionOf[t] = s /\ bySession[t] = "bad"}
         listed == {t \in Traces : /\ SessionOf[t] = s
                                   /\ bySession[t] = "ok"
                                   /\ file[t] # Absent}
     IN
     \/ \E t \in bad :
          /\ bySession' = [bySession EXCEPT ![t] = "none"]
          /\ UNCHANGED file
     \/ \E t \in Traces :
          /\ bad = {}
          /\ file[t] = Garbage
          /\ listed # {} => t \in listed
          /\ file' = [file EXCEPT ![t] = Absent]
          /\ UNCHANGED bySession
  /\ UNCHANGED <<now, byId, lock, pc, job, doomed, victim, begun, torn, overrun>>

\* Something outside the program overwrites one of the three files with garbage.
\* (One that is about to be deleted is deleted all the same.)
Damage(t) ==
  /\ t \in Damageable \ doomed
  /\ \/ /\ Readable(t)
        /\ file' = [file EXCEPT ![t] = Garbage]
        /\ UNCHANGED <<byId, bySession>>
     \/ /\ byId[t] = "ok"
        /\ byId' = [byId EXCEPT ![t] = "bad"]
        /\ UNCHANGED <<file, bySession>>
     \/ /\ bySession[t] = "ok"
        /\ bySession' = [bySession EXCEPT ![t] = "bad"]
        /\ UNCHANGED <<file, byId>>
  /\ torn' = torn \cup {t}
  /\ UNCHANGED <<now, lock, pc, job, doomed, victim, begun, overrun>>

Step(w) ==
  \/ WriteTrace(w) \/ WriteIdIndex(w) \/ WriteSessionIndex(w)
  \/ Scan(w) \/ DeleteIdIndex(w) \/ DeleteSessionIndex(w) \/ Return(w)
  \/ \E t \in Traces : DeleteFile(w, t)

Next ==
  \/ Tick
  \/ \E w \in Writers : Step(w) \/ Sweep(w) \/ Abandon(w)
  \/ \E w \in Writers, t \in Traces : Stamp(w, t)
  \/ \E t \in Traces : Read(t) \/ Damage(t)
  \/ \E s \in Sessions : ReadLatest(s)

Spec == Init /\ [][Next]_vars
-----------------------------------------------------------------------------
\* Every variable has its type.
TypeOK ==
  /\ now \in Nat
  /\ file \in [Traces -> Nat \cup {Absent, Garbage}]
  /\ byId \in [Traces -> Pointer]
  /\ bySession \in [Traces -> Pointer]
  /\ lock \in Writers \cup {Nobody}
  /\ pc \in [Writers -> {"idle", "waiting", "indexing", "listing", "cleaning",
                         "deleting", "unindexing", "unlisting"}]
  /\ job \in [Writers -> [trace : Traces \cup {NoTrace}, at : Nat]]
  /\ doomed \subseteq Traces
  /\ victim \in Traces \cup {NoTrace}
  /\ begun \subseteq Traces
  /\ torn \subseteq Traces
  /\ overrun \in Nat

-----------------------------------------------------------------------------
(***************************************************************************)
(* The inductive invariant behind IndexesAgree and LatestIsCurrent: how    *)
(* far the three files of each whole trace are at each point of the code.  *)
(***************************************************************************)
Inside == {"indexing", "listing", "cleaning", "deleting", "unindexing", "unlisting"}

Is(t, f, i, s) == (Readable(t) <=> f) /\ byId[t] = i /\ bySession[t] = s

Whole(t) == Is(t, TRUE, "ok", "ok")
Gone(t)  == file[t] = Absent /\ Is(t, FALSE, "none", "none")

LockIsHeld == \A w \in Writers : lock = w <=> pc[w] \in Inside

\* A trace has one writer, and nothing of it exists before it has the lock.
OwnTrace(w) ==
  LET t == job[w].trace IN
  /\ pc[w] \in {"waiting", "indexing", "listing"} => t # NoTrace
  /\ pc[w] = "waiting" => Gone(t)
  /\ t # NoTrace => t \in begun /\ \A v \in Writers \ {w} : job[v].trace # t

WritersApart ==
  /\ \A t \in Traces \ begun : Gone(t)
  /\ \A w \in Writers : OwnTrace(w)

\* What is to be deleted is there; the victim is what is being deleted.
DeletionsKnown ==
  /\ \A t \in doomed : Readable(t)
  /\ doomed # {} => lock # Nobody /\ pc[lock] \in {"deleting", "unindexing", "unlisting"}
  /\ victim # NoTrace => lock # Nobody /\ pc[lock] \in {"unindexing", "unlisting"}
  /\ \A w \in Writers : pc[w] \in {"unindexing", "unlisting"} => victim \in Traces

\* The steps that a trace that is not torn goes through.
FilesFollow ==
  \A t \in Traces \ torn :
    /\ \A w \in Writers :
         /\ pc[w] = "indexing" /\ job[w].trace = t => Is(t, TRUE, "none", "none")
         /\ pc[w] = "listing" /\ job[w].trace = t => Is(t, TRUE, "ok", "none")
         /\ pc[w] = "unindexing" /\ victim = t => file[t] = Absent /\ Is(t, FALSE, "ok", "ok")
         /\ pc[w] = "unlisting" /\ victim = t => file[t] = Absent /\ Is(t, FALSE, "none", "ok")
    /\ \/ Whole(t)
       \/ Gone(t)
       \/ victim = t
       \/ \E w \in Writers : pc[w] \in {"indexing", "listing"} /\ job[w].trace = t

\* The write under way counts from its first file to the end of its cleanup; what
\* the cleanup has not condemned is within the limit.
Held == IF lock # Nobody /\ job[lock] # NoJob THEN 1 ELSE 0

SizeCounted ==
  /\ Cardinality(Entries) <= RetentionCount + overrun + Held
  /\ \A w \in Writers : pc[w] \in {"deleting", "unindexing", "unlisting"} =>
       Cardinality(Entries \ doomed) <= RetentionCount

IInv == TypeOK /\ LockIsHeld /\ WritersApart /\ DeletionsKnown /\ FilesFollow /\ SizeCounted
-----------------------------------------------------------------------------
\* Whenever the lock is free, a trace has all three of its files or none, unless
\* it was cut short or spoilt: two writers, or a writer and a cleanup that
\* retires what it finds, never leave a trace half indexed (traces.py:97-107,
\* 199-207).
IndexesAgree ==
  lock = Nobody =>
    \A t \in Traces \ torn :
      /\ Readable(t) <=> byId[t] = "ok"
      /\ Readable(t) <=> bySession[t] = "ok"

\* What latest_for_session opens is at least as recent as every whole trace of
\* the session, although pointers of retired and torn traces stay behind and
\* traces are not written in the order of their times (traces.py:145-180).
LatestIsCurrent ==
  lock = Nobody =>
    \A t \in Entries \ torn :
      LET s == SessionOf[t] IN
      (\A u \in Traces : SessionOf[u] = s => file[u] # Garbage /\ bySession[u] # "bad") =>
        \A r \in Latest(s) : file[r] >= file[t]

\* Whenever the lock is free, the store holds at most RetentionCount traces, plus
\* one for each write cut short since the last complete cleanup.
SizeBound == lock = Nobody => Cardinality(Entries) <= RetentionCount + overrun

\* A readable trace goes away only when its time is over or RetentionCount others
\* are as recent, even when the cleanup that judged it is cut short, or the trace
\* was stamped long before its writer got the lock (traces.py:78, 224-235).
RetentionIsJust ==
  [][\A t \in Traces :
       Readable(t) /\ file'[t] = Absent =>
         \/ file[t] < now - Ttl
         \/ Cardinality({u \in Traces \ {t} : file[u] >= file[t] \/ file[u] = Garbage})
              >= RetentionCount]_vars
=============================================================================
