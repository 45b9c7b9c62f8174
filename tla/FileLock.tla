------------------------------- MODULE FileLock -------------------------------
(***************************************************************************)
(* file_lock and try_file_lock of app/core/storage.py, for one path.       *)
(*                                                                         *)
(* A lock has two levels.  An RLock per process and path keeps the threads *)
(* of one process apart; an flock on the lock file keeps processes apart   *)
(* and is given up by the kernel when its process dies.  No caller takes a *)
(* path it already holds, so the RLock is never re-entered.                *)
(***************************************************************************)
EXTENDS Naturals

CONSTANTS Threads, Processes, Nobody,
          Process,          \* [Threads -> Processes]
          MaxFailures       \* bound on the processes that die and the opens that fail

ASSUME LockAssumption ==
  /\ Nobody \notin Threads
  /\ Process \in [Threads -> Processes]
  /\ MaxFailures \in Nat

VARIABLES
  rlock,            \* the thread that owns the RLock of each process
  flock,            \* the thread whose descriptor holds the flock
  pc,               \* where each thread is
  failures          \* how many processes died and opens failed

vars == <<rlock, flock, pc, failures>>

Init ==
  /\ rlock = [p \in Processes |-> Nobody]
  /\ flock = Nobody
  /\ pc = [t \in Threads |-> "idle"]
  /\ failures = 0

Goto(t, label) == pc' = [pc EXCEPT ![t] = label]

\* file_lock: wait for the RLock, then for the flock.
Call(t) ==
  /\ pc[t] = "idle"
  /\ Goto(t, "waiting")
  /\ UNCHANGED <<rlock, flock, failures>>

\* A wrong AcquireThread: the lock belongs to the process, not to the thread.
AcquireForProcess(t) ==
  /\ pc[t] = "waiting"
  /\ rlock[Process[t]] \in {Nobody, Process[t]}
  /\ rlock' = [rlock EXCEPT ![Process[t]] = Process[t]]
  /\ Goto(t, "opening")
  /\ UNCHANGED <<flock, failures>>

AcquireThread(t) ==
  /\ pc[t] = "waiting"
  /\ rlock[Process[t]] = Nobody
  /\ rlock' = [rlock EXCEPT ![Process[t]] = t]
  /\ Goto(t, "opening")
  /\ UNCHANGED <<flock, failures>>

AcquireFile(t) ==
  /\ pc[t] = "opening"
  /\ flock = Nobody
  /\ flock' = t
  /\ Goto(t, "locked")
  /\ UNCHANGED <<rlock, failures>>

\* try_file_lock: refused at once when another thread has the RLock ...
TryThread(t) ==
  LET p == Process[t] IN
  /\ pc[t] = "idle"
  /\ IF rlock[p] = Nobody
     THEN rlock' = [rlock EXCEPT ![p] = t] /\ Goto(t, "trying")
     ELSE Goto(t, "declined") /\ UNCHANGED rlock
  /\ UNCHANGED <<flock, failures>>

\* A wrong TryFile: the refusal of the flock goes unnoticed.
TryFileUnchecked(t) ==
  /\ pc[t] = "trying"
  /\ flock' = t
  /\ Goto(t, "locked")
  /\ UNCHANGED <<rlock, failures>>

\* ... or another process the flock; then the RLock is kept until the body ends.
TryFile(t) ==
  /\ pc[t] = "trying"
  /\ IF flock = Nobody
     THEN flock' = t /\ Goto(t, "locked")
     ELSE Goto(t, "refused") /\ UNCHANGED flock
  /\ UNCHANGED <<rlock, failures>>

\* os.open or flock raises: the RLock is all there is to release.
OpenFails(t) ==
  /\ pc[t] \in {"opening", "trying"}
  /\ failures < MaxFailures
  /\ failures' = failures + 1
  /\ Goto(t, "unlocking")
  /\ UNCHANGED <<rlock, flock>>

\* The body of the with statement ends: LOCK_UN and close, then the RLock.
Unlock(t) ==
  /\ pc[t] = "locked"
  /\ flock' = Nobody
  /\ Goto(t, "unlocking")
  /\ UNCHANGED <<rlock, failures>>

\* A wrong ReleaseThread: a refused caller returns without releasing the RLock.
ReleaseThreadLeaky(t) ==
  /\ pc[t] \in {"unlocking", "refused"}
  /\ rlock' = IF pc[t] = "unlocking" THEN [rlock EXCEPT ![Process[t]] = Nobody] ELSE rlock
  /\ Goto(t, "idle")
  /\ UNCHANGED <<flock, failures>>

ReleaseThread(t) ==
  /\ pc[t] \in {"unlocking", "refused"}
  /\ rlock' = [rlock EXCEPT ![Process[t]] = Nobody]
  /\ Goto(t, "idle")
  /\ UNCHANGED <<flock, failures>>

Decline(t) ==
  /\ pc[t] = "declined"
  /\ Goto(t, "idle")
  /\ UNCHANGED <<rlock, flock, failures>>

\* A process dies and another is started in its place: its RLocks are memory,
\* its flocks are closed by the kernel.
Crash(p) ==
  /\ failures < MaxFailures
  /\ failures' = failures + 1
  /\ rlock' = [rlock EXCEPT ![p] = Nobody]
  /\ flock' = IF flock # Nobody /\ Process[flock] = p THEN Nobody ELSE flock
  /\ pc' = [t \in Threads |-> IF Process[t] = p THEN "idle" ELSE pc[t]]

\* What a thread does by itself once it has begun, errors apart.
Step(t) ==
  \/ AcquireThread(t) \/ AcquireFile(t) \/ TryFile(t)
  \/ Unlock(t) \/ ReleaseThread(t) \/ Decline(t)

Next ==
  \/ \E t \in Threads : Call(t) \/ TryThread(t) \/ Step(t) \/ OpenFails(t)
  \/ \E p \in Processes : Crash(p)

Spec == Init /\ [][Next]_vars

\* Threads run and bodies end.  Nothing is assumed about who wins a lock.
FairSpec == Spec /\ \A t \in Threads : WF_vars(Step(t))
-----------------------------------------------------------------------------
\* Every variable has its type.
TypeOK ==
  /\ rlock \in [Processes -> Threads \cup {Nobody}]
  /\ flock \in Threads \cup {Nobody}
  /\ pc \in [Threads -> {"idle", "waiting", "opening", "trying", "locked", "refused",
                         "declined", "unlocking"}]
  /\ failures \in Nat

\* The threads past the RLock.
Inside(t) == pc[t] \in {"opening", "trying", "locked", "refused", "unlocking"}

\* At most one thread of all processes is in the body of a granted lock
\* (storage.py:196-278): the session store relies on it for every write.
MutualExclusion ==
  \A t, u \in Threads : pc[t] = "locked" /\ pc[u] = "locked" => t = u

\* A try is refused only while another thread is in the lock's code: after
\* refusals, failures to open and crashes no lock is left behind that would make
\* retention skip its session for ever (storage.py:240-278).
RefusalHasAReason ==
  [][\A t \in Threads :
       pc[t] \in {"idle", "trying"} /\ pc'[t] \in {"declined", "refused"} =>
         \E u \in Threads \ {t} : Inside(u)]_vars

\* No deadlock between the levels: while somebody waits at either, somebody gets
\* the lock, although a thread that waits for the flock keeps the RLock of its
\* process meanwhile (storage.py:202-220).  Nobody in particular is promised it.
SomebodyProceeds ==
  (\E t \in Threads : pc[t] \in {"waiting", "opening"})
    ~> (\A t \in Threads : pc[t] \notin {"waiting", "opening"}) \/ flock # Nobody

\* The inductive invariant: each level is owned by who is in the code it guards.
LevelsAreOwned ==
  /\ \A t \in Threads : flock = t <=> pc[t] = "locked"
  /\ \A t \in Threads, p \in Processes : rlock[p] = t <=> Inside(t) /\ Process[t] = p

IInv == TypeOK /\ LevelsAreOwned
=============================================================================
