--------------------------- MODULE FileLock_proofs ---------------------------
(***************************************************************************)
(* Mutual exclusion of the two-level lock for any number of threads and    *)
(* processes.                                                              *)
(***************************************************************************)
EXTENDS FileLock, TLAPS

\* Each level is owned by the thread in the code it guards.
LEMMA Owned == Spec => []IInv
<1> USE LockAssumption
<1>1. Init => IInv
  BY DEF Init, IInv, TypeOK, LevelsAreOwned, Inside
<1>2. IInv /\ [Next]_vars => IInv'
  <2> SUFFICES ASSUME IInv, [Next]_vars PROVE IInv'
    OBVIOUS
  <2> USE DEF IInv, TypeOK, LevelsAreOwned, Inside, Goto
  <2>1. ASSUME NEW t \in Threads, Call(t) PROVE IInv'
    BY <2>1 DEF Call
  <2>2. ASSUME NEW t \in Threads, AcquireThread(t) PROVE IInv'
    BY <2>2 DEF AcquireThread
  <2>3. ASSUME NEW t \in Threads, AcquireFile(t) PROVE IInv'
    BY <2>3 DEF AcquireFile
  <2>4. ASSUME NEW t \in Threads, TryThread(t) PROVE IInv'
    BY <2>4 DEF TryThread
  <2>5. ASSUME NEW t \in Threads, TryFile(t) PROVE IInv'
    BY <2>5 DEF TryFile
  <2>6. ASSUME NEW t \in Threads, OpenFails(t) PROVE IInv'
    BY <2>6 DEF OpenFails
  <2>7. ASSUME NEW t \in Threads, Unlock(t) PROVE IInv'
    BY <2>7 DEF Unlock
  <2>8. ASSUME NEW t \in Threads, ReleaseThread(t) PROVE IInv'
    BY <2>8 DEF ReleaseThread
  <2>9. ASSUME NEW t \in Threads, Decline(t) PROVE IInv'
    BY <2>9 DEF Decline
  <2>10. ASSUME NEW p \in Processes, Crash(p) PROVE IInv'
    BY <2>10 DEF Crash
  <2>11. CASE UNCHANGED vars
    BY <2>11 DEF vars
  <2> QED
    BY <2>1, <2>2, <2>3, <2>4, <2>5, <2>6, <2>7, <2>8, <2>9, <2>10, <2>11
       DEF Next, Step
<1> QED
  BY <1>1, <1>2, PTL DEF Spec

\* The lock keeps the types of its two levels and of its threads.
THEOREM TypeCorrect == Spec => []TypeOK
<1>1. IInv => TypeOK
  BY DEF IInv
<1> QED
  BY <1>1, Owned, PTL

\* At most one thread of all processes is in the body of a granted lock.
THEOREM LockExcludes == Spec => []MutualExclusion
<1>1. IInv => MutualExclusion
  BY DEF IInv, LevelsAreOwned, MutualExclusion
<1> QED
  BY <1>1, Owned, PTL

\* A try is refused only while another thread is in the lock's code.
THEOREM RefusalsHaveReasons == Spec => RefusalHasAReason
<1> DEFINE Reason(t) ==
      pc[t] \in {"idle", "trying"} /\ pc'[t] \in {"declined", "refused"} =>
        \E u \in Threads \ {t} : Inside(u)
<1>1. IInv /\ [Next]_vars => [\A t \in Threads : Reason(t)]_vars
  <2> SUFFICES ASSUME IInv, [Next]_vars, NEW t \in Threads,
                      pc[t] \in {"idle", "trying"}, pc'[t] \in {"declined", "refused"}
               PROVE  \E u \in Threads \ {t} : Inside(u)
    OBVIOUS
  <2>1. TryThread(t) \/ TryFile(t)
    BY DEF IInv, TypeOK, Next, Step, vars, Call, AcquireThread, AcquireFile, TryThread,
           TryFile, OpenFails, Unlock, ReleaseThread, Decline, Crash, Goto
  <2>2. CASE TryThread(t)
    <3>1. rlock[Process[t]] # Nobody /\ pc[t] = "idle"
      BY <2>2 DEF TryThread, Goto, IInv, TypeOK
    <3>2. rlock[Process[t]] \in Threads
      BY <3>1, LockAssumption DEF IInv, TypeOK
    <3>3. PICK u \in Threads : u = rlock[Process[t]]
      BY <3>2
    <3>4. Inside(u)
      BY <3>3, LockAssumption DEF IInv, LevelsAreOwned
    <3> QED
      BY <3>1, <3>4 DEF Inside
  <2>3. CASE TryFile(t)
    <3>1. flock # Nobody /\ pc[t] = "trying"
      BY <2>3 DEF TryFile, Goto, IInv, TypeOK
    <3> QED
      BY <3>1 DEF IInv, TypeOK, LevelsAreOwned, Inside
  <2> QED
    BY <2>1, <2>2, <2>3
<1> QED
  BY <1>1, Owned, PTL DEF Spec, RefusalHasAReason
=============================================================================
