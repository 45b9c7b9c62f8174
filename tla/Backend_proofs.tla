--------------------------- MODULE Backend_proofs ---------------------------
(***************************************************************************)
(* Proofs about Backend, for every set of threads and number of permits.   *)
(***************************************************************************)
EXTENDS Backend, FiniteSetTheorems, TLAPS

Sending == {t \in Threads : pc[t] = "sending"}

\* Who does what, and what it holds: TypeOK without the counts, and that a
\* thread infers with a model that was found.
Places ==
  /\ pc \in [Threads -> {"idle", "locking", "resolved", "admitted", "sending", "releasing",
                         "refused", "draining", "drained", "joining", "joined", "shutting",
                         "announcing"}]
  /\ call \in [Threads -> {"none", "list", "complete", "refresh"}]
  /\ closing \in BOOLEAN /\ closed \in BOOLEAN /\ open \in BOOLEAN /\ resolved \in BOOLEAN
  /\ infers \subseteq {t \in Threads : InRequest(t) /\ call[t] = "complete"}
  /\ infers # {} => resolved
  /\ \A t \in Threads :
       modelLock = t <=> InRequest(t) /\ call[t] \in {"complete", "refresh"} /\ t \notin infers
  /\ \A t \in Threads :
       /\ pc[t] = "resolved" => call[t] = "complete" /\ resolved
       /\ pc[t] = "locking" => call[t] \in {"complete", "refresh"}

\* The counts are right; the counted sets stay finite, one request at a time.
Counts ==
  /\ IsFiniteSet(infers) /\ IsFiniteSet(Sending)
  /\ permits \in Nat
  /\ permits + Cardinality(infers) = Parallel
  /\ active = Cardinality(Sending)

\* The caller that closes, from the moment it was the first.
Closes(t) == pc[t] \in {"draining", "drained", "shutting", "announcing"}

\* One caller closes, while no request may begin; it shuts the client only when
\* none is left, and none begins afterwards.
ClosingIsOrderly ==
  /\ \A t, u \in Threads : Closes(t) /\ Closes(u) => t = u
  /\ \A t \in Threads : Closes(t) => closing
  /\ closed => ~closing /\ Sending = {}
  /\ \A t \in Threads : pc[t] \in {"shutting", "announcing"} => Sending = {}
  /\ ~open => closed \/ \E t \in Threads : pc[t] = "announcing"

IInv == Places /\ Counts /\ ClosingIsOrderly

\* Every step keeps the places.
LEMMA PlacesStep == Places /\ [Next]_vars => Places'
<1> SUFFICES ASSUME Places, [Next]_vars PROVE Places'
  OBVIOUS
<1> USE BackendAssumption DEF Places, InRequest, Goto, End, model
<1>1. ASSUME NEW t \in Threads, ListTags(t) PROVE Places'
  BY <1>1 DEF ListTags
<1>2. ASSUME NEW t \in Threads, Resolve(t) PROVE Places'
  BY <1>2 DEF Resolve
<1>3. ASSUME NEW t \in Threads, LockModel(t) PROVE Places'
  BY <1>3 DEF LockModel
<1>4. ASSUME NEW t \in Threads, Infer(t) PROVE Places'
  BY <1>4 DEF Infer
<1>5. ASSUME NEW t \in Threads, Enter(t) PROVE Places'
  BY <1>5 DEF Enter
<1>6. ASSUME NEW t \in Threads, Leave(t) PROVE Places'
  BY <1>6 DEF Leave, NotifyAll
<1>7. ASSUME NEW t \in Threads, Release(t) PROVE Places'
  <2>1. infers' = infers \ {t} /\ closing' = closing /\ closed' = closed /\ open' = open
    BY <1>7 DEF Release
  <2>2. CASE Found(t) /\ call[t] = "complete"
    <3>1. t \notin infers /\ resolved' = TRUE /\ call' = call
          /\ pc' = [pc EXCEPT ![t] = "resolved"]
      BY <1>7, <2>2 DEF Found, Release
    <3>2. \A u \in Threads : u # t => (modelLock' = u <=> modelLock = u)
      BY <1>7, <2>2 DEF Found, Release
    <3>3. modelLock' # t
      BY <1>7, <2>2 DEF Found, Release
    <3>4. infers' \subseteq {u \in Threads : InRequest(u)' /\ call'[u] = "complete"}
      BY <2>1, <3>1
    <3>5. \A u \in Threads :
            modelLock' = u <=>
              InRequest(u)' /\ call'[u] \in {"complete", "refresh"} /\ u \notin infers'
      BY <2>1, <3>1, <3>2, <3>3
    <3>6. \A u \in Threads :
            /\ pc'[u] = "resolved" => call'[u] = "complete" /\ resolved'
            /\ pc'[u] = "locking" => call'[u] \in {"complete", "refresh"}
      BY <2>2, <3>1
    <3> QED
      BY <2>1, <3>1, <3>4, <3>5, <3>6
  <2>3. CASE End(t) /\ (resolved' = TRUE \/ resolved' = resolved)
    <3>1. pc' = [pc EXCEPT ![t] = "idle"] /\ call' = [call EXCEPT ![t] = "none"]
      BY <2>3
    <3>4. resolved' \in BOOLEAN /\ (resolved => resolved')
      BY <2>3, Zenon
    <3>2. \A u \in Threads : u # t => (modelLock' = u <=> modelLock = u)
      BY <1>7 DEF Release
    <3>3. modelLock' # t
      BY <1>7 DEF Release
    <3> QED
      BY <2>1, <3>1, <3>2, <3>3, <3>4
  <2> QED
    BY <1>7, <2>2, <2>3 DEF Release, Found
<1>8. ASSUME NEW t \in Threads, Close(t) PROVE Places'
  BY <1>8 DEF Close
<1>9. ASSUME NEW t \in Threads, Wake(t) PROVE Places'
  BY <1>9 DEF Wake
<1>10. ASSUME NEW t \in Threads, Shut(t) PROVE Places'
  BY <1>10 DEF Shut
<1>11. ASSUME NEW t \in Threads, Announce(t) PROVE Places'
  BY <1>11 DEF Announce, NotifyAll
<1>12. CASE UNCHANGED vars
  BY <1>12 DEF vars
<1> QED
  BY <1>1, <1>2, <1>3, <1>4, <1>5, <1>6, <1>7, <1>8, <1>9, <1>10, <1>11, <1>12 DEF Next, Step

\* Every step keeps the counts right: it moves at most one request.
LEMMA CountsStep == Places /\ Counts /\ [Next]_vars => Counts'
<1> SUFFICES ASSUME Places, Counts, [Next]_vars PROVE Counts'
  OBVIOUS
<1>0. /\ Cardinality(infers) \in Nat /\ Cardinality(Sending) \in Nat
      /\ Parallel \in Nat
  BY FS_CardinalityType, BackendAssumption DEF Counts
<1> USE DEF Goto, End, model
<1>1. ASSUME infers' = infers, permits' = permits, active' = active, Sending' = Sending
      PROVE  Counts'
  BY <1>1 DEF Counts
<1>2. ASSUME NEW t \in Threads, ListTags(t) \/ Resolve(t) \/ LockModel(t) PROVE Counts'
  <2>1. Sending' = Sending
    BY <1>2 DEF ListTags, Resolve, LockModel, Places, Sending
  <2> QED
    BY <1>1, <1>2, <2>1 DEF ListTags, Resolve, LockModel
<1>3. ASSUME NEW t \in Threads, Infer(t) PROVE Counts'
  <2>1. Sending' = Sending /\ active' = active
    BY <1>3 DEF Infer, Places, Sending
  <2>2. CASE infers' = infers /\ permits' = permits
    BY <1>1, <2>1, <2>2
  <2>3. CASE permits > 0 /\ permits' = permits - 1 /\ infers' = infers \cup {t}
    <3>1. t \notin infers
      BY <1>3 DEF Infer, Places, InRequest
    <3>2. IsFiniteSet(infers') /\ Cardinality(infers') = Cardinality(infers) + 1
      BY <2>3, <3>1, FS_AddElement DEF Counts
    <3> QED
      BY <1>0, <2>1, <2>3, <3>2 DEF Counts
  <2> QED
    BY <1>3, <2>2, <2>3 DEF Infer
<1>4. ASSUME NEW t \in Threads, Enter(t) PROVE Counts'
  <2>1. infers' = infers /\ permits' = permits
    BY <1>4 DEF Enter
  <2>2. CASE closed \/ closing
    <3>1. Sending' = Sending /\ active' = active
      BY <1>4, <2>2 DEF Enter, Places, Sending
    <3> QED
      BY <1>1, <2>1, <3>1
  <2>3. CASE ~(closed \/ closing)
    <3>1. t \notin Sending /\ Sending' = Sending \cup {t} /\ active' = active + 1
      BY <1>4, <2>3 DEF Enter, Places, Sending
    <3>2. IsFiniteSet(Sending') /\ Cardinality(Sending') = Cardinality(Sending) + 1
      BY <3>1, FS_AddElement DEF Counts
    <3> QED
      BY <2>1, <3>1, <3>2 DEF Counts
  <2> QED
    BY <2>2, <2>3
<1>5. ASSUME NEW t \in Threads, Leave(t) PROVE Counts'
  <2>1. infers' = infers /\ permits' = permits /\ active' = active - 1
    BY <1>5 DEF Leave
  <2>2. t \in Sending /\ Sending' = Sending \ {t}
    BY <1>5 DEF Leave, NotifyAll, Places, Sending
  <2>3. IsFiniteSet(Sending') /\ Cardinality(Sending') = Cardinality(Sending) - 1
    BY <2>2, FS_RemoveElement DEF Counts
  <2> QED
    BY <2>1, <2>3 DEF Counts
<1>6. ASSUME NEW t \in Threads, Release(t) PROVE Counts'
  <2>1. Sending' = Sending /\ active' = active
    BY <1>6 DEF Release, Found, Places, Sending
  <2>2. CASE t \in infers
    <3>1. IsFiniteSet(infers') /\ Cardinality(infers') = Cardinality(infers) - 1
      BY <1>6, <2>2, FS_RemoveElement DEF Release, Counts
    <3>2. permits' = permits + 1
      BY <1>6, <2>2 DEF Release
    <3> QED
      BY <1>0, <2>1, <3>1, <3>2 DEF Counts
  <2>3. CASE t \notin infers
    BY <1>1, <1>6, <2>1, <2>3 DEF Release
  <2> QED
    BY <2>2, <2>3
<1>7. ASSUME NEW t \in Threads, Close(t) \/ Wake(t) \/ Shut(t) \/ Announce(t) PROVE Counts'
  <2>1. Sending' = Sending
    BY <1>7 DEF Close, Wake, Shut, Announce, NotifyAll, Places, Sending
  <2> QED
    BY <1>1, <1>7, <2>1 DEF Close, Wake, Shut, Announce
<1>8. CASE UNCHANGED vars
  BY <1>1, <1>8 DEF vars, Sending
<1> QED
  BY <1>2, <1>3, <1>4, <1>5, <1>6, <1>7, <1>8 DEF Next, Step

\* Every step keeps the closing orderly.
LEMMA ClosingStep == Places /\ Counts /\ ClosingIsOrderly /\ [Next]_vars => ClosingIsOrderly'
<1> SUFFICES ASSUME Places, Counts, ClosingIsOrderly, [Next]_vars PROVE ClosingIsOrderly'
  OBVIOUS
<1> USE DEF Goto, End, model, ClosingIsOrderly, Closes
<1>0. active = 0 <=> Sending = {}
  BY FS_EmptySet DEF Counts
<1>1. ASSUME NEW t \in Threads, ListTags(t) \/ Resolve(t) \/ LockModel(t) \/ Infer(t)
      PROVE  ClosingIsOrderly'
  BY <1>1 DEF ListTags, Resolve, LockModel, Infer, Places, Sending
<1>2. ASSUME NEW t \in Threads, Enter(t) PROVE ClosingIsOrderly'
  BY <1>2 DEF Enter, Places, Sending
<1>3. ASSUME NEW t \in Threads, Leave(t) PROVE ClosingIsOrderly'
  BY <1>3 DEF Leave, NotifyAll, Places, Sending
<1>4. ASSUME NEW t \in Threads, Release(t) PROVE ClosingIsOrderly'
  BY <1>4 DEF Release, Found, Places, Sending
<1>5. ASSUME NEW t \in Threads, Close(t) PROVE ClosingIsOrderly'
  BY <1>0, <1>5 DEF Close, Places, Sending
<1>6. ASSUME NEW t \in Threads, Wake(t) PROVE ClosingIsOrderly'
  BY <1>0, <1>6 DEF Wake, Places, Sending
<1>7. ASSUME NEW t \in Threads, Shut(t) PROVE ClosingIsOrderly'
  BY <1>7 DEF Shut, Places, Sending
<1>8. ASSUME NEW t \in Threads, Announce(t) PROVE ClosingIsOrderly'
  BY <1>8 DEF Announce, NotifyAll, Places, Sending
<1>9. CASE UNCHANGED vars
  BY <1>9 DEF vars, Sending
<1> QED
  BY <1>1, <1>2, <1>3, <1>4, <1>5, <1>6, <1>7, <1>8, <1>9 DEF Next, Step

LEMMA Invariance == Spec => []IInv
<1>1. Init => IInv
  <2> SUFFICES ASSUME Init PROVE IInv
    OBVIOUS
  <2>1. infers = {} /\ Sending = {}
    BY DEF Init, Sending
  <2>2. Places
    BY <2>1, BackendAssumption DEF Init, Places, InRequest
  <2>3. Counts
    BY <2>1, FS_EmptySet, BackendAssumption DEF Init, Counts
  <2>4. ClosingIsOrderly
    BY DEF Init, ClosingIsOrderly, Closes
  <2> QED
    BY <2>2, <2>3, <2>4 DEF IInv
<1>2. IInv /\ [Next]_vars => IInv'
  BY PlacesStep, CountsStep, ClosingStep DEF IInv
<1> QED
  BY <1>1, <1>2, PTL DEF Spec

(***************************************************************************)
(* The theorems.                                                           *)
(***************************************************************************)

\* The permits, the model's lock and the count of requests are always with the
\* threads that took them.
THEOREM TypeCorrect == Spec => []TypeOK
<1>1. IInv => TypeOK
  BY DEF IInv, Places, Counts, Sending, TypeOK
<1> QED
  BY Invariance, <1>1, PTL

\* The HTTP client is never closed under a request, nor by two callers.
THEOREM ClientAlwaysOutlivesRequests == Spec => []ClientOutlivesRequests
<1>1. IInv => ClientOutlivesRequests
  BY DEF IInv, Places, ClosingIsOrderly, Closes, Sending, ClientOutlivesRequests
<1> QED
  BY Invariance, <1>1, PTL

=============================================================================
