------------------------------ MODULE Backend ------------------------------
(***************************************************************************)
(* OllamaBackend (app/generation/ollama.py): complete() resolves the       *)
(* profile's model once, under a lock that is kept while the server is     *)
(* asked for its tags, and then infers; inference requests share a bounded *)
(* semaphore that is never waited for, every request is counted while the  *)
(* HTTP client works for it, and close() waits on a condition until the    *)
(* count is zero.                                                          *)
(*                                                                         *)
(* A block under the condition's lock is one step; a wait is left only by  *)
(* a notification.  An HTTP exchange ends in some way within its timeout.  *)
(***************************************************************************)
EXTENDS Naturals, FiniteSets

CONSTANTS Threads,
          Nobody,           \* the holder of a free lock
          Parallel          \* profile.parallel, at least 1

ASSUME BackendAssumption == Parallel \in Nat \ {0} /\ Nobody \notin Threads

VARIABLES
  permits,          \* what is left of the semaphore
  active,           \* _active_requests
  closing, closed,  \* _closing, _closed
  open,             \* the HTTP client accepts requests
  pc,
  call,             \* what each thread was called for
  infers,           \* the threads whose request holds a permit
  modelLock,        \* the holder of _model_lock
  resolved          \* _resolved_models has the profile's model

model == <<modelLock, resolved>>
vars  == <<permits, active, closing, closed, open, pc, call, infers, modelLock, resolved>>

Init ==
  /\ permits = Parallel
  /\ active = 0
  /\ closing = FALSE
  /\ closed = FALSE
  /\ open = TRUE
  /\ pc = [t \in Threads |-> "idle"]
  /\ call = [t \in Threads |-> "none"]
  /\ infers = {}
  /\ modelLock = Nobody
  /\ resolved = FALSE

Goto(t, label) == pc' = [pc EXCEPT ![t] = label]

\* notify_all: whoever waits on the condition looks again, and t goes on.
NotifyAll(t, label) ==
  pc' = [u \in Threads |->
           IF u = t THEN label
           ELSE IF pc[u] = "draining" THEN "drained"
           ELSE IF pc[u] = "joining" THEN "joined" ELSE pc[u]]

End(t) == Goto(t, "idle") /\ call' = [call EXCEPT ![t] = "none"]

\* ping(), list_tags() and list_tag_details() ask for the tags with a GET, which
\* needs neither lock nor permit.
ListTags(t) ==
  /\ pc[t] = "idle"
  /\ call' = [call EXCEPT ![t] = "list"]
  /\ Goto(t, "admitted")
  /\ UNCHANGED <<permits, active, closing, closed, open, infers, model>>

\* complete() and refresh_model() begin with resolve_model().
Resolve(t) ==
  /\ pc[t] = "idle"
  /\ \E c \in {"complete", "refresh"} : call' = [call EXCEPT ![t] = c]
  /\ Goto(t, "locking")
  /\ UNCHANGED <<permits, active, closing, closed, open, infers, model>>

\* The lock, and under it the cached model or the GET that looks for it; the
\* budget may be spent before the GET.
LockModel(t) ==
  /\ pc[t] = "locking"
  /\ modelLock = Nobody
  /\ \/ /\ call[t] = "complete" /\ resolved
        /\ Goto(t, "resolved")
        /\ UNCHANGED <<call, modelLock>>
     \/ /\ call[t] = "refresh" \/ ~resolved
        /\ \/ Goto(t, "admitted") /\ modelLock' = t /\ UNCHANGED call
           \/ End(t) /\ UNCHANGED modelLock
  /\ UNCHANGED <<permits, active, closing, closed, open, infers, resolved>>

\* A POST infers.  Without a permit it is refused as busy, and so it is when the
\* budget is spent; nothing changes then.
Infer(t) ==
  /\ pc[t] = "resolved"
  /\ \/ /\ permits > 0
        /\ permits' = permits - 1
        /\ infers' = infers \cup {t}
        /\ Goto(t, "admitted")
        /\ UNCHANGED call
     \/ End(t) /\ UNCHANGED <<permits, infers>>
  /\ UNCHANGED <<active, closing, closed, open, model>>

\* A wrong Enter: only a backend that is closed turns requests away.
EnterWhileClosing(t) ==
  /\ pc[t] = "admitted"
  /\ IF closed
     THEN Goto(t, "refused") /\ UNCHANGED active
     ELSE Goto(t, "sending") /\ active' = active + 1
  /\ UNCHANGED <<permits, closing, closed, open, infers, call, model>>

\* The request is counted, unless the backend is closing.
Enter(t) ==
  /\ pc[t] = "admitted"
  /\ IF closed \/ closing
     THEN Goto(t, "refused") /\ UNCHANGED active
     ELSE Goto(t, "sending") /\ active' = active + 1
  /\ UNCHANGED <<permits, closing, closed, open, infers, call, model>>

\* The exchange is over; the last one wakes whoever waits.
Leave(t) ==
  /\ pc[t] = "sending"
  /\ active' = active - 1
  /\ IF active' = 0 THEN NotifyAll(t, "releasing") ELSE Goto(t, "releasing")
  /\ UNCHANGED <<permits, closing, closed, open, infers, call, model>>

\* The tags have the profile's model: complete() goes on with it.
Found(t) ==
  /\ pc[t] = "releasing"
  /\ modelLock = t
  /\ resolved' = TRUE
  /\ IF call[t] = "complete" THEN Goto(t, "resolved") /\ UNCHANGED call ELSE End(t)

\* A wrong Release: every request gives a permit back.
ReleaseAlways(t) ==
  /\ pc[t] \in {"releasing", "refused"}
  /\ permits' = permits + 1
  /\ infers' = infers \ {t}
  /\ \/ Found(t)
     \/ End(t) /\ UNCHANGED resolved
  /\ modelLock' = IF modelLock = t THEN Nobody ELSE modelLock
  /\ UNCHANGED <<active, closing, closed, open>>

\* The permit goes back, and whatever the answer was, the lock with it.
Release(t) ==
  /\ pc[t] \in {"releasing", "refused"}
  /\ permits' = IF t \in infers THEN permits + 1 ELSE permits
  /\ infers' = infers \ {t}
  /\ \/ Found(t)
     \/ End(t) /\ UNCHANGED resolved
  /\ modelLock' = IF modelLock = t THEN Nobody ELSE modelLock
  /\ UNCHANGED <<active, closing, closed, open>>

\* close(): the first caller closes, the others wait until it is done.
Close(t) ==
  /\ pc[t] = "idle"
  /\ ~closed
  /\ closing' = TRUE
  /\ Goto(t, IF closing THEN "joining" ELSE IF active = 0 THEN "shutting" ELSE "draining")
  /\ UNCHANGED <<permits, active, closed, open, infers, call, model>>

\* A waiter wakes and looks at its condition again.
Wake(t) ==
  /\ \/ pc[t] = "drained" /\ Goto(t, IF active = 0 THEN "shutting" ELSE "draining")
     \/ pc[t] = "joined" /\ Goto(t, IF closed THEN "idle" ELSE "joining")
  /\ UNCHANGED <<permits, active, closing, closed, open, infers, call, model>>

Shut(t) ==
  /\ pc[t] = "shutting"
  /\ open' = FALSE
  /\ Goto(t, "announcing")
  /\ UNCHANGED <<permits, active, closing, closed, infers, call, model>>

\* A wrong Announce: the callers that wait for the close are not told of it.
AnnounceSilently(t) ==
  /\ pc[t] = "announcing"
  /\ closed' = TRUE
  /\ closing' = FALSE
  /\ Goto(t, "idle")
  /\ UNCHANGED <<permits, active, open, infers, call, model>>

Announce(t) ==
  /\ pc[t] = "announcing"
  /\ closed' = TRUE
  /\ closing' = FALSE
  /\ NotifyAll(t, "idle")
  /\ UNCHANGED <<permits, active, open, infers, call, model>>

Step(t) ==
  \/ LockModel(t) \/ Infer(t)
  \/ Enter(t) \/ Leave(t) \/ Release(t) \/ Wake(t) \/ Shut(t) \/ Announce(t)

Next == \E t \in Threads : ListTags(t) \/ Resolve(t) \/ Close(t) \/ Step(t)

Spec == Init /\ [][Next]_vars

\* Threads run and HTTP exchanges time out.
FairSpec == Spec /\ \A t \in Threads : WF_vars(Step(t))
-----------------------------------------------------------------------------
InRequest(t) == pc[t] \in {"admitted", "sending", "releasing", "refused"}

\* The variables have their types; the semaphore, the lock and the count say
\* exactly who holds a permit, who looks for the model and for whom the client
\* works.
TypeOK ==
  /\ pc \in [Threads -> {"idle", "locking", "resolved", "admitted", "sending", "releasing",
                         "refused", "draining", "drained", "joining", "joined", "shutting",
                         "announcing"}]
  /\ call \in [Threads -> {"none", "list", "complete", "refresh"}]
  /\ closing \in BOOLEAN /\ closed \in BOOLEAN /\ open \in BOOLEAN /\ resolved \in BOOLEAN
  /\ infers \subseteq {t \in Threads : InRequest(t) /\ call[t] = "complete"}
  /\ infers # {} => resolved
  /\ \A t \in Threads :
       modelLock = t <=> InRequest(t) /\ call[t] \in {"complete", "refresh"} /\ t \notin infers
  /\ permits + Cardinality(infers) = Parallel
  /\ active = Cardinality({t \in Threads : pc[t] = "sending"})

\* The HTTP client is never closed under a request, and closed by one caller
\* only, however close() and requests race (ollama.py:187-205, 253-271).
ClientOutlivesRequests ==
  \A t, u \in Threads :
    /\ pc[t] = "sending" => open /\ pc[u] \notin {"shutting", "announcing"}
    /\ pc[t] \in {"shutting", "announcing"} /\ pc[u] \in {"shutting", "announcing"} => t = u

\* Every close() returns, whoever got there first: no wake-up is lost between
\* the last request, the closing caller and those that wait for it.
CloseReturns ==
  \A t \in Threads :
    pc[t] \in {"draining", "drained", "joining", "joined", "shutting", "announcing"}
      ~> pc[t] = "idle"
=============================================================================
