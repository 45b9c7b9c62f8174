--------------------------- MODULE SessionRegister ---------------------------
(***************************************************************************)
(* What the session store promises its callers, without saying how.        *)
(*                                                                         *)
(* A session is an atomic register: it is absent, or it holds the number   *)
(* of turns committed to it and the times of its first and last commit.    *)
(* The only thing that removes a session is retention, and only when the   *)
(* session has outlived the TTL or enough other sessions are more recent.  *)
(* The promise is void for a session whose file was damaged from outside,  *)
(* and retention may count damaged files.                                  *)
(***************************************************************************)
EXTENDS Integers, FiniteSets

CONSTANTS Sessions,         \* identifiers, numbered in the order of their paths
          RetentionCount,   \* how many sessions retention keeps
          Ttl               \* how long retention keeps an untouched session

VARIABLES now,              \* the wall clock
          store,            \* [Sessions -> Snapshot \cup {Absent}]
          damaged           \* sessions whose file was ever damaged from outside

vars == <<now, store, damaged>>

Snapshot == [turns : Nat, created : Nat, updated : Nat]

\* Not a snapshot: it has no turns.
Absent == [turns |-> -1, created |-> 0, updated |-> 0]

Present == {s \in Sessions : store[s] # Absent}

\* t was committed after s; the path breaks ties.
MoreRecent(t, s) ==
  \/ store[t].updated > store[s].updated
  \/ store[t].updated = store[s].updated /\ t > s

\* Retention may remove s now.
Expendable(s) ==
  \/ store[s].updated < now - Ttl
  \/ Cardinality({t \in Present : MoreRecent(t, s)}) >= RetentionCount

Init ==
  /\ now = 0
  /\ store = [s \in Sessions |-> Absent]
  /\ damaged = {}

Tick ==
  /\ now' = now + 1
  /\ UNCHANGED <<store, damaged>>

\* One turn is added to what was there; the first turn creates the session.
Commit(s) ==
  /\ store' = [store EXCEPT ![s] = store'[s]]
  /\ store'[s] \in Snapshot
  /\ s \notin damaged =>
       /\ store'[s].updated <= now
       /\ IF store[s] = Absent
          THEN /\ store'[s].turns = 1
               /\ store'[s].created = store'[s].updated
          ELSE /\ store'[s].turns = store[s].turns + 1
               /\ store'[s].created = store[s].created
               /\ store'[s].updated >= store[s].updated
  /\ UNCHANGED <<now, damaged>>

Expire(s) ==
  /\ store[s] # Absent
  /\ damaged = {} => Expendable(s)
  /\ store' = [store EXCEPT ![s] = Absent]
  /\ UNCHANGED <<now, damaged>>

\* Something outside the program overwrites the file of s.
Damage(s) ==
  /\ damaged' = damaged \cup {s}
  /\ store' = [store EXCEPT ![s] = Absent]
  /\ UNCHANGED now

\* A damaged session's file is set aside.
SetAside(s) ==
  /\ s \in damaged
  /\ store' = [store EXCEPT ![s] = Absent]
  /\ UNCHANGED <<now, damaged>>

Next ==
  \/ Tick
  \/ \E s \in Sessions : Commit(s) \/ Expire(s) \/ Damage(s) \/ SetAside(s)

Spec == Init /\ [][Next]_vars
===============================================================================
