---------------------------- MODULE SessionStore ----------------------------
(***************************************************************************)
(* app/core/sessions.py on top of app/core/storage.py: one JSON file per   *)
(* session, replaced atomically under a lock per session, and retention    *)
(* run after every commit under a store lock that only try-locks sessions. *)
(*                                                                         *)
(* An actor is a thread of the server or a CLI process.  A session's JSON  *)
(* is abstracted to the number of turns it records; a lock (RLock plus     *)
(* flock, see FileLock) to its holder.  An acquisition is merged with the  *)
(* read that follows it and a deletion with the release that follows it;   *)
(* everything else interleaves: the body of a transaction, the timestamp,  *)
(* the replacement, each file the cleaner reads, each session it visits.   *)
(***************************************************************************)
EXTENDS Integers, FiniteSets

CONSTANTS
  Actors,
  Nobody,           \* the holder of a free lock
  Sessions,         \* session identifiers, numbered in the order of their paths
  RetentionCount,   \* retention_count
  Ttl,              \* retention_ttl_seconds
  Damageable,       \* sessions whose file something outside the program may spoil
  MaxTime,          \* bound on the clock
  MaxTurns,         \* bound on the turns of a session that begins another
  MaxLost           \* bound on the transactions that raise or crash

ASSUME StoreAssumption ==
  /\ Nobody \notin Actors
  /\ Sessions \subseteq Nat \ {0}
  /\ IsFiniteSet(Sessions)
  /\ RetentionCount \in Nat
  /\ Ttl \in Nat
  /\ Damageable \subseteq Sessions
  /\ MaxTime \in Nat
  /\ MaxTurns \in Nat
  /\ MaxLost \in Nat

VARIABLES
  now,              \* the wall clock
  file,             \* [Sessions -> Snapshot \cup {Absent, Corrupt}]
  lock,             \* [Sessions -> Actors \cup {Nobody}]
  storeLock,        \* the holder of store.lock
  pc,               \* where each actor is
  ses,              \* the session whose lock each actor wants or holds
  work,             \* the payload of each actor's open transaction
  bad,              \* at most one session: read as corrupt, not yet set aside
  scan,             \* the locals of the actor that holds the store lock
  damaged,          \* sessions ever spoilt from outside
  lost              \* how many transactions ended without the cleanup of a commit

vars == <<now, file, lock, storeLock, pc, ses, work, bad, scan, damaged, lost>>

NoSession == 0
Snapshot == [turns : Nat, created : Nat, updated : Nat]
Absent  == [turns |-> -1, created |-> 0, updated |-> 0]   \* no file
Corrupt == [turns |-> -2, created |-> 0, updated |-> 0]   \* read_json refuses it
Unread  == -1

Readable(s) == file[s] \notin {Absent, Corrupt}

NoScan == [at |-> 0, todo |-> {}, seen |-> [s \in Sessions |-> Unread], queue |-> {}]

-----------------------------------------------------------------------------
\* (timestamp, path) sorted in reverse: t comes before s.
Before(seen, t, s) == seen[t] > seen[s] \/ (seen[t] = seen[s] /\ t > s)

Outlived(seen, at) == {s \in Sessions : seen[s] # Unread /\ seen[s] < at - Ttl}

\* A wrong Expired: one session too many survives.
ExpiredOffByOne(seen, at) ==
  LET survivors == {s \in Sessions : seen[s] # Unread} \ Outlived(seen, at)
  IN  Outlived(seen, at) \cup
      {s \in survivors :
         Cardinality({t \in survivors : Before(seen, t, s)}) > RetentionCount}

\* What retention would remove, judging by the timestamps read since time at.
Expired(seen, at) ==
  LET survivors == {s \in Sessions : seen[s] # Unread} \ Outlived(seen, at)
  IN  Outlived(seen, at) \cup
      {s \in survivors :
         Cardinality({t \in survivors : Before(seen, t, s)}) >= RetentionCount}

\* The clock is read, then the directory is listed.
StartScan(queue) ==
  [at |-> now, todo |-> {s \in Sessions : file[s] # Absent},
   seen |-> [s \in Sessions |-> Unread], queue |-> queue]

\* a holds nothing and does nothing.
GoIdle(a) ==
  /\ pc' = [pc EXCEPT ![a] = "idle"]
  /\ ses' = [ses EXCEPT ![a] = NoSession]
  /\ work' = [work EXCEPT ![a] = Absent]
  /\ bad' = [bad EXCEPT ![a] = {}]

Goto(a, label) == pc' = [pc EXCEPT ![a] = label]
-----------------------------------------------------------------------------
Init ==
  /\ now = 0
  /\ file = [s \in Sessions |-> Absent]
  /\ lock = [s \in Sessions |-> Nobody]
  /\ storeLock = Nobody
  /\ pc = [a \in Actors |-> "idle"]
  /\ ses = [a \in Actors |-> NoSession]
  /\ work = [a \in Actors |-> Absent]
  /\ bad = [a \in Actors |-> {}]
  /\ scan = NoScan
  /\ damaged = {}
  /\ lost = 0

Tick ==
  /\ now < MaxTime
  /\ now' = now + 1
  /\ UNCHANGED <<file, lock, storeLock, pc, ses, work, bad, scan, damaged, lost>>

\* transaction(): wait for the session's lock.
Begin(a, s) ==
  /\ pc[a] = "idle"
  /\ file[s].turns < MaxTurns
  /\ Goto(a, "locking")
  /\ ses' = [ses EXCEPT ![a] = s]
  /\ UNCHANGED <<now, file, lock, storeLock, work, bad, scan, damaged, lost>>

\* Hold the lock and read the session, then hand its copy to the caller.
Load(a) ==
  LET s == ses[a] IN
  /\ pc[a] = "locking"
  /\ lock[s] = Nobody
  /\ lock' = [lock EXCEPT ![s] = a]
  /\ IF file[s] = Corrupt
     THEN /\ Goto(a, "failing")
          /\ bad' = [bad EXCEPT ![a] = {s}]
          /\ UNCHANGED work
     ELSE /\ Goto(a, "body")
          /\ work' = [work EXCEPT ![a] = file[s]]
          /\ UNCHANGED bad
  /\ UNCHANGED <<now, file, storeLock, ses, scan, damaged, lost>>

\* The body raises: nothing is written and no cleanup follows.
Raise(a) ==
  /\ pc[a] = "body"
  /\ lost < MaxLost
  /\ lost' = lost + 1
  /\ lock' = [lock EXCEPT ![ses[a]] = Nobody]
  /\ GoIdle(a)
  /\ UNCHANGED <<now, file, storeLock, scan, damaged>>

\* A wrong Stamp: the first commit of a session records no creation time.
StampWithoutDefault(a) ==
  /\ pc[a] = "body"
  /\ Goto(a, "replacing")
  /\ work' = [work EXCEPT ![a] = [turns |-> IF @ = Absent THEN 1 ELSE @.turns + 1,
                                 created |-> IF @ = Absent THEN -1 ELSE @.created,
                                 updated |-> now]]
  /\ UNCHANGED <<now, file, lock, storeLock, ses, bad, scan, damaged, lost>>

\* The body ends with one more turn.  _write_unlocked reads the file again for
\* its creation time and takes the time of the update.
Stamp(a) ==
  LET s == ses[a]
      turns == IF work[a] = Absent THEN 1 ELSE work[a].turns + 1
      created == IF file[s] = Absent THEN now ELSE file[s].created
  IN
  /\ pc[a] = "body"
  /\ IF file[s] = Corrupt
     THEN /\ Goto(a, "failing")
          /\ bad' = [bad EXCEPT ![a] = {s}]
          /\ UNCHANGED work
     ELSE /\ Goto(a, "replacing")
          /\ work' = [work EXCEPT ![a] =
                        [turns |-> turns, created |-> created, updated |-> now]]
          /\ UNCHANGED bad
  /\ UNCHANGED <<now, file, lock, storeLock, ses, scan, damaged, lost>>

\* os.replace: the commit.
Replace(a) ==
  /\ pc[a] = "replacing"
  /\ file' = [file EXCEPT ![ses[a]] = work[a]]
  /\ Goto(a, "unlocking")
  /\ UNCHANGED <<now, lock, storeLock, ses, work, bad, scan, damaged, lost>>

\* Only then is the session's lock given up, before the store lock is taken.
Unlock(a) ==
  /\ pc[a] = "unlocking"
  /\ lock' = [lock EXCEPT ![ses[a]] = Nobody]
  /\ Goto(a, "cleaning")
  /\ ses' = [ses EXCEPT ![a] = NoSession]
  /\ work' = [work EXCEPT ![a] = Absent]
  /\ UNCHANGED <<now, file, storeLock, bad, scan, damaged, lost>>

\* cleanup(): the first scan.
StartCleanup(a) ==
  /\ pc[a] = "cleaning"
  /\ storeLock = Nobody
  /\ storeLock' = a
  /\ scan' = StartScan({})
  /\ Goto(a, "scanning")
  /\ UNCHANGED <<now, file, lock, ses, work, bad, damaged, lost>>

\* One listed file is read: its timestamp, nothing (it is gone), or garbage.
ScanOne(a, s) ==
  /\ pc[a] \in {"scanning", "rechecking"}
  /\ bad[a] = {}
  /\ s \in scan.todo
  /\ scan' = [scan EXCEPT !.todo = @ \ {s},
                          !.seen[s] = IF Readable(s) THEN file[s].updated ELSE Unread]
  /\ bad' = [bad EXCEPT ![a] = IF file[s] = Corrupt THEN {s} ELSE {}]
  /\ UNCHANGED <<now, file, lock, storeLock, pc, ses, work, damaged, lost>>

EndScan(a) ==
  /\ pc[a] = "scanning"
  /\ bad[a] = {}
  /\ scan.todo = {}
  /\ scan' = [NoScan EXCEPT !.queue = Expired(scan.seen, scan.at)]
  /\ Goto(a, "visiting")
  /\ UNCHANGED <<now, file, lock, storeLock, ses, work, bad, damaged, lost>>

\* The next expired path: skipped when its lock is taken, else scanned for again.
Visit(a, s) ==
  /\ pc[a] = "visiting"
  /\ s \in scan.queue
  /\ \A t \in scan.queue : s <= t
  /\ IF lock[s] = Nobody
     THEN /\ lock' = [lock EXCEPT ![s] = a]
          /\ ses' = [ses EXCEPT ![a] = s]
          /\ scan' = StartScan(scan.queue \ {s})
          /\ Goto(a, "rechecking")
     ELSE /\ scan' = [scan EXCEPT !.queue = @ \ {s}]
          /\ UNCHANGED <<lock, ses, pc>>
  /\ UNCHANGED <<now, file, storeLock, work, bad, damaged, lost>>

\* A wrong Decide: the second scan is not consulted.
DecideUnchecked(a) ==
  /\ pc[a] = "rechecking"
  /\ bad[a] = {}
  /\ file' = [file EXCEPT ![ses[a]] = Absent]
  /\ lock' = [lock EXCEPT ![ses[a]] = Nobody]
  /\ ses' = [ses EXCEPT ![a] = NoSession]
  /\ scan' = [NoScan EXCEPT !.queue = scan.queue]
  /\ Goto(a, "visiting")
  /\ UNCHANGED <<now, storeLock, work, bad, damaged, lost>>

\* A wrong Decide: a session that is not deleted after all stays locked.
DecideKeepsLock(a) ==
  LET s == ses[a]
      gone == s \in Expired(scan.seen, scan.at) IN
  /\ pc[a] = "rechecking"
  /\ bad[a] = {}
  /\ scan.todo = {}
  /\ file' = IF gone THEN [file EXCEPT ![s] = Absent] ELSE file
  /\ lock' = IF gone THEN [lock EXCEPT ![s] = Nobody] ELSE lock
  /\ ses' = [ses EXCEPT ![a] = NoSession]
  /\ scan' = [NoScan EXCEPT !.queue = scan.queue]
  /\ Goto(a, "visiting")
  /\ UNCHANGED <<now, storeLock, work, bad, damaged, lost>>

\* Under the session's lock: still expired, so deleted; or left alone.
Decide(a) ==
  LET s == ses[a] IN
  /\ pc[a] = "rechecking"
  /\ bad[a] = {}
  /\ scan.todo = {}
  /\ file' = IF s \in Expired(scan.seen, scan.at)
             THEN [file EXCEPT ![s] = Absent]
             ELSE file
  /\ lock' = [lock EXCEPT ![s] = Nobody]
  /\ ses' = [ses EXCEPT ![a] = NoSession]
  /\ scan' = [NoScan EXCEPT !.queue = scan.queue]
  /\ Goto(a, "visiting")
  /\ UNCHANGED <<now, storeLock, work, bad, damaged, lost>>

EndCleanup(a) ==
  /\ pc[a] = "visiting"
  /\ scan.queue = {}
  /\ storeLock' = Nobody
  /\ scan' = NoScan
  /\ GoIdle(a)
  /\ UNCHANGED <<now, file, lock, damaged, lost>>

\* read() takes no lock.  It changes nothing unless what it read is corrupt.
ReadCorrupt(a, s) ==
  /\ pc[a] = "idle"
  /\ file[s] = Corrupt
  /\ Goto(a, "reading")
  /\ bad' = [bad EXCEPT ![a] = {s}]
  /\ UNCHANGED <<now, file, lock, storeLock, ses, work, scan, damaged, lost>>

\* _quarantine_corrupt_file: whatever is at the path now is moved away.  A
\* reader then reports the corruption; a transaction fails and unlocks; a scan
\* goes on with the next file.
SetAside(a, s) ==
  /\ s \in bad[a]
  /\ file' = [file EXCEPT ![s] = Absent]
  /\ IF pc[a] \in {"scanning", "rechecking"}
     THEN /\ bad' = [bad EXCEPT ![a] = {}]
          /\ UNCHANGED <<pc, ses, work>>
     ELSE GoIdle(a)
  /\ IF pc[a] = "failing"
     THEN /\ lock' = [lock EXCEPT ![s] = Nobody]
          /\ lost' = lost + 1
     ELSE UNCHANGED <<lock, lost>>
  /\ UNCHANGED <<now, storeLock, scan, damaged>>

\* The process of a dies: its flocks go with it, what it wrote stays.
Crash(a) ==
  /\ pc[a] # "idle"
  /\ lost < MaxLost
  /\ lost' = lost + 1
  /\ lock' = [s \in Sessions |-> IF lock[s] = a THEN Nobody ELSE lock[s]]
  /\ storeLock' = IF storeLock = a THEN Nobody ELSE storeLock
  /\ scan' = IF storeLock = a THEN NoScan ELSE scan
  /\ GoIdle(a)
  /\ UNCHANGED <<now, file, damaged>>

\* Something outside the program overwrites a session's file with garbage.
Damage(s) ==
  /\ s \in Damageable \ damaged
  /\ Readable(s)
  /\ file' = [file EXCEPT ![s] = Corrupt]
  /\ damaged' = damaged \cup {s}
  /\ UNCHANGED <<now, lock, storeLock, pc, ses, work, bad, scan, lost>>

\* The steps an actor takes by itself once it has begun.
Step(a) ==
  \/ Load(a) \/ Raise(a) \/ Stamp(a) \/ Replace(a) \/ Unlock(a)
  \/ StartCleanup(a) \/ EndScan(a) \/ Decide(a) \/ EndCleanup(a)
  \/ \E s \in Sessions : ScanOne(a, s) \/ Visit(a, s) \/ SetAside(a, s)

Next ==
  \/ Tick
  \/ \E a \in Actors : Step(a) \/ Crash(a)
  \/ \E a \in Actors, s \in Sessions : Begin(a, s) \/ ReadCorrupt(a, s)
  \/ \E s \in Sessions : Damage(s)

Spec == Init /\ [][Next]_vars

\* A thread that can run is scheduled eventually; the body of a transaction
\* ends because the workflow's deadline ends it.
FairSpec == Spec /\ \A a \in Actors : WF_vars(Step(a))
-----------------------------------------------------------------------------
\* Every variable has its type.
TypeOK ==
  /\ now \in Nat
  /\ file \in [Sessions -> Snapshot \cup {Absent, Corrupt}]
  /\ lock \in [Sessions -> Actors \cup {Nobody}]
  /\ storeLock \in Actors \cup {Nobody}
  /\ pc \in [Actors -> {"idle", "locking", "body", "failing", "replacing", "unlocking",
                       "cleaning", "scanning", "visiting", "rechecking", "reading"}]
  /\ ses \in [Actors -> Sessions \cup {NoSession}]
  /\ work \in [Actors -> Snapshot \cup {Absent}]
  /\ bad \in [Actors -> SUBSET Sessions]
  /\ scan \in [at : Nat, todo : SUBSET Sessions,
               seen : [Sessions -> Nat \cup {Unread}], queue : SUBSET Sessions]
  /\ damaged \subseteq Sessions
  /\ lost \in Nat

\* The code between acquiring and releasing a session's lock, and the store lock.
Holds(a, s) ==
  /\ pc[a] \in {"body", "failing", "replacing", "unlocking", "rechecking"}
  /\ ses[a] = s

Cleans(a) == pc[a] \in {"scanning", "visiting", "rechecking"}

\* A lock is taken exactly while some actor is in the code it protects, so no
\* two actors are ever between Load and Unlock of one session, or cleaning:
\* file_lock and try_file_lock exclude each other (sessions.py:143, :210, :221).
LocksAreHeld ==
  /\ \A a \in Actors, s \in Sessions : lock[s] = a <=> Holds(a, s)
  /\ \A a \in Actors : storeLock = a <=> Cleans(a)

-----------------------------------------------------------------------------
(***************************************************************************)
(* The inductive invariant behind LocksAreHeld and Implements: what each   *)
(* actor knows of the shared state at each point of its code.              *)
(***************************************************************************)

\* An actor bound to a session is bound to one; only a reader of garbage and a
\* failing transaction owe a quarantine outside the scans.
Binding ==
  \A a \in Actors :
    /\ pc[a] \in {"locking", "body", "failing", "replacing", "unlocking", "rechecking"}
         => ses[a] \in Sessions
    /\ pc[a] = "failing" => bad[a] = {ses[a]}
    /\ pc[a] \notin {"failing", "reading", "scanning", "rechecking"} => bad[a] = {}
    /\ pc[a] = "replacing" => work[a] # Absent

\* Only damage makes garbage, and only garbage is set aside.
GarbageIsDamage ==
  /\ \A s \in Sessions : file[s] = Corrupt => s \in damaged
  /\ \A a \in Actors : bad[a] \subseteq damaged

\* Nothing on disk or about to be is from the future.
PastOnly ==
  /\ \A s \in Sessions : Readable(s) => file[s].updated <= now
  /\ \A a \in Actors : pc[a] = "replacing" => work[a].updated <= now
  /\ scan.at <= now

\* What a transaction read is still there, and what it will write follows from it.
WorkIsCurrent ==
  \A a \in Actors :
    LET s == ses[a] IN
    /\ pc[a] = "body" /\ s \notin damaged => work[a] = file[s]
    /\ pc[a] = "replacing" /\ s \notin damaged =>
         IF file[s] = Absent
         THEN work[a].turns = 1 /\ work[a].created = work[a].updated
         ELSE /\ work[a].turns = file[s].turns + 1
              /\ work[a].created = file[s].created
              /\ work[a].updated >= file[s].updated

\* Until a file is damaged, a file the cleaner has read is still there and can
\* only have become more recent; the one it has locked is as it was.
ScanIsSound ==
  damaged = {} /\ storeLock # Nobody =>
    \A s \in Sessions : scan.seen[s] # Unread =>
      /\ Readable(s)
      /\ file[s].updated >= scan.seen[s]
      /\ pc[storeLock] = "rechecking" /\ s = ses[storeLock] =>
           file[s].updated = scan.seen[s]

IInv ==
  /\ TypeOK
  /\ Binding
  /\ LocksAreHeld
  /\ GarbageIsDamage
  /\ PastOnly
  /\ WorkIsCurrent
  /\ ScanIsSound
-----------------------------------------------------------------------------
\* The store is the register its callers take it for: a commit adds one turn to
\* the last committed turn (no update is lost), keeps the creation time, never
\* goes back in time; retention removes only what is expendable at that moment,
\* although it judges by timestamps read one by one while others commit, crash
\* and wait (sessions.py:131-154, 197-222).
Register == INSTANCE SessionRegister WITH
  store <- [s \in Sessions |-> IF file[s] = Corrupt THEN Absent ELSE file[s]]

Implements == Register!Spec

\* Whenever everybody is idle, the store holds at most RetentionCount sessions,
\* plus one for each transaction that ended without a cleanup of its own.  The
\* cleaner skips a locked session and never comes back to it (sessions.py:210-212),
\* and it does not see what is committed behind its scan: both are left to the
\* cleanup of the transaction that was in the way.
QuotaBound ==
  (\A a \in Actors : pc[a] = "idle") =>
    Cardinality({s \in Sessions : Readable(s)}) <= RetentionCount + lost

\* No session stays locked for ever: neither the cleaner, which holds the store
\* lock and takes session locks, nor a transaction, which gives its lock up
\* before it wants the store lock, can block the other (sessions.py:143-154, 209-222).
LocksAreReleased ==
  /\ \A s \in Sessions : lock[s] # Nobody ~> lock[s] = Nobody
  /\ storeLock # Nobody ~> storeLock = Nobody

\* "Atomic replacement makes the last committed snapshot safe to read without
\* waiting for an in-flight generation" (sessions.py:91-92): a read, even one
\* that finds garbage and sets it aside, leaves every committed snapshot alone.
ReadsKeepSnapshots ==
  [][\A a \in Actors, s \in Sessions :
       pc[a] = "reading" /\ pc'[a] = "idle" /\ Readable(s) => file'[s] = file[s]]_vars
=============================================================================
