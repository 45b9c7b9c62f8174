------------------------- MODULE SessionStore_proofs -------------------------
(***************************************************************************)
(* Proofs about SessionStore, for every set of actors and sessions, every  *)
(* retention setting and every bound.                                      *)
(***************************************************************************)
EXTENDS SessionStore, FiniteSetTheorems, TLAPS

\* Every step keeps the types.
LEMMA TypeStep == TypeOK /\ Binding /\ [Next]_vars => TypeOK'
<1> SUFFICES ASSUME TypeOK /\ Binding, [Next]_vars PROVE TypeOK'
  OBVIOUS
<1> USE StoreAssumption
<1>1. CASE Tick
  BY <1>1 DEF TypeOK, Tick
<1>2. ASSUME NEW a \in Actors, NEW s \in Sessions, Begin(a, s) PROVE TypeOK'
  BY <1>2 DEF TypeOK, Begin, Goto
<1>3. ASSUME NEW a \in Actors, Load(a) PROVE TypeOK'
  <2>1. ses[a] \in Sessions
    BY <1>3 DEF Load, Binding
  <2>2. file[ses[a]] \in Snapshot \cup {Absent, Corrupt}
    BY <2>1 DEF TypeOK
  <2>3. work' \in [Actors -> Snapshot \cup {Absent}]
    BY <1>3, <2>2 DEF Load, TypeOK
  <2>4. bad' \in [Actors -> SUBSET Sessions]
    BY <1>3, <2>1 DEF Load, TypeOK
  <2>5. lock' \in [Sessions -> Actors \cup {Nobody}]
    BY <1>3 DEF Load, TypeOK
  <2>6. pc' \in [Actors -> {"idle", "locking", "body", "failing", "replacing",
             "unlocking", "cleaning", "scanning", "visiting", "rechecking", "reading"}]
    BY <1>3 DEF Load, Goto, TypeOK
  <2> QED
    BY <1>3, <2>3, <2>4, <2>5, <2>6 DEF Load, TypeOK
<1>4. ASSUME NEW a \in Actors, Raise(a) PROVE TypeOK'
  BY <1>4 DEF TypeOK, Raise, GoIdle, Binding
<1>5. ASSUME NEW a \in Actors, Stamp(a) PROVE TypeOK'
  <2>1. ses[a] \in Sessions /\ now \in Nat
    BY <1>5 DEF Stamp, Binding, TypeOK
  <2>2. file[ses[a]] \notin {Absent, Corrupt} => file[ses[a]].created \in Nat
    BY <2>1 DEF TypeOK, Snapshot
  <2>3. work[a] # Absent => work[a].turns \in Nat
    BY DEF TypeOK, Snapshot
  <2>4. work' \in [Actors -> Snapshot \cup {Absent}]
    <3>1. CASE file[ses[a]] = Corrupt
      BY <1>5, <3>1 DEF Stamp, TypeOK
    <3>2. CASE file[ses[a]] # Corrupt
      <4> DEFINE new == [turns |-> IF work[a] = Absent THEN 1 ELSE work[a].turns + 1,
                         created |-> IF file[ses[a]] = Absent THEN now
                                     ELSE file[ses[a]].created,
                         updated |-> now]
      <4>1. new \in Snapshot
        BY <2>1, <2>2, <2>3, <3>2 DEF Snapshot
      <4>2. work' = [work EXCEPT ![a] = new]
        BY <1>5, <3>2 DEF Stamp
      <4> QED
        BY <4>1, <4>2 DEF TypeOK
    <3> QED
      BY <3>1, <3>2
  <2> QED
    BY <1>5, <2>1, <2>4 DEF Stamp, TypeOK, Goto
<1>6. ASSUME NEW a \in Actors, Replace(a) PROVE TypeOK'
  BY <1>6 DEF TypeOK, Replace, Goto, Binding
<1>7. ASSUME NEW a \in Actors, Unlock(a) PROVE TypeOK'
  BY <1>7 DEF TypeOK, Unlock, Goto, Binding, NoSession
<1>8. ASSUME NEW a \in Actors, StartCleanup(a) PROVE TypeOK'
  BY <1>8 DEF TypeOK, StartCleanup, StartScan, Goto, Unread
<1>9. ASSUME NEW a \in Actors, NEW s \in Sessions, ScanOne(a, s) PROVE TypeOK'
  BY <1>9 DEF TypeOK, ScanOne, Readable, Snapshot, Unread
<1>10. ASSUME NEW a \in Actors, EndScan(a) PROVE TypeOK'
  BY <1>10 DEF TypeOK, EndScan, Goto, NoScan, Unread, Expired, Outlived
<1>11. ASSUME NEW a \in Actors, NEW s \in Sessions, Visit(a, s) PROVE TypeOK'
  BY <1>11 DEF TypeOK, Visit, StartScan, Goto, Unread
<1>12. ASSUME NEW a \in Actors, Decide(a) PROVE TypeOK'
  BY <1>12 DEF TypeOK, Decide, Goto, NoScan, Unread, NoSession, Binding
<1>13. ASSUME NEW a \in Actors, EndCleanup(a) PROVE TypeOK'
  BY <1>13 DEF TypeOK, EndCleanup, GoIdle, NoScan, Unread
<1>14. ASSUME NEW a \in Actors, NEW s \in Sessions, ReadCorrupt(a, s) PROVE TypeOK'
  BY <1>14 DEF TypeOK, ReadCorrupt, Goto
<1>15. ASSUME NEW a \in Actors, NEW s \in Sessions, SetAside(a, s) PROVE TypeOK'
  BY <1>15 DEF TypeOK, SetAside, GoIdle
<1>16. ASSUME NEW a \in Actors, Crash(a) PROVE TypeOK'
  BY <1>16 DEF TypeOK, Crash, GoIdle, NoScan, Unread
<1>17. ASSUME NEW s \in Sessions, Damage(s) PROVE TypeOK'
  BY <1>17 DEF TypeOK, Damage
<1>18. CASE UNCHANGED vars
  BY <1>18 DEF TypeOK, vars
<1> QED
  BY <1>1, <1>2, <1>3, <1>4, <1>5, <1>6, <1>7, <1>8, <1>9, <1>10, <1>11, <1>12, <1>13, <1>14, <1>15, <1>16, <1>17, <1>18 DEF Next, Step

\* Every step keeps an actor's bindings.
LEMMA BindingStep == TypeOK /\ Binding /\ [Next]_vars => Binding'
<1> SUFFICES ASSUME TypeOK /\ Binding, [Next]_vars PROVE Binding'
  OBVIOUS
<1> USE StoreAssumption
<1>1. CASE Tick
  BY <1>1 DEF TypeOK, Binding, Tick
<1>2. ASSUME NEW a \in Actors, NEW s \in Sessions, Begin(a, s) PROVE Binding'
  BY <1>2 DEF TypeOK, Binding, Begin, Goto
<1>3. ASSUME NEW a \in Actors, Load(a) PROVE Binding'
  BY <1>3 DEF TypeOK, Binding, Load, Goto
<1>4. ASSUME NEW a \in Actors, Raise(a) PROVE Binding'
  BY <1>4 DEF TypeOK, Binding, Raise, GoIdle
<1>5. ASSUME NEW a \in Actors, Stamp(a) PROVE Binding'
  BY <1>5 DEF TypeOK, Binding, Stamp, Goto, Snapshot, Absent
<1>6. ASSUME NEW a \in Actors, Replace(a) PROVE Binding'
  BY <1>6 DEF TypeOK, Binding, Replace, Goto
<1>7. ASSUME NEW a \in Actors, Unlock(a) PROVE Binding'
  BY <1>7 DEF TypeOK, Binding, Unlock, Goto
<1>8. ASSUME NEW a \in Actors, StartCleanup(a) PROVE Binding'
  BY <1>8 DEF TypeOK, Binding, StartCleanup, StartScan, Goto
<1>9. ASSUME NEW a \in Actors, NEW s \in Sessions, ScanOne(a, s) PROVE Binding'
  BY <1>9 DEF TypeOK, Binding, ScanOne
<1>10. ASSUME NEW a \in Actors, EndScan(a) PROVE Binding'
  BY <1>10 DEF TypeOK, Binding, EndScan, Goto, NoScan
<1>11. ASSUME NEW a \in Actors, NEW s \in Sessions, Visit(a, s) PROVE Binding'
  BY <1>11 DEF TypeOK, Binding, Visit, StartScan, Goto
<1>12. ASSUME NEW a \in Actors, Decide(a) PROVE Binding'
  BY <1>12 DEF TypeOK, Binding, Decide, Goto, NoScan
<1>13. ASSUME NEW a \in Actors, EndCleanup(a) PROVE Binding'
  BY <1>13 DEF TypeOK, Binding, EndCleanup, GoIdle, NoScan
<1>14. ASSUME NEW a \in Actors, NEW s \in Sessions, ReadCorrupt(a, s) PROVE Binding'
  BY <1>14 DEF TypeOK, Binding, ReadCorrupt, Goto
<1>15. ASSUME NEW a \in Actors, NEW s \in Sessions, SetAside(a, s) PROVE Binding'
  BY <1>15 DEF TypeOK, Binding, SetAside, GoIdle
<1>16. ASSUME NEW a \in Actors, Crash(a) PROVE Binding'
  BY <1>16 DEF TypeOK, Binding, Crash, GoIdle, NoScan
<1>17. ASSUME NEW s \in Sessions, Damage(s) PROVE Binding'
  BY <1>17 DEF TypeOK, Binding, Damage
<1>18. CASE UNCHANGED vars
  BY <1>18 DEF TypeOK, Binding, vars
<1> QED
  BY <1>1, <1>2, <1>3, <1>4, <1>5, <1>6, <1>7, <1>8, <1>9, <1>10, <1>11, <1>12, <1>13, <1>14, <1>15, <1>16, <1>17, <1>18 DEF Next, Step

\* Every step keeps the locks with those who are in the code they protect.
LEMMA LockStep == TypeOK /\ Binding /\ LocksAreHeld /\ [Next]_vars => LocksAreHeld'
<1> SUFFICES ASSUME TypeOK /\ Binding /\ LocksAreHeld, [Next]_vars PROVE LocksAreHeld'
  OBVIOUS
<1> USE StoreAssumption
<1>1. CASE Tick
  BY <1>1 DEF TypeOK, Binding, LocksAreHeld, Holds, Cleans, Tick
<1>2. ASSUME NEW a \in Actors, NEW s \in Sessions, Begin(a, s) PROVE LocksAreHeld'
  BY <1>2 DEF TypeOK, Binding, LocksAreHeld, Holds, Cleans, Begin, Goto
<1>3. ASSUME NEW a \in Actors, Load(a) PROVE LocksAreHeld'
  BY <1>3 DEF TypeOK, Binding, LocksAreHeld, Holds, Cleans, Load, Goto
<1>4. ASSUME NEW a \in Actors, Raise(a) PROVE LocksAreHeld'
  BY <1>4 DEF TypeOK, Binding, LocksAreHeld, Holds, Cleans, Raise, GoIdle
<1>5. ASSUME NEW a \in Actors, Stamp(a) PROVE LocksAreHeld'
  BY <1>5 DEF TypeOK, Binding, LocksAreHeld, Holds, Cleans, Stamp, Goto
<1>6. ASSUME NEW a \in Actors, Replace(a) PROVE LocksAreHeld'
  BY <1>6 DEF TypeOK, Binding, LocksAreHeld, Holds, Cleans, Replace, Goto
<1>7. ASSUME NEW a \in Actors, Unlock(a) PROVE LocksAreHeld'
  BY <1>7 DEF TypeOK, Binding, LocksAreHeld, Holds, Cleans, Unlock, Goto
<1>8. ASSUME NEW a \in Actors, StartCleanup(a) PROVE LocksAreHeld'
  BY <1>8 DEF TypeOK, Binding, LocksAreHeld, Holds, Cleans, StartCleanup, StartScan, Goto
<1>9. ASSUME NEW a \in Actors, NEW s \in Sessions, ScanOne(a, s) PROVE LocksAreHeld'
  BY <1>9 DEF TypeOK, Binding, LocksAreHeld, Holds, Cleans, ScanOne
<1>10. ASSUME NEW a \in Actors, EndScan(a) PROVE LocksAreHeld'
  BY <1>10 DEF TypeOK, Binding, LocksAreHeld, Holds, Cleans, EndScan, Goto, NoScan
<1>11. ASSUME NEW a \in Actors, NEW s \in Sessions, Visit(a, s) PROVE LocksAreHeld'
  BY <1>11 DEF TypeOK, Binding, LocksAreHeld, Holds, Cleans, Visit, StartScan, Goto
<1>12. ASSUME NEW a \in Actors, Decide(a) PROVE LocksAreHeld'
  BY <1>12 DEF TypeOK, Binding, LocksAreHeld, Holds, Cleans, Decide, Goto, NoScan
<1>13. ASSUME NEW a \in Actors, EndCleanup(a) PROVE LocksAreHeld'
  BY <1>13 DEF TypeOK, Binding, LocksAreHeld, Holds, Cleans, EndCleanup, GoIdle, NoScan
<1>14. ASSUME NEW a \in Actors, NEW s \in Sessions, ReadCorrupt(a, s) PROVE LocksAreHeld'
  BY <1>14 DEF TypeOK, Binding, LocksAreHeld, Holds, Cleans, ReadCorrupt, Goto
<1>15. ASSUME NEW a \in Actors, NEW s \in Sessions, SetAside(a, s) PROVE LocksAreHeld'
  BY <1>15 DEF TypeOK, Binding, LocksAreHeld, Holds, Cleans, SetAside, GoIdle
<1>16. ASSUME NEW a \in Actors, Crash(a) PROVE LocksAreHeld'
  BY <1>16 DEF TypeOK, Binding, LocksAreHeld, Holds, Cleans, Crash, GoIdle, NoScan
<1>17. ASSUME NEW s \in Sessions, Damage(s) PROVE LocksAreHeld'
  BY <1>17 DEF TypeOK, Binding, LocksAreHeld, Holds, Cleans, Damage
<1>18. CASE UNCHANGED vars
  BY <1>18 DEF TypeOK, Binding, LocksAreHeld, Holds, Cleans, vars
<1> QED
  BY <1>1, <1>2, <1>3, <1>4, <1>5, <1>6, <1>7, <1>8, <1>9, <1>10, <1>11, <1>12, <1>13, <1>14, <1>15, <1>16, <1>17, <1>18 DEF Next, Step

\* A readable file is a snapshot.
LEMMA ReadableType ==
  ASSUME TypeOK, NEW s \in Sessions, Readable(s)
  PROVE  /\ file[s] \in Snapshot
         /\ file[s].turns \in Nat /\ file[s].created \in Nat /\ file[s].updated \in Nat
  BY DEF TypeOK, Readable, Snapshot

\* Every step keeps garbage and what is owed to it among the damaged sessions.
LEMMA GarbageStep == IInv /\ [Next]_vars => GarbageIsDamage'
<1> SUFFICES ASSUME IInv, [Next]_vars PROVE GarbageIsDamage'
  OBVIOUS
<1> USE StoreAssumption
<1>1. CASE Tick
  BY <1>1 DEF IInv, TypeOK, Binding, GarbageIsDamage, Tick
<1>2. ASSUME NEW a \in Actors, NEW s \in Sessions, Begin(a, s) PROVE GarbageIsDamage'
  BY <1>2 DEF IInv, TypeOK, Binding, GarbageIsDamage, Begin, Goto
<1>3. ASSUME NEW a \in Actors, Load(a) PROVE GarbageIsDamage'
  <2>1. ses[a] \in Sessions
    BY <1>3 DEF Load, IInv, Binding
  <2>2. bad' = bad \/ (bad' = [bad EXCEPT ![a] = {ses[a]}] /\ file[ses[a]] = Corrupt)
    BY <1>3 DEF Load
  <2>3. \A b \in Actors : bad'[b] \subseteq damaged
    <3>1. CASE bad' = bad
      BY <3>1 DEF IInv, GarbageIsDamage
    <3>2. CASE bad' = [bad EXCEPT ![a] = {ses[a]}] /\ file[ses[a]] = Corrupt
      <4>1. {ses[a]} \subseteq damaged
        BY <2>1, <3>2 DEF IInv, GarbageIsDamage
      <4>2. \A b \in Actors : bad[b] \subseteq damaged
        BY DEF IInv, GarbageIsDamage
      <4>3. \A b \in Actors : bad'[b] = bad[b] \/ bad'[b] = {ses[a]}
        BY <3>2 DEF IInv, TypeOK
      <4> QED
        BY <4>1, <4>2, <4>3
    <3> QED
      BY <2>2, <3>1, <3>2
  <2> QED
    BY <1>3, <2>3 DEF Load, IInv, GarbageIsDamage
<1>4. ASSUME NEW a \in Actors, Raise(a) PROVE GarbageIsDamage'
  BY <1>4 DEF IInv, TypeOK, Binding, GarbageIsDamage, Raise, GoIdle
<1>5. ASSUME NEW a \in Actors, Stamp(a) PROVE GarbageIsDamage'
  <2>1. ses[a] \in Sessions
    BY <1>5 DEF Stamp, IInv, Binding
  <2>2. bad' = bad \/ (bad' = [bad EXCEPT ![a] = {ses[a]}] /\ file[ses[a]] = Corrupt)
    BY <1>5 DEF Stamp
  <2>3. \A b \in Actors : bad'[b] \subseteq damaged
    <3>1. CASE bad' = bad
      BY <3>1 DEF IInv, GarbageIsDamage
    <3>2. CASE bad' = [bad EXCEPT ![a] = {ses[a]}] /\ file[ses[a]] = Corrupt
      <4>1. {ses[a]} \subseteq damaged
        BY <2>1, <3>2 DEF IInv, GarbageIsDamage
      <4>2. \A b \in Actors : bad[b] \subseteq damaged
        BY DEF IInv, GarbageIsDamage
      <4>3. \A b \in Actors : bad'[b] = bad[b] \/ bad'[b] = {ses[a]}
        BY <3>2 DEF IInv, TypeOK
      <4> QED
        BY <4>1, <4>2, <4>3
    <3> QED
      BY <2>2, <3>1, <3>2
  <2> QED
    BY <1>5, <2>3 DEF Stamp, IInv, GarbageIsDamage
<1>6. ASSUME NEW a \in Actors, Replace(a) PROVE GarbageIsDamage'
  BY <1>6 DEF IInv, TypeOK, Binding, GarbageIsDamage, Replace, Goto, Corrupt, Snapshot
<1>7. ASSUME NEW a \in Actors, Unlock(a) PROVE GarbageIsDamage'
  BY <1>7 DEF IInv, TypeOK, Binding, GarbageIsDamage, Unlock, Goto
<1>8. ASSUME NEW a \in Actors, StartCleanup(a) PROVE GarbageIsDamage'
  BY <1>8 DEF IInv, TypeOK, Binding, GarbageIsDamage, StartCleanup, StartScan, Goto
<1>9. ASSUME NEW a \in Actors, NEW s \in Sessions, ScanOne(a, s) PROVE GarbageIsDamage'
  BY <1>9 DEF IInv, TypeOK, Binding, GarbageIsDamage, ScanOne
<1>10. ASSUME NEW a \in Actors, EndScan(a) PROVE GarbageIsDamage'
  BY <1>10 DEF IInv, TypeOK, Binding, GarbageIsDamage, EndScan, Goto, NoScan
<1>11. ASSUME NEW a \in Actors, NEW s \in Sessions, Visit(a, s) PROVE GarbageIsDamage'
  BY <1>11 DEF IInv, TypeOK, Binding, GarbageIsDamage, Visit, StartScan, Goto
<1>12. ASSUME NEW a \in Actors, Decide(a) PROVE GarbageIsDamage'
  BY <1>12 DEF IInv, TypeOK, Binding, GarbageIsDamage, Decide, Goto, NoScan, Corrupt, Absent
<1>13. ASSUME NEW a \in Actors, EndCleanup(a) PROVE GarbageIsDamage'
  BY <1>13 DEF IInv, TypeOK, Binding, GarbageIsDamage, EndCleanup, GoIdle, NoScan
<1>14. ASSUME NEW a \in Actors, NEW s \in Sessions, ReadCorrupt(a, s) PROVE GarbageIsDamage'
  BY <1>14 DEF IInv, TypeOK, Binding, GarbageIsDamage, ReadCorrupt, Goto
<1>15. ASSUME NEW a \in Actors, NEW s \in Sessions, SetAside(a, s) PROVE GarbageIsDamage'
  BY <1>15 DEF IInv, TypeOK, Binding, GarbageIsDamage, SetAside, GoIdle, Corrupt, Absent
<1>16. ASSUME NEW a \in Actors, Crash(a) PROVE GarbageIsDamage'
  BY <1>16 DEF IInv, TypeOK, Binding, GarbageIsDamage, Crash, GoIdle, NoScan
<1>17. ASSUME NEW s \in Sessions, Damage(s) PROVE GarbageIsDamage'
  BY <1>17 DEF IInv, TypeOK, Binding, GarbageIsDamage, Damage
<1>18. CASE UNCHANGED vars
  BY <1>18 DEF IInv, TypeOK, Binding, GarbageIsDamage, vars
<1> QED
  BY <1>1, <1>2, <1>3, <1>4, <1>5, <1>6, <1>7, <1>8, <1>9, <1>10, <1>11, <1>12, <1>13, <1>14, <1>15, <1>16, <1>17, <1>18 DEF Next, Step

\* No step brings in a time from the future.
LEMMA PastStep == IInv /\ [Next]_vars => PastOnly'
<1> SUFFICES ASSUME IInv, [Next]_vars PROVE PastOnly'
  OBVIOUS
<1> USE StoreAssumption
<1>1. CASE Tick
  <2>1. \A s \in Sessions : Readable(s) => file[s].updated \in Int
    BY ReadableType DEF IInv
  <2>2. \A a \in Actors : pc[a] = "replacing" => work[a].updated \in Int
    BY DEF IInv, TypeOK, Binding, Snapshot
  <2>3. now \in Int /\ scan.at \in Int
    BY DEF IInv, TypeOK
  <2> QED
    BY <1>1, <2>1, <2>2, <2>3 DEF Tick, IInv, PastOnly, Readable
<1>2. ASSUME NEW a \in Actors, NEW s \in Sessions, Begin(a, s) PROVE PastOnly'
  BY <1>2 DEF IInv, TypeOK, Binding, PastOnly, Readable, Begin, Goto
<1>3. ASSUME NEW a \in Actors, Load(a) PROVE PastOnly'
  BY <1>3 DEF IInv, TypeOK, Binding, PastOnly, Readable, Load, Goto
<1>4. ASSUME NEW a \in Actors, Raise(a) PROVE PastOnly'
  BY <1>4 DEF IInv, TypeOK, Binding, PastOnly, Readable, Raise, GoIdle
<1>5. ASSUME NEW a \in Actors, Stamp(a) PROVE PastOnly'
  BY <1>5 DEF IInv, TypeOK, Binding, PastOnly, Readable, Stamp, Goto, Snapshot
<1>6. ASSUME NEW a \in Actors, Replace(a) PROVE PastOnly'
  BY <1>6 DEF IInv, TypeOK, Binding, PastOnly, Readable, Replace, Goto, Snapshot
<1>7. ASSUME NEW a \in Actors, Unlock(a) PROVE PastOnly'
  BY <1>7 DEF IInv, TypeOK, Binding, PastOnly, Readable, Unlock, Goto
<1>8. ASSUME NEW a \in Actors, StartCleanup(a) PROVE PastOnly'
  BY <1>8 DEF IInv, TypeOK, Binding, PastOnly, Readable, StartCleanup, StartScan, Goto
<1>9. ASSUME NEW a \in Actors, NEW s \in Sessions, ScanOne(a, s) PROVE PastOnly'
  BY <1>9 DEF IInv, TypeOK, Binding, PastOnly, Readable, ScanOne
<1>10. ASSUME NEW a \in Actors, EndScan(a) PROVE PastOnly'
  BY <1>10 DEF IInv, TypeOK, Binding, PastOnly, Readable, EndScan, Goto, NoScan
<1>11. ASSUME NEW a \in Actors, NEW s \in Sessions, Visit(a, s) PROVE PastOnly'
  BY <1>11 DEF IInv, TypeOK, Binding, PastOnly, Readable, Visit, StartScan, Goto
<1>12. ASSUME NEW a \in Actors, Decide(a) PROVE PastOnly'
  BY <1>12 DEF IInv, TypeOK, Binding, PastOnly, Readable, Decide, Goto, NoScan, Absent
<1>13. ASSUME NEW a \in Actors, EndCleanup(a) PROVE PastOnly'
  BY <1>13 DEF IInv, TypeOK, Binding, PastOnly, Readable, EndCleanup, GoIdle, NoScan
<1>14. ASSUME NEW a \in Actors, NEW s \in Sessions, ReadCorrupt(a, s) PROVE PastOnly'
  BY <1>14 DEF IInv, TypeOK, Binding, PastOnly, Readable, ReadCorrupt, Goto
<1>15. ASSUME NEW a \in Actors, NEW s \in Sessions, SetAside(a, s) PROVE PastOnly'
  BY <1>15 DEF IInv, TypeOK, Binding, PastOnly, Readable, SetAside, GoIdle, Absent
<1>16. ASSUME NEW a \in Actors, Crash(a) PROVE PastOnly'
  BY <1>16 DEF IInv, TypeOK, Binding, PastOnly, Readable, Crash, GoIdle, NoScan
<1>17. ASSUME NEW s \in Sessions, Damage(s) PROVE PastOnly'
  BY <1>17 DEF IInv, TypeOK, Binding, PastOnly, Readable, Damage, Corrupt
<1>18. CASE UNCHANGED vars
  BY <1>18 DEF IInv, TypeOK, Binding, PastOnly, Readable, vars
<1> QED
  BY <1>1, <1>2, <1>3, <1>4, <1>5, <1>6, <1>7, <1>8, <1>9, <1>10, <1>11, <1>12, <1>13, <1>14, <1>15, <1>16, <1>17, <1>18 DEF Next, Step

\* No step of another actor invalidates what a transaction has read.
LEMMA WorkStep == IInv /\ [Next]_vars => WorkIsCurrent'
<1> SUFFICES ASSUME IInv, [Next]_vars PROVE WorkIsCurrent'
  OBVIOUS
<1> USE StoreAssumption
<1>1. CASE Tick
  BY <1>1 DEF IInv, TypeOK, Binding, LocksAreHeld, Holds, WorkIsCurrent, GarbageIsDamage, PastOnly, Tick
<1>2. ASSUME NEW a \in Actors, NEW s \in Sessions, Begin(a, s) PROVE WorkIsCurrent'
  BY <1>2 DEF IInv, TypeOK, Binding, LocksAreHeld, Holds, WorkIsCurrent, GarbageIsDamage, PastOnly, Begin, Goto
<1>3. ASSUME NEW a \in Actors, Load(a) PROVE WorkIsCurrent'
  BY <1>3 DEF IInv, TypeOK, Binding, LocksAreHeld, Holds, WorkIsCurrent, GarbageIsDamage, PastOnly, Load, Goto
<1>4. ASSUME NEW a \in Actors, Raise(a) PROVE WorkIsCurrent'
  BY <1>4 DEF IInv, TypeOK, Binding, LocksAreHeld, Holds, WorkIsCurrent, GarbageIsDamage, PastOnly, Raise, GoIdle
<1>5. ASSUME NEW a \in Actors, Stamp(a) PROVE WorkIsCurrent'
  <2> DEFINE s == ses[a]
  <2>1. s \in Sessions /\ now \in Nat
    BY <1>5 DEF Stamp, IInv, Binding, TypeOK
  <2>2. \A b \in Actors : b # a => work'[b] = work[b] /\ pc'[b] = pc[b]
    <3>1. work' = work \/ \E w : work' = [work EXCEPT ![a] = w]
      BY <1>5 DEF Stamp
    <3>2. \E l : pc' = [pc EXCEPT ![a] = l]
      BY <1>5 DEF Stamp, Goto
    <3> QED
      BY <3>1, <3>2 DEF IInv, TypeOK
  <2>3. pc'[a] # "body"
    BY <1>5 DEF Stamp, Goto, IInv, TypeOK
  <2>4. ASSUME pc'[a] = "replacing", s \notin damaged
        PROVE  IF file[s] = Absent
               THEN work'[a].turns = 1 /\ work'[a].created = work'[a].updated
               ELSE /\ work'[a].turns = file[s].turns + 1
                    /\ work'[a].created = file[s].created
                    /\ work'[a].updated >= file[s].updated
    <3>1. work[a] = file[s]
      BY <1>5, <2>4 DEF Stamp, IInv, WorkIsCurrent
    <3>2. file[s] # Corrupt
      BY <2>1, <2>4 DEF IInv, GarbageIsDamage
    <3>3. work'[a] = [turns |-> IF work[a] = Absent THEN 1 ELSE work[a].turns + 1,
                      created |-> IF file[s] = Absent THEN now ELSE file[s].created,
                      updated |-> now]
      BY <1>5, <3>2 DEF Stamp, IInv, TypeOK
    <3>4. file[s] # Absent => file[s].updated <= now /\ file[s].updated \in Nat
      BY <2>1, <3>2, ReadableType DEF IInv, PastOnly, Readable
    <3> QED
      BY <2>1, <3>1, <3>3, <3>4
  <2> QED
    BY <1>5, <2>2, <2>3, <2>4 DEF Stamp, IInv, WorkIsCurrent
<1>6. ASSUME NEW a \in Actors, Replace(a) PROVE WorkIsCurrent'
  <2>1. ses[a] \in Sessions /\ lock[ses[a]] = a
    BY <1>6 DEF Replace, IInv, Binding, LocksAreHeld, Holds
  <2>2. \A b \in Actors : pc'[b] \in {"body", "replacing"} => b # a /\ pc'[b] = pc[b]
    BY <1>6 DEF Replace, Goto, IInv, TypeOK
  <2>3. \A b \in Actors : pc'[b] \in {"body", "replacing"} =>
          ses[b] \in Sessions /\ lock[ses[b]] = b
    <3> SUFFICES ASSUME NEW b \in Actors, pc'[b] \in {"body", "replacing"}
                 PROVE  ses[b] \in Sessions /\ lock[ses[b]] = b
      OBVIOUS
    <3>1. ses[b] \in Sessions /\ Holds(b, ses[b])
      BY <2>2 DEF IInv, Binding, Holds
    <3> QED
      BY <3>1 DEF IInv, LocksAreHeld
  <2>4. \A b \in Actors : pc'[b] \in {"body", "replacing"} => file'[ses[b]] = file[ses[b]]
    BY <1>6, <2>1, <2>2, <2>3 DEF Replace, IInv, TypeOK
  <2> QED
    BY <1>6, <2>2, <2>4 DEF Replace, IInv, WorkIsCurrent
<1>7. ASSUME NEW a \in Actors, Unlock(a) PROVE WorkIsCurrent'
  BY <1>7 DEF IInv, TypeOK, Binding, LocksAreHeld, Holds, WorkIsCurrent, GarbageIsDamage, PastOnly, Unlock, Goto
<1>8. ASSUME NEW a \in Actors, StartCleanup(a) PROVE WorkIsCurrent'
  BY <1>8 DEF IInv, TypeOK, Binding, LocksAreHeld, Holds, WorkIsCurrent, GarbageIsDamage, PastOnly, StartCleanup, StartScan, Goto
<1>9. ASSUME NEW a \in Actors, NEW s \in Sessions, ScanOne(a, s) PROVE WorkIsCurrent'
  BY <1>9 DEF IInv, TypeOK, Binding, LocksAreHeld, Holds, WorkIsCurrent, GarbageIsDamage, PastOnly, ScanOne
<1>10. ASSUME NEW a \in Actors, EndScan(a) PROVE WorkIsCurrent'
  BY <1>10 DEF IInv, TypeOK, Binding, LocksAreHeld, Holds, WorkIsCurrent, GarbageIsDamage, PastOnly, EndScan, Goto, NoScan
<1>11. ASSUME NEW a \in Actors, NEW s \in Sessions, Visit(a, s) PROVE WorkIsCurrent'
  BY <1>11 DEF IInv, TypeOK, Binding, LocksAreHeld, Holds, WorkIsCurrent, GarbageIsDamage, PastOnly, Visit, StartScan, Goto
<1>12. ASSUME NEW a \in Actors, Decide(a) PROVE WorkIsCurrent'
  BY <1>12 DEF IInv, TypeOK, Binding, LocksAreHeld, Holds, WorkIsCurrent, GarbageIsDamage, PastOnly, Decide, Goto, NoScan
<1>13. ASSUME NEW a \in Actors, EndCleanup(a) PROVE WorkIsCurrent'
  BY <1>13 DEF IInv, TypeOK, Binding, LocksAreHeld, Holds, WorkIsCurrent, GarbageIsDamage, PastOnly, EndCleanup, GoIdle, NoScan
<1>14. ASSUME NEW a \in Actors, NEW s \in Sessions, ReadCorrupt(a, s) PROVE WorkIsCurrent'
  BY <1>14 DEF IInv, TypeOK, Binding, LocksAreHeld, Holds, WorkIsCurrent, GarbageIsDamage, PastOnly, ReadCorrupt, Goto
<1>15. ASSUME NEW a \in Actors, NEW s \in Sessions, SetAside(a, s) PROVE WorkIsCurrent'
  BY <1>15 DEF IInv, TypeOK, Binding, LocksAreHeld, Holds, WorkIsCurrent, GarbageIsDamage, PastOnly, SetAside, GoIdle
<1>16. ASSUME NEW a \in Actors, Crash(a) PROVE WorkIsCurrent'
  BY <1>16 DEF IInv, TypeOK, Binding, LocksAreHeld, Holds, WorkIsCurrent, GarbageIsDamage, PastOnly, Crash, GoIdle, NoScan
<1>17. ASSUME NEW s \in Sessions, Damage(s) PROVE WorkIsCurrent'
  BY <1>17 DEF IInv, TypeOK, Binding, LocksAreHeld, Holds, WorkIsCurrent, GarbageIsDamage, PastOnly, Damage
<1>18. CASE UNCHANGED vars
  BY <1>18 DEF IInv, TypeOK, Binding, LocksAreHeld, Holds, WorkIsCurrent, GarbageIsDamage, PastOnly, vars
<1> QED
  BY <1>1, <1>2, <1>3, <1>4, <1>5, <1>6, <1>7, <1>8, <1>9, <1>10, <1>11, <1>12, <1>13, <1>14, <1>15, <1>16, <1>17, <1>18 DEF Next, Step

\* No step invalidates what the cleaner has read.
LEMMA ScanStep == IInv /\ [Next]_vars => ScanIsSound'
<1> SUFFICES ASSUME IInv, [Next]_vars PROVE ScanIsSound'
  OBVIOUS
<1> USE StoreAssumption
<1>1. CASE Tick
  BY <1>1 DEF IInv, TypeOK, Binding, LocksAreHeld, Holds, Cleans, WorkIsCurrent, GarbageIsDamage, ScanIsSound, Readable, Tick
<1>2. ASSUME NEW a \in Actors, NEW s \in Sessions, Begin(a, s) PROVE ScanIsSound'
  BY <1>2 DEF IInv, TypeOK, Binding, LocksAreHeld, Holds, Cleans, WorkIsCurrent, GarbageIsDamage, ScanIsSound, Readable, Begin, Goto
<1>3. ASSUME NEW a \in Actors, Load(a) PROVE ScanIsSound'
  BY <1>3 DEF IInv, TypeOK, Binding, LocksAreHeld, Holds, Cleans, WorkIsCurrent, GarbageIsDamage, ScanIsSound, Readable, Load, Goto
<1>4. ASSUME NEW a \in Actors, Raise(a) PROVE ScanIsSound'
  BY <1>4 DEF IInv, TypeOK, Binding, LocksAreHeld, Holds, Cleans, WorkIsCurrent, GarbageIsDamage, ScanIsSound, Readable, Raise, GoIdle
<1>5. ASSUME NEW a \in Actors, Stamp(a) PROVE ScanIsSound'
  BY <1>5 DEF IInv, TypeOK, Binding, LocksAreHeld, Holds, Cleans, WorkIsCurrent, GarbageIsDamage, ScanIsSound, Readable, Stamp, Goto
<1>6. ASSUME NEW a \in Actors, Replace(a) PROVE ScanIsSound'
  BY <1>6 DEF IInv, TypeOK, Binding, LocksAreHeld, Holds, Cleans, WorkIsCurrent, GarbageIsDamage, ScanIsSound, Readable, Replace, Goto, Snapshot, Corrupt, Absent
<1>7. ASSUME NEW a \in Actors, Unlock(a) PROVE ScanIsSound'
  BY <1>7 DEF IInv, TypeOK, Binding, LocksAreHeld, Holds, Cleans, WorkIsCurrent, GarbageIsDamage, ScanIsSound, Readable, Unlock, Goto
<1>8. ASSUME NEW a \in Actors, StartCleanup(a) PROVE ScanIsSound'
  BY <1>8 DEF IInv, TypeOK, Binding, LocksAreHeld, Holds, Cleans, WorkIsCurrent, GarbageIsDamage, ScanIsSound, Readable, StartCleanup, StartScan, Goto, Unread
<1>9. ASSUME NEW a \in Actors, NEW s \in Sessions, ScanOne(a, s) PROVE ScanIsSound'
  <2>1. scan'.seen = [scan.seen EXCEPT ![s] =
                        IF Readable(s) THEN file[s].updated ELSE Unread]
    BY <1>9 DEF ScanOne, IInv, TypeOK
  <2>2. Readable(s) => file[s].updated \in Nat
    BY <1>9, ReadableType DEF IInv
  <2>3. scan.seen \in [Sessions -> Nat \cup {Unread}]
    BY DEF IInv, TypeOK
  <2> QED
    BY <1>9, <2>1, <2>2, <2>3 DEF ScanOne, IInv, ScanIsSound, Readable, Unread
<1>10. ASSUME NEW a \in Actors, EndScan(a) PROVE ScanIsSound'
  BY <1>10 DEF IInv, TypeOK, Binding, LocksAreHeld, Holds, Cleans, WorkIsCurrent, GarbageIsDamage, ScanIsSound, Readable, EndScan, Goto, NoScan, Unread
<1>11. ASSUME NEW a \in Actors, NEW s \in Sessions, Visit(a, s) PROVE ScanIsSound'
  BY <1>11 DEF IInv, TypeOK, Binding, LocksAreHeld, Holds, Cleans, WorkIsCurrent, GarbageIsDamage, ScanIsSound, Readable, Visit, StartScan, Goto, Unread
<1>12. ASSUME NEW a \in Actors, Decide(a) PROVE ScanIsSound'
  BY <1>12 DEF IInv, TypeOK, Binding, LocksAreHeld, Holds, Cleans, WorkIsCurrent, GarbageIsDamage, ScanIsSound, Readable, Decide, Goto, NoScan, Unread
<1>13. ASSUME NEW a \in Actors, EndCleanup(a) PROVE ScanIsSound'
  BY <1>13 DEF IInv, TypeOK, Binding, LocksAreHeld, Holds, Cleans, WorkIsCurrent, GarbageIsDamage, ScanIsSound, Readable, EndCleanup, GoIdle, NoScan, Unread
<1>14. ASSUME NEW a \in Actors, NEW s \in Sessions, ReadCorrupt(a, s) PROVE ScanIsSound'
  BY <1>14 DEF IInv, TypeOK, Binding, LocksAreHeld, Holds, Cleans, WorkIsCurrent, GarbageIsDamage, ScanIsSound, Readable, ReadCorrupt, Goto
<1>15. ASSUME NEW a \in Actors, NEW s \in Sessions, SetAside(a, s) PROVE ScanIsSound'
  BY <1>15 DEF IInv, TypeOK, Binding, LocksAreHeld, Holds, Cleans, WorkIsCurrent, GarbageIsDamage, ScanIsSound, Readable, SetAside, GoIdle
<1>16. ASSUME NEW a \in Actors, Crash(a) PROVE ScanIsSound'
  BY <1>16 DEF IInv, TypeOK, Binding, LocksAreHeld, Holds, Cleans, WorkIsCurrent, GarbageIsDamage, ScanIsSound, Readable, Crash, GoIdle, NoScan, Unread
<1>17. ASSUME NEW s \in Sessions, Damage(s) PROVE ScanIsSound'
  BY <1>17 DEF IInv, TypeOK, Binding, LocksAreHeld, Holds, Cleans, WorkIsCurrent, GarbageIsDamage, ScanIsSound, Readable, Damage
<1>18. CASE UNCHANGED vars
  BY <1>18 DEF IInv, TypeOK, Binding, LocksAreHeld, Holds, Cleans, WorkIsCurrent, GarbageIsDamage, ScanIsSound, Readable, vars
<1> QED
  BY <1>1, <1>2, <1>3, <1>4, <1>5, <1>6, <1>7, <1>8, <1>9, <1>10, <1>11, <1>12, <1>13, <1>14, <1>15, <1>16, <1>17, <1>18 DEF Next, Step

\* The inductive invariant holds.
THEOREM IInvCorrect == Spec => []IInv
<1>1. Init => IInv
  <2> SUFFICES ASSUME Init PROVE IInv
    OBVIOUS
  <2> USE StoreAssumption DEF Init
  <2>1. TypeOK
    BY DEF TypeOK, NoScan, Snapshot, NoSession, Unread
  <2>2. Binding /\ LocksAreHeld
    BY DEF Binding, LocksAreHeld, Holds, Cleans
  <2>3. GarbageIsDamage /\ PastOnly /\ WorkIsCurrent /\ ScanIsSound
    BY DEF GarbageIsDamage, PastOnly, WorkIsCurrent, ScanIsSound, Readable, NoScan,
           Absent, Corrupt, Unread
  <2> QED
    BY <2>1, <2>2, <2>3 DEF IInv
<1>2. IInv /\ [Next]_vars => IInv'
  BY TypeStep, BindingStep, LockStep, GarbageStep, PastStep, WorkStep, ScanStep DEF IInv
<1> QED
  BY <1>1, <1>2, PTL DEF Spec

\* The session store keeps the types of its variables.
THEOREM TypeCorrect == Spec => []TypeOK
<1>1. IInv => TypeOK
  BY DEF IInv
<1> QED
  BY <1>1, IInvCorrect, PTL

\* Every lock is held by exactly the actor in the code it protects, so no two
\* transactions of one session and no two cleaners are ever open together.
THEOREM LocksCorrect == Spec => []LocksAreHeld
<1>1. IInv => LocksAreHeld
  BY DEF IInv
<1> QED
  BY <1>1, IInvCorrect, PTL

-----------------------------------------------------------------------------
\* A snapshot is neither the missing file nor garbage.
LEMMA SnapshotIsReadable == \A c \in Snapshot : c # Absent /\ c # Corrupt
  BY DEF Snapshot, Absent, Corrupt

\* The instance counts as this module does.
LEMMA SameCardinality == \A S : Register!Cardinality(S) = Cardinality(S)
  BY DEF Cardinality, Register!Cardinality

\* What the cleaner decides to delete under the session's lock is expendable:
\* whatever was more recent than it when it was read still is.
LEMMA DeletionIsJustified ==
  ASSUME IInv, NEW a \in Actors, Decide(a), damaged = {},
         ses[a] \in Expired(scan.seen, scan.at)
  PROVE  file[ses[a]] \in Snapshot /\ Register!Expendable(ses[a])
<1> DEFINE s == ses[a]
           abs == [t \in Sessions |-> IF file[t] = Corrupt THEN Absent ELSE file[t]]
           rivals == {t \in Sessions : scan.seen[t] # Unread /\ Before(scan.seen, t, s)}
           survivors == {t \in Sessions : scan.seen[t] # Unread} \ Outlived(scan.seen, scan.at)
           ahead == {t \in survivors : Before(scan.seen, t, s)}
           present == {t \in Sessions : abs[t] # Absent}
           fresher == {t \in present : Register!MoreRecent(t, s)}
<1>1. s \in Sessions /\ scan.seen[s] # Unread
  BY DEF Decide, IInv, Binding, Expired, Outlived
<1>2. storeLock = a /\ storeLock # Nobody
  BY StoreAssumption DEF Decide, IInv, LocksAreHeld, Cleans
<1>3. Readable(s) /\ file[s].updated = scan.seen[s]
  BY <1>1, <1>2 DEF Decide, IInv, ScanIsSound
<1>4. file[s] \in Snapshot /\ abs[s] = file[s] /\ file[s].updated \in Nat
  BY <1>1, <1>3, ReadableType DEF IInv, Readable
<1>5. ASSUME NEW t \in Sessions, scan.seen[t] # Unread
      PROVE  /\ abs[t] = file[t] /\ abs[t] # Absent
             /\ file[t].updated \in Nat /\ scan.seen[t] \in Nat
             /\ file[t].updated >= scan.seen[t]
  BY <1>2, <1>5, ReadableType DEF IInv, ScanIsSound, Readable, TypeOK
<1>6. CASE s \in Outlived(scan.seen, scan.at)
  <2>1. scan.seen[s] < scan.at - Ttl
    BY <1>6 DEF Outlived
  <2>2. scan.at <= now /\ scan.at \in Nat /\ now \in Nat
    BY DEF IInv, PastOnly, TypeOK
  <2>3. file[s].updated < now - Ttl
    BY <1>3, <1>4, <2>1, <2>2, StoreAssumption
  <2> QED
    BY <1>1, <1>4, <2>3 DEF Register!Expendable
<1>7. CASE s \notin Outlived(scan.seen, scan.at)
  <2>1. Cardinality(ahead) >= RetentionCount
    BY <1>7 DEF Expired
  <2>2. ahead \subseteq fresher
    <3> SUFFICES ASSUME NEW t \in ahead PROVE t \in fresher
      OBVIOUS
    <3>1. t \in Sessions /\ scan.seen[t] # Unread /\ Before(scan.seen, t, s)
      OBVIOUS
    <3>2. /\ t \in present /\ abs[t] = file[t]
          /\ file[t].updated \in Nat /\ scan.seen[t] \in Nat
          /\ file[t].updated >= scan.seen[t]
      BY <1>5, <3>1
    <3>3. t \in Nat /\ s \in Nat
      BY <1>1, <3>1, StoreAssumption
    <3>4. file[t].updated > file[s].updated \/ (file[t].updated = file[s].updated /\ t > s)
      BY <1>3, <1>4, <3>1, <3>2, <3>3 DEF Before
    <3>5. Register!MoreRecent(t, s)
      BY <1>1, <1>4, <3>1, <3>2, <3>4 DEF Register!MoreRecent
    <3> QED
      BY <3>2, <3>5
  <2>3. IsFiniteSet(fresher)
    BY StoreAssumption, FS_Subset
  <2>4. Cardinality(ahead) <= Cardinality(fresher)
        /\ Cardinality(ahead) \in Nat /\ Cardinality(fresher) \in Nat
    BY <2>2, <2>3, FS_Subset, FS_CardinalityType
  <2>5. Cardinality(fresher) >= RetentionCount
    BY <2>1, <2>4, StoreAssumption
  <2> QED
    BY <1>4, <2>5, SameCardinality DEF Register!Expendable, Register!Present, Register!Absent, Absent
<1> QED
  BY <1>6, <1>7


\* The session store implements the register its callers take it for.
THEOREM StoreImplementsRegister == Spec => Implements
<1> DEFINE abs == [s \in Sessions |-> IF file[s] = Corrupt THEN Absent ELSE file[s]]
<1>1. Init => Register!Init
  BY SnapshotIsReadable DEF Init, Register!Init, Register!Absent, Absent, Corrupt
<1>2. IInv /\ [Next]_vars => [Register!Next]_Register!vars
  <2> SUFFICES ASSUME IInv, [Next]_vars PROVE [Register!Next]_Register!vars
    OBVIOUS
  <2> USE StoreAssumption
  <2>1. Register!vars = <<now, abs, damaged>> /\ Register!Absent = Absent
        /\ Register!Snapshot = Snapshot
    BY DEF Register!vars, Register!Absent, Absent, Register!Snapshot, Snapshot
  <2>2. UNCHANGED <<now, file, damaged>> => UNCHANGED Register!vars
    BY DEF Register!vars
  <2>3. CASE Tick
    BY <2>3 DEF Tick, Register!Next, Register!Tick
  <2>4. ASSUME NEW a \in Actors,
               \/ Load(a) \/ Raise(a) \/ Stamp(a) \/ Unlock(a)
               \/ StartCleanup(a) \/ EndScan(a) \/ EndCleanup(a) \/ Crash(a)
               \/ \E s \in Sessions : ScanOne(a, s) \/ Visit(a, s) \/ Begin(a, s)
                                      \/ ReadCorrupt(a, s)
        PROVE  UNCHANGED <<now, file, damaged>>
    BY <2>4 DEF Load, Raise, Stamp, Unlock, StartCleanup, EndScan, EndCleanup, Crash,
                ScanOne, Visit, Begin, ReadCorrupt
  <2>5. ASSUME NEW a \in Actors, Replace(a) PROVE Register!Next
    <3>0. PICK s \in Sessions : s = ses[a]
      BY <2>5 DEF Replace, IInv, Binding
    <3>1. s = ses[a] /\ work[a] \in Snapshot
      BY <2>5, <3>0 DEF Replace, IInv, Binding, TypeOK
    <3>2. abs' = [abs EXCEPT ![s] = work[a]] /\ abs'[s] = work[a]
      BY <2>5, <3>1, SnapshotIsReadable DEF Replace, IInv, TypeOK
    <3>3. s \notin damaged => abs[s] = file[s]
      BY <3>1 DEF IInv, GarbageIsDamage
    <3>4. work[a].updated <= now
      BY <2>5 DEF Replace, IInv, PastOnly
    <3>5. s \notin damaged =>
            IF abs[s] = Absent
            THEN work[a].turns = 1 /\ work[a].created = work[a].updated
            ELSE /\ work[a].turns = abs[s].turns + 1
                 /\ work[a].created = abs[s].created
                 /\ work[a].updated >= abs[s].updated
      BY <2>5, <3>1, <3>3 DEF Replace, IInv, WorkIsCurrent
    <3>6. Register!Commit(s)
      <4>1. abs' = [abs EXCEPT ![s] = abs'[s]] /\ abs'[s] \in Register!Snapshot
        BY <2>1, <3>1, <3>2
      <4>2. s \notin damaged =>
              /\ abs'[s].updated <= now
              /\ IF abs[s] = Register!Absent
                 THEN abs'[s].turns = 1 /\ abs'[s].created = abs'[s].updated
                 ELSE /\ abs'[s].turns = abs[s].turns + 1
                      /\ abs'[s].created = abs[s].created
                      /\ abs'[s].updated >= abs[s].updated
        BY <2>1, <3>2, <3>4, <3>5
      <4>3. UNCHANGED <<now, damaged>>
        BY <2>5 DEF Replace
      <4> QED
        BY <4>1, <4>2, <4>3 DEF Register!Commit
    <3> QED
      BY <3>1, <3>6 DEF Register!Next
  <2>6. ASSUME NEW a \in Actors, Decide(a) PROVE [Register!Next]_Register!vars
    <3>1. PICK s \in Sessions : s = ses[a]
      BY <2>6 DEF Decide, IInv, Binding
    <3>2. CASE s \notin Expired(scan.seen, scan.at) \/ abs[s] = Absent
      <4>1. abs' = abs
        BY <2>6, <3>1, <3>2 DEF Decide, IInv, TypeOK
      <4> QED
        BY <2>1, <2>6, <4>1 DEF Decide, Register!vars
    <3>3. CASE s \in Expired(scan.seen, scan.at) /\ abs[s] # Absent
      <4>1. abs' = [abs EXCEPT ![s] = Absent]
        BY <2>6, <3>1, <3>3 DEF Decide, IInv, TypeOK
      <4>2. damaged = {} => Register!Expendable(s)
        BY <2>6, <3>1, <3>3, DeletionIsJustified
           DEF Register!Expendable, Register!MoreRecent, Register!Present
      <4>3. Register!Expire(s)
        BY <2>1, <2>6, <3>3, <4>1, <4>2 DEF Decide, Register!Expire
      <4> QED
        BY <3>1, <4>3 DEF Register!Next
    <3> QED
      BY <3>2, <3>3
  <2>7. ASSUME NEW a \in Actors, NEW s \in Sessions, SetAside(a, s) PROVE Register!Next
    <3>1. s \in damaged
      BY <2>7 DEF SetAside, IInv, GarbageIsDamage
    <3>2. abs' = [abs EXCEPT ![s] = Absent]
      BY <2>7 DEF SetAside, IInv, TypeOK
    <3>3. Register!SetAside(s)
      BY <2>1, <2>7, <3>1, <3>2 DEF SetAside, Register!SetAside
    <3> QED
      BY <3>3 DEF Register!Next
  <2>8. ASSUME NEW s \in Sessions, Damage(s) PROVE Register!Next
    <3>1. abs' = [abs EXCEPT ![s] = Absent]
      BY <2>8 DEF Damage, IInv, TypeOK
    <3>2. Register!Damage(s)
      BY <2>1, <2>8, <3>1 DEF Damage, Register!Damage
    <3> QED
      BY <3>2 DEF Register!Next
  <2>9. CASE UNCHANGED vars
    BY <2>2, <2>9 DEF vars
  <2> QED
    BY <2>2, <2>3, <2>4, <2>5, <2>6, <2>7, <2>8, <2>9 DEF Next, Step
<1> QED
  BY <1>1, <1>2, IInvCorrect, PTL DEF Spec, Implements, Register!Spec

-----------------------------------------------------------------------------
(***************************************************************************)
(* QuotaBound: who pays for each session beyond the limit, and why a       *)
(* cleanup that ends leaves no more than the others pay for.               *)
(***************************************************************************)
\* An actor that holds a session and has not committed: a cleanup of its own will
\* follow, or the transaction is lost.
Committing(a) == pc[a] \in {"body", "failing", "replacing"}

\* One that has committed and owes the cleanup.
Owing == {a \in Actors : pc[a] \in {"unlocking", "cleaning", "scanning", "visiting",
                                    "rechecking"}}

Stored  == {s \in Sessions : Readable(s)}
Excused == {s \in Sessions : \E a \in Actors : Committing(a) /\ ses[a] = s}

\* Beyond the limit there is one session at most for each lost transaction and each
\* cleanup that is owed, not counting those about to be committed.
Debt ==
  /\ IsFiniteSet(Owing)
  /\ Cardinality(Stored \ Excused) <= RetentionCount + lost + Cardinality(Owing)

\* What a cleanup answers for: the sessions of which none was committed, or given up
\* by its transaction, since the cleanup began (those are D).
Left(D) == Stored \ (Excused \cup D)

\* Retention keeps t before s.
Ahead(t, s) ==
  file[t].updated > file[s].updated \/ (file[t].updated = file[s].updated /\ t > s)

Pending == scan.queue \cup IF pc[storeLock] = "rechecking" THEN {ses[storeLock]} ELSE {}

\* Somebody else pays for each session in D; of the others the scan knows the time
\* as soon as it has read it, and those that are not to be deleted are among the
\* RetentionCount most recent.
Answers(D) ==
  /\ Cardinality(D) <= lost + Cardinality(Owing \ {storeLock})
  /\ \A a \in Actors : pc[a] = "unlocking" => ses[a] \in D
  /\ pc[storeLock] \in {"scanning", "rechecking"} =>
       \A s \in Left(D) : s \in scan.todo \/ scan.seen[s] = file[s].updated
  /\ pc[storeLock] \in {"visiting", "rechecking"} =>
       \A s \in Left(D) \ Pending : Cardinality({t \in Left(D) : Ahead(t, s)}) < RetentionCount

CleanupIsThorough == storeLock # Nobody => \E D \in SUBSET Sessions : Answers(D)

\* Sets of sessions can be counted.
LEMMA SessionsCount ==
  ASSUME NEW A \in SUBSET Sessions
  PROVE  /\ IsFiniteSet(A) /\ Cardinality(A) \in Nat
         /\ \A B \in SUBSET A : Cardinality(B) \in Nat /\ Cardinality(B) <= Cardinality(A)
         /\ \A s : Cardinality(A \cup {s}) <= Cardinality(A) + 1
<1>1. IsFiniteSet(A) /\ Cardinality(A) \in Nat
  BY StoreAssumption, FS_Subset, FS_CardinalityType
<1>2. \A B \in SUBSET A : Cardinality(B) \in Nat /\ Cardinality(B) <= Cardinality(A)
  BY <1>1, FS_Subset, FS_CardinalityType
<1>3. ASSUME NEW s PROVE Cardinality(A \cup {s}) <= Cardinality(A) + 1
  <2>1. Cardinality(A \cup {s}) = IF s \in A THEN Cardinality(A) ELSE Cardinality(A) + 1
    BY <1>1, FS_AddElement
  <2> QED
    BY <1>1, <2>1
<1> QED
  BY <1>1, <1>2, <1>3

\* The two parts of a set of sessions count at least as much as the whole.
LEMMA PartsCount ==
  ASSUME NEW A \in SUBSET Sessions, NEW B \in SUBSET Sessions
  PROVE  Cardinality(A \cup B) \in Nat /\ Cardinality(A \cup B) <= Cardinality(A) + Cardinality(B)
<1>1. IsFiniteSet(A) /\ IsFiniteSet(B) /\ A \cup B \in SUBSET Sessions /\ A \cap B \in SUBSET Sessions
  BY SessionsCount
<1>2. Cardinality(A) \in Nat /\ Cardinality(B) \in Nat /\ Cardinality(A \cap B) \in Nat
      /\ Cardinality(A \cup B) \in Nat
  BY <1>1, SessionsCount
<1>3. Cardinality(A \cup B) = Cardinality(A) + Cardinality(B) - Cardinality(A \cap B)
  BY <1>1, FS_Union
<1> QED
  BY <1>2, <1>3

\* Retention orders what is stored: of some sessions one comes last.
LEMMA SomeLast ==
  ASSUME TypeOK, NEW U \in SUBSET Stored, U # {}
  PROVE  \E s \in U : \A t \in U : t = s \/ Ahead(t, s)
<1> DEFINE After(s) == {t \in U : Ahead(s, t)}
           Tails == {After(s) : s \in U}
<1>1. U \subseteq Sessions
  BY DEF Stored
<1>2. Tails \subseteq FiniteSubsetsOf(Sessions) /\ Tails # {}
  <2>1. \A s \in U : After(s) \in SUBSET Sessions /\ IsFiniteSet(After(s))
    BY <1>1, SessionsCount
  <2> QED
    BY <2>1 DEF FiniteSubsetsOf
<1>3. PICK T \in Tails : \A V \in Tails : ~(<<V, T>> \in StrictSubsetOrdering(Sessions))
  BY <1>2, FS_StrictSubsetOrderingWellFounded, WFMin
<1>4. PICK s \in U : T = After(s)
  OBVIOUS
<1>5. \A t \in U : file[t].updated \in Nat /\ t \in Nat
  BY <1>1, ReadableType, StoreAssumption DEF Stored
<1>6. ASSUME NEW t \in U, Ahead(s, t) PROVE FALSE
  <2>1. After(t) \subseteq After(s)
    BY <1>5, <1>6 DEF Ahead
  <2>2. t \in After(s) /\ t \notin After(t)
    BY <1>5, <1>6 DEF Ahead
  <2>3. After(t) \in SUBSET Sessions /\ After(s) \in SUBSET Sessions /\ After(t) # After(s)
    BY <1>1, <2>2
  <2> HIDE DEF After
  <2>4. <<After(t), After(s)>> \in StrictSubsetOrdering(Sessions)
    BY <2>1, <2>3 DEF StrictSubsetOrdering
  <2> QED
    BY <1>3, <1>4, <2>4
<1>7. \A t \in U : t = s \/ Ahead(t, s)
  BY <1>5, <1>6 DEF Ahead
<1> QED
  BY <1>7

\* Sessions of which each has fewer than RetentionCount others ahead are not more
\* than RetentionCount.
LEMMA AllOnTop ==
  ASSUME TypeOK, NEW U \in SUBSET Stored,
         \A s \in U : Cardinality({t \in U : Ahead(t, s)}) < RetentionCount
  PROVE  Cardinality(U) <= RetentionCount
<1>1. U \in SUBSET Sessions /\ IsFiniteSet(U) /\ Cardinality(U) \in Nat /\ RetentionCount \in Nat
  BY SessionsCount, StoreAssumption DEF Stored
<1>2. CASE U = {}
  BY <1>1, <1>2, FS_EmptySet
<1>3. CASE U # {}
  <2>1. PICK s \in U : \A t \in U : t = s \/ Ahead(t, s)
    BY <1>3, SomeLast
  <2> DEFINE A == {t \in U : Ahead(t, s)}
  <2>2. U \ {s} \subseteq A /\ A \in SUBSET Sessions
    BY <1>1, <2>1
  <2>3. Cardinality(U \ {s}) = Cardinality(U) - 1
    BY <1>1, FS_RemoveElement
  <2>4. Cardinality(A) < RetentionCount
    OBVIOUS
  <2> HIDE DEF A
  <2>5. Cardinality(U \ {s}) <= Cardinality(A) /\ Cardinality(A) \in Nat
    BY <2>2, SessionsCount
  <2> QED
    BY <1>1, <2>3, <2>4, <2>5
<1> QED
  BY <1>2, <1>3

\* The numbers of the debt.
LEMMA DebtNumbers ==
  ASSUME TypeOK, Debt
  PROVE  /\ RetentionCount \in Nat /\ lost \in Nat
         /\ IsFiniteSet(Owing) /\ Cardinality(Owing) \in Nat
         /\ Stored \ Excused \in SUBSET Sessions
         /\ Cardinality(Stored \ Excused) \in Nat
         /\ Cardinality(Owing \ {storeLock}) \in Nat
         /\ storeLock \in Owing => Cardinality(Owing \ {storeLock}) = Cardinality(Owing) - 1
<1>1. RetentionCount \in Nat /\ lost \in Nat /\ IsFiniteSet(Owing)
  BY StoreAssumption DEF TypeOK, Debt
<1>2. Stored \ Excused \in SUBSET Sessions
  BY DEF Stored
<1>3. Cardinality(Stored \ Excused) \in Nat
  BY <1>2, SessionsCount
<1>4. Cardinality(Owing) \in Nat
  BY <1>1, FS_CardinalityType
<1>5. /\ IsFiniteSet(Owing \ {storeLock})
      /\ storeLock \in Owing => Cardinality(Owing \ {storeLock}) = Cardinality(Owing) - 1
  BY <1>1, FS_RemoveElement
<1>6. Cardinality(Owing \ {storeLock}) \in Nat
  BY <1>5, FS_CardinalityType
<1> QED
  BY <1>1, <1>2, <1>3, <1>4, <1>5, <1>6

\* The cleaner owes its cleanup until it ends.
LEMMA CleanerOwes ==
  ASSUME TypeOK, LocksAreHeld, storeLock # Nobody
  PROVE  storeLock \in Owing /\ storeLock \in Actors /\ Cleans(storeLock)
BY DEF TypeOK, LocksAreHeld, Cleans, Owing

\* A step that is not the cleaner's: the sessions it brings back beyond the limit
\* (G) are paid for, and nothing changes for the rest.
LEMMA OthersPay ==
  ASSUME TypeOK, TypeOK', LocksAreHeld, Debt, CleanupIsThorough,
         storeLock' = storeLock, scan' = scan,
         storeLock # Nobody =>
           pc'[storeLock] = pc[storeLock] /\ ses'[storeLock] = ses[storeLock],
         NEW G \in SUBSET Sessions,
         Stored' \ Excused' \subseteq (Stored \ Excused) \cup G,
         \A s \in Stored' \ (Excused' \cup G) : file'[s] = file[s],
         \A a \in Actors : pc'[a] = "unlocking" =>
           (pc[a] = "unlocking" /\ ses'[a] = ses[a]) \/ ses'[a] \in G,
         IsFiniteSet(Owing'),
         lost' + Cardinality(Owing') >= lost + Cardinality(Owing) + Cardinality(G)
  PROVE  Debt' /\ CleanupIsThorough'
<1>1. /\ RetentionCount \in Nat /\ lost \in Nat /\ lost' \in Nat
      /\ Cardinality(Owing) \in Nat /\ Cardinality(Owing') \in Nat
      /\ Cardinality(G) \in Nat
      /\ Stored \ Excused \in SUBSET Sessions /\ Stored' \ Excused' \in SUBSET Sessions
  BY DebtNumbers, FS_CardinalityType, SessionsCount DEF TypeOK, Stored
<1>2. Debt'
  <2>1. /\ Cardinality((Stored \ Excused) \cup G) <= Cardinality(Stored \ Excused) + Cardinality(G)
        /\ Cardinality((Stored \ Excused) \cup G) \in Nat /\ Cardinality(Stored \ Excused) \in Nat
    BY <1>1, PartsCount, SessionsCount
  <2>2. (Stored \ Excused) \cup G \in SUBSET Sessions
    BY <1>1
  <2>3. Cardinality(Stored' \ Excused') <= Cardinality((Stored \ Excused) \cup G)
        /\ Cardinality(Stored' \ Excused') \in Nat
    BY <2>2, SessionsCount
  <2>4. Cardinality(Stored \ Excused) <= RetentionCount + lost + Cardinality(Owing)
    BY DEF Debt
  <2>5. Cardinality(Stored' \ Excused') <= RetentionCount + lost' + Cardinality(Owing')
    BY <1>1, <2>1, <2>3, <2>4
  <2> QED
    BY <2>5 DEF Debt
<1>3. ASSUME storeLock # Nobody PROVE CleanupIsThorough'
  <2>1. PICK D \in SUBSET Sessions : Answers(D)
    BY <1>3 DEF CleanupIsThorough
  <2> DEFINE E == D \cup G
  <2>2. E \in SUBSET Sessions /\ Cardinality(D) \in Nat /\ Cardinality(E) \in Nat
        /\ Cardinality(E) <= Cardinality(D) + Cardinality(G)
    BY PartsCount, SessionsCount
  <2>3. storeLock \in Owing /\ storeLock \in Actors
    BY <1>3, CleanerOwes
  <2>4. storeLock \in Owing'
    BY <1>3, <2>3 DEF Owing
  <2>5. Cardinality(Owing \ {storeLock}) = Cardinality(Owing) - 1
        /\ Cardinality(Owing' \ {storeLock}) = Cardinality(Owing') - 1
    BY <2>3, <2>4, FS_RemoveElement DEF Debt
  <2>6. Cardinality(D) <= lost + Cardinality(Owing \ {storeLock})
    BY <2>1 DEF Answers
  <2>7. Cardinality(E) <= lost' + Cardinality(Owing' \ {storeLock'})
    BY <1>1, <2>2, <2>5, <2>6
  <2>8. \A a \in Actors : pc'[a] = "unlocking" => ses'[a] \in E
    BY <2>1 DEF Answers
  <2> DEFINE L == Stored' \ (Excused' \cup E)
  <2>9. L \subseteq Left(D) /\ \A s \in L : file'[s] = file[s] /\ s \in Sessions
    BY DEF Left, Stored
  <2>10. pc'[storeLock] \in {"scanning", "rechecking"} =>
           \A s \in L : s \in scan.todo \/ scan.seen[s] = file'[s].updated
    BY <1>3, <2>1, <2>9 DEF Answers
  <2>11. ASSUME pc'[storeLock] \in {"visiting", "rechecking"}, NEW s \in L, s \notin Pending
         PROVE  Cardinality({t \in L : Ahead(t, s)'}) < RetentionCount
    <3> DEFINE B == {t \in Left(D) : Ahead(t, s)}
               C == {t \in L : Ahead(t, s)'}
    <3>1. Cardinality(B) < RetentionCount
      BY <1>3, <2>1, <2>9, <2>11 DEF Answers
    <3>2. B \in SUBSET Sessions /\ C \subseteq B
      BY <2>9 DEF Ahead, Left, Stored
    <3> HIDE DEF B, C
    <3>3. Cardinality(C) <= Cardinality(B) /\ Cardinality(C) \in Nat /\ Cardinality(B) \in Nat
      BY <3>2, SessionsCount
    <3>4. Cardinality(C) < RetentionCount
      BY <1>1, <3>1, <3>3
    <3> QED
      BY <3>4 DEF C
  <2>12. Pending' = Pending
    BY <1>3 DEF Pending
  <2>13. L = Left(E)'
    BY DEF Left
  <2> HIDE DEF E, L
  <2>14. Answers(E)'
    BY <1>3, <2>7, <2>8, <2>10, <2>11, <2>12, <2>13 DEF Answers, Left
  <2> QED
    BY <2>2, <2>14 DEF CleanupIsThorough
<1> QED
  BY <1>2, <1>3 DEF CleanupIsThorough

\* The part of the actors the cleaner is not.
LEMMA NotTheCleaner ==
  ASSUME TypeOK, LocksAreHeld, NEW a \in Actors, ~Cleans(a)
  PROVE  storeLock # a
BY DEF LocksAreHeld

\* An actor that takes, holds or gives up a session keeps the debt: a transaction that
\* raises is counted as lost, one that commits owes a cleanup.
LEMMA TransactionPays ==
  ASSUME IInv, TypeOK', Debt, CleanupIsThorough, NEW a \in Actors,
         Load(a) \/ Raise(a) \/ Stamp(a) \/ Replace(a) \/ Unlock(a)
  PROVE  Debt' /\ CleanupIsThorough'
<1>0. /\ TypeOK /\ LocksAreHeld /\ Binding /\ IsFiniteSet(Owing)
      /\ storeLock # a /\ {} \in SUBSET Sessions
      /\ lost \in Nat /\ Cardinality(Owing) \in Nat /\ Cardinality({}) = 0
  BY NotTheCleaner, DebtNumbers, FS_EmptySet
     DEF IInv, Cleans, Load, Raise, Stamp, Replace, Unlock
<1>1. CASE Load(a)
  <2>1. Owing' = Owing
    BY <1>0, <1>1 DEF Load, Goto, Owing, TypeOK
  <2>2. Stored' = Stored /\ file' = file
    BY <1>1 DEF Load, Stored, Readable
  <2>3. Excused \subseteq Excused'
    BY <1>0, <1>1 DEF Load, Goto, Excused, Committing, TypeOK
  <2>4. \A b \in Actors : pc'[b] = "unlocking" => pc[b] = "unlocking" /\ ses'[b] = ses[b]
    BY <1>0, <1>1 DEF Load, Goto, TypeOK
  <2>5. /\ storeLock' = storeLock /\ scan' = scan /\ lost' = lost
        /\ storeLock # Nobody => pc'[storeLock] = pc[storeLock] /\ ses'[storeLock] = ses[storeLock]
    BY <1>0, <1>1 DEF Load, Goto, TypeOK
  <2> QED
    BY <1>0, <2>1, <2>2, <2>3, <2>4, <2>5, OthersPay
<1>2. CASE Raise(a)
  <2>0. ses[a] \in Sessions
    BY <1>0, <1>2 DEF Raise, Binding
  <2> DEFINE G == {ses[a]}
  <2>1. Owing' = Owing
    BY <1>0, <1>2 DEF Raise, GoIdle, Owing, TypeOK
  <2>2. Stored' = Stored /\ file' = file
    BY <1>2 DEF Raise, Stored, Readable
  <2>3. Excused \subseteq Excused' \cup G
    BY <1>0, <1>2 DEF Raise, GoIdle, Excused, Committing, TypeOK
  <2>4. \A b \in Actors : pc'[b] = "unlocking" => pc[b] = "unlocking" /\ ses'[b] = ses[b]
    BY <1>0, <1>2 DEF Raise, GoIdle, TypeOK
  <2>5. /\ storeLock' = storeLock /\ scan' = scan /\ lost' = lost + 1
        /\ storeLock # Nobody => pc'[storeLock] = pc[storeLock] /\ ses'[storeLock] = ses[storeLock]
    BY <1>0, <1>2 DEF Raise, GoIdle, TypeOK
  <2>6. G \in SUBSET Sessions /\ Cardinality(G) = 1
    BY <2>0, FS_Singleton
  <2> HIDE DEF G
  <2> QED
    BY <1>0, <2>1, <2>2, <2>3, <2>4, <2>5, <2>6, OthersPay
<1>3. CASE Stamp(a)
  <2>1. Owing' = Owing
    BY <1>0, <1>3 DEF Stamp, Goto, Owing, TypeOK
  <2>2. Stored' = Stored /\ file' = file
    BY <1>3 DEF Stamp, Stored, Readable
  <2>3. Excused \subseteq Excused'
    BY <1>0, <1>3 DEF Stamp, Goto, Excused, Committing, TypeOK
  <2>4. \A b \in Actors : pc'[b] = "unlocking" => pc[b] = "unlocking" /\ ses'[b] = ses[b]
    BY <1>0, <1>3 DEF Stamp, Goto, TypeOK
  <2>5. /\ storeLock' = storeLock /\ scan' = scan /\ lost' = lost
        /\ storeLock # Nobody => pc'[storeLock] = pc[storeLock] /\ ses'[storeLock] = ses[storeLock]
    BY <1>0, <1>3 DEF Stamp, Goto, TypeOK
  <2> QED
    BY <1>0, <2>1, <2>2, <2>3, <2>4, <2>5, OthersPay
<1>4. CASE Replace(a)
  <2>0. ses[a] \in Sessions
    BY <1>0, <1>4 DEF Replace, Binding
  <2> DEFINE G == {ses[a]}
  <2>1. Owing' = Owing \cup {a} /\ a \notin Owing
    BY <1>0, <1>4 DEF Replace, Goto, Owing, TypeOK
  <2>2. \A s \in Sessions \ G : file'[s] = file[s]
    BY <1>0, <1>4 DEF Replace, TypeOK
  <2>3. Stored' \subseteq Stored \cup G
    BY <2>2 DEF Stored, Readable
  <2>4. Excused \subseteq Excused' \cup G
    BY <1>0, <1>4 DEF Replace, Goto, Excused, Committing, TypeOK
  <2>5. \A b \in Actors : pc'[b] = "unlocking" =>
          (pc[b] = "unlocking" /\ ses'[b] = ses[b]) \/ ses'[b] \in G
    BY <1>0, <1>4 DEF Replace, Goto, TypeOK
  <2>6. /\ storeLock' = storeLock /\ scan' = scan /\ lost' = lost
        /\ storeLock # Nobody => pc'[storeLock] = pc[storeLock] /\ ses'[storeLock] = ses[storeLock]
    BY <1>0, <1>4 DEF Replace, Goto, TypeOK
  <2>7. G \in SUBSET Sessions /\ Cardinality(G) = 1
    BY <2>0, FS_Singleton
  <2>8. IsFiniteSet(Owing') /\ Cardinality(Owing') = Cardinality(Owing) + 1
    BY <1>0, <2>1, FS_AddElement
  <2>9. \A s \in Stored' : s \in Sessions
    BY DEF Stored
  <2> HIDE DEF G
  <2> QED
    BY <1>0, <2>2, <2>3, <2>4, <2>5, <2>6, <2>7, <2>8, <2>9, OthersPay
<1>5. CASE Unlock(a)
  <2>1. Owing' = Owing
    BY <1>0, <1>5 DEF Unlock, Goto, Owing, TypeOK
  <2>2. Stored' = Stored /\ file' = file
    BY <1>5 DEF Unlock, Stored, Readable
  <2>3. Excused \subseteq Excused'
    BY <1>0, <1>5 DEF Unlock, Goto, Excused, Committing, TypeOK
  <2>4. \A b \in Actors : pc'[b] = "unlocking" => pc[b] = "unlocking" /\ ses'[b] = ses[b]
    BY <1>0, <1>5 DEF Unlock, Goto, TypeOK
  <2>5. /\ storeLock' = storeLock /\ scan' = scan /\ lost' = lost
        /\ storeLock # Nobody => pc'[storeLock] = pc[storeLock] /\ ses'[storeLock] = ses[storeLock]
    BY <1>0, <1>5 DEF Unlock, Goto, TypeOK
  <2> QED
    BY <1>0, <2>1, <2>2, <2>3, <2>4, <2>5, OthersPay
<1> QED
  BY <1>1, <1>2, <1>3, <1>4, <1>5

\* Nobody but an actor's own step or its crash moves the rest: the clock, a caller that
\* begins, a reader, and damage keep the debt.
LEMMA BystandersPay ==
  ASSUME IInv, TypeOK', Debt, CleanupIsThorough,
         \/ Tick
         \/ \E a \in Actors, s \in Sessions : Begin(a, s) \/ ReadCorrupt(a, s)
         \/ \E s \in Sessions : Damage(s)
         \/ UNCHANGED vars
  PROVE  Debt' /\ CleanupIsThorough'
<1>0. /\ TypeOK /\ LocksAreHeld /\ Binding /\ IsFiniteSet(Owing) /\ {} \in SUBSET Sessions
      /\ lost \in Nat /\ Cardinality(Owing) \in Nat /\ Cardinality({}) = 0
  BY DebtNumbers, FS_EmptySet DEF IInv
<1>1. CASE Tick \/ UNCHANGED vars
  <2>1. Owing' = Owing /\ Stored' = Stored /\ Excused' = Excused
    BY <1>1 DEF Tick, vars, Owing, Stored, Readable, Excused, Committing
  <2>2. UNCHANGED <<file, storeLock, pc, ses, scan, lost>>
    BY <1>1 DEF Tick, vars
  <2> QED
    BY <1>0, <2>1, <2>2, OthersPay
<1>2. ASSUME NEW a \in Actors, NEW s \in Sessions, Begin(a, s) \/ ReadCorrupt(a, s)
      PROVE  Debt' /\ CleanupIsThorough'
  <2>0. pc[a] = "idle" /\ storeLock # a
    BY <1>0, <1>2, NotTheCleaner DEF Begin, ReadCorrupt, Cleans
  <2>1. Owing' = Owing
    BY <1>0, <1>2 DEF Begin, ReadCorrupt, Goto, Owing, TypeOK
  <2>2. Stored' = Stored /\ file' = file
    BY <1>2 DEF Begin, ReadCorrupt, Stored, Readable
  <2>3. Excused \subseteq Excused'
    BY <1>0, <1>2 DEF Begin, ReadCorrupt, Goto, Excused, Committing, TypeOK
  <2>4. \A b \in Actors : pc'[b] = "unlocking" => pc[b] = "unlocking" /\ ses'[b] = ses[b]
    BY <1>0, <1>2 DEF Begin, ReadCorrupt, Goto, TypeOK
  <2>5. /\ storeLock' = storeLock /\ scan' = scan /\ lost' = lost
        /\ storeLock # Nobody => pc'[storeLock] = pc[storeLock] /\ ses'[storeLock] = ses[storeLock]
    BY <1>0, <1>2, <2>0 DEF Begin, ReadCorrupt, Goto, TypeOK
  <2> QED
    BY <1>0, <2>1, <2>2, <2>3, <2>4, <2>5, OthersPay
<1>3. ASSUME NEW s \in Sessions, Damage(s) PROVE Debt' /\ CleanupIsThorough'
  <2>1. Owing' = Owing /\ Excused' = Excused
    BY <1>3 DEF Damage, Owing, Excused, Committing
  <2>2. \A t \in Sessions \ {s} : file'[t] = file[t]
    BY <1>0, <1>3 DEF Damage, TypeOK
  <2>3. file'[s] = Corrupt
    BY <1>0, <1>3 DEF Damage, TypeOK
  <2>4. Stored' \subseteq Stored \ {s} /\ Stored \subseteq Sessions
    BY <2>2, <2>3 DEF Stored, Readable
  <2>5. UNCHANGED <<storeLock, pc, ses, scan, lost>>
    BY <1>3 DEF Damage
  <2> QED
    BY <1>0, <2>1, <2>2, <2>4, <2>5, OthersPay
<1> QED
  BY <1>1, <1>2, <1>3

\* Setting garbage aside removes a file; if a transaction fails with it, it is lost.
LEMMA SetAsidePays ==
  ASSUME IInv, TypeOK', Debt, CleanupIsThorough,
         NEW a \in Actors, NEW s \in Sessions, SetAside(a, s)
  PROVE  Debt' /\ CleanupIsThorough'
<1>0. /\ TypeOK /\ LocksAreHeld /\ Binding /\ IsFiniteSet(Owing) /\ {} \in SUBSET Sessions
      /\ lost \in Nat /\ Cardinality(Owing) \in Nat /\ Cardinality({}) = 0
  BY DebtNumbers, FS_EmptySet DEF IInv
<1>1. pc[a] \in {"failing", "reading", "scanning", "rechecking"}
      /\ (pc[a] = "failing" => ses[a] = s)
  BY <1>0 DEF SetAside, Binding
<1>2. \A b \in Actors : (pc'[b] = pc[b] /\ ses'[b] = ses[b]) \/
                        (b = a /\ pc[b] \in {"failing", "reading"} /\ pc'[b] = "idle")
  BY <1>0, <1>1 DEF SetAside, GoIdle, TypeOK
<1>3. Owing' = Owing
  BY <1>2 DEF Owing
<1>4. \A t \in Sessions \ {s} : file'[t] = file[t]
  BY <1>0 DEF SetAside, TypeOK
<1>5. file'[s] = Absent
  BY <1>0 DEF SetAside, TypeOK
<1>6. Stored' \subseteq Stored \ {s} /\ Stored \subseteq Sessions
  BY <1>4, <1>5 DEF Stored, Readable
<1>7. Excused \subseteq Excused' \cup {s}
  BY <1>1, <1>2 DEF Excused, Committing
<1>8. \A b \in Actors : pc'[b] = "unlocking" => pc[b] = "unlocking" /\ ses'[b] = ses[b]
  BY <1>2
<1>9. storeLock' = storeLock /\ scan' = scan /\ lost' >= lost /\ lost' \in Nat
  BY <1>0 DEF SetAside
<1>10. storeLock # Nobody => pc'[storeLock] = pc[storeLock] /\ ses'[storeLock] = ses[storeLock]
  BY <1>0, <1>2, CleanerOwes DEF Cleans
<1> QED
  BY <1>0, <1>3, <1>4, <1>6, <1>7, <1>8, <1>9, <1>10, OthersPay

\* A crash is counted as lost: it pays for what the actor was about to commit, or takes
\* the place of the cleanup it owed.
LEMMA CrashPays ==
  ASSUME IInv, TypeOK', Debt, CleanupIsThorough, NEW a \in Actors, Crash(a)
  PROVE  Debt' /\ CleanupIsThorough'
<1>0. /\ TypeOK /\ LocksAreHeld /\ Binding /\ IsFiniteSet(Owing) /\ {} \in SUBSET Sessions
      /\ lost \in Nat /\ Cardinality(Owing) \in Nat /\ Cardinality({}) = 0
      /\ lost' = lost + 1
  BY DebtNumbers, FS_EmptySet DEF IInv, Crash
<1>1. \A b \in Actors \ {a} : pc'[b] = pc[b] /\ ses'[b] = ses[b]
  BY <1>0 DEF Crash, GoIdle, TypeOK
<1>2. pc'[a] = "idle"
  BY <1>0 DEF Crash, GoIdle, TypeOK
<1>3. Stored' = Stored /\ file' = file
  BY DEF Crash, Stored, Readable
<1>4. \A b \in Actors : pc'[b] = "unlocking" => pc[b] = "unlocking" /\ ses'[b] = ses[b]
  BY <1>1, <1>2
<1>5. Owing' = Owing \ {a}
  BY <1>1, <1>2 DEF Owing
<1>6. IsFiniteSet(Owing') /\ Cardinality(Owing') \in Nat
      /\ Cardinality(Owing') = IF a \in Owing THEN Cardinality(Owing) - 1 ELSE Cardinality(Owing)
  BY <1>0, <1>5, FS_RemoveElement, FS_CardinalityType
<1>7. Committing(a) => ses[a] \in Sessions /\ a \notin Owing
  BY <1>0 DEF Committing, Binding, Owing
<1>8. CASE storeLock = a
  <2>1. ~Committing(a)
    BY <1>0, <1>8 DEF LocksAreHeld, Cleans, Committing
  <2>2. Excused \subseteq Excused'
    BY <1>1, <2>1 DEF Excused, Committing
  <2>3. Stored \ Excused \in SUBSET Sessions /\ Stored' \ Excused' \subseteq Stored \ Excused
    BY <1>3, <2>2 DEF Stored
  <2>4. Cardinality(Stored' \ Excused') <= Cardinality(Stored \ Excused)
        /\ Cardinality(Stored' \ Excused') \in Nat /\ Cardinality(Stored \ Excused) \in Nat
    BY <2>3, SessionsCount
  <2>5. RetentionCount \in Nat
        /\ Cardinality(Stored \ Excused) <= RetentionCount + lost + Cardinality(Owing)
    BY DebtNumbers, <1>0 DEF Debt
  <2>6. Cardinality(Stored' \ Excused') <= RetentionCount + lost' + Cardinality(Owing')
    BY <1>0, <1>6, <2>4, <2>5
  <2>7. storeLock' = Nobody
    BY <1>8 DEF Crash
  <2> QED
    BY <1>6, <2>6, <2>7 DEF Debt, CleanupIsThorough
<1>9. CASE storeLock # a
  <2>1. storeLock' = storeLock /\ scan' = scan
        /\ (storeLock # Nobody => pc'[storeLock] = pc[storeLock] /\ ses'[storeLock] = ses[storeLock])
    BY <1>0, <1>1, <1>9 DEF Crash, TypeOK
  <2>2. CASE Committing(a)
    <3> DEFINE G == {ses[a]}
    <3>1. G \in SUBSET Sessions /\ Cardinality(G) = 1
      BY <1>7, <2>2, FS_Singleton
    <3>2. Excused \subseteq Excused' \cup G
      BY <1>1 DEF Excused, Committing
    <3>3. Cardinality(Owing') = Cardinality(Owing)
      BY <1>6, <1>7, <2>2
    <3> HIDE DEF G
    <3> QED
      BY <1>0, <1>3, <1>4, <1>6, <2>1, <3>1, <3>2, <3>3, OthersPay
  <2>3. CASE ~Committing(a)
    <3>1. Excused \subseteq Excused'
      BY <1>1, <2>3 DEF Excused, Committing
    <3> QED
      BY <1>0, <1>3, <1>4, <1>6, <2>1, <3>1, OthersPay
  <2> QED
    BY <2>2, <2>3
<1> QED
  BY <1>8, <1>9

\* What a complete scan does not expire is among the most recent of what it answers for.
LEMMA KeptIsRecent ==
  ASSUME TypeOK, NEW D \in SUBSET Sessions,
         \A t \in Left(D) : scan.seen[t] = file[t].updated,
         NEW s \in Left(D), s \notin Expired(scan.seen, scan.at)
  PROVE  Cardinality({t \in Left(D) : Ahead(t, s)}) < RetentionCount
<1> DEFINE survivors == {t \in Sessions : scan.seen[t] # Unread} \ Outlived(scan.seen, scan.at)
           B == {t \in survivors : Before(scan.seen, t, s)}
           C == {t \in Left(D) : Ahead(t, s)}
<1>1. \A t \in Left(D) : t \in Sessions /\ file[t].updated \in Nat /\ scan.seen[t] = file[t].updated
  BY ReadableType DEF Left, Stored
<1>2. \A t \in Left(D) : scan.seen[t] \in Nat /\ scan.seen[t] # Unread
  BY <1>1 DEF Unread
<1>3. scan.at \in Nat /\ Ttl \in Nat /\ RetentionCount \in Nat
  BY StoreAssumption DEF TypeOK
<1>4. s \notin Outlived(scan.seen, scan.at)
  BY DEF Expired
<1>5. s \in survivors
  BY <1>1, <1>2, <1>4
<1>6. ~(Cardinality(B) >= RetentionCount)
  BY <1>5 DEF Expired
<1>7. ~(scan.seen[s] < scan.at - Ttl)
  BY <1>1, <1>2, <1>4 DEF Outlived
<1>8. C \subseteq B
  <2> SUFFICES ASSUME NEW t \in Left(D), Ahead(t, s) PROVE t \in survivors /\ Before(scan.seen, t, s)
    OBVIOUS
  <2>1. scan.seen[t] = file[t].updated /\ scan.seen[s] = file[s].updated
    BY <1>1
  <2>2. Before(scan.seen, t, s)
    BY <2>1 DEF Ahead, Before
  <2>3. scan.seen[t] >= scan.seen[s] /\ scan.seen[t] \in Nat /\ scan.seen[s] \in Nat
    BY <1>1, <1>2, <2>1 DEF Ahead
  <2>4. t \notin Outlived(scan.seen, scan.at)
    BY <1>3, <1>7, <2>3 DEF Outlived
  <2> QED
    BY <1>1, <1>2, <2>2, <2>4
<1>9. B \in SUBSET Sessions
  OBVIOUS
<1> HIDE DEF B, C
<1>10. Cardinality(C) <= Cardinality(B) /\ Cardinality(C) \in Nat /\ Cardinality(B) \in Nat
  BY <1>8, <1>9, SessionsCount
<1>11. Cardinality(C) < RetentionCount
  BY <1>3, <1>6, <1>10
<1> QED
  BY <1>11 DEF C

\* What is committed and not yet unlocked when a cleanup begins, its committers pay for.
LEMMA CommittersPay ==
  ASSUME TypeOK, LocksAreHeld, Binding, IsFiniteSet(Owing), NEW a \in Actors, pc[a] = "cleaning"
  PROVE  LET D == {s \in Sessions : \E b \in Actors : pc[b] = "unlocking" /\ ses[b] = s}
         IN  Cardinality(D) <= Cardinality(Owing \ {a})
<1> DEFINE D == {s \in Sessions : \E b \in Actors : pc[b] = "unlocking" /\ ses[b] = s}
           f == [s \in D |-> lock[s]]
<1>1. \A s \in D : lock[s] \in Actors /\ pc[lock[s]] = "unlocking" /\ ses[lock[s]] = s
  BY DEF LocksAreHeld, Holds
<1>2. \A s \in D : lock[s] \in Owing \ {a}
  BY <1>1 DEF Owing
<1>3. f \in [D -> Owing \ {a}]
  BY <1>2
<1>4. \A s, t \in D : f[s] = f[t] => s = t
  BY <1>1
<1>5. f \in Injection(D, Owing \ {a})
  BY <1>3, <1>4 DEF Injection, IsInjective
<1>6. IsFiniteSet(Owing \ {a})
  BY FS_RemoveElement
<1> HIDE DEF D, f
<1>7. Cardinality(D) <= Cardinality(Owing \ {a})
  BY <1>5, <1>6, FS_Injection
<1> QED
  BY <1>7 DEF D

\* A cleanup begins by listing all it will answer for.
LEMMA StartAnswers ==
  ASSUME IInv, TypeOK', Debt, NEW a \in Actors, StartCleanup(a)
  PROVE  Debt' /\ CleanupIsThorough'
<1>1. PICK D \in SUBSET Sessions :
        D = {s \in Sessions : \E b \in Actors : pc[b] = "unlocking" /\ ses[b] = s}
  OBVIOUS
<1>0. TypeOK /\ LocksAreHeld /\ Binding /\ IsFiniteSet(Owing) /\ lost \in Nat
  BY DebtNumbers DEF IInv
<1>2. UNCHANGED <<file, ses, lost>> /\ storeLock' = a /\ pc[a] = "cleaning"
      /\ pc' = [pc EXCEPT ![a] = "scanning"]
      /\ scan'.todo = {s \in Sessions : file[s] # Absent}
  BY DEF StartCleanup, Goto, StartScan
<1>3. Owing' = Owing /\ a \in Owing
  BY <1>0, <1>2 DEF Owing, TypeOK
<1>4. Stored' = Stored /\ Excused' = Excused
  BY <1>0, <1>2 DEF Stored, Readable, Excused, Committing, TypeOK
<1>5. Debt'
  BY <1>2, <1>3, <1>4 DEF Debt
<1>6. Cardinality(D) <= Cardinality(Owing \ {a})
  BY <1>0, <1>2, <1>1, CommittersPay
<1>7. Cardinality(Owing \ {a}) \in Nat /\ Cardinality(D) \in Nat
  BY <1>0, FS_RemoveElement, FS_CardinalityType, SessionsCount
<1>8. \A b \in Actors : pc'[b] = "unlocking" => ses'[b] \in D
  BY <1>0, <1>2, <1>1 DEF TypeOK, Binding
<1>9. \A s \in Left(D)' : s \in scan'.todo
  BY <1>2, <1>4 DEF Left, Stored, Readable
<1>10. pc'[storeLock'] = "scanning"
  BY <1>0, <1>2 DEF TypeOK
<1>11. Cardinality(D) <= lost' + Cardinality(Owing' \ {storeLock'})
  BY <1>0, <1>2, <1>3, <1>6, <1>7
<1>12. Answers(D)'
  BY <1>8, <1>9, <1>10, <1>11 DEF Answers
<1> QED
  BY <1>5, <1>1, <1>12 DEF CleanupIsThorough

\* Reading one file, its time becomes known.
LEMMA ScanAnswers ==
  ASSUME IInv, TypeOK', Debt, CleanupIsThorough,
         NEW a \in Actors, NEW r \in Sessions, ScanOne(a, r)
  PROVE  Debt' /\ CleanupIsThorough'
<1>0. TypeOK /\ LocksAreHeld
  BY DEF IInv
<1>1. UNCHANGED <<file, storeLock, pc, ses, lost>> /\ storeLock = a /\ storeLock # Nobody
  BY <1>0, StoreAssumption DEF ScanOne, LocksAreHeld, Cleans
<1>2. Owing' = Owing /\ Stored' = Stored /\ Excused' = Excused
  BY <1>1 DEF Owing, Stored, Readable, Excused, Committing
<1>3. Debt'
  BY <1>1, <1>2 DEF Debt
<1>4. PICK D \in SUBSET Sessions : Answers(D)
  BY <1>1 DEF CleanupIsThorough
<1>5. Left(D)' = Left(D)
  BY <1>2 DEF Left
<1>6. \A s \in Left(D) : s \in Sessions /\ Readable(s)
  BY DEF Left, Stored
<1>7. /\ scan'.todo = scan.todo \ {r} /\ scan'.queue = scan.queue
      /\ Readable(r) => scan'.seen[r] = file[r].updated
      /\ \A s \in Sessions \ {r} : scan'.seen[s] = scan.seen[s]
  BY <1>0 DEF ScanOne, TypeOK
<1>8. \A s \in Left(D) : s \in scan'.todo \/ scan'.seen[s] = file[s].updated
  <2>1. \A s \in Left(D) : s \in scan.todo \/ scan.seen[s] = file[s].updated
    BY <1>1, <1>4 DEF Answers, ScanOne
  <2> QED
    BY <1>6, <1>7, <2>1
<1>9. Pending' = Pending /\ \A t, s : Ahead(t, s)' <=> Ahead(t, s)
  BY <1>1, <1>7 DEF Pending, Ahead
<1>10. Answers(D)'
  BY <1>1, <1>2, <1>4, <1>5, <1>8, <1>9 DEF Answers
<1> QED
  BY <1>3, <1>10 DEF CleanupIsThorough

\* The first scan queues what has expired by it.
LEMMA QueueAnswers ==
  ASSUME IInv, TypeOK', Debt, CleanupIsThorough, NEW a \in Actors, EndScan(a)
  PROVE  Debt' /\ CleanupIsThorough'
<1>0. TypeOK /\ LocksAreHeld
  BY DEF IInv
<1>1. UNCHANGED <<file, storeLock, ses, lost>> /\ storeLock = a /\ storeLock # Nobody
      /\ pc[a] = "scanning" /\ scan.todo = {}
      /\ pc' = [pc EXCEPT ![a] = "visiting"]
  BY <1>0, StoreAssumption DEF EndScan, LocksAreHeld, Cleans, Goto
<1>2. Owing' = Owing /\ Stored' = Stored /\ Excused' = Excused
  BY <1>0, <1>1 DEF Owing, Stored, Readable, Excused, Committing, TypeOK
<1>3. Debt'
  BY <1>1, <1>2 DEF Debt
<1>4. PICK D \in SUBSET Sessions : Answers(D)
  BY <1>1 DEF CleanupIsThorough
<1>5. Left(D)' = Left(D)
  BY <1>2 DEF Left
<1>6. \A s \in Left(D) : scan.seen[s] = file[s].updated
  BY <1>1, <1>4 DEF Answers
<1>7. scan'.queue = Expired(scan.seen, scan.at)
  BY DEF EndScan, NoScan
<1>8. pc'[storeLock] = "visiting"
  BY <1>0, <1>1 DEF TypeOK
<1>9. Pending' = Expired(scan.seen, scan.at)
  BY <1>1, <1>7, <1>8 DEF Pending
<1>10. ASSUME NEW s \in Left(D), s \notin Pending'
       PROVE  Cardinality({t \in Left(D) : Ahead(t, s)}) < RetentionCount
  BY <1>0, <1>6, <1>9, <1>10, KeptIsRecent
<1>11. \A s \in Left(D)' \ Pending' : Cardinality({t \in Left(D) : Ahead(t, s)}') < RetentionCount
  BY <1>1, <1>5, <1>10 DEF Ahead
<1>12. \A b \in Actors : pc'[b] = "unlocking" => ses'[b] \in D
  BY <1>0, <1>1, <1>4 DEF Answers, TypeOK
<1>13. Cardinality(D) <= lost' + Cardinality(Owing' \ {storeLock'})
  BY <1>1, <1>2, <1>4 DEF Answers
<1>14. Answers(D)'
  BY <1>1, <1>5, <1>8, <1>11, <1>12, <1>13 DEF Answers
<1> QED
  BY <1>3, <1>14 DEF CleanupIsThorough

\* A session whose lock is taken is somebody else's to pay for; one whose lock is free
\* is scanned for again.
LEMMA VisitAnswers ==
  ASSUME IInv, TypeOK', Debt, CleanupIsThorough,
         NEW a \in Actors, NEW r \in Sessions, Visit(a, r)
  PROVE  Debt' /\ CleanupIsThorough'
<1>0. TypeOK /\ LocksAreHeld
  BY DEF IInv
<1>1. UNCHANGED <<file, storeLock, lost>> /\ storeLock = a /\ storeLock # Nobody
      /\ pc[a] = "visiting" /\ r \in scan.queue
  BY <1>0, StoreAssumption DEF Visit, LocksAreHeld, Cleans
<1>2. \A b \in Actors \ {a} : pc'[b] = pc[b] /\ ses'[b] = ses[b]
  BY <1>0 DEF Visit, Goto, TypeOK
<1>3. pc'[a] \in {"visiting", "rechecking"}
  BY <1>0, <1>1 DEF Visit, Goto, TypeOK
<1>4. Owing' = Owing
  BY <1>1, <1>2, <1>3 DEF Owing
<1>5. Excused' = Excused
  BY <1>1, <1>2, <1>3 DEF Excused, Committing
<1>6. Stored' = Stored
  BY <1>1 DEF Stored, Readable
<1>7. Debt'
  BY <1>1, <1>4, <1>5, <1>6 DEF Debt
<1>8. PICK D \in SUBSET Sessions : Answers(D)
  BY <1>1 DEF CleanupIsThorough
<1>9. Left(D)' = Left(D)
  BY <1>5, <1>6 DEF Left
<1>10. Cardinality(D) <= lost' + Cardinality(Owing' \ {storeLock'})
  BY <1>1, <1>4, <1>8 DEF Answers
<1>11. \A b \in Actors : pc'[b] = "unlocking" => ses'[b] \in D
  BY <1>2, <1>3, <1>8 DEF Answers
<1>12. \A s \in Left(D) \ Pending : Cardinality({t \in Left(D) : Ahead(t, s)}) < RetentionCount
  BY <1>1, <1>8 DEF Answers
<1>13. Pending = scan.queue
  BY <1>1 DEF Pending
<1>14. CASE lock[r] = Nobody
  <2>1. pc'[a] = "rechecking" /\ ses'[a] = r
    BY <1>0, <1>14 DEF Visit, Goto, TypeOK
  <2>2. /\ scan'.queue = scan.queue \ {r}
        /\ scan'.todo = {s \in Sessions : file[s] # Absent}
    BY <1>14 DEF Visit, StartScan
  <2>3. Pending' = Pending
    BY <1>1, <1>13, <2>1, <2>2 DEF Pending
  <2>4. \A s \in Left(D) : s \in scan'.todo
    BY <2>2 DEF Left, Stored, Readable
  <2>5. \A s \in Left(D)' \ Pending' : Cardinality({t \in Left(D) : Ahead(t, s)}') < RetentionCount
    BY <1>1, <1>9, <1>12, <2>3 DEF Ahead
  <2>6. Answers(D)'
    BY <1>1, <1>9, <1>10, <1>11, <2>4, <2>5 DEF Answers
  <2> QED
    BY <1>7, <2>6 DEF CleanupIsThorough
<1>15. CASE lock[r] # Nobody
  <2>1. UNCHANGED <<pc, ses>> /\ scan'.queue = scan.queue \ {r}
    BY <1>0, <1>15 DEF Visit, TypeOK
  <2>2. lock[r] \in Actors /\ Holds(lock[r], r) /\ lock[r] # a
    BY <1>0, <1>1, <1>15 DEF LocksAreHeld, Holds, TypeOK
  <2>3. pc[lock[r]] # "rechecking"
    BY <1>0, <1>1, <2>2 DEF LocksAreHeld, Cleans
  <2>4. Committing(lock[r]) \/ pc[lock[r]] = "unlocking"
    BY <2>2, <2>3 DEF Holds, Committing
  <2>5. r \notin Left(D)
    BY <1>8, <2>2, <2>4 DEF Holds, Answers, Left, Excused
  <2>6. Pending' = scan.queue \ {r}
    BY <1>1, <2>1 DEF Pending
  <2>7. \A s \in Left(D)' \ Pending' : Cardinality({t \in Left(D) : Ahead(t, s)}') < RetentionCount
    BY <1>1, <1>9, <1>12, <1>13, <2>5, <2>6 DEF Ahead
  <2>8. pc'[storeLock'] = "visiting"
    BY <1>1, <2>1
  <2>9. Answers(D)'
    BY <1>1, <1>9, <1>10, <1>11, <2>7, <2>8 DEF Answers
  <2> QED
    BY <1>7, <2>9 DEF CleanupIsThorough
<1> QED
  BY <1>14, <1>15

\* A session kept after all is among the most recent.
LEMMA DecideAnswers ==
  ASSUME IInv, TypeOK', Debt, CleanupIsThorough, NEW a \in Actors, Decide(a)
  PROVE  Debt' /\ CleanupIsThorough'
<1>0. TypeOK /\ LocksAreHeld /\ Binding
  BY DEF IInv
<1>1. UNCHANGED <<storeLock, lost>> /\ storeLock = a /\ storeLock # Nobody
      /\ pc[a] = "rechecking" /\ scan.todo = {} /\ ses[a] \in Sessions
  BY <1>0, StoreAssumption DEF Decide, LocksAreHeld, Cleans, Binding
<1>2. PICK r \in Sessions : r = ses[a]
  BY <1>1
<1>3. \A b \in Actors \ {a} : pc'[b] = pc[b] /\ ses'[b] = ses[b]
  BY <1>0 DEF Decide, Goto, TypeOK
<1>4. pc'[a] = "visiting" /\ scan'.queue = scan.queue
  BY <1>0 DEF Decide, Goto, NoScan, TypeOK
<1>5. Owing' = Owing
  BY <1>1, <1>3, <1>4 DEF Owing
<1>6. Excused' = Excused
  BY <1>1, <1>3, <1>4 DEF Excused, Committing
<1>7. \A s \in Sessions \ {r} : file'[s] = file[s]
  BY <1>0, <1>2 DEF Decide, TypeOK
<1>8. IF r \in Expired(scan.seen, scan.at) THEN file'[r] = Absent ELSE file' = file
  BY <1>0, <1>2 DEF Decide, TypeOK
<1>9. Stored' \subseteq Stored /\ \A s \in Stored' : file'[s] = file[s]
  BY <1>7, <1>8 DEF Stored, Readable
<1>10. Debt'
  <2>1. Stored \ Excused \in SUBSET Sessions /\ Stored' \ Excused' \subseteq Stored \ Excused
    BY <1>6, <1>9 DEF Stored
  <2>2. Cardinality(Stored' \ Excused') <= Cardinality(Stored \ Excused)
        /\ Cardinality(Stored' \ Excused') \in Nat
    BY <2>1, SessionsCount
  <2>3. Cardinality(Stored' \ Excused') <= RetentionCount + lost' + Cardinality(Owing')
    BY <1>0, <1>1, <1>5, <2>2, DebtNumbers DEF Debt
  <2> QED
    BY <1>5, <2>3 DEF Debt
<1>11. PICK D \in SUBSET Sessions : Answers(D)
  BY <1>1 DEF CleanupIsThorough
<1>12. Left(D)' \subseteq Left(D) /\ Left(D) \in SUBSET Sessions
  BY <1>6, <1>9 DEF Left, Stored
<1>13. \A s \in Left(D) : scan.seen[s] = file[s].updated
  BY <1>1, <1>11 DEF Answers
<1>14. ASSUME NEW s \in Left(D)', s \notin scan.queue
       PROVE  Cardinality({t \in Left(D) : Ahead(t, s)}) < RetentionCount
  <2>1. s \in Left(D)
    BY <1>12
  <2>2. CASE s # r
    <3>1. s \notin Pending
      BY <1>1, <1>2, <1>14, <2>2 DEF Pending
    <3> QED
      BY <1>1, <1>11, <2>1, <3>1 DEF Answers
  <2>3. CASE s = r
    <3>1. s \notin Expired(scan.seen, scan.at)
      BY <1>8, <2>3 DEF Left, Stored, Readable
    <3> QED
      BY <1>0, <1>13, <2>1, <3>1, KeptIsRecent
  <2> QED
    BY <2>2, <2>3
<1>15. ASSUME NEW s \in Left(D)', s \notin scan.queue
       PROVE  Cardinality({t \in Left(D)' : Ahead(t, s)'}) < RetentionCount
  <2> DEFINE B == {t \in Left(D) : Ahead(t, s)}
             C == {t \in Left(D)' : Ahead(t, s)'}
  <2>1. Cardinality(B) < RetentionCount
    BY <1>14, <1>15
  <2>2. \A t \in Left(D)' : file'[t] = file[t]
    BY <1>9 DEF Left
  <2>3. C \subseteq B /\ B \in SUBSET Sessions
    BY <1>12, <2>2 DEF Ahead
  <2> HIDE DEF B, C
  <2>4. Cardinality(C) <= Cardinality(B) /\ Cardinality(C) \in Nat /\ Cardinality(B) \in Nat
    BY <2>3, SessionsCount
  <2>5. Cardinality(C) < RetentionCount
    BY <2>1, <2>4, StoreAssumption
  <2> QED
    BY <2>5 DEF C
<1>16. pc'[storeLock'] = "visiting" /\ Pending' = scan.queue
  BY <1>1, <1>4 DEF Pending
<1>17. \A b \in Actors : pc'[b] = "unlocking" => ses'[b] \in D
  BY <1>3, <1>4, <1>11 DEF Answers
<1>18. Cardinality(D) <= lost' + Cardinality(Owing' \ {storeLock'})
  BY <1>1, <1>5, <1>11 DEF Answers
<1>19. Answers(D)'
  BY <1>15, <1>16, <1>17, <1>18 DEF Answers
<1> QED
  BY <1>10, <1>19 DEF CleanupIsThorough

\* A cleanup that ends leaves RetentionCount sessions of those it answers for; the
\* rest somebody else pays for.
LEMMA EndAnswers ==
  ASSUME IInv, TypeOK', Debt, CleanupIsThorough, NEW a \in Actors, EndCleanup(a)
  PROVE  Debt' /\ CleanupIsThorough'
<1>0. /\ TypeOK /\ LocksAreHeld /\ IsFiniteSet(Owing)
      /\ lost \in Nat /\ Cardinality(Owing) \in Nat /\ RetentionCount \in Nat
  BY DebtNumbers DEF IInv
<1>1. UNCHANGED <<file, lost>> /\ storeLock = a /\ storeLock # Nobody /\ storeLock' = Nobody
      /\ pc[a] = "visiting" /\ scan.queue = {}
  BY <1>0, StoreAssumption DEF EndCleanup, LocksAreHeld, Cleans
<1>2. \A b \in Actors \ {a} : pc'[b] = pc[b] /\ ses'[b] = ses[b]
  BY <1>0 DEF EndCleanup, GoIdle, TypeOK
<1>3. pc'[a] = "idle"
  BY <1>0 DEF EndCleanup, GoIdle, TypeOK
<1>4. Owing' = Owing \ {a}
  BY <1>1, <1>2, <1>3 DEF Owing
<1>5. Excused' = Excused /\ Stored' = Stored
  BY <1>1, <1>2, <1>3 DEF Excused, Committing, Stored, Readable
<1>6. PICK D \in SUBSET Sessions : Answers(D)
  BY <1>1 DEF CleanupIsThorough
<1>7. \A s \in Left(D) : Cardinality({t \in Left(D) : Ahead(t, s)}) < RetentionCount
  BY <1>1, <1>6 DEF Answers, Pending
<1>8. Left(D) \in SUBSET Stored /\ Left(D) \in SUBSET Sessions
  BY DEF Left, Stored
<1>9. Cardinality(Left(D)) <= RetentionCount
  <2> DEFINE U == Left(D)
  <2>1. \A s \in U : Cardinality({t \in U : Ahead(t, s)}) < RetentionCount
    BY <1>7
  <2>2. U \in SUBSET Stored
    BY <1>8
  <2> HIDE DEF U
  <2>3. Cardinality(U) <= RetentionCount
    BY <1>0, <2>1, <2>2, AllOnTop
  <2> QED
    BY <2>3 DEF U
<1>10. Cardinality(D) <= lost + Cardinality(Owing \ {a}) /\ IsFiniteSet(Owing \ {a})
       /\ Cardinality(Owing \ {a}) \in Nat
  BY <1>0, <1>1, <1>6, FS_RemoveElement, FS_CardinalityType DEF Answers
<1>11. Stored \ Excused \subseteq Left(D) \cup D /\ Left(D) \cup D \in SUBSET Sessions
  BY <1>8 DEF Left
<1>12. /\ Cardinality(Stored \ Excused) <= Cardinality(Left(D) \cup D)
       /\ Cardinality(Stored \ Excused) \in Nat
  BY <1>11, SessionsCount
<1>13. /\ Cardinality(Left(D) \cup D) <= Cardinality(Left(D)) + Cardinality(D)
       /\ Cardinality(Left(D) \cup D) \in Nat
       /\ Cardinality(Left(D)) \in Nat /\ Cardinality(D) \in Nat
  BY <1>8, PartsCount, SessionsCount
<1>14. Cardinality(Stored \ Excused) <= RetentionCount + lost + Cardinality(Owing \ {a})
  BY <1>0, <1>9, <1>10, <1>12, <1>13
<1> QED
  BY <1>1, <1>4, <1>5, <1>10, <1>14 DEF Debt, CleanupIsThorough

\* What is stored beyond the limit is always paid for, and a cleanup always thorough.
THEOREM DebtIsPaid == Spec => [](Debt /\ CleanupIsThorough)
<1>1. Init => Debt /\ CleanupIsThorough
  <2> SUFFICES ASSUME Init PROVE Debt /\ CleanupIsThorough
    OBVIOUS
  <2>1. Owing = {} /\ Stored = {} /\ lost = 0 /\ storeLock = Nobody
    BY DEF Init, Owing, Stored, Readable
  <2>2. IsFiniteSet(Owing) /\ Cardinality(Owing) = 0 /\ Stored \ Excused = {}
        /\ Cardinality(Stored \ Excused) = 0
    BY <2>1, FS_EmptySet
  <2>3. Cardinality(Stored \ Excused) <= RetentionCount + lost + Cardinality(Owing)
    BY <2>1, <2>2, StoreAssumption
  <2> QED
    BY <2>1, <2>2, <2>3 DEF Debt, CleanupIsThorough
<1>2. IInv /\ IInv' /\ Debt /\ CleanupIsThorough /\ [Next]_vars => Debt' /\ CleanupIsThorough'
  <2> SUFFICES ASSUME IInv, TypeOK', Debt, CleanupIsThorough, [Next]_vars
               PROVE  Debt' /\ CleanupIsThorough'
    BY DEF IInv
  <2>1. CASE \/ Tick
             \/ \E a \in Actors, s \in Sessions : Begin(a, s) \/ ReadCorrupt(a, s)
             \/ \E s \in Sessions : Damage(s)
             \/ UNCHANGED vars
    BY <2>1, BystandersPay
  <2>2. ASSUME NEW a \in Actors, Step(a) \/ Crash(a) PROVE Debt' /\ CleanupIsThorough'
    BY <2>2, TransactionPays, SetAsidePays, CrashPays, StartAnswers, ScanAnswers, QueueAnswers,
       VisitAnswers, DecideAnswers, EndAnswers DEF Step
  <2> QED
    BY <2>1, <2>2 DEF Next
<1> QED
  BY <1>1, <1>2, IInvCorrect, PTL DEF Spec

\* Whenever everybody is idle, the store holds at most RetentionCount sessions, plus one
\* for each transaction that ended without a cleanup of its own, whatever the cleaner
\* skipped and whatever was committed behind its scans.
THEOREM QuotaIsBounded == Spec => []QuotaBound
<1>1. IInv /\ Debt /\ CleanupIsThorough => QuotaBound
  <2> SUFFICES ASSUME IInv, Debt, \A a \in Actors : pc[a] = "idle"
               PROVE  Cardinality({s \in Sessions : Readable(s)}) <= RetentionCount + lost
    BY DEF QuotaBound
  <2>1. Owing = {} /\ Excused = {}
    BY DEF Owing, Excused, Committing
  <2>2. Stored \ Excused = Stored /\ Cardinality(Owing) = 0
    BY <2>1, FS_EmptySet
  <2>3. Cardinality(Stored) <= RetentionCount + lost + 0
    BY <2>2 DEF Debt
  <2>4. RetentionCount \in Nat /\ lost \in Nat
    BY StoreAssumption DEF IInv, TypeOK
  <2> QED
    BY <2>3, <2>4 DEF Stored
<1> QED
  BY <1>1, IInvCorrect, DebtIsPaid, PTL
=============================================================================
