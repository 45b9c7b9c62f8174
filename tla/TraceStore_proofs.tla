-------------------------- MODULE TraceStore_proofs --------------------------
(***************************************************************************)
(* Proofs about TraceStore, for every set of writers, traces and sessions, *)
(* every retention setting and every bound.                                *)
(***************************************************************************)
EXTENDS TraceStore, FiniteSetTheorems, TLAPS

\* Every step keeps the types.
LEMMA TypeStep == TypeOK /\ WritersApart /\ DeletionsKnown /\ [Next]_vars => TypeOK'
<1> SUFFICES ASSUME TypeOK /\ WritersApart /\ DeletionsKnown, [Next]_vars PROVE TypeOK'
  OBVIOUS
<1> USE TraceAssumption DEF Absent, Garbage, Pointer, Readable, Inside
<1>1. CASE Tick
  BY <1>1 DEF TypeOK, WritersApart, OwnTrace, DeletionsKnown, Tick
<1>2. ASSUME NEW w \in Writers, NEW t \in Traces, Stamp(w, t) PROVE TypeOK'
  BY <1>2 DEF TypeOK, WritersApart, OwnTrace, DeletionsKnown, Stamp, Goto
<1>3. ASSUME NEW w \in Writers, WriteTrace(w) PROVE TypeOK'
  BY <1>3 DEF TypeOK, WritersApart, OwnTrace, DeletionsKnown, WriteTrace, Goto
<1>4. ASSUME NEW w \in Writers, WriteIdIndex(w) PROVE TypeOK'
  BY <1>4 DEF TypeOK, WritersApart, OwnTrace, DeletionsKnown, WriteIdIndex, Goto
<1>5. ASSUME NEW w \in Writers, WriteSessionIndex(w) PROVE TypeOK'
  BY <1>5 DEF TypeOK, WritersApart, OwnTrace, DeletionsKnown, WriteSessionIndex, Goto
<1>6. ASSUME NEW w \in Writers, Sweep(w) PROVE TypeOK'
  BY <1>6 DEF TypeOK, WritersApart, OwnTrace, DeletionsKnown, Sweep, Goto
<1>7. ASSUME NEW w \in Writers, Scan(w) PROVE TypeOK'
  BY <1>7 DEF TypeOK, WritersApart, OwnTrace, DeletionsKnown, Scan, Goto, Entries
<1>8. ASSUME NEW w \in Writers, NEW t \in Traces, DeleteFile(w, t) PROVE TypeOK'
  BY <1>8 DEF TypeOK, WritersApart, OwnTrace, DeletionsKnown, DeleteFile, Goto
<1>9. ASSUME NEW w \in Writers, DeleteIdIndex(w) PROVE TypeOK'
  BY <1>9 DEF TypeOK, WritersApart, OwnTrace, DeletionsKnown, DeleteIdIndex, Goto
<1>10. ASSUME NEW w \in Writers, DeleteSessionIndex(w) PROVE TypeOK'
  BY <1>10 DEF TypeOK, WritersApart, OwnTrace, DeletionsKnown, DeleteSessionIndex, Goto
<1>11. ASSUME NEW w \in Writers, Return(w) PROVE TypeOK'
  BY <1>11 DEF TypeOK, WritersApart, OwnTrace, DeletionsKnown, Return, GoIdle, Goto, NoJob
<1>12. ASSUME NEW w \in Writers, Abandon(w) PROVE TypeOK'
  BY <1>12 DEF TypeOK, WritersApart, OwnTrace, DeletionsKnown, Abandon, GoIdle, Goto, NoJob
<1>13. ASSUME NEW t \in Traces, Read(t) PROVE TypeOK'
  BY <1>13 DEF TypeOK, WritersApart, OwnTrace, DeletionsKnown, Read, Path
<1>14. ASSUME NEW s \in Sessions, ReadLatest(s) PROVE TypeOK'
  BY <1>14 DEF TypeOK, WritersApart, OwnTrace, DeletionsKnown, ReadLatest
<1>15. ASSUME NEW t \in Traces, Damage(t) PROVE TypeOK'
  BY <1>15 DEF TypeOK, WritersApart, OwnTrace, DeletionsKnown, Damage
<1>16. CASE UNCHANGED vars
  BY <1>16 DEF TypeOK, WritersApart, OwnTrace, DeletionsKnown, vars
<1> QED
  BY <1>1, <1>2, <1>3, <1>4, <1>5, <1>6, <1>7, <1>8, <1>9, <1>10, <1>11, <1>12, <1>13, <1>14, <1>15, <1>16 DEF Next, Step

\* Every step keeps the lock with the writer inside.
LEMMA LockStep == TypeOK /\ LockIsHeld /\ [Next]_vars => LockIsHeld'
<1> SUFFICES ASSUME TypeOK /\ LockIsHeld, [Next]_vars PROVE LockIsHeld'
  OBVIOUS
<1> USE TraceAssumption DEF Absent, Garbage, Pointer, Readable, Inside
<1>1. CASE Tick
  BY <1>1 DEF TypeOK, LockIsHeld, Tick
<1>2. ASSUME NEW w \in Writers, NEW t \in Traces, Stamp(w, t) PROVE LockIsHeld'
  BY <1>2 DEF TypeOK, LockIsHeld, Stamp, Goto
<1>3. ASSUME NEW w \in Writers, WriteTrace(w) PROVE LockIsHeld'
  BY <1>3 DEF TypeOK, LockIsHeld, WriteTrace, Goto
<1>4. ASSUME NEW w \in Writers, WriteIdIndex(w) PROVE LockIsHeld'
  BY <1>4 DEF TypeOK, LockIsHeld, WriteIdIndex, Goto
<1>5. ASSUME NEW w \in Writers, WriteSessionIndex(w) PROVE LockIsHeld'
  BY <1>5 DEF TypeOK, LockIsHeld, WriteSessionIndex, Goto
<1>6. ASSUME NEW w \in Writers, Sweep(w) PROVE LockIsHeld'
  BY <1>6 DEF TypeOK, LockIsHeld, Sweep, Goto
<1>7. ASSUME NEW w \in Writers, Scan(w) PROVE LockIsHeld'
  BY <1>7 DEF TypeOK, LockIsHeld, Scan, Goto, Entries
<1>8. ASSUME NEW w \in Writers, NEW t \in Traces, DeleteFile(w, t) PROVE LockIsHeld'
  BY <1>8 DEF TypeOK, LockIsHeld, DeleteFile, Goto
<1>9. ASSUME NEW w \in Writers, DeleteIdIndex(w) PROVE LockIsHeld'
  BY <1>9 DEF TypeOK, LockIsHeld, DeleteIdIndex, Goto
<1>10. ASSUME NEW w \in Writers, DeleteSessionIndex(w) PROVE LockIsHeld'
  BY <1>10 DEF TypeOK, LockIsHeld, DeleteSessionIndex, Goto
<1>11. ASSUME NEW w \in Writers, Return(w) PROVE LockIsHeld'
  BY <1>11 DEF TypeOK, LockIsHeld, Return, GoIdle, Goto, NoJob
<1>12. ASSUME NEW w \in Writers, Abandon(w) PROVE LockIsHeld'
  BY <1>12 DEF TypeOK, LockIsHeld, Abandon, GoIdle, Goto, NoJob
<1>13. ASSUME NEW t \in Traces, Read(t) PROVE LockIsHeld'
  BY <1>13 DEF TypeOK, LockIsHeld, Read, Path
<1>14. ASSUME NEW s \in Sessions, ReadLatest(s) PROVE LockIsHeld'
  BY <1>14 DEF TypeOK, LockIsHeld, ReadLatest
<1>15. ASSUME NEW t \in Traces, Damage(t) PROVE LockIsHeld'
  BY <1>15 DEF TypeOK, LockIsHeld, Damage
<1>16. CASE UNCHANGED vars
  BY <1>16 DEF TypeOK, LockIsHeld, vars
<1> QED
  BY <1>1, <1>2, <1>3, <1>4, <1>5, <1>6, <1>7, <1>8, <1>9, <1>10, <1>11, <1>12, <1>13, <1>14, <1>15, <1>16 DEF Next, Step

\* Every step keeps writers apart.
LEMMA ApartStep == TypeOK /\ LockIsHeld /\ WritersApart /\ DeletionsKnown /\ [Next]_vars => WritersApart'
<1> SUFFICES ASSUME TypeOK /\ LockIsHeld /\ WritersApart /\ DeletionsKnown, [Next]_vars PROVE WritersApart'
  OBVIOUS
<1> USE TraceAssumption DEF Absent, Garbage, Pointer, Readable, Inside
<1>1. CASE Tick
  BY <1>1 DEF TypeOK, LockIsHeld, WritersApart, OwnTrace, DeletionsKnown, Gone, Is, Tick
<1>2. ASSUME NEW w \in Writers, NEW t \in Traces, Stamp(w, t) PROVE WritersApart'
  <2>1. job' = [job EXCEPT ![w] = [trace |-> t, at |-> now]] /\ pc' = [pc EXCEPT ![w] = "waiting"]
    BY <1>2 DEF Stamp, Goto
  <2>2. t \notin begun /\ begun' = begun \cup {t} /\ Gone(t) /\ t # NoTrace
    BY <1>2 DEF Stamp, WritersApart
  <2>3. UNCHANGED <<file, byId, bySession>>
    BY <1>2 DEF Stamp
  <2>4. \A v \in Writers : job[v].trace # t
    BY <2>2 DEF WritersApart, OwnTrace, TypeOK
  <2>5. ASSUME NEW v \in Writers PROVE OwnTrace(v)'
    <3>1. CASE v = w
      BY <2>1, <2>2, <2>3, <2>4, <3>1 DEF TypeOK, OwnTrace, Gone, Is
    <3>2. CASE v # w
      BY <2>1, <2>2, <2>3, <2>4, <3>2 DEF TypeOK, WritersApart, OwnTrace, Gone, Is
    <3> QED
      BY <3>1, <3>2
  <2> QED
    BY <2>2, <2>3, <2>5 DEF WritersApart, Gone, Is
<1>3. ASSUME NEW w \in Writers, WriteTrace(w) PROVE WritersApart'
  BY <1>3 DEF TypeOK, LockIsHeld, WritersApart, OwnTrace, DeletionsKnown, Gone, Is, WriteTrace, Goto
<1>4. ASSUME NEW w \in Writers, WriteIdIndex(w) PROVE WritersApart'
  BY <1>4 DEF TypeOK, LockIsHeld, WritersApart, OwnTrace, DeletionsKnown, Gone, Is, WriteIdIndex, Goto
<1>5. ASSUME NEW w \in Writers, WriteSessionIndex(w) PROVE WritersApart'
  BY <1>5 DEF TypeOK, LockIsHeld, WritersApart, OwnTrace, DeletionsKnown, Gone, Is, WriteSessionIndex, Goto
<1>6. ASSUME NEW w \in Writers, Sweep(w) PROVE WritersApart'
  BY <1>6 DEF TypeOK, LockIsHeld, WritersApart, OwnTrace, DeletionsKnown, Gone, Is, Sweep, Goto
<1>7. ASSUME NEW w \in Writers, Scan(w) PROVE WritersApart'
  BY <1>7 DEF TypeOK, LockIsHeld, WritersApart, OwnTrace, DeletionsKnown, Gone, Is, Scan, Goto, Entries
<1>8. ASSUME NEW w \in Writers, NEW t \in Traces, DeleteFile(w, t) PROVE WritersApart'
  BY <1>8 DEF TypeOK, LockIsHeld, WritersApart, OwnTrace, DeletionsKnown, Gone, Is, DeleteFile, Goto
<1>9. ASSUME NEW w \in Writers, DeleteIdIndex(w) PROVE WritersApart'
  BY <1>9 DEF TypeOK, LockIsHeld, WritersApart, OwnTrace, DeletionsKnown, Gone, Is, DeleteIdIndex, Goto
<1>10. ASSUME NEW w \in Writers, DeleteSessionIndex(w) PROVE WritersApart'
  BY <1>10 DEF TypeOK, LockIsHeld, WritersApart, OwnTrace, DeletionsKnown, Gone, Is, DeleteSessionIndex, Goto
<1>11. ASSUME NEW w \in Writers, Return(w) PROVE WritersApart'
  BY <1>11 DEF TypeOK, LockIsHeld, WritersApart, OwnTrace, DeletionsKnown, Gone, Is, Return, GoIdle, Goto, NoJob
<1>12. ASSUME NEW w \in Writers, Abandon(w) PROVE WritersApart'
  BY <1>12 DEF TypeOK, LockIsHeld, WritersApart, OwnTrace, DeletionsKnown, Gone, Is, Abandon, GoIdle, Goto, NoJob
<1>13. ASSUME NEW t \in Traces, Read(t) PROVE WritersApart'
  BY <1>13 DEF TypeOK, LockIsHeld, WritersApart, OwnTrace, DeletionsKnown, Gone, Is, Read, Path
<1>14. ASSUME NEW s \in Sessions, ReadLatest(s) PROVE WritersApart'
  BY <1>14 DEF TypeOK, LockIsHeld, WritersApart, OwnTrace, DeletionsKnown, Gone, Is, ReadLatest
<1>15. ASSUME NEW t \in Traces, Damage(t) PROVE WritersApart'
  BY <1>15 DEF TypeOK, LockIsHeld, WritersApart, OwnTrace, DeletionsKnown, Gone, Is, Damage
<1>16. CASE UNCHANGED vars
  BY <1>16 DEF TypeOK, LockIsHeld, WritersApart, OwnTrace, DeletionsKnown, Gone, Is, vars
<1> QED
  BY <1>1, <1>2, <1>3, <1>4, <1>5, <1>6, <1>7, <1>8, <1>9, <1>10, <1>11, <1>12, <1>13, <1>14, <1>15, <1>16 DEF Next, Step

\* Every step keeps the deletions known.
LEMMA DeletionStep == TypeOK /\ LockIsHeld /\ DeletionsKnown /\ WritersApart /\ [Next]_vars => DeletionsKnown'
<1> SUFFICES ASSUME TypeOK /\ LockIsHeld /\ DeletionsKnown /\ WritersApart, [Next]_vars PROVE DeletionsKnown'
  OBVIOUS
<1> USE TraceAssumption DEF Absent, Garbage, Pointer, Readable, Inside
<1>1. CASE Tick
  BY <1>1 DEF TypeOK, LockIsHeld, DeletionsKnown, WritersApart, OwnTrace, Tick
<1>2. ASSUME NEW w \in Writers, NEW t \in Traces, Stamp(w, t) PROVE DeletionsKnown'
  BY <1>2 DEF TypeOK, LockIsHeld, DeletionsKnown, WritersApart, OwnTrace, Stamp, Goto
<1>3. ASSUME NEW w \in Writers, WriteTrace(w) PROVE DeletionsKnown'
  BY <1>3 DEF TypeOK, LockIsHeld, DeletionsKnown, WritersApart, OwnTrace, WriteTrace, Goto
<1>4. ASSUME NEW w \in Writers, WriteIdIndex(w) PROVE DeletionsKnown'
  BY <1>4 DEF TypeOK, LockIsHeld, DeletionsKnown, WritersApart, OwnTrace, WriteIdIndex, Goto
<1>5. ASSUME NEW w \in Writers, WriteSessionIndex(w) PROVE DeletionsKnown'
  BY <1>5 DEF TypeOK, LockIsHeld, DeletionsKnown, WritersApart, OwnTrace, WriteSessionIndex, Goto
<1>6. ASSUME NEW w \in Writers, Sweep(w) PROVE DeletionsKnown'
  BY <1>6 DEF TypeOK, LockIsHeld, DeletionsKnown, WritersApart, OwnTrace, Sweep, Goto
<1>7. ASSUME NEW w \in Writers, Scan(w) PROVE DeletionsKnown'
  BY <1>7 DEF TypeOK, LockIsHeld, DeletionsKnown, WritersApart, OwnTrace, Scan, Goto, Entries
<1>8. ASSUME NEW w \in Writers, NEW t \in Traces, DeleteFile(w, t) PROVE DeletionsKnown'
  BY <1>8 DEF TypeOK, LockIsHeld, DeletionsKnown, WritersApart, OwnTrace, DeleteFile, Goto
<1>9. ASSUME NEW w \in Writers, DeleteIdIndex(w) PROVE DeletionsKnown'
  BY <1>9 DEF TypeOK, LockIsHeld, DeletionsKnown, WritersApart, OwnTrace, DeleteIdIndex, Goto
<1>10. ASSUME NEW w \in Writers, DeleteSessionIndex(w) PROVE DeletionsKnown'
  BY <1>10 DEF TypeOK, LockIsHeld, DeletionsKnown, WritersApart, OwnTrace, DeleteSessionIndex, Goto
<1>11. ASSUME NEW w \in Writers, Return(w) PROVE DeletionsKnown'
  BY <1>11 DEF TypeOK, LockIsHeld, DeletionsKnown, WritersApart, OwnTrace, Return, GoIdle, Goto, NoJob
<1>12. ASSUME NEW w \in Writers, Abandon(w) PROVE DeletionsKnown'
  BY <1>12 DEF TypeOK, LockIsHeld, DeletionsKnown, WritersApart, OwnTrace, Abandon, GoIdle, Goto, NoJob
<1>13. ASSUME NEW t \in Traces, Read(t) PROVE DeletionsKnown'
  BY <1>13 DEF TypeOK, LockIsHeld, DeletionsKnown, WritersApart, OwnTrace, Read, Path
<1>14. ASSUME NEW s \in Sessions, ReadLatest(s) PROVE DeletionsKnown'
  BY <1>14 DEF TypeOK, LockIsHeld, DeletionsKnown, WritersApart, OwnTrace, ReadLatest
<1>15. ASSUME NEW t \in Traces, Damage(t) PROVE DeletionsKnown'
  BY <1>15 DEF TypeOK, LockIsHeld, DeletionsKnown, WritersApart, OwnTrace, Damage
<1>16. CASE UNCHANGED vars
  BY <1>16 DEF TypeOK, LockIsHeld, DeletionsKnown, WritersApart, OwnTrace, vars
<1> QED
  BY <1>1, <1>2, <1>3, <1>4, <1>5, <1>6, <1>7, <1>8, <1>9, <1>10, <1>11, <1>12, <1>13, <1>14, <1>15, <1>16 DEF Next, Step

\* Every step keeps the files of whole traces in order.
LEMMA FilesStep == TypeOK /\ LockIsHeld /\ WritersApart /\ DeletionsKnown /\ FilesFollow /\ [Next]_vars => FilesFollow'
<1> SUFFICES ASSUME TypeOK /\ LockIsHeld /\ WritersApart /\ DeletionsKnown /\ FilesFollow, [Next]_vars PROVE FilesFollow'
  OBVIOUS
<1> USE TraceAssumption DEF Absent, Garbage, Pointer, Readable, Inside
<1>1. CASE Tick
  BY <1>1 DEF TypeOK, LockIsHeld, WritersApart, OwnTrace, DeletionsKnown, FilesFollow, Whole, Gone, Is, Tick
<1>2. ASSUME NEW w \in Writers, NEW t \in Traces, Stamp(w, t) PROVE FilesFollow'
  BY <1>2 DEF TypeOK, LockIsHeld, WritersApart, OwnTrace, DeletionsKnown, FilesFollow, Whole, Gone, Is, Stamp, Goto
<1>3. ASSUME NEW w \in Writers, WriteTrace(w) PROVE FilesFollow'
  BY <1>3 DEF TypeOK, LockIsHeld, WritersApart, OwnTrace, DeletionsKnown, FilesFollow, Whole, Gone, Is, WriteTrace, Goto
<1>4. ASSUME NEW w \in Writers, WriteIdIndex(w) PROVE FilesFollow'
  BY <1>4 DEF TypeOK, LockIsHeld, WritersApart, OwnTrace, DeletionsKnown, FilesFollow, Whole, Gone, Is, WriteIdIndex, Goto
<1>5. ASSUME NEW w \in Writers, WriteSessionIndex(w) PROVE FilesFollow'
  BY <1>5 DEF TypeOK, LockIsHeld, WritersApart, OwnTrace, DeletionsKnown, FilesFollow, Whole, Gone, Is, WriteSessionIndex, Goto
<1>6. ASSUME NEW w \in Writers, Sweep(w) PROVE FilesFollow'
  BY <1>6 DEF TypeOK, LockIsHeld, WritersApart, OwnTrace, DeletionsKnown, FilesFollow, Whole, Gone, Is, Sweep, Goto
<1>7. ASSUME NEW w \in Writers, Scan(w) PROVE FilesFollow'
  BY <1>7 DEF TypeOK, LockIsHeld, WritersApart, OwnTrace, DeletionsKnown, FilesFollow, Whole, Gone, Is, Scan, Goto, Entries
<1>8. ASSUME NEW w \in Writers, NEW t \in Traces, DeleteFile(w, t) PROVE FilesFollow'
  BY <1>8 DEF TypeOK, LockIsHeld, WritersApart, OwnTrace, DeletionsKnown, FilesFollow, Whole, Gone, Is, DeleteFile, Goto
<1>9. ASSUME NEW w \in Writers, DeleteIdIndex(w) PROVE FilesFollow'
  BY <1>9 DEF TypeOK, LockIsHeld, WritersApart, OwnTrace, DeletionsKnown, FilesFollow, Whole, Gone, Is, DeleteIdIndex, Goto
<1>10. ASSUME NEW w \in Writers, DeleteSessionIndex(w) PROVE FilesFollow'
  BY <1>10 DEF TypeOK, LockIsHeld, WritersApart, OwnTrace, DeletionsKnown, FilesFollow, Whole, Gone, Is, DeleteSessionIndex, Goto
<1>11. ASSUME NEW w \in Writers, Return(w) PROVE FilesFollow'
  BY <1>11 DEF TypeOK, LockIsHeld, WritersApart, OwnTrace, DeletionsKnown, FilesFollow, Whole, Gone, Is, Return, GoIdle, Goto, NoJob
<1>12. ASSUME NEW w \in Writers, Abandon(w) PROVE FilesFollow'
  BY <1>12 DEF TypeOK, LockIsHeld, WritersApart, OwnTrace, DeletionsKnown, FilesFollow, Whole, Gone, Is, Abandon, GoIdle, Goto, NoJob
<1>13. ASSUME NEW t \in Traces, Read(t) PROVE FilesFollow'
  BY <1>13 DEF TypeOK, LockIsHeld, WritersApart, OwnTrace, DeletionsKnown, FilesFollow, Whole, Gone, Is, Read, Path
<1>14. ASSUME NEW s \in Sessions, ReadLatest(s) PROVE FilesFollow'
  BY <1>14 DEF TypeOK, LockIsHeld, WritersApart, OwnTrace, DeletionsKnown, FilesFollow, Whole, Gone, Is, ReadLatest
<1>15. ASSUME NEW t \in Traces, Damage(t) PROVE FilesFollow'
  BY <1>15 DEF TypeOK, LockIsHeld, WritersApart, OwnTrace, DeletionsKnown, FilesFollow, Whole, Gone, Is, Damage
<1>16. CASE UNCHANGED vars
  BY <1>16 DEF TypeOK, LockIsHeld, WritersApart, OwnTrace, DeletionsKnown, FilesFollow, Whole, Gone, Is, vars
<1> QED
  BY <1>1, <1>2, <1>3, <1>4, <1>5, <1>6, <1>7, <1>8, <1>9, <1>10, <1>11, <1>12, <1>13, <1>14, <1>15, <1>16 DEF Next, Step

\* Sizes: the entries are finite, fewer entries are not more.
LEMMA EntriesFinite == IsFiniteSet(Entries) /\ Cardinality(Entries) \in Nat
  BY TraceAssumption, FS_Subset, FS_CardinalityType DEF Entries

LEMMA FewerEntries ==
  ASSUME NEW S, NEW U, IsFiniteSet(U), S \subseteq U
  PROVE  Cardinality(S) <= Cardinality(U) /\ Cardinality(S) \in Nat /\ Cardinality(U) \in Nat
  BY FS_Subset, FS_CardinalityType

\* One more entry.
LEMMA OneMore ==
  ASSUME NEW S, NEW x, IsFiniteSet(S)
  PROVE  IsFiniteSet(S \cup {x}) /\ Cardinality(S \cup {x}) <= Cardinality(S) + 1
<1>1. IsFiniteSet(S \cup {x}) /\ Cardinality(S \cup {x}) =
        IF x \in S THEN Cardinality(S) ELSE Cardinality(S) + 1
  BY FS_AddElement
<1>2. Cardinality(S) \in Nat
  BY FS_CardinalityType
<1> QED
  BY <1>1, <1>2

\* A step that adds no entry keeps the sizes counted.
LEMMA NoGrowth ==
  ASSUME TypeOK, SizeCounted, Entries' \subseteq Entries,
         Entries' \ doomed' \subseteq Entries \ doomed,
         Held' >= Held, Held' \in {0, 1}, overrun' = overrun,
         \A v \in Writers : pc'[v] \in {"deleting", "unindexing", "unlisting"} =>
           pc[v] \in {"deleting", "unindexing", "unlisting"}
  PROVE  SizeCounted'
<1>1. Cardinality(Entries') <= Cardinality(Entries) /\ Cardinality(Entries') \in Nat
  BY EntriesFinite, FewerEntries
<1>2. /\ Cardinality(Entries' \ doomed') <= Cardinality(Entries \ doomed)
      /\ Cardinality(Entries' \ doomed') \in Nat
      /\ Cardinality(Entries \ doomed) \in Nat
  <2>1. IsFiniteSet(Entries \ doomed)
    BY EntriesFinite, FS_Subset
  <2> QED
    BY <2>1, FewerEntries
<1>3. Held \in {0, 1} /\ overrun \in Nat /\ RetentionCount \in Nat /\ Cardinality(Entries) \in Nat
  BY TraceAssumption, EntriesFinite DEF Held, TypeOK
<1>4. Cardinality(Entries) <= RetentionCount + overrun + Held
  BY DEF SizeCounted
<1>5. Cardinality(Entries') <= RetentionCount + overrun' + Held'
  BY <1>1, <1>3, <1>4
<1>6. ASSUME NEW w \in Writers, pc'[w] \in {"deleting", "unindexing", "unlisting"}
      PROVE  Cardinality(Entries' \ doomed') <= RetentionCount
  BY <1>2, <1>3, <1>6 DEF SizeCounted
<1> QED
  BY <1>5, <1>6 DEF SizeCounted

\* Every step keeps the sizes counted.
LEMMA SizeStep == TypeOK /\ LockIsHeld /\ WritersApart /\ DeletionsKnown /\ SizeCounted /\ [Next]_vars => SizeCounted'
<1> SUFFICES ASSUME TypeOK /\ LockIsHeld /\ WritersApart /\ DeletionsKnown /\ SizeCounted, [Next]_vars PROVE SizeCounted'
  OBVIOUS
<1> USE TraceAssumption DEF Absent, Garbage, Pointer, Readable, Inside
<1>1. CASE Tick
  <2>1. Entries' \subseteq Entries /\ Entries' \ doomed' \subseteq Entries \ doomed
    BY <1>1 DEF Tick, Entries, TypeOK
  <2>2. Held' >= Held /\ Held' \in {0, 1} /\ overrun' = overrun
    BY <1>1 DEF Tick, Held, TypeOK, LockIsHeld
  <2>3. \A v \in Writers : pc'[v] \in {"deleting", "unindexing", "unlisting"} =>
           pc[v] \in {"deleting", "unindexing", "unlisting"}
    BY <1>1 DEF Tick, TypeOK
  <2> QED
    BY <2>1, <2>2, <2>3, NoGrowth
<1>2. ASSUME NEW w \in Writers, NEW t \in Traces, Stamp(w, t) PROVE SizeCounted'
  <2>1. Entries' \subseteq Entries /\ Entries' \ doomed' \subseteq Entries \ doomed
    BY <1>2 DEF Stamp, Goto, Entries, TypeOK
  <2>2. Held' >= Held /\ Held' \in {0, 1} /\ overrun' = overrun
    BY <1>2 DEF Stamp, Goto, Held, TypeOK, LockIsHeld
  <2>3. \A v \in Writers : pc'[v] \in {"deleting", "unindexing", "unlisting"} =>
           pc[v] \in {"deleting", "unindexing", "unlisting"}
    BY <1>2 DEF Stamp, Goto, TypeOK
  <2> QED
    BY <2>1, <2>2, <2>3, NoGrowth
<1>3. ASSUME NEW w \in Writers, WriteTrace(w) PROVE SizeCounted'
  <2> DEFINE u == job[w].trace
  <2>1. u \in Traces /\ u # NoTrace /\ job[w] # NoJob
    BY <1>3 DEF WriteTrace, TypeOK, WritersApart, OwnTrace, NoJob
  <2>2. Entries' \subseteq Entries \cup {u}
    BY <1>3, <2>1 DEF WriteTrace, Entries, TypeOK
  <2>3. Cardinality(Entries \cup {u}) <= Cardinality(Entries) + 1 /\ IsFiniteSet(Entries \cup {u})
    BY EntriesFinite, OneMore
  <2>4. Cardinality(Entries') <= Cardinality(Entries) + 1 /\ Cardinality(Entries') \in Nat
    BY <2>2, <2>3, FewerEntries, EntriesFinite
  <2>5. Held = 0 /\ Held' = 1 /\ overrun' = overrun
    BY <1>3, <2>1 DEF WriteTrace, Held, TypeOK
  <2>6. \A v \in Writers : pc'[v] \notin {"deleting", "unindexing", "unlisting"}
    BY <1>3 DEF WriteTrace, Goto, TypeOK, LockIsHeld
  <2> QED
    BY <2>4, <2>5, <2>6, EntriesFinite DEF SizeCounted, TypeOK
<1>4. ASSUME NEW w \in Writers, WriteIdIndex(w) PROVE SizeCounted'
  <2>1. Entries' \subseteq Entries /\ Entries' \ doomed' \subseteq Entries \ doomed
    BY <1>4 DEF WriteIdIndex, Goto, Entries, TypeOK
  <2>2. Held' >= Held /\ Held' \in {0, 1} /\ overrun' = overrun
    BY <1>4 DEF WriteIdIndex, Goto, Held, TypeOK, LockIsHeld
  <2>3. \A v \in Writers : pc'[v] \in {"deleting", "unindexing", "unlisting"} =>
           pc[v] \in {"deleting", "unindexing", "unlisting"}
    BY <1>4 DEF WriteIdIndex, Goto, TypeOK
  <2> QED
    BY <2>1, <2>2, <2>3, NoGrowth
<1>5. ASSUME NEW w \in Writers, WriteSessionIndex(w) PROVE SizeCounted'
  <2>1. Entries' \subseteq Entries /\ Entries' \ doomed' \subseteq Entries \ doomed
    BY <1>5 DEF WriteSessionIndex, Goto, Entries, TypeOK
  <2>2. Held' >= Held /\ Held' \in {0, 1} /\ overrun' = overrun
    BY <1>5 DEF WriteSessionIndex, Goto, Held, TypeOK, LockIsHeld
  <2>3. \A v \in Writers : pc'[v] \in {"deleting", "unindexing", "unlisting"} =>
           pc[v] \in {"deleting", "unindexing", "unlisting"}
    BY <1>5 DEF WriteSessionIndex, Goto, TypeOK
  <2> QED
    BY <2>1, <2>2, <2>3, NoGrowth
<1>6. ASSUME NEW w \in Writers, Sweep(w) PROVE SizeCounted'
  <2>1. Entries' \subseteq Entries /\ Entries' \ doomed' \subseteq Entries \ doomed
    BY <1>6 DEF Sweep, Goto, Entries, TypeOK
  <2>2. Held' >= Held /\ Held' \in {0, 1} /\ overrun' = overrun
    BY <1>6 DEF Sweep, Goto, Held, TypeOK, LockIsHeld
  <2>3. \A v \in Writers : pc'[v] \in {"deleting", "unindexing", "unlisting"} =>
           pc[v] \in {"deleting", "unindexing", "unlisting"}
    BY <1>6 DEF Sweep, Goto, TypeOK
  <2> QED
    BY <2>1, <2>2, <2>3, NoGrowth
<1>7. ASSUME NEW w \in Writers, Scan(w) PROVE SizeCounted'
  <2>1. Entries' = Entries
    BY <1>7 DEF Scan, Entries, TypeOK
  <2>2. PICK keep \in SUBSET Entries : Kept(keep, now) /\ doomed' = Entries \ keep
    BY <1>7 DEF Scan
  <2>3. Cardinality(keep) <= RetentionCount
    BY <2>2, EntriesFinite, FS_CardinalityType, FS_Subset DEF Kept
  <2>4. Entries' \ doomed' = keep
    BY <2>1, <2>2
  <2>5. Held' = Held /\ overrun' = overrun
    BY <1>7 DEF Scan, Held
  <2> QED
    BY <2>1, <2>3, <2>4, <2>5 DEF SizeCounted
<1>8. ASSUME NEW w \in Writers, NEW t \in Traces, DeleteFile(w, t) PROVE SizeCounted'
  <2>1. Entries' \subseteq Entries /\ Entries' \ doomed' \subseteq Entries \ doomed
    BY <1>8 DEF DeleteFile, Goto, Entries, TypeOK
  <2>2. Held' >= Held /\ Held' \in {0, 1} /\ overrun' = overrun
    BY <1>8 DEF DeleteFile, Goto, Held, TypeOK, LockIsHeld
  <2>3. \A v \in Writers : pc'[v] \in {"deleting", "unindexing", "unlisting"} =>
           pc[v] \in {"deleting", "unindexing", "unlisting"}
    BY <1>8 DEF DeleteFile, Goto, TypeOK
  <2> QED
    BY <2>1, <2>2, <2>3, NoGrowth
<1>9. ASSUME NEW w \in Writers, DeleteIdIndex(w) PROVE SizeCounted'
  <2>1. Entries' \subseteq Entries /\ Entries' \ doomed' \subseteq Entries \ doomed
    BY <1>9 DEF DeleteIdIndex, Goto, Entries, TypeOK
  <2>2. Held' >= Held /\ Held' \in {0, 1} /\ overrun' = overrun
    BY <1>9 DEF DeleteIdIndex, Goto, Held, TypeOK, LockIsHeld
  <2>3. \A v \in Writers : pc'[v] \in {"deleting", "unindexing", "unlisting"} =>
           pc[v] \in {"deleting", "unindexing", "unlisting"}
    BY <1>9 DEF DeleteIdIndex, Goto, TypeOK
  <2> QED
    BY <2>1, <2>2, <2>3, NoGrowth
<1>10. ASSUME NEW w \in Writers, DeleteSessionIndex(w) PROVE SizeCounted'
  <2>1. Entries' \subseteq Entries /\ Entries' \ doomed' \subseteq Entries \ doomed
    BY <1>10 DEF DeleteSessionIndex, Goto, Entries, TypeOK
  <2>2. Held' >= Held /\ Held' \in {0, 1} /\ overrun' = overrun
    BY <1>10 DEF DeleteSessionIndex, Goto, Held, TypeOK, LockIsHeld
  <2>3. \A v \in Writers : pc'[v] \in {"deleting", "unindexing", "unlisting"} =>
           pc[v] \in {"deleting", "unindexing", "unlisting"}
    BY <1>10 DEF DeleteSessionIndex, Goto, TypeOK
  <2> QED
    BY <2>1, <2>2, <2>3, NoGrowth
<1>11. ASSUME NEW w \in Writers, Return(w) PROVE SizeCounted'
  <2>1. Entries' = Entries /\ Entries \ doomed = Entries /\ doomed' = {}
    BY <1>11 DEF Return, Entries
  <2>2. Cardinality(Entries) <= RetentionCount
    BY <1>11, <2>1 DEF Return, SizeCounted
  <2>3. Held' = 0 /\ overrun' = 0
    BY <1>11 DEF Return, GoIdle, Held, LockIsHeld
  <2>4. \A v \in Writers : pc'[v] \notin {"deleting", "unindexing", "unlisting"}
    BY <1>11 DEF Return, GoIdle, Goto, TypeOK, LockIsHeld
  <2> QED
    BY <2>1, <2>2, <2>3, <2>4, EntriesFinite DEF SizeCounted
<1>12. ASSUME NEW w \in Writers, Abandon(w) PROVE SizeCounted'
  <2>1. Entries' = Entries
    BY <1>12 DEF Abandon, Entries
  <2>2. CASE lock = w
    <3>1. Held' = 0 /\ overrun' = overrun + Held
      BY <1>12, <2>2 DEF Abandon, GoIdle, Held, TypeOK
    <3>2. \A v \in Writers : pc'[v] \notin {"deleting", "unindexing", "unlisting"}
      BY <1>12, <2>2 DEF Abandon, GoIdle, Goto, TypeOK, LockIsHeld
    <3> QED
      BY <2>1, <3>1, <3>2, EntriesFinite DEF SizeCounted, Held, TypeOK
  <2>3. CASE lock # w
    <3>1. Held' = Held /\ overrun' = overrun /\ doomed' = doomed
      BY <1>12, <2>3 DEF Abandon, GoIdle, Held, TypeOK
    <3>2. \A v \in Writers : pc'[v] \in {"deleting", "unindexing", "unlisting"} =>
             pc[v] \in {"deleting", "unindexing", "unlisting"}
      BY <1>12 DEF Abandon, GoIdle, Goto, TypeOK
    <3> QED
      BY <2>1, <3>1, <3>2 DEF SizeCounted
  <2> QED
    BY <2>2, <2>3
<1>13. ASSUME NEW t \in Traces, Read(t) PROVE SizeCounted'
  <2>1. Entries' \subseteq Entries /\ Entries' \ doomed' \subseteq Entries \ doomed
    BY <1>13 DEF Read, Path, Entries, TypeOK
  <2>2. Held' >= Held /\ Held' \in {0, 1} /\ overrun' = overrun
    BY <1>13 DEF Read, Path, Held, TypeOK, LockIsHeld
  <2>3. \A v \in Writers : pc'[v] \in {"deleting", "unindexing", "unlisting"} =>
           pc[v] \in {"deleting", "unindexing", "unlisting"}
    BY <1>13 DEF Read, Path, TypeOK
  <2> QED
    BY <2>1, <2>2, <2>3, NoGrowth
<1>14. ASSUME NEW s \in Sessions, ReadLatest(s) PROVE SizeCounted'
  <2>1. Entries' \subseteq Entries /\ Entries' \ doomed' \subseteq Entries \ doomed
    BY <1>14 DEF ReadLatest, Entries, TypeOK
  <2>2. Held' >= Held /\ Held' \in {0, 1} /\ overrun' = overrun
    BY <1>14 DEF ReadLatest, Held, TypeOK, LockIsHeld
  <2>3. \A v \in Writers : pc'[v] \in {"deleting", "unindexing", "unlisting"} =>
           pc[v] \in {"deleting", "unindexing", "unlisting"}
    BY <1>14 DEF ReadLatest, TypeOK
  <2> QED
    BY <2>1, <2>2, <2>3, NoGrowth
<1>15. ASSUME NEW t \in Traces, Damage(t) PROVE SizeCounted'
  <2>1. Entries' \subseteq Entries /\ Entries' \ doomed' \subseteq Entries \ doomed
    BY <1>15 DEF Damage, Entries, TypeOK
  <2>2. Held' >= Held /\ Held' \in {0, 1} /\ overrun' = overrun
    BY <1>15 DEF Damage, Held, TypeOK, LockIsHeld
  <2>3. \A v \in Writers : pc'[v] \in {"deleting", "unindexing", "unlisting"} =>
           pc[v] \in {"deleting", "unindexing", "unlisting"}
    BY <1>15 DEF Damage, TypeOK
  <2> QED
    BY <2>1, <2>2, <2>3, NoGrowth
<1>16. CASE UNCHANGED vars
  BY <1>16 DEF SizeCounted, Entries, Held, vars
<1> QED
  BY <1>1, <1>2, <1>3, <1>4, <1>5, <1>6, <1>7, <1>8, <1>9, <1>10, <1>11, <1>12, <1>13, <1>14, <1>15, <1>16 DEF Next, Step

\* The invariant holds in every reachable state.
THEOREM IInvCorrect == Spec => []IInv
<1>1. Init => IInv
  <2> SUFFICES ASSUME Init PROVE IInv
    OBVIOUS
  <2>1. TypeOK /\ LockIsHeld /\ WritersApart /\ DeletionsKnown /\ FilesFollow
    BY TraceAssumption DEF Init, TypeOK, LockIsHeld, WritersApart, OwnTrace, DeletionsKnown,
       FilesFollow, Gone, Whole, Is, Readable, NoJob, Absent, Garbage, Pointer, Inside
  <2>2. Entries = {} /\ doomed = {} /\ overrun = 0 /\ Held = 0
    BY DEF Init, Entries, Readable, Absent, Held
  <2>3. Cardinality(Entries) = 0
    BY <2>2, FS_EmptySet
  <2>4. SizeCounted
    BY <2>2, <2>3, TraceAssumption DEF SizeCounted, Init
  <2> QED
    BY <2>1, <2>4 DEF IInv
<1>2. IInv /\ [Next]_vars => IInv'
  BY TypeStep, LockStep, ApartStep, DeletionStep, FilesStep, SizeStep DEF IInv
<1> QED
  BY <1>1, <1>2, PTL DEF Spec

\* TraceStore.TypeOK: every variable of the store keeps its type.
THEOREM TypeCorrect == Spec => []TypeOK
<1>1. IInv => TypeOK
  BY DEF IInv
<1> QED
  BY <1>1, IInvCorrect, PTL

\* A free lock finds each trace that is not torn whole or gone.
LEMMA WholeOrGone ==
  ASSUME IInv, lock = Nobody, NEW t \in Traces \ torn PROVE Whole(t) \/ Gone(t)
<1>1. \A w \in Writers : pc[w] \notin Inside
  BY TraceAssumption DEF IInv, LockIsHeld
<1> QED
  BY <1>1, TraceAssumption DEF IInv, FilesFollow, DeletionsKnown, Inside

\* TraceStore.IndexesAgree: with the lock free, a trace has all its files or none
\* (traces.py:97-107, 199-207).
THEOREM IndexesAlwaysAgree == Spec => []IndexesAgree
<1>1. IInv => IndexesAgree
  BY WholeOrGone DEF IndexesAgree, Whole, Gone, Is
<1> QED
  BY <1>1, IInvCorrect, PTL

\* TraceStore.LatestIsCurrent: the latest trace of a session is at least as recent
\* as each of its whole traces (traces.py:145-180).
THEOREM LatestIsAlwaysCurrent == Spec => []LatestIsCurrent
<1>1. IInv => LatestIsCurrent
  <2> SUFFICES ASSUME IInv, lock = Nobody, NEW t \in Entries \ torn,
                      NEW r \in Latest(SessionOf[t])
               PROVE  file[r] >= file[t]
    BY DEF LatestIsCurrent
  <2>1. t \in Traces /\ Readable(t) /\ Whole(t)
    BY WholeOrGone DEF Entries, Gone, Is
  <2> DEFINE all == {u \in Traces : SessionOf[u] = SessionOf[t] /\ file[u] # Absent}
             listed == {u \in all : bySession[u] = "ok"}
  <2>2. t \in listed
    BY <2>1 DEF Whole, Is, Readable, Absent
  <2>3. r \in Newest(listed)
    BY <2>2 DEF Latest
  <2> QED
    BY <2>2, <2>3 DEF Newest, IInv, TypeOK
<1> QED
  BY <1>1, IInvCorrect, PTL

\* TraceStore.SizeBound: with the lock free, only writes cut short exceed the limit
\* (traces.py:107, 209-236).
THEOREM SizeIsBounded == Spec => []SizeBound
<1>1. IInv => SizeBound
  BY EntriesFinite, TraceAssumption DEF IInv, SizeCounted, SizeBound, Held, TypeOK
<1> QED
  BY <1>1, IInvCorrect, PTL

\* What stands against a condemned trace, and stays when the others of its kind are
\* deleted.  RetentionIsJust counts more: what is condemned as well.
Outranks(d) == {u \in Traces \ doomed : file[u] >= file[d] \/ file[u] = Garbage}

\* What a cleanup condemns is over its time, or outranked by as many traces as the
\* store may keep, from the scan that judged it to the deletion.
DoomedRightly ==
  \A d \in doomed : file[d] < now - Ttl \/ Cardinality(Outranks(d)) >= RetentionCount

\* Sets of traces can be counted, and a larger one counts more.
LEMMA TracesCount ==
  ASSUME NEW A, NEW B, A \subseteq B, B \subseteq Traces
  PROVE  Cardinality(A) \in Nat /\ Cardinality(B) \in Nat /\ Cardinality(A) <= Cardinality(B)
BY TraceAssumption, FS_Subset, FS_CardinalityType

\* A trace that stays condemned with its time stays rightly so, as long as nothing
\* that outranks it is lost and time does not go back.
LEMMA StillRightly ==
  ASSUME TypeOK, TypeOK', DoomedRightly, doomed' \subseteq doomed, now' >= now,
         \A d \in doomed' : file'[d] = file[d] /\ Outranks(d) \subseteq Outranks(d)'
  PROVE  DoomedRightly'
<1> SUFFICES ASSUME NEW d \in doomed'
             PROVE  file'[d] < now' - Ttl \/ Cardinality(Outranks(d)') >= RetentionCount
  BY DEF DoomedRightly, Outranks
<1>1. CASE file[d] < now - Ttl
  <2>1. file[d] \in Int /\ now \in Int /\ now' \in Int /\ Ttl \in Int
    BY TraceAssumption DEF TypeOK, Absent, Garbage
  <2> QED
    BY <1>1, <2>1
<1>2. CASE Cardinality(Outranks(d)) >= RetentionCount
  <2>1. Outranks(d)' \subseteq Traces
    BY DEF Outranks
  <2>2. Cardinality(Outranks(d)) <= Cardinality(Outranks(d)')
        /\ Cardinality(Outranks(d)) \in Nat /\ Cardinality(Outranks(d)') \in Nat
    BY <2>1, TracesCount
  <2> QED
    BY <1>2, <2>2, TraceAssumption
<1> QED
  BY <1>1, <1>2 DEF DoomedRightly

\* Every step keeps the judgement right.
LEMMA JudgementStep == IInv /\ DoomedRightly /\ [Next]_vars => DoomedRightly'
<1> SUFFICES ASSUME IInv, DoomedRightly, [Next]_vars PROVE DoomedRightly'
  OBVIOUS
<1>1. TypeOK /\ TypeOK' /\ DeletionsKnown /\ LockIsHeld
  BY TypeStep DEF IInv
<1>2. /\ now \in Nat /\ now' \in Nat /\ RetentionCount \in Nat /\ Ttl \in Nat
      /\ \A t \in Traces : file[t] \in Int /\ file'[t] \in Int
  BY <1>1, TraceAssumption DEF TypeOK, Absent, Garbage
<1>3. lock = Nobody => doomed = {}
  BY <1>1 DEF DeletionsKnown
<1>4. \A d \in doomed : d \in Traces /\ file[d] >= 0
  BY <1>1 DEF DeletionsKnown, Readable, TypeOK
<1>5. ASSUME doomed' = {} PROVE DoomedRightly'
  BY <1>5 DEF DoomedRightly
<1>6. ASSUME file' = file, doomed' \subseteq doomed, now' >= now,
             doomed' = {} \/ doomed' = doomed
      PROVE  DoomedRightly'
  <2>1. CASE doomed' = doomed
    <3>1. \A d \in doomed' : Outranks(d) \subseteq Outranks(d)'
      BY <1>6, <2>1 DEF Outranks
    <3> QED
      BY <1>1, <1>6, <3>1, StillRightly
  <2> QED
    BY <1>5, <1>6, <2>1
<1>7. ASSUME NEW w \in Writers, Scan(w) PROVE DoomedRightly'
  <2>1. PICK keep \in SUBSET Entries : Kept(keep, now) /\ doomed' = Entries \ keep
    BY <1>7 DEF Scan
  <2>2. \A t \in Entries : t \in Traces /\ file'[t] = file[t] /\ file[t] >= 0
    BY <1>7 DEF Scan, Entries, Readable, Garbage
  <2>3. now' = now
    BY <1>7 DEF Scan
  <2> SUFFICES ASSUME NEW d \in doomed'
               PROVE  file'[d] < now' - Ttl \/ Cardinality(Outranks(d)') >= RetentionCount
    BY DEF DoomedRightly, Outranks
  <2>4. d \in Entries \ keep
    BY <2>1
  <2>5. CASE d \in Outlived(now)
    BY <2>2, <2>3, <2>4, <2>5 DEF Outlived
  <2>6. CASE d \notin Outlived(now)
    <3>1. Cardinality(keep) = RetentionCount /\ \A k \in keep : file[k] >= file[d]
      BY <2>1, <2>4, <2>6 DEF Kept
    <3>2. keep \subseteq Outranks(d)'
      BY <2>1, <2>2, <2>4, <3>1 DEF Outranks
    <3>3. Outranks(d)' \subseteq Traces
      BY DEF Outranks
    <3>4. /\ Cardinality(keep) <= Cardinality(Outranks(d)')
          /\ Cardinality(keep) \in Nat /\ Cardinality(Outranks(d)') \in Nat
      BY <3>2, <3>3, TracesCount
    <3> QED
      BY <1>2, <3>1, <3>4
  <2> QED
    BY <2>5, <2>6
<1>8. ASSUME NEW w \in Writers, NEW t \in Traces, DeleteFile(w, t) PROVE DoomedRightly'
  <2>1. /\ t \in doomed /\ doomed' = doomed \ {t} /\ now' = now
        /\ \A u \in Traces : u # t => file'[u] = file[u]
    BY <1>1, <1>8 DEF DeleteFile, TypeOK
  <2>2. \A d \in doomed' : file'[d] = file[d]
    BY <1>4, <2>1
  <2>3. \A d \in doomed' : Outranks(d) \subseteq Outranks(d)'
    BY <1>4, <2>1 DEF Outranks
  <2> QED
    BY <1>1, <1>2, <2>1, <2>2, <2>3, StillRightly
<1>9. ASSUME NEW t \in Traces, Damage(t) PROVE DoomedRightly'
  <2>1. /\ t \notin doomed /\ doomed' = doomed /\ now' = now
        /\ \A u \in Traces : u # t => file'[u] = file[u]
        /\ file'[t] = file[t] \/ file'[t] = Garbage
    BY <1>1, <1>9 DEF Damage, TypeOK
  <2>2. \A d \in doomed' : file'[d] = file[d]
    BY <1>4, <2>1
  <2>3. \A d \in doomed' : Outranks(d) \subseteq Outranks(d)'
    BY <1>4, <2>1 DEF Outranks
  <2> QED
    BY <1>1, <1>2, <2>1, <2>2, <2>3, StillRightly
<1>10. ASSUME NEW w \in Writers, WriteTrace(w) PROVE DoomedRightly'
  BY <1>3, <1>5, <1>10 DEF WriteTrace
<1>11. ASSUME NEW t \in Traces, Read(t) PROVE DoomedRightly'
  BY <1>3, <1>5, <1>11 DEF Read
<1>12. ASSUME NEW s \in Sessions, ReadLatest(s) PROVE DoomedRightly'
  BY <1>3, <1>5, <1>12 DEF ReadLatest
<1>13. CASE Tick
  BY <1>2, <1>6, <1>13 DEF Tick
<1>14. ASSUME NEW w \in Writers, NEW t \in Traces, Stamp(w, t) PROVE DoomedRightly'
  BY <1>2, <1>6, <1>14 DEF Stamp
<1>15. ASSUME NEW w \in Writers,
              WriteIdIndex(w) \/ WriteSessionIndex(w) \/ Sweep(w) \/ DeleteIdIndex(w)
                \/ DeleteSessionIndex(w) \/ Return(w) \/ Abandon(w)
       PROVE  DoomedRightly'
  <2>1. file' = file /\ now' = now /\ (doomed' = doomed \/ doomed' = {})
    BY <1>15 DEF WriteIdIndex, WriteSessionIndex, Sweep, DeleteIdIndex, DeleteSessionIndex,
       Return, Abandon
  <2> QED
    BY <1>2, <1>6, <2>1
<1>16. CASE UNCHANGED vars
  BY <1>2, <1>6, <1>16 DEF vars
<1> QED
  BY <1>7, <1>8, <1>9, <1>10, <1>11, <1>12, <1>13, <1>14, <1>15, <1>16 DEF Next, Step

\* Nothing but a deletion makes a trace that can be read absent.
LEMMA OnlyDeletionRemoves ==
  ASSUME TypeOK, DeletionsKnown, [Next]_vars, NEW t \in Traces, Readable(t), file'[t] = Absent
  PROVE  \E w \in Writers : DeleteFile(w, t)
<1> USE DEF Absent, Garbage, Readable
<1>1. file' # file
  OBVIOUS
<1>2. ASSUME NEW w \in Writers, WriteTrace(w) PROVE FALSE
  <2>1. job[w].at \in Nat /\ (file'[t] = file[t] \/ file'[t] = job[w].at)
    BY <1>2 DEF WriteTrace, TypeOK
  <2> QED
    BY <2>1
<1>3. ASSUME NEW w \in Writers, Scan(w) PROVE FALSE
  BY <1>3 DEF Scan
<1>4. ASSUME NEW u \in Traces, Read(u) PROVE FALSE
  BY <1>1, <1>4 DEF Read, TypeOK
<1>5. ASSUME NEW s \in Sessions, ReadLatest(s) PROVE FALSE
  BY <1>1, <1>5 DEF ReadLatest, TypeOK
<1>6. ASSUME NEW u \in Traces, Damage(u) PROVE FALSE
  BY <1>1, <1>6 DEF Damage, TypeOK
<1>7. ASSUME NEW w \in Writers, NEW u \in Traces, DeleteFile(w, u) PROVE u = t
  BY <1>7 DEF DeleteFile, TypeOK
<1>8. \/ \E w \in Writers : WriteTrace(w) \/ Scan(w)
      \/ \E w \in Writers, u \in Traces : DeleteFile(w, u)
      \/ \E u \in Traces : Read(u) \/ Damage(u)
      \/ \E s \in Sessions : ReadLatest(s)
  BY <1>1 DEF Next, Step, vars, Tick, Stamp, WriteIdIndex, WriteSessionIndex, Sweep,
     DeleteIdIndex, DeleteSessionIndex, Return, Abandon
<1> QED
  BY <1>2, <1>3, <1>4, <1>5, <1>6, <1>7, <1>8

\* TraceStore.RetentionIsJust: no deletion takes a trace whose time is not over and
\* which RetentionCount others do not outrank, however long after its judgement
\* and whatever was damaged in between (traces.py:224-235).
THEOREM RetentionIsAlwaysJust == Spec => RetentionIsJust
<1> DEFINE Just == \A t \in Traces :
             Readable(t) /\ file'[t] = Absent =>
               \/ file[t] < now - Ttl
               \/ Cardinality({u \in Traces \ {t} : file[u] >= file[t] \/ file[u] = Garbage})
                    >= RetentionCount
<1>1. IInv /\ DoomedRightly /\ [Next]_vars => Just
  <2> SUFFICES ASSUME IInv, DoomedRightly, [Next]_vars, NEW t \in Traces, Readable(t),
                      file'[t] = Absent, ~(file[t] < now - Ttl)
               PROVE  Cardinality({u \in Traces \ {t} : file[u] >= file[t] \/ file[u] = Garbage})
                        >= RetentionCount
    OBVIOUS
  <2> DEFINE Others == {u \in Traces \ {t} : file[u] >= file[t] \/ file[u] = Garbage}
  <2>1. t \in doomed
    BY OnlyDeletionRemoves DEF IInv, DeleteFile
  <2>2. Cardinality(Outranks(t)) >= RetentionCount
    BY <2>1 DEF DoomedRightly
  <2>3. Outranks(t) \subseteq Others /\ Others \subseteq Traces
    BY <2>1 DEF Outranks
  <2>4. /\ Cardinality(Outranks(t)) <= Cardinality(Others)
        /\ Cardinality(Outranks(t)) \in Nat /\ Cardinality(Others) \in Nat
    BY <2>3, TracesCount
  <2> HIDE DEF Others
  <2>5. Cardinality(Others) >= RetentionCount
    BY <2>2, <2>4, TraceAssumption
  <2> QED
    BY <2>5 DEF Others
<1>2. Init => DoomedRightly
  BY DEF Init, DoomedRightly
<1>3. IInv /\ DoomedRightly /\ [Next]_vars => [Just]_vars
  BY <1>1
<1> QED
  BY <1>2, <1>3, IInvCorrect, JudgementStep, PTL DEF Spec, RetentionIsJust
=============================================================================
