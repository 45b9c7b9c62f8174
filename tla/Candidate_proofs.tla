-------------------------- MODULE Candidate_proofs --------------------------
(***************************************************************************)
(* Proofs about Candidate, for every set of statements and tasks, every    *)
(* order of a loop, every budget and every duration of the processes.      *)
(*                                                                         *)
(* IInv is about the way from one check to the next, RunsAreReal adds what *)
(* was run.  From there on the proofs are about the policy and the runtime *)
(* as functions of a chunk, by induction over its statements, the keys of  *)
(* a path, the turns of a loop and the levels of a result (Counting):      *)
(* Sound is what a run may hold when some roots are noted, Kept what the   *)
(* policy knows of it, Free what its locals leave alone.                   *)
(***************************************************************************)
EXTENDS Candidate, SequenceTheorems, FiniteSetTheorems, WellFoundedInduction, TLAPS
-----------------------------------------------------------------------------
(* Numbers and sequences. *)

\* Induction: a set that holds 0 and with a number the next one holds all of them.
LEMMA Counting ==
  ASSUME NEW T, 0 \in T, \A n \in T \cap Nat : n + 1 \in T
  PROVE  Nat \subseteq T
<1> DEFINE Rest == {n \in Nat : n \notin T}
<1> SUFFICES ASSUME Rest # {} PROVE FALSE
  OBVIOUS
<1>1. \E x \in Rest : \A y \in Rest : ~(<<y, x>> \in OpToRel(<, Nat))
  <2>1. Rest \subseteq Nat
    OBVIOUS
  <2> HIDE DEF Rest
  <2> QED
    BY <2>1, NatLessThanWellFounded, WFMin
<1>2. PICK x \in Rest : \A y \in Rest : ~(y < x)
  BY <1>1 DEF OpToRel
<1>3. x # 0 /\ x - 1 \in Nat
  OBVIOUS
<1>4. x - 1 \in T
  BY <1>2, <1>3
<1>5. x \in T
  BY <1>3, <1>4
<1> QED
  BY <1>5

\* A number reached from below: a property of 0 that each step up to N keeps.
LEMMA CountingUp ==
  ASSUME NEW N \in Nat, NEW T, 0 \in T, \A n \in 0..N - 1 : n \in T => n + 1 \in T
  PROVE  0..N \subseteq T
<1> DEFINE U == {n \in Nat : n <= N => n \in T}
<1>1. 0 \in U /\ \A n \in U \cap Nat : n + 1 \in U
  OBVIOUS
<1>2. Nat \subseteq U
  <2> HIDE DEF U
  <2> QED
    BY <1>1, Counting
<1> QED
  BY <1>2

\* The largest of some numbers.
LEMMA Largest ==
  ASSUME NEW N \in Nat, NEW S \in SUBSET (0..N), S # {}
  PROVE  Max(S) \in S /\ \A x \in S : Max(S) >= x
<1> DEFINE T == {n \in Nat : (\E x \in S : x >= N - n) => \E y \in S : \A x \in S : y >= x}
<1>1. 0 \in T
  <2>1. ASSUME NEW x \in S, x >= N - 0 PROVE \A z \in S : x >= z
    BY <2>1
  <2> QED
    BY <2>1
<1>2. ASSUME NEW n \in Nat, n \in T PROVE n + 1 \in T
  <2> SUFFICES ASSUME NEW x \in S, x >= N - (n + 1) PROVE \E y \in S : \A z \in S : y >= z
    OBVIOUS
  <2>1. CASE \E z \in S : z >= N - n
    BY <1>2, <2>1
  <2>2. CASE ~\E z \in S : z >= N - n
    <3>1. \A z \in S : z < N - n /\ z \in Int
      BY <2>2
    <3> QED
      BY <3>1
  <2> QED
    BY <2>1, <2>2
<1>3. N \in T
  <2> HIDE DEF T
  <2> QED
    BY <1>1, <1>2, Counting
<1>4. \E y \in S : \A x \in S : y >= x
  <2>1. PICK x \in S : TRUE
    OBVIOUS
  <2>2. x >= N - N
    OBVIOUS
  <2> QED
    BY <1>3, <2>2
<1> QED
  BY <1>4 DEF Max

\* The innermost scope of a name.
LEMMA OwnerIs ==
  ASSUME NEW scopes, NEW N \in Nat, DOMAIN scopes = 1..N, NEW x
  PROVE  /\ Owner(scopes, x) \in 0..N
         /\ Owner(scopes, x) # 0 => x \in DOMAIN scopes[Owner(scopes, x)]
         /\ Owner(scopes, x) = 0 => \A i \in 1..N : x \notin DOMAIN scopes[i]
         /\ \A i \in 1..N : x \in DOMAIN scopes[i] => i <= Owner(scopes, x)
<1> DEFINE S == {0} \cup {i \in DOMAIN scopes : x \in DOMAIN scopes[i]}
<1>1. S \in SUBSET (0..N) /\ S # {}
  OBVIOUS
<1>2. Max(S) \in S /\ \A y \in S : Max(S) >= y
  <2> HIDE DEF S
  <2> QED
    BY <1>1, Largest
<1>3. Owner(scopes, x) = Max(S)
  BY DEF Owner
<1>4. PICK m : m = Max(S)
  OBVIOUS
<1>5. m \in 0..N /\ (m # 0 => x \in DOMAIN scopes[m]) /\ \A i \in 1..N : x \in DOMAIN scopes[i] => i <= m
  BY <1>1, <1>2, <1>4
<1>6. m = 0 => \A i \in 1..N : x \notin DOMAIN scopes[i]
  BY <1>5
<1> QED
  BY <1>3, <1>4, <1>5, <1>6

\* Stacks of scopes that declare the same names agree on who owns one.
LEMMA SameOwner ==
  ASSUME NEW a, NEW b, DOMAIN a = DOMAIN b, \A i \in DOMAIN a : DOMAIN a[i] = DOMAIN b[i], NEW x
  PROVE  Owner(a, x) = Owner(b, x)
BY DEF Owner

\* The policy goes from statement to statement,
LEMMA AnalysisUnfolds ==
  ASSUME NEW chunk, Len(chunk) \in Nat
  PROVE  /\ DOMAIN Analysis(chunk) = 0..Len(chunk)
         /\ Analysis(chunk)[0] = [scopes |-> << <<>> >>, findings |-> {}]
         /\ \A n \in 1..Len(chunk) : Analysis(chunk)[n] = VisitBlock(Analysis(chunk)[n - 1], chunk[n])
<1>0. PICK base : base = [scopes |-> << <<>> >>, findings |-> {}]
  OBVIOUS
<1> DEFINE Is(g, m) == g = [n \in 0..m |-> IF n = 0 THEN base ELSE VisitBlock(g[n - 1], chunk[n])]
           T == {m \in Nat : \E g : Is(g, m)}
<1>1. 0 \in T
  <2>1. Is([n \in 0..0 |-> base], 0)
    OBVIOUS
  <2> QED
    BY <2>1
<1>2. ASSUME NEW m \in Nat, m \in T PROVE m + 1 \in T
  <2>1. PICK g : Is(g, m)
    BY <1>2
  <2>2. PICK h : h = [n \in 0..m + 1 |-> IF n = 0 THEN base ELSE VisitBlock(g[n - 1], chunk[n])]
    OBVIOUS
  <2>3. \A n \in 0..m : h[n] = g[n]
    <3>1. \A n \in 0..m : g[n] = IF n = 0 THEN base ELSE VisitBlock(g[n - 1], chunk[n])
      BY <2>1
    <3>2. \A n \in 0..m : n \in 0..m + 1
      OBVIOUS
    <3>3. \A n \in 0..m + 1 : h[n] = IF n = 0 THEN base ELSE VisitBlock(g[n - 1], chunk[n])
      BY <2>2
    <3> QED
      BY <3>1, <3>2, <3>3
  <2>4. \A n \in 0..m + 1 : n # 0 => n - 1 \in 0..m
    OBVIOUS
  <2>5. h = [n \in 0..m + 1 |-> IF n = 0 THEN base ELSE VisitBlock(h[n - 1], chunk[n])]
    BY <2>2, <2>3, <2>4
  <2> HIDE DEF Is
  <2>6. Is(h, m + 1)
    BY <2>5 DEF Is
  <2> QED
    BY <2>6
<1>3. Len(chunk) \in T
  <2>1. Len(chunk) \in Nat
    OBVIOUS
  <2> HIDE DEF T
  <2> QED
    BY <1>1, <1>2, <2>1, Counting
<1>4. Analysis(chunk) = [n \in 0..Len(chunk) |-> IF n = 0 THEN base ELSE VisitBlock(Analysis(chunk)[n - 1], chunk[n])]
  <2>1. PICK g : Is(g, Len(chunk))
    BY <1>3
  <2> QED
    BY <1>0, <2>1 DEF Analysis
<1> QED
  <2>1. Len(chunk) \in Nat
    OBVIOUS
  <2>2. DOMAIN Analysis(chunk) = 0..Len(chunk) /\ Analysis(chunk)[0] = base
        /\ \A n \in 1..Len(chunk) : Analysis(chunk)[n] = VisitBlock(Analysis(chunk)[n - 1], chunk[n])
    BY <1>4, <2>1
  <2> QED
    BY <1>0, <2>2

\* ... the runtime from key to key of a path,
LEMMA WalkUnfolds ==
  ASSUME NEW r, NEW keys, Len(keys) \in Nat
  PROVE  /\ DOMAIN Walk(r, keys) = 0..Len(keys)
         /\ Walk(r, keys)[0] = r
         /\ \A n \in 1..Len(keys) : Walk(r, keys)[n] = Index(Walk(r, keys)[n - 1], keys[n])
<1>0. PICK base : base = r
  OBVIOUS
<1> DEFINE Is(g, m) == g = [n \in 0..m |-> IF n = 0 THEN base ELSE Index(g[n - 1], keys[n])]
           T == {m \in Nat : \E g : Is(g, m)}
<1>1. 0 \in T
  <2>1. Is([n \in 0..0 |-> base], 0)
    OBVIOUS
  <2> QED
    BY <2>1
<1>2. ASSUME NEW m \in Nat, m \in T PROVE m + 1 \in T
  <2>1. PICK g : Is(g, m)
    BY <1>2
  <2>2. PICK h : h = [n \in 0..m + 1 |-> IF n = 0 THEN base ELSE Index(g[n - 1], keys[n])]
    OBVIOUS
  <2>3. \A n \in 0..m : h[n] = g[n]
    <3>1. \A n \in 0..m : g[n] = IF n = 0 THEN base ELSE Index(g[n - 1], keys[n])
      BY <2>1
    <3>2. \A n \in 0..m : n \in 0..m + 1
      OBVIOUS
    <3>3. \A n \in 0..m + 1 : h[n] = IF n = 0 THEN base ELSE Index(g[n - 1], keys[n])
      BY <2>2
    <3> QED
      BY <3>1, <3>2, <3>3
  <2>4. \A n \in 0..m + 1 : n # 0 => n - 1 \in 0..m
    OBVIOUS
  <2>5. h = [n \in 0..m + 1 |-> IF n = 0 THEN base ELSE Index(h[n - 1], keys[n])]
    BY <2>2, <2>3, <2>4
  <2> HIDE DEF Is
  <2>6. Is(h, m + 1)
    BY <2>5 DEF Is
  <2> QED
    BY <2>6
<1>3. Len(keys) \in T
  <2>1. Len(keys) \in Nat
    OBVIOUS
  <2> HIDE DEF T
  <2> QED
    BY <1>1, <1>2, <2>1, Counting
<1>4. Walk(r, keys) = [n \in 0..Len(keys) |-> IF n = 0 THEN base ELSE Index(Walk(r, keys)[n - 1], keys[n])]
  <2>1. PICK g : Is(g, Len(keys))
    BY <1>3
  <2> QED
    BY <1>0, <2>1 DEF Walk
<1> QED
  <2>1. Len(keys) \in Nat
    OBVIOUS
  <2>2. DOMAIN Walk(r, keys) = 0..Len(keys) /\ Walk(r, keys)[0] = base
        /\ \A n \in 1..Len(keys) : Walk(r, keys)[n] = Index(Walk(r, keys)[n - 1], keys[n])
    BY <1>4, <2>1
  <2> QED
    BY <1>0, <2>2

\* ... from statement to statement of a chunk,
LEMMA RunUnfolds ==
  ASSUME NEW chunk, NEW context, NEW order, Len(chunk) \in Nat
  PROVE  /\ DOMAIN Run(chunk, context, order) = 0..Len(chunk)
         /\ Run(chunk, context, order)[0] = Started(context)
         /\ \A n \in 1..Len(chunk) : Run(chunk, context, order)[n] = Execute(Run(chunk, context, order)[n - 1], chunk[n], order)
<1>0. PICK base : base = Started(context)
  OBVIOUS
<1> DEFINE Is(g, m) == g = [n \in 0..m |-> IF n = 0 THEN base ELSE Execute(g[n - 1], chunk[n], order)]
           T == {m \in Nat : \E g : Is(g, m)}
<1>1. 0 \in T
  <2>1. Is([n \in 0..0 |-> base], 0)
    OBVIOUS
  <2> QED
    BY <2>1
<1>2. ASSUME NEW m \in Nat, m \in T PROVE m + 1 \in T
  <2>1. PICK g : Is(g, m)
    BY <1>2
  <2>2. PICK h : h = [n \in 0..m + 1 |-> IF n = 0 THEN base ELSE Execute(g[n - 1], chunk[n], order)]
    OBVIOUS
  <2>3. \A n \in 0..m : h[n] = g[n]
    <3>1. \A n \in 0..m : g[n] = IF n = 0 THEN base ELSE Execute(g[n - 1], chunk[n], order)
      BY <2>1
    <3>2. \A n \in 0..m : n \in 0..m + 1
      OBVIOUS
    <3>3. \A n \in 0..m + 1 : h[n] = IF n = 0 THEN base ELSE Execute(g[n - 1], chunk[n], order)
      BY <2>2
    <3> QED
      BY <3>1, <3>2, <3>3
  <2>4. \A n \in 0..m + 1 : n # 0 => n - 1 \in 0..m
    OBVIOUS
  <2>5. h = [n \in 0..m + 1 |-> IF n = 0 THEN base ELSE Execute(h[n - 1], chunk[n], order)]
    BY <2>2, <2>3, <2>4
  <2> HIDE DEF Is
  <2>6. Is(h, m + 1)
    BY <2>5 DEF Is
  <2> QED
    BY <2>6
<1>3. Len(chunk) \in T
  <2>1. Len(chunk) \in Nat
    OBVIOUS
  <2> HIDE DEF T
  <2> QED
    BY <1>1, <1>2, <2>1, Counting
<1>4. Run(chunk, context, order) = [n \in 0..Len(chunk) |->
          IF n = 0 THEN base ELSE Execute(Run(chunk, context, order)[n - 1], chunk[n], order)]
  <2>1. PICK g : Is(g, Len(chunk))
    BY <1>3
  <2> QED
    BY <1>0, <2>1 DEF Run
<1> QED
  <2>1. Len(chunk) \in Nat
    OBVIOUS
  <2>2. DOMAIN Run(chunk, context, order) = 0..Len(chunk) /\ Run(chunk, context, order)[0] = base
        /\ \A n \in 1..Len(chunk) : Run(chunk, context, order)[n] = Execute(Run(chunk, context, order)[n - 1], chunk[n], order)
    BY <1>4, <2>1
  <2> QED
    BY <1>0, <2>2

\* ... from turn to turn of a loop,
LEMMA TurnsUnfold ==
  ASSUME NEW r, NEW s, NEW table, NEW order, Len(order) \in Nat
  PROVE  /\ DOMAIN Turns(r, s, table, order) = 0..Len(order)
         /\ Turns(r, s, table, order)[0] = r
         /\ \A n \in 1..Len(order) : Turns(r, s, table, order)[n] =
                IF order[n] \in DOMAIN Content(r, table)
                THEN Turn(Turns(r, s, table, order)[n - 1], s, table, order[n])
                ELSE Turns(r, s, table, order)[n - 1]
<1>0. PICK base : base = r
  OBVIOUS
<1> DEFINE Is(g, m) == g = [n \in 0..m |-> IF n = 0 THEN base ELSE
        IF order[n] \in DOMAIN Content(r, table)
        THEN Turn(g[n - 1], s, table, order[n])
        ELSE g[n - 1]]
           T == {m \in Nat : \E g : Is(g, m)}
<1>1. 0 \in T
  <2>1. Is([n \in 0..0 |-> base], 0)
    OBVIOUS
  <2> QED
    BY <2>1
<1>2. ASSUME NEW m \in Nat, m \in T PROVE m + 1 \in T
  <2>1. PICK g : Is(g, m)
    BY <1>2
  <2>2. PICK h : h = [n \in 0..m + 1 |-> IF n = 0 THEN base ELSE
            IF order[n] \in DOMAIN Content(r, table)
            THEN Turn(g[n - 1], s, table, order[n])
            ELSE g[n - 1]]
    OBVIOUS
  <2>3. \A n \in 0..m : h[n] = g[n]
    <3>1. \A n \in 0..m : g[n] = IF n = 0 THEN base ELSE
              IF order[n] \in DOMAIN Content(r, table)
              THEN Turn(g[n - 1], s, table, order[n])
              ELSE g[n - 1]
      BY <2>1
    <3>2. \A n \in 0..m : n \in 0..m + 1
      OBVIOUS
    <3>3. \A n \in 0..m + 1 : h[n] = IF n = 0 THEN base ELSE
              IF order[n] \in DOMAIN Content(r, table)
              THEN Turn(g[n - 1], s, table, order[n])
              ELSE g[n - 1]
      BY <2>2
    <3> QED
      BY <3>1, <3>2, <3>3
  <2>4. \A n \in 0..m + 1 : n # 0 => n - 1 \in 0..m
    OBVIOUS
  <2>5. h = [n \in 0..m + 1 |-> IF n = 0 THEN base ELSE
            IF order[n] \in DOMAIN Content(r, table)
            THEN Turn(h[n - 1], s, table, order[n])
            ELSE h[n - 1]]
    BY <2>2, <2>3, <2>4
  <2> HIDE DEF Is
  <2>6. Is(h, m + 1)
    BY <2>5 DEF Is
  <2> QED
    BY <2>6
<1>3. Len(order) \in T
  <2>1. Len(order) \in Nat
    OBVIOUS
  <2> HIDE DEF T
  <2> QED
    BY <1>1, <1>2, <2>1, Counting
<1>4. Turns(r, s, table, order) = [n \in 0..Len(order) |-> IF n = 0 THEN base ELSE
          IF order[n] \in DOMAIN Content(r, table)
          THEN Turn(Turns(r, s, table, order)[n - 1], s, table, order[n])
          ELSE Turns(r, s, table, order)[n - 1]]
  <2>1. PICK g : Is(g, Len(order))
    BY <1>3
  <2> QED
    BY <1>0, <2>1 DEF Turns
<1> QED
  <2>1. Len(order) \in Nat
    OBVIOUS
  <2>2. DOMAIN Turns(r, s, table, order) = 0..Len(order) /\ Turns(r, s, table, order)[0] = base
        /\ \A n \in 1..Len(order) : Turns(r, s, table, order)[n] =
               IF order[n] \in DOMAIN Content(r, table)
               THEN Turn(Turns(r, s, table, order)[n - 1], s, table, order[n])
               ELSE Turns(r, s, table, order)[n - 1]
    BY <1>4, <2>1
  <2> QED
    BY <1>0, <2>2

\* ... and the result is written level by level.
LEMMA JsonUnfolds ==
  ASSUME NEW r
  PROVE  /\ DOMAIN Json(r) = 0..MaxDepth
         /\ Json(r)[0] = Level(r, 0, <<>>)
         /\ \A n \in 1..MaxDepth : Json(r)[n] = Level(r, n, Json(r)[n - 1])
<1>0. PICK base : base = Level(r, 0, <<>>)
  OBVIOUS
<1> DEFINE Is(g, m) == g = [n \in 0..m |-> IF n = 0 THEN base ELSE Level(r, n, g[n - 1])]
           T == {m \in Nat : \E g : Is(g, m)}
<1>1. 0 \in T
  <2>1. Is([n \in 0..0 |-> base], 0)
    OBVIOUS
  <2> QED
    BY <2>1
<1>2. ASSUME NEW m \in Nat, m \in T PROVE m + 1 \in T
  <2>1. PICK g : Is(g, m)
    BY <1>2
  <2>2. PICK h : h = [n \in 0..m + 1 |-> IF n = 0 THEN base ELSE Level(r, n, g[n - 1])]
    OBVIOUS
  <2>3. \A n \in 0..m : h[n] = g[n]
    <3>1. \A n \in 0..m : g[n] = IF n = 0 THEN base ELSE Level(r, n, g[n - 1])
      BY <2>1
    <3>2. \A n \in 0..m : n \in 0..m + 1
      OBVIOUS
    <3>3. \A n \in 0..m + 1 : h[n] = IF n = 0 THEN base ELSE Level(r, n, g[n - 1])
      BY <2>2
    <3> QED
      BY <3>1, <3>2, <3>3
  <2>4. \A n \in 0..m + 1 : n # 0 => n - 1 \in 0..m
    OBVIOUS
  <2>5. h = [n \in 0..m + 1 |-> IF n = 0 THEN base ELSE Level(r, n, h[n - 1])]
    BY <2>2, <2>3, <2>4
  <2> HIDE DEF Is
  <2>6. Is(h, m + 1)
    BY <2>5 DEF Is
  <2> QED
    BY <2>6
<1>3. MaxDepth \in T
  <2>1. MaxDepth \in Nat
    BY CandidateAssumption
  <2> HIDE DEF T
  <2> QED
    BY <1>1, <1>2, <2>1, Counting
<1>4. Json(r) = [n \in 0..MaxDepth |-> IF n = 0 THEN base ELSE Level(r, n, Json(r)[n - 1])]
  <2>1. PICK g : Is(g, MaxDepth)
    BY <1>3
  <2> QED
    BY <1>0, <2>1 DEF Json
<1> QED
  <2>1. MaxDepth \in Nat
    BY CandidateAssumption
  <2>2. DOMAIN Json(r) = 0..MaxDepth /\ Json(r)[0] = base
        /\ \A n \in 1..MaxDepth : Json(r)[n] = Level(r, n, Json(r)[n - 1])
    BY <1>4, <2>1
  <2> QED
    BY <1>0, <2>2

\* A function on 1..n, whatever its items.
IsSequence(s) == Len(s) \in Nat /\ s = [i \in 1..Len(s) |-> s[i]]

\* A function on 1..N is a sequence of N items,
LEMMA LenIs == ASSUME NEW s, NEW N \in Nat, s = [i \in 1..N |-> s[i]] PROVE Len(s) = N /\ IsSequence(s)
BY DEF IsSequence

\* ... as its domain alone tells.
LEMMA LenIs2 == ASSUME NEW s, NEW N \in Nat, DOMAIN s = 1..N PROVE Len(s) = N
OBVIOUS

\* A sequence with an item replaced is as long as before.
LEMMA Excepted == ASSUME NEW s, IsSequence(s), NEW i, NEW e
 PROVE IsSequence([s EXCEPT ![i] = e]) /\ Len([s EXCEPT ![i] = e]) = Len(s)
<1> DEFINE q == [s EXCEPT ![i] = e]
<1>1. q = [j \in 1..Len(s) |-> q[j]]
  BY DEF IsSequence
<1> HIDE DEF q
<1>2. Len(s) \in Nat
  BY DEF IsSequence
<1> QED BY <1>1, <1>2, LenIs

\* All of a sequence but its last item.
LEMMA Fronts == ASSUME NEW s, IsSequence(s), Len(s) # 0
 PROVE IsSequence(Front(s)) /\ Len(Front(s)) = Len(s) - 1 /\ \A i \in 1..Len(s)-1 : Front(s)[i] = s[i]
<1>1. Front(s) = [i \in 1..Len(s)-1 |-> s[i]]
  BY DEF IsSequence, Front
<1> QED BY <1>1, LenIs DEF IsSequence

\* A sequence in the sense of the library.
LEMMA SequenceType == ASSUME NEW s, IsSequence(s) PROVE \E S : s \in Seq(S)
<1> DEFINE S == {s[i] : i \in 1..Len(s)}
<1>1. s \in [1..Len(s) -> S]
  BY DEF IsSequence
<1>2. s \in Seq(S)
  BY <1>1, SeqDef DEF IsSequence
<1> QED
  BY <1>2

\* What appending does to a sequence.
LEMMA Appended ==
  ASSUME NEW s, IsSequence(s), NEW e
  PROVE  /\ IsSequence(Append(s, e)) /\ Len(Append(s, e)) = Len(s) + 1
         /\ DOMAIN s = 1..Len(s) /\ DOMAIN Append(s, e) = 1..(Len(s) + 1)
         /\ \A i \in 1..Len(s) : Append(s, e)[i] = s[i]
         /\ Append(s, e)[Len(s) + 1] = e
<1>1. PICK S : s \in Seq(S)
  BY SequenceType
<1>2. s \in Seq(S \cup {e}) /\ e \in S \cup {e}
  BY <1>1, SeqMonotonic
<1>3. /\ Append(s, e) \in Seq(S \cup {e}) /\ Len(Append(s, e)) = Len(s) + 1
      /\ \A i \in 1..Len(s) : Append(s, e)[i] = s[i]
      /\ Append(s, e)[Len(s) + 1] = e
  BY <1>2, AppendProperties
<1>4. Len(Append(s, e)) \in Nat /\ Append(s, e) \in [1..Len(Append(s, e)) -> S \cup {e}]
      /\ DOMAIN Append(s, e) = 1..Len(Append(s, e)) /\ DOMAIN s = 1..Len(s)
  BY <1>2, <1>3, LenProperties
<1>5. IsSequence(Append(s, e))
  BY <1>4 DEF IsSequence
<1> QED
  BY <1>3, <1>4, <1>5

-----------------------------------------------------------------------------
(* What a run of a chunk may hold. *)

\* What of the input may be known when the roots in reads have been read.
Reached(in, reads) == {p \in DOMAIN in : p # <<>> /\ p[1] \in Roots => p[1] \in reads}

\* The scalars a run may have: literals, functions, and those of the input that may be known.
Scalars(in, reads) ==
  {"nil", "0"} \cup Functions \cup ({in[p] : p \in Reached(in, reads)} \ {"object", "array", "table"})

\* The values a run may have, and those it has.
Values(in, reads, tables) ==
  [val : Scalars(in, reads)] \cup [own : tables] \cup [input : Reached(in, reads)]

Held(r) == Values(r.input, r.reads, 1..Len(r.heap))

\* A function from strings to values.
MapsTo(f, S) == DOMAIN f \subseteq Names /\ \A k \in DOMAIN f : f[k] \in S

\* The fields of a run.
IsRecord(r) ==
  r = [env |-> r.env, heap |-> r.heap, input |-> r.input, reads |-> r.reads, acc |-> r.acc,
       error |-> r.error]

IsRun(r) == IsRecord(r) /\ IsSequence(r.env) /\ IsSequence(r.heap)

\* The updates of a run, one or two fields at a time, leave the other fields alone: the value in acc,
LEMMA SetAcc ==
  ASSUME NEW r, IsRecord(r), NEW x
  PROVE  [r EXCEPT !.acc = x] =
           [env |-> r.env, heap |-> r.heap, input |-> r.input, reads |-> r.reads, acc |-> x, error |-> r.error]
BY DEF IsRecord

\* ... the error,
LEMMA SetError ==
  ASSUME NEW r, IsRecord(r), NEW x
  PROVE  [r EXCEPT !.error = x] =
           [env |-> r.env, heap |-> r.heap, input |-> r.input, reads |-> r.reads, acc |-> r.acc, error |-> x]
BY DEF IsRecord

\* ... the scopes,
LEMMA SetEnv ==
  ASSUME NEW r, IsRecord(r), NEW x
  PROVE  [r EXCEPT !.env = x] =
           [env |-> x, heap |-> r.heap, input |-> r.input, reads |-> r.reads, acc |-> r.acc, error |-> r.error]
BY DEF IsRecord

\* ... the tables,
LEMMA SetHeap ==
  ASSUME NEW r, IsRecord(r), NEW x
  PROVE  [r EXCEPT !.heap = x] =
           [env |-> r.env, heap |-> x, input |-> r.input, reads |-> r.reads, acc |-> r.acc, error |-> r.error]
BY DEF IsRecord

\* ... the roots read,
LEMMA SetReads ==
  ASSUME NEW r, IsRecord(r), NEW x
  PROVE  [r EXCEPT !.reads = x] =
           [env |-> r.env, heap |-> r.heap, input |-> r.input, reads |-> x, acc |-> r.acc, error |-> r.error]
BY DEF IsRecord

\* ... error and value,
LEMMA SetErrorAcc ==
  ASSUME NEW r, IsRecord(r), NEW x, NEW y
  PROVE  [r EXCEPT !.error = x, !.acc = y] =
           [env |-> r.env, heap |-> r.heap, input |-> r.input, reads |-> r.reads, acc |-> y, error |-> x]
<1>1. [r EXCEPT !.error = x, !.acc = y] = [[r EXCEPT !.error = x] EXCEPT !.acc = y]
  BY DEF IsRecord
<1>2. PICK q : q = [r EXCEPT !.error = x]
  OBVIOUS
<1>3. q = [env |-> r.env, heap |-> r.heap, input |-> r.input, reads |-> r.reads, acc |-> r.acc, error |-> x]
  BY <1>2, SetError
<1>4. IsRecord(q)
  BY <1>3 DEF IsRecord
<1>5. [q EXCEPT !.acc = y] =
        [env |-> q.env, heap |-> q.heap, input |-> q.input, reads |-> q.reads, acc |-> y, error |-> q.error]
  BY <1>4, SetAcc
<1> QED
  BY <1>1, <1>2, <1>3, <1>5

\* ... value and roots,
LEMMA SetAccReads ==
  ASSUME NEW r, IsRecord(r), NEW x, NEW y
  PROVE  [r EXCEPT !.acc = x, !.reads = y] =
           [env |-> r.env, heap |-> r.heap, input |-> r.input, reads |-> y, acc |-> x, error |-> r.error]
<1>1. [r EXCEPT !.acc = x, !.reads = y] = [[r EXCEPT !.acc = x] EXCEPT !.reads = y]
  BY DEF IsRecord
<1>2. PICK q : q = [r EXCEPT !.acc = x]
  OBVIOUS
<1>3. q = [env |-> r.env, heap |-> r.heap, input |-> r.input, reads |-> r.reads, acc |-> x, error |-> r.error]
  BY <1>2, SetAcc
<1>4. IsRecord(q)
  BY <1>3 DEF IsRecord
<1>5. [q EXCEPT !.reads = y] =
        [env |-> q.env, heap |-> q.heap, input |-> q.input, reads |-> y, acc |-> q.acc, error |-> q.error]
  BY <1>4, SetReads
<1> QED
  BY <1>1, <1>2, <1>3, <1>5

\* ... tables and value.
LEMMA SetHeapAcc ==
  ASSUME NEW r, IsRecord(r), NEW x, NEW y
  PROVE  [r EXCEPT !.heap = x, !.acc = y] =
           [env |-> r.env, heap |-> x, input |-> r.input, reads |-> r.reads, acc |-> y, error |-> r.error]
<1>1. [r EXCEPT !.heap = x, !.acc = y] = [[r EXCEPT !.heap = x] EXCEPT !.acc = y]
  BY DEF IsRecord
<1>2. PICK q : q = [r EXCEPT !.heap = x]
  OBVIOUS
<1>3. q = [env |-> r.env, heap |-> x, input |-> r.input, reads |-> r.reads, acc |-> r.acc, error |-> r.error]
  BY <1>2, SetHeap
<1>4. IsRecord(q)
  BY <1>3 DEF IsRecord
<1>5. [q EXCEPT !.acc = y] =
        [env |-> q.env, heap |-> q.heap, input |-> q.input, reads |-> q.reads, acc |-> y, error |-> q.error]
  BY <1>4, SetAcc
<1> QED
  BY <1>1, <1>2, <1>3, <1>5

\* What a run holds, in its locals, its tables and acc, is from where its noted roots allow; the
\* library is among its tables.
Sound(r) ==
  /\ IsRun(r) /\ <<>> \in DOMAIN r.input /\ DOMAIN r.input \subseteq Seq(Names)
  /\ 3 <= Len(r.heap) /\ \A p \in DOMAIN r.input : r.input[p] \notin Functions
  /\ \A i \in 1..Len(r.env) : MapsTo(r.env[i], Held(r))
  /\ \A i \in 1..Len(r.heap) : /\ r.heap[i] = [mark |-> r.heap[i].mark, items |-> r.heap[i].items]
                               /\ MapsTo(r.heap[i].items, Held(r))
  /\ r.acc \in Held(r)

\* From r to q: a step of a run that stays sound, forgets no root and drops no table.
Leads(r, q) ==
  /\ Sound(q) /\ q.input = r.input /\ Len(q.env) = Len(r.env)
  /\ r.reads \subseteq q.reads /\ Len(r.heap) <= Len(q.heap)

\* With more roots read and more tables made, more values may be held.
LEMMA HeldGrows ==
  ASSUME NEW in, NEW reads, NEW more, reads \subseteq more, NEW m \in Nat, NEW n \in Nat, m <= n
  PROVE  /\ Reached(in, reads) \subseteq Reached(in, more)
         /\ Values(in, reads, 1..m) \subseteq Values(in, more, 1..n)
<1>1. Reached(in, reads) \subseteq Reached(in, more)
  BY DEF Reached
<1>2. Scalars(in, reads) \subseteq Scalars(in, more)
  BY <1>1 DEF Scalars
<1>3. 1..m \subseteq 1..n
  OBVIOUS
<1> QED
  BY <1>1, <1>2, <1>3 DEF Values

\* The shape of a run.
LEMMA HeldType == ASSUME NEW r, Sound(r)
  PROVE IsRecord(r) /\ IsSequence(r.env) /\ IsSequence(r.heap) /\ Len(r.env) \in Nat /\ Len(r.heap) \in Nat
        /\ DOMAIN r.heap = 1..Len(r.heap) /\ DOMAIN r.env = 1..Len(r.env)
BY DEF Sound, IsRun, IsSequence

\* What a run may hold it may hold later.
LEMMA LeadsGrows ==
  ASSUME NEW r, NEW q, Sound(r), Leads(r, q)
  PROVE  Held(r) \subseteq Held(q)
BY HeldGrows DEF Held, Leads, Sound, IsRun, IsSequence

\* Steps one after the other are a step.
LEMMA LeadsOn ==
  ASSUME NEW r, NEW q, NEW x, Sound(r), Leads(r, q), Leads(q, x)
  PROVE  Leads(r, x)
BY DEF Leads, Sound, IsRun, IsSequence

\* Doing nothing is a step.
LEMMA LeadsStays == ASSUME NEW r, Sound(r) PROVE Leads(r, r)
BY DEF Leads, Sound, IsRun, IsSequence

\* nil, the literal 0 and the functions are from nowhere.
LEMMA NilHeld ==
  ASSUME NEW r
  PROVE  Nil \in Held(r) /\ [val |-> "0"] \in Held(r) /\ \A f \in Functions : [val |-> f] \in Held(r)
BY DEF Held, Values, Scalars, Nil

\* Another value that may be held, or an error, is a step.
LEMMA AccSet ==
  ASSUME NEW r, Sound(r), NEW v \in Held(r), NEW e
  PROVE  Leads(r, [r EXCEPT !.acc = v]) /\ Leads(r, [r EXCEPT !.error = e, !.acc = v])
         /\ Leads(r, [r EXCEPT !.error = e])
<1>1. PICK q, x, y : /\ q = [r EXCEPT !.acc = v] /\ x = [r EXCEPT !.error = e, !.acc = v]
                     /\ y = [r EXCEPT !.error = e]
  OBVIOUS
<1>2. /\ q = [env |-> r.env, heap |-> r.heap, input |-> r.input, reads |-> r.reads, acc |-> v, error |-> r.error]
      /\ x = [env |-> r.env, heap |-> r.heap, input |-> r.input, reads |-> r.reads, acc |-> v, error |-> e]
      /\ y = [env |-> r.env, heap |-> r.heap, input |-> r.input, reads |-> r.reads, acc |-> r.acc, error |-> e]
  <2>1. IsRecord(r)
    BY HeldType
  <2>2. q = [env |-> r.env, heap |-> r.heap, input |-> r.input, reads |-> r.reads, acc |-> v, error |-> r.error]
    BY <1>1, <2>1, SetAcc
  <2>3. x = [env |-> r.env, heap |-> r.heap, input |-> r.input, reads |-> r.reads, acc |-> v, error |-> e]
    BY <1>1, <2>1, SetErrorAcc
  <2>4. y = [env |-> r.env, heap |-> r.heap, input |-> r.input, reads |-> r.reads, acc |-> r.acc, error |-> e]
    BY <1>1, <2>1, SetError
  <2> QED
    BY <2>2, <2>3, <2>4
<1>3. Held(q) = Held(r) /\ Held(x) = Held(r) /\ Held(y) = Held(r)
  BY <1>2 DEF Held
<1>4. Sound(q) /\ Sound(x) /\ Sound(y)
  BY <1>2, <1>3 DEF Sound, IsRun, IsRecord
<1>5. Len(r.heap) \in Nat
  BY HeldType
<1>6. Leads(r, q) /\ Leads(r, x) /\ Leads(r, y)
  BY <1>2, <1>4, <1>5 DEF Leads
<1> QED
  BY <1>1, <1>6

\* Raising an error is a step.
LEMMA Erred == ASSUME NEW r, Sound(r), NEW e PROVE Leads(r, Error(r, e))
BY AccSet, NilHeld DEF Error

\* Noting roots, with a value from under them, is a step.
LEMMA ReadsAdded ==
  ASSUME NEW r, Sound(r), NEW more, NEW v \in Values(r.input, r.reads \cup more, 1..Len(r.heap))
  PROVE  Leads(r, [r EXCEPT !.acc = v, !.reads = @ \cup more])
<1>1. PICK q : q = [r EXCEPT !.acc = v, !.reads = @ \cup more]
  OBVIOUS
<1>2. PICK reads : reads = r.reads \cup more
  OBVIOUS
<1>3. q = [env |-> r.env, heap |-> r.heap, input |-> r.input, reads |-> reads, acc |-> v,
           error |-> r.error]
  <2>1. q = [r EXCEPT !.acc = v, !.reads = reads]
    BY <1>1, <1>2
  <2>2. IsRecord(r)
    BY HeldType
  <2> QED
    BY <2>1, <2>2, SetAccReads
<1>4. Len(r.heap) \in Nat /\ r.reads \subseteq reads
  BY <1>2, HeldType
<1>5. Held(r) \subseteq Held(q) /\ v \in Held(q)
  <2>1. \A n \in Nat : Values(r.input, r.reads, 1..n) \subseteq Values(r.input, reads, 1..n)
    <3> SUFFICES ASSUME NEW n \in Nat PROVE Values(r.input, r.reads, 1..n) \subseteq Values(r.input, reads, 1..n)
      OBVIOUS
    <3>1. n <= n
      OBVIOUS
    <3> QED
      BY ONLY <3>1, <1>4, n \in Nat, HeldGrows
  <2> QED
    BY <1>2, <1>3, <1>4, <2>1 DEF Held
<1>6. Sound(q)
  BY <1>3, <1>5 DEF Sound, IsRun, IsRecord, MapsTo
<1> QED
  BY <1>1, <1>3, <1>4, <1>6 DEF Leads

\* More or other tables of values that may be held are a step.
LEMMA HeapSet ==
  ASSUME NEW r, Sound(r), NEW heap, IsSequence(heap), Len(r.heap) <= Len(heap),
         NEW v, v \in Values(r.input, r.reads, 1..Len(heap)),
         \A i \in 1..Len(heap) : /\ heap[i] = [mark |-> heap[i].mark, items |-> heap[i].items]
                                 /\ MapsTo(heap[i].items, Values(r.input, r.reads, 1..Len(heap))),
         NEW q, q = [env |-> r.env, heap |-> heap, input |-> r.input, reads |-> r.reads, acc |-> v,
                     error |-> r.error]
  PROVE  Leads(r, q)
<1>3. Len(r.heap) \in Nat /\ Len(heap) \in Nat
  BY HeldType DEF IsSequence
<1>4. Held(q) = Values(r.input, r.reads, 1..Len(heap))
  BY DEF Held
<1>5. Held(r) \subseteq Held(q)
  BY ONLY <1>3, <1>4, Len(r.heap) <= Len(heap), HeldGrows DEF Held
<1>6. Sound(q)
  BY <1>4, <1>5 DEF Sound, IsRun, IsRecord, MapsTo
<1> QED
  BY <1>3, <1>6 DEF Leads

\* Scopes of values that may be held are sound; if as many as before, a step.
LEMMA EnvSet ==
  ASSUME NEW r, Sound(r), NEW env, IsSequence(env), \A i \in 1..Len(env) : MapsTo(env[i], Held(r))
  PROVE  /\ Sound([r EXCEPT !.env = env])
         /\ Len(env) = Len(r.env) => Leads(r, [r EXCEPT !.env = env])
<1>1. PICK q : q = [r EXCEPT !.env = env]
  OBVIOUS
<1>2. q = [env |-> env, heap |-> r.heap, input |-> r.input, reads |-> r.reads, acc |-> r.acc, error |-> r.error]
  BY <1>1, HeldType, SetEnv
<1>3. Held(q) = Held(r)
  BY <1>2 DEF Held
<1>4. Sound(q)
  BY <1>2, <1>3 DEF Sound, IsRun, IsRecord
<1>5. Len(r.heap) \in Nat
  BY HeldType
<1> QED
  BY <1>1, <1>2, <1>4, <1>5 DEF Leads

\* A sequence taken apart behind its last item.
LEMMA FrontOfAppend ==
  ASSUME NEW S, NEW s \in Seq(S), NEW e \in S
  PROVE  /\ Front(Append(s, e)) = s /\ Last(Append(s, e)) = e /\ Append(s, e) # <<>>
         /\ Append(s, e) \in Seq(S) /\ Append(s, e)[1] = IF s = <<>> THEN e ELSE s[1]
<1> DEFINE a == Append(s, e)
<1>1. a \in Seq(S) /\ a # <<>> /\ Len(a) = Len(s) + 1 /\ a[Len(s) + 1] = e /\ \A i \in 1..Len(s) : a[i] = s[i]
  BY AppendProperties
<1>2. Len(s) \in Nat /\ s = [i \in 1..Len(s) |-> s[i]]
  BY LenProperties
<1> HIDE DEF a
<1>3. Front(a) = [i \in 1..Len(s) |-> a[i]]
  BY <1>1, <1>2 DEF Front
<1>4. Front(a) = s
  BY <1>1, <1>2, <1>3
<1>5. Last(a) = e
  BY <1>1, <1>2 DEF Last
<1>6. a[1] = IF s = <<>> THEN e ELSE s[1]
  <2>1. CASE s = <<>>
    <3>1. Len(s) = 0
      BY <2>1
    <3> QED
      BY <1>1, <2>1, <3>1
  <2>2. CASE s # <<>>
    <3>1. Len(s) \in Nat \ {0}
      BY <2>2, EmptySeq
    <3> QED
      BY <1>1, <2>2, <3>1
  <2> QED
    BY <2>1, <2>2
<1> QED
  BY <1>1, <1>4, <1>5, <1>6 DEF a

\* The keys at a path of a document are names, and lead to what is in it.
LEMMA Child ==
  ASSUME NEW doc, DOMAIN doc \subseteq Seq(Names), NEW path, NEW k \in Keys(doc, path)
  PROVE  /\ path \in Seq(Names) /\ k \in Names
         /\ Append(path, k) \in DOMAIN doc /\ Append(path, k) # <<>>
         /\ Append(path, k)[1] = IF path = <<>> THEN k ELSE path[1]
<1>1. PICK p \in DOMAIN doc : p # <<>> /\ Front(p) = path /\ Last(p) = k
  BY DEF Keys
<1>2. PICK s \in Seq(Names), e \in Names : p = Append(s, e)
  BY <1>1, SequenceEmptyOrAppend
<1>3. Front(p) = s /\ Last(p) = e /\ p # <<>> /\ p[1] = IF s = <<>> THEN e ELSE s[1]
  BY <1>2, FrontOfAppend
<1> QED
  BY <1>1, <1>2, <1>3

\* Reading a key leads from what may be known to what may be known with the root it notes.
LEMMA ChildReached ==
  ASSUME NEW in, DOMAIN in \subseteq Seq(Names), NEW reads,
         NEW path \in Reached(in, reads), NEW k \in Keys(in, path)
  PROVE  Append(path, k) \in Reached(in, reads \cup Noted(path, k))
<1>1. /\ path \in DOMAIN in /\ path # <<>> /\ path[1] \in Roots => path[1] \in reads
  BY DEF Reached
<1>2. /\ Append(path, k) \in DOMAIN in
      /\ Append(path, k)[1] = IF path = <<>> THEN k ELSE path[1]
  BY Child
<1>3. CASE path = <<>>
  <2>1. k \in Roots => k \in Noted(path, k)
    <3>1. Range(path) = {}
      BY <1>3 DEF Range
    <3> QED
      BY <3>1 DEF Noted
  <2> QED
    BY <1>2, <1>3, <2>1 DEF Reached
<1>4. CASE path # <<>>
  BY <1>1, <1>2, <1>4 DEF Reached
<1> QED
  BY <1>3, <1>4

\* What is in the input at a path that may be known may be held.
LEMMA InputHeld ==
  ASSUME NEW r, NEW path, NEW reads, path \in Reached(r.input, reads), NEW tables
  PROVE  InputValue(r, path) \in Values(r.input, reads, tables)
<1>1. CASE r.input[path] \in {"object", "array", "table"}
  BY <1>1 DEF InputValue, Values
<1>2. CASE r.input[path] \notin {"object", "array", "table"}
  BY <1>2 DEF InputValue, Values, Scalars
<1> QED
  BY <1>1, <1>2

\* A value is a table of the chunk, a part of the input or a scalar, and nothing else.
LEMMA Kinds ==
  ASSUME NEW in, NEW reads, NEW tables, NEW v \in Values(in, reads, tables)
  PROVE  /\ Own(v) => v = [own |-> v.own] /\ v.own \in tables /\ ~IsIn(v)
         /\ IsIn(v) => v = [input |-> v.input] /\ v.input \in Reached(in, reads)
         /\ ~Table(v) => v = [val |-> v.val] /\ v.val \in Scalars(in, reads)
BY DEF Values, Own, IsIn, Table

\* The roots that are noted when key k is read of table t.
Reading(t, k) == IF IsIn(t) THEN Noted(t.input, k) ELSE {}

\* What a held table has under a key may be held once the root of that key is noted.
LEMMA ContentHeld ==
  ASSUME NEW r, Sound(r), NEW t \in Held(r), Table(t)
  PROVE  /\ DOMAIN Content(r, t) \subseteq Names
         /\ \A k \in DOMAIN Content(r, t) :
              Content(r, t)[k] \in Values(r.input, r.reads \cup Reading(t, k), 1..Len(r.heap))
<1>1. CASE Own(t)
  <2>1. t.own \in 1..Len(r.heap) /\ ~IsIn(t)
    BY <1>1, Kinds DEF Held
  <2>2. Content(r, t) = r.heap[t.own].items /\ MapsTo(r.heap[t.own].items, Held(r))
    BY <1>1, <2>1 DEF Content, Sound
  <2>3. \A k : r.reads \cup Reading(t, k) = r.reads
    BY <2>1 DEF Reading
  <2> QED
    BY <2>2, <2>3 DEF MapsTo, Held
<1>2. CASE IsIn(t)
  <2>1. t.input \in Reached(r.input, r.reads) /\ ~Own(t)
    BY <1>2, Kinds DEF Held
  <2>2. Content(r, t) = [k \in Keys(r.input, t.input) |-> InputValue(r, Append(t.input, k))]
    BY <2>1 DEF Content
  <2>3. DOMAIN r.input \subseteq Seq(Names)
    BY DEF Sound
  <2>4. ASSUME NEW k \in Keys(r.input, t.input)
        PROVE  /\ k \in Names
               /\ InputValue(r, Append(t.input, k)) \in Values(r.input, r.reads \cup Reading(t, k), 1..Len(r.heap))
    <3>1. k \in Names /\ Append(t.input, k) \in Reached(r.input, r.reads \cup Noted(t.input, k))
      BY <2>1, <2>3, ChildReached, Child
    <3> QED
      BY <1>2, <3>1, InputHeld DEF Reading
  <2> QED
    BY <2>2, <2>4
<1> QED
  BY <1>1, <1>2 DEF Table

\* Index, the read of a key, is a step: the proxy notes the root before it hands out the value.
LEMMA IndexLeads ==
  ASSUME NEW r, Sound(r), NEW key
  PROVE  Leads(r, Index(r, key))
<1>1. CASE r.error # ""
  <2>1. Index(r, key) = r
    BY <1>1 DEF Index
  <2> QED
    BY <2>1, LeadsStays
<1>2. CASE r.error = "" /\ ~Table(r.acc)
  BY <1>2, Erred DEF Index
<1>3. CASE r.error = "" /\ Table(r.acc)
  <2> DEFINE v == IF key \in DOMAIN Content(r, r.acc) THEN Content(r, r.acc)[key] ELSE Nil
  <2>1. Index(r, key) = [r EXCEPT !.acc = v, !.reads = @ \cup Reading(r.acc, key)]
    BY <1>3 DEF Index, Reading
  <2>2. v \in Values(r.input, r.reads \cup Reading(r.acc, key), 1..Len(r.heap))
    <3>1. r.acc \in Held(r)
      BY DEF Sound
    <3>2. Nil \in Values(r.input, r.reads \cup Reading(r.acc, key), 1..Len(r.heap))
      BY DEF Nil, Values, Scalars
    <3> QED
      BY <1>3, <3>1, <3>2, ContentHeld
  <2>3. PICK w, more : w = v /\ more = Reading(r.acc, key)
    OBVIOUS
  <2> HIDE DEF v
  <2>4. w \in Values(r.input, r.reads \cup more, 1..Len(r.heap))
    BY <2>2, <2>3
  <2>5. Leads(r, [r EXCEPT !.acc = w, !.reads = @ \cup more])
    BY <2>4, ReadsAdded
  <2> QED
    BY <2>1, <2>3, <2>5
<1> QED
  BY <1>1, <1>2, <1>3

\* So are the reads of the keys of a path.
LEMMA WalkLeads ==
  ASSUME NEW r, Sound(r), NEW keys, Len(keys) \in Nat
  PROVE  \A n \in 0..Len(keys) : Leads(r, Walk(r, keys)[n])
<1> DEFINE T == {n \in 0..Len(keys) : Leads(r, Walk(r, keys)[n])}
<1>1. 0 \in T
  BY WalkUnfolds, LeadsStays
<1>2. ASSUME NEW n \in 0..Len(keys) - 1, n \in T PROVE n + 1 \in T
  <2>1. Walk(r, keys)[n + 1] = Index(Walk(r, keys)[n], keys[n + 1])
    <3>1. n + 1 \in 1..Len(keys) /\ (n + 1) - 1 = n
      OBVIOUS
    <3> QED
      BY <3>1, WalkUnfolds
  <2>2. Leads(r, Walk(r, keys)[n])
    BY <1>2
  <2>3. Leads(Walk(r, keys)[n], Walk(r, keys)[n + 1])
    <3>1. Sound(Walk(r, keys)[n])
      BY <2>2 DEF Leads
    <3> QED
      BY <2>1, <3>1, IndexLeads
  <2> QED
    BY <2>2, <2>3, LeadsOn
<1> HIDE DEF T
<1>3. 0..Len(keys) \subseteq T
  BY <1>1, <1>2, CountingUp
<1> QED
  BY <1>3 DEF T

\* A name stands for a value that may be held.
LEMMA NamedHeld ==
  ASSUME NEW r, Sound(r), NEW x
  PROVE  Named(r, x) \in Held(r)
<1>1. CASE Owner(r.env, x) # 0
  <2>1. Owner(r.env, x) \in 1..Len(r.env) /\ x \in DOMAIN r.env[Owner(r.env, x)]
    BY <1>1, HeldType, OwnerIs
  <2> QED
    BY <1>1, <2>1 DEF Named, Sound, MapsTo
<1>2. CASE Owner(r.env, x) = 0
  <2>1. [input |-> <<>>] \in Held(r)
    BY DEF Sound, Held, Values, Reached
  <2>2. [own |-> 1] \in Held(r) /\ [own |-> 2] \in Held(r)
    <3>1. 1 \in 1..Len(r.heap) /\ 2 \in 1..Len(r.heap)
      BY HeldType DEF Sound
    <3> QED
      BY <3>1 DEF Held, Values
  <2>3. \A f \in {"pairs", "pcall"} : [val |-> f] \in Held(r)
    BY NilHeld DEF Functions
  <2> QED
    BY <1>2, <2>1, <2>2, <2>3, NilHeld DEF Named, Global
<1> QED
  BY <1>1, <1>2

\* A path is a step.
LEMMA PathLeads ==
  ASSUME NEW r, Sound(r), NEW path \in Seq(Names), path # <<>>
  PROVE  Leads(r, Path(r, path))
<1>1. PICK q : q = [r EXCEPT !.acc = Named(r, path[1])]
  OBVIOUS
<1>2. Leads(r, q)
  BY <1>1, NamedHeld, AccSet
<1>3. Len(Tail(path)) = Len(path) - 1 /\ Len(path) - 1 \in Nat
  <2>1. Len(path) \in Nat \ {0}
    BY EmptySeq
  <2> QED
    BY <2>1, HeadTailProperties
<1>4. Path(r, path) = Walk(q, Tail(path))[Len(path) - 1]
  BY <1>1 DEF Path
<1>5. Sound(q)
  BY <1>2 DEF Leads
<1>6. Leads(q, Path(r, path))
  <2>1. \A n \in 0..Len(Tail(path)) : Leads(q, Walk(q, Tail(path))[n])
    BY <1>3, <1>5, WalkLeads
  <2> QED
    BY <1>3, <1>4, <2>1
<1> QED
  BY <1>2, <1>6, LeadsOn

\* The functions that statements call, and where they are.
LEMMA FunctionPaths ==
  /\ <<"_utils", "array", "markAsArray">> \in Seq(Names) /\ <<"_utils", "array", "markAsArray">> # <<>>
  /\ <<"table", "insert">> \in Seq(Names) /\ <<"table", "insert">> # <<>>
  /\ <<"pairs">> \in Seq(Names) /\ <<"pairs">> # <<>>
<1>1. {"_utils", "array", "markAsArray", "table", "insert", "pairs"} \subseteq Names
  BY NamesAssumption DEF AllowedGlobals
<1> QED
  BY <1>1

\* The call of one, up to its argument, is a step.
LEMMA CallingLeads ==
  ASSUME NEW r, Sound(r), NEW f \in Seq(Names), f # <<>>, NEW path \in Seq(Names), path # <<>>
  PROVE  Leads(r, Calling(r, f, path))
<1>1. PICK p, q : p = Path(r, f) /\ q = Path(p, path)
  OBVIOUS
<1>2. Leads(r, p) /\ Sound(p)
  BY <1>1, PathLeads DEF Leads
<1>3. Leads(p, q) /\ Sound(q)
  BY <1>1, <1>2, PathLeads DEF Leads
<1>4. Leads(r, q) /\ Leads(q, Error(q, "lua_runtime_error"))
  BY <1>2, <1>3, LeadsOn, Erred
<1>5. Calling(r, f, path) \in {q, Error(q, "lua_runtime_error")}
  BY <1>1 DEF Calling
<1> QED
  BY <1>3, <1>4, <1>5, LeadsOn

\* A new table of held values is a step, and what it changes.
LEMMA NewLeads ==
  ASSUME NEW r, Sound(r), NEW mark, NEW items, MapsTo(items, Held(r))
  PROVE  /\ Leads(r, New(r, mark, items))
         /\ New(r, mark, items).acc = [own |-> Len(r.heap) + 1] /\ New(r, mark, items).error = r.error
         /\ New(r, mark, items).env = r.env
         /\ New(r, mark, items).heap = Append(r.heap, [mark |-> mark, items |-> items])
<1>1. PICK t : t = [mark |-> mark, items |-> items]
  OBVIOUS
<1>2. PICK heap : heap = Append(r.heap, t)
  OBVIOUS
<1>3. IsSequence(r.heap) /\ IsRecord(r) /\ Len(r.heap) \in Nat
  BY HeldType
<1>4. /\ IsSequence(heap) /\ Len(heap) = Len(r.heap) + 1
      /\ \A i \in 1..Len(r.heap) : heap[i] = r.heap[i]
      /\ heap[Len(r.heap) + 1] = t
  BY <1>2, <1>3, Appended
<1>5. PICK v : v = [own |-> Len(r.heap) + 1]
  OBVIOUS
<1>6. PICK q : q = New(r, mark, items)
  OBVIOUS
<1>7. q = [env |-> r.env, heap |-> heap, input |-> r.input, reads |-> r.reads, acc |-> v, error |-> r.error]
  <2>1. q = [r EXCEPT !.heap = heap, !.acc = v]
    BY <1>1, <1>2, <1>5, <1>6 DEF New
  <2> QED
    BY <1>3, <2>1, SetHeapAcc
<1>8. Held(r) \subseteq Values(r.input, r.reads, 1..Len(heap))
  <2>1. Len(r.heap) \in Nat /\ Len(heap) \in Nat /\ Len(r.heap) <= Len(heap) /\ r.reads \subseteq r.reads
    BY <1>3, <1>4
  <2> QED
    BY ONLY <2>1, HeldGrows DEF Held
<1>9. v \in Values(r.input, r.reads, 1..Len(heap))
  BY <1>3, <1>4, <1>5 DEF Values
<1>10. ASSUME NEW i \in 1..Len(heap)
       PROVE  /\ heap[i] = [mark |-> heap[i].mark, items |-> heap[i].items]
              /\ MapsTo(heap[i].items, Values(r.input, r.reads, 1..Len(heap)))
  <2>1. CASE i = Len(r.heap) + 1
    BY <1>1, <1>4, <1>8, <2>1 DEF MapsTo
  <2>2. CASE i \in 1..Len(r.heap)
    BY <1>4, <1>8, <2>2 DEF MapsTo, Sound
  <2> QED
    BY <1>3, <1>4, <2>1, <2>2
<1>11. Leads(r, q)
  <2>1. Len(r.heap) <= Len(heap)
    BY <1>3, <1>4
  <2>2. IsSequence(heap)
    BY <1>4
  <2> QED
    BY ONLY Sound(r), <1>7, <1>9, <1>10, <2>1, <2>2, HeapSet
<1> QED
  BY <1>1, <1>2, <1>5, <1>6, <1>7, <1>11

\* Another content of a table of the chunk is a step.
LEMMA OwnChanged ==
  ASSUME NEW r, Sound(r), NEW o \in 1..Len(r.heap), NEW t, t = [mark |-> t.mark, items |-> t.items],
         MapsTo(t.items, Held(r))
  PROVE  Leads(r, [r EXCEPT !.heap[o] = t])
<1>1. PICK heap : heap = [r.heap EXCEPT ![o] = t]
  OBVIOUS
<1>2. IsSequence(r.heap) /\ IsRecord(r) /\ Len(r.heap) \in Nat /\ DOMAIN r.heap = 1..Len(r.heap)
  BY HeldType
<1>3. IsSequence(heap) /\ Len(heap) = Len(r.heap)
  BY <1>1, <1>2, Excepted
<1>4. \A i \in 1..Len(heap) : heap[i] = IF i = o THEN t ELSE r.heap[i]
  BY <1>1, <1>2, <1>3
<1>5. PICK q : q = [r EXCEPT !.heap = heap]
  OBVIOUS
<1>6. q = [env |-> r.env, heap |-> heap, input |-> r.input, reads |-> r.reads, acc |-> r.acc, error |-> r.error]
  BY <1>2, <1>5, SetHeap
<1>7. Held(r) = Values(r.input, r.reads, 1..Len(heap))
  BY <1>3 DEF Held
<1>8. \A i \in 1..Len(heap) : /\ heap[i] = [mark |-> heap[i].mark, items |-> heap[i].items]
                              /\ MapsTo(heap[i].items, Values(r.input, r.reads, 1..Len(heap)))
  BY <1>3, <1>4, <1>7 DEF Sound
<1>9. r.acc \in Values(r.input, r.reads, 1..Len(heap))
  BY <1>7 DEF Sound
<1>10. Leads(r, q)
  <2>1. Len(r.heap) <= Len(heap)
    BY <1>2, <1>3
  <2>2. IsSequence(heap)
    BY <1>3
  <2> QED
    BY ONLY Sound(r), <1>6, <1>8, <1>9, <2>1, <2>2, HeapSet
<1>11. [r EXCEPT !.heap[o] = t] = [r EXCEPT !.heap = [r.heap EXCEPT ![o] = t]]
  OBVIOUS
<1> QED
  BY <1>1, <1>5, <1>10, <1>11

\* The keys of the items of arrays are five names, none of them a root.
LEMMA Positions ==
  /\ Len(Position) = 5 /\ DOMAIN Position = 1..5
  /\ \A i \in 1..5 : Position[i] \in Names /\ Position[i] \notin Roots
<1>1. DOMAIN Position = 1..5 /\ Len(Position) = 5
  BY DEF Position
<1>2. Position[1] = "#1" /\ Position[2] = "#2" /\ Position[3] = "#3" /\ Position[4] = "#4" /\ Position[5] = "#5"
  BY DEF Position
<1>3. \A i \in 1..5 : i = 1 \/ i = 2 \/ i = 3 \/ i = 4 \/ i = 5
  OBVIOUS
<1>4. \A i \in 1..5 : Position[i] \in {"#1", "#2", "#3", "#4", "#5"}
  BY <1>2, <1>3
<1>5. \A x \in {"#1", "#2", "#3", "#4", "#5"} : x \in Names /\ x \notin Roots
  BY NamesAssumption DEF Roots
<1> QED
  BY <1>1, <1>4, <1>5

\* Up to its border a table has all items.
LEMMA BorderIs ==
  ASSUME NEW items
  PROVE  /\ Border(items) \in 0..5
         /\ \A i \in 1..Border(items) : Position[i] \in DOMAIN items
<1> DEFINE S == {0} \cup {n \in DOMAIN Position : \A i \in 1..n : Position[i] \in DOMAIN items}
<1>1. S \in SUBSET (0..5) /\ S # {}
  BY Positions
<1>2. Max(S) \in S
  <2> HIDE DEF S
  <2> QED
    BY <1>1, Largest
<1>3. Border(items) \in S
  BY <1>2 DEF Border
<1> QED
  BY <1>1, <1>3

\* _utils.array is a step.
LEMMA MarkLeads ==
  ASSUME NEW r, Sound(r)
  PROVE  Leads(r, MarkAsArray(r))
<1>1. CASE r.error # ""
  BY <1>1, LeadsStays DEF MarkAsArray
<1>2. CASE r.error = "" /\ r.acc = Nil
  <2>1. MapsTo(<<>>, Held(r))
    BY DEF MapsTo
  <2> QED
    BY <1>2, <2>1, NewLeads DEF MarkAsArray
<1>3. CASE r.error = "" /\ r.acc # Nil /\ ReadOnly(r.acc)
  <2>1. PICK items : items = Listed(Content(r, r.acc))
    OBVIOUS
  <2>2. PICK c : c = Content(r, r.acc)
    OBVIOUS
  <2>3. items = [k \in {Position[i] : i \in 1..Border(c)} |-> c[k]]
    BY <2>1, <2>2 DEF Listed
  <2>4. ASSUME NEW i \in 1..Border(c) PROVE Position[i] \in Names /\ c[Position[i]] \in Held(r)
    <3>1. Position[i] \in Names /\ Position[i] \notin Roots /\ Position[i] \in DOMAIN c
      BY BorderIs, Positions
    <3>2. r.acc \in Held(r) /\ Table(r.acc)
      BY <1>3 DEF Sound, Table, ReadOnly
    <3>3. r.reads \cup Reading(r.acc, Position[i]) = r.reads
      BY <3>1 DEF Reading, Noted
    <3>4. c[Position[i]] \in Values(r.input, r.reads \cup Reading(r.acc, Position[i]), 1..Len(r.heap))
      BY <2>2, <3>1, <3>2, ContentHeld
    <3> QED
      BY <3>1, <3>3, <3>4 DEF Held
  <2>5. MapsTo(items, Held(r))
    BY <2>3, <2>4 DEF MapsTo
  <2> QED
    BY <1>3, <2>1, <2>5, NewLeads DEF MarkAsArray
<1>4. CASE r.error = "" /\ r.acc # Nil /\ ~ReadOnly(r.acc) /\ Own(r.acc)
  <2>1. PICK o : o = r.acc.own
    OBVIOUS
  <2>2. o \in 1..Len(r.heap)
    BY <1>4, <2>1, Kinds DEF Sound, Held
  <2>3. PICK t : t = [mark |-> "array", items |-> r.heap[o].items]
    OBVIOUS
  <2>4. MapsTo(t.items, Held(r)) /\ r.heap[o] = [mark |-> r.heap[o].mark, items |-> r.heap[o].items]
    BY <2>2, <2>3 DEF Sound
  <2>5. Leads(r, [r EXCEPT !.heap[o] = t])
    BY <2>2, <2>3, <2>4, OwnChanged
  <2>6. [r.heap[o] EXCEPT !.mark = "array"] = t
    BY <2>3, <2>4
  <2>7. MarkAsArray(r) = [r EXCEPT !.heap[o].mark = "array"]
    BY <1>4, <2>1 DEF MarkAsArray
  <2>8. [r EXCEPT !.heap[o].mark = "array"] = [r EXCEPT !.heap[o] = t]
    BY <2>6
  <2> QED
    BY <2>5, <2>7, <2>8
<1>5. CASE r.error = "" /\ r.acc # Nil /\ ~ReadOnly(r.acc) /\ ~Own(r.acc)
  BY <1>5, Erred DEF MarkAsArray
<1> QED
  BY <1>1, <1>2, <1>3, <1>4, <1>5

\* The parts of a statement.
LEMMA StatementIs ==
  ASSUME NEW s \in Statement
  PROVE  /\ s.exp \in Expression /\ s.over \in Seq(Names) /\ s.at \in Seq(Names)
         /\ s.in \in {"plain", "taken", "skipped", "guarded", "each", "called"}
         /\ s.do \in {"local", "assign", "insert", "return", "goto"}
         /\ s.in \in {"each", "called"} => s.over # <<>>
         /\ s.do = "local" => Len(s.at) = 1
         /\ s.do \in {"assign", "insert"} => s.at # <<>>
         /\ s.do = "return" => s.in = "plain"
BY DEF Statement, Binding

\* The parts of an expression.
LEMMA ExpressionIs ==
  ASSUME NEW e \in Expression
  PROVE  /\ e.op \in {"read", "pack", "mark", "zero", "empty"} /\ e.path \in Seq(Names)
         /\ e.op \in {"read", "pack", "mark"} => e.path # <<>>
BY DEF Expression

\* Evaluate, whatever the expression, is a step.
LEMMA EvaluateLeads ==
  ASSUME NEW r, Sound(r), NEW e \in Expression
  PROVE  Leads(r, Evaluate(r, e))
<1>0. /\ e.op \in {"read", "pack", "mark", "zero", "empty"} /\ e.path \in Seq(Names)
      /\ e.op \in {"read", "pack", "mark"} => e.path # <<>>
  BY ExpressionIs
<1>1. CASE e.op = "zero"
  BY <1>1, AccSet, NilHeld DEF Evaluate
<1>2. CASE e.op = "empty"
  <2>1. MapsTo(<<>>, Held(r))
    BY DEF MapsTo
  <2> QED
    BY <1>2, <2>1, NewLeads DEF Evaluate
<1>3. CASE e.op = "read"
  BY <1>0, <1>3, PathLeads DEF Evaluate
<1>4. CASE e.op = "mark"
  <2>1. PICK q : q = Calling(r, <<"_utils", "array", "markAsArray">>, e.path)
    OBVIOUS
  <2>2. Leads(r, q) /\ Sound(q)
    BY <1>0, <1>4, <2>1, FunctionPaths, CallingLeads DEF Leads
  <2>3. Leads(q, MarkAsArray(q))
    BY <2>2, MarkLeads
  <2>4. Evaluate(r, e) = MarkAsArray(q)
    BY <1>4, <2>1 DEF Evaluate
  <2> QED
    BY <2>2, <2>3, <2>4, LeadsOn
<1>5. CASE e.op = "pack"
  <2>1. PICK q : q = Path(r, e.path)
    OBVIOUS
  <2>2. Leads(r, q) /\ Sound(q)
    BY <1>0, <1>5, <2>1, PathLeads DEF Leads
  <2>3. Evaluate(r, e) = Packed(q)
    BY <1>5, <2>1 DEF Evaluate
  <2>4. PICK items : items = IF q.acc = Nil THEN <<>> ELSE [n |-> q.acc]
    OBVIOUS
  <2>5. MapsTo(items, Held(q))
    BY <2>2, <2>4, NamesAssumption DEF MapsTo, Sound
  <2>6. Packed(q) \in {q, New(q, "table", items)}
    BY <2>4 DEF Packed
  <2>7. Leads(q, New(q, "table", items))
    BY <2>2, <2>5, NewLeads
  <2> QED
    BY <2>2, <2>3, <2>6, <2>7, LeadsOn
<1> QED
  BY <1>0, <1>1, <1>2, <1>3, <1>4, <1>5

\* Store, a write of a held value under a key, is a step.
LEMMA StoreLeads ==
  ASSUME NEW r, Sound(r), NEW key \in Names, NEW value \in Held(r)
  PROVE  Leads(r, Store(r, key, value))
<1>1. CASE r.error # "" 
  BY <1>1, LeadsStays DEF Store
<1>2. CASE r.error = "" /\ (ReadOnly(r.acc) \/ ~Own(r.acc))
  BY <1>2, Erred DEF Store
<1>3. CASE r.error = "" /\ ~ReadOnly(r.acc) /\ Own(r.acc)
  <2>1. PICK o : o = r.acc.own
    OBVIOUS
  <2>2. o \in 1..Len(r.heap)
    BY <1>3, <2>1, Kinds DEF Sound, Held
  <2>3. PICK old : old = r.heap[o].items
    OBVIOUS
  <2>4. MapsTo(old, Held(r)) /\ r.heap[o] = [mark |-> r.heap[o].mark, items |-> old]
    BY <2>2, <2>3 DEF Sound
  <2>5. PICK items : items = IF value = Nil THEN [k \in DOMAIN old \ {key} |-> old[k]] ELSE With(old, key, value)
    OBVIOUS
  <2>6. MapsTo(items, Held(r))
    BY <2>4, <2>5 DEF MapsTo, With
  <2>7. PICK t : t = [mark |-> r.heap[o].mark, items |-> items]
    OBVIOUS
  <2>8. Leads(r, [r EXCEPT !.heap[o] = t])
    BY <2>2, <2>6, <2>7, OwnChanged
  <2>9. [r.heap[o] EXCEPT !.items = items] = t
    BY <2>4, <2>7
  <2>10. Store(r, key, value) = [r EXCEPT !.heap[o].items = items]
    BY <1>3, <2>1, <2>3, <2>5 DEF Store
  <2>11. [r EXCEPT !.heap[o].items = items] = [r EXCEPT !.heap[o] = t]
    BY <2>9
  <2> QED
    BY <2>8, <2>10, <2>11
<1> QED
  BY <1>1, <1>2, <1>3

\* table.insert is a step.
LEMMA InsertLeads ==
  ASSUME NEW r, Sound(r)
  PROVE  Leads(r, Insert(r))
<1>1. CASE r.error # "" \/ ~Table(r.acc) \/ Border(Content(r, r.acc)) = Len(Position)
  BY <1>1, Erred DEF Insert
<1>2. CASE ~(r.error # "" \/ ~Table(r.acc) \/ Border(Content(r, r.acc)) = Len(Position))
  <2>1. PICK b : b = Border(Content(r, r.acc))
    OBVIOUS
  <2>2. b \in 0..5 /\ b # 5
    BY <1>2, <2>1, BorderIs, Positions
  <2>3. b + 1 \in 1..5
    BY <2>2
  <2>4. Position[b + 1] \in Names
    BY <2>3, Positions
  <2> QED
    BY <1>2, <2>1, <2>4, StoreLeads, NilHeld DEF Insert
<1> QED
  BY <1>1, <1>2

\* Another content of one scope is a step.
LEMMA ScopeSet ==
  ASSUME NEW r, Sound(r), NEW o \in 1..Len(r.env), NEW scope, MapsTo(scope, Held(r))
  PROVE  Leads(r, [r EXCEPT !.env[o] = scope])
<1>1. PICK env : env = [r.env EXCEPT ![o] = scope]
  OBVIOUS
<1>2. IsSequence(r.env) /\ DOMAIN r.env = 1..Len(r.env)
  BY HeldType
<1>3. IsSequence(env) /\ Len(env) = Len(r.env)
  BY <1>1, <1>2, Excepted
<1>4. \A i \in 1..Len(env) : env[i] = IF i = o THEN scope ELSE r.env[i]
  BY <1>1, <1>2, <1>3
<1>5. \A i \in 1..Len(env) : MapsTo(env[i], Held(r))
  BY <1>3, <1>4 DEF Sound
<1>6. Leads(r, [r EXCEPT !.env = env])
  BY <1>3, <1>5, EnvSet
<1>7. [r EXCEPT !.env[o] = scope] = [r EXCEPT !.env = env]
  BY <1>1
<1> QED
  BY <1>6, <1>7

\* The assignment to a local is a step.
LEMMA BindLeads ==
  ASSUME NEW r, Sound(r), NEW x
  PROVE  Leads(r, Bind(r, x))
<1>1. PICK o : o = Owner(r.env, x)
  OBVIOUS
<1>2. CASE o = 0
  BY <1>1, <1>2, LeadsStays DEF Bind
<1>3. CASE o # 0
  <2>1. o \in 1..Len(r.env)
    BY <1>1, <1>3, HeldType, OwnerIs
  <2>2. PICK scope : scope = [r.env[o] EXCEPT ![x] = r.acc]
    OBVIOUS
  <2>3. MapsTo(r.env[o], Held(r)) /\ r.acc \in Held(r)
    BY <2>1 DEF Sound
  <2>4. MapsTo(scope, Held(r))
    BY <2>2, <2>3 DEF MapsTo
  <2>5. Bind(r, x) = [r EXCEPT !.env[o][x] = r.acc]
    BY <1>1, <1>3 DEF Bind
  <2>6. [r EXCEPT !.env[o][x] = r.acc] = [r EXCEPT !.env[o] = scope]
    BY <2>2
  <2> QED
    BY <2>1, <2>4, <2>5, <2>6, ScopeSet
<1> QED
  BY <1>2, <1>3

\* A path without its last key.
LEMMA FrontIs ==
  ASSUME NEW path \in Seq(Names), path # <<>>
  PROVE  /\ Front(path) \in Seq(Names) /\ Last(path) \in Names
         /\ Len(path) \in Nat \ {0}
         /\ Len(path) # 1 => Front(path) # <<>> /\ Front(path)[1] = path[1]
         /\ path[1] \in Names
<1>1. PICK s \in Seq(Names), e \in Names : path = Append(s, e)
  BY SequenceEmptyOrAppend
<1>2. /\ Front(path) = s /\ Last(path) = e
      /\ path[1] = IF s = <<>> THEN e ELSE s[1]
  BY <1>1, FrontOfAppend
<1>3. Len(path) = Len(s) + 1 /\ Len(s) \in Nat
  BY <1>1, AppendProperties
<1>4. s = <<>> => Len(s) = 0
  OBVIOUS
<1>5. path[1] \in Names
  <2>1. Len(path) \in Nat \ {0}
    BY <1>3
  <2> QED
    BY <2>1, ElementOfSeq
<1> QED
  BY <1>2, <1>3, <1>4, <1>5

\* Effect, what a statement does with its value, is a step.
LEMMA EffectLeads ==
  ASSUME NEW r, Sound(r), NEW s \in Statement
  PROVE  Leads(r, Effect(r, s))
<1>0. /\ s.at \in Seq(Names) /\ s.do \in {"local", "assign", "insert", "return", "goto"}
      /\ s.do = "local" => Len(s.at) = 1
      /\ s.do \in {"assign", "insert"} => s.at # <<>>
  BY StatementIs
<1>1. CASE r.error # ""
  BY <1>1, LeadsStays DEF Effect
<1>2. CASE r.error = "" /\ s.do = "local"
  <2>1. PICK o, scope : o = Len(r.env) /\ scope = With(r.env[Len(r.env)], s.at[1], r.acc)
    OBVIOUS
  <2>2. Effect(r, s) = [r EXCEPT !.env[o] = scope]
    BY <1>2, <2>1 DEF Effect
  <2>3. CASE o \in 1..Len(r.env)
    <3>1. s.at[1] \in Names
      <4>1. Len(s.at) = 1 /\ s.at \in Seq(Names)
        BY <1>0, <1>2
      <4>2. s.at # <<>>
        BY <4>1
      <4> QED
        BY <4>1, <4>2, FrontIs
    <3>2. MapsTo(r.env[o], Held(r)) /\ r.acc \in Held(r)
      BY <2>3 DEF Sound
    <3>3. MapsTo(scope, Held(r))
      BY <2>1, <3>1, <3>2 DEF MapsTo, With
    <3> QED
      BY <2>2, <2>3, <3>3, ScopeSet
  <2>4. CASE o \notin 1..Len(r.env)
    <3>1. DOMAIN r.env = 1..Len(r.env) /\ IsSequence(r.env)
      BY HeldType
    <3>2. [r.env EXCEPT ![o] = scope] = r.env
      BY <2>4, <3>1 DEF IsSequence
    <3>3. [r EXCEPT !.env[o] = scope] = r
      BY <3>2, HeldType, SetEnv DEF IsRecord
    <3> QED
      BY <2>2, <3>3, LeadsStays
  <2> QED
    BY <2>3, <2>4
<1>3. CASE r.error = "" /\ s.do = "assign"
  <2>1. CASE Len(s.at) = 1
    BY <1>3, <2>1, BindLeads DEF Effect
  <2>2. CASE Len(s.at) # 1
    <3>1. PICK q : q = Path(r, Front(s.at))
      OBVIOUS
    <3>2. Front(s.at) \in Seq(Names) /\ Front(s.at) # <<>> /\ Last(s.at) \in Names
      BY <1>0, <1>3, <2>2, FrontIs
    <3>3. Leads(r, q)
      BY <3>1, <3>2, PathLeads
    <3>4. Sound(q) /\ r.acc \in Held(q)
      BY <3>3, LeadsGrows DEF Leads, Sound
    <3>5. Leads(q, Store(q, Last(s.at), r.acc))
      BY <3>2, <3>4, StoreLeads
    <3>6. Effect(r, s) = Store(q, Last(s.at), r.acc)
      BY <1>3, <2>2, <3>1 DEF Effect
    <3> QED
      BY <3>3, <3>5, <3>6, LeadsOn
  <2> QED
    BY <2>1, <2>2
<1>4. CASE r.error = "" /\ s.do = "insert"
  <2>1. PICK q : q = Calling(r, <<"table", "insert">>, s.at)
    OBVIOUS
  <2>2. Leads(r, q) /\ Sound(q)
    BY <1>0, <1>4, <2>1, FunctionPaths, CallingLeads DEF Leads
  <2>3. Leads(q, Insert(q))
    BY <2>2, InsertLeads
  <2>4. Effect(r, s) = Insert(q)
    BY <1>4, <2>1 DEF Effect
  <2> QED
    BY <2>2, <2>3, <2>4, LeadsOn
<1>5. CASE r.error = "" /\ s.do \in {"return", "goto"}
  <2>1. Effect(r, s) = r
    BY <1>5 DEF Effect
  <2> QED
    BY <2>1, LeadsStays
<1> QED
  BY <1>0, <1>1, <1>2, <1>3, <1>4, <1>5

\* A statement is a step.
LEMMA DoLeads ==
  ASSUME NEW r, Sound(r), NEW s \in Statement
  PROVE  Leads(r, Do(r, s))
<1>1. PICK q : q = Evaluate(r, s.exp)
  OBVIOUS
<1>2. Leads(r, q) /\ Sound(q)
  BY <1>1, StatementIs, EvaluateLeads DEF Leads
<1>3. Leads(q, Effect(q, s))
  BY <1>2, EffectLeads
<1> QED
  BY <1>1, <1>2, <1>3, LeadsOn DEF Do

\* So is one in a block of its own: the scope is gone when it is left.
LEMMA InsideLeads ==
  ASSUME NEW r, Sound(r), NEW scope, MapsTo(scope, Held(r)), NEW s \in Statement
  PROVE  Leads(r, Inside(r, scope, s))
<1>1. PICK env : env = Append(r.env, scope)
  OBVIOUS
<1>2. IsSequence(r.env) /\ Len(r.env) \in Nat /\ IsRecord(r)
  BY HeldType
<1>3. /\ IsSequence(env) /\ Len(env) = Len(r.env) + 1
      /\ \A i \in 1..Len(r.env) : env[i] = r.env[i]
      /\ env[Len(r.env) + 1] = scope
  BY <1>1, <1>2, Appended
<1>4. ASSUME NEW i \in 1..Len(env) PROVE MapsTo(env[i], Held(r))
  <2>1. CASE i \in 1..Len(r.env)
    BY <1>3, <2>1 DEF Sound
  <2>2. CASE i = Len(r.env) + 1
    BY <1>3, <2>2
  <2> QED
    BY <1>2, <1>3, <2>1, <2>2
<1>5. PICK p : p = [r EXCEPT !.env = env]
  OBVIOUS
<1>6. Sound(p)
  BY <1>3, <1>4, <1>5, EnvSet
<1>7. p.env = env /\ p.input = r.input /\ p.reads = r.reads /\ p.heap = r.heap
  BY <1>2, <1>5 DEF IsRecord
<1>8. PICK q : q = Do(p, s)
  OBVIOUS
<1>9. Leads(p, q)
  BY <1>6, <1>8, DoLeads
<1>10. Sound(q) /\ q.input = r.input /\ Len(q.env) = Len(r.env) + 1 /\ r.reads \subseteq q.reads /\ Len(r.heap) <= Len(q.heap)
  BY <1>3, <1>7, <1>9 DEF Leads
<1>11. PICK fin : fin = Front(q.env)
  OBVIOUS
<1>12. IsSequence(q.env) /\ IsRecord(q)
  BY <1>10, HeldType
<1>13. IsSequence(fin) /\ Len(fin) = Len(r.env) /\ \A i \in 1..Len(fin) : fin[i] = q.env[i]
  <2>1. Len(q.env) # 0 /\ Len(q.env) - 1 = Len(r.env)
    BY <1>2, <1>10
  <2>2. IsSequence(fin) /\ Len(fin) = Len(q.env) - 1 /\ \A i \in 1..Len(q.env) - 1 : fin[i] = q.env[i]
    BY <1>11, <1>12, <2>1, Fronts
  <2> QED
    BY <2>1, <2>2
<1>14. \A i \in 1..Len(fin) : MapsTo(fin[i], Held(q))
  BY <1>2, <1>10, <1>13 DEF Sound
<1>15. Sound([q EXCEPT !.env = fin])
  BY <1>10, <1>13, <1>14, EnvSet
<1>16. Inside(r, scope, s) = [q EXCEPT !.env = fin]
  <2>1. [r EXCEPT !.env = Append(@, scope)] = p
    BY <1>1, <1>5
  <2> QED
    BY <1>8, <1>11, <2>1 DEF Inside
<1>17. PICK x : x = [q EXCEPT !.env = fin]
  OBVIOUS
<1>18. x.input = q.input /\ x.env = fin /\ x.reads = q.reads /\ x.heap = q.heap
  BY <1>12, <1>17 DEF IsRecord
<1> QED
  BY <1>10, <1>13, <1>15, <1>16, <1>17, <1>18 DEF Leads

\* A turn of a loop is a step: the table it goes over stays held, and __pairs notes the key.
LEMMA TurnLeads ==
  ASSUME NEW r, Sound(r), NEW s \in Statement, NEW t \in Held(r), Table(t), NEW key
  PROVE  Leads(r, Turn(r, s, t, key))
<1>1. CASE r.error # "" \/ key \notin DOMAIN Content(r, t)
  BY <1>1, LeadsStays DEF Turn
<1>2. CASE ~(r.error # "" \/ key \notin DOMAIN Content(r, t))
  <2>1. PICK more, value : more = Reading(t, key) /\ value = Content(r, t)[key]
    OBVIOUS
  <2>2. value \in Values(r.input, r.reads \cup more, 1..Len(r.heap))
    BY <1>2, <2>1, ContentHeld
  <2>3. PICK q : q = [r EXCEPT !.reads = @ \cup more]
    OBVIOUS
  <2>4. IsRecord(r)
    BY HeldType
  <2>5. q = [r EXCEPT !.acc = r.acc, !.reads = @ \cup more]
    BY <2>3, <2>4 DEF IsRecord
  <2>6. Leads(r, q)
    <3>1. Len(r.heap) \in Nat /\ Len(r.heap) <= Len(r.heap) /\ r.reads \subseteq r.reads \cup more
      BY HeldType
    <3>2. Held(r) \subseteq Values(r.input, r.reads \cup more, 1..Len(r.heap))
      BY ONLY <3>1, HeldGrows DEF Held
    <3>3. r.acc \in Values(r.input, r.reads \cup more, 1..Len(r.heap))
      BY <3>2 DEF Sound
    <3> QED
      BY <2>5, <3>3, ReadsAdded
  <2>7. value \in Held(q)
    <3>1. q.input = r.input /\ q.reads = r.reads \cup more /\ q.heap = r.heap
      BY <2>3, <2>4 DEF IsRecord
    <3> QED
      BY <2>2, <3>1 DEF Held
  <2>8. MapsTo([item |-> value], Held(q))
    BY <2>7, NamesAssumption DEF MapsTo
  <2>9. Leads(q, Inside(q, [item |-> value], s))
    BY <2>6, <2>8, InsideLeads DEF Leads
  <2>10. Turn(r, s, t, key) = Inside(q, [item |-> value], s)
    BY <1>2, <2>1, <2>3 DEF Turn, Reading
  <2> QED
    BY <2>6, <2>9, <2>10, LeadsOn
<1> QED
  BY <1>1, <1>2

\* So are its turns together,
LEMMA TurnsLead ==
  ASSUME NEW r, Sound(r), NEW s \in Statement, NEW t \in Held(r), Table(t), NEW order, Len(order) \in Nat
  PROVE  \A n \in 0..Len(order) : Leads(r, Turns(r, s, t, order)[n])
<1> DEFINE T == {n \in 0..Len(order) : Leads(r, Turns(r, s, t, order)[n])}
<1>1. 0 \in T
  BY TurnsUnfold, LeadsStays
<1>2. ASSUME NEW n \in 0..Len(order) - 1, n \in T PROVE n + 1 \in T
  <2>1. PICK q : q = Turns(r, s, t, order)[n]
    OBVIOUS
  <2>2. n + 1 \in 1..Len(order) /\ (n + 1) - 1 = n
    OBVIOUS
  <2>3. Turns(r, s, t, order)[n + 1] \in {q, Turn(q, s, t, order[n + 1])}
    BY <2>1, <2>2, TurnsUnfold
  <2>4. Leads(r, q) /\ Sound(q)
    BY <1>2, <2>1 DEF Leads
  <2>5. t \in Held(q)
    BY <2>4, LeadsGrows
  <2>6. Leads(q, Turn(q, s, t, order[n + 1]))
    BY <2>4, <2>5, TurnLeads
  <2>7. Leads(r, Turns(r, s, t, order)[n + 1])
    BY <2>3, <2>4, <2>6, LeadsOn
  <2> QED
    BY <2>2, <2>7
<1> HIDE DEF T
<1>3. 0..Len(order) \subseteq T
  BY <1>1, <1>2, CountingUp
<1> QED
  BY <1>3 DEF T

\* ... a loop with what it goes over,
LEMMA LoopLeads ==
  ASSUME NEW r, Sound(r), NEW s \in Statement, NEW order, Len(order) \in Nat
  PROVE  Leads(r, Loop(r, s, order))
<1>1. CASE r.error # "" \/ ~Table(r.acc)
  BY <1>1, Erred DEF Loop
<1>2. CASE ~(r.error # "" \/ ~Table(r.acc))
  <2>1. r.acc \in Held(r) /\ Table(r.acc)
    BY <1>2 DEF Sound
  <2>2. PICK t : t = r.acc
    OBVIOUS
  <2>3. Loop(r, s, order) = Turns(r, s, t, order)[Len(order)]
    BY <1>2, <2>2 DEF Loop
  <2>4. Len(order) \in 0..Len(order)
    OBVIOUS
  <2>5. \A n \in 0..Len(order) : Leads(r, Turns(r, s, t, order)[n])
    BY <2>1, <2>2, TurnsLead
  <2> QED
    BY <2>3, <2>4, <2>5
<1> QED
  BY <1>1, <1>2

\* ... a call of a function of the chunk,
LEMMA CallLeads ==
  ASSUME NEW r, Sound(r), NEW s \in Statement
  PROVE  Leads(r, Call(r, s))
<1>1. MapsTo([item |-> r.acc], Held(r))
  BY NamesAssumption DEF MapsTo, Sound
<1> QED
  BY <1>1, InsideLeads, LeadsStays DEF Call

\* ... and a statement with all that surrounds it.
LEMMA ExecuteLeads ==
  ASSUME NEW r, Sound(r), NEW s \in Statement, NEW order, Len(order) \in Nat
  PROVE  Leads(r, Execute(r, s, order))
<1>0. /\ s.over \in Seq(Names) /\ s.in \in {"plain", "taken", "skipped", "guarded", "each", "called"}
      /\ s.in \in {"each", "called"} => s.over # <<>>
  BY StatementIs
<1>1. CASE r.error # "" \/ s.in = "skipped"
  <2>1. Execute(r, s, order) = r
    BY <1>1 DEF Execute
  <2> QED
    BY <2>1, LeadsStays
<1>2. CASE r.error = "" /\ s.in = "plain"
  BY <1>2, DoLeads DEF Execute
<1>3. MapsTo(<<>>, Held(r))
  BY DEF MapsTo
<1>4. CASE r.error = "" /\ s.in = "taken"
  BY <1>3, <1>4, InsideLeads DEF Execute
<1>5. CASE r.error = "" /\ s.in = "guarded"
  <2>1. PICK q : q = Inside(r, <<>>, s)
    OBVIOUS
  <2>2. Leads(r, q) /\ Sound(q)
    BY <1>3, <2>1, InsideLeads DEF Leads
  <2>3. q.acc \in Held(q)
    BY <2>2 DEF Sound
  <2>4. Leads(q, [q EXCEPT !.error = ""])
    BY <2>2, <2>3, AccSet
  <2>5. Execute(r, s, order) \in {Error(r, "lua_runtime_error"), [q EXCEPT !.error = ""]}
    BY <1>5, <2>1 DEF Execute
  <2> QED
    BY <2>2, <2>4, <2>5, LeadsOn, Erred
<1>6. CASE r.error = "" /\ s.in = "called"
  <2>1. PICK q : q = Path(r, s.over)
    OBVIOUS
  <2>2. Leads(r, q) /\ Sound(q)
    BY <1>0, <1>6, <2>1, PathLeads DEF Leads
  <2>3. Leads(q, Call(q, s))
    BY <2>2, CallLeads
  <2>4. Execute(r, s, order) = Call(q, s)
    BY <1>6, <2>1 DEF Execute
  <2> QED
    BY <2>2, <2>3, <2>4, LeadsOn
<1>7. CASE r.error = "" /\ s.in = "each"
  <2>1. PICK q : q = Calling(r, <<"pairs">>, s.over)
    OBVIOUS
  <2>2. Leads(r, q) /\ Sound(q)
    BY <1>0, <1>7, <2>1, FunctionPaths, CallingLeads DEF Leads
  <2>3. Leads(q, Loop(q, s, order))
    BY <2>2, LoopLeads
  <2>4. Execute(r, s, order) = Loop(q, s, order)
    BY <1>7, <2>1 DEF Execute
  <2> QED
    BY <2>2, <2>3, <2>4, LeadsOn
<1> QED
  BY <1>0, <1>1, <1>2, <1>4, <1>5, <1>6, <1>7

\* The library: three tables, of which the second holds the third.
LEMMA LibraryIs ==
  /\ IsSequence(Library) /\ Len(Library) = 3
  /\ \A i \in 1..3 : Library[i] = [mark |-> Library[i].mark, items |-> Library[i].items]
  /\ DOMAIN Library[1].items = {"insert"} /\ Library[1].items["insert"] = [val |-> "insert"]
  /\ DOMAIN Library[2].items = {"array"} /\ Library[2].items["array"] = [own |-> 3]
  /\ DOMAIN Library[3].items = {"markAsArray"} /\ Library[3].items["markAsArray"] = [val |-> "markAsArray"]
<1>1. PICK a, b, c : /\ a = [mark |-> "table", items |-> [insert |-> [val |-> "insert"]]]
                     /\ b = [mark |-> "table", items |-> [array |-> [own |-> 3]]]
                     /\ c = [mark |-> "table", items |-> [markAsArray |-> [val |-> "markAsArray"]]]
  OBVIOUS
<1>2. Library = <<a, b, c>>
  BY <1>1 DEF Library
<1>3. IsSequence(<<a, b, c>>) /\ Len(<<a, b, c>>) = 3
  BY DEF IsSequence
<1>4. Library[1] = a /\ Library[2] = b /\ Library[3] = c
  BY <1>2
<1>5. \A i \in 1..3 : i = 1 \/ i = 2 \/ i = 3
  OBVIOUS
<1>6. \A i \in 1..3 : Library[i] = [mark |-> Library[i].mark, items |-> Library[i].items]
  BY <1>1, <1>4, <1>5
<1> QED
  BY <1>1, <1>2, <1>3, <1>4, <1>6

\* A run starts with nothing held but the library and nothing read.
LEMMA StartedSound ==
  ASSUME NEW context, Document(context)
  PROVE  Sound(Started(context)) /\ Started(context).input = RawWf(context)
<1>1. PICK r : r = Started(context)
  OBVIOUS
<1>2. r = [env |-> << <<>> >>, heap |-> Library, input |-> RawWf(context), reads |-> {}, acc |-> Nil, error |-> ""]
  BY <1>1 DEF Started
<1>3. DOMAIN RawWf(context) = DOMAIN context \cup {<<>>, <<"vars">>, <<"initVariables">>}
  BY DEF RawWf
<1>4. DOMAIN RawWf(context) \subseteq Seq(Names)
  <2>1. "vars" \in Names /\ "initVariables" \in Names
    BY RootsAssumption DEF Roots
  <2>2. <<>> \in Seq(Names) /\ <<"vars">> \in Seq(Names) /\ <<"initVariables">> \in Seq(Names)
    BY <2>1
  <2> QED
    BY <1>3, <2>2 DEF Document
<1>5. IsSequence(r.env) /\ Len(r.env) = 1 /\ r.env[1] = <<>>
  <2>1. r.env = << <<>> >>
    BY <1>2
  <2> QED
    BY <2>1 DEF IsSequence
<1>6. /\ IsSequence(r.heap) /\ Len(r.heap) = 3
      /\ \A i \in 1..3 : r.heap[i] = [mark |-> r.heap[i].mark, items |-> r.heap[i].items]
  BY <1>2, LibraryIs
<1>7. IsRecord(r) /\ r.input = RawWf(context) /\ r.acc \in Held(r)
  BY <1>2, NilHeld DEF IsRecord
<1>8. MapsTo(<<>>, Held(r))
  BY DEF MapsTo
<1>9. <<>> \in DOMAIN r.input /\ DOMAIN r.input \subseteq Seq(Names)
  BY <1>3, <1>4, <1>7
<1>10. ASSUME NEW i \in 1..3 PROVE MapsTo(r.heap[i].items, Held(r))
  <2>1. {"insert", "array", "markAsArray"} \subseteq Names
    BY NamesAssumption
  <2>2. \A f \in {"insert", "markAsArray"} : [val |-> f] \in Held(r)
    BY NilHeld DEF Functions
  <2>3. [own |-> 3] \in Held(r)
    BY <1>6 DEF Held, Values
  <2>4. /\ DOMAIN r.heap[1].items = {"insert"} /\ r.heap[1].items["insert"] = [val |-> "insert"]
        /\ DOMAIN r.heap[2].items = {"array"} /\ r.heap[2].items["array"] = [own |-> 3]
        /\ DOMAIN r.heap[3].items = {"markAsArray"} /\ r.heap[3].items["markAsArray"] = [val |-> "markAsArray"]
    BY <1>2, LibraryIs
  <2>5. i = 1 \/ i = 2 \/ i = 3
    OBVIOUS
  <2> QED
    BY <2>1, <2>2, <2>3, <2>4, <2>5 DEF MapsTo
<1>11. ASSUME NEW p \in DOMAIN r.input PROVE r.input[p] \notin Functions
  <2>1. p \in DOMAIN context => context[p] \notin Functions
    BY DEF Document
  <2>2. "table" \notin Functions
    BY DEF Functions
  <2>3. r.input[p] = IF p \in DOMAIN context THEN context[p] ELSE "table"
    BY <1>2 DEF RawWf
  <2> QED
    BY <2>1, <2>2, <2>3
<1>12. Sound(r)
  BY ONLY <1>5, <1>6, <1>7, <1>8, <1>9, <1>10, <1>11 DEF Sound, IsRun
<1> QED
  BY <1>1, <1>7, <1>12

\* At every statement of a chunk the run holds only what the roots read so far allow.
LEMMA RunSound ==
  ASSUME NEW context, Document(context), NEW chunk \in Seq(Statement), NEW order, Len(order) \in Nat
  PROVE  \A n \in 0..Len(chunk) : /\ Sound(Run(chunk, context, order)[n])
                                  /\ Run(chunk, context, order)[n].input = RawWf(context)
<1>0. Len(chunk) \in Nat
  OBVIOUS
<1> DEFINE R(n) == Run(chunk, context, order)[n]
           T == {n \in 0..Len(chunk) : Sound(R(n)) /\ R(n).input = RawWf(context)}
<1>1. 0 \in T
  BY <1>0, RunUnfolds, StartedSound
<1>2. ASSUME NEW n \in 0..Len(chunk) - 1, n \in T PROVE n + 1 \in T
  <2>1. n + 1 \in 1..Len(chunk) /\ (n + 1) - 1 = n
    BY <1>0
  <2>2. R(n + 1) = Execute(R(n), chunk[n + 1], order)
    BY <1>0, <2>1, RunUnfolds
  <2>3. chunk[n + 1] \in Statement
    BY <2>1, ElementOfSeq
  <2> HIDE DEF R
  <2>4. Leads(R(n), R(n + 1))
    BY <1>2, <2>2, <2>3, ExecuteLeads
  <2>5. n + 1 \in 0..Len(chunk)
    BY <2>1, <1>0
  <2> QED
    BY <1>2, <2>4, <2>5 DEF Leads
<1> HIDE DEF T
<1>3. 0..Len(chunk) \subseteq T
  BY <1>0, <1>1, <1>2, CountingUp
<1> QED
  BY <1>3 DEF T

-----------------------------------------------------------------------------
(* What it tells. *)

\* What is in a table that further reads lead to.
LEMMA ContentWithin ==
  ASSUME NEW r, Sound(r), NEW reads, r.reads \subseteq reads,
         NEW t \in Values(r.input, reads, 1..Len(r.heap)), Table(t)
  PROVE  /\ DOMAIN Content(r, t) \subseteq Names
         /\ \A k \in DOMAIN Content(r, t) :
              Content(r, t)[k] \in Values(r.input, reads \cup Reading(t, k), 1..Len(r.heap))
<1>0. Len(r.heap) \in Nat /\ Len(r.heap) <= Len(r.heap)
  BY HeldType
<1>1. CASE Own(t)
  <2>1. t.own \in 1..Len(r.heap) /\ ~IsIn(t)
    BY <1>1, Kinds
  <2>2. Content(r, t) = r.heap[t.own].items /\ MapsTo(r.heap[t.own].items, Held(r))
    BY <1>1, <2>1 DEF Content, Sound
  <2>3. \A k : reads \cup Reading(t, k) = reads
    BY <2>1 DEF Reading
  <2>4. Held(r) \subseteq Values(r.input, reads, 1..Len(r.heap))
    BY ONLY <1>0, r.reads \subseteq reads, HeldGrows DEF Held
  <2> QED
    BY <2>2, <2>3, <2>4 DEF MapsTo
<1>2. CASE IsIn(t)
  <2>1. t.input \in Reached(r.input, reads) /\ ~Own(t)
    BY <1>2, Kinds
  <2>2. Content(r, t) = [k \in Keys(r.input, t.input) |-> InputValue(r, Append(t.input, k))]
    BY <2>1 DEF Content
  <2>3. DOMAIN r.input \subseteq Seq(Names)
    BY DEF Sound
  <2>4. ASSUME NEW k \in Keys(r.input, t.input)
        PROVE  /\ k \in Names
               /\ InputValue(r, Append(t.input, k)) \in Values(r.input, reads \cup Reading(t, k), 1..Len(r.heap))
    <3>1. k \in Names /\ Append(t.input, k) \in Reached(r.input, reads \cup Noted(t.input, k))
      BY <2>1, <2>3, ChildReached, Child
    <3> QED
      BY <1>2, <3>1, InputHeld DEF Reading
  <2> QED
    BY <2>2, <2>4
<1> QED
  BY <1>1, <1>2 DEF Table

\* What stands in a document may be told when the roots in reads are.
Told(in, reads) == {"object", "array", "null"} \cup (Scalars(in, reads) \ ({"nil"} \cup Functions))

\* x, the document of a value, tells only what the roots it notes or those in reads allow.
Tells(x, in, reads) ==
  /\ x = [doc |-> x.doc, reads |-> x.reads, error |-> x.error]
  /\ DOMAIN x.doc \subseteq Seq(Names)
  /\ \A p \in DOMAIN x.doc : x.doc[p] \in Told(in, reads \cup x.reads)

\* With more roots noted more may be told.
LEMMA ToldGrows ==
  ASSUME NEW in, NEW reads, NEW more, reads \subseteq more
  PROVE  Told(in, reads) \subseteq Told(in, more)
BY DEF Told, Scalars, Reached

\* A refusal tells nothing.
LEMMA RefusedTells ==
  ASSUME NEW in, NEW reads, NEW e
  PROVE  Tells(Refused(e), in, reads)
BY DEF Tells, Refused

\* A scalar that may be held may be told.
LEMMA LeafTells ==
  ASSUME NEW in, NEW reads, NEW tables, NEW v \in Values(in, reads, tables), ~Table(v)
  PROVE  Tells(Leaf(v), in, reads)
<1>1. v = [val |-> v.val] /\ v.val \in Scalars(in, reads)
  BY Kinds
<1>2. CASE v.val \in Functions
  BY <1>2, RefusedTells DEF Leaf
<1>3. CASE v.val \notin Functions
  <2>1. PICK value : value = IF v = Nil THEN "null" ELSE v.val
    OBVIOUS
  <2>2. value \in Told(in, reads)
    BY <1>1, <1>3, <2>1 DEF Told, Nil
  <2>3. <<>> \in Seq(Names)
    OBVIOUS
  <2>4. PICK doc, x : doc = [p \in {<<>>} |-> value] /\ x = Leaf(v)
    OBVIOUS
  <2>5. x = [doc |-> doc, reads |-> {}, error |-> ""]
    BY <1>3, <2>1, <2>4 DEF Leaf
  <2>6. DOMAIN doc \subseteq Seq(Names) /\ \A p \in DOMAIN doc : doc[p] \in Told(in, reads \cup {})
    BY <2>2, <2>3, <2>4
  <2>7. x.doc = doc /\ x.reads = {} /\ x = [doc |-> x.doc, reads |-> x.reads, error |-> x.error]
    BY <2>5
  <2> QED
    BY <2>4, <2>6, <2>7 DEF Tells
<1> QED
  BY <1>2, <1>3

\* A path behind a key.
LEMMA Prefixed ==
  ASSUME NEW k \in Names, NEW q \in Seq(Names)
  PROVE  /\ <<k>> \o q \in Seq(Names) /\ <<k>> \o q # <<>>
         /\ (<<k>> \o q)[1] = k /\ Tail(<<k>> \o q) = q
<1>1. <<k>> \in Seq(Names) /\ Len(<<k>>) = 1 /\ <<k>>[1] = k
  OBVIOUS
<1>2. PICK p : p = <<k>> \o q
  OBVIOUS
<1>3. p \in Seq(Names) /\ Len(p) = Len(q) + 1 /\ \A i \in 1..Len(q) : p[i + 1] = q[i]
  <2>1. /\ p \in Seq(Names) /\ Len(p) = 1 + Len(q) /\ Len(q) \in Nat
        /\ \A i \in 1..(1 + Len(q)) : p[i] = IF i <= 1 THEN <<k>>[i] ELSE q[i - 1]
    BY <1>1, <1>2, ConcatProperties
  <2>2. \A i \in 1..Len(q) : i + 1 \in 1..(1 + Len(q)) /\ ~(i + 1 <= 1) /\ (i + 1) - 1 = i
    BY <2>1
  <2> QED
    BY <2>1, <2>2
<1>4. p[1] = k /\ p # <<>>
  <2>1. /\ Len(p) = 1 + Len(q) /\ Len(q) \in Nat
        /\ \A i \in 1..(1 + Len(q)) : p[i] = IF i <= 1 THEN <<k>>[i] ELSE q[i - 1]
    BY <1>1, <1>2, ConcatProperties
  <2> QED
    BY <1>1, <2>1
<1>5. Tail(p) \in Seq(Names) /\ Len(Tail(p)) = Len(q) /\ \A i \in 1..Len(q) : Tail(p)[i] = q[i]
  <2>1. Tail(p) \in Seq(Names) /\ Len(Tail(p)) = Len(p) - 1 /\ \A i \in 1..Len(Tail(p)) : Tail(p)[i] = p[i + 1]
    BY <1>3, <1>4, HeadTailProperties
  <2>2. Len(q) \in Nat
    OBVIOUS
  <2> QED
    BY <1>3, <2>1, <2>2
<1>6. Tail(p) = q
  BY <1>5, SeqEqual
<1> QED
  BY <1>2, <1>3, <1>4, <1>6

\* A table's document is joined of those of its items.
Joins(x, r, t, parts) ==
  /\ x = [doc |-> x.doc, reads |-> x.reads, error |-> x.error]
  /\ <<>> \in DOMAIN x.doc
  /\ x.doc[<<>>] = IF IsArray(r, t) THEN "array" ELSE "object"
  /\ \A k \in DOMAIN parts : \A q \in DOMAIN parts[k].doc :
       <<k>> \o q \in DOMAIN x.doc /\ x.doc[<<k>> \o q] = parts[k].doc[q]
  /\ \A p \in DOMAIN x.doc :
       p = <<>> \/ \E k \in DOMAIN parts : \E q \in DOMAIN parts[k].doc : p = <<k>> \o q
  /\ \A k \in DOMAIN parts : parts[k].reads \cup Reading(t, k) \subseteq x.reads

\* Joined makes the document of a table of those of its items.
LEMMA JoinedIs ==
  ASSUME NEW r, NEW t, NEW parts, DOMAIN parts \subseteq Names,
         \A k \in DOMAIN parts : DOMAIN parts[k].doc \subseteq Seq(Names)
  PROVE  Joins(Joined(r, t, parts), r, t, parts)
<1>1. PICK x : x = Joined(r, t, parts)
  OBVIOUS
<1> DEFINE D == {<<>>} \cup UNION {{<<k>> \o q : q \in DOMAIN parts[k].doc} : k \in DOMAIN parts}
           f(p) == IF p # <<>> THEN parts[p[1]].doc[Tail(p)] ELSE IF IsArray(r, t) THEN "array" ELSE "object"
<1>2. PICK doc : doc = [p \in D |-> f(p)]
  OBVIOUS
<1>3. PICK reads : reads = UNION ({parts[k].reads : k \in DOMAIN parts} \cup
                                  {Noted(t.input, k) : k \in IF IsIn(t) THEN DOMAIN parts ELSE {}})
  OBVIOUS
<1>4. PICK e : x = [doc |-> doc, reads |-> reads, error |-> e]
  BY <1>1, <1>2, <1>3 DEF Joined
<1>5. DOMAIN doc = D /\ doc[<<>>] = IF IsArray(r, t) THEN "array" ELSE "object"
  BY <1>2
<1>6. ASSUME NEW k \in DOMAIN parts, NEW q \in DOMAIN parts[k].doc
      PROVE  <<k>> \o q \in D /\ doc[<<k>> \o q] = parts[k].doc[q]
  <2>1. PICK p : p = <<k>> \o q
    OBVIOUS
  <2>2. p # <<>> /\ p[1] = k /\ Tail(p) = q
    BY <2>1, Prefixed
  <2>3. p \in D
    BY <2>1
  <2> HIDE DEF D
  <2> QED
    BY <1>2, <2>1, <2>2, <2>3
<1>7. \A k \in DOMAIN parts : parts[k].reads \cup Reading(t, k) \subseteq reads
  BY <1>3 DEF Reading
<1>8. x.doc = doc /\ x.reads = reads /\ x = [doc |-> x.doc, reads |-> x.reads, error |-> x.error]
  BY <1>4
<1>9. <<>> \in D
      /\ \A p \in D : p = <<>> \/ \E k \in DOMAIN parts : \E q \in DOMAIN parts[k].doc : p = <<k>> \o q
  OBVIOUS
<1> HIDE DEF D
<1> QED
  BY ONLY <1>1, <1>5, <1>6, <1>7, <1>8, <1>9 DEF Joins

\* If the items tell only what their roots allow, so does the table.
LEMMA JoinedTells ==
  ASSUME NEW r, NEW reads, NEW t, NEW parts, DOMAIN parts \subseteq Names,
         \A k \in DOMAIN parts : Tells(parts[k], r.input, reads \cup Reading(t, k)),
         NEW x, x = Joined(r, t, parts)
  PROVE  Tells(x, r.input, reads)
<1>0. \A k \in DOMAIN parts : DOMAIN parts[k].doc \subseteq Seq(Names)
  BY DEF Tells
<1>1. /\ x = [doc |-> x.doc, reads |-> x.reads, error |-> x.error]
      /\ x.doc[<<>>] = IF IsArray(r, t) THEN "array" ELSE "object"
      /\ \A k \in DOMAIN parts : \A q \in DOMAIN parts[k].doc :
           <<k>> \o q \in DOMAIN x.doc /\ x.doc[<<k>> \o q] = parts[k].doc[q]
      /\ \A p \in DOMAIN x.doc :
           p = <<>> \/ \E k \in DOMAIN parts : \E q \in DOMAIN parts[k].doc : p = <<k>> \o q
      /\ \A k \in DOMAIN parts : parts[k].reads \cup Reading(t, k) \subseteq x.reads
  <2>1. Joins(x, r, t, parts)
    BY <1>0, JoinedIs
  <2> QED
    BY ONLY <2>1 DEF Joins
<1>2. ASSUME NEW k \in DOMAIN parts, NEW q \in DOMAIN parts[k].doc
      PROVE  <<k>> \o q \in Seq(Names) /\ x.doc[<<k>> \o q] \in Told(r.input, reads \cup x.reads)
  <2>1. k \in Names /\ q \in Seq(Names)
    BY <1>0
  <2>2. <<k>> \o q \in Seq(Names)
    BY <2>1, Prefixed
  <2>3. parts[k].doc[q] \in Told(r.input, (reads \cup Reading(t, k)) \cup parts[k].reads)
    BY DEF Tells
  <2>4. (reads \cup Reading(t, k)) \cup parts[k].reads \subseteq reads \cup x.reads
    BY <1>1
  <2>5. Told(r.input, (reads \cup Reading(t, k)) \cup parts[k].reads) \subseteq Told(r.input, reads \cup x.reads)
    BY ONLY <2>4, ToldGrows
  <2>6. x.doc[<<k>> \o q] = parts[k].doc[q]
    BY <1>1
  <2> QED
    BY <2>2, <2>3, <2>5, <2>6
<1>3. ASSUME NEW p \in DOMAIN x.doc
      PROVE  p \in Seq(Names) /\ x.doc[p] \in Told(r.input, reads \cup x.reads)
  <2>1. CASE p = <<>>
    <3>1. <<>> \in Seq(Names)
      OBVIOUS
    <3>2. {"array", "object"} \subseteq Told(r.input, reads \cup x.reads)
      BY DEF Told
    <3> QED
      BY <1>1, <2>1, <3>1, <3>2
  <2>2. CASE \E k \in DOMAIN parts : \E q \in DOMAIN parts[k].doc : p = <<k>> \o q
    BY <1>2, <2>2
  <2> QED
    BY <1>1, <2>1, <2>2
<1>4. x = [doc |-> x.doc, reads |-> x.reads, error |-> x.error]
  BY <1>1
<1> QED
  BY ONLY <1>3, <1>4 DEF Tells

\* The tables that may be held are tables of the run.
LEMMA TablesHold ==
  ASSUME NEW r, Sound(r), NEW reads, NEW v \in Values(r.input, reads, 1..Len(r.heap)), Table(v)
  PROVE  v \in Tables(r)
<1>1. DOMAIN r.heap = 1..Len(r.heap)
  BY HeldType
<1>2. Own(v) => v = [own |-> v.own] /\ v.own \in 1..Len(r.heap)
  BY Kinds
<1>3. IsIn(v) => v = [input |-> v.input] /\ v.input \in Reached(r.input, reads)
  BY Kinds
<1>4. IsIn(v) => v.input \in DOMAIN r.input
  BY <1>3 DEF Reached
<1> QED
  BY <1>1, <1>2, <1>3, <1>4 DEF Tables, Table

\* A level holds for each table and all places where it may stand what its items are joined to.
LEMMA LevelIs ==
  ASSUME NEW r, NEW n, NEW deeper, NEW t \in Tables(r), NEW active \in SUBSET Tables(r),
         NEW parts, parts = [k \in DOMAIN Content(r, t) |->
                               Part(Content(r, t)[k], active \cup {t}, n, deeper)]
  PROVE  Level(r, n, deeper)[<<t, active>>] = Joined(r, t, parts)
<1>1. PICK level : level = [y \in Tables(r) \X SUBSET Tables(r) |->
        Joined(r, y[1], [k \in DOMAIN Content(r, y[1]) |->
                           Part(Content(r, y[1])[k], y[2] \cup {y[1]}, n, deeper)])]
  OBVIOUS
<1>2. Level(r, n, deeper) = level
  BY <1>1 DEF Level
<1>3. <<t, active>> \in Tables(r) \X SUBSET Tables(r) /\ <<t, active>>[1] = t /\ <<t, active>>[2] = active
  OBVIOUS
<1>4. level[<<t, active>>] = Joined(r, t, parts)
  BY <1>1, <1>3
<1> QED
  BY <1>2, <1>4

\* No document of a table tells more than the roots noted by the end of its writing allow.
LEMMA JsonTells ==
  ASSUME NEW r, Sound(r)
  PROVE  \A n \in 0..MaxDepth : \A t \in Tables(r), active \in SUBSET Tables(r) : \A reads :
           r.reads \subseteq reads /\ t \in Values(r.input, reads, 1..Len(r.heap))
           => Tells(Json(r)[n][<<t, active>>], r.input, reads)
<1> DEFINE Right(n) == \A t \in Tables(r), active \in SUBSET Tables(r) : \A reads :
             r.reads \subseteq reads /\ t \in Values(r.input, reads, 1..Len(r.heap))
             => Tells(Json(r)[n][<<t, active>>], r.input, reads)
           U == {n \in 0..MaxDepth : Right(n)}
<1>0. MaxDepth \in Nat
  BY CandidateAssumption
<1>1. ASSUME NEW n \in 0..MaxDepth, NEW deeper, Json(r)[n] = Level(r, n, deeper),
             n # 0 => deeper = Json(r)[n - 1] /\ Right(n - 1)
      PROVE  Right(n)
  <2> SUFFICES ASSUME NEW t \in Tables(r), NEW active \in SUBSET Tables(r), NEW reads,
                      r.reads \subseteq reads, t \in Values(r.input, reads, 1..Len(r.heap))
               PROVE  Tells(Json(r)[n][<<t, active>>], r.input, reads)
    BY DEF Right
  <2>1. PICK parts : parts = [k \in DOMAIN Content(r, t) |->
                               Part(Content(r, t)[k], active \cup {t}, n, deeper)]
    OBVIOUS
  <2>2. Json(r)[n][<<t, active>>] = Joined(r, t, parts)
    <3>1. Level(r, n, deeper)[<<t, active>>] = Joined(r, t, parts)
      BY <2>1, LevelIs
    <3> QED
      BY <1>1, <3>1
  <2>3. Table(t)
    BY DEF Tables, Table, Own, IsIn
  <2>4. /\ DOMAIN Content(r, t) \subseteq Names
        /\ \A k \in DOMAIN Content(r, t) :
             Content(r, t)[k] \in Values(r.input, reads \cup Reading(t, k), 1..Len(r.heap))
    BY <2>3, ContentWithin
  <2>5. ASSUME NEW k \in DOMAIN parts
        PROVE  Tells(parts[k], r.input, reads \cup Reading(t, k))
    <3>1. PICK v, more : v = Content(r, t)[k] /\ more = reads \cup Reading(t, k)
      OBVIOUS
    <3>2. v \in Values(r.input, more, 1..Len(r.heap)) /\ r.reads \subseteq more
      BY <2>1, <2>4, <3>1
    <3>3. parts[k] = Part(v, active \cup {t}, n, deeper)
      BY <2>1, <3>1
    <3>4. parts[k] \in {Refused("result_too_deep"), Refused("cyclic_result")} \/ (~Table(v) /\ parts[k] = Leaf(v))
          \/ (n # 0 /\ Table(v) /\ parts[k] = deeper[<<v, active \cup {t}>>])
      BY <3>3 DEF Part
    <3>5. CASE n # 0 /\ Table(v) /\ parts[k] = deeper[<<v, active \cup {t}>>]
      <4>1. v \in Tables(r) /\ active \cup {t} \in SUBSET Tables(r)
        BY <3>2, <3>5, TablesHold
      <4>2. Right(n - 1) /\ parts[k] = Json(r)[n - 1][<<v, active \cup {t}>>]
        BY <1>1, <3>5
      <4> QED
        BY <3>1, <3>2, <4>1, <4>2
    <3> QED
      BY <3>1, <3>2, <3>4, <3>5, LeafTells, RefusedTells
  <2>6. DOMAIN parts \subseteq Names
    BY <2>1, <2>4
  <2>7. Tells(Joined(r, t, parts), r.input, reads)
    BY <2>5, <2>6, JoinedTells
  <2> QED
    BY <2>2, <2>7
<1> HIDE DEF Right
<1>2. 0 \in U
  <2>1. Json(r)[0] = Level(r, 0, <<>>)
    BY JsonUnfolds
  <2> QED
    BY <1>0, <1>1, <2>1
<1>3. ASSUME NEW n \in 0..MaxDepth - 1, n \in U PROVE n + 1 \in U
  <2>1. n + 1 \in 1..MaxDepth /\ (n + 1) - 1 = n /\ n + 1 \in 0..MaxDepth
    BY <1>0
  <2>2. Json(r)[n + 1] = Level(r, n + 1, Json(r)[n])
    BY <2>1, JsonUnfolds
  <2> QED
    BY <1>1, <1>3, <2>1, <2>2
<1> HIDE DEF U
<1>4. 0..MaxDepth \subseteq U
  BY <1>0, <1>2, <1>3, CountingUp
<1> QED
  BY <1>4 DEF U, Right

\* So the document of the value a chunk returns, a table or not.
LEMMA ToJsonTells ==
  ASSUME NEW r, Sound(r)
  PROVE  Tells(ToJson(r, r.acc), r.input, r.reads)
<1>1. r.acc \in Values(r.input, r.reads, 1..Len(r.heap))
  BY DEF Sound, Held
<1>2. CASE Table(r.acc)
  <2>1. r.acc \in Tables(r) /\ {} \in SUBSET Tables(r)
    BY <1>1, <1>2, TablesHold
  <2>2. MaxDepth \in 0..MaxDepth
    BY CandidateAssumption
  <2>3. ToJson(r, r.acc) = Json(r)[MaxDepth][<<r.acc, {}>>]
    BY <1>2 DEF ToJson
  <2> QED
    BY <1>1, <2>1, <2>2, <2>3, JsonTells
<1>3. CASE ~Table(r.acc)
  BY <1>1, <1>3, LeafTells DEF ToJson
<1> QED
  BY <1>2, <1>3

\* What a run on input in returns tells no more than the roots it notes.
Returns(x, in) ==
  /\ x = [code |-> x.code, doc |-> x.doc, reads |-> x.reads]
  /\ DOMAIN x.doc \subseteq Seq(Names)
  /\ \A p \in DOMAIN x.doc : x.doc[p] \in Told(in, x.reads)

\* A run that fails returns nothing.
LEMMA NothingReturned == ASSUME NEW code, NEW reads, NEW in PROVE Returns(Result(code, <<>>, reads), in)
BY DEF Returns, Result

\* What a sound run returns is from under the roots it notes.
LEMMA ReturnedTells ==
  ASSUME NEW r, Sound(r)
  PROVE  Returns(Returned(r), r.input)
<1>1. PICK json : json = ToJson(r, r.acc)
  OBVIOUS
<1>2. Tells(json, r.input, r.reads)
  BY <1>1, ToJsonTells
<1>3. Returned(r) \in {Result("lua_result_serialization_error", <<>>, r.reads),
                       Result("lua_result_too_large", <<>>, r.reads \cup json.reads),
                       Result("", json.doc, r.reads \cup json.reads)}
  BY <1>1 DEF Returned, Encoded
<1>4. Returns(Result("", json.doc, r.reads \cup json.reads), r.input)
  <2>1. PICK x, reads : x = Result("", json.doc, reads) /\ reads = r.reads \cup json.reads
    OBVIOUS
  <2>2. x.doc = json.doc /\ x.reads = reads /\ x = [code |-> x.code, doc |-> x.doc, reads |-> x.reads]
    BY <2>1 DEF Result
  <2>3. DOMAIN json.doc \subseteq Seq(Names) /\ \A p \in DOMAIN json.doc : json.doc[p] \in Told(r.input, reads)
    BY <1>2, <2>1 DEF Tells
  <2> QED
    BY <2>1, <2>2, <2>3 DEF Returns
<1> QED
  BY <1>3, <1>4, NothingReturned

\* What a chunk returns is from under the roots its run notes.
LEMMA RunChunkTells ==
  ASSUME NEW context, Document(context), NEW chunk \in Seq(Statement), NEW shape,
         NEW order, Len(order) \in Nat
  PROVE  Returns(RunChunk(chunk, context, shape, order), RawWf(context))
<1>1. CASE ~Serializable(context)
  BY <1>1, NothingReturned DEF RunChunk
<1>2. CASE Serializable(context)
  <2>1. PICK r : r = Run(chunk, context, order)[Len(chunk)]
    OBVIOUS
  <2>2. Sound(r) /\ r.input = RawWf(context)
    <3>1. Len(chunk) \in 0..Len(chunk)
      OBVIOUS
    <3> QED
      BY <2>1, <3>1, RunSound
  <2>3. PICK returns : returns = (chunk # <<>> /\ Last(chunk).do = "return")
    OBVIOUS
  <2>4. RunChunk(chunk, context, shape, order) = Ended(r, returns, shape)
    BY <1>2, <2>1, <2>3 DEF RunChunk
  <2>5. Leads(r, Declared(r, shape)) /\ Leads(r, [r EXCEPT !.acc = Nil])
    BY <2>2, MarkLeads, LeadsStays, AccSet, NilHeld DEF Declared
  <2>6. PICK q : q = IF returns THEN Declared(r, shape) ELSE [r EXCEPT !.acc = Nil]
    OBVIOUS
  <2>7. Leads(r, q)
    BY <2>5, <2>6
  <2>8. Sound(q) /\ q.input = RawWf(context)
    BY <2>2, <2>7 DEF Leads
  <2>9. Ended(r, returns, shape) \in {Result(r.error, <<>>, r.reads), Returned(q)}
    BY <2>6 DEF Ended
  <2>10. Returns(Returned(q), RawWf(context))
    BY <2>8, ReturnedTells
  <2> QED
    BY <2>4, <2>9, <2>10, NothingReturned
<1> QED
  BY <1>1, <1>2

\* The smallest of some numbers.
LEMMA Smallest ==
  ASSUME NEW S \in SUBSET Nat, S # {}
  PROVE  Min(S) \in S /\ \A x \in S : Min(S) <= x
<1>1. \E x \in S : \A y \in S : ~(<<y, x>> \in OpToRel(<, Nat))
  BY NatLessThanWellFounded, WFMin
<1>2. PICK x \in S : \A y \in S : ~(y < x)
  BY <1>1 DEF OpToRel
<1>3. x \in S /\ \A y \in S : x <= y
  BY <1>2
<1> QED
  BY <1>3 DEF Min

\* SelectInSeq finds a failed run if there is one.
LEMMA FirstFailed ==
  ASSUME NEW ran, Len(ran) \in Nat, DOMAIN ran = 1..Len(ran),
         NEW failed, failed = SelectInSeq(ran, LAMBDA x : x.code # "")
  PROVE  /\ failed # 0 => failed \in DOMAIN ran /\ ran[failed].code # ""
         /\ failed = 0 => \A i \in DOMAIN ran : ran[i].code = ""
<1>1. PICK I, N : /\ I = {i \in 1..N : ran[i].code # ""} /\ N = Len(ran)
                  /\ failed = IF I # {} THEN Min(I) ELSE 0
  BY DEF SelectInSeq
<1>2. N \in Nat /\ DOMAIN ran = 1..N
  BY ONLY <1>1, Len(ran) \in Nat, DOMAIN ran = 1..Len(ran)
<1>3. I \subseteq 1..N
  BY ONLY <1>1
<1>4. I # {} => Min(I) \in I
  <2>1. I \in SUBSET Nat
    BY ONLY <1>2, <1>3
  <2> QED
    BY ONLY <2>1, Smallest
<1>5. \A i \in 1..N : i # 0
  BY ONLY <1>2
<1>6. CASE I # {}
  <2>1. failed \in I
    BY ONLY <1>1, <1>4, <1>6
  <2>2. failed \in 1..N /\ ran[failed].code # ""
    BY ONLY <1>1, <2>1
  <2> QED
    BY ONLY <1>2, <1>5, <2>2
<1>7. CASE I = {}
  <2>1. failed = 0
    BY ONLY <1>1, <1>7
  <2>2. \A i \in 1..N : ran[i].code = ""
    BY ONLY <1>1, <1>7
  <2> QED
    BY ONLY <1>2, <2>1, <2>2
<1> QED
  BY <1>6, <1>7

\* No two positions have the same key.
LEMMA Distinct ==
  \A i, j \in DOMAIN Position : Position[i] = Position[j] => i = j
<1>1. DOMAIN Position = 1..5
  BY Positions
<1>2. Position[1] = "#1" /\ Position[2] = "#2" /\ Position[3] = "#3" /\ Position[4] = "#4" /\ Position[5] = "#5"
  BY DEF Position
<1>3. \A i \in 1..5 : i = 1 \/ i = 2 \/ i = 3 \/ i = 4 \/ i = 5
  OBVIOUS
<1> QED
  BY <1>1, <1>2, <1>3

\* The results of at most five chunks under one object.
LEMMA EnvelopedIs ==
  ASSUME NEW ran, DOMAIN ran \subseteq DOMAIN Position,
         \A i \in DOMAIN ran : DOMAIN ran[i].doc \subseteq Seq(Names)
  PROVE  /\ DOMAIN Enveloped(ran) \subseteq Seq(Names)
         /\ \A p \in DOMAIN Enveloped(ran) :
              \/ p = <<>> /\ Enveloped(ran)[p] = "object"
              \/ \E i \in DOMAIN ran : \E q \in DOMAIN ran[i].doc :
                   p = <<Position[i]>> \o q /\ Enveloped(ran)[p] = ran[i].doc[q]
<1> DEFINE D == {<<>>} \cup UNION {{<<Position[i]>> \o q : q \in DOMAIN ran[i].doc} : i \in DOMAIN ran}
           f(p) == IF p = <<>> THEN "object"
                   ELSE ran[CHOOSE i \in DOMAIN ran : Position[i] = p[1]].doc[Tail(p)]
<1>1. PICK x : x = Enveloped(ran)
  OBVIOUS
<1>2. x = [p \in D |-> f(p)]
  BY <1>1 DEF Enveloped
<1>3. ASSUME NEW p \in D
      PROVE  /\ p \in Seq(Names)
             /\ \/ p = <<>> /\ f(p) = "object"
                \/ \E i \in DOMAIN ran : \E q \in DOMAIN ran[i].doc :
                     p = <<Position[i]>> \o q /\ f(p) = ran[i].doc[q]
  <2>1. CASE p = <<>>
    <3>1. <<>> \in Seq(Names)
      OBVIOUS
    <3> QED
      BY <2>1, <3>1
  <2>2. ASSUME NEW i \in DOMAIN ran, NEW q \in DOMAIN ran[i].doc, p = <<Position[i]>> \o q
        PROVE  p \in Seq(Names) /\ f(p) = ran[i].doc[q]
    <3>1. i \in DOMAIN Position /\ Position[i] \in Names /\ q \in Seq(Names)
      BY Positions
    <3>2. p \in Seq(Names) /\ p # <<>> /\ p[1] = Position[i] /\ Tail(p) = q
      BY <2>2, <3>1, Prefixed
    <3>3. (CHOOSE j \in DOMAIN ran : Position[j] = p[1]) = i
      BY <3>2, Distinct
    <3> QED
      BY <3>2, <3>3
  <2>3. p = <<>> \/ \E i \in DOMAIN ran : \E q \in DOMAIN ran[i].doc : p = <<Position[i]>> \o q
    OBVIOUS
  <2> HIDE DEF D, f
  <2> QED
    BY <2>1, <2>2, <2>3
<1> HIDE DEF D, f
<1>4. DOMAIN x = D /\ \A p \in D : x[p] = f(p)
  BY <1>2
<1> QED
  BY <1>1, <1>3, <1>4

\* If the chunks of an envelope tell only what their roots allow, so does the envelope.
LEMMA TogetherTells ==
  ASSUME NEW in, NEW ran, Len(ran) \in 0..5, DOMAIN ran = 1..Len(ran),
         \A i \in DOMAIN ran : Returns(ran[i], in)
  PROVE  Returns(Together(ran), in)
<1>0. DOMAIN ran \subseteq DOMAIN Position /\ Len(ran) \in Nat
  BY Positions
<1>1. PICK failed : failed = SelectInSeq(ran, LAMBDA x : x.code # "")
  OBVIOUS
<1>2. failed # 0 => failed \in DOMAIN ran
  BY ONLY <1>0, <1>1, DOMAIN ran = 1..Len(ran), FirstFailed
<1>3. PICK reads : reads = UNION {ran[i].reads : i \in DOMAIN ran}
  OBVIOUS
<1>4. \/ Together(ran) \in {Result("lua_result_too_large", <<>>, {}), Result("", Enveloped(ran), reads)}
      \/ failed # 0 /\ Together(ran) = ran[failed]
  BY ONLY <1>1, <1>3 DEF Together
<1>5. Returns(Result("", Enveloped(ran), reads), in)
  <2>1. PICK x, doc : x = Result("", doc, reads) /\ doc = Enveloped(ran)
    OBVIOUS
  <2>2. x.doc = doc /\ x.reads = reads /\ x = [code |-> x.code, doc |-> x.doc, reads |-> x.reads]
    BY <2>1 DEF Result
  <2>3. \A i \in DOMAIN ran : /\ DOMAIN ran[i].doc \subseteq Seq(Names)
                              /\ \A q \in DOMAIN ran[i].doc : ran[i].doc[q] \in Told(in, ran[i].reads)
    BY DEF Returns
  <2>4. /\ DOMAIN doc \subseteq Seq(Names)
        /\ \A p \in DOMAIN doc :
             \/ p = <<>> /\ doc[p] = "object"
             \/ \E i \in DOMAIN ran : \E q \in DOMAIN ran[i].doc :
                  p = <<Position[i]>> \o q /\ doc[p] = ran[i].doc[q]
    BY <1>0, <2>1, <2>3, EnvelopedIs
  <2>5. ASSUME NEW i \in DOMAIN ran, NEW q \in DOMAIN ran[i].doc PROVE ran[i].doc[q] \in Told(in, reads)
    <3>1. ran[i].reads \subseteq reads
      BY <1>3
    <3>2. Told(in, ran[i].reads) \subseteq Told(in, reads)
      BY ONLY <3>1, ToldGrows
    <3> QED
      BY <2>3, <3>2
  <2>6. "object" \in Told(in, reads)
    BY DEF Told
  <2>7. \A p \in DOMAIN doc : doc[p] \in Told(in, reads)
    BY <2>4, <2>5, <2>6
  <2> QED
    BY <2>1, <2>2, <2>4, <2>7 DEF Returns
<1> QED
  BY <1>2, <1>4, <1>5, NothingReturned

\* Nothing that a candidate's chunks return is from under a root that they do not note.
LEMMA OutputTells ==
  ASSUME NEW context, Document(context), NEW chunks, chunks \in Seq(Statement) \X Seq(Statement) \/
         \E chunk \in Seq(Statement) : chunks = <<chunk>>,
         NEW envelope, NEW shape, NEW order, Len(order) \in Nat
  PROVE  Returns(Output(chunks, envelope, context, shape, order), RawWf(context))
<1>1. /\ DOMAIN chunks \in {1..1, 1..2} /\ 1 \in DOMAIN chunks
      /\ \A i \in DOMAIN chunks : chunks[i] \in Seq(Statement)
  OBVIOUS
<1>2. \A i \in DOMAIN chunks : \A s : Returns(RunChunk(chunks[i], context, s, order), RawWf(context))
  BY <1>1, RunChunkTells
<1>3. PICK ran : ran = [i \in DOMAIN chunks |-> RunChunk(chunks[i], context, "", order)]
  OBVIOUS
<1>4. Len(ran) \in 0..5 /\ DOMAIN ran = 1..Len(ran)
  <2>1. DOMAIN ran = 1..1 \/ DOMAIN ran = 1..2
    BY <1>1, <1>3
  <2>2. \A n \in Nat : DOMAIN ran = 1..n => Len(ran) = n
    BY LenIs2
  <2> QED
    BY <2>1, <2>2
<1>5. Returns(Together(ran), RawWf(context))
  BY <1>2, <1>3, <1>4, TogetherTells
<1> QED
  BY <1>1, <1>2, <1>3, <1>5 DEF Output

-----------------------------------------------------------------------------
(* The way from one check to the next. *)

\* The budget of the validation within the one around it.
Limit == Min({Budget, outer})

Typed ==
  /\ stage \in {"writing", "format", "policy", "luac", "compile", "request", "cases", "done", "raised"}
  /\ clock \in Nat
  /\ IsSequence(checks) /\ IsSequence(results)
  /\ stage # "writing" => task \in Tasks /\ outer \in Nat
  /\ stage \notin {"cases", "done", "raised"} => Len(results) = 0
  /\ stage = "cases" => Len(results) >= 1

\* The probes are the only processes that may outlast the limit, and nothing runs after it.
InTime ==
  /\ stage \in {"writing", "format", "policy", "luac"} => clock = 0
  /\ stage \notin {"writing", "format", "policy", "luac"} => clock <= Limit + Probe
  /\ stage \in {"request", "cases"} \/ Len(results) # 0 => clock <= Limit

RequestIsRight ==
  \E order \in Orders :
    LET x == Output(Chunks, task.envelope, task.context, task.shape, order)
    IN x.code = "" /\ ~ShapeError(x.doc)

CaseIsRight(c) ==
  \E order \in Orders :
    LET x == Output(Chunks, task.envelope, c.context, task.shape, order)
    IN x.code = "" /\ ~ShapeError(x.doc) /\ x.doc = c.expected

\* As long as every check has passed, each one made stands for what it is about.
ChecksAreEarned ==
  AllPassed =>
    /\ stage \in {"luac", "compile", "request", "cases", "done"} =>
         \A i \in DOMAIN Chunks : Findings(Chunks[i]) = {}
    /\ stage \in {"cases", "done"} => RequestIsRight
    /\ stage = "cases" =>
         \A j \in DOMAIN task.cases : j < Len(results) => CaseIsRight(task.cases[j])
    /\ stage = "done" => \A j \in DOMAIN task.cases : CaseIsRight(task.cases[j])

IInv == Typed /\ InTime /\ ChecksAreEarned

\* The empty sequence is one, and only it is empty.
LEMMA EmptySequence ==
  /\ IsSequence(<<>>) /\ Len(<<>>) = 0
  /\ \A s : IsSequence(s) /\ s # <<>> => Len(s) # 0
<1>1. <<>> \in Seq({}) /\ Len(<<>>) = 0
  BY EmptySeq
<1>2. <<>> \in [1..Len(<<>>) -> {}] /\ Len(<<>>) \in Nat
  BY <1>1, LenProperties
<1>3. IsSequence(<<>>)
  BY <1>2 DEF IsSequence
<1>4. ASSUME NEW s, IsSequence(s), s # <<>> PROVE Len(s) # 0
  <2>1. PICK S : s \in Seq(S)
    BY <1>4, SequenceType
  <2> QED
    BY <1>4, <2>1, EmptySeq
<1> QED
  BY <1>1, <1>3, <1>4

\* A further check: a failed one spoils the verdict, a passed one leaves it open.
LEMMA FurtherCheck ==
  ASSUME IsSequence(checks), NEW e, checks' = Append(checks, e)
  PROVE  /\ IsSequence(checks)'
         /\ AllPassed' <=> AllPassed /\ e.status = "passed"
<1>1. IsSequence(checks')
  BY Appended
<1>2. /\ Len(checks) \in Nat
      /\ DOMAIN checks = 1..Len(checks) /\ DOMAIN checks' = 1..(Len(checks) + 1)
      /\ \A i \in 1..Len(checks) : checks'[i] = checks[i]
      /\ checks'[Len(checks) + 1] = e
  BY Appended DEF IsSequence
<1>3. AllPassed' <=> AllPassed /\ e.status = "passed"
  BY <1>2 DEF AllPassed
<1> QED
  BY <1>1, <1>3 DEF IsSequence

\* The validation goes on with all that has passed, or ends with a failed check.
LEMMA PassOrFail ==
  ASSUME IsSequence(checks)
  PROVE  /\ \A next : Pass(next) => IsSequence(checks)' /\ (AllPassed' <=> AllPassed) /\ stage' = next
         /\ \A code : Fail(code) => IsSequence(checks)' /\ ~AllPassed' /\ stage' = "done"
<1>1. ASSUME NEW next, Pass(next)
      PROVE  IsSequence(checks)' /\ (AllPassed' <=> AllPassed) /\ stage' = next
  <2>1. PICK e : e = Passed
    OBVIOUS
  <2>2. checks' = Append(checks, e) /\ e.status = "passed" /\ stage' = next
    BY <1>1, <2>1 DEF Pass, Passed
  <2> QED
    BY <2>2, FurtherCheck
<1>2. ASSUME NEW code, Fail(code)
      PROVE  IsSequence(checks)' /\ ~AllPassed' /\ stage' = "done"
  <2>1. PICK e : e = Failed(code)
    OBVIOUS
  <2>2. checks' = Append(checks, e) /\ e.status # "passed" /\ stage' = "done"
    BY <1>2, <2>1 DEF Fail, Failed
  <2> QED
    BY <2>2, FurtherCheck
<1> QED
  BY <1>1, <1>2

\* The smaller of two numbers.
LEMMA MinOfTwo ==
  ASSUME NEW a \in Int, NEW b \in Int
  PROVE  Min({a, b}) = IF a <= b THEN a ELSE b
<1>1. \E x \in {a, b} : \A y \in {a, b} : x <= y
  OBVIOUS
<1>2. Min({a, b}) \in {a, b} /\ \A y \in {a, b} : Min({a, b}) <= y
  BY <1>1 DEF Min
<1> QED
  BY <1>2

\* What is left of the time, for one process or several.
LEMMA TimeLeft ==
  ASSUME outer \in Nat, clock \in Nat
  PROVE  /\ Limit \in Nat
         /\ \A cap \in Int : Remaining(cap) \in Int /\ Remaining(cap) <= Limit - clock
         /\ ~Exhausted => clock < Limit
<1>1. Budget \in Nat \ {0}
  BY CandidateAssumption
<1>2. Limit \in Nat
  BY <1>1, MinOfTwo DEF Limit
<1>3. ASSUME NEW cap \in Int PROVE Remaining(cap) \in Int /\ Remaining(cap) <= Limit - clock
  <2>1. Limit - clock \in Int
    BY <1>2
  <2>2. Remaining(cap) = Min({cap, Limit - clock})
    BY DEF Remaining, Limit
  <2> QED
    BY <2>1, <2>2, MinOfTwo
<1>4. ~Exhausted => clock < Limit
  BY <1>1, <1>2, <1>3 DEF Exhausted
<1> QED
  BY <1>2, <1>3, <1>4

\* Processes end before the limit.
LEMMA RunsEndInTime ==
  ASSUME outer \in Nat, clock \in Nat, ~Exhausted,
         NEW cap \in Nat, NEW d \in Durations(Len(Chunks), cap)
  PROVE  clock + d \in Nat /\ clock + d <= Limit
<1>1. Len(Chunks) \in Nat
  BY DEF Chunks
<1>2. Limit \in Nat /\ clock < Limit
  BY TimeLeft
<1>3. PICK n \in Nat : n = Len(Chunks) * cap
  BY <1>1
<1>4. Remaining(n) \in Int /\ Remaining(n) <= Limit - clock
  <2>1. \A c \in Int : Remaining(c) \in Int /\ Remaining(c) <= Limit - clock
    BY ONLY outer \in Nat, clock \in Nat, TimeLeft
  <2> QED
    BY <2>1
<1>5. d \in Nat /\ (d = 0 \/ d <= Remaining(n))
  BY <1>3, <1>4 DEF Durations
<1> QED
  BY <1>2, <1>4, <1>5

\* A run without an error returned what the sandbox makes of the chunks.
LEMMA RunIsRight ==
  ASSUME NEW context, NEW d, NEW x \in Executions(context, d), RunError(x) = ""
  PROVE  /\ x.code = "" /\ ~ShapeError(x.doc)
         /\ \E order \in Orders : x = Output(Chunks, task.envelope, context, task.shape, order)
<1>1. x.code = ""
  BY DEF RunError
<1>2. ~ShapeError(x.doc)
  BY <1>1 DEF RunError
<1>3. \E order \in Orders : x = Output(Chunks, task.envelope, context, task.shape, order)
  <2>1. \A code, doc, reads : Result(code, doc, reads).code = code
    BY DEF Result
  <2>2. PICK empty : empty = <<>>
    OBVIOUS
  <2>3. \/ x \in {Output(Chunks, task.envelope, context, task.shape, order) : order \in Orders}
        \/ \E code \in {"lua_runtime_timeout", "lua_runtime_missing", "lua_process_failed",
                        "sandbox_internal_error"} : x = Result(code, empty, {})
    BY <2>2 DEF Executions
  <2> QED
    BY <1>1, <2>1, <2>3
<1> QED
  BY <1>1, <1>2, <1>3

-----------------------------------------------------------------------------

\* The budget and the caps are numbers.
LEMMA CapsAreNumbers == Budget \in Nat \ {0} /\ {LuacCap, RunCap, Probe} \subseteq Nat
BY CandidateAssumption

\* Before the candidate is handed in nothing is checked and no time passes.
LEMMA WritingStep ==
  ASSUME IInv, \/ \E s \in Statements : Write(s)
               \/ \E t \in Tasks, o \in Outer : Submit(t, o)
  PROVE  IInv'
<1> USE DEF IInv
<1>1. ASSUME NEW s \in Statements, Write(s) PROVE IInv'
  BY <1>1 DEF Write, Typed, InTime, ChecksAreEarned, IsSequence
<1>2. ASSUME NEW t \in Tasks, NEW o \in Outer, Submit(t, o) PROVE IInv'
  <2>1. stage = "writing" /\ stage' = "format" /\ UNCHANGED <<clock, checks, results>>
        /\ task' = t /\ outer' = o /\ o \in Nat
    BY <1>2, CandidateAssumption DEF Submit
  <2>2. Typed'
    BY <2>1 DEF Typed, IsSequence
  <2>3. InTime'
    BY <2>1 DEF Typed, InTime
  <2> QED
    BY <2>1, <2>2, <2>3 DEF ChecksAreEarned
<1> QED
  BY <1>1, <1>2

\* The format and the policy.
LEMMA ReadingStep == ASSUME IInv, ValidateFormat \/ AnalyzePolicy PROVE IInv'
<1>0. /\ Typed /\ InTime /\ ChecksAreEarned /\ IsSequence(checks)
      /\ clock = 0 /\ Len(results) = 0 /\ outer \in Nat
      /\ UNCHANGED <<program, task, outer, clock, results>>
  BY DEF IInv, Typed, InTime, ValidateFormat, AnalyzePolicy
<1>1. Limit \in Nat /\ Probe \in Nat
  BY <1>0, TimeLeft, CapsAreNumbers
<1>2. CASE ValidateFormat
  <2>1. Pass("policy") \/ \E code : Fail(code)
    BY <1>2 DEF ValidateFormat, Checked
  <2>2. stage = "format"
    BY <1>2 DEF ValidateFormat
  <2>3. CASE Pass("policy")
    <3>1. IsSequence(checks)' /\ stage' = "policy"
      BY <1>0, <2>3, PassOrFail
    <3> QED
      BY <1>0, <1>1, <2>2, <3>1 DEF IInv, Typed, InTime, ChecksAreEarned, IsSequence
  <2>4. CASE \E code : Fail(code)
    <3>1. IsSequence(checks)' /\ ~AllPassed' /\ stage' = "done"
      BY <1>0, <2>4, PassOrFail
    <3>2. Typed'
      BY <1>0, <2>2, <3>1 DEF Typed, IsSequence
    <3>3. InTime'
      BY <1>0, <1>1, <2>2, <3>1 DEF InTime, Limit
    <3> QED
      BY <3>1, <3>2, <3>3 DEF IInv, ChecksAreEarned
  <2> QED
    BY <2>1, <2>3, <2>4
<1>3. CASE AnalyzePolicy
  <2> DEFINE findings == UNION {Findings(Chunks[i]) : i \in DOMAIN Chunks}
  <2>1. \/ findings = {} /\ Pass("luac")
        \/ \E code : Fail(code)
    BY <1>3 DEF AnalyzePolicy
  <2>2. stage = "policy"
    BY <1>3 DEF AnalyzePolicy
  <2>3. CASE findings = {} /\ Pass("luac")
    <3>1. IsSequence(checks)' /\ stage' = "luac"
      BY <1>0, <2>3, PassOrFail
    <3>2. \A i \in DOMAIN Chunks : Findings(Chunks[i]) = {}
      BY <2>3
    <3>3. Chunks' = Chunks
      BY <1>0 DEF Chunks
    <3>4. Typed'
      BY <1>0, <2>2, <3>1 DEF Typed, IsSequence
    <3>5. InTime'
      BY <1>0, <1>1, <2>2, <3>1 DEF InTime, Limit
    <3> QED
      BY <3>1, <3>2, <3>3, <3>4, <3>5 DEF IInv, ChecksAreEarned
  <2>4. CASE \E code : Fail(code)
    <3>1. IsSequence(checks)' /\ ~AllPassed' /\ stage' = "done"
      BY <1>0, <2>4, PassOrFail
    <3>2. Typed'
      BY <1>0, <2>2, <3>1 DEF Typed, IsSequence
    <3>3. InTime'
      BY <1>0, <1>1, <2>2, <3>1 DEF InTime, Limit
    <3> QED
      BY <3>1, <3>2, <3>3 DEF IInv, ChecksAreEarned
  <2> QED
    BY <2>1, <2>3, <2>4
<1> QED
  BY <1>2, <1>3

\* luac is looked for and run.
LEMMA CompileStep == ASSUME IInv, LocateLuac \/ CompileChunks PROVE IInv'
<1>0. /\ Typed /\ InTime /\ ChecksAreEarned /\ IsSequence(checks) /\ IsSequence(results)
      /\ clock \in Nat /\ Len(results) = 0 /\ outer \in Nat /\ task \in Tasks
      /\ UNCHANGED <<program, task, outer, results>>
  BY DEF IInv, Typed, InTime, LocateLuac, CompileChunks
<1>1. Limit \in Nat /\ Limit' = Limit /\ Probe \in Nat /\ LuacCap \in Nat
  BY <1>0, TimeLeft, CapsAreNumbers DEF Limit
<1>2. Chunks' = Chunks /\ IsSequence(results)'
  BY <1>0 DEF Chunks, IsSequence
<1>3. CASE LocateLuac
  <2>1. stage = "luac" /\ clock = 0
    BY <1>0, <1>3 DEF LocateLuac, InTime
  <2>2. clock' \in Nat /\ clock' <= Probe
    BY <1>1, <1>3, <2>1 DEF LocateLuac
  <2>3. \/ stage' = "compile" /\ checks' = checks
        \/ \E code : Fail(code)
    BY <1>3 DEF LocateLuac
  <2>4. CASE stage' = "compile" /\ checks' = checks
    <3>1. AllPassed' <=> AllPassed
      BY <2>4 DEF AllPassed
    <3>2. Typed'
      BY <1>0, <1>2, <2>2, <2>4 DEF Typed, IsSequence
    <3>3. InTime'
      BY <1>0, <1>1, <2>2, <2>4 DEF InTime
    <3> QED
      BY <1>0, <1>2, <2>1, <2>4, <3>1, <3>2, <3>3 DEF IInv, ChecksAreEarned
  <2>5. CASE \E code : Fail(code)
    <3>1. IsSequence(checks)' /\ ~AllPassed' /\ stage' = "done"
      BY <1>0, <2>5, PassOrFail
    <3>2. Typed'
      BY <1>0, <1>2, <2>2, <3>1 DEF Typed
    <3>3. InTime'
      BY <1>0, <1>1, <2>2, <3>1 DEF InTime
    <3> QED
      BY <3>1, <3>2, <3>3 DEF IInv, ChecksAreEarned
  <2> QED
    BY <2>3, <2>4, <2>5
<1>4. CASE CompileChunks
  <2>1. PICK d \in Durations(Len(Chunks), LuacCap) :
          \E c \in LuacCodes(d) : clock' = clock + d /\ Checked(c, "request")
    BY <1>4 DEF CompileChunks
  <2>7. PICK code : clock' = clock + d /\ Checked(code, "request")
    BY <2>1
  <2>2. stage = "compile" /\ ~Exhausted
    BY <1>4 DEF CompileChunks
  <2>3. clock' \in Nat /\ clock' <= Limit
    BY <1>0, <1>1, <2>7, <2>2, RunsEndInTime
  <2>4. InTime'
    <3>1. stage' \in {"request", "done"}
      BY <1>0, <2>7, PassOrFail DEF Checked
    <3> QED
      BY <1>0, <1>1, <2>3, <3>1 DEF InTime
  <2>5. CASE Pass("request")
    <3>1. IsSequence(checks)' /\ (AllPassed' <=> AllPassed) /\ stage' = "request"
      BY <1>0, <2>5, PassOrFail
    <3>2. Typed'
      BY <1>0, <1>2, <2>3, <3>1 DEF Typed
    <3> QED
      BY <1>0, <1>2, <2>2, <2>4, <3>1, <3>2 DEF IInv, ChecksAreEarned
  <2>6. CASE Fail(code)
    <3>1. IsSequence(checks)' /\ ~AllPassed' /\ stage' = "done"
      BY <1>0, <2>6, PassOrFail
    <3>2. Typed'
      BY <1>0, <1>2, <2>3, <3>1 DEF Typed
    <3> QED
      BY <2>4, <3>1, <3>2 DEF IInv, ChecksAreEarned
  <2> QED
    BY <2>7, <2>5, <2>6 DEF Checked
<1> QED
  BY <1>3, <1>4

\* The run on the request.
LEMMA RequestStep == ASSUME IInv, Request PROVE IInv'
<1>0. /\ Typed /\ InTime /\ ChecksAreEarned /\ IsSequence(checks) /\ IsSequence(results)
      /\ clock \in Nat /\ Len(results) = 0 /\ outer \in Nat /\ task \in Tasks
      /\ stage = "request" /\ ~Exhausted
      /\ UNCHANGED <<program, task, outer>>
  BY DEF IInv, Typed, Request
<1>1. Limit \in Nat /\ Limit' = Limit /\ Probe \in Nat /\ RunCap \in Nat
  BY <1>0, TimeLeft, CapsAreNumbers DEF Limit
<1>2. PICK d \in Durations(Len(Chunks), RunCap) :
        \E y \in Executions(task.context, d) :
          clock' = clock + d /\ results' = Append(results, y) /\ Checked(RunError(y), "cases")
  BY DEF Request
<1>3. PICK x \in Executions(task.context, d) :
        clock' = clock + d /\ results' = Append(results, x) /\ Checked(RunError(x), "cases")
  BY <1>2
<1>4. clock' \in Nat /\ clock' <= Limit
  BY <1>0, <1>1, <1>3, RunsEndInTime
<1>5. IsSequence(results') /\ Len(results') = 1
  <2>1. IsSequence(results') /\ Len(results') = Len(results) + 1
    BY <1>0, <1>3, Appended
  <2> QED
    BY <1>0, <2>1
<1>6. stage' \in {"cases", "done"} /\ IsSequence(checks)'
  BY <1>0, <1>3, PassOrFail DEF Checked
<1>7. Typed'
  BY <1>0, <1>4, <1>5, <1>6 DEF Typed, IsSequence
<1>8. InTime'
  BY <1>0, <1>1, <1>4, <1>6 DEF InTime
<1>9. ChecksAreEarned'
  <2>1. CASE RunError(x) = ""
    <3>1. (AllPassed' <=> AllPassed) /\ stage' = "cases"
      BY <1>0, <1>3, <2>1, PassOrFail DEF Checked
    <3>2. RequestIsRight
      BY <2>1, RunIsRight DEF RequestIsRight
    <3>3. Chunks' = Chunks
      BY <1>0 DEF Chunks
    <3>4. RequestIsRight'
      BY <1>0, <3>2, <3>3 DEF RequestIsRight, ShapeError
    <3>5. \A j \in DOMAIN task.cases : ~(j < Len(results'))
      BY <1>0, <1>5, CandidateAssumption
    <3> QED
      BY <1>0, <3>1, <3>3, <3>4, <3>5 DEF ChecksAreEarned
  <2>2. CASE RunError(x) # ""
    <3>1. ~AllPassed'
      BY <1>0, <1>3, <2>2, PassOrFail DEF Checked
    <3> QED
      BY <3>1 DEF ChecksAreEarned
  <2> QED
    BY <2>1, <2>2
<1> QED
  BY <1>7, <1>8, <1>9 DEF IInv

\* The run on a case.
LEMMA CaseStep == ASSUME IInv, Case PROVE IInv'
<1>0. /\ Typed /\ InTime /\ ChecksAreEarned /\ IsSequence(checks) /\ IsSequence(results)
      /\ clock \in Nat /\ Len(results) \in Nat /\ Len(results) >= 1 /\ outer \in Nat /\ task \in Tasks
      /\ stage = "cases" /\ ~Exhausted
      /\ UNCHANGED <<program, task, outer, stage>>
  BY DEF IInv, Typed, Case, IsSequence
<1>1. Limit \in Nat /\ Limit' = Limit /\ Probe \in Nat /\ RunCap \in Nat
  BY <1>0, TimeLeft, CapsAreNumbers DEF Limit
<1>2. PICK i \in Nat : i = Len(results)
  BY <1>0
<1>3. PICK d \in Durations(Len(Chunks), RunCap) :
        \E y \in Executions(task.cases[i].context, d) :
          /\ clock' = clock + d /\ results' = Append(results, y)
          /\ checks' = Append(checks, CaseCheck(y, task.cases[i].expected))
  BY <1>2 DEF Case
<1>4. PICK x \in Executions(task.cases[i].context, d) :
        /\ clock' = clock + d /\ results' = Append(results, x)
        /\ checks' = Append(checks, CaseCheck(x, task.cases[i].expected))
  BY <1>3
<1>5. clock' \in Nat /\ clock' <= Limit
  BY <1>0, <1>1, <1>4, RunsEndInTime
<1>6. IsSequence(results') /\ Len(results') = i + 1
  BY <1>0, <1>2, <1>4, Appended
<1>7. /\ IsSequence(checks)'
      /\ AllPassed' <=> AllPassed /\ CaseCheck(x, task.cases[i].expected).status = "passed"
  BY <1>0, <1>4, FurtherCheck
<1>8. Typed'
  BY <1>0, <1>2, <1>5, <1>6, <1>7 DEF Typed, IsSequence
<1>9. InTime'
  BY <1>0, <1>1, <1>5 DEF InTime
<1>10. ASSUME AllPassed' PROVE \A j \in DOMAIN task.cases : j < Len(results') => CaseIsRight(task.cases[j])
  <2>1. AllPassed /\ CaseCheck(x, task.cases[i].expected).status = "passed"
    BY <1>7, <1>10
  <2>2. RunError(x) = "" /\ x.doc = task.cases[i].expected
    BY <2>1 DEF CaseCheck, Failed
  <2>3. CaseIsRight(task.cases[i])
    <3>1. /\ x.code = "" /\ ~ShapeError(x.doc)
          /\ \E order \in Orders :
               x = Output(Chunks, task.envelope, task.cases[i].context, task.shape, order)
      BY <2>2, RunIsRight
    <3> QED
      BY <2>2, <3>1 DEF CaseIsRight
  <2>4. \A j \in DOMAIN task.cases : j < i => CaseIsRight(task.cases[j])
    BY <1>0, <1>2, <2>1 DEF ChecksAreEarned
  <2>5. DOMAIN task.cases \subseteq Int
    BY <1>0, CandidateAssumption
  <2> QED
    BY <1>6, <2>3, <2>4, <2>5
<1>11. ChecksAreEarned'
  <2>1. Chunks' = Chunks
    BY <1>0 DEF Chunks
  <2>2. \A c : CaseIsRight(c)' <=> CaseIsRight(c)
    BY <1>0, <2>1 DEF CaseIsRight, ShapeError
  <2>3. RequestIsRight' <=> RequestIsRight
    BY <1>0, <2>1 DEF RequestIsRight, ShapeError
  <2>4. AllPassed' => AllPassed
    BY <1>7
  <2> QED
    BY <1>0, <1>10, <2>1, <2>2, <2>3, <2>4 DEF ChecksAreEarned
<1> QED
  BY <1>8, <1>9, <1>11 DEF IInv

\* The verdict, or none for lack of time.
LEMMA EndStep == ASSUME IInv, Conclude \/ Raise \/ UNCHANGED vars PROVE IInv'
<1>0. /\ Typed /\ InTime /\ ChecksAreEarned /\ IsSequence(checks) /\ IsSequence(results)
      /\ clock \in Nat /\ UNCHANGED <<program, task, outer, checks, results>>
  BY DEF IInv, Typed, Conclude, Raise, vars
<1>1. Limit' = Limit /\ Chunks' = Chunks /\ (AllPassed' <=> AllPassed)
      /\ IsSequence(checks)' /\ IsSequence(results)'
  BY <1>0 DEF Limit, Chunks, AllPassed, IsSequence
<1>2. \A c : CaseIsRight(c)' <=> CaseIsRight(c)
  BY <1>0, <1>1 DEF CaseIsRight, ShapeError
<1>3. RequestIsRight' <=> RequestIsRight
  BY <1>0, <1>1 DEF RequestIsRight, ShapeError
<1>4. CASE Conclude
  <2>1. stage = "cases" /\ stage' = "done" /\ UNCHANGED clock
        /\ Len(results) > Len(task.cases) /\ task \in Tasks /\ Len(results) \in Nat
    BY <1>0, <1>4 DEF Conclude, Typed, IsSequence
  <2>2. \A j \in DOMAIN task.cases : j < Len(results)
    BY <2>1, CandidateAssumption
  <2>3. Typed'
    BY <1>0, <1>1, <2>1 DEF Typed
  <2>4. InTime'
    BY <1>0, <1>1, <2>1 DEF InTime
  <2>5. ChecksAreEarned'
    BY <1>0, <1>1, <1>2, <1>3, <2>1, <2>2 DEF ChecksAreEarned
  <2> QED
    BY <2>3, <2>4, <2>5 DEF IInv
<1>5. CASE Raise
  <2>1. stage \in {"compile", "request", "cases"} /\ stage' = "raised" /\ outer \in Nat /\ task \in Tasks
    BY <1>0, <1>5 DEF Raise, Typed
  <2>2. Limit \in Nat /\ Budget \in Int /\ Probe \in Nat
        /\ Remaining(Budget) \in Int /\ Remaining(Budget) <= Limit - clock
    <3>1. Budget \in Int /\ Probe \in Nat
      BY CapsAreNumbers
    <3>2. \A cap \in Int : Remaining(cap) \in Int /\ Remaining(cap) <= Limit - clock
      BY <1>0, <2>1, TimeLeft
    <3> QED
      BY <1>0, <2>1, <3>1, <3>2, TimeLeft
  <2>3. \/ UNCHANGED clock
        \/ clock' = clock + Remaining(Budget) /\ Remaining(Budget) >= 1
    <3> DEFINE first == (Len(Chunks) - 1) * IF stage = "compile" THEN LuacCap ELSE RunCap
    <3>1. \/ UNCHANGED clock
          \/ Remaining(Budget) \in 1..first /\ clock' = clock + Remaining(Budget)
      BY <1>5 DEF Raise
    <3> HIDE DEF first
    <3> QED
      BY <3>1
  <2>4. clock' \in Nat /\ (clock' = clock \/ clock' <= Limit)
    BY <1>0, <2>2, <2>3
  <2>5. Typed'
    BY <1>0, <1>1, <2>1, <2>4 DEF Typed
  <2>6. clock <= Limit + Probe /\ (Len(results) # 0 => clock <= Limit)
    BY <1>0, <2>1 DEF InTime
  <2>7. clock' <= Limit + Probe /\ (Len(results) # 0 => clock' <= Limit)
    BY <1>0, <2>2, <2>4, <2>6
  <2>8. InTime'
    BY <1>0, <1>1, <2>1, <2>7 DEF InTime
  <2> QED
    BY <2>1, <2>5, <2>8 DEF IInv, ChecksAreEarned
<1>6. CASE UNCHANGED vars
  <2>1. UNCHANGED <<stage, clock>>
    BY <1>6 DEF vars
  <2>2. Typed'
    BY <1>0, <1>1, <2>1 DEF Typed
  <2>3. InTime'
    BY <1>0, <1>1, <2>1 DEF InTime
  <2>4. ChecksAreEarned'
    BY <1>0, <1>1, <1>2, <1>3, <2>1 DEF ChecksAreEarned
  <2> QED
    BY <2>2, <2>3, <2>4 DEF IInv
<1> QED
  BY <1>4, <1>5, <1>6

\* Each step of the validation keeps the time and what the checks stand for.
THEOREM IInvCorrect == Spec => []IInv
<1>1. Init => IInv
  <2> SUFFICES ASSUME Init PROVE IInv
    OBVIOUS
  <2>1. PICK empty : empty = <<>>
    OBVIOUS
  <2>2. IsSequence(empty) /\ Len(empty) = 0
    BY <2>1, EmptySequence
  <2>3. stage = "writing" /\ clock = 0 /\ checks = empty /\ results = empty
    BY <2>1 DEF Init
  <2> QED
    BY <2>2, <2>3 DEF IInv, Typed, InTime, ChecksAreEarned
<1>2. IInv /\ [Step]_vars => IInv'
  BY WritingStep, ReadingStep, CompileStep, RequestStep, CaseStep, EndStep DEF Step
<1> QED
  BY <1>1, <1>2, PTL DEF Spec

\* Whatever the model wrote and however long each process takes, an accepted candidate
\* broke no rule, and returned a value of the contract's shape on the request and the
\* expected one on every case.
THEOREM AcceptedIsAlwaysRight == Spec => []AcceptedIsRight
<1>1. IInv => AcceptedIsRight
  <2> SUFFICES ASSUME IInv, Accepted PROVE AcceptedIsRight
    BY DEF AcceptedIsRight
  <2>1. stage = "done" /\ AllPassed /\ ChecksAreEarned
    BY DEF IInv, Accepted
  <2>2. \A i \in DOMAIN Chunks : Findings(Chunks[i]) = {}
    BY <2>1 DEF ChecksAreEarned
  <2>3. RequestIsRight /\ \A c \in Range(task.cases) : CaseIsRight(c)
    BY <2>1 DEF ChecksAreEarned, Range
  <2> QED
    BY <2>2, <2>3 DEF AcceptedIsRight, RequestIsRight, CaseIsRight
<1> QED
  BY <1>1, IInvCorrect, PTL

\* A validation never takes longer than its own budget and what is left of the one
\* around it, but for the probes, and no run counts that ended later.
THEOREM TimeIsAlwaysBounded == Spec => []TimeIsBounded
<1>1. IInv => TimeIsBounded
  <2> SUFFICES ASSUME IInv, stage # "writing"
               PROVE  clock <= Limit + Probe /\ (results # <<>> => clock <= Limit)
    BY DEF TimeIsBounded, Limit
  <2>1. Typed /\ InTime /\ outer \in Nat /\ clock \in Nat
    BY DEF IInv, Typed
  <2>2. Limit \in Nat /\ Probe \in Nat
    BY <2>1, TimeLeft, CapsAreNumbers
  <2>3. results # <<>> => Len(results) # 0
    BY <2>1, EmptySequence DEF Typed
  <2> QED
    BY <2>1, <2>2, <2>3 DEF InTime
<1> QED
  BY <1>1, IInvCorrect, PTL

-----------------------------------------------------------------------------
(* What the validation has run. *)

\* What a run ends with that its chunks do not end.
Outside == {"lua_runtime_timeout", "lua_runtime_missing", "lua_process_failed", "sandbox_internal_error"}

\* How a run on a context may end.
IsRunOn(x, context) ==
  \/ \E order \in Orders : x = Output(Chunks, task.envelope, context, task.shape, order)
  \/ \E code \in Outside : x = Result(code, <<>>, {})

\* The model has written something.
Begun == program # <<>>

\* The candidate is a program the policy has let through before it runs, and each result is that of
\* its run.
RunsAreReal ==
  /\ program \in Seq(Statement)
  /\ stage \in {"luac", "compile", "request", "cases"} \/ Len(results) # 0 =>
       \A i \in DOMAIN Chunks : Findings(Chunks[i]) = {}
  /\ stage \in {"policy", "luac", "compile", "request", "cases"} \/ Len(results) # 0 => Begun
  /\ \A i \in 1..Len(results) :
       /\ i = 1 \/ i - 1 \in DOMAIN task.cases
       /\ IsRunOn(results[i], Context(i))
       /\ AllPassed => RunError(results[i]) = ""

\* Whatever a process that runs the chunks ends with.
LEMMA ExecutionsAre ==
  ASSUME NEW context, NEW d, NEW x \in Executions(context, d)
  PROVE  IsRunOn(x, context)
BY DEF Executions, IsRunOn, Outside

\* While program and task stay, a run stays one of the same chunks.
LEMMA SameCandidate ==
  ASSUME program' = program, task' = task
  PROVE  /\ Chunks' = Chunks /\ \A i : Context(i)' = Context(i)
         /\ \A x, context : IsRunOn(x, context)' <=> IsRunOn(x, context)
         /\ \A x : RunError(x)' = RunError(x)
<1>1. Chunks' = Chunks
  BY DEF Chunks
<1> QED
  BY <1>1 DEF Context, IsRunOn, RunError, ShapeError

\* Steps that run nothing keep RunsAreReal.
LEMMA KeepsRuns ==
  ASSUME IInv, RunsAreReal, UNCHANGED <<program, task, results>>, AllPassed' => AllPassed,
         stage' \in {"luac", "compile", "request", "cases"} =>
           \A i \in DOMAIN Chunks : Findings(Chunks[i]) = {},
         stage' \in {"policy", "luac", "compile", "request", "cases"} => Begun
  PROVE  RunsAreReal'
<1>1. /\ Chunks' = Chunks /\ \A i : Context(i)' = Context(i)
      /\ \A x, context : IsRunOn(x, context)' <=> IsRunOn(x, context)
      /\ \A x : RunError(x)' = RunError(x)
  BY SameCandidate
<1>2. Begun' = Begun
  BY DEF Begun
<1> QED
  BY <1>1, <1>2 DEF RunsAreReal

\* Steps that run the chunks on the next context keep it.
LEMMA AddsRun ==
  ASSUME IInv, RunsAreReal, UNCHANGED <<program, task>>, stage \in {"request", "cases"}, NEW d,
         Len(results) = 0 \/ Len(results) \in DOMAIN task.cases,
         NEW x \in Executions(Context(Len(results) + 1), d), results' = Append(results, x),
         AllPassed' => AllPassed /\ RunError(x) = ""
  PROVE  RunsAreReal'
<1>1. /\ Chunks' = Chunks /\ \A i : Context(i)' = Context(i)
      /\ \A y, context : IsRunOn(y, context)' <=> IsRunOn(y, context)
      /\ \A y : RunError(y)' = RunError(y)
  BY SameCandidate
<1>2. IsSequence(results) /\ Len(results) \in Nat
  BY DEF IInv, Typed, IsSequence
<1>3. PICK n : n = Len(results) /\ n \in Nat
  BY <1>2
<1>9. Len(results') = n + 1 /\ results'[n + 1] = x /\ \A i \in 1..n : results'[i] = results[i]
  BY ONLY <1>2, <1>3, results' = Append(results, x), Appended
<1>4. IsRunOn(x, Context(n + 1))
  BY <1>3, ExecutionsAre
<1>5. ASSUME NEW i \in 1..Len(results')
      PROVE  /\ i = 1 \/ i - 1 \in DOMAIN task.cases
             /\ IsRunOn(results'[i], Context(i))
             /\ AllPassed' => RunError(results'[i]) = ""
  <2>1. CASE i = n + 1
    <3>1. i - 1 = n /\ (n = 0 => i = 1)
      BY ONLY <1>3, <2>1
    <3>2. n = 0 \/ n \in DOMAIN task.cases
      BY <1>3
    <3>3. results'[i] = x
      BY <1>9, <2>1
    <3> QED
      BY <1>4, <2>1, <3>1, <3>2, <3>3
  <2>2. CASE i \in 1..n
    <3>1. /\ i = 1 \/ i - 1 \in DOMAIN task.cases
          /\ IsRunOn(results[i], Context(i))
          /\ AllPassed => RunError(results[i]) = ""
      BY <1>3, <2>2 DEF RunsAreReal
    <3>2. results'[i] = results[i]
      BY <1>9, <2>2
    <3> QED
      BY <3>1, <3>2
  <2>3. i = n + 1 \/ i \in 1..n
    BY ONLY <1>3, <1>9, i \in 1..Len(results')
  <2> QED
    BY <2>1, <2>2, <2>3
<1>6. program' \in Seq(Statement) /\ Begun' /\ \A i \in DOMAIN Chunks : Findings(Chunks[i]) = {}
  <2>1. Begun
    BY DEF RunsAreReal
  <2>2. Begun' = Begun
    BY DEF Begun
  <2> QED
    BY <2>1, <2>2 DEF RunsAreReal
<1>7. ASSUME NEW i \in 1..Len(results') PROVE IsRunOn(results[i], Context(i))'
  BY <1>1, <1>5 DEF IsRunOn
<1>8. ASSUME AllPassed', NEW i \in 1..Len(results') PROVE RunError(results[i])' = ""
  BY <1>5, <1>8 DEF RunError, ShapeError
<1> QED
  BY <1>1, <1>5, <1>6, <1>7, <1>8 DEF RunsAreReal

\* Every step keeps it.
LEMMA RunsStep == ASSUME IInv, RunsAreReal, [Step]_vars PROVE RunsAreReal'
<1>0. /\ stage \notin {"cases", "done", "raised"} => Len(results) = 0
      /\ stage = "cases" => Len(results) >= 1
      /\ IsSequence(checks) /\ IsSequence(results) /\ Len(results) \in Nat
  BY DEF IInv, Typed, IsSequence
<1>1. ASSUME NEW s \in Statements, Write(s) PROVE RunsAreReal'
  <2>1. program' = Append(program, s) /\ stage' = "writing" /\ results' = results /\ Len(results) = 0
    BY <1>0, <1>1 DEF Write
  <2>2. program \in Seq(Statement) /\ s \in Statement
    BY InputAssumption DEF RunsAreReal
  <2>3. program' \in Seq(Statement)
    BY <2>1, <2>2, AppendProperties
  <2> QED
    BY <2>1, <2>3 DEF RunsAreReal
<1>2. ASSUME NEW t \in Tasks, NEW o \in Outer, Submit(t, o) PROVE RunsAreReal'
  <2>1. program' = program /\ stage' = "format" /\ results' = results /\ Len(results) = 0
    BY <1>0, <1>2 DEF Submit
  <2> QED
    BY <2>1 DEF RunsAreReal
<1>3. CASE ValidateFormat
  <2>1. UNCHANGED <<program, task, results>> /\ stage' \in {"policy", "done"} /\ (AllPassed' => AllPassed)
    BY <1>0, <1>3, PassOrFail DEF ValidateFormat, Checked
  <2>2. ~Begun => stage' = "done"
    BY <1>3 DEF ValidateFormat, Fail, Begun
  <2> QED
    BY <2>1, <2>2, KeepsRuns
<1>4. CASE AnalyzePolicy
  <2>1. UNCHANGED <<program, task, results>> /\ (AllPassed' => AllPassed)
        /\ \/ \A i \in DOMAIN Chunks : Findings(Chunks[i]) = {}
           \/ stage' = "done"
    BY <1>0, <1>4, PassOrFail DEF AnalyzePolicy
  <2>2. Begun
    BY <1>4 DEF AnalyzePolicy, RunsAreReal
  <2> QED
    BY <2>1, <2>2, KeepsRuns
<1>5. CASE LocateLuac
  <2>1. UNCHANGED <<program, task, results>> /\ stage = "luac"
    BY <1>5 DEF LocateLuac
  <2>2. AllPassed' => AllPassed
    BY <1>0, <1>5, PassOrFail DEF LocateLuac, AllPassed
  <2> QED
    BY <2>1, <2>2, KeepsRuns DEF RunsAreReal
<1>6. CASE CompileChunks
  <2>1. UNCHANGED <<program, task, results>> /\ stage = "compile"
    BY <1>6 DEF CompileChunks
  <2>2. \E code : Checked(code, "request")
    BY <1>6 DEF CompileChunks
  <2>3. AllPassed' => AllPassed
    BY <1>0, <2>2, PassOrFail DEF Checked
  <2> QED
    BY <2>1, <2>3, KeepsRuns DEF RunsAreReal
<1>7. CASE Request
  <2>1. PICK d \in Durations(Len(Chunks), RunCap) :
          \E y \in Executions(task.context, d) :
            clock' = clock + d /\ results' = Append(results, y) /\ Checked(RunError(y), "cases")
    BY <1>7 DEF Request
  <2>2. PICK x \in Executions(task.context, d) :
          results' = Append(results, x) /\ Checked(RunError(x), "cases")
    BY <2>1
  <2>3. stage = "request" /\ UNCHANGED <<program, task>> /\ Len(results) = 0
    BY <1>0, <1>7 DEF Request
  <2>4. Context(Len(results) + 1) = task.context
    BY <2>3 DEF Context
  <2>5. AllPassed' => AllPassed /\ RunError(x) = ""
    BY <1>0, <2>2, PassOrFail DEF Checked
  <2> QED
    BY <2>2, <2>3, <2>4, <2>5, AddsRun
<1>8. CASE Case
  <2>1. PICK i : i = Len(results)
    OBVIOUS
  <2>2. PICK d \in Durations(Len(Chunks), RunCap) :
          \E y \in Executions(task.cases[i].context, d) :
            /\ results' = Append(results, y)
            /\ checks' = Append(checks, CaseCheck(y, task.cases[i].expected))
    BY <1>8, <2>1 DEF Case
  <2>3. PICK x \in Executions(task.cases[i].context, d) :
          /\ results' = Append(results, x)
          /\ checks' = Append(checks, CaseCheck(x, task.cases[i].expected))
    BY <2>2
  <2>4. stage = "cases" /\ UNCHANGED <<program, task>> /\ i <= Len(task.cases) /\ task \in Tasks /\ i >= 1 /\ i \in Nat
    BY <1>0, <1>8, <2>1 DEF Case, IInv, Typed
  <2>5. i \in DOMAIN task.cases
    BY <2>4, CandidateAssumption
  <2>6. Context(i + 1) = task.cases[i].context
    <3>1. i + 1 # 1 /\ (i + 1) - 1 = i
      BY <2>4
    <3> QED
      BY <3>1 DEF Context
  <2>7. AllPassed' => AllPassed /\ RunError(x) = ""
    <3>1. AllPassed' => AllPassed /\ CaseCheck(x, task.cases[i].expected).status = "passed"
      BY <1>0, <2>3, FurtherCheck
    <3> QED
      BY <3>1 DEF CaseCheck, Failed
  <2> QED
    BY <2>1, <2>3, <2>4, <2>5, <2>6, <2>7, AddsRun
<1>9. CASE Conclude \/ Raise \/ UNCHANGED vars
  <2>1. UNCHANGED <<program, task, results, checks>> /\ (stage' \in {"done", "raised"} \/ stage' = stage)
    BY <1>9 DEF Conclude, Raise, vars
  <2>2. AllPassed' => AllPassed
    BY <2>1 DEF AllPassed
  <2> QED
    BY <2>1, <2>2, KeepsRuns DEF RunsAreReal
<1> QED
  BY <1>1, <1>2, <1>3, <1>4, <1>5, <1>6, <1>7, <1>8, <1>9 DEF Step

\* What the validation has run was let through by the policy first, and each of its results is
\* the one of the chunks on their context, or of a process that failed around them.
THEOREM RunsAreAlwaysReal == Spec => [](IInv /\ RunsAreReal)
<1>1. Init => RunsAreReal
  <2> SUFFICES ASSUME Init PROVE RunsAreReal
    OBVIOUS
  <2>1. stage = "writing" /\ program = <<>> /\ results = <<>>
    BY DEF Init
  <2>2. program \in Seq(Statement) /\ Len(results) = 0
    BY <2>1
  <2> QED
    BY <2>1, <2>2 DEF RunsAreReal
<1>2. IInv /\ RunsAreReal /\ [Step]_vars => RunsAreReal'
  BY RunsStep
<1> QED
  BY <1>1, <1>2, IInvCorrect, PTL DEF Spec

\* A candidate is one chunk or two.
LEMMA ChunksAre ==
  ASSUME RunsAreReal, task \in Tasks
  PROVE  \/ Chunks \in Seq(Statement) \X Seq(Statement)
         \/ \E chunk \in Seq(Statement) : Chunks = <<chunk>>
BY InputAssumption DEF RunsAreReal, Chunks

\* What it runs on is JSON.
LEMMA ContextsAre ==
  ASSUME task \in Tasks, NEW i, i = 1 \/ i - 1 \in DOMAIN task.cases
  PROVE  Document(Context(i))
BY InputAssumption DEF Context, Range

\* What an accepted candidate returns it made itself or found outside of the roots that are not
\* selected, on the request and on every case: the proxies note every root on the way of a value.
THEOREM OnlySelectedRootsAlways == Spec => []SelectedRootsOnly
<1>1. ASSUME IInv, RunsAreReal PROVE SelectedRootsOnly
  <2> SUFFICES ASSUME Accepted, NEW i \in DOMAIN results,
                      NEW x \in Range(results[i].doc) \ {"object", "array", "null", "0"}
               PROVE  \E p \in DOMAIN Context(i) :
                        Context(i)[p] = x /\ (p # <<>> /\ p[1] \in Roots => p[1] \in task.roots)
    BY DEF SelectedRootsOnly
  <2>1. i \in 1..Len(results) /\ task \in Tasks
    BY <1>1 DEF IInv, Typed, IsSequence, Accepted
  <2>2. PICK y, context : y = results[i] /\ context = Context(i)
    OBVIOUS
  <2>3. IsRunOn(y, context) /\ RunError(y) = "" /\ Document(context)
    BY <1>1, <2>1, <2>2, ContextsAre DEF RunsAreReal, Accepted
  <2>4. Returns(y, RawWf(context))
    <3>1. ASSUME NEW order \in Orders
          PROVE  Returns(Output(Chunks, task.envelope, context, task.shape, order), RawWf(context))
      <4>1. Len(order) \in Nat
        BY InputAssumption
      <4> QED
        BY <1>1, <2>1, <2>3, <4>1, ChunksAre, OutputTells
    <3> QED
      BY <2>3, <3>1, NothingReturned DEF IsRunOn
  <2>5. y.reads \subseteq task.roots
    BY <2>3 DEF RunError
  <2>6. x \in Told(RawWf(context), y.reads)
    BY <2>2, <2>4 DEF Returns, Range
  <2>7. PICK p \in DOMAIN RawWf(context) :
          x = RawWf(context)[p] /\ (p # <<>> /\ p[1] \in Roots => p[1] \in y.reads) /\ x # "table"
    BY <2>6 DEF Told, Scalars, Reached
  <2>8. p \in DOMAIN context /\ RawWf(context)[p] = context[p]
    BY <2>7 DEF RawWf
  <2> QED
    BY <2>2, <2>5, <2>7, <2>8
<1> QED
  BY <1>1, RunsAreAlwaysReal, PTL

-----------------------------------------------------------------------------
(* Aliases of the input. *)

\* A table of the library or a function.
OfLibrary(v) == (Own(v) /\ v.own <= 3) \/ v \in [val : Functions]

\* No table of a chunk's own holds a part of the input or of the library.
Clean(heap) ==
  \A i \in DOMAIN heap : \A k \in DOMAIN heap[i].items :
    ~IsIn(heap[i].items[k]) /\ (~(i <= 3) => ~OfLibrary(heap[i].items[k]))

\* The policy's scopes know of every local that is a part of the input; none is of the library.
Agrees(scopes, env) ==
  /\ IsSequence(scopes) /\ Len(scopes) = Len(env) /\ Len(env) # 0
  /\ \A i \in 1..Len(env) : /\ DOMAIN scopes[i] = DOMAIN env[i]
                            /\ \A x \in DOMAIN env[i] :
                                 (IsIn(env[i][x]) => scopes[i][x]) /\ ~OfLibrary(env[i][x])

\* The read-only proxies are parts of the input or of the library, which are apart; nil, 0 and a table
\* of the chunk are neither.
LEMMA Apart ==
  /\ \A v : ReadOnly(v) => IsIn(v) \/ OfLibrary(v)
  /\ \A p : IsIn([input |-> p]) /\ ~OfLibrary([input |-> p])
  /\ \A x : x \notin Functions => ~OfLibrary([val |-> x]) /\ ~IsIn([val |-> x])
  /\ ~OfLibrary(Nil) /\ ~IsIn(Nil) /\ ~OfLibrary([val |-> "0"]) /\ ~IsIn([val |-> "0"])
  /\ \A i : ~(i <= 3) => ~OfLibrary([own |-> i]) /\ ~IsIn([own |-> i])
<1>1. \A v : ReadOnly(v) => IsIn(v) \/ OfLibrary(v)
  BY LibraryIs DEF ReadOnly, OfLibrary
<1>2. \A p : IsIn([input |-> p]) /\ ~OfLibrary([input |-> p])
  BY DEF IsIn, OfLibrary, Own
<1>3. \A x : x \notin Functions => ~OfLibrary([val |-> x]) /\ ~IsIn([val |-> x])
  BY DEF IsIn, OfLibrary, Own
<1>4. "nil" \notin Functions /\ "0" \notin Functions
  BY DEF Functions
<1>5. \A i : ~(i <= 3) => ~OfLibrary([own |-> i]) /\ ~IsIn([own |-> i])
  BY DEF IsIn, OfLibrary, Own
<1> QED
  BY <1>1, <1>2, <1>3, <1>4, <1>5 DEF Nil

\* From r to q: reads, which change no local and no table.
Quiet(r, q) == q.env = r.env /\ q.heap = r.heap /\ q.error \in {r.error, "lua_runtime_error"} /\ IsRecord(q)

\* Reads are quiet, and only from the input do they get a part of the input, only from the library one
\* of the library: one key,
LEMMA IndexQuiet ==
  ASSUME NEW r, Sound(r), Clean(r.heap), NEW key
  PROVE  /\ Quiet(r, Index(r, key))
         /\ IsIn(Index(r, key).acc) => IsIn(r.acc)
         /\ OfLibrary(Index(r, key).acc) => OfLibrary(r.acc)
<1>0. IsRecord(r)
  BY HeldType
<1>1. CASE r.error # ""
  <2>1. Index(r, key) = r
    BY <1>1 DEF Index
  <2> QED
    BY <1>0, <2>1 DEF Quiet
<1>2. CASE r.error = "" /\ ~Table(r.acc)
  <2>1. PICK q : q = Error(r, "lua_runtime_error")
    OBVIOUS
  <2>2. q = [env |-> r.env, heap |-> r.heap, input |-> r.input, reads |-> r.reads, acc |-> Nil,
             error |-> "lua_runtime_error"]
    BY <1>0, <2>1, SetErrorAcc DEF Error
  <2>3. Index(r, key) = q
    BY <1>2, <2>1 DEF Index
  <2> QED
    BY <2>2, <2>3, Apart DEF Quiet, IsRecord
<1>3. CASE r.error = "" /\ Table(r.acc)
  <2>1. PICK v, more : /\ v = IF key \in DOMAIN Content(r, r.acc) THEN Content(r, r.acc)[key] ELSE Nil
                       /\ more = r.reads \cup Reading(r.acc, key)
    OBVIOUS
  <2>2. PICK q : q = [r EXCEPT !.acc = v, !.reads = more]
    OBVIOUS
  <2>3. q = [env |-> r.env, heap |-> r.heap, input |-> r.input, reads |-> more, acc |-> v, error |-> r.error]
    BY <1>0, <2>2, SetAccReads
  <2>4. Index(r, key) = q
    BY <1>3, <2>1, <2>2 DEF Index, Reading
  <2>5. IsIn(v) => IsIn(r.acc)
    <3>1. SUFFICES ASSUME ~IsIn(r.acc) PROVE ~IsIn(v)
      OBVIOUS
    <3>2. Own(r.acc)
      BY <1>3, <3>1 DEF Table
    <3>3. Content(r, r.acc) = r.heap[r.acc.own].items
      BY <3>2 DEF Content
    <3>4. r.acc.own \in DOMAIN r.heap
      BY <3>2, Kinds, HeldType DEF Sound, Held
    <3> QED
      BY <2>1, <3>3, <3>4, Apart DEF Clean
  <2>6. OfLibrary(v) => OfLibrary(r.acc)
    <3>1. SUFFICES ASSUME ~OfLibrary(r.acc), key \in DOMAIN Content(r, r.acc)
                   PROVE  ~OfLibrary(Content(r, r.acc)[key])
      BY <2>1, Apart
    <3>2. CASE Own(r.acc)
      <4>1. Content(r, r.acc) = r.heap[r.acc.own].items /\ ~(r.acc.own <= 3)
        BY <3>1, <3>2 DEF Content, OfLibrary
      <4>2. r.acc.own \in DOMAIN r.heap
        BY <3>2, Kinds, HeldType DEF Sound, Held
      <4> QED
        BY <3>1, <4>1, <4>2 DEF Clean
    <3>3. CASE ~Own(r.acc)
      <4>1. PICK path : path = r.acc.input
        OBVIOUS
      <4>2. Content(r, r.acc) = [k \in Keys(r.input, path) |-> InputValue(r, Append(path, k))]
        BY <3>3, <4>1 DEF Content
      <4>3. PICK p : p = Append(path, key)
        OBVIOUS
      <4>4. p \in DOMAIN r.input /\ r.input[p] \notin Functions
        <5>1. key \in Keys(r.input, path) /\ DOMAIN r.input \subseteq Seq(Names)
          BY <3>1, <4>2 DEF Sound
        <5> QED
          BY <4>3, <5>1, Child DEF Sound
      <4>5. Content(r, r.acc)[key] \in {[input |-> p], [val |-> r.input[p]]}
        BY <3>1, <4>2, <4>3 DEF InputValue
      <4> QED
        BY <4>4, <4>5, Apart
    <3> QED
      BY <3>2, <3>3
  <2> QED
    BY <2>3, <2>4, <2>5, <2>6 DEF Quiet, IsRecord
<1> QED
  BY <1>1, <1>2, <1>3

\* ... the keys of a path,
LEMMA WalkQuiet ==
  ASSUME NEW r, Sound(r), Clean(r.heap), NEW keys, Len(keys) \in Nat
  PROVE  \A n \in 0..Len(keys) : /\ Quiet(r, Walk(r, keys)[n])
                                 /\ IsIn(Walk(r, keys)[n].acc) => IsIn(r.acc)
                                 /\ OfLibrary(Walk(r, keys)[n].acc) => OfLibrary(r.acc)
<1> DEFINE w(n) == Walk(r, keys)[n]
           T == {n \in 0..Len(keys) : /\ Quiet(r, w(n))
                                      /\ IsIn(w(n).acc) => IsIn(r.acc)
                                      /\ OfLibrary(w(n).acc) => OfLibrary(r.acc)}
<1>1. 0 \in T
  BY WalkUnfolds, HeldType DEF Quiet
<1>2. ASSUME NEW n \in 0..Len(keys) - 1, n \in T PROVE n + 1 \in T
  <2>1. n + 1 \in 1..Len(keys) /\ (n + 1) - 1 = n /\ n + 1 \in 0..Len(keys) /\ n \in 0..Len(keys)
    OBVIOUS
  <2>2. w(n + 1) = Index(w(n), keys[n + 1])
    BY <2>1, WalkUnfolds
  <2>3. Sound(w(n))
    BY <2>1, WalkLeads DEF Leads
  <2> HIDE DEF w
  <2>4. Quiet(r, w(n)) /\ (IsIn(w(n).acc) => IsIn(r.acc)) /\ (OfLibrary(w(n).acc) => OfLibrary(r.acc))
    BY <1>2
  <2>5. /\ Quiet(w(n), w(n + 1))
        /\ IsIn(w(n + 1).acc) => IsIn(w(n).acc)
        /\ OfLibrary(w(n + 1).acc) => OfLibrary(w(n).acc)
    BY <2>2, <2>3, <2>4, IndexQuiet DEF Quiet
  <2>6. Quiet(r, w(n + 1))
    BY <2>4, <2>5 DEF Quiet
  <2> QED
    BY <2>1, <2>4, <2>5, <2>6
<1> HIDE DEF T
<1>3. 0..Len(keys) \subseteq T
  BY <1>1, <1>2, CountingUp
<1> QED
  BY <1>3 DEF T

\* ... a path.
LEMMA PathQuiet ==
  ASSUME NEW r, Sound(r), Clean(r.heap), NEW path \in Seq(Names), path # <<>>
  PROVE  /\ Quiet(r, Path(r, path))
         /\ IsIn(Path(r, path).acc) => IsIn(Named(r, path[1]))
         /\ OfLibrary(Path(r, path).acc) => OfLibrary(Named(r, path[1]))
<1>1. PICK q, v : q = [r EXCEPT !.acc = v] /\ v = Named(r, path[1])
  OBVIOUS
<1>2. q = [env |-> r.env, heap |-> r.heap, input |-> r.input, reads |-> r.reads, acc |-> v, error |-> r.error]
  BY <1>1, SetAcc, HeldType
<1>3. Sound(q)
  BY <1>1, NamedHeld, AccSet DEF Leads
<1>4. Len(Tail(path)) = Len(path) - 1 /\ Len(path) - 1 \in Nat
  <2>1. Len(path) \in Nat \ {0}
    BY EmptySeq
  <2> QED
    BY <2>1, HeadTailProperties
<1>5. Path(r, path) = Walk(q, Tail(path))[Len(path) - 1]
  BY <1>1 DEF Path
<1>6. Clean(q.heap)
  BY <1>2
<1>7. \A n \in 0..Len(Tail(path)) : /\ Quiet(q, Walk(q, Tail(path))[n])
                                    /\ IsIn(Walk(q, Tail(path))[n].acc) => IsIn(q.acc)
                                    /\ OfLibrary(Walk(q, Tail(path))[n].acc) => OfLibrary(q.acc)
  BY <1>3, <1>4, <1>6, WalkQuiet
<1>8. /\ Quiet(q, Path(r, path))
      /\ IsIn(Path(r, path).acc) => IsIn(q.acc)
      /\ OfLibrary(Path(r, path).acc) => OfLibrary(q.acc)
  BY <1>4, <1>5, <1>7
<1> QED
  BY <1>1, <1>2, <1>8 DEF Quiet

\* A name that stands for a part of the input is wf, or a local the policy knows for an alias.
LEMMA NamedAliases ==
  ASSUME NEW r, Sound(r), NEW scopes, Agrees(scopes, r.env), NEW x, IsIn(Named(r, x))
  PROVE  x = "wf" \/ AliasesWf(scopes, x)
<1>1. DOMAIN scopes = 1..Len(r.env) /\ DOMAIN r.env = 1..Len(r.env) /\ Len(r.env) \in Nat
  BY HeldType DEF Agrees, IsSequence
<1>2. Owner(scopes, x) = Owner(r.env, x)
  BY <1>1, SameOwner DEF Agrees
<1>3. PICK o : o = Owner(r.env, x)
  OBVIOUS
<1>4. CASE o = 0
  <2>1. \A y \in {"pairs", "pcall"} : ~IsIn([val |-> y])
    BY DEF IsIn
  <2>2. ~IsIn([own |-> 1]) /\ ~IsIn([own |-> 2])
    BY DEF IsIn
  <2> QED
    BY <1>3, <1>4, <2>1, <2>2, Apart DEF Named, Global
<1>5. CASE o # 0
  <2>0. Owner(r.env, x) \in 0..Len(r.env) /\ (Owner(r.env, x) # 0 => x \in DOMAIN r.env[Owner(r.env, x)])
    BY <1>1, OwnerIs
  <2>1. o \in 1..Len(r.env) /\ x \in DOMAIN r.env[o]
    BY <1>1, <1>3, <1>5, <2>0
  <2>2. IsIn(r.env[o][x])
    BY <1>3, <1>5 DEF Named
  <2>3. scopes[o][x]
    BY <2>1, <2>2 DEF Agrees
  <2> QED
    BY <1>2, <1>3, <1>5, <2>3 DEF AliasesWf
<1> QED
  BY <1>4, <1>5

\* One that stands for a part of the library is a global.
LEMMA NamedLibrary ==
  ASSUME NEW r, Sound(r), NEW scopes, Agrees(scopes, r.env), NEW x, OfLibrary(Named(r, x))
  PROVE  Owner(scopes, x) = 0 /\ x \in Libraries
<1>1. DOMAIN scopes = 1..Len(r.env) /\ DOMAIN r.env = 1..Len(r.env) /\ Len(r.env) \in Nat
  BY HeldType DEF Agrees, IsSequence
<1>2. Owner(scopes, x) = Owner(r.env, x)
  BY <1>1, SameOwner DEF Agrees
<1>3. Owner(r.env, x) \in 0..Len(r.env) /\ (Owner(r.env, x) # 0 => x \in DOMAIN r.env[Owner(r.env, x)])
  BY <1>1, OwnerIs
<1>4. PICK o : o = Owner(r.env, x)
  OBVIOUS
<1>5. o = 0
  <2>1. SUFFICES ASSUME o # 0 PROVE FALSE
    OBVIOUS
  <2>2. o \in 1..Len(r.env) /\ x \in DOMAIN r.env[o]
    BY <1>1, <1>3, <1>4, <2>1
  <2>3. Named(r, x) = r.env[o][x]
    BY <1>4, <2>1 DEF Named
  <2> QED
    BY <2>2, <2>3 DEF Agrees
<1>6. x \in {"table", "_utils", "pairs", "pcall"}
  <2>1. Named(r, x) = Global(x)
    BY <1>4, <1>5 DEF Named
  <2> QED
    BY <2>1, Apart DEF Global
<1> QED
  BY <1>2, <1>4, <1>5, <1>6 DEF Libraries, AllowedGlobals

\* Where a path leads into the input, the policy knows; where it leads into the library, all do.
LEMMA PathFollowed ==
  ASSUME NEW r, Sound(r), Clean(r.heap), NEW scopes, Agrees(scopes, r.env),
         NEW path \in Seq(Names), path # <<>>, IsIn(Path(r, path).acc)
  PROVE  path[1] = "wf" \/ AliasesWf(scopes, path[1])
BY PathQuiet, NamedAliases

LEMMA PathToLibrary ==
  ASSUME NEW r, Sound(r), Clean(r.heap), NEW scopes, Agrees(scopes, r.env),
         NEW path \in Seq(Names), path # <<>>, OfLibrary(Path(r, path).acc)
  PROVE  Owner(scopes, path[1]) = 0 /\ path[1] \in Libraries
BY PathQuiet, NamedLibrary

\* A new empty table holds no part of the input.
LEMMA EmptyIsClean ==
  ASSUME NEW r, Sound(r), Clean(r.heap), NEW mark
  PROVE  /\ Clean(New(r, mark, <<>>).heap)
         /\ ~IsIn(New(r, mark, <<>>).acc) /\ ~OfLibrary(New(r, mark, <<>>).acc)
         /\ New(r, mark, <<>>).env = r.env /\ New(r, mark, <<>>).error = r.error
<1>1. PICK items : items = <<>>
  OBVIOUS
<1>2. DOMAIN items = {}
  BY <1>1
<1>3. PICK t, q : t = [mark |-> mark, items |-> items] /\ q = New(r, mark, items)
  OBVIOUS
<1>4. /\ q.acc = [own |-> Len(r.heap) + 1] /\ q.error = r.error /\ q.env = r.env
      /\ q.heap = Append(r.heap, t)
  <2>1. MapsTo(items, Held(r))
    BY <1>2 DEF MapsTo
  <2> QED
    BY <1>3, <2>1, NewLeads
<1>6. PICK n : n = Len(r.heap) /\ n \in Nat /\ 3 <= n
  BY HeldType DEF Sound
<1>5. ~IsIn(q.acc) /\ ~OfLibrary(q.acc)
  <2>1. ~(n + 1 <= 3)
    BY ONLY <1>6
  <2> QED
    BY <1>4, <1>6, <2>1, Apart
<1>7. /\ DOMAIN q.heap = 1..(n + 1) /\ DOMAIN r.heap = 1..n
      /\ \A i \in 1..n : q.heap[i] = r.heap[i]
      /\ q.heap[n + 1] = t
  BY <1>4, <1>6, HeldType, Appended
<1>8. ASSUME NEW i \in DOMAIN q.heap, NEW k \in DOMAIN q.heap[i].items
      PROVE  ~IsIn(q.heap[i].items[k]) /\ (~(i <= 3) => ~OfLibrary(q.heap[i].items[k]))
  <2>1. CASE i = n + 1
    <3>1. q.heap[i].items = items
      BY <1>3, <1>7, <2>1
    <3> QED
      BY <1>2, <3>1
  <2>2. CASE i \in 1..n
    BY <1>7, <2>2 DEF Clean
  <2>3. i = n + 1 \/ i \in 1..n
    BY ONLY <1>6, <1>7, i \in DOMAIN q.heap
  <2> QED
    BY <2>1, <2>2, <2>3
<1>9. Clean(q.heap)
  BY <1>8 DEF Clean
<1> QED
  BY <1>1, <1>3, <1>4, <1>5, <1>9

\* q is the run with the value of e, and what the policy knows of it is right.
Yields(q, env, scopes, e) ==
  /\ q.env = env /\ Clean(q.heap) /\ q.error \in {"", "lua_runtime_error"}
  /\ IsIn(q.acc) => IsWfValue(scopes, e)
  /\ e.op # "read" => ~IsIn(q.acc)
  /\ ~OfLibrary(q.acc)

\* Evaluate yields what the policy takes it for.
LEMMA EvaluateFollowed ==
  ASSUME NEW r, Sound(r), Clean(r.heap), NEW scopes, Agrees(scopes, r.env), r.error = "",
         NEW e \in Expression, e.op \in {"read", "zero", "empty"},
         e.op = "read" => e.path[1] \notin Libraries
  PROVE  Yields(Evaluate(r, e), r.env, scopes, e)
<1>1. PICK q : q = Evaluate(r, e)
  OBVIOUS
<1>2. CASE e.op = "read"
  <2>1. e.path \in Seq(Names) /\ e.path # <<>>
    BY <1>2, ExpressionIs
  <2>2. q = Path(r, e.path)
    BY <1>1, <1>2 DEF Evaluate
  <2>3. Quiet(r, q)
    BY <2>1, <2>2, PathQuiet
  <2>4. IsIn(q.acc) => IsWfValue(scopes, e)
    BY <1>2, <2>1, <2>2, PathFollowed DEF IsWfValue
  <2>5. q.env = r.env /\ Clean(q.heap) /\ q.error \in {"", "lua_runtime_error"}
    BY <2>3 DEF Quiet
  <2>6. ~OfLibrary(q.acc)
    BY <1>2, <2>1, <2>2, PathToLibrary
  <2> QED
    BY <1>1, <1>2, <2>4, <2>5, <2>6 DEF Yields
<1>3. CASE e.op = "zero"
  <2>1. PICK v : v = [val |-> "0"]
    OBVIOUS
  <2>2. ~IsIn(v) /\ ~OfLibrary(v)
    BY <2>1, Apart
  <2>3. q = [r EXCEPT !.acc = v]
    BY <1>1, <1>3, <2>1 DEF Evaluate
  <2>4. q = [env |-> r.env, heap |-> r.heap, input |-> r.input, reads |-> r.reads, acc |-> v, error |-> r.error]
    BY <2>3, HeldType, SetAcc
  <2>5. q.env = r.env /\ q.heap = r.heap /\ q.error = "" /\ ~IsIn(q.acc) /\ ~OfLibrary(q.acc)
    BY <2>2, <2>4
  <2> QED
    BY <1>1, <2>5 DEF Yields
<1>4. CASE e.op = "empty"
  <2>1. q = New(r, "table", <<>>)
    BY <1>1, <1>4 DEF Evaluate
  <2>2. q.env = r.env /\ Clean(q.heap) /\ q.error = "" /\ ~IsIn(q.acc) /\ ~OfLibrary(q.acc)
    BY <2>1, EmptyIsClean
  <2> QED
    BY <1>1, <2>2 DEF Yields
<1> QED
  BY <1>2, <1>3, <1>4

\* q left the locals alone, and its own tables hold no input; it may have failed.
Harmless(r, q) == q.env = r.env /\ Clean(q.heap) /\ q.error \in {"", "lua_runtime_error"}

\* Raising an error is harmless.
LEMMA ErrorHarmless ==
  ASSUME NEW r, Sound(r), Clean(r.heap)
  PROVE  Harmless(r, Error(r, "lua_runtime_error"))
<1>1. PICK q : q = Error(r, "lua_runtime_error")
  OBVIOUS
<1>2. q = [env |-> r.env, heap |-> r.heap, input |-> r.input, reads |-> r.reads, acc |-> Nil,
           error |-> "lua_runtime_error"]
  BY <1>1, HeldType, SetErrorAcc DEF Error
<1>3. q.env = r.env /\ q.heap = r.heap /\ q.error = "lua_runtime_error"
  BY <1>2
<1> QED
  BY <1>1, <1>3 DEF Harmless

\* So is a write to a table of the chunk, of what is no part of the input or the library,
LEMMA StoreHarmless ==
  ASSUME NEW r, Sound(r), Clean(r.heap), r.error \in {"", "lua_runtime_error"},
         ~IsIn(r.acc), ~OfLibrary(r.acc), NEW key, NEW value, ~IsIn(value), ~OfLibrary(value)
  PROVE  Harmless(r, Store(r, key, value))
<1>0. ~ReadOnly(r.acc)
  BY Apart
<1>1. CASE r.error # ""
  BY <1>1 DEF Store, Harmless
<1>2. CASE r.error = "" /\ ~Own(r.acc)
  BY <1>0, <1>2, ErrorHarmless DEF Store
<1>3. CASE r.error = "" /\ Own(r.acc)
  <2>1. PICK o, old : o = r.acc.own /\ old = r.heap[o].items
    OBVIOUS
  <2>2. o \in DOMAIN r.heap /\ ~(o <= 3)
    BY <1>3, <2>1, Kinds, HeldType DEF Sound, Held, OfLibrary
  <2>3. PICK items : items = IF value = Nil THEN [k \in DOMAIN old \ {key} |-> old[k]] ELSE With(old, key, value)
    OBVIOUS
  <2>4. \A k \in DOMAIN items : ~IsIn(items[k]) /\ ~OfLibrary(items[k])
    BY <2>1, <2>2, <2>3 DEF Clean, With
  <2>5. PICK heap : heap = [r.heap EXCEPT ![o].items = items]
    OBVIOUS
  <2>6. Store(r, key, value) = [r EXCEPT !.heap = heap]
    <3>1. Store(r, key, value) = [r EXCEPT !.heap[o].items = items]
      BY <1>0, <1>3, <2>1, <2>3 DEF Store
    <3> QED
      BY <2>5, <3>1
  <2>7. PICK q : q = Store(r, key, value)
    OBVIOUS
  <2>8. q = [env |-> r.env, heap |-> heap, input |-> r.input, reads |-> r.reads, acc |-> r.acc, error |-> r.error]
    BY <2>6, <2>7, HeldType, SetHeap
  <2>9. Clean(heap)
    <3>1. r.heap[o] = [mark |-> r.heap[o].mark, items |-> r.heap[o].items]
      BY <2>2, HeldType DEF Sound
    <3>2. heap[o].items = items /\ DOMAIN heap = DOMAIN r.heap
      BY <2>2, <2>5, <3>1
    <3>3. \A i \in DOMAIN heap : i # o => heap[i] = r.heap[i]
      BY <2>5
    <3>4. \A i \in DOMAIN heap : i # o =>
            \A k \in DOMAIN heap[i].items :
              ~IsIn(heap[i].items[k]) /\ (~(i <= 3) => ~OfLibrary(heap[i].items[k]))
      BY <3>2, <3>3 DEF Clean
    <3> QED
      BY <2>4, <3>2, <3>4 DEF Clean
  <2>10. q.env = r.env /\ q.heap = heap /\ q.error = ""
    BY <1>3, <2>8
  <2> QED
    BY <2>7, <2>9, <2>10 DEF Harmless
<1> QED
  BY <1>1, <1>2, <1>3

\* ... and an insertion into one.
LEMMA InsertHarmless ==
  ASSUME NEW r, Sound(r), Clean(r.heap), r.error \in {"", "lua_runtime_error"},
         ~IsIn(r.acc), ~OfLibrary(r.acc)
  PROVE  Harmless(r, Insert(r))
<1>1. ~IsIn([val |-> "0"]) /\ ~OfLibrary([val |-> "0"])
  BY Apart
<1>2. \/ Insert(r) = Error(r, "lua_runtime_error")
      \/ \E key : Insert(r) = Store(r, key, [val |-> "0"])
  BY DEF Insert
<1> QED
  BY <1>1, <1>2, ErrorHarmless, StoreHarmless

\* The fields of the policy's analysis.
IsAnalysis(a) == a = [scopes |-> a.scopes, findings |-> a.findings]

\* What visiting a statement does to the scopes, and some of what it finds.
Visits(v, a, s) ==
  /\ IsAnalysis(v) /\ a.findings \subseteq v.findings
  /\ s.do = "local" => v.scopes = Declare(a.scopes, s.at[1], IsWfValue(a.scopes, s.exp))
  /\ s.do = "assign" => /\ v.scopes = AssignAlias(a.scopes, s.at, IsWfValue(a.scopes, s.exp))
                        /\ VisitTarget(a.scopes, s.at) \subseteq v.findings
  /\ s.do = "insert" => v.scopes = a.scopes /\ MutatorFindings(a.scopes, s.at) \subseteq v.findings
  /\ s.do \in {"return", "goto"} => v.scopes = a.scopes

\* Visit, as far as aliases go.
LEMMA VisitIs ==
  ASSUME NEW a, IsAnalysis(a), NEW s \in Statement
  PROVE  Visits(Visit(a, s), a, s)
<1>0. s.do \in {"local", "assign", "insert", "return", "goto"}
  BY StatementIs
<1>1. PICK found, v : found = a.findings \cup References(a.scopes, s.exp) /\ v = Visit(a, s)
  OBVIOUS
<1>2. ASSUME NEW f PROVE /\ [a EXCEPT !.findings = f].scopes = a.scopes /\ [a EXCEPT !.findings = f].findings = f
                         /\ IsAnalysis([a EXCEPT !.findings = f])
  BY DEF IsAnalysis
<1>3. CASE s.do = "local"
  <2>1. v = [scopes |-> Declare(a.scopes, s.at[1], IsWfValue(a.scopes, s.exp)),
             findings |-> found \cup IF s.at[1] = "wf" THEN {"lua_reserved_identifier_shadowed"} ELSE {}]
    BY <1>1, <1>3 DEF Visit
  <2> QED
    BY <1>1, <1>3, <2>1 DEF Visits, IsAnalysis
<1>4. CASE s.do = "assign"
  <2>1. v = [scopes |-> AssignAlias(a.scopes, s.at, IsWfValue(a.scopes, s.exp)),
             findings |-> found \cup VisitTarget(a.scopes, s.at)]
    BY <1>1, <1>4 DEF Visit
  <2> QED
    BY <1>1, <1>4, <2>1 DEF Visits, IsAnalysis
<1>5. CASE s.do = "insert"
  <2>1. v = [a EXCEPT !.findings = found \cup MutatorFindings(a.scopes, s.at)]
    BY <1>1, <1>5 DEF Visit
  <2> QED
    BY <1>1, <1>2, <1>5, <2>1 DEF Visits
<1>6. CASE s.do = "goto"
  <2>1. v = [a EXCEPT !.findings = found \cup {"lua_construct_forbidden"}]
    BY <1>1, <1>6 DEF Visit
  <2> QED
    BY <1>1, <1>2, <1>6, <2>1 DEF Visits
<1>7. CASE s.do = "return"
  <2>1. v = [a EXCEPT !.findings = found]
    BY <1>1, <1>7 DEF Visit
  <2> QED
    BY <1>1, <1>2, <1>7, <2>1 DEF Visits
<1> QED
  BY <1>0, <1>3, <1>4, <1>5, <1>6, <1>7

\* A scope changed on both sides.
LEMMA AgreesSet ==
  ASSUME NEW scopes, NEW env, Agrees(scopes, env), IsSequence(env), NEW o \in 1..Len(env),
         NEW f, NEW g, DOMAIN f = DOMAIN g, \A y \in DOMAIN g : (IsIn(g[y]) => f[y]) /\ ~OfLibrary(g[y])
  PROVE  Agrees([scopes EXCEPT ![o] = f], [env EXCEPT ![o] = g])
<1>1. PICK t, e : t = [scopes EXCEPT ![o] = f] /\ e = [env EXCEPT ![o] = g]
  OBVIOUS
<1>2. IsSequence(scopes) /\ Len(scopes) = Len(env) /\ Len(env) # 0
  BY DEF Agrees
<1>3. IsSequence(t) /\ Len(t) = Len(env) /\ Len(e) = Len(env)
  BY <1>1, <1>2, Excepted
<1>4. DOMAIN scopes = 1..Len(env) /\ DOMAIN env = 1..Len(env)
  BY <1>2 DEF IsSequence
<1>5. \A i \in 1..Len(env) : /\ t[i] = IF i = o THEN f ELSE scopes[i]
                             /\ e[i] = IF i = o THEN g ELSE env[i]
  BY <1>1, <1>4
<1>6. ASSUME NEW i \in 1..Len(env)
      PROVE  /\ DOMAIN t[i] = DOMAIN e[i]
             /\ \A x \in DOMAIN e[i] : (IsIn(e[i][x]) => t[i][x]) /\ ~OfLibrary(e[i][x])
  <2>1. CASE i = o
    BY <1>5, <2>1
  <2>2. CASE i # o
    <3>1. t[i] = scopes[i] /\ e[i] = env[i]
      BY <1>5, <2>2
    <3> QED
      BY <3>1 DEF Agrees
  <2> QED
    BY <2>1, <2>2
<1>7. Agrees(t, e)
  BY ONLY <1>2, <1>3, <1>6 DEF Agrees
<1> QED
  BY <1>1, <1>7

\* The run has gone wrong in Lua's own way or not at all, and while it has not, the policy's scopes
\* know which of its locals are parts of the input.
Kept(r, a) ==
  /\ IsAnalysis(a) /\ Clean(r.heap) /\ r.error \in {"", "lua_runtime_error"}
  /\ r.error = "" => Agrees(a.scopes, r.env)

\* The policy and the run agree on the scope that owns a name.
LEMMA SameOwners ==
  ASSUME NEW scopes, NEW r, Sound(r), Agrees(scopes, r.env), NEW x
  PROVE  /\ Owner(scopes, x) = Owner(r.env, x)
         /\ Owner(r.env, x) # 0 => /\ Owner(r.env, x) \in 1..Len(r.env)
                                   /\ x \in DOMAIN r.env[Owner(r.env, x)]
                                   /\ DOMAIN scopes[Owner(r.env, x)] = DOMAIN r.env[Owner(r.env, x)]
<1>1. DOMAIN scopes = 1..Len(r.env) /\ DOMAIN r.env = 1..Len(r.env) /\ Len(r.env) \in Nat
  BY HeldType DEF Agrees, IsSequence
<1>2. Owner(scopes, x) = Owner(r.env, x)
  BY <1>1, SameOwner DEF Agrees
<1>3. PICK o : o = Owner(r.env, x)
  OBVIOUS
<1>4. o # 0 => o \in 1..Len(r.env) /\ x \in DOMAIN r.env[o]
  BY <1>1, <1>3, OwnerIs
<1> QED
  BY <1>2, <1>3, <1>4 DEF Agrees

\* A declaration: Declare flags the local if its value is a part of the input.
LEMMA LocalFollowed ==
  ASSUME NEW r, Sound(r), Clean(r.heap), r.error = "", NEW scopes, Agrees(scopes, r.env),
         NEW x, NEW flag, IsIn(r.acc) => flag, ~OfLibrary(r.acc)
  PROVE  /\ [r EXCEPT !.env[Len(r.env)] = With(@, x, r.acc)].heap = r.heap
         /\ [r EXCEPT !.env[Len(r.env)] = With(@, x, r.acc)].error = ""
         /\ Agrees(Declare(scopes, x, flag), [r EXCEPT !.env[Len(r.env)] = With(@, x, r.acc)].env)
<1>1. PICK o, f, g : o = Len(r.env) /\ f = With(scopes[o], x, flag) /\ g = With(r.env[o], x, r.acc)
  OBVIOUS
<1>2. IsSequence(r.env) /\ Len(r.env) \in Nat /\ IsRecord(r)
  BY HeldType
<1>3. Len(scopes) = o /\ o # 0
  BY <1>1 DEF Agrees
<1>4. o \in 1..Len(r.env)
  <2>1. o \in Nat /\ o # 0 /\ o = Len(r.env)
    BY <1>1, <1>2, <1>3
  <2> QED
    BY ONLY <2>1
<1>5. DOMAIN f = DOMAIN g /\ \A y \in DOMAIN g : (IsIn(g[y]) => f[y]) /\ ~OfLibrary(g[y])
  BY <1>1, <1>4 DEF With, Agrees
<1>6. PICK env : env = [r.env EXCEPT ![o] = g]
  OBVIOUS
<1>7. [r EXCEPT !.env[Len(r.env)] = With(@, x, r.acc)] = [r EXCEPT !.env = env]
  BY <1>1, <1>6
<1>8. Declare(scopes, x, flag) = [scopes EXCEPT ![o] = f]
  BY <1>1, <1>3 DEF Declare
<1>9. Agrees([scopes EXCEPT ![o] = f], env)
  BY <1>2, <1>4, <1>5, <1>6, AgreesSet
<1>10. PICK q : q = [r EXCEPT !.env = env]
  OBVIOUS
<1>11. q = [env |-> env, heap |-> r.heap, input |-> r.input, reads |-> r.reads, acc |-> r.acc, error |-> r.error]
  BY <1>2, <1>10, SetEnv
<1>12. q.env = env /\ q.heap = r.heap /\ q.error = ""
  BY <1>11
<1> QED
  BY <1>7, <1>8, <1>9, <1>10, <1>12

\* An assignment to a local: AssignAlias changes the flag of the same one.
LEMMA BindFollowed ==
  ASSUME NEW r, Sound(r), Clean(r.heap), r.error = "", NEW scopes, Agrees(scopes, r.env),
         NEW at, Len(at) = 1, NEW flag, IsIn(r.acc) => flag, ~OfLibrary(r.acc)
  PROVE  /\ Bind(r, at[1]).heap = r.heap /\ Bind(r, at[1]).error = ""
         /\ Agrees(AssignAlias(scopes, at, flag), Bind(r, at[1]).env)
<1>1. PICK x, o : x = at[1] /\ o = Owner(r.env, x)
  OBVIOUS
<1>2. /\ Owner(scopes, x) = o
      /\ o # 0 => o \in 1..Len(r.env) /\ x \in DOMAIN r.env[o] /\ DOMAIN scopes[o] = DOMAIN r.env[o]
  BY <1>1, SameOwners
<1>3. CASE o = 0
  BY <1>1, <1>2, <1>3 DEF Bind, AssignAlias
<1>4. CASE o # 0
  <2>1. PICK f, g : f = [scopes[o] EXCEPT ![x] = flag] /\ g = [r.env[o] EXCEPT ![x] = r.acc]
    OBVIOUS
  <2>2. PICK env : env = [r.env EXCEPT ![o] = g]
    OBVIOUS
  <2>3. Bind(r, x) = [r EXCEPT !.env = env]
    <3>1. Bind(r, x) = [r EXCEPT !.env[o][x] = r.acc]
      BY <1>1, <1>4 DEF Bind
    <3> QED
      BY <2>1, <2>2, <3>1
  <2>4. AssignAlias(scopes, at, flag) = [scopes EXCEPT ![o] = f]
    <3>1. AssignAlias(scopes, at, flag) = [scopes EXCEPT ![o][x] = flag]
      BY <1>1, <1>2, <1>4 DEF AssignAlias
    <3> QED
      BY <2>1, <3>1
  <2>5. DOMAIN f = DOMAIN g /\ \A y \in DOMAIN g : (IsIn(g[y]) => f[y]) /\ ~OfLibrary(g[y])
    <3>1. \A y \in DOMAIN g : /\ g[y] = IF y = x THEN r.acc ELSE r.env[o][y]
                              /\ f[y] = IF y = x THEN flag ELSE scopes[o][y]
      BY <1>2, <1>4, <2>1
    <3> QED
      BY <1>2, <1>4, <2>1, <3>1 DEF Agrees
  <2>6. Agrees([scopes EXCEPT ![o] = f], env)
    BY <1>2, <1>4, <2>2, <2>5, AgreesSet, HeldType
  <2>7. PICK q : q = [r EXCEPT !.env = env]
    OBVIOUS
  <2>8. q = [env |-> env, heap |-> r.heap, input |-> r.input, reads |-> r.reads, acc |-> r.acc, error |-> r.error]
    BY <2>7, SetEnv, HeldType
  <2>9. q.env = env /\ q.heap = r.heap /\ q.error = ""
    BY <2>8
  <2> QED
    BY <1>1, <2>3, <2>4, <2>6, <2>7, <2>9
<1> QED
  BY <1>3, <1>4

\* What a statement does that the policy can follow and finds nothing wrong with.
LEMMA EffectFollowed ==
  ASSUME NEW r, Sound(r), NEW a, IsAnalysis(a), Agrees(a.scopes, r.env), NEW s \in Statement,
         Yields(r, r.env, a.scopes, s.exp), s.do = "assign" /\ Len(s.at) > 1 => s.exp.op # "read",
         s.do = "insert" => s.at[1] \notin Libraries, NEW v, Visits(v, a, s), v.findings = {}
  PROVE  Kept(Effect(r, s), v)
<1>0. /\ s.at \in Seq(Names) /\ s.do \in {"local", "assign", "insert", "return", "goto"}
      /\ s.do \in {"assign", "insert"} => s.at # <<>>
      /\ IsAnalysis(v) /\ Clean(r.heap) /\ r.error \in {"", "lua_runtime_error"}
  BY StatementIs DEF Yields, Visits
<1>1. CASE r.error # ""
  BY <1>0, <1>1 DEF Effect, Kept
<1>2. CASE r.error = "" /\ s.do = "local"
  <2>1. PICK flag : flag = IsWfValue(a.scopes, s.exp)
    OBVIOUS
  <2>2. (IsIn(r.acc) => flag) /\ ~OfLibrary(r.acc)
    BY <2>1 DEF Yields
  <2>3. v.scopes = Declare(a.scopes, s.at[1], flag)
    BY <1>2, <2>1 DEF Visits
  <2>4. PICK x, scopes, q :
          x = s.at[1] /\ scopes = a.scopes /\ q = [r EXCEPT !.env[Len(r.env)] = With(@, x, r.acc)]
    OBVIOUS
  <2>5. Agrees(scopes, r.env) /\ Clean(r.heap) /\ r.error = ""
    BY <1>0, <1>2, <2>4
  <2>6. /\ q.heap = r.heap /\ q.error = ""
        /\ Agrees(Declare(scopes, x, flag), q.env)
    BY ONLY <2>2, <2>4, <2>5, Sound(r), LocalFollowed
  <2>7. Effect(r, s) = q
    BY <1>2, <2>4 DEF Effect
  <2> QED
    BY <1>0, <2>3, <2>4, <2>6, <2>7 DEF Kept
<1>3. CASE r.error = "" /\ s.do = "assign" /\ Len(s.at) = 1
  <2>1. PICK flag : flag = IsWfValue(a.scopes, s.exp)
    OBVIOUS
  <2>2. (IsIn(r.acc) => flag) /\ ~OfLibrary(r.acc)
    BY <2>1 DEF Yields
  <2>3. v.scopes = AssignAlias(a.scopes, s.at, flag)
    BY <1>3, <2>1 DEF Visits
  <2>4. Effect(r, s) = Bind(r, s.at[1])
    BY <1>3 DEF Effect
  <2>5. PICK at, scopes : at = s.at /\ scopes = a.scopes
    OBVIOUS
  <2>6. Agrees(scopes, r.env) /\ Len(at) = 1 /\ Clean(r.heap) /\ r.error = ""
    BY <1>0, <1>3, <2>5
  <2>7. /\ Bind(r, at[1]).heap = r.heap /\ Bind(r, at[1]).error = ""
        /\ Agrees(AssignAlias(scopes, at, flag), Bind(r, at[1]).env)
    BY ONLY <2>2, <2>6, Sound(r), BindFollowed
  <2> QED
    BY <1>0, <2>3, <2>4, <2>5, <2>7 DEF Kept
<1>4. CASE r.error = "" /\ s.do = "assign" /\ Len(s.at) # 1
  <2>1. /\ Front(s.at) \in Seq(Names) /\ Front(s.at) # <<>> /\ Front(s.at)[1] = s.at[1]
        /\ Len(s.at) \in Nat \ {0}
    BY <1>0, <1>4, FrontIs
  <2>2. Len(s.at) > 1
    <3>1. PICK n : n = Len(s.at)
      OBVIOUS
    <3>2. n \in Nat \ {0} /\ n # 1
      BY <1>4, <2>1, <3>1
    <3>3. n > 1
      BY ONLY <3>2
    <3> QED
      BY <3>1, <3>3
  <2>3. VisitTarget(a.scopes, s.at) = {} /\ v.scopes = a.scopes
    BY <1>4 DEF Visits, AssignAlias
  <2>4. ~(s.at[1] = "wf" \/ AliasesWf(a.scopes, s.at[1])) /\ Owner(a.scopes, s.at[1]) # 0
    BY <1>4, <2>3 DEF VisitTarget
  <2>5. PICK q : q = Path(r, Front(s.at))
    OBVIOUS
  <2>6. ~IsIn(q.acc) /\ ~OfLibrary(q.acc)
    <3>1. ~IsIn(q.acc)
      BY <1>0, <2>1, <2>4, <2>5, PathFollowed
    <3>2. ~OfLibrary(q.acc)
      <4>1. SUFFICES ASSUME OfLibrary(q.acc) PROVE FALSE
        OBVIOUS
      <4>2. PICK path, scopes : path = Front(s.at) /\ scopes = a.scopes
        OBVIOUS
      <4>3. /\ path \in Seq(Names) /\ path # <<>> /\ Agrees(scopes, r.env) /\ Clean(r.heap)
            /\ OfLibrary(Path(r, path).acc)
        BY <1>0, <2>1, <2>5, <4>1, <4>2
      <4>4. Owner(scopes, path[1]) = 0
        BY ONLY Sound(r), <4>3, PathToLibrary
      <4> QED
        BY <2>1, <2>4, <4>2, <4>4
    <3> QED
      BY <3>1, <3>2
  <2>7. Quiet(r, q) /\ Sound(q)
    BY <1>0, <2>1, <2>5, PathQuiet, PathLeads DEF Leads
  <2>8. ~IsIn(r.acc) /\ ~OfLibrary(r.acc)
    BY <1>4, <2>2 DEF Yields
  <2>9. Clean(q.heap) /\ q.error \in {"", "lua_runtime_error"} /\ q.env = r.env
    BY <1>0, <2>7 DEF Quiet
  <2>10. Harmless(q, Store(q, Last(s.at), r.acc))
    BY <2>6, <2>7, <2>8, <2>9, StoreHarmless
  <2>11. Effect(r, s) = Store(q, Last(s.at), r.acc)
    BY <1>4, <2>5 DEF Effect
  <2> QED
    BY <1>0, <2>3, <2>9, <2>10, <2>11 DEF Harmless, Kept
<1>5. CASE r.error = "" /\ s.do = "insert"
  <2>1. MutatorFindings(a.scopes, s.at) = {} /\ v.scopes = a.scopes
    BY <1>5 DEF Visits
  <2>2. PICK w, q : w = Path(r, <<"table", "insert">>) /\ q = Path(w, s.at)
    OBVIOUS
  <2>3. Quiet(r, w) /\ Sound(w)
    BY <1>0, <2>2, FunctionPaths, PathQuiet, PathLeads DEF Leads
  <2>4. Clean(w.heap) /\ w.error \in {"", "lua_runtime_error"} /\ w.env = r.env /\ Agrees(a.scopes, w.env)
    BY <1>0, <2>3 DEF Quiet
  <2>5. Quiet(w, q) /\ Sound(q)
    BY <1>0, <1>5, <2>2, <2>3, <2>4, PathQuiet, PathLeads DEF Leads
  <2>6. Clean(q.heap) /\ q.error \in {"", "lua_runtime_error"} /\ q.env = r.env
    BY <2>4, <2>5 DEF Quiet
  <2>7. CASE w.acc # [val |-> "insert"]
    <3>1. PICK x : x = Error(q, "lua_runtime_error")
      OBVIOUS
    <3>2. Calling(r, <<"table", "insert">>, s.at) = x
      <4>1. Last(<<"table", "insert">>) = "insert"
        BY DEF Last
      <4> QED
        BY <2>2, <2>7, <3>1, <4>1 DEF Calling
    <3>3. x = [env |-> q.env, heap |-> q.heap, input |-> q.input, reads |-> q.reads, acc |-> Nil,
               error |-> "lua_runtime_error"]
      BY <2>5, <3>1, HeldType, SetErrorAcc DEF Error
    <3>4. x.env = q.env /\ x.heap = q.heap /\ x.error = "lua_runtime_error"
      BY <3>3
    <3>5. Sound(x) /\ Clean(x.heap)
      BY <2>5, <2>6, <3>1, <3>4, Erred DEF Leads
    <3>6. Effect(r, s) = Error(x, "lua_runtime_error")
      BY <1>5, <3>2, <3>4 DEF Effect, Insert
    <3>7. Harmless(x, Error(x, "lua_runtime_error"))
      BY <3>5, ErrorHarmless
    <3> QED
      BY <1>0, <2>1, <2>6, <3>4, <3>6, <3>7 DEF Harmless, Kept
  <2>8. CASE w.acc = [val |-> "insert"]
    <3>1. Owner(a.scopes, "table") = 0
      <4>1. OfLibrary(w.acc)
        BY <2>8 DEF OfLibrary, Functions
      <4>2. <<"table", "insert">>[1] = "table"
        OBVIOUS
      <4> QED
        BY <1>0, <2>2, <4>1, <4>2, FunctionPaths, PathToLibrary
    <3>2. ~IsWfValue(a.scopes, [op |-> "read", path |-> s.at])
      BY <2>1, <3>1 DEF MutatorFindings
    <3>3. ~(s.at[1] = "wf" \/ AliasesWf(a.scopes, s.at[1]))
      BY <3>2 DEF IsWfValue
    <3>4. ~IsIn(q.acc) /\ ~OfLibrary(q.acc)
      BY <1>0, <1>5, <2>2, <2>3, <2>4, <3>3, PathFollowed, PathToLibrary
    <3>5. Harmless(q, Insert(q))
      BY <2>5, <2>6, <3>4, InsertHarmless
    <3>6. Effect(r, s) = Insert(q)
      <4>1. Last(<<"table", "insert">>) = "insert"
        BY DEF Last
      <4> QED
        BY <1>5, <2>2, <2>8, <4>1 DEF Effect, Calling
    <3> QED
      BY <1>0, <2>1, <2>6, <3>5, <3>6 DEF Harmless, Kept
  <2> QED
    BY <2>7, <2>8
<1>6. CASE r.error = "" /\ s.do \in {"return", "goto"}
  <2>1. Effect(r, s) = r /\ v.scopes = a.scopes
    BY <1>6 DEF Effect, Visits
  <2> QED
    BY <1>0, <2>1 DEF Kept
<1> QED
  BY <1>0, <1>1, <1>2, <1>3, <1>4, <1>5, <1>6

\* Such a statement, with its expression.
LEMMA DoFollowed ==
  ASSUME NEW r, Sound(r), NEW a, Kept(r, a), r.error = "", NEW s \in Statement, Followed(s),
         Visit(a, s).findings = {}
  PROVE  Kept(Do(r, s), Visit(a, s))
<1>1. PICK v, q, e : v = Visit(a, s) /\ e = s.exp /\ q = Evaluate(r, e)
  OBVIOUS
<1>2. Visits(v, a, s)
  BY <1>1, VisitIs DEF Kept
<1>3. e \in Expression /\ e.op \in {"read", "zero", "empty"} /\ (e.op = "read" => e.path[1] \notin Libraries)
  BY <1>1, StatementIs DEF Followed
<1>4. Yields(q, r.env, a.scopes, e)
  BY <1>1, <1>3, EvaluateFollowed DEF Kept
<1>5. Sound(q)
  BY <1>1, <1>3, EvaluateLeads DEF Leads
<1>6. q.env = r.env
  BY <1>4 DEF Yields
<1>7. Agrees(a.scopes, q.env) /\ IsAnalysis(a)
  BY <1>6 DEF Kept
<1>8. Yields(q, q.env, a.scopes, s.exp)
  BY <1>1, <1>4, <1>6
<1>9. /\ s.do = "assign" /\ Len(s.at) > 1 => s.exp.op # "read"
      /\ s.do = "insert" => s.at[1] \notin Libraries
  BY DEF Followed
<1>10. v.findings = {}
  BY <1>1
<1>11. Kept(Effect(q, s), v)
  BY ONLY <1>2, <1>5, <1>7, <1>8, <1>9, <1>10, s \in Statement, EffectFollowed
<1> QED
  BY <1>1, <1>11 DEF Do

\* A block has a scope of its own, in the policy as in the run.
LEMMA InsideFollowed ==
  ASSUME NEW r, Sound(r), NEW a, Kept(r, a), r.error = "", NEW s \in Statement, Followed(s),
         NEW b, b = [scopes |-> Append(a.scopes, <<>>), findings |-> a.findings],
         Visit(b, s).findings = {}
  PROVE  Kept(Inside(r, <<>>, s), [Visit(b, s) EXCEPT !.scopes = Front(@)])
<1>1. PICK nothing : nothing = <<>>
  OBVIOUS
<1>2. MapsTo(nothing, Held(r)) /\ DOMAIN nothing = {}
  <2>1. DOMAIN nothing = {}
    BY ONLY <1>1
  <2> QED
    BY ONLY <2>1 DEF MapsTo
<1>3. PICK env : env = Append(r.env, nothing)
  OBVIOUS
<1>4. IsSequence(r.env) /\ IsRecord(r)
  BY HeldType
<1>5. PICK n : n = Len(r.env) /\ n \in Nat
  BY HeldType
<1>6. PICK scopes : scopes = a.scopes
  OBVIOUS
<1>7. /\ IsSequence(scopes) /\ Len(scopes) = n /\ n # 0
      /\ \A i \in 1..n : /\ DOMAIN scopes[i] = DOMAIN r.env[i]
                         /\ \A x \in DOMAIN r.env[i] :
                              (IsIn(r.env[i][x]) => scopes[i][x]) /\ ~OfLibrary(r.env[i][x])
  BY <1>5, <1>6 DEF Kept, Agrees
<1>8. /\ IsSequence(env) /\ Len(env) = n + 1 /\ env[n + 1] = nothing
      /\ \A i \in 1..n : env[i] = r.env[i]
  BY ONLY <1>3, <1>4, <1>5, Appended
<1>9. PICK inner : inner = Append(scopes, nothing)
  OBVIOUS
<1>10. /\ IsSequence(inner) /\ Len(inner) = n + 1 /\ inner[n + 1] = nothing
       /\ \A i \in 1..n : inner[i] = scopes[i]
  BY ONLY <1>5, <1>7, <1>9, Appended
<1>11. ASSUME NEW i \in 1..(n + 1)
       PROVE  /\ DOMAIN inner[i] = DOMAIN env[i]
              /\ \A x \in DOMAIN env[i] : (IsIn(env[i][x]) => inner[i][x]) /\ ~OfLibrary(env[i][x])
  <2>1. i \in 1..n \/ i = n + 1
    BY ONLY <1>5, i \in 1..(n + 1)
  <2> QED
    BY ONLY <1>2, <1>7, <1>8, <1>10, <2>1
<1>12. Agrees(inner, env)
  <2>1. n + 1 # 0
    BY ONLY <1>5
  <2> QED
    BY ONLY <1>8, <1>10, <1>11, <2>1 DEF Agrees
<1>13. PICK p : p = [r EXCEPT !.env = env]
  OBVIOUS
<1>14. p = [env |-> env, heap |-> r.heap, input |-> r.input, reads |-> r.reads, acc |-> r.acc, error |-> r.error]
  BY <1>4, <1>13, SetEnv
<1>15. p.env = env /\ p.heap = r.heap /\ p.error = ""
  BY <1>14
<1>16. Sound(p)
  <2>1. \A i \in 1..Len(env) : MapsTo(env[i], Held(r))
    <3>1. \A i \in 1..n : MapsTo(r.env[i], Held(r))
      BY <1>5 DEF Sound
    <3>2. \A i \in 1..(n + 1) : i \in 1..n \/ i = n + 1
      BY ONLY <1>5
    <3> QED
      BY ONLY <1>2, <1>8, <3>1, <3>2
  <2> QED
    BY <1>8, <1>13, <2>1, EnvSet
<1>17. b.scopes = inner /\ IsAnalysis(b)
  BY <1>1, <1>6, <1>9 DEF IsAnalysis
<1>18. Kept(p, b)
  BY <1>12, <1>15, <1>17 DEF Kept
<1>19. PICK q, v : q = Do(p, s) /\ v = Visit(b, s)
  OBVIOUS
<1>20. Kept(q, v)
  BY <1>15, <1>16, <1>18, <1>19, DoFollowed
<1>21. Leads(p, q)
  BY <1>16, <1>19, DoLeads
<1>22. Sound(q) /\ Len(q.env) = n + 1
  BY <1>8, <1>15, <1>21 DEF Leads
<1>23. IsSequence(q.env) /\ IsRecord(q)
  BY <1>22, HeldType
<1>24. PICK fin, end : fin = [q EXCEPT !.env = Front(@)] /\ end = [v EXCEPT !.scopes = Front(@)]
  OBVIOUS
<1>25. fin = [env |-> Front(q.env), heap |-> q.heap, input |-> q.input, reads |-> q.reads, acc |-> q.acc,
              error |-> q.error]
  BY <1>23, <1>24, SetEnv
<1>26. fin.env = Front(q.env) /\ fin.heap = q.heap /\ fin.error = q.error
  BY <1>25
<1>27. end.scopes = Front(v.scopes) /\ IsAnalysis(end)
  BY <1>20, <1>24 DEF Kept, IsAnalysis
<1>28. ASSUME Agrees(v.scopes, q.env) PROVE Agrees(Front(v.scopes), Front(q.env))
  <2>1. n + 1 # 0 /\ (n + 1) - 1 = n /\ \A i \in 1..n : i \in 1..(n + 1)
    BY ONLY <1>5
  <2>2. IsSequence(v.scopes) /\ Len(v.scopes) = n + 1
    BY <1>22, <1>28 DEF Agrees
  <2>3. \A i \in 1..(n + 1) : /\ DOMAIN v.scopes[i] = DOMAIN q.env[i]
                              /\ \A x \in DOMAIN q.env[i] :
                                   (IsIn(q.env[i][x]) => v.scopes[i][x]) /\ ~OfLibrary(q.env[i][x])
    BY <1>22, <1>28 DEF Agrees
  <2>4. PICK x, y, f, g : x = v.scopes /\ y = q.env /\ f = Front(x) /\ g = Front(y)
    OBVIOUS
  <2>5. IsSequence(f) /\ Len(f) = n /\ \A i \in 1..n : f[i] = x[i]
    BY ONLY <2>1, <2>2, <2>4, Fronts
  <2>6. IsSequence(g) /\ Len(g) = n /\ \A i \in 1..n : g[i] = y[i]
    BY ONLY <1>22, <1>23, <2>1, <2>4, Fronts
  <2>7. \A i \in 1..n : /\ DOMAIN f[i] = DOMAIN g[i]
                        /\ \A z \in DOMAIN g[i] : (IsIn(g[i][z]) => f[i][z]) /\ ~OfLibrary(g[i][z])
    BY ONLY <2>1, <2>3, <2>4, <2>5, <2>6
  <2>8. Agrees(f, g)
    BY ONLY <1>7, <2>5, <2>6, <2>7 DEF Agrees
  <2> QED
    BY <2>4, <2>8
<1>29. Kept(fin, end)
  BY <1>20, <1>26, <1>27, <1>28 DEF Kept
<1>30. Inside(r, <<>>, s) = fin
  <2>1. [r EXCEPT !.env = Append(@, <<>>)] = p
    BY <1>1, <1>3, <1>13
  <2> QED
    BY <1>19, <1>24, <2>1 DEF Inside
<1> QED
  BY <1>19, <1>24, <1>29, <1>30

\* A statement of a chunk that the policy can follow, with what surrounds it.
LEMMA ExecuteFollowed ==
  ASSUME NEW r, Sound(r), NEW a, Kept(r, a), NEW s \in Statement, Followed(s), NEW order,
         VisitBlock(a, s).findings = {}
  PROVE  Kept(Execute(r, s, order), VisitBlock(a, s))
<1>1. PICK v : v = VisitBlock(a, s)
  OBVIOUS
<1>2. CASE s.in = "plain"
  <2>1. v = Visit(a, s)
    BY <1>1, <1>2 DEF VisitBlock
  <2>2. CASE r.error = ""
    <3>1. Execute(r, s, order) = Do(r, s)
      BY <1>2, <2>2 DEF Execute
    <3> QED
      BY <1>1, <2>1, <2>2, <3>1, DoFollowed
  <2>3. CASE r.error # ""
    <3>1. Execute(r, s, order) = r
      BY <2>3 DEF Execute
    <3>2. IsAnalysis(v)
      BY <2>1, VisitIs DEF Kept, Visits
    <3> QED
      BY <1>1, <2>3, <3>1, <3>2 DEF Kept
  <2> QED
    BY <2>2, <2>3
<1>3. CASE s.in = "taken"
  <2>1. PICK b : b = [scopes |-> Append(a.scopes, <<>>), findings |-> a.findings]
    OBVIOUS
  <2>2. v = [Visit(b, s) EXCEPT !.scopes = Front(@)]
    <3>1. s.in # "plain" /\ s.in \notin Binding
      BY <1>3 DEF Binding
    <3> QED
      BY <1>1, <2>1, <3>1 DEF VisitBlock
  <2>3. IsAnalysis(Visit(b, s))
    <3>1. IsAnalysis(b)
      BY <2>1 DEF IsAnalysis
    <3> QED
      BY <3>1, VisitIs DEF Visits
  <2>4. IsAnalysis(v) /\ v.findings = Visit(b, s).findings
    BY <2>2, <2>3 DEF IsAnalysis
  <2>5. CASE r.error = ""
    <3>1. Execute(r, s, order) = Inside(r, <<>>, s)
      BY <1>3, <2>5 DEF Execute
    <3>2. Visit(b, s).findings = {}
      BY <1>1, <2>4
    <3>3. Kept(Inside(r, <<>>, s), [Visit(b, s) EXCEPT !.scopes = Front(@)])
      BY <2>1, <2>5, <3>2, InsideFollowed
    <3> QED
      BY <1>1, <2>2, <3>1, <3>3
  <2>6. CASE r.error # ""
    <3>1. Execute(r, s, order) = r
      BY <2>6 DEF Execute
    <3> QED
      BY <1>1, <2>4, <2>6, <3>1 DEF Kept
  <2> QED
    BY <2>5, <2>6
<1> QED
  BY <1>2, <1>3 DEF Followed

\* A finding is never taken back.
LEMMA FindingsGrow ==
  ASSUME NEW a, IsAnalysis(a), NEW s \in Statement
  PROVE  IsAnalysis(VisitBlock(a, s)) /\ a.findings \subseteq VisitBlock(a, s).findings
<1>1. PICK v : v = VisitBlock(a, s)
  OBVIOUS
<1>2. CASE s.in = "plain"
  BY <1>2, VisitIs DEF VisitBlock, Visits
<1>3. CASE s.in # "plain"
  <2>1. PICK over, inner : /\ over = IF s.in \in Binding THEN CheckReference(a.scopes, s.over[1]) ELSE {}
                           /\ inner = IF s.in \in Binding THEN [item |-> FALSE] ELSE <<>>
    OBVIOUS
  <2>2. PICK b : b = [scopes |-> Append(a.scopes, inner), findings |-> a.findings \cup over]
    OBVIOUS
  <2>3. PICK w : w = Visit(b, s)
    OBVIOUS
  <2>4. v = [w EXCEPT !.scopes = Front(@)]
    BY <1>1, <1>3, <2>1, <2>2, <2>3 DEF VisitBlock
  <2>5. IsAnalysis(w) /\ b.findings \subseteq w.findings
    <3>1. IsAnalysis(b)
      BY <2>2 DEF IsAnalysis
    <3> QED
      BY <2>3, <3>1, VisitIs DEF Visits
  <2>6. IsAnalysis(v) /\ v.findings = w.findings
    BY <2>4, <2>5 DEF IsAnalysis
  <2>7. a.findings \subseteq b.findings
    BY <2>2
  <2> QED
    BY <1>1, <2>5, <2>6, <2>7
<1> QED
  BY <1>2, <1>3

\* A chunk without findings had none at any statement.
LEMMA NothingFoundBefore ==
  ASSUME NEW chunk \in Seq(Statement), Findings(chunk) = {}
  PROVE  \A n \in 0..Len(chunk) : Analysis(chunk)[n].findings = {}
<1> DEFINE A(n) == Analysis(chunk)[n]
<1>0. PICK N : N = Len(chunk) /\ N \in Nat
  OBVIOUS
<1>1. /\ A(0) = [scopes |-> << <<>> >>, findings |-> {}]
      /\ \A n \in 1..N : A(n) = VisitBlock(A(n - 1), chunk[n])
  BY <1>0, AnalysisUnfolds
<1>2. \A n \in 1..N : chunk[n] \in Statement
  BY <1>0, ElementOfSeq
<1>3. A(N).findings = {}
  BY <1>0 DEF Findings
<1> HIDE DEF A
<1> DEFINE T == {n \in 0..N : IsAnalysis(A(n))}
<1>4. 0..N \subseteq T
  <2>1. 0 \in T
    BY <1>0, <1>1 DEF IsAnalysis
  <2>2. ASSUME NEW n \in 0..N - 1, n \in T PROVE n + 1 \in T
    <3>1. n + 1 \in 1..N /\ n + 1 \in 0..N /\ (n + 1) - 1 = n
      BY <1>0
    <3>2. A(n + 1) = VisitBlock(A(n), chunk[n + 1])
      BY <1>1, <3>1
    <3>3. IsAnalysis(A(n + 1))
      BY <1>2, <2>2, <3>1, <3>2, FindingsGrow
    <3> QED
      BY <3>1, <3>3
  <2> HIDE DEF T
  <2> QED
    BY <1>0, <2>1, <2>2, CountingUp
<1>5. ASSUME NEW n \in 0..N - 1 PROVE A(n).findings \subseteq A(n + 1).findings
  <2>1. n + 1 \in 1..N /\ n \in 0..N /\ (n + 1) - 1 = n
    BY <1>0
  <2>2. A(n + 1) = VisitBlock(A(n), chunk[n + 1]) /\ IsAnalysis(A(n))
    BY <1>1, <1>4, <2>1
  <2> QED
    BY <1>2, <2>1, <2>2, FindingsGrow
<1> DEFINE S == {m \in 0..N : A(N - m).findings = {}}
<1>6. 0..N \subseteq S
  <2>1. 0 \in S
    BY <1>0, <1>3
  <2>2. ASSUME NEW m \in 0..N - 1, m \in S PROVE m + 1 \in S
    <3>1. N - (m + 1) \in 0..N - 1 /\ (N - (m + 1)) + 1 = N - m /\ m + 1 \in 0..N
      BY <1>0
    <3>2. A(N - (m + 1)).findings \subseteq A(N - m).findings
      BY <1>5, <3>1
    <3> QED
      BY <2>2, <3>1, <3>2
  <2> HIDE DEF S
  <2> QED
    BY <1>0, <2>1, <2>2, CountingUp
<1>7. ASSUME NEW n \in 0..N PROVE A(n).findings = {}
  <2>1. N - n \in 0..N /\ N - (N - n) = n
    BY <1>0
  <2> QED
    BY <1>6, <2>1
<1> QED
  BY <1>0, <1>7 DEF A

\* What the policy finds nothing wrong with, and can follow, never writes to the input.
LEMMA RunFollowed ==
  ASSUME NEW context, Document(context), NEW chunk \in Seq(Statement), NEW order, Len(order) \in Nat,
         Findings(chunk) = {}, \A j \in DOMAIN chunk : Followed(chunk[j])
  PROVE  Run(chunk, context, order)[Len(chunk)].error \in {"", "lua_runtime_error"}
<1> DEFINE R(n) == Run(chunk, context, order)[n]
           A(n) == Analysis(chunk)[n]
<1>0. PICK N : N = Len(chunk) /\ N \in Nat
  OBVIOUS
<1>1. /\ A(0) = [scopes |-> << <<>> >>, findings |-> {}]
      /\ \A n \in 1..N : A(n) = VisitBlock(A(n - 1), chunk[n])
  BY <1>0, AnalysisUnfolds
<1>2. /\ R(0) = Started(context)
      /\ \A n \in 1..N : R(n) = Execute(R(n - 1), chunk[n], order)
  BY <1>0, RunUnfolds
<1>3. \A n \in 1..N : chunk[n] \in Statement /\ Followed(chunk[n])
  <2>1. DOMAIN chunk = 1..N
    BY <1>0
  <2> QED
    BY <1>0, <2>1, ElementOfSeq
<1>4. \A n \in 0..N : A(n).findings = {} /\ Sound(R(n))
  BY <1>0, NothingFoundBefore, RunSound
<1> HIDE DEF A, R
<1> DEFINE T == {n \in 0..N : Kept(R(n), A(n))}
<1>5. 0 \in T
  <2>1. PICK r, a, nothing : r = R(0) /\ a = A(0) /\ nothing = <<>>
    OBVIOUS
  <2>2. r = [env |-> <<nothing>>, heap |-> Library, input |-> RawWf(context), reads |-> {}, acc |-> Nil, error |-> ""]
    BY <1>2, <2>1 DEF Started
  <2>3. a = [scopes |-> <<nothing>>, findings |-> {}]
    BY <1>1, <2>1
  <2>4. a.scopes = <<nothing>> /\ IsAnalysis(a) /\ r.env = <<nothing>> /\ r.heap = Library /\ r.error = ""
    BY <2>2, <2>3 DEF IsAnalysis
  <2>5. PICK one : one = <<nothing>>
    OBVIOUS
  <2>6. IsSequence(one) /\ Len(one) = 1 /\ one[1] = nothing
    BY <2>5 DEF IsSequence
  <2>7. DOMAIN nothing = {}
    BY ONLY <2>1
  <2>8. Agrees(one, one)
    BY ONLY <2>6, <2>7 DEF Agrees
  <2>9. Clean(Library)
    <3>1. DOMAIN Library = 1..3 /\ \A i \in 1..3 : i <= 3 /\ (i = 1 \/ i = 2 \/ i = 3)
      BY LibraryIs DEF IsSequence
    <3>2. ~IsIn([val |-> "insert"]) /\ ~IsIn([val |-> "markAsArray"]) /\ ~IsIn([own |-> 3])
      BY DEF IsIn
    <3> QED
      BY <3>1, <3>2, LibraryIs DEF Clean
  <2>10. Kept(r, a)
    BY <2>4, <2>5, <2>8, <2>9 DEF Kept
  <2> QED
    BY <1>0, <2>1, <2>10
<1>6. ASSUME NEW n \in 0..N - 1, n \in T PROVE n + 1 \in T
  <2>1. n + 1 \in 1..N /\ n + 1 \in 0..N /\ n \in 0..N /\ (n + 1) - 1 = n
    BY <1>0
  <2>2. A(n + 1) = VisitBlock(A(n), chunk[n + 1]) /\ R(n + 1) = Execute(R(n), chunk[n + 1], order)
    BY <1>1, <1>2, <2>1
  <2>3. Sound(R(n)) /\ A(n + 1).findings = {} /\ chunk[n + 1] \in Statement /\ Followed(chunk[n + 1])
    BY <1>3, <1>4, <2>1
  <2>4. Kept(R(n), A(n))
    BY <1>6
  <2>5. Kept(R(n + 1), A(n + 1))
    BY <2>2, <2>3, <2>4, ExecuteFollowed
  <2> QED
    BY <2>1, <2>5
<1> HIDE DEF T
<1>7. 0..N \subseteq T
  BY <1>0, <1>5, <1>6, CountingUp
<1>8. N \in T
  BY <1>0, <1>7
<1> QED
  BY <1>0, <1>8 DEF T, Kept, R

\* The end of a run that wrote to the input.
Refuses(x) == x.code = "workflow input is read-only"

\* So a chunk does not end with the refusal of the proxies,
LEMMA RunChunkFollowed ==
  ASSUME NEW context, Document(context), NEW chunk \in Seq(Statement), NEW shape, NEW order, Len(order) \in Nat,
         Findings(chunk) = {}, \A j \in DOMAIN chunk : Followed(chunk[j])
  PROVE  ~Refuses(RunChunk(chunk, context, shape, order))
<1>1. CASE ~Serializable(context)
  BY <1>1 DEF RunChunk, Refuses, Result
<1>2. CASE Serializable(context)
  <2>1. PICK r, returns : /\ r = Run(chunk, context, order)[Len(chunk)]
                          /\ returns = (chunk # <<>> /\ Last(chunk).do = "return")
    OBVIOUS
  <2>2. r.error \in {"", "lua_runtime_error"}
    BY <2>1, RunFollowed
  <2>3. PICK x : x = Ended(r, returns, shape)
    OBVIOUS
  <2>4. RunChunk(chunk, context, shape, order) = x
    BY <1>2, <2>1, <2>3 DEF RunChunk
  <2>5. PICK q : q = IF returns THEN Declared(r, shape) ELSE [r EXCEPT !.acc = Nil]
    OBVIOUS
  <2>6. x = IF r.error # "" THEN Result(r.error, <<>>, r.reads) ELSE Returned(q)
    BY <2>3, <2>5 DEF Ended
  <2>7. Returned(q).code \in {"", "lua_result_serialization_error", "lua_result_too_large"}
    BY DEF Returned, Encoded, Result
  <2>8. x.code \in {"", "lua_runtime_error", "lua_result_serialization_error", "lua_result_too_large"}
    BY <2>2, <2>6, <2>7 DEF Result
  <2> QED
    BY <2>4, <2>8 DEF Refuses
<1> QED
  BY <1>1, <1>2

\* ... nor does a candidate.
LEMMA OutputFollowed ==
  ASSUME NEW context, Document(context), NEW chunks, chunks \in Seq(Statement) \X Seq(Statement) \/
         \E chunk \in Seq(Statement) : chunks = <<chunk>>,
         NEW envelope, NEW shape, NEW order, Len(order) \in Nat,
         \A i \in DOMAIN chunks : Findings(chunks[i]) = {} /\ \A j \in DOMAIN chunks[i] : Followed(chunks[i][j])
  PROVE  ~Refuses(Output(chunks, envelope, context, shape, order))
<1>1. /\ DOMAIN chunks \in {1..1, 1..2} /\ 1 \in DOMAIN chunks
      /\ \A i \in DOMAIN chunks : chunks[i] \in Seq(Statement)
  OBVIOUS
<1>2. \A i \in DOMAIN chunks : \A s : ~Refuses(RunChunk(chunks[i], context, s, order))
  BY <1>1, RunChunkFollowed
<1>3. PICK ran : ran = [i \in DOMAIN chunks |-> RunChunk(chunks[i], context, "", order)]
  OBVIOUS
<1>4. Len(ran) \in Nat /\ DOMAIN ran = 1..Len(ran)
  <2>1. DOMAIN ran = 1..1 \/ DOMAIN ran = 1..2
    BY <1>1, <1>3
  <2>2. \A n \in Nat : DOMAIN ran = 1..n => Len(ran) = n
    BY LenIs2
  <2> QED
    BY <2>1, <2>2
<1>5. \A i \in DOMAIN ran : ~Refuses(ran[i])
  BY <1>2, <1>3
<1>6. ~Refuses(Together(ran))
  <2>1. PICK failed : failed = SelectInSeq(ran, LAMBDA x : x.code # "")
    OBVIOUS
  <2>2. failed # 0 => failed \in DOMAIN ran
    BY ONLY <1>4, <2>1, FirstFailed
  <2>3. PICK reads : reads = UNION {ran[i].reads : i \in DOMAIN ran}
    OBVIOUS
  <2>4. \/ Together(ran) \in {Result("lua_result_too_large", <<>>, {}), Result("", Enveloped(ran), reads)}
        \/ failed # 0 /\ Together(ran) = ran[failed]
    BY ONLY <2>1, <2>3 DEF Together
  <2>5. CASE failed # 0 /\ Together(ran) = ran[failed]
    BY <1>5, <2>2, <2>5
  <2>6. CASE Together(ran) \in {Result("lua_result_too_large", <<>>, {}), Result("", Enveloped(ran), reads)}
    <3>1. PICK t, doc : t = Together(ran) /\ doc = Enveloped(ran)
      OBVIOUS
    <3>2. \/ t = [code |-> "lua_result_too_large", doc |-> <<>>, reads |-> {}]
          \/ t = [code |-> "", doc |-> doc, reads |-> reads]
      BY <2>6, <3>1 DEF Result
    <3>3. ASSUME NEW code, NEW d, NEW rs, t = [code |-> code, doc |-> d, reads |-> rs] PROVE t.code = code
      BY ONLY <3>3
    <3>4. t.code = "lua_result_too_large" \/ t.code = ""
      BY ONLY <3>2, <3>3
    <3> QED
      BY <3>1, <3>4 DEF Refuses
  <2> QED
    BY <2>4, <2>5, <2>6
<1> QED
  BY <1>1, <1>2, <1>3, <1>6 DEF Output

\* A candidate that the policy let through and can follow never runs into the read-only proxies,
\* on no request and on no case: the flags of the scopes agree with the values of the locals.
THEOREM AliasesAreAlwaysCaught == Spec => []AliasesAreCaught
<1>1. ASSUME IInv, RunsAreReal PROVE AliasesAreCaught
  <2> SUFFICES ASSUME NEW i \in DOMAIN results,
                      \A c \in DOMAIN Chunks : \A j \in DOMAIN Chunks[c] : Followed(Chunks[c][j])
               PROVE  results[i].code # "workflow input is read-only"
    BY DEF AliasesAreCaught
  <2>1. i \in 1..Len(results) /\ Len(results) # 0
    BY <1>1 DEF IInv, Typed, IsSequence
  <2>2. task \in Tasks
    BY <1>1, <2>1 DEF IInv, Typed
  <2>3. PICK y, context : y = results[i] /\ context = Context(i)
    OBVIOUS
  <2>4. IsRunOn(y, context) /\ Document(context)
    BY <1>1, <2>1, <2>2, <2>3, ContextsAre DEF RunsAreReal
  <2>5. \A c \in DOMAIN Chunks : Findings(Chunks[c]) = {}
    BY <1>1, <2>1 DEF RunsAreReal
  <2>6. ASSUME NEW order \in Orders
        PROVE  ~Refuses(Output(Chunks, task.envelope, context, task.shape, order))
    <3>1. Len(order) \in Nat
      BY InputAssumption
    <3> QED
      BY <1>1, <2>2, <2>4, <2>5, <3>1, ChunksAre, OutputFollowed
  <2>7. ASSUME NEW code \in Outside PROVE ~Refuses(Result(code, <<>>, {}))
    <3>1. Result(code, <<>>, {}).code = code
      BY DEF Result
    <3> QED
      BY <3>1 DEF Refuses, Outside
  <2>8. ~Refuses(y)
    BY <2>4, <2>6, <2>7 DEF IsRunOn
  <2> QED
    BY <2>3, <2>8 DEF Refuses
<1> QED
  BY <1>1, RunsAreAlwaysReal, PTL

-----------------------------------------------------------------------------
(* What wf stands for. *)

\* Only statements bind locals: an error does not,
LEMMA ErrorBinds == ASSUME NEW r, Sound(r), NEW e PROVE Error(r, e).env = r.env
BY HeldType, SetErrorAcc DEF Error

\* ... nor a read of a key,
LEMMA IndexBinds == ASSUME NEW r, Sound(r), NEW key PROVE Index(r, key).env = r.env
<1>1. CASE r.error # "" \/ ~Table(r.acc)
  BY <1>1, ErrorBinds DEF Index
<1>2. CASE r.error = "" /\ Table(r.acc)
  <2>1. PICK v, more : /\ v = IF key \in DOMAIN Content(r, r.acc) THEN Content(r, r.acc)[key] ELSE Nil
                       /\ more = r.reads \cup IF IsIn(r.acc) THEN Noted(r.acc.input, key) ELSE {}
    OBVIOUS
  <2>2. Index(r, key) = [r EXCEPT !.acc = v, !.reads = more]
    BY <1>2, <2>1 DEF Index
  <2>3. PICK q : q = [r EXCEPT !.acc = v, !.reads = more]
    OBVIOUS
  <2>4. q = [env |-> r.env, heap |-> r.heap, input |-> r.input, reads |-> more, acc |-> v, error |-> r.error]
    BY <2>3, HeldType, SetAccReads
  <2>5. q.env = r.env
    BY <2>4
  <2> QED
    BY <2>2, <2>3, <2>5
<1> QED
  BY <1>1, <1>2

\* ... nor those of a path,
LEMMA WalkBinds ==
  ASSUME NEW r, Sound(r), NEW keys, Len(keys) \in Nat
  PROVE  \A n \in 0..Len(keys) : Walk(r, keys)[n].env = r.env
<1> DEFINE w(n) == Walk(r, keys)[n]
           T == {n \in 0..Len(keys) : w(n).env = r.env}
<1>1. 0 \in T
  BY WalkUnfolds
<1>2. ASSUME NEW n \in 0..Len(keys) - 1, n \in T PROVE n + 1 \in T
  <2>1. n + 1 \in 1..Len(keys) /\ (n + 1) - 1 = n /\ n + 1 \in 0..Len(keys) /\ n \in 0..Len(keys)
    OBVIOUS
  <2>2. w(n + 1) = Index(w(n), keys[n + 1])
    BY <2>1, WalkUnfolds
  <2>5. Sound(w(n))
    BY <2>1, WalkLeads DEF Leads
  <2> HIDE DEF w
  <2>3. w(n).env = r.env
    BY <1>2
  <2>4. w(n + 1).env = r.env
    BY <2>2, <2>3, <2>5, IndexBinds
  <2> QED
    BY <2>1, <2>4
<1> HIDE DEF T
<1>3. 0..Len(keys) \subseteq T
  BY <1>1, <1>2, CountingUp
<1> QED
  BY <1>3 DEF T

\* ... nor a path,
LEMMA PathBinds ==
  ASSUME NEW r, Sound(r), NEW path \in Seq(Names), path # <<>>
  PROVE  Path(r, path).env = r.env
<1>1. PICK q, v : q = [r EXCEPT !.acc = v] /\ v = Named(r, path[1])
  OBVIOUS
<1>2. q = [env |-> r.env, heap |-> r.heap, input |-> r.input, reads |-> r.reads, acc |-> v, error |-> r.error]
  BY <1>1, SetAcc, HeldType
<1>3. Sound(q)
  BY <1>1, NamedHeld, AccSet DEF Leads
<1>7. q.env = r.env
  BY <1>2
<1>4. Len(Tail(path)) = Len(path) - 1 /\ Len(path) - 1 \in Nat
  <2>1. Len(path) \in Nat \ {0}
    BY EmptySeq
  <2> QED
    BY <2>1, HeadTailProperties
<1>5. Path(r, path) = Walk(q, Tail(path))[Len(path) - 1]
  BY <1>1 DEF Path
<1>6. \A n \in 0..Len(Tail(path)) : Walk(q, Tail(path))[n].env = q.env
  BY <1>3, <1>4, WalkBinds
<1> QED
  BY <1>4, <1>5, <1>6, <1>7

\* ... nor the call of a function on one,
LEMMA CallingBinds ==
  ASSUME NEW r, Sound(r), NEW f \in Seq(Names), f # <<>>, NEW path \in Seq(Names), path # <<>>
  PROVE  Sound(Calling(r, f, path)) /\ Calling(r, f, path).env = r.env
<1>1. PICK p, q : p = Path(r, f) /\ q = Path(p, path)
  OBVIOUS
<1>2. Sound(p) /\ p.env = r.env
  BY <1>1, PathLeads, PathBinds DEF Leads
<1>3. Sound(q) /\ q.env = r.env
  BY <1>1, <1>2, PathLeads, PathBinds DEF Leads
<1>4. Calling(r, f, path) \in {q, Error(q, "lua_runtime_error")}
  BY <1>1 DEF Calling
<1>5. Calling(r, f, path).env = r.env
  BY <1>3, <1>4, ErrorBinds
<1> QED
  BY <1>5, CallingLeads DEF Leads

\* ... nor a change of tables and values,
LEMMA HeapBinds ==
  ASSUME NEW r, Sound(r), NEW heap, NEW v
  PROVE  /\ [r EXCEPT !.heap = heap].env = r.env
         /\ [r EXCEPT !.heap = heap, !.acc = v].env = r.env
         /\ [r EXCEPT !.acc = v].env = r.env
<1>1. r = [env |-> r.env, heap |-> r.heap, input |-> r.input, reads |-> r.reads, acc |-> r.acc, error |-> r.error]
  BY HeldType DEF IsRecord
<1> QED
  BY ONLY <1>1

\* ... nor a new table,
LEMMA NewBinds ==
  ASSUME NEW r, Sound(r), NEW mark, NEW items
  PROVE  New(r, mark, items).env = r.env
<1>1. PICK heap, v : /\ heap = Append(r.heap, [mark |-> mark, items |-> items])
                     /\ v = [own |-> Len(r.heap) + 1]
  OBVIOUS
<1>2. New(r, mark, items) = [r EXCEPT !.heap = heap, !.acc = v]
  BY <1>1 DEF New
<1> QED
  BY <1>2, HeapBinds

\* ... nor _utils.array,
LEMMA MarkBinds == ASSUME NEW r, Sound(r) PROVE MarkAsArray(r).env = r.env
<1>1. ASSUME NEW items PROVE New(r, "array", items).env = r.env
  BY NewBinds
<1>2. CASE r.error = "" /\ r.acc # Nil /\ ~ReadOnly(r.acc) /\ Own(r.acc)
  <2>1. PICK heap : heap = [r.heap EXCEPT ![r.acc.own].mark = "array"]
    OBVIOUS
  <2>2. MarkAsArray(r) = [r EXCEPT !.heap = heap]
    BY <1>2, <2>1 DEF MarkAsArray
  <2> QED
    BY <2>2, HeapBinds
<1>3. CASE ~(r.error = "" /\ r.acc # Nil /\ ~ReadOnly(r.acc) /\ Own(r.acc))
  <2>1. \/ MarkAsArray(r) \in {r, Error(r, "lua_runtime_error")}
        \/ \E items : MarkAsArray(r) = New(r, "array", items)
    BY <1>3 DEF MarkAsArray
  <2> QED
    BY <1>1, <2>1, ErrorBinds
<1> QED
  BY <1>2, <1>3

\* ... nor an expression,
LEMMA EvaluateBinds ==
  ASSUME NEW r, Sound(r), NEW e \in Expression
  PROVE  Evaluate(r, e).env = r.env
<1>0. /\ e.op \in {"read", "pack", "mark", "zero", "empty"} /\ e.path \in Seq(Names)
      /\ e.op \in {"read", "pack", "mark"} => e.path # <<>>
  BY ExpressionIs
<1>1. CASE e.op = "zero"
  BY <1>1, HeapBinds DEF Evaluate
<1>2. CASE e.op = "empty"
  BY <1>2, NewBinds DEF Evaluate
<1>3. CASE e.op \in {"read", "pack"}
  <2>1. PICK q : q = Path(r, e.path)
    OBVIOUS
  <2>2. Sound(q) /\ q.env = r.env
    BY <1>0, <1>3, <2>1, PathLeads, PathBinds DEF Leads
  <2>3. CASE e.op = "read"
    BY <2>1, <2>2, <2>3 DEF Evaluate
  <2>4. CASE e.op = "pack"
    <3>1. Evaluate(r, e) = q \/ \E items : Evaluate(r, e) = New(q, "table", items)
      BY <2>1, <2>4 DEF Evaluate, Packed
    <3> QED
      BY <2>2, <3>1, NewBinds
  <2> QED
    BY <1>3, <2>3, <2>4
<1>4. CASE e.op = "mark"
  <2>1. PICK q : q = Calling(r, <<"_utils", "array", "markAsArray">>, e.path)
    OBVIOUS
  <2>2. Sound(q) /\ q.env = r.env
    BY <1>0, <1>4, <2>1, FunctionPaths, CallingBinds
  <2>3. Evaluate(r, e) = MarkAsArray(q)
    BY <1>4, <2>1 DEF Evaluate
  <2> QED
    BY <2>2, <2>3, MarkBinds
<1> QED
  BY <1>0, <1>1, <1>2, <1>3, <1>4

\* ... nor a write to a table,
LEMMA StoreBinds == ASSUME NEW r, Sound(r), NEW key, NEW value PROVE Store(r, key, value).env = r.env
<1>1. CASE r.error = "" /\ ~ReadOnly(r.acc) /\ Own(r.acc)
  <2>1. PICK o, old : o = r.acc.own /\ old = r.heap[o].items
    OBVIOUS
  <2>2. PICK heap :
          heap = [r.heap EXCEPT ![o].items = IF value = Nil THEN [k \in DOMAIN old \ {key} |-> old[k]]
                                             ELSE With(old, key, value)]
    OBVIOUS
  <2>3. PICK items : items = IF value = Nil THEN [k \in DOMAIN old \ {key} |-> old[k]] ELSE With(old, key, value)
    OBVIOUS
  <2>4. Store(r, key, value) = [r EXCEPT !.heap[o].items = items]
    BY <1>1, <2>1, <2>3 DEF Store
  <2>5. Store(r, key, value) = [r EXCEPT !.heap = heap]
    BY <2>2, <2>3, <2>4
  <2> QED
    BY <2>5, HeapBinds
<1>2. CASE ~(r.error = "" /\ ~ReadOnly(r.acc) /\ Own(r.acc))
  <2>1. Store(r, key, value) = r \/ \E e : Store(r, key, value) = Error(r, e)
    BY <1>2 DEF Store
  <2> QED
    BY <2>1, ErrorBinds
<1> QED
  BY <1>1, <1>2

\* ... nor table.insert.
LEMMA InsertBinds == ASSUME NEW r, Sound(r) PROVE Insert(r).env = r.env
BY ErrorBinds, StoreBinds DEF Insert

\* No local hides the input.
Free(r) == \A i \in 1..Len(r.env) : "wf" \notin DOMAIN r.env[i]

\* Statements that do not hide it.
Lawful(s) == s.do = "local" => s.at[1] # "wf"

\* A scope without wf does not hide it.
LEMMA EnvIsFree ==
  ASSUME NEW r, Sound(r), Free(r), NEW o, NEW scope, "wf" \notin DOMAIN scope
  PROVE  Free([r EXCEPT !.env[o] = scope])
<1>1. PICK env : env = [r.env EXCEPT ![o] = scope]
  OBVIOUS
<1>2. IsSequence(r.env) /\ DOMAIN r.env = 1..Len(r.env)
  BY HeldType
<1>3. Len(env) = Len(r.env) /\ DOMAIN env = DOMAIN r.env
  BY <1>1, <1>2, Excepted
<1>4. \A i \in 1..Len(env) : "wf" \notin DOMAIN env[i]
  BY <1>1, <1>2, <1>3 DEF Free
<1>5. PICK q : q = [r EXCEPT !.env[o] = scope]
  OBVIOUS
<1>6. q = [r EXCEPT !.env = env]
  BY <1>1, <1>5
<1>7. q = [env |-> env, heap |-> r.heap, input |-> r.input, reads |-> r.reads, acc |-> r.acc, error |-> r.error]
  BY <1>6, HeldType, SetEnv
<1>8. q.env = env
  BY <1>7
<1> QED
  BY <1>4, <1>5, <1>8 DEF Free

\* A lawful statement does not hide wf,
LEMMA EffectIsFree ==
  ASSUME NEW r, Sound(r), Free(r), NEW s \in Statement, Lawful(s)
  PROVE  Free(Effect(r, s))
<1>0. /\ s.at \in Seq(Names) /\ s.do \in {"local", "assign", "insert", "return", "goto"}
      /\ s.do \in {"assign", "insert"} => s.at # <<>>
  BY StatementIs
<1>1. CASE r.error # "" \/ s.do \in {"return", "goto"}
  <2>1. Effect(r, s) = r
    BY <1>1 DEF Effect
  <2> QED
    BY <2>1
<1>2. CASE r.error = "" /\ s.do = "local"
  <2>1. PICK o, scope : o = Len(r.env) /\ scope = With(r.env[o], s.at[1], r.acc)
    OBVIOUS
  <2>2. Effect(r, s) = [r EXCEPT !.env[o] = scope]
    BY <1>2, <2>1 DEF Effect
  <2>3. CASE o \in 1..Len(r.env)
    <3>1. "wf" \notin DOMAIN scope
      BY <1>2, <2>1, <2>3 DEF With, Free, Lawful
    <3> QED
      BY <2>2, <3>1, EnvIsFree
  <2>4. CASE o \notin 1..Len(r.env)
    <3>1. DOMAIN r.env = 1..Len(r.env) /\ IsSequence(r.env)
      BY HeldType
    <3>2. [r.env EXCEPT ![o] = scope] = r.env
      BY <2>4, <3>1 DEF IsSequence
    <3>3. [r EXCEPT !.env[o] = scope] = r
      BY <3>2, HeldType, SetEnv DEF IsRecord
    <3> QED
      BY <2>2, <3>3
  <2> QED
    BY <2>3, <2>4
<1>3. CASE r.error = "" /\ s.do = "assign" /\ Len(s.at) = 1
  <2>1. PICK x, o : x = s.at[1] /\ o = Owner(r.env, x)
    OBVIOUS
  <2>2. Effect(r, s) = Bind(r, x)
    BY <1>3, <2>1 DEF Effect
  <2>3. CASE o = 0
    BY <2>1, <2>2, <2>3 DEF Bind
  <2>4. CASE o # 0
    <3>1. o \in 1..Len(r.env)
      BY <2>1, <2>4, HeldType, OwnerIs
    <3>2. PICK scope : scope = [r.env[o] EXCEPT ![x] = r.acc]
      OBVIOUS
    <3>3. Bind(r, x) = [r EXCEPT !.env[o] = scope]
      <4>1. Bind(r, x) = [r EXCEPT !.env[o][x] = r.acc]
        BY <2>1, <2>4 DEF Bind
      <4> QED
        BY <3>2, <4>1
    <3>4. "wf" \notin DOMAIN scope
      BY <3>1, <3>2 DEF Free
    <3> QED
      BY <2>2, <3>3, <3>4, EnvIsFree
  <2> QED
    BY <2>3, <2>4
<1>4. CASE r.error = "" /\ s.do = "assign" /\ Len(s.at) # 1
  <2>1. PICK q : q = Path(r, Front(s.at))
    OBVIOUS
  <2>2. Front(s.at) \in Seq(Names) /\ Front(s.at) # <<>>
    BY <1>0, <1>4, FrontIs
  <2>3. Sound(q) /\ q.env = r.env
    BY <2>1, <2>2, PathLeads, PathBinds DEF Leads
  <2>4. Effect(r, s) = Store(q, Last(s.at), r.acc)
    BY <1>4, <2>1 DEF Effect
  <2>5. Effect(r, s).env = r.env
    BY <2>3, <2>4, StoreBinds
  <2> QED
    BY <2>5 DEF Free
<1>5. CASE r.error = "" /\ s.do = "insert"
  <2>1. PICK q : q = Calling(r, <<"table", "insert">>, s.at)
    OBVIOUS
  <2>2. Sound(q) /\ q.env = r.env
    BY <1>0, <1>5, <2>1, FunctionPaths, CallingBinds
  <2>3. Effect(r, s) = Insert(q)
    BY <1>5, <2>1 DEF Effect
  <2>4. Effect(r, s).env = r.env
    BY <2>2, <2>3, InsertBinds
  <2> QED
    BY <2>4 DEF Free
<1> QED
  BY <1>0, <1>1, <1>2, <1>3, <1>4, <1>5

\* ... with its expression,
LEMMA DoIsFree ==
  ASSUME NEW r, Sound(r), Free(r), NEW s \in Statement, Lawful(s)
  PROVE  Free(Do(r, s))
<1>1. PICK q : q = Evaluate(r, s.exp)
  OBVIOUS
<1>2. Sound(q) /\ q.env = r.env
  BY <1>1, StatementIs, EvaluateLeads, EvaluateBinds DEF Leads
<1>3. Free(q)
  BY <1>2 DEF Free
<1> QED
  BY <1>1, <1>2, <1>3, EffectIsFree DEF Do

\* ... in a block,
LEMMA InsideIsFree ==
  ASSUME NEW r, Sound(r), Free(r), NEW s \in Statement, Lawful(s),
         NEW scope, MapsTo(scope, Held(r)), "wf" \notin DOMAIN scope
  PROVE  Free(Inside(r, scope, s))
<1>1. PICK env : env = Append(r.env, scope)
  OBVIOUS
<1>2. IsSequence(r.env) /\ IsRecord(r)
  BY HeldType
<1>3. PICK n : n = Len(r.env) /\ n \in Nat
  BY HeldType
<1>4. /\ IsSequence(env) /\ Len(env) = n + 1 /\ env[n + 1] = scope
      /\ \A i \in 1..n : env[i] = r.env[i]
  BY ONLY <1>1, <1>2, <1>3, Appended
<1>5. \A i \in 1..(n + 1) : i \in 1..n \/ i = n + 1
  BY ONLY <1>3
<1>6. /\ \A i \in 1..n : MapsTo(r.env[i], Held(r)) /\ "wf" \notin DOMAIN r.env[i]
  BY <1>3 DEF Sound, Free
<1>7. \A i \in 1..Len(env) : MapsTo(env[i], Held(r)) /\ "wf" \notin DOMAIN env[i]
  BY ONLY <1>4, <1>5, <1>6, MapsTo(scope, Held(r)), "wf" \notin DOMAIN scope
<1>8. PICK p : p = [r EXCEPT !.env = env]
  OBVIOUS
<1>9. p = [env |-> env, heap |-> r.heap, input |-> r.input, reads |-> r.reads, acc |-> r.acc, error |-> r.error]
  BY <1>2, <1>8, SetEnv
<1>10. p.env = env
  BY <1>9
<1>11. Sound(p)
  BY <1>4, <1>7, <1>8, EnvSet
<1>12. Free(p)
  BY <1>7, <1>10 DEF Free
<1>13. PICK q : q = Do(p, s)
  OBVIOUS
<1>14. Free(q)
  BY <1>11, <1>12, <1>13, DoIsFree
<1>15. Leads(p, q)
  BY <1>11, <1>13, DoLeads
<1>16. Sound(q) /\ Len(q.env) = n + 1
  BY <1>4, <1>10, <1>15 DEF Leads
<1>17. IsSequence(q.env) /\ IsRecord(q)
  BY <1>16, HeldType
<1>18. PICK x, fin, old : fin = Front(old) /\ old = q.env /\ x = [q EXCEPT !.env = fin]
  OBVIOUS
<1>19. x = [env |-> fin, heap |-> q.heap, input |-> q.input, reads |-> q.reads, acc |-> q.acc, error |-> q.error]
  BY <1>17, <1>18, SetEnv
<1>20. x.env = fin
  BY <1>19
<1>21. n + 1 # 0 /\ (n + 1) - 1 = n /\ \A i \in 1..n : i \in 1..(n + 1)
  BY ONLY <1>3
<1>22. Len(fin) = n /\ \A i \in 1..n : fin[i] = old[i]
  BY ONLY <1>16, <1>17, <1>18, <1>21, Fronts
<1>23. \A i \in 1..(n + 1) : "wf" \notin DOMAIN old[i]
  BY <1>14, <1>16, <1>18 DEF Free
<1>24. Free(x)
  BY ONLY <1>20, <1>21, <1>22, <1>23 DEF Free
<1>25. Inside(r, scope, s) = x
  <2>1. [r EXCEPT !.env = Append(@, scope)] = p
    BY <1>1, <1>8
  <2> QED
    BY <1>13, <1>18, <2>1 DEF Inside
<1> QED
  BY <1>24, <1>25

\* ... in a turn of a loop,
LEMMA TurnIsFree ==
  ASSUME NEW r, Sound(r), Free(r), NEW s \in Statement, Lawful(s),
         NEW t \in Held(r), Table(t), NEW key
  PROVE  Free(Turn(r, s, t, key))
<1>1. CASE r.error # "" \/ key \notin DOMAIN Content(r, t)
  BY <1>1 DEF Turn
<1>2. CASE ~(r.error # "" \/ key \notin DOMAIN Content(r, t))
  <2>1. PICK more, value, reads : /\ more = Reading(t, key) /\ value = Content(r, t)[key]
                                  /\ reads = r.reads \cup more
    OBVIOUS
  <2>2. value \in Values(r.input, reads, 1..Len(r.heap))
    BY <1>2, <2>1, ContentHeld
  <2>3. PICK q : q = [r EXCEPT !.reads = reads]
    OBVIOUS
  <2>4. q = [env |-> r.env, heap |-> r.heap, input |-> r.input, reads |-> reads, acc |-> r.acc, error |-> r.error]
    BY <2>3, HeldType, SetReads
  <2>5. q.env = r.env /\ q.input = r.input /\ q.reads = reads /\ q.heap = r.heap
    BY <2>4
  <2>6. Sound(q)
    <3>1. q = [r EXCEPT !.acc = r.acc, !.reads = @ \cup more]
      BY <2>1, <2>3, HeldType DEF IsRecord
    <3>2. Len(r.heap) \in Nat /\ Len(r.heap) <= Len(r.heap) /\ r.reads \subseteq reads
      BY <2>1, HeldType
    <3>3. Held(r) \subseteq Values(r.input, reads, 1..Len(r.heap))
      BY ONLY <3>2, HeldGrows DEF Held
    <3>4. r.acc \in Values(r.input, r.reads \cup more, 1..Len(r.heap))
      BY <2>1, <3>3 DEF Sound
    <3> QED
      BY <3>1, <3>4, ReadsAdded DEF Leads
  <2>7. value \in Held(q)
    BY <2>2, <2>5 DEF Held
  <2>8. PICK scope : scope = [item |-> value]
    OBVIOUS
  <2>9. MapsTo(scope, Held(q)) /\ "wf" \notin DOMAIN scope
    BY <2>7, <2>8, NamesAssumption DEF MapsTo
  <2>10. Free(q)
    BY <2>5 DEF Free
  <2>11. Free(Inside(q, scope, s))
    BY <2>6, <2>9, <2>10, InsideIsFree
  <2>12. Turn(r, s, t, key) = Inside(q, scope, s)
    BY <1>2, <2>1, <2>3, <2>8 DEF Turn, Reading
  <2> QED
    BY <2>11, <2>12
<1> QED
  BY <1>1, <1>2

\* ... in a loop,
LEMMA LoopIsFree ==
  ASSUME NEW r, Sound(r), Free(r), NEW s \in Statement, Lawful(s), NEW order, Len(order) \in Nat
  PROVE  Free(Loop(r, s, order))
<1>1. CASE r.error # "" \/ ~Table(r.acc)
  <2>1. Loop(r, s, order).env = r.env
    BY <1>1, ErrorBinds DEF Loop
  <2> QED
    BY <2>1 DEF Free
<1>2. CASE ~(r.error # "" \/ ~Table(r.acc))
  <2>1. PICK t : t = r.acc
    OBVIOUS
  <2>2. t \in Held(r) /\ Table(t)
    BY <1>2, <2>1 DEF Sound
  <2> DEFINE R(n) == Turns(r, s, t, order)[n]
             T == {n \in 0..Len(order) : Free(R(n))}
  <2>3. 0 \in T
    BY TurnsUnfold
  <2>4. ASSUME NEW n \in 0..Len(order) - 1, n \in T PROVE n + 1 \in T
    <3>1. n + 1 \in 1..Len(order) /\ (n + 1) - 1 = n /\ n \in 0..Len(order) /\ n + 1 \in 0..Len(order)
      OBVIOUS
    <3>2. R(n + 1) \in {R(n), Turn(R(n), s, t, order[n + 1])}
      BY <3>1, TurnsUnfold
    <3>3. Leads(r, R(n))
      BY <2>2, <3>1, TurnsLead
    <3> HIDE DEF R
    <3>4. Sound(R(n)) /\ t \in Held(R(n))
      BY <2>2, <3>3, LeadsGrows DEF Leads
    <3>5. Free(R(n))
      BY <2>4
    <3>6. Free(R(n + 1))
      BY <2>2, <3>2, <3>4, <3>5, TurnIsFree
    <3> QED
      BY <3>1, <3>6
  <2> HIDE DEF T
  <2>5. 0..Len(order) \subseteq T
    BY <2>3, <2>4, CountingUp
  <2>6. Len(order) \in T
    BY <2>5
  <2>7. Loop(r, s, order) = Turns(r, s, t, order)[Len(order)]
    BY <1>2, <2>1 DEF Loop
  <2> QED
    BY <2>6, <2>7 DEF T
<1> QED
  BY <1>1, <1>2

\* ... or in whatever surrounds it.
LEMMA ExecuteIsFree ==
  ASSUME NEW r, Sound(r), Free(r), NEW s \in Statement, Lawful(s), NEW order, Len(order) \in Nat
  PROVE  Free(Execute(r, s, order))
<1>0. /\ s.over \in Seq(Names) /\ s.in \in {"plain", "taken", "skipped", "guarded", "each", "called"}
      /\ s.in \in {"each", "called"} => s.over # <<>>
  BY StatementIs
<1>1. CASE r.error # "" \/ s.in = "skipped"
  <2>1. Execute(r, s, order) = r
    BY <1>1 DEF Execute
  <2> QED
    BY <2>1
<1>2. CASE r.error = "" /\ s.in = "plain"
  BY <1>2, DoIsFree DEF Execute
<1>3. PICK nothing : nothing = <<>>
  OBVIOUS
<1>4. MapsTo(nothing, Held(r)) /\ "wf" \notin DOMAIN nothing
  <2>1. DOMAIN nothing = {}
    BY ONLY <1>3
  <2> QED
    BY ONLY <2>1 DEF MapsTo
<1>5. Free(Inside(r, nothing, s)) /\ Sound(Inside(r, nothing, s))
  BY <1>4, InsideIsFree, InsideLeads DEF Leads
<1>6. \A e : Free(Error(r, e))
  BY ErrorBinds DEF Free
<1>7. CASE r.error = "" /\ s.in = "taken"
  BY <1>3, <1>5, <1>7 DEF Execute
<1>8. CASE r.error = "" /\ s.in = "guarded"
  <2>1. PICK q, x : q = Inside(r, nothing, s) /\ x = [q EXCEPT !.error = ""]
    OBVIOUS
  <2>2. x = [env |-> q.env, heap |-> q.heap, input |-> q.input, reads |-> q.reads, acc |-> q.acc, error |-> ""]
    BY <1>5, <2>1, SetError, HeldType
  <2>3. x.env = q.env
    BY <2>2
  <2>4. Free(x)
    BY <1>5, <2>1, <2>3 DEF Free
  <2>5. Execute(r, s, order) = Error(r, "lua_runtime_error") \/ Execute(r, s, order) = x
    BY <1>3, <1>8, <2>1 DEF Execute
  <2> QED
    BY <1>6, <2>4, <2>5
<1>9. CASE r.error = "" /\ s.in = "each"
  <2>1. PICK q : q = Calling(r, <<"pairs">>, s.over)
    OBVIOUS
  <2>2. Sound(q) /\ q.env = r.env
    BY <1>0, <1>9, <2>1, FunctionPaths, CallingBinds
  <2>3. Free(q)
    BY <2>2 DEF Free
  <2>4. Execute(r, s, order) = Loop(q, s, order)
    BY <1>9, <2>1 DEF Execute
  <2> QED
    BY <2>2, <2>3, <2>4, LoopIsFree
<1>10. CASE r.error = "" /\ s.in = "called"
  <2>1. PICK q : q = Path(r, s.over)
    OBVIOUS
  <2>2. Sound(q) /\ q.env = r.env
    BY <1>0, <1>10, <2>1, PathLeads, PathBinds DEF Leads
  <2>3. Free(q)
    BY <2>2 DEF Free
  <2>4. PICK scope : scope = [item |-> q.acc]
    OBVIOUS
  <2>5. MapsTo(scope, Held(q)) /\ "wf" \notin DOMAIN scope
    BY <2>2, <2>4, NamesAssumption DEF MapsTo, Sound
  <2>6. Free(Inside(q, scope, s))
    BY <2>2, <2>3, <2>5, InsideIsFree
  <2>7. Execute(r, s, order) = q \/ Execute(r, s, order) = Inside(q, scope, s)
    BY <1>10, <2>1, <2>4 DEF Execute, Call
  <2> QED
    BY <2>3, <2>6, <2>7
<1> QED
  BY <1>0, <1>1, <1>2, <1>7, <1>8, <1>9, <1>10

\* The policy refuses a local named wf,
LEMMA FoundUnlawful ==
  ASSUME NEW a, IsAnalysis(a), NEW s \in Statement, VisitBlock(a, s).findings = {}
  PROVE  Lawful(s)
<1>1. ASSUME NEW b, IsAnalysis(b), s.do = "local", s.at[1] = "wf"
      PROVE  IsAnalysis(Visit(b, s)) /\ Visit(b, s).findings # {}
  <2>1. PICK found, scopes :
          Visit(b, s) = [scopes |-> scopes, findings |-> found \cup {"lua_reserved_identifier_shadowed"}]
    BY <1>1 DEF Visit
  <2> QED
    BY <2>1 DEF IsAnalysis
<1>2. SUFFICES ASSUME s.do = "local", s.at[1] = "wf" PROVE FALSE
  BY DEF Lawful
<1>3. CASE s.in = "plain"
  BY <1>1, <1>2, <1>3 DEF VisitBlock
<1>4. CASE s.in # "plain"
  <2>1. PICK over, inner : /\ over = IF s.in \in Binding THEN CheckReference(a.scopes, s.over[1]) ELSE {}
                           /\ inner = IF s.in \in Binding THEN [item |-> FALSE] ELSE <<>>
    OBVIOUS
  <2>2. PICK b, w : /\ b = [scopes |-> Append(a.scopes, inner), findings |-> a.findings \cup over]
                    /\ w = Visit(b, s)
    OBVIOUS
  <2>3. VisitBlock(a, s) = [w EXCEPT !.scopes = Front(@)]
    BY <1>4, <2>1, <2>2 DEF VisitBlock
  <2>4. IsAnalysis(b)
    BY <2>2 DEF IsAnalysis
  <2>5. IsAnalysis(w) /\ w.findings # {}
    BY <1>1, <1>2, <2>2, <2>4
  <2>6. VisitBlock(a, s).findings = w.findings
    BY <2>3, <2>5 DEF IsAnalysis
  <2> QED
    BY <2>5, <2>6
<1> QED
  BY <1>3, <1>4

-----------------------------------------------------------------------------
(* Paths of the input. *)

\* ... so a chunk without findings has none.
LEMMA NothingUnlawful ==
  ASSUME NEW chunk \in Seq(Statement), Findings(chunk) = {}
  PROVE  \A n \in 1..Len(chunk) : Lawful(chunk[n])
<1>0. PICK N : N = Len(chunk) /\ N \in Nat
  OBVIOUS
<1> DEFINE A(n) == Analysis(chunk)[n]
<1>1. /\ A(0) = [scopes |-> << <<>> >>, findings |-> {}]
      /\ \A n \in 1..N : A(n) = VisitBlock(A(n - 1), chunk[n])
  BY <1>0, AnalysisUnfolds
<1>2. \A n \in 1..N : chunk[n] \in Statement
  BY <1>0, ElementOfSeq
<1>3. \A n \in 0..N : A(n).findings = {}
  BY <1>0, NothingFoundBefore
<1> HIDE DEF A
<1> DEFINE T == {n \in 0..N : IsAnalysis(A(n))}
<1>4. 0 \in T
  BY <1>0, <1>1 DEF IsAnalysis
<1>5. ASSUME NEW n \in 0..N - 1, n \in T PROVE n + 1 \in T
  <2>1. n + 1 \in 1..N /\ n + 1 \in 0..N /\ (n + 1) - 1 = n
    BY <1>0
  <2>2. A(n + 1) = VisitBlock(A(n), chunk[n + 1])
    BY <1>1, <2>1
  <2>3. IsAnalysis(A(n + 1))
    BY <1>2, <1>5, <2>1, <2>2, FindingsGrow
  <2> QED
    BY <2>1, <2>3
<1> HIDE DEF T
<1>6. 0..N \subseteq T
  BY <1>0, <1>4, <1>5, CountingUp
<1>7. ASSUME NEW n \in 1..N PROVE Lawful(chunk[n])
  <2>1. n - 1 \in 0..N /\ n \in 0..N
    BY <1>0
  <2>2. IsAnalysis(A(n - 1))
    BY <1>6, <2>1 DEF T
  <2>3. VisitBlock(A(n - 1), chunk[n]).findings = {}
    BY <1>1, <1>3, <2>1
  <2> QED
    BY <1>2, <2>2, <2>3, FoundUnlawful
<1> QED
  BY <1>0, <1>7

\* wf is the input at every statement of a chunk without findings.
LEMMA RunIsFree ==
  ASSUME NEW context, Document(context), NEW chunk \in Seq(Statement), NEW order, Len(order) \in Nat,
         Findings(chunk) = {}
  PROVE  \A n \in 0..Len(chunk) : Free(Run(chunk, context, order)[n])
<1> DEFINE R(n) == Run(chunk, context, order)[n]
<1>0. PICK N : N = Len(chunk) /\ N \in Nat
  OBVIOUS
<1>1. /\ R(0) = Started(context)
      /\ \A n \in 1..N : R(n) = Execute(R(n - 1), chunk[n], order)
  BY <1>0, RunUnfolds
<1>2. \A n \in 1..N : chunk[n] \in Statement /\ Lawful(chunk[n])
  BY <1>0, NothingUnlawful, ElementOfSeq
<1>3. \A n \in 0..N : Sound(R(n))
  BY <1>0, RunSound
<1> HIDE DEF R
<1> DEFINE T == {n \in 0..N : Free(R(n))}
<1>4. 0 \in T
  <2>1. PICK r, nothing : r = R(0) /\ nothing = <<>>
    OBVIOUS
  <2>2. r.env = <<nothing>>
    <3>1. r = [env |-> <<nothing>>, heap |-> Library, input |-> RawWf(context), reads |-> {}, acc |-> Nil,
               error |-> ""]
      BY <1>1, <2>1 DEF Started
    <3> QED
      BY <3>1
  <2>3. PICK one : one = <<nothing>>
    OBVIOUS
  <2>4. Len(one) = 1 /\ one[1] = nothing
    BY <2>3
  <2>5. DOMAIN nothing = {}
    BY ONLY <2>1
  <2>6. Free(r)
    BY ONLY <2>2, <2>3, <2>4, <2>5 DEF Free
  <2> QED
    BY <1>0, <2>1, <2>6
<1>5. ASSUME NEW n \in 0..N - 1, n \in T PROVE n + 1 \in T
  <2>1. n + 1 \in 1..N /\ n + 1 \in 0..N /\ n \in 0..N /\ (n + 1) - 1 = n
    BY <1>0
  <2>2. R(n + 1) = Execute(R(n), chunk[n + 1], order)
    BY <1>1, <2>1
  <2>3. Free(R(n + 1))
    BY <1>2, <1>3, <1>5, <2>1, <2>2, ExecuteIsFree
  <2> QED
    BY <2>1, <2>3
<1> HIDE DEF T
<1>6. 0..N \subseteq T
  BY <1>0, <1>4, <1>5, CountingUp
<1> QED
  BY <1>0, <1>6 DEF T, R

\* Only containers hold anything.
Nested(in) ==
  \A p \in DOMAIN in \ {<<>>} : Front(p) \in DOMAIN in /\ in[Front(p)] \in {"object", "array"}

\* The wf of a context as the runner sees it: Document, with the roots it adds.
Tree(in) ==
  /\ DOMAIN in \subseteq Seq(Names) /\ <<>> \in DOMAIN in /\ in[<<>>] = "object"
  /\ Nested(in)
  /\ \A p \in DOMAIN in :
       /\ in[p] # "nil"
       /\ in[p] = "object" => Keys(in, p) \cap Range(Position) = {}
       /\ in[p] = "array" => \E n \in 0..Len(Position) : Keys(in, p) = {Position[i] : i \in 1..n}

\* A path of one key.
LEMMA SingleFront == ASSUME NEW x \in Names PROVE Front(<<x>>) = <<>> /\ Last(<<x>>) = x /\ <<x>> # <<>>
<1>1. <<>> \in Seq(Names) /\ Append(<<>>, x) = <<x>>
  OBVIOUS
<1> QED
  BY <1>1, FrontOfAppend

\* RawWf makes a tree of a context that has a wf.
LEMMA RawIsTree ==
  ASSUME NEW context, Document(context), <<>> \in DOMAIN context
  PROVE  Tree(RawWf(context))
<1>1. PICK in, added : in = RawWf(context) /\ added = {<<"vars">>, <<"initVariables">>}
  OBVIOUS
<1>2. /\ DOMAIN in = DOMAIN context \cup added
      /\ \A p \in DOMAIN context : in[p] = context[p]
      /\ \A p \in added \ DOMAIN context : in[p] = "table"
  BY <1>1 DEF RawWf
<1>3. "vars" \in Names /\ "initVariables" \in Names /\ Roots = {"vars", "initVariables"}
  BY RootsAssumption DEF Roots
<1>4. \A p \in added : Front(p) = <<>> /\ Last(p) \in Roots /\ p # <<>>
  BY <1>1, <1>3, SingleFront
<1>5. added \subseteq Seq(Names)
  BY <1>1, <1>3
<1>6. DOMAIN in \subseteq Seq(Names) /\ <<>> \in DOMAIN in /\ in[<<>>] = "object" /\ context[<<>>] = "object"
  BY <1>2, <1>5 DEF Document
<1>7. ASSUME NEW p \in DOMAIN in \ {<<>>}
      PROVE  Front(p) \in DOMAIN in /\ in[Front(p)] \in {"object", "array"}
  <2>1. CASE p \in DOMAIN context
    <3>1. Front(p) \in DOMAIN context /\ context[Front(p)] \in {"object", "array"}
      BY <1>7, <2>1 DEF Document
    <3> QED
      BY <1>2, <3>1
  <2>2. CASE p \in added
    BY <1>4, <1>6, <2>2
  <2> QED
    BY <1>2, <2>1, <2>2
<1>8. ASSUME NEW p \in DOMAIN in
      PROVE  /\ in[p] # "nil"
             /\ in[p] = "object" => Keys(in, p) \cap Range(Position) = {}
             /\ in[p] = "array" => \E n \in 0..Len(Position) : Keys(in, p) = {Position[i] : i \in 1..n}
  <2>1. CASE p \notin DOMAIN context
    <3>1. in[p] = "table"
      BY <1>2, <2>1
    <3> QED
      BY <3>1
  <2>2. CASE p \in DOMAIN context /\ p # <<>>
    <3>1. Keys(in, p) = Keys(context, p)
      BY <1>2, <1>4, <2>2 DEF Keys
    <3>2. in[p] = context[p]
      BY <1>2, <2>2
    <3>3. /\ context[p] \notin {"table", "nil"}
          /\ context[p] = "object" => Keys(context, p) \cap Range(Position) = {}
          /\ context[p] = "array" => \E n \in 0..Len(Position) : Keys(context, p) = {Position[i] : i \in 1..n}
      BY <2>2 DEF Document
    <3> QED
      BY <3>1, <3>2, <3>3
  <2>3. CASE p = <<>>
    <3>1. Keys(in, p) \subseteq Keys(context, p) \cup Roots
      BY <1>2, <1>4 DEF Keys
    <3>2. Keys(context, p) \cap Range(Position) = {}
      BY <1>6, <2>3 DEF Document
    <3>3. Range(Position) \cap Roots = {}
      BY Positions DEF Range
    <3>4. in[p] = "object"
      BY <1>6, <2>3
    <3> QED
      BY <3>1, <3>2, <3>3, <3>4
  <2> QED
    BY <2>1, <2>2, <2>3
<1> QED
  BY <1>1, <1>6, <1>7, <1>8 DEF Tree, Nested

\* What is behind a path by one key is under that key.
LEMMA ChildKey ==
  ASSUME NEW doc, NEW x \in Seq(Names), NEW k \in Names, Append(x, k) \in DOMAIN doc
  PROVE  k \in Keys(doc, x)
<1>1. Front(Append(x, k)) = x /\ Last(Append(x, k)) = k /\ Append(x, k) # <<>>
  BY FrontOfAppend
<1> QED
  BY <1>1 DEF Keys

\* One key further on a path.
LEMMA Further ==
  ASSUME NEW p \in Seq(Names), NEW q \in Seq(Names), NEW m \in 1..Len(q)
  PROVE  /\ p \o SubSeq(q, 1, m) = Append(p \o SubSeq(q, 1, m - 1), q[m])
         /\ p \o SubSeq(q, 1, m - 1) \in Seq(Names) /\ q[m] \in Names
<1>1. 1 \in 1..Len(q) /\ m - 1 \in Int /\ Len(q) \in Nat /\ m \in Nat
  OBVIOUS
<1>2. SubSeq(q, 1, m) = SubSeq(q, 1, m - 1) \o <<q[m]>>
  BY <1>1, SubSeqRecursiveSecond
<1>3. q[m] \in Names /\ \A i \in 1..(m - 1) : q[i] \in Names
  BY <1>1, ElementOfSeq
<1>4. PICK s : s = SubSeq(q, 1, m - 1)
  OBVIOUS
<1>5. s \in Seq(Names)
  BY <1>1, <1>3, <1>4, SubSeqProperties
<1>6. p \o s \in Seq(Names) /\ <<q[m]>> \in Seq(Names)
  BY <1>3, <1>5, ConcatProperties
<1>7. p \o (s \o <<q[m]>>) = (p \o s) \o <<q[m]>>
  BY <1>5, <1>6, ConcatAssociative
<1>8. Append(p \o s, q[m]) = (p \o s) \o <<q[m]>>
  BY <1>3, <1>6, AppendIsConcat
<1> QED
  BY <1>2, <1>3, <1>4, <1>6, <1>7, <1>8

\* All on the way to what a document holds is in it, and holds something.
LEMMA OnTheWay ==
  ASSUME NEW in, Nested(in), NEW p \in Seq(Names), NEW q \in Seq(Names), p \o q \in DOMAIN in
  PROVE  \A m \in 0..Len(q) : /\ p \o SubSeq(q, 1, m) \in DOMAIN in
                              /\ m # Len(q) => in[p \o SubSeq(q, 1, m)] \in {"object", "array"}
<1> DEFINE x(m) == p \o SubSeq(q, 1, m)
<1>0. PICK N : N = Len(q) /\ N \in Nat
  OBVIOUS
<1>1. x(N) \in DOMAIN in
  BY <1>0, SubSeqFull
<1>2. ASSUME NEW m \in 1..N, x(m) \in DOMAIN in
      PROVE  x(m - 1) \in DOMAIN in /\ in[x(m - 1)] \in {"object", "array"}
  <2>1. /\ x(m) = Append(x(m - 1), q[m]) /\ x(m - 1) \in Seq(Names) /\ q[m] \in Names
    BY <1>0, Further
  <2> HIDE DEF x
  <2>2. Front(x(m)) = x(m - 1) /\ x(m) # <<>>
    BY <2>1, FrontOfAppend
  <2> QED
    BY <1>2, <2>2 DEF Nested
<1> HIDE DEF x
<1> DEFINE T == {m \in 0..N : x(N - m) \in DOMAIN in}
<1>3. 0 \in T
  BY <1>0, <1>1
<1>4. ASSUME NEW m \in 0..N - 1, m \in T PROVE m + 1 \in T
  <2>1. N - m \in 1..N /\ (N - m) - 1 = N - (m + 1) /\ m + 1 \in 0..N
    BY <1>0
  <2>2. x(N - m) \in DOMAIN in
    BY <1>4
  <2>3. x((N - m) - 1) \in DOMAIN in
    BY <1>2, <2>1, <2>2
  <2> QED
    BY <2>1, <2>3
<1> HIDE DEF T
<1>5. 0..N \subseteq T
  BY <1>0, <1>3, <1>4, CountingUp
<1>6. ASSUME NEW m \in 0..N PROVE x(m) \in DOMAIN in /\ (m # N => in[x(m)] \in {"object", "array"})
  <2>1. N - m \in 0..N /\ N - (N - m) = m
    BY <1>0
  <2>2. x(m) \in DOMAIN in
    BY <1>5, <2>1 DEF T
  <2>3. CASE m # N
    <3>1. m + 1 \in 1..N /\ (m + 1) - 1 = m /\ N - (m + 1) \in 0..N /\ N - (N - (m + 1)) = m + 1
      BY <1>0, <2>3
    <3>2. x(m + 1) \in DOMAIN in
      BY <1>5, <3>1 DEF T
    <3>3. in[x((m + 1) - 1)] \in {"object", "array"}
      BY <1>2, <3>1, <3>2
    <3> QED
      BY <2>2, <3>1, <3>3
  <2> QED
    BY <2>2, <2>3
<1> QED
  BY <1>0, <1>6 DEF x

\* A document that holds anything holds wf.
LEMMA Rooted == ASSUME NEW doc, Document(doc), NEW p \in DOMAIN doc PROVE <<>> \in DOMAIN doc
<1>1. Nested(doc) /\ p \in Seq(Names)
  BY DEF Document, Nested
<1>2. PICK root, s, N : root = <<>> /\ s = SubSeq(p, 1, 0) /\ N = Len(p)
  OBVIOUS
<1>3. root \in Seq(Names) /\ root \o p = p /\ s = root /\ root \o root = root
  BY <1>1, <1>2, ConcatEmptySeq, SubSeqEmpty
<1>4. 0 \in 0..N
  BY <1>1, <1>2
<1>5. root \o s \in DOMAIN doc
  BY <1>1, <1>2, <1>3, <1>4, OnTheWay
<1> QED
  BY <1>2, <1>3, <1>5

\* A run that has just evaluated wf.
AtRoot(r) == r.error = "" /\ r.acc = InputValue(r, <<>>)

\* From wf the keys of a path in the input lead, without an error, to what is there.
LEMMA WalkArrives ==
  ASSUME NEW r, Sound(r), Tree(r.input), AtRoot(r),
         NEW path \in Seq(Names), path \in DOMAIN r.input
  PROVE  /\ Walk(r, path)[Len(path)].error = ""
         /\ Walk(r, path)[Len(path)].acc = InputValue(r, path)
<1>0. PICK N : N = Len(path) /\ N \in Nat
  OBVIOUS
<1> DEFINE w(n) == Walk(r, path)[n]
           x(n) == SubSeq(path, 1, n)
<1>1. w(0) = r /\ \A n \in 1..N : w(n) = Index(w(n - 1), path[n])
  BY <1>0, WalkUnfolds
<1>2. \A n \in 0..N : w(n).input = r.input
  BY <1>0, WalkLeads DEF Leads
<1>3. <<>> \in Seq(Names) /\ \A s \in Seq(Names) : <<>> \o s = s
  BY ConcatEmptySeq
<1>4. \A n \in 0..N : x(n) \in Seq(Names)
  <2>1. ASSUME NEW n \in 0..N PROVE x(n) \in Seq(Names)
    <3>1. \A i \in 1..n : path[i] \in Names
      BY <1>0, ElementOfSeq
    <3>2. n \in Int /\ 1 \in Int
      BY <1>0
    <3> QED
      BY <3>1, <3>2, SubSeqProperties
  <2> QED
    BY <2>1
<1>5. \A n \in 0..N : x(n) \in DOMAIN r.input /\ (n # N => r.input[x(n)] \in {"object", "array"})
  <2>1. <<>> \o path = path
    BY <1>0, <1>3
  <2>2. \A n \in 0..N : /\ <<>> \o x(n) \in DOMAIN r.input
                        /\ n # N => r.input[<<>> \o x(n)] \in {"object", "array"}
    BY <1>0, <1>3, <2>1, OnTheWay DEF Tree
  <2> HIDE DEF x
  <2> QED
    BY <1>3, <1>4, <2>2
<1>6. \A n \in 1..N : x(n) = Append(x(n - 1), path[n]) /\ path[n] \in Names
  <2>1. ASSUME NEW n \in 1..N PROVE x(n) = Append(x(n - 1), path[n]) /\ path[n] \in Names
    <3>1. /\ <<>> \o x(n) = Append(<<>> \o x(n - 1), path[n]) /\ path[n] \in Names
      BY <1>0, <1>3, Further
    <3>2. n \in 0..N /\ n - 1 \in 0..N
      BY <1>0
    <3> HIDE DEF x
    <3> QED
      BY <1>3, <1>4, <3>1, <3>2
  <2> QED
    BY <2>1
<1>7. x(0) = <<>> /\ x(N) = path
  BY <1>0, SubSeqEmpty, SubSeqFull
<1> HIDE DEF w, x
<1> DEFINE T == {n \in 0..N : w(n).error = "" /\ w(n).acc = InputValue(r, x(n))}
<1>8. 0 \in T
  <2>1. w(0).error = "" /\ w(0).acc = InputValue(r, x(0))
    BY <1>1, <1>7, Zenon DEF AtRoot
  <2>2. 0 \in 0..N
    BY <1>0
  <2> QED
    BY <2>1, <2>2, Zenon
<1>9. ASSUME NEW n \in 0..N - 1, n \in T PROVE n + 1 \in T
  <2>1. n \in 0..N /\ n # N /\ n + 1 \in 1..N /\ n + 1 \in 0..N /\ (n + 1) - 1 = n
    BY <1>0
  <2>2. PICK q, p, k : q = w(n) /\ p = x(n) /\ k = path[n + 1]
    OBVIOUS
  <2>3. q.error = "" /\ q.input = r.input /\ q.acc = InputValue(r, p) /\ p \in Seq(Names)
    BY <1>2, <1>4, <1>9, <2>1, <2>2
  <2>4. q.acc = [input |-> p]
    BY <1>5, <2>1, <2>2, <2>3 DEF InputValue
  <2>5. IsIn(q.acc) /\ ~Own(q.acc) /\ Table(q.acc) /\ q.acc.input = p
    <3>1. DOMAIN q.acc = {"input"} /\ q.acc.input = p
      BY ONLY <2>4
    <3> QED
      BY <3>1 DEF IsIn, Own, Table
  <2>6. x(n + 1) = Append(p, k) /\ k \in Names /\ x(n + 1) \in DOMAIN r.input
    BY <1>5, <1>6, <2>1, <2>2
  <2>7. k \in Keys(r.input, p)
    BY <2>3, <2>6, ChildKey
  <2>8. Content(q, q.acc) = [y \in Keys(r.input, p) |-> InputValue(q, Append(p, y))]
    BY <2>3, <2>5 DEF Content
  <2>9. k \in DOMAIN Content(q, q.acc) /\ Content(q, q.acc)[k] = InputValue(r, Append(p, k))
    BY <2>3, <2>7, <2>8 DEF InputValue
  <2>10. PICK v, more : /\ v = InputValue(r, Append(p, k))
                        /\ more = q.reads \cup IF IsIn(q.acc) THEN Noted(q.acc.input, k) ELSE {}
    OBVIOUS
  <2>11. Index(q, k) = [q EXCEPT !.acc = v, !.reads = more]
    BY <2>3, <2>5, <2>9, <2>10 DEF Index
  <2>12. IsRecord(q)
    <3>1. Sound(q)
      BY <1>0, <2>1, <2>2, WalkLeads DEF Leads, w
    <3> QED
      BY <3>1, HeldType
  <2>13. PICK z : z = Index(q, k)
    OBVIOUS
  <2>14. z = [env |-> q.env, heap |-> q.heap, input |-> q.input, reads |-> more, acc |-> v, error |-> q.error]
    BY <2>11, <2>12, <2>13, SetAccReads
  <2>15. z.error = "" /\ z.acc = v
    BY <2>3, <2>14
  <2>16. w(n + 1) = z
    BY <1>1, <2>1, <2>2, <2>13
  <2> QED
    BY <2>1, <2>6, <2>10, <2>15, <2>16
<1> HIDE DEF T
<1>10. 0..N \subseteq T
  BY <1>0, <1>8, <1>9, CountingUp
<1>11. N \in T
  BY <1>0, <1>10
<1> QED
  BY <1>0, <1>7, <1>11 DEF T, w

\* So does a path over wf that no local hides.
LEMMA PathArrives ==
  ASSUME NEW r, Sound(r), Free(r), Tree(r.input), r.error = "", NEW path \in Seq(Names), path # <<>>,
         path[1] = "wf", Tail(path) \in DOMAIN r.input
  PROVE  Path(r, path).error = "" /\ Path(r, path).acc = InputValue(r, Tail(path))
<1>1. PICK q, v : q = [r EXCEPT !.acc = v] /\ v = Named(r, path[1])
  OBVIOUS
<1>2. q = [env |-> r.env, heap |-> r.heap, input |-> r.input, reads |-> r.reads, acc |-> v, error |-> r.error]
  BY <1>1, SetAcc, HeldType
<1>3. v = [input |-> <<>>]
  <2>1. PICK o : o = Owner(r.env, "wf")
    OBVIOUS
  <2>2. o \in 0..Len(r.env) /\ (o # 0 => "wf" \in DOMAIN r.env[o]) /\ Len(r.env) \in Nat
    BY <2>1, HeldType, OwnerIs
  <2>3. o = 0
    <3>1. PICK n : n = Len(r.env) /\ n \in Nat
      BY <2>2
    <3>2. \A i \in 1..n : "wf" \notin DOMAIN r.env[i]
      BY <3>1 DEF Free
    <3>3. o \in 0..n /\ (o # 0 => "wf" \in DOMAIN r.env[o])
      BY <2>2, <3>1
    <3> QED
      BY ONLY <3>1, <3>2, <3>3
  <2> QED
    BY <1>1, <2>1, <2>3 DEF Named, Global
<1>4. Sound(q)
  BY <1>1, NamedHeld, AccSet DEF Leads
<1>5. q.input = r.input /\ AtRoot(q)
  <2>1. q.error = "" /\ q.input = r.input /\ q.acc = v
    BY <1>2
  <2>2. v = InputValue(q, <<>>)
    BY <1>3, <2>1 DEF InputValue, Tree
  <2> QED
    BY <2>1, <2>2 DEF AtRoot
<1>6. Len(Tail(path)) = Len(path) - 1
  <2>1. Len(path) \in Nat \ {0}
    BY EmptySeq
  <2> QED
    BY <2>1, HeadTailProperties
<1>7. Path(r, path) = Walk(q, Tail(path))[Len(Tail(path))]
  BY <1>1, <1>6 DEF Path
<1>8. Path(r, path).error = "" /\ Path(r, path).acc = InputValue(q, Tail(path))
  <2>1. Tail(path) \in Seq(Names) /\ Tail(path) \in DOMAIN q.input /\ Tree(q.input)
    BY <1>5 DEF Tree
  <2> QED
    BY <1>4, <1>5, <1>7, <2>1, WalkArrives
<1> QED
  BY <1>5, <1>8 DEF InputValue

\* What there is below a path,
Below(in, p) == {q \in Seq(Names) : p \o q \in DOMAIN in}

\* ... and what there is, as the runner writes it.
Written(in, p) == [q \in Below(in, p) |-> IF in[p \o q] = "table" THEN "object" ELSE in[p \o q]]

\* The first n positions are n.
LEMMA PositionsCounted ==
  ASSUME NEW n \in 0..Len(Position)
  PROVE  Cardinality({Position[i] : i \in 1..n}) = n
<1>0. n \in Nat /\ 1..n \subseteq DOMAIN Position
  BY Positions
<1> DEFINE S == {Position[i] : i \in 1..n}
           f == [i \in 1..n |-> Position[i]]
<1>1. f \in Bijection(1..n, S)
  <2>1. f \in Injection(1..n, S)
    BY <1>0, Distinct DEF Injection, IsInjective
  <2>2. f \in Surjection(1..n, S)
    BY DEF Surjection
  <2> QED
    BY <2>1, <2>2 DEF Bijection
<1>2. ExistsBijection(1..n, S)
  BY <1>1 DEF ExistsBijection
<1> QED
  BY <1>0, <1>2, FS_CountingElements

\* The runner takes a part of the input for an array just when it is one.
LEMMA ArraysAreArrays ==
  ASSUME NEW r, Tree(r.input), NEW p \in DOMAIN r.input, r.input[p] \in {"object", "array", "table"},
         NEW t, t = [input |-> p]
  PROVE  IsArray(r, t) <=> r.input[p] = "array"
<1>1. ~Own(t) /\ t.input = p
  BY DEF Own
<1>2. PICK keys : keys = Keys(r.input, p)
  OBVIOUS
<1>3. Mark(r, t) = r.input[p] /\ DOMAIN Content(r, t) = keys
  BY <1>1, <1>2 DEF Mark, Content
<1>4. IsArray(r, t) <=> /\ r.input[p] # "object"
                        /\ IF keys = {} THEN r.input[p] = "array"
                           ELSE keys = {Position[i] : i \in 1..Cardinality(keys)}
  BY <1>3 DEF IsArray
<1>5. CASE r.input[p] = "array"
  <2>1. PICK n \in 0..Len(Position) : keys = {Position[i] : i \in 1..n}
    BY <1>2, <1>5 DEF Tree
  <2>2. Cardinality(keys) = n
    BY <2>1, PositionsCounted
  <2> QED
    BY <1>4, <1>5, <2>1, <2>2
<1>6. CASE r.input[p] = "table"
  <2>1. keys = {}
    <3>1. \A q \in DOMAIN r.input : q # <<>> => r.input[Front(q)] \in {"object", "array"}
      BY DEF Tree, Nested
    <3> QED
      BY <1>2, <1>6, <3>1 DEF Keys
  <2> QED
    BY <1>4, <1>6, <2>1
<1>7. CASE r.input[p] = "object"
  BY <1>4, <1>7
<1> QED
  BY <1>5, <1>6, <1>7

\* x is what the document in holds at a, if it is anything.
Back(x, in, a) == x.error = "" => x.doc = Written(in, a)

\* A part of the input that is a table in Lua.
IsTable(in, a) == in[a] \in {"object", "array", "table"}

\* A path behind the empty one,
LEMMA BehindEmpty == ASSUME NEW a \in Seq(Names) PROVE a \o <<>> = a /\ <<>> \in Seq(Names)
BY ConcatEmptySeq

\* ... behind one key,
LEMMA Behind ==
  ASSUME NEW a \in Seq(Names), NEW k \in Names, NEW q \in Seq(Names)
  PROVE  a \o (<<k>> \o q) = Append(a, k) \o q /\ <<k>> \o q \in Seq(Names) /\ Append(a, k) \in Seq(Names)
<1>1. <<k>> \in Seq(Names)
  OBVIOUS
<1>2. a \o (<<k>> \o q) = (a \o <<k>>) \o q
  BY <1>1, ConcatAssociative
<1>3. Append(a, k) = a \o <<k>> /\ Append(a, k) \in Seq(Names)
  BY AppendIsConcat, AppendProperties
<1>4. <<k>> \o q \in Seq(Names)
  BY <1>1, ConcatProperties
<1> QED
  BY <1>2, <1>3, <1>4

\* ... and taken apart behind its first key.
LEMMA Begins ==
  ASSUME NEW q \in Seq(Names), q # <<>>
  PROVE  Head(q) \in Names /\ Tail(q) \in Seq(Names) /\ q = <<Head(q)>> \o Tail(q)
<1>1. Head(q) \in Names /\ Tail(q) \in Seq(Names) /\ Len(q) \in Nat \ {0} /\ Len(Tail(q)) = Len(q) - 1
      /\ q[1] = Head(q) /\ \A i \in 1..Len(Tail(q)) : Tail(q)[i] = q[i + 1]
  BY HeadTailProperties, EmptySeq
<1>2. PICK k, s, h : k = Head(q) /\ s = Tail(q) /\ h = <<k>>
  OBVIOUS
<1>3. h \in Seq(Names) /\ Len(h) = 1 /\ h[1] = k
  BY <1>1, <1>2
<1>4. PICK p : p = h \o s
  OBVIOUS
<1>5. p \in Seq(Names) /\ Len(p) = 1 + Len(s) /\ \A i \in 1..(1 + Len(s)) : p[i] = IF i <= 1 THEN h[i] ELSE s[i - 1]
  BY <1>1, <1>2, <1>3, <1>4, ConcatProperties
<1>6. Len(p) = Len(q) /\ Len(s) = Len(q) - 1 /\ Len(q) \in Nat \ {0} /\ Len(s) \in Nat
  BY <1>1, <1>2, <1>5
<1>7. ASSUME NEW i \in 1..Len(q) PROVE p[i] = q[i]
  <2>1. CASE i = 1
    BY <1>1, <1>2, <1>3, <1>5, <1>6, <2>1
  <2>2. CASE i # 1
    <3>1. i - 1 \in 1..Len(s) /\ ~(i <= 1) /\ (i - 1) + 1 = i /\ i \in 1..(1 + Len(s))
      BY <1>6, <2>2
    <3>2. s[i - 1] = q[(i - 1) + 1]
      BY <1>1, <1>2, <3>1
    <3> QED
      BY <1>5, <3>1, <3>2
  <2> QED
    BY <2>1, <2>2
<1>8. p = q
  BY <1>5, <1>6, <1>7, SeqEqual
<1> QED
  BY <1>1, <1>2, <1>4, <1>8

\* What is above a part of a document is in it.
LEMMA Above ==
  ASSUME NEW in, Tree(in), NEW a \in Seq(Names), NEW q \in Seq(Names), a \o q \in DOMAIN in
  PROVE  a \in DOMAIN in /\ (q # <<>> => in[a] \in {"object", "array"})
<1>1. PICK s, N : s = SubSeq(q, 1, 0) /\ N = Len(q)
  OBVIOUS
<1>2. N \in Nat /\ (q # <<>> => N # 0) /\ 0 \in 0..N
  BY <1>1, EmptySeq
<1>3. s = <<>>
  BY <1>1, SubSeqEmpty
<1>4. a \o s = a
  BY <1>3, BehindEmpty
<1>5. a \o s \in DOMAIN in /\ (0 # N => in[a \o s] \in {"object", "array"})
  BY <1>1, <1>2, OnTheWay DEF Tree
<1> QED
  BY <1>2, <1>4, <1>5

\* The keys of a part of the input are names, and lead to what is in it.
LEMMA KeysAreNames ==
  ASSUME NEW in, Tree(in), NEW a \in DOMAIN in
  PROVE  \A k \in Keys(in, a) : k \in Names /\ Append(a, k) \in DOMAIN in
<1>1. DOMAIN in \subseteq Seq(Names)
  BY DEF Tree
<1> QED
  BY <1>1, Child

\* Below a table are its keys and what is below them.
Splits(in, a, q) ==
  q \in Below(in, a) <=>
    q = <<>> \/ \E k \in Keys(in, a) : \E s \in Below(in, Append(a, k)) : q = <<k>> \o s

\* Below a part of the input are its keys and what is below them.
LEMMA BelowIs == ASSUME NEW in, Tree(in), NEW a \in DOMAIN in, NEW q PROVE Splits(in, a, q)
<1>0. a \in Seq(Names)
  BY DEF Tree
<1>1. ASSUME q \in Below(in, a), q # <<>>
      PROVE  \E k \in Keys(in, a) : \E s \in Below(in, Append(a, k)) : q = <<k>> \o s
  <2>1. q \in Seq(Names) /\ a \o q \in DOMAIN in
    BY <1>1 DEF Below
  <2>2. PICK k, s : k = Head(q) /\ s = Tail(q)
    OBVIOUS
  <2>3. k \in Names /\ s \in Seq(Names) /\ q = <<k>> \o s
    BY <1>1, <2>1, <2>2, Begins
  <2>4. a \o q = Append(a, k) \o s /\ Append(a, k) \in Seq(Names)
    BY <1>0, <2>3, Behind
  <2>5. Append(a, k) \in DOMAIN in
    BY <2>1, <2>3, <2>4, Above
  <2>6. k \in Keys(in, a)
    BY <1>0, <2>3, <2>5, ChildKey
  <2>7. s \in Below(in, Append(a, k))
    BY <2>1, <2>3, <2>4 DEF Below
  <2> QED
    BY <2>3, <2>6, <2>7
<1>2. ASSUME NEW k \in Keys(in, a), NEW s \in Below(in, Append(a, k)), q = <<k>> \o s
      PROVE  q \in Below(in, a)
  <2>1. k \in Names /\ s \in Seq(Names) /\ Append(a, k) \o s \in DOMAIN in
    BY KeysAreNames DEF Below
  <2>2. a \o q = Append(a, k) \o s /\ q \in Seq(Names)
    BY <1>0, <1>2, <2>1, Behind
  <2> QED
    BY <2>1, <2>2 DEF Below
<1>3. ASSUME q = <<>> PROVE q \in Below(in, a)
  <2>1. a \o q = a /\ q \in Seq(Names)
    BY <1>0, <1>3, BehindEmpty
  <2> QED
    BY <2>1 DEF Below
<1> QED
  BY <1>1, <1>2, <1>3 DEF Splits

-----------------------------------------------------------------------------
(* The way of the input through a chunk. *)

\* An item comes back if the document of the table it is does.
LEMMA PartBack ==
  ASSUME NEW r, Tree(r.input), NEW a \in DOMAIN r.input, NEW active, NEW n, NEW deeper,
         NEW v, v = InputValue(r, a),
         n # 0 /\ Table(v) => Back(deeper[<<v, active>>], r.input, a)
  PROVE  Back(Part(v, active, n, deeper), r.input, a)
<1>1. \A e : Refused(e).error = e
  BY DEF Refused
<1>2. CASE n = 0
  BY <1>1, <1>2 DEF Part, Back
<1>3. CASE n # 0 /\ Table(v) /\ v \in active
  BY <1>1, <1>3 DEF Part, Back
<1>4. CASE n # 0 /\ Table(v) /\ v \notin active
  BY <1>4 DEF Part
<1>5. CASE n # 0 /\ ~Table(v) /\ v.val \notin Functions
  <2>1. PICK x : x = r.input[a]
    OBVIOUS
  <2>2. ~IsTable(r.input, a)
    <3>1. SUFFICES ASSUME IsTable(r.input, a) PROVE FALSE
      OBVIOUS
    <3>2. v = [input |-> a]
      BY <3>1 DEF InputValue, IsTable
    <3>3. DOMAIN v = {"input"}
      BY ONLY <3>2
    <3> QED
      BY <1>5, <3>3 DEF Table, IsIn
  <2>3. v = [val |-> x]
    BY <2>1, <2>2 DEF InputValue, IsTable
  <2>4. v.val = x
    BY ONLY <2>3
  <2>5. x # "nil" /\ x \notin {"object", "array", "table"}
    BY <2>1, <2>2 DEF Tree, IsTable
  <2>6. v # Nil
    BY <2>4, <2>5 DEF Nil
  <2>7. PICK w : w = Leaf(v) /\ w = Part(v, active, n, deeper)
    BY <1>5 DEF Part
  <2>8. PICK root : root = {<<>>}
    OBVIOUS
  <2>9. w.doc = [q \in root |-> x]
    <3>1. PICK f, none : f = [q \in root |-> IF v = Nil THEN "null" ELSE v.val] /\ none = {}
      OBVIOUS
    <3>2. w = [doc |-> f, reads |-> none, error |-> ""]
      BY ONLY <1>5, <2>7, <2>8, <3>1 DEF Leaf
    <3>3. w.doc = f
      BY ONLY <3>2
    <3> QED
      BY ONLY <2>4, <2>6, <3>1, <3>3
  <2>10. \A q \in Seq(Names) : a \o q \in DOMAIN r.input => q \in root
    <3>1. a \in Seq(Names)
      BY DEF Tree
    <3>2. SUFFICES ASSUME NEW q \in Seq(Names), a \o q \in DOMAIN r.input, q # <<>> PROVE FALSE
      BY <2>8
    <3>3. r.input[a] \in {"object", "array"}
      BY <3>1, <3>2, Above
    <3> QED
      BY <2>1, <2>5, <3>3
  <2>11. \A q \in root : q \in Seq(Names) /\ a \o q = a
    <3>1. a \in Seq(Names)
      BY DEF Tree
    <3> QED
      BY <2>8, <3>1, BehindEmpty
  <2>12. Below(r.input, a) = root
    BY <2>10, <2>11 DEF Below
  <2>13. Written(r.input, a) = [q \in root |-> x]
    <3>1. \A q \in root : (IF r.input[a \o q] = "table" THEN "object" ELSE r.input[a \o q]) = x
      BY <2>1, <2>5, <2>11
    <3> QED
      BY <2>12, <3>1 DEF Written
  <2> QED
    BY <2>7, <2>9, <2>13 DEF Back
<1>6. CASE n # 0 /\ ~Table(v) /\ v.val \in Functions
  <2>1. Part(v, active, n, deeper) = Refused("unsupported_json_result_type")
    BY <1>6 DEF Part, Leaf
  <2>2. PICK x : x = Part(v, active, n, deeper) /\ x.error = "unsupported_json_result_type"
    BY <1>1, <2>1
  <2> QED
    BY ONLY <2>2 DEF Back
<1> QED
  BY <1>2, <1>3, <1>4, <1>5, <1>6

\* A document without an error has none in its items.
LEMMA JoinedRight ==
  ASSUME NEW r, NEW t, NEW parts, Joined(r, t, parts).error = ""
  PROVE  \A k \in DOMAIN parts : parts[k].error = ""
<1>1. PICK x, wrong, mixed : /\ x = Joined(r, t, parts)
                             /\ wrong = {parts[k].error : k \in DOMAIN parts} \ {""}
                             /\ mixed = (~IsArray(r, t) /\ DOMAIN parts \cap Range(Position) # {})
  OBVIOUS
<1>2. x.error = IF mixed THEN "mixed_keys" ELSE IF wrong = {} THEN "" ELSE CHOOSE e \in wrong : TRUE
  BY <1>1 DEF Joined
<1>3. ~mixed
  BY <1>1, <1>2
<1>4. wrong = {}
  <2>1. SUFFICES ASSUME wrong # {} PROVE FALSE
    OBVIOUS
  <2>2. (CHOOSE e \in wrong : TRUE) \in wrong
    BY <2>1
  <2> QED
    BY <1>1, <1>2, <1>3, <2>1, <2>2
<1> QED
  BY <1>1, <1>4

\* A document is a function.
LEMMA JoinedDoc ==
  ASSUME NEW r, NEW t, NEW parts, NEW doc, doc = Joined(r, t, parts).doc
  PROVE  doc = [p \in DOMAIN doc |-> doc[p]]
<1> DEFINE D == {<<>>} \cup UNION {{<<k>> \o q : q \in DOMAIN parts[k].doc} : k \in DOMAIN parts}
           f == [p \in D |-> IF p # <<>> THEN parts[p[1]].doc[Tail(p)]
                             ELSE IF IsArray(r, t) THEN "array" ELSE "object"]
<1>1. Joined(r, t, parts).doc = f
  BY DEF Joined
<1>2. f = [p \in DOMAIN f |-> f[p]]
  OBVIOUS
<1> HIDE DEF f
<1> QED
  BY <1>1, <1>2

\* If the items of a part of the input come back, it does.
LEMMA JoinedBack ==
  ASSUME NEW r, Tree(r.input), NEW a \in DOMAIN r.input, IsTable(r.input, a),
         NEW t, t = [input |-> a], NEW parts, DOMAIN parts = Keys(r.input, a),
         \A k \in DOMAIN parts : Back(parts[k], r.input, Append(a, k))
  PROVE  Back(Joined(r, t, parts), r.input, a)
<1>1. PICK x, in : x = Joined(r, t, parts) /\ in = r.input
  OBVIOUS
<1>2. SUFFICES ASSUME x.error = "" PROVE x.doc = Written(in, a)
  BY <1>1 DEF Back
<1>3. \A k \in DOMAIN parts : parts[k].doc = Written(in, Append(a, k)) /\ k \in Names
  <2>1. \A k \in DOMAIN parts : parts[k].error = ""
    BY <1>1, <1>2, JoinedRight
  <2> QED
    BY <1>1, <2>1, KeysAreNames DEF Back
<1>4. \A k \in DOMAIN parts : DOMAIN parts[k].doc = Below(in, Append(a, k))
  BY <1>3 DEF Written
<1>5. /\ <<>> \in DOMAIN x.doc
      /\ x.doc[<<>>] = IF IsArray(r, t) THEN "array" ELSE "object"
      /\ \A k \in DOMAIN parts : \A q \in DOMAIN parts[k].doc :
           <<k>> \o q \in DOMAIN x.doc /\ x.doc[<<k>> \o q] = parts[k].doc[q]
      /\ \A p \in DOMAIN x.doc :
           p = <<>> \/ \E k \in DOMAIN parts : \E q \in DOMAIN parts[k].doc : p = <<k>> \o q
  <2>1. DOMAIN parts \subseteq Names /\ \A k \in DOMAIN parts : DOMAIN parts[k].doc \subseteq Seq(Names)
    BY <1>3, <1>4 DEF Below
  <2>2. Joins(x, r, t, parts)
    BY <1>1, <2>1, JoinedIs
  <2> QED
    BY ONLY <2>2 DEF Joins
<1>0. Tree(in) /\ a \in DOMAIN in /\ DOMAIN parts = Keys(in, a)
  BY <1>1
<1>a. \A q : q \in Below(in, a) <=>
             q = <<>> \/ \E k \in DOMAIN parts : \E s \in Below(in, Append(a, k)) : q = <<k>> \o s
  <2> SUFFICES ASSUME NEW q
               PROVE  q \in Below(in, a) <=>
                        q = <<>> \/ \E k \in DOMAIN parts : \E s \in Below(in, Append(a, k)) : q = <<k>> \o s
    OBVIOUS
  <2>1. Splits(in, a, q)
    BY <1>0, BelowIs
  <2> QED
    BY ONLY <1>0, <2>1 DEF Splits
<1>6. ASSUME NEW q PROVE q \in DOMAIN x.doc <=> q \in Below(in, a)
  <2>1. ASSUME q \in DOMAIN x.doc, q # <<>> PROVE q \in Below(in, a)
    <3>1. PICK k \in DOMAIN parts : \E s \in DOMAIN parts[k].doc : q = <<k>> \o s
      BY ONLY <1>5, <2>1
    <3>2. PICK s \in DOMAIN parts[k].doc : q = <<k>> \o s
      BY <3>1
    <3> QED
      BY ONLY <1>4, <1>a, <3>1, <3>2
  <2>2. ASSUME q \in Below(in, a), q # <<>> PROVE q \in DOMAIN x.doc
    <3>1. PICK k \in DOMAIN parts : \E s \in Below(in, Append(a, k)) : q = <<k>> \o s
      BY ONLY <1>a, <2>2
    <3>2. PICK s \in Below(in, Append(a, k)) : q = <<k>> \o s
      BY <3>1
    <3> QED
      BY ONLY <1>4, <1>5, <3>1, <3>2
  <2> QED
    BY ONLY <1>5, <1>a, <2>1, <2>2
<1>7. DOMAIN x.doc = Below(in, a)
  BY <1>6
<1>8. ASSUME NEW q \in Below(in, a) PROVE x.doc[q] = Written(in, a)[q]
  <2>1. Written(in, a)[q] = IF in[a \o q] = "table" THEN "object" ELSE in[a \o q]
    BY DEF Written
  <2>2. CASE q = <<>>
    <3>1. a \o q = a
      BY <2>2, BehindEmpty DEF Tree
    <3>2. IsArray(r, t) <=> in[a] = "array"
      BY <1>1, ArraysAreArrays DEF IsTable
    <3> QED
      BY <1>1, <1>5, <2>1, <2>2, <3>1, <3>2 DEF IsTable
  <2>3. CASE q # <<>>
    <3>0. PICK k \in DOMAIN parts : \E s \in Below(in, Append(a, k)) : q = <<k>> \o s
      BY ONLY <1>a, <2>3
    <3>1. PICK s \in Below(in, Append(a, k)) : q = <<k>> \o s
      BY <3>0
    <3>2. a \o q = Append(a, k) \o s
      <4>1. a \in Seq(Names) /\ k \in Names /\ s \in Seq(Names)
        BY <1>3 DEF Tree, Below
      <4> QED
        BY <3>1, <4>1, Behind
    <3>3. x.doc[q] = Written(in, Append(a, k))[s]
      BY <1>3, <1>4, <1>5, <3>1
    <3>4. Written(in, Append(a, k))[s] = IF in[Append(a, k) \o s] = "table" THEN "object" ELSE in[Append(a, k) \o s]
      BY DEF Written
    <3> QED
      BY <2>1, <3>2, <3>3, <3>4
  <2> QED
    BY <2>2, <2>3
<1>9. PICK doc : doc = x.doc
  OBVIOUS
<1>10. doc = [q \in DOMAIN doc |-> doc[q]]
  BY <1>1, <1>9, JoinedDoc
<1> QED
  BY ONLY <1>7, <1>8, <1>9, <1>10 DEF Written

\* A value of the input is a table just where the input is one.
LEMMA InputTable ==
  ASSUME NEW r, NEW b, Table(InputValue(r, b))
  PROVE  IsTable(r.input, b) /\ InputValue(r, b) = [input |-> b]
<1>1. CASE IsTable(r.input, b)
  BY <1>1 DEF IsTable, InputValue
<1>2. CASE ~IsTable(r.input, b)
  <2>1. PICK v : v = [val |-> r.input[b]]
    OBVIOUS
  <2>2. DOMAIN v = {"val"}
    BY ONLY <2>1
  <2>3. InputValue(r, b) = v
    BY <1>2, <2>1 DEF IsTable, InputValue
  <2> QED
    BY <2>2, <2>3 DEF Table, Own, IsIn
<1> QED
  BY <1>1, <1>2

\* So every table of the input comes back, on every level deep enough for it,
LEMMA JsonBack ==
  ASSUME NEW r, Tree(r.input)
  PROVE  \A n \in 0..MaxDepth : \A a \in DOMAIN r.input, active \in SUBSET Tables(r) : \A t :
           IsTable(r.input, a) /\ t = [input |-> a] => Back(Json(r)[n][<<t, active>>], r.input, a)
<1> DEFINE Right(n) == \A a \in DOMAIN r.input, active \in SUBSET Tables(r) : \A t :
             IsTable(r.input, a) /\ t = [input |-> a] => Back(Json(r)[n][<<t, active>>], r.input, a)
           U == {n \in 0..MaxDepth : Right(n)}
<1>0. MaxDepth \in Nat
  BY CandidateAssumption
<1>1. ASSUME NEW n \in 0..MaxDepth, NEW deeper, Json(r)[n] = Level(r, n, deeper),
             n # 0 => deeper = Json(r)[n - 1] /\ Right(n - 1)
      PROVE  Right(n)
  <2> SUFFICES ASSUME NEW a \in DOMAIN r.input, NEW active \in SUBSET Tables(r), NEW t,
                      IsTable(r.input, a), t = [input |-> a]
               PROVE  Back(Json(r)[n][<<t, active>>], r.input, a)
    BY DEF Right
  <2>0. t \in Tables(r)
    BY DEF Tables
  <2>1. PICK parts : parts = [k \in DOMAIN Content(r, t) |->
                               Part(Content(r, t)[k], active \cup {t}, n, deeper)]
    OBVIOUS
  <2>2. Json(r)[n][<<t, active>>] = Joined(r, t, parts)
    <3>1. Level(r, n, deeper)[<<t, active>>] = Joined(r, t, parts)
      BY ONLY <2>0, <2>1, active \in SUBSET Tables(r), LevelIs
    <3> QED
      BY <1>1, <3>1
  <2>3. Content(r, t) = [k \in Keys(r.input, a) |-> InputValue(r, Append(a, k))]
    <3>1. ~Own(t) /\ t.input = a
      BY DEF Own
    <3> QED
      BY <3>1 DEF Content
  <2>4. DOMAIN parts = Keys(r.input, a)
    BY <2>1, <2>3
  <2>5. ASSUME NEW k \in DOMAIN parts
        PROVE  Back(parts[k], r.input, Append(a, k))
    <3>1. PICK b, v, now : b = Append(a, k) /\ v = InputValue(r, b) /\ now = active \cup {t}
      OBVIOUS
    <3>2. b \in DOMAIN r.input
      BY <2>4, <3>1, KeysAreNames
    <3>3. parts[k] = Part(v, now, n, deeper)
      BY <2>1, <2>3, <2>4, <3>1
    <3>4. ASSUME n # 0, Table(v) PROVE Back(deeper[<<v, now>>], r.input, b)
      <4>1. IsTable(r.input, b) /\ v = [input |-> b]
        BY <3>1, <3>4, InputTable
      <4>2. now \in SUBSET Tables(r)
        BY <2>0, <3>1
      <4> QED
        BY <1>1, <3>2, <3>4, <4>1, <4>2
    <3>5. Back(Part(v, now, n, deeper), r.input, b)
      BY <3>1, <3>2, <3>4, PartBack
    <3> QED
      BY <3>1, <3>3, <3>5
  <2>6. Back(Joined(r, t, parts), r.input, a)
    BY <2>4, <2>5, JoinedBack
  <2> QED
    BY <2>2, <2>6
<1> HIDE DEF Right
<1>2. 0 \in U
  <2>1. Json(r)[0] = Level(r, 0, <<>>)
    BY JsonUnfolds
  <2> QED
    BY <1>0, <1>1, <2>1
<1>3. ASSUME NEW n \in 0..MaxDepth - 1, n \in U PROVE n + 1 \in U
  <2>1. n + 1 \in 1..MaxDepth /\ (n + 1) - 1 = n /\ n + 1 \in 0..MaxDepth
    BY <1>0
  <2>2. Json(r)[n + 1] = Level(r, n + 1, Json(r)[n])
    BY <2>1, JsonUnfolds
  <2> QED
    BY <1>1, <1>3, <2>1, <2>2
<1> HIDE DEF U
<1>4. 0..MaxDepth \subseteq U
  BY <1>0, <1>2, <1>3, CountingUp
<1> QED
  BY <1>4 DEF U, Right

\* ... and every value of the input.
LEMMA ToJsonBack ==
  ASSUME NEW r, Tree(r.input), NEW a \in DOMAIN r.input
  PROVE  Back(ToJson(r, InputValue(r, a)), r.input, a)
<1>1. PICK v, none : v = InputValue(r, a) /\ none = {}
  OBVIOUS
<1>2. CASE Table(v)
  <2>1. IsTable(r.input, a) /\ v = [input |-> a]
    BY <1>1, <1>2, InputTable
  <2>2. MaxDepth \in 0..MaxDepth /\ none \in SUBSET Tables(r)
    BY <1>1, CandidateAssumption
  <2>3. ToJson(r, v) = Json(r)[MaxDepth][<<v, none>>]
    BY <1>1, <1>2 DEF ToJson
  <2> QED
    BY <1>1, <2>1, <2>2, <2>3, JsonBack
<1>3. CASE ~Table(v)
  <2>1. Back(Part(v, none, 1, none), r.input, a)
    BY <1>1, <1>3, PartBack
  <2>2. Part(v, none, 1, none) = Leaf(v) /\ ToJson(r, v) = Leaf(v)
    BY <1>3 DEF Part, ToJson
  <2> QED
    BY <1>1, <2>1, <2>2
<1> QED
  BY <1>2, <1>3

\* An empty table taken for an array becomes the empty array,
LEMMA BareTable ==
  ASSUME NEW r, NEW t \in Tables(r), Content(r, t) = [k \in {} |-> 0], IsArray(r, t),
         NEW active \in SUBSET Tables(r), NEW x, x = Json(r)[MaxDepth][<<t, active>>]
  PROVE  x.doc = [p \in {<<>>} |-> "array"]
<1>1. PICK deeper : Json(r)[MaxDepth] = Level(r, MaxDepth, deeper)
  <2>1. MaxDepth \in 1..MaxDepth \/ MaxDepth = 0
    BY CandidateAssumption
  <2> QED
    BY <2>1, JsonUnfolds
<1>2. PICK parts : parts = [k \in DOMAIN Content(r, t) |->
                              Part(Content(r, t)[k], active \cup {t}, MaxDepth, deeper)]
  OBVIOUS
<1>3. x = Joined(r, t, parts) /\ DOMAIN parts = {}
  <2>1. DOMAIN Content(r, t) = {}
    OBVIOUS
  <2>2. DOMAIN parts = {}
    BY <1>2, <2>1
  <2>3. Level(r, MaxDepth, deeper)[<<t, active>>] = Joined(r, t, parts)
    BY ONLY <1>2, t \in Tables(r), active \in SUBSET Tables(r), LevelIs
  <2> QED
    BY ONLY <1>1, <2>2, <2>3, x = Json(r)[MaxDepth][<<t, active>>]
<1>4. Joins(x, r, t, parts)
  BY <1>3, JoinedIs
<1>5. /\ <<>> \in DOMAIN x.doc /\ x.doc[<<>>] = "array"
      /\ \A p \in DOMAIN x.doc : p = <<>>
  BY ONLY <1>3, <1>4, IsArray(r, t) DEF Joins
<1>6. PICK doc, root : doc = x.doc /\ root = {<<>>}
  OBVIOUS
<1>7. doc = [p \in DOMAIN doc |-> doc[p]]
  BY <1>3, <1>6, JoinedDoc
<1>8. DOMAIN doc = root /\ \A p \in root : doc[p] = "array"
  BY ONLY <1>5, <1>6
<1>9. doc = [p \in root |-> "array"]
  BY ONLY <1>7, <1>8
<1> QED
  BY <1>6, <1>9

\* ... as which an empty array of the input should come back.
LEMMA BareWritten ==
  ASSUME NEW in, Tree(in), NEW a \in DOMAIN in, in[a] = "array", Keys(in, a) = {}
  PROVE  Written(in, a) = [p \in {<<>>} |-> "array"]
<1>1. PICK root : root = {<<>>}
  OBVIOUS
<1>2. \A q : q \in Below(in, a) <=> q \in root
  <2> SUFFICES ASSUME NEW q PROVE q \in Below(in, a) <=> q \in root
    OBVIOUS
  <2>1. Splits(in, a, q)
    BY BelowIs
  <2> QED
    BY ONLY <1>1, <2>1, Keys(in, a) = {} DEF Splits
<1>3. Below(in, a) = root
  BY <1>2
<1>4. \A q \in root : a \o q = a
  <2>1. a \in Seq(Names)
    BY DEF Tree
  <2> QED
    BY <1>1, <2>1, BehindEmpty
<1> QED
  BY <1>1, <1>3, <1>4 DEF Written

\* An empty array of the input copied by _utils.array comes back.
LEMMA EmptyListBack ==
  ASSUME NEW r, Sound(r), Tree(r.input), NEW a \in DOMAIN r.input, r.input[a] = "array",
         Keys(r.input, a) = {}, NEW items, items = [k \in {} |-> 0],
         NEW q, q = New(r, "array", items)
  PROVE  Back(ToJson(q, q.acc), r.input, a)
<1>1. MapsTo(items, Held(r))
  BY DEF MapsTo
<1>2. PICK o, t, e : o = Len(r.heap) + 1 /\ t = [own |-> o] /\ e = [mark |-> "array", items |-> items]
  OBVIOUS
<1>3. Leads(r, q) /\ q.acc = t /\ q.heap = Append(r.heap, e)
  BY <1>1, <1>2, NewLeads
<1>4. IsSequence(r.heap) /\ Len(r.heap) \in Nat
  BY HeldType
<1>5. Len(q.heap) = o /\ q.heap[o] = e /\ o \in 1..o
  BY <1>2, <1>3, <1>4, Appended
<1>6. Own(t) /\ Table(t) /\ t.own = o
  <2>1. DOMAIN t = {"own"} /\ t.own = o
    BY ONLY <1>2
  <2> QED
    BY <2>1 DEF Own, Table
<1>7. t \in Tables(q)
  <2>1. Sound(q)
    BY <1>3 DEF Leads
  <2>2. DOMAIN q.heap = 1..o
    BY <1>5, <2>1, HeldType
  <2> QED
    BY <1>2, <1>5, <2>2 DEF Tables
<1>8. e.mark = "array" /\ e.items = items
  BY ONLY <1>2
<1>9. Content(q, t) = items /\ Mark(q, t) = "array"
  BY <1>5, <1>6, <1>8 DEF Content, Mark
<1>10. IsArray(q, t)
  <2>1. DOMAIN items = {}
    OBVIOUS
  <2> QED
    BY <1>9, <2>1 DEF IsArray
<1>11. PICK none : none = {}
  OBVIOUS
<1>12. none \in SUBSET Tables(q) /\ ToJson(q, t) = Json(q)[MaxDepth][<<t, none>>]
  BY <1>6, <1>11 DEF ToJson
<1>13. ToJson(q, t).doc = [p \in {<<>>} |-> "array"]
  BY <1>7, <1>9, <1>10, <1>12, BareTable
<1>14. Written(r.input, a) = [p \in {<<>>} |-> "array"]
  BY BareWritten
<1> QED
  BY ONLY <1>3, <1>13, <1>14 DEF Back

\* A value of the input comes back under every contract: what Declared changes were empty arrays.
LEMMA ReturnedBack ==
  ASSUME NEW r, Sound(r), Tree(r.input), r.error = "", NEW a \in DOMAIN r.input,
         r.acc = InputValue(r, a), r.input[a] # "table", NEW shape,
         NEW x, x = Returned(Declared(r, shape)), x.code = ""
  PROVE  x.doc = Written(r.input, a)
<1>1. PICK q : q = Declared(r, shape)
  OBVIOUS
<1>2. Back(ToJson(q, q.acc), r.input, a)
  <2>1. CASE q = r
    BY <2>1, ToJsonBack
  <2>2. CASE q # r
    <3>1. /\ Table(r.acc) /\ DOMAIN Content(r, r.acc) = {} /\ Mark(r, r.acc) # "object"
          /\ q = MarkAsArray(r)
      BY <1>1, <2>2 DEF Declared
    <3>2. IsTable(r.input, a) /\ r.acc = [input |-> a]
      BY <3>1, InputTable
    <3>3. ~Own(r.acc) /\ IsIn(r.acc) /\ r.acc.input = a /\ r.acc # Nil
      <4>1. DOMAIN r.acc = {"input"} /\ r.acc.input = a
        BY ONLY <3>2
      <4>2. DOMAIN Nil = {"val"}
        BY DEF Nil
      <4>3. "val" # "input"
        OBVIOUS
      <4> QED
        BY <4>1, <4>2, <4>3 DEF Own, IsIn
    <3>4. PICK c : c = Content(r, r.acc)
      OBVIOUS
    <3>5. c = [k \in Keys(r.input, a) |-> InputValue(r, Append(a, k))] /\ DOMAIN c = {}
      BY <3>1, <3>3, <3>4 DEF Content
    <3>6. Keys(r.input, a) = {}
      BY <3>5
    <3>7. r.input[a] = "array"
      BY <3>1, <3>2, <3>3 DEF Mark, IsTable
    <3>8. PICK items : items = Listed(c)
      OBVIOUS
    <3>9. items = [k \in {} |-> 0]
      <4>1. Border(c) \in 0..5 /\ \A i \in 1..Border(c) : Position[i] \in DOMAIN c
        BY BorderIs
      <4>2. 1..Border(c) = {}
        BY <3>5, <4>1
      <4>3. items = [k \in {Position[i] : i \in 1..Border(c)} |-> c[k]]
        BY <3>8 DEF Listed
      <4> QED
        BY <4>2, <4>3
    <3>10. q = New(r, "array", items)
      BY <3>1, <3>3, <3>4, <3>8 DEF MarkAsArray, ReadOnly
    <3> QED
      BY <3>6, <3>7, <3>9, <3>10, EmptyListBack
  <2> QED
    BY <2>1, <2>2
<1>3. PICK json : json = ToJson(q, q.acc)
  OBVIOUS
<1>4. x = Encoded(q, json)
  BY <1>1, <1>3 DEF Returned
<1>5. json.error = ""
  <2>1. SUFFICES ASSUME json.error # "" PROVE FALSE
    OBVIOUS
  <2>2. x = Result("lua_result_serialization_error", <<>>, q.reads)
    BY <1>4, <2>1 DEF Encoded
  <2>3. x.code = "lua_result_serialization_error"
    BY ONLY <2>2 DEF Result
  <2> QED
    BY <2>3
<1>6. x.doc = json.doc
  <2>1. PICK reads, doc : reads = q.reads \cup json.reads /\ doc = json.doc
    OBVIOUS
  <2>2. x \in {Result("lua_result_too_large", <<>>, reads), Result("", doc, reads)}
    BY <1>4, <1>5, <2>1 DEF Encoded
  <2>3. Result("lua_result_too_large", <<>>, reads).code = "lua_result_too_large"
    BY DEF Result
  <2>4. Result("", doc, reads).doc = doc
    BY DEF Result
  <2> QED
    BY <2>1, <2>2, <2>3, <2>4
<1> QED
  BY <1>2, <1>3, <1>5, <1>6 DEF Back

\* A chunk that ends with an expression over wf.
Reads(chunk, path) ==
  /\ chunk \in Seq(Statement) /\ chunk # <<>> /\ Last(chunk).do = "return" /\ Last(chunk).exp.op = "read"
  /\ Last(chunk).exp.path[1] = "wf" /\ Tail(Last(chunk).exp.path) = path

\* The last statement of such a chunk.
LEMMA ReadingIs ==
  ASSUME NEW chunk, NEW path, Reads(chunk, path), NEW N, N = Len(chunk), NEW s, s = chunk[N]
  PROVE  /\ N \in Nat \ {0} /\ s \in Statement /\ s.in = "plain" /\ s.do = "return" /\ s.exp.op = "read"
         /\ s.exp.path \in Seq(Names) /\ s.exp.path # <<>> /\ s.exp.path[1] = "wf" /\ Tail(s.exp.path) = path
<1>1. chunk \in Seq(Statement) /\ chunk # <<>> /\ Last(chunk) = s
  BY DEF Reads, Last
<1>2. N \in Nat \ {0}
  BY <1>1, EmptySeq
<1>3. s \in Statement
  <2>1. N \in 1..N
    BY <1>2
  <2> QED
    BY <1>1, <2>1, ElementOfSeq
<1>4. s.do = "return" /\ s.exp.op = "read" /\ s.exp.path[1] = "wf" /\ Tail(s.exp.path) = path
  BY <1>1 DEF Reads
<1>5. s.in = "plain" /\ s.exp \in Expression
  BY <1>3, <1>4, StatementIs
<1>6. s.exp.path \in Seq(Names) /\ s.exp.path # <<>>
  BY <1>4, <1>5, ExpressionIs
<1> QED
  BY <1>2, <1>3, <1>4, <1>5, <1>6

\* Such a chunk, if it returns at all, returns what the context holds at that path.
LEMMA RunChunkBack ==
  ASSUME NEW context, Document(context), NEW path \in DOMAIN context, NEW chunk, Reads(chunk, path),
         Findings(chunk) = {}, NEW shape, NEW order, Len(order) \in Nat,
         NEW x, x = RunChunk(chunk, context, shape, order), x.code = ""
  PROVE  x.doc = Written(RawWf(context), path)
<1>1. PICK N, s, in : N = Len(chunk) /\ s = chunk[N] /\ in = RawWf(context)
  OBVIOUS
<1>2. /\ N \in Nat \ {0} /\ s \in Statement /\ s.in = "plain" /\ s.do = "return" /\ s.exp.op = "read"
      /\ s.exp.path \in Seq(Names) /\ s.exp.path # <<>> /\ s.exp.path[1] = "wf" /\ Tail(s.exp.path) = path
  BY ONLY <1>1, Reads(chunk, path), ReadingIs
<1>a. N \in Nat \ {0}
  BY ONLY <1>2
<1>3. Serializable(context)
  <2>1. SUFFICES ASSUME ~Serializable(context) PROVE FALSE
    OBVIOUS
  <2>2. x.code = "unsupported_json_context"
    BY <2>1 DEF RunChunk, Result
  <2> QED
    BY <2>2
<1>4. PICK b, r : b = Run(chunk, context, order)[N - 1] /\ r = Run(chunk, context, order)[N]
  OBVIOUS
<1>5. N - 1 \in 0..N /\ N \in 0..N /\ N \in 1..N
  BY ONLY <1>a
<1>6. chunk \in Seq(Statement) /\ chunk # <<>> /\ Last(chunk).do = "return"
  BY DEF Reads
<1>7. r = Execute(b, s, order)
  <2>1. N \in Nat
    BY ONLY <1>a
  <2> QED
    BY ONLY <1>1, <1>4, <1>5, <2>1, RunUnfolds
<1>8. Sound(b) /\ Sound(r) /\ b.input = in /\ r.input = in
  BY <1>1, <1>4, <1>5, <1>6, RunSound
<1>9. Free(b)
  BY <1>1, <1>4, <1>5, <1>6, RunIsFree
<1>10. Tree(in) /\ path \in DOMAIN in /\ in[path] # "table"
  <2>1. <<>> \in DOMAIN context
    BY Rooted
  <2>2. path \in DOMAIN in /\ in[path] = context[path]
    BY <1>1 DEF RawWf
  <2>3. context[path] # "table"
    BY DEF Document
  <2> QED
    BY <1>1, <2>1, <2>2, <2>3, RawIsTree
<1>11. x = Ended(r, TRUE, shape)
  BY <1>1, <1>3, <1>4, <1>6 DEF RunChunk
<1>12. r.error = ""
  <2>1. SUFFICES ASSUME r.error # "" PROVE FALSE
    OBVIOUS
  <2>2. x = Result(r.error, <<>>, r.reads)
    BY <1>11, <2>1 DEF Ended
  <2>3. x.code = r.error
    BY ONLY <2>2 DEF Result
  <2> QED
    BY <2>1, <2>3
<1>13. b.error = "" /\ r = Do(b, s)
  BY <1>2, <1>7, <1>12 DEF Execute
<1>14. r = Path(b, s.exp.path)
  <2>1. Evaluate(b, s.exp) = Path(b, s.exp.path)
    BY <1>2 DEF Evaluate
  <2>2. \A q : Effect(q, s) = q
    BY <1>2 DEF Effect
  <2> QED
    BY <1>13, <2>1, <2>2 DEF Do
<1>15. r.acc = InputValue(b, path)
  BY <1>2, <1>8, <1>9, <1>10, <1>13, <1>14, PathArrives
<1>16. r.acc = InputValue(r, path)
  BY <1>8, <1>15 DEF InputValue
<1>17. x = Returned(Declared(r, shape))
  BY <1>11, <1>12 DEF Ended
<1> QED
  BY <1>1, <1>8, <1>10, <1>12, <1>16, <1>17, ReturnedBack

\* What InputComesBack says of a document.
LEMMA WrittenIs ==
  ASSUME NEW c, NEW path \in Seq(Names), DOMAIN c \subseteq Seq(Names)
  PROVE  Written(c, path) = [q \in {SubSeq(p, Len(path) + 1, Len(p)) :
                                    p \in {p \in DOMAIN c : IsPrefix(path, p)}} |->
                               IF c[path \o q] = "table" THEN "object" ELSE c[path \o q]]
<1> DEFINE S == {SubSeq(p, Len(path) + 1, Len(p)) : p \in {p \in DOMAIN c : IsPrefix(path, p)}}
<1>1. ASSUME NEW q \in Below(c, path) PROVE q \in S
  <2>1. PICK p : p = path \o q
    OBVIOUS
  <2>2. p \in DOMAIN c /\ q \in Seq(Names)
    BY <1>1, <2>1 DEF Below
  <2>3. SubSeq(p, Len(path) + 1, Len(p)) = q
    BY <2>1, <2>2, SubSeqOfConcat2, ConcatProperties, SubSeqFull
  <2>4. IsPrefix(path, p)
    BY <2>1, <2>2, SubSeqOfConcat1, SubSeqFull, ConcatProperties DEF IsPrefix
  <2> QED
    BY <2>2, <2>3, <2>4
<1>2. ASSUME NEW p \in DOMAIN c, IsPrefix(path, p)
      PROVE  SubSeq(p, Len(path) + 1, Len(p)) \in Below(c, path)
  <2>1. PICK q, m, n : q = SubSeq(p, m + 1, n) /\ m = Len(path) /\ n = Len(p)
    OBVIOUS
  <2>2. m \in Nat /\ n \in Nat /\ m <= n /\ path = SubSeq(p, 1, m) /\ p \in Seq(Names)
    BY <1>2, <2>1 DEF IsPrefix
  <2>3. q \in Seq(Names)
    BY <2>1, <2>2, SubSeqProperties, ElementOfSeq
  <2>4. path \o q = p
    <3>1. 1 \in 1..n + 1 /\ m \in 1 - 1..n /\ n \in m..n
      BY <2>2
    <3>2. SubSeq(p, 1, m) \o SubSeq(p, m + 1, n) = SubSeq(p, 1, n)
      BY ONLY <2>1, <2>2, <3>1, ConcatAdjacentSubSeq
    <3>3. SubSeq(p, 1, n) = p
      BY <2>1, <2>2, SubSeqFull
    <3> QED
      BY <2>1, <2>2, <3>2, <3>3
  <2> QED
    BY <2>1, <2>3, <2>4 DEF Below
<1>3. S = Below(c, path)
  BY <1>1, <1>2
<1> QED
  BY <1>3 DEF Written

\* A candidate that ends with an expression over wf returns what its context holds there, for every
\* program before it: the input is not written to, wf is not hidden, and what the runner writes of
\* it is what was read, empty arrays as arrays and empty objects as objects.
THEOREM InputAlwaysComesBack == Spec => []InputComesBack
<1>1. ASSUME IInv, RunsAreReal PROVE InputComesBack
  <2> DEFINE path == Tail(Last(program).exp.path)
  <2> SUFFICES ASSUME NEW i \in DOMAIN results, results[i].code = "", ~task.envelope,
                      Last(program).do = "return", Last(program).exp.op = "read",
                      Last(program).exp.path[1] = "wf", path \in DOMAIN Context(i),
                      NEW c, c = RawWf(Context(i))
               PROVE  results[i].doc = [q \in {SubSeq(p, Len(path) + 1, Len(p)) :
                                               p \in {p \in DOMAIN c : IsPrefix(path, p)}} |->
                                          IF c[path \o q] = "table" THEN "object" ELSE c[path \o q]]
    BY DEF InputComesBack
  <2>1. i \in 1..Len(results) /\ Len(results) # 0
    BY ONLY <1>1, i \in DOMAIN results DEF IInv, Typed, IsSequence
  <2>2. task \in Tasks
    BY <1>1, <2>1 DEF IInv, Typed
  <2>3. PICK x, context, a : x = results[i] /\ context = Context(i) /\ a = path
    OBVIOUS
  <2>4. IsRunOn(x, context) /\ Document(context) /\ x.code = "" /\ a \in DOMAIN context
    BY <1>1, <2>1, <2>2, <2>3, ContextsAre DEF RunsAreReal
  <2>5. Chunks = <<program>> /\ 1 \in DOMAIN Chunks /\ Chunks[1] = program
    BY ONLY ~task.envelope DEF Chunks
  <2>6. Reads(program, a)
    <3>1. program \in Seq(Statement) /\ program # <<>>
      BY <1>1, <2>1 DEF RunsAreReal, Begun
    <3> QED
      BY <2>3, <3>1 DEF Reads
  <2>7. Findings(program) = {}
    BY <1>1, <2>1, <2>5 DEF RunsAreReal
  <2>8. PICK order \in Orders : x = Output(Chunks, task.envelope, context, task.shape, order)
    <3>1. ASSUME NEW code \in Outside PROVE x # Result(code, <<>>, {})
      <4>1. Result(code, <<>>, {}).code = code
        BY DEF Result
      <4> QED
        BY <2>4, <4>1 DEF Outside
    <3> QED
      BY <2>4, <3>1 DEF IsRunOn
  <2>9. x = RunChunk(program, context, task.shape, order)
    BY <2>5, <2>8 DEF Output
  <2>10. Len(order) \in Nat
    BY ONLY <2>8, InputAssumption
  <2>11. x.doc = Written(RawWf(context), a)
    BY ONLY <2>4, <2>6, <2>7, <2>9, <2>10, RunChunkBack
  <2>12. a \in Seq(Names) /\ DOMAIN c \subseteq Seq(Names)
    <3>1. Tree(c)
      BY <2>3, <2>4, Rooted, RawIsTree
    <3>2. a \in Seq(Names)
      BY <2>4 DEF Document
    <3> QED
      BY <3>1, <3>2 DEF Tree
  <2>13. Written(c, a) = [q \in {SubSeq(p, Len(a) + 1, Len(p)) : p \in {p \in DOMAIN c : IsPrefix(a, p)}} |->
                            IF c[a \o q] = "table" THEN "object" ELSE c[a \o q]]
    BY ONLY <2>12, WrittenIs
  <2> HIDE DEF path
  <2> QED
    BY ONLY <2>3, <2>11, <2>13, c = RawWf(Context(i))
<1> QED
  BY <1>1, RunsAreAlwaysReal, PTL
=============================================================================
