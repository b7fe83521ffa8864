-------------------------- MODULE DagCompiler_proofs --------------------------
(***************************************************************************)
(* What runtime/dag-compiler.ts and runtime/safety-verifier.ts compute,    *)
(* for every finite registry: a plan when its skills can be put in an      *)
(* order and a cycle when they cannot.  What waits for what without a      *)
(* circle is as in MerkleDag_proofs, whose lemmas are used.                *)
(***************************************************************************)
EXTENDS SafetyVerifier, MerkleDag_proofs, SequenceTheorems

IsRegistry(reg) == IsFiniteSet(DOMAIN reg) /\ DOMAIN reg \subseteq DOMAIN Place

IsIteration(g, n, X, first, step) ==
    g \in [0..n -> X] /\ g[0] = first /\ \A i \in 1..n : g[i] = step[g[i - 1]]

\* What is recomputed n times from what it was.
LEMMA Iterates ==
    ASSUME NEW n \in Nat, NEW X, NEW first \in X, NEW step \in [X -> X]
    PROVE  \E g : IsIteration(g, n, X, first, step)
<1> DEFINE Is(g, m) == g \in [0..m -> X] /\ g[0] = first /\ \A i \in 1..m : g[i] = step[g[i - 1]]
           C == {m \in Nat : \E g : Is(g, m)}
<1>1. 0 \in C
  <2> DEFINE g == [i \in 0..0 |-> first]
  <2>1. Is(g, 0)
    OBVIOUS
  <2> QED
    BY <2>1
<1>2. ASSUME NEW m \in 0..(n - 1), m \in C PROVE m + 1 \in C
  <2>1. PICK g : Is(g, m)
    BY <1>2
  <2> DEFINE h == [i \in 0..(m + 1) |-> IF i = m + 1 THEN step[g[m]] ELSE g[i]]
  <2>2. g[m] \in X /\ \A i \in 0..m : h[i] = g[i]
    BY <2>1
  <2>3. h \in [0..(m + 1) -> X] /\ h[0] = first /\ h[m + 1] = step[h[m]]
    BY <2>1, <2>2
  <2>4. ASSUME NEW i \in 1..(m + 1) PROVE h[i] = step[h[i - 1]]
    <3>1. CASE i = m + 1
      <4>1. i - 1 = m
        BY <3>1
      <4> HIDE DEF h
      <4> QED
        BY <2>3, <3>1, <4>1
    <3>2. CASE i # m + 1
      <4>1. i \in 1..m /\ i \in 0..m /\ i - 1 \in 0..m
        BY <3>2
      <4> HIDE DEF h
      <4> QED
        BY <2>1, <2>2, <4>1
    <3> QED
      BY <3>1, <3>2
  <2> HIDE DEF h
  <2>5. Is(h, m + 1)
    BY <2>3, <2>4
  <2> QED
    BY <2>5
<1>3. n \in C
  <2> HIDE DEF C
  <2> QED
    BY <1>1, <1>2, CountTo
<1> QED
  BY <1>3 DEF IsIteration

\* First of the names in localeCompare order.
LEMMA FirstIsOne ==
    ASSUME NEW S, IsFiniteSet(S), S # {}, S \subseteq DOMAIN Place
    PROVE  First(S) \in S
<1>1. PICK s \in S : \A t \in S : Place[s] <= Place[t]
  BY PlaceAssumption, LowestOf
<1> QED
  BY <1>1 DEF First

-----------------------------------------------------------------------------
(* Levels.                                                                 *)

FirstRound(reg) ==
    LET waits == [s \in DOMAIN reg |-> Cardinality(Predecessors(reg, s))]
    IN  [waits |-> waits, ready |-> {s \in DOMAIN reg : waits[s] = 0}]

NextRound(reg, prior) ==
    LET fed(s) == Cardinality(Predecessors(reg, s) \cap prior.ready)
        waits == [s \in DOMAIN reg |-> prior.waits[s] - fed(s)]
    IN  [waits |-> waits, ready |-> {s \in DOMAIN reg : fed(s) > 0 /\ waits[s] = 0}]

IsRounds(round, reg) ==
    round = [i \in 0..Cardinality(DOMAIN reg) |->
                IF i = 0 THEN FirstRound(reg) ELSE NextRound(reg, round[i - 1])]

LEMMA PredecessorsFinite ==
    ASSUME NEW reg, IsRegistry(reg), NEW s
    PROVE  /\ Predecessors(reg, s) \subseteq DOMAIN reg
           /\ IsFiniteSet(Predecessors(reg, s))
           /\ \A S : /\ IsFiniteSet(Predecessors(reg, s) \cap S)
                     /\ Cardinality(Predecessors(reg, s) \cap S) \in Nat
                     /\ Cardinality(Predecessors(reg, s) \ S) \in Nat
<1>1. Predecessors(reg, s) \subseteq DOMAIN reg
  BY DEF Predecessors
<1>2. IsFiniteSet(Predecessors(reg, s))
  BY <1>1, FS_Subset DEF IsRegistry
<1>3. \A S : IsFiniteSet(Predecessors(reg, s) \cap S) /\ IsFiniteSet(Predecessors(reg, s) \ S)
  BY <1>2, FS_Subset
<1> QED
  BY <1>1, <1>2, <1>3, FS_CardinalityType

LEMMA RoundsExist ==
    ASSUME NEW reg, IsRegistry(reg)
    PROVE  \E round : IsRounds(round, reg)
<1> DEFINE n == Cardinality(DOMAIN reg)
           X == [waits : [DOMAIN reg -> Int], ready : SUBSET DOMAIN reg]
           step == [prior \in X |-> NextRound(reg, prior)]
<1>1. n \in Nat
  BY FS_CardinalityType DEF IsRegistry
<1>2. FirstRound(reg) \in X
  <2>1. \A s \in DOMAIN reg : Cardinality(Predecessors(reg, s)) \in Nat
    BY PredecessorsFinite, FS_CardinalityType
  <2> QED
    BY <2>1 DEF FirstRound
<1>3. \A prior \in X : NextRound(reg, prior) \in X
  <2> SUFFICES ASSUME NEW prior \in X PROVE NextRound(reg, prior) \in X
    OBVIOUS
  <2>1. \A s \in DOMAIN reg : Cardinality(Predecessors(reg, s) \cap prior.ready) \in Nat
    BY PredecessorsFinite
  <2> DEFINE fed(s) == Cardinality(Predecessors(reg, s) \cap prior.ready)
             waits == [s \in DOMAIN reg |-> prior.waits[s] - fed(s)]
  <2>2. \A s \in DOMAIN reg : prior.waits[s] \in Int
    OBVIOUS
  <2>3. waits \in [DOMAIN reg -> Int]
    BY <2>1, <2>2
  <2>4. NextRound(reg, prior) =
            [waits |-> waits, ready |-> {s \in DOMAIN reg : fed(s) > 0 /\ waits[s] = 0}]
    BY DEF NextRound
  <2> HIDE DEF waits, fed
  <2> QED
    BY <2>3, <2>4
<1>4. step \in [X -> X] /\ \A prior \in X : step[prior] = NextRound(reg, prior)
  BY <1>3
<1> HIDE DEF step, X, n
<1>5. PICK g : IsIteration(g, n, X, FirstRound(reg), step)
  BY <1>1, <1>2, <1>4, Iterates
<1>6. ASSUME NEW i \in 0..n
      PROVE  g[i] = IF i = 0 THEN FirstRound(reg) ELSE NextRound(reg, g[i - 1])
  <2>1. i # 0 => i \in 1..n /\ i - 1 \in 0..n
    BY <1>1
  <2> QED
    BY <1>4, <1>5, <2>1 DEF IsIteration
<1>7. IsRounds(g, reg)
  <2>1. g = [i \in 0..n |-> g[i]]
    BY <1>5 DEF IsIteration
  <2> QED
    BY <1>6, <2>1 DEF IsRounds, n
<1> QED
  BY <1>7

\* The skills that a round may take when those in `done` have been taken.
Waiting(reg, done) == {s \in DOMAIN reg \ done : Predecessors(reg, s) \subseteq done}

Taken(round, i) == UNION {round[j].ready : j \in 0..(i - 1)}

RoundOK(round, reg, i) ==
    LET taken == Taken(round, i)
    IN  /\ taken \subseteq DOMAIN reg
        /\ \A s \in taken : Predecessors(reg, s) \subseteq taken
        /\ round[i].waits =
               [s \in DOMAIN reg |-> Cardinality(Predecessors(reg, s) \ taken)]
        /\ round[i].ready = Waiting(reg, taken)

\* The indegree map counts what a skill still waits for.
LEMMA FirstRoundOK ==
    ASSUME NEW reg, IsRegistry(reg), NEW round, round[0] = FirstRound(reg)
    PROVE  RoundOK(round, reg, 0)
<1>1. Taken(round, 0) = {}
  BY DEF Taken
<1>2. \A s \in DOMAIN reg : Predecessors(reg, s) \ {} = Predecessors(reg, s)
  OBVIOUS
<1>3. \A s \in DOMAIN reg : Cardinality(Predecessors(reg, s)) = 0 <=> Predecessors(reg, s) = {}
  BY PredecessorsFinite, FS_EmptySet
<1>4. round[0].waits = [s \in DOMAIN reg |-> Cardinality(Predecessors(reg, s))]
  BY DEF FirstRound
<1>5. round[0].ready = {s \in DOMAIN reg : Cardinality(Predecessors(reg, s)) = 0}
  BY DEF FirstRound
<1>6. round[0].ready = Waiting(reg, {})
  BY <1>3, <1>5 DEF Waiting
<1>7. round[0].waits = [s \in DOMAIN reg |-> Cardinality(Predecessors(reg, s) \ {})]
  BY <1>2, <1>4
<1> QED
  BY <1>1, <1>6, <1>7 DEF RoundOK

LEMMA NextRoundOK ==
    ASSUME NEW reg, IsRegistry(reg), NEW round, NEW i \in Nat, RoundOK(round, reg, i),
           round[i + 1] = NextRound(reg, round[i])
    PROVE  RoundOK(round, reg, i + 1)
<1> DEFINE D == DOMAIN reg
           P(s) == Predecessors(reg, s)
           old == Taken(round, i)
           ready == round[i].ready
           new == Taken(round, i + 1)
           fed(s) == Cardinality(P(s) \cap ready)
           waits == [s \in D |-> round[i].waits[s] - fed(s)]
<1>1. new = old \cup ready
  <2>1. 0..((i + 1) - 1) = 0..(i - 1) \cup {i}
    OBVIOUS
  <2> QED
    BY <2>1 DEF Taken
<1>2. /\ old \subseteq D /\ \A s \in old : P(s) \subseteq old
      /\ \A s \in D : round[i].waits[s] = Cardinality(P(s) \ old)
      /\ ready = {s \in D \ old : P(s) \subseteq old}
  BY DEF RoundOK, Waiting
<1>3. /\ round[i + 1].waits = waits
      /\ round[i + 1].ready = {s \in D : fed(s) > 0 /\ waits[s] = 0}
  BY DEF NextRound
<1> HIDE DEF P, old, ready, new
<1>4. /\ new \subseteq D /\ \A s \in new : P(s) \subseteq new
      /\ ready \cap old = {}
  BY <1>1, <1>2
<1>5. ASSUME NEW s \in D PROVE waits[s] = Cardinality(P(s) \ new)
  <2>1. IsFiniteSet(P(s) \ old)
    BY PredecessorsFinite, FS_Subset DEF P
  <2>2. (P(s) \ old) \ ready = P(s) \ new /\ (P(s) \ old) \cap ready = P(s) \cap ready
    BY <1>1, <1>4
  <2>3. Cardinality(P(s) \ new) = Cardinality(P(s) \ old) - Cardinality(P(s) \cap ready)
    BY <2>1, <2>2, FS_Difference
  <2> QED
    BY <1>2, <2>3
<1>6. ASSUME NEW s \in D
      PROVE  (fed(s) > 0 /\ waits[s] = 0) <=> (s \notin new /\ P(s) \subseteq new)
  <2>1. fed(s) > 0 <=> P(s) \cap ready # {}
    <3>1. IsFiniteSet(P(s) \cap ready) /\ fed(s) \in Nat
      BY PredecessorsFinite DEF P
    <3> QED
      BY <3>1, FS_EmptySet
  <2>2. waits[s] = 0 <=> P(s) \subseteq new
    <3>1. IsFiniteSet(P(s) \ new)
      BY PredecessorsFinite, FS_Subset DEF P
    <3>2. Cardinality(P(s) \ new) = 0 <=> P(s) \ new = {}
      BY <3>1, FS_EmptySet
    <3> QED
      BY <1>5, <3>2
  <2> HIDE DEF fed, waits
  <2> QED
    BY <1>1, <1>2, <1>4, <2>1, <2>2
<1>7. round[i + 1].ready = Waiting(reg, new)
  BY <1>3, <1>6 DEF Waiting, P
<1>8. round[i + 1].waits = [s \in D |-> Cardinality(P(s) \ new)]
  BY <1>3, <1>5
<1> QED
  BY <1>4, <1>7, <1>8 DEF RoundOK, P, new

LEMMA AllRoundsOK ==
    ASSUME NEW reg, IsRegistry(reg), NEW round, IsRounds(round, reg)
    PROVE  \A i \in 0..Cardinality(DOMAIN reg) : RoundOK(round, reg, i)
<1> DEFINE n == Cardinality(DOMAIN reg)
<1>1. n \in Nat
  BY FS_CardinalityType DEF IsRegistry
<1>2. /\ round[0] = FirstRound(reg)
      /\ \A i \in 1..n : round[i] = NextRound(reg, round[i - 1])
  <2>1. \A i \in 0..n :
            round[i] = IF i = 0 THEN FirstRound(reg) ELSE NextRound(reg, round[i - 1])
    BY DEF IsRounds
  <2> HIDE DEF n
  <2>2. 0 \in 0..n /\ \A i \in 1..n : i \in 0..n /\ i # 0
    BY <1>1
  <2> QED
    BY <2>1, <2>2
<1> HIDE DEF n
<1>3. ASSUME NEW k \in 0..n PROVE RoundOK(round, reg, k)
  <2> DEFINE C == {i \in Nat : i <= k => RoundOK(round, reg, i)}
  <2>1. 0 \in C
    BY <1>2, FirstRoundOK
  <2>2. ASSUME NEW i \in 0..(k - 1), i \in C PROVE i + 1 \in C
    <3>1. i \in Nat /\ i + 1 \in 1..n /\ (i + 1) - 1 = i /\ i <= k
      BY <1>1
    <3>2. RoundOK(round, reg, i) /\ round[i + 1] = NextRound(reg, round[i])
      BY <1>2, <2>2, <3>1
    <3>3. RoundOK(round, reg, i + 1)
      BY <3>1, <3>2, NextRoundOK
    <3> QED
      BY <3>1, <3>3
  <2>3. k \in Nat /\ k <= k
    BY <1>1
  <2>4. k \in C
    <3> HIDE DEF C
    <3> QED
      BY <2>1, <2>2, <2>3, CountTo
  <2> QED
    BY <2>3, <2>4
<1> QED
  BY <1>3 DEF n

\* There are no more rounds than skills.
LEMMA SomeRoundIsEmpty ==
    ASSUME NEW reg, IsRegistry(reg), NEW round, IsRounds(round, reg)
    PROVE  \E i \in 0..Cardinality(DOMAIN reg) : round[i].ready = {}
<1> DEFINE D == DOMAIN reg
           n == Cardinality(D)
<1>1. n \in Nat /\ IsFiniteSet(D)
  BY FS_CardinalityType DEF IsRegistry
<1>2. \A i \in 0..n : RoundOK(round, reg, i)
  BY AllRoundsOK
<1>3. SUFFICES ASSUME \A i \in 0..n : round[i].ready # {} PROVE FALSE
  OBVIOUS
<1> HIDE DEF D, n
<1> DEFINE C == {i \in Nat : i <= n => Cardinality(Taken(round, i)) >= i}
<1>4. \A i \in 0..n : /\ Taken(round, i) \subseteq D /\ IsFiniteSet(Taken(round, i))
                      /\ Cardinality(Taken(round, i)) \in Nat
  BY <1>1, <1>2, FS_Subset, FS_CardinalityType DEF RoundOK, D
<1>5. 0 \in C
  <2>1. Taken(round, 0) = {}
    BY DEF Taken
  <2> QED
    BY <2>1, FS_EmptySet
<1>6. ASSUME NEW i \in 0..(n - 1), i \in C PROVE i + 1 \in C
  <2>1. i \in 0..n /\ i + 1 \in 0..n /\ i <= n /\ i \in Nat
    BY <1>1
  <2>2. Taken(round, i) \cup round[i].ready \subseteq Taken(round, i + 1)
    BY <2>1 DEF Taken
  <2>3. PICK s \in round[i].ready : s \notin Taken(round, i)
    BY <1>2, <1>3, <2>1 DEF RoundOK, Waiting
  <2>4. Cardinality(Taken(round, i) \cup {s}) = Cardinality(Taken(round, i)) + 1
    BY <1>4, <2>1, <2>3, FS_AddElement
  <2>5. Cardinality(Taken(round, i) \cup {s}) <= Cardinality(Taken(round, i + 1))
    BY <1>4, <2>1, <2>2, <2>3, FS_Subset
  <2>6. Cardinality(Taken(round, i)) >= i
    BY <1>6, <2>1
  <2> QED
    BY <1>4, <2>1, <2>4, <2>5, <2>6
<1>7. Cardinality(Taken(round, n)) >= n
  <2>1. n \in C
    <3> HIDE DEF C
    <3> QED
      BY <1>1, <1>5, <1>6, CountTo
  <2> QED
    BY <1>1, <2>1
<1>8. Taken(round, n) = D
  <2>1. n \in 0..n
    BY <1>1
  <2>2. Cardinality(Taken(round, n)) = Cardinality(D)
    <3>1. Cardinality(Taken(round, n)) <= Cardinality(D)
      BY <1>1, <1>4, <2>1, FS_Subset
    <3> QED
      BY <1>1, <1>4, <1>7, <2>1, <3>1 DEF n
  <2> QED
    BY <1>1, <1>4, <2>1, <2>2, FS_Subset
<1>9. n \in 0..n /\ round[n].ready = {}
  <2>1. n \in 0..n
    BY <1>1
  <2>2. round[n].ready = Waiting(reg, D)
    BY <1>2, <1>8, <2>1 DEF RoundOK
  <2>3. Waiting(reg, D) = {}
    BY DEF Waiting, D
  <2> QED
    BY <2>1, <2>2, <2>3
<1> QED
  BY <1>3, <1>9

\* What is placed before level d.
Before(levels, d) == UNION {levels[e] : e \in 1..(d - 1)}

\* Every level is what may then be taken; after the last level that is nothing.
IsLevelling(levels, reg) ==
    /\ levels \in Seq(SUBSET DOMAIN reg)
    /\ \A d \in 1..Len(levels) : levels[d] # {} /\ levels[d] = Waiting(reg, Before(levels, d))
    /\ Waiting(reg, Before(levels, Len(levels) + 1)) = {}

LEMMA LevelsOfRounds ==
    ASSUME NEW reg, IsRegistry(reg)
    PROVE  IsLevelling(TopoLevels(reg), reg)
<1> DEFINE D == DOMAIN reg
           n == Cardinality(D)
           round == CHOOSE round : IsRounds(round, reg)
           taken == {i \in 1..n : \A j \in 1..i : round[j - 1].ready # {}}
           levels == [i \in taken |-> round[i - 1].ready]
<1>1. n \in Nat
  BY FS_CardinalityType DEF IsRegistry
<1>2. IsRounds(round, reg)
  BY RoundsExist
<1>3. TopoLevels(reg) = levels
  BY DEF TopoLevels, IsRounds, FirstRound, NextRound
<1>4. \A i \in 0..n : RoundOK(round, reg, i)
  BY <1>2, AllRoundsOK
<1>5. PICK m \in 0..n : /\ round[m].ready = {}
                        /\ \A i \in 0..n : i < m => round[i].ready # {}
  <2> DEFINE E == {i \in 0..n : round[i].ready = {}}
             f == [i \in E |-> i]
  <2>1. E # {} /\ E \subseteq 0..n
    BY <1>2, SomeRoundIsEmpty
  <2>2. IsFiniteSet(E)
    <3> HIDE DEF E, n
    <3>1. IsFiniteSet(0..n)
      BY <1>1, FS_Interval
    <3> QED
      BY <2>1, <3>1, FS_Subset
  <2>3. \A i \in E : f[i] = i /\ f[i] \in Nat
    BY <1>1
  <2> HIDE DEF f
  <2>4. PICK m \in E : \A i \in E : f[m] <= f[i]
    <3> HIDE DEF E
    <3> QED
      BY <2>1, <2>2, <2>3, LowestOf
  <2>5. \A i \in E : m <= i
    BY <2>3, <2>4
  <2> HIDE DEF round, n
  <2>6. m \in 0..n /\ round[m].ready = {}
    BY <2>4
  <2>7. \A i \in 0..n : i < m => i \notin E
    BY <1>1, <2>5, <2>6
  <2> QED
    BY <2>6, <2>7
<1> HIDE DEF round, n
<1>6. taken = 1..m
  <2>1. ASSUME NEW i \in 1..n PROVE (\A j \in 1..i : round[j - 1].ready # {}) <=> i <= m
    <3>1. CASE i <= m
      <4>1. \A j \in 1..i : j - 1 \in 0..n /\ j - 1 < m
        BY <1>1, <3>1
      <4> QED
        BY <1>5, <3>1, <4>1
    <3>2. CASE ~(i <= m)
      <4>1. m + 1 \in 1..i /\ (m + 1) - 1 = m
        BY <1>1, <3>2
      <4> QED
        BY <1>5, <3>2, <4>1
    <3> QED
      BY <3>1, <3>2
  <2>2. 1..m \subseteq 1..n
    BY <1>1
  <2>3. \A i \in 1..n : i \in taken <=> i <= m
    BY <2>1
  <2> HIDE DEF taken
  <2>4. taken \subseteq 1..n
    BY DEF taken
  <2>5. ASSUME NEW i \in 1..n PROVE i \in 1..m <=> i <= m
    BY <1>1
  <2>6. ASSUME NEW i PROVE i \in taken <=> i \in 1..m
    BY <2>2, <2>3, <2>4, <2>5
  <2> QED
    BY <2>6
<1>7. \A i \in 1..m : levels[i] = round[i - 1].ready /\ levels[i] \subseteq D
  <2>1. \A i \in 1..m : i - 1 \in 0..n
    BY <1>1
  <2> HIDE DEF taken
  <2>2. \A i \in 1..m : levels[i] = round[i - 1].ready
    BY <1>6
  <2>3. \A i \in 0..n : round[i].ready \subseteq D
    BY <1>4 DEF RoundOK, Waiting
  <2> QED
    BY <2>1, <2>2, <2>3
<1>8. levels \in Seq(SUBSET D) /\ Len(levels) = m
  <2>1. levels = [i \in 1..m |-> levels[i]]
    <3> HIDE DEF taken
    <3> QED
      BY <1>6
  <2> HIDE DEF levels
  <2>2. levels \in [1..m -> SUBSET D] /\ m \in Nat
    BY <1>1, <1>7, <2>1
  <2> QED
    BY <2>2
<1> HIDE DEF levels
<1>9. \A d \in 1..(m + 1) : Before(levels, d) = Taken(round, d - 1)
  <2> SUFFICES ASSUME NEW d \in 1..(m + 1) PROVE Before(levels, d) = Taken(round, d - 1)
    OBVIOUS
  <2>1. \A e \in 1..(d - 1) : e \in 1..m /\ e - 1 \in 0..((d - 1) - 1)
    BY <1>1
  <2>2. \A j \in 0..((d - 1) - 1) : j + 1 \in 1..m /\ j + 1 \in 1..(d - 1) /\ (j + 1) - 1 = j
    BY <1>1
  <2>3. ASSUME NEW s \in Before(levels, d) PROVE s \in Taken(round, d - 1)
    <3>1. PICK e \in 1..(d - 1) : s \in levels[e]
      BY <2>3 DEF Before
    <3> QED
      BY <1>7, <2>1, <3>1 DEF Taken
  <2>4. ASSUME NEW s \in Taken(round, d - 1) PROVE s \in Before(levels, d)
    <3>1. PICK j \in 0..((d - 1) - 1) : s \in round[j].ready
      BY <2>4 DEF Taken
    <3>2. s \in levels[j + 1]
      BY <1>7, <2>2, <3>1
    <3> QED
      BY <2>2, <3>2 DEF Before
  <2> QED
    BY <2>3, <2>4
<1>10. ASSUME NEW d \in 1..m PROVE levels[d] # {} /\ levels[d] = Waiting(reg, Before(levels, d))
  <2>1. d - 1 \in 0..n /\ d - 1 < m /\ d \in 1..(m + 1)
    BY <1>1
  <2> QED
    BY <1>4, <1>5, <1>7, <1>9, <2>1 DEF RoundOK
<1>11. Waiting(reg, Before(levels, m + 1)) = {}
  <2>1. m + 1 \in 1..(m + 1) /\ (m + 1) - 1 = m
    BY <1>1
  <2> QED
    BY <1>4, <1>5, <1>9, <2>1 DEF RoundOK
<1> QED
  BY <1>3, <1>8, <1>10, <1>11 DEF IsLevelling

-----------------------------------------------------------------------------
(* What the levels say.                                                    *)

Depth(levels, s) == CHOOSE d \in DOMAIN levels : s \in levels[d]

LEMMA LevelsPlace ==
    ASSUME NEW reg, NEW levels, IsLevelling(levels, reg)
    PROVE  /\ DOMAIN levels = 1..Len(levels) /\ Len(levels) \in Nat
           /\ UNION Range(levels) = Before(levels, Len(levels) + 1)
           /\ UNION Range(levels) \subseteq DOMAIN reg
<1> DEFINE m == Len(levels)
<1>1. DOMAIN levels = 1..m /\ m \in Nat /\ (m + 1) - 1 = m
  BY DEF IsLevelling
<1>2. UNION Range(levels) = UNION {levels[e] : e \in 1..m}
  BY <1>1 DEF Range
<1>3. Before(levels, m + 1) = UNION {levels[e] : e \in 1..m}
  <2> HIDE DEF m
  <2> QED
    BY <1>1 DEF Before
<1>4. \A e \in 1..m : levels[e] \subseteq DOMAIN reg
  BY <1>1 DEF IsLevelling
<1> QED
  BY <1>1, <1>2, <1>3, <1>4

\* What is left over waits for something that is left over too.
LEMMA LeftIsCircular ==
    ASSUME NEW reg, NEW levels, IsLevelling(levels, reg),
           NEW s \in DOMAIN reg \ UNION Range(levels)
    PROVE  Predecessors(reg, s) \cap (DOMAIN reg \ UNION Range(levels)) # {}
<1>1. Waiting(reg, UNION Range(levels)) = {}
  BY LevelsPlace DEF IsLevelling
<1>2. ~(Predecessors(reg, s) \subseteq UNION Range(levels))
  BY <1>1 DEF Waiting
<1> QED
  BY <1>2 DEF Predecessors

\* A skill comes after all it waits for, and no later than that.
LEMMA LevelsAreTight ==
    ASSUME NEW reg, NEW levels, IsLevelling(levels, reg),
           NEW d \in 1..Len(levels), NEW s \in levels[d]
    PROVE  /\ \A p \in Predecessors(reg, s) : \E e \in 1..(d - 1) : p \in levels[e]
           /\ d > 1 => Predecessors(reg, s) \cap levels[d - 1] # {}
           /\ \A e \in 1..Len(levels) : s \in levels[e] => e = d
<1> DEFINE m == Len(levels)
<1>1. m \in Nat /\ \A e \in 1..m : levels[e] = Waiting(reg, Before(levels, e))
  BY LevelsPlace DEF IsLevelling
<1>2. s \in DOMAIN reg \ Before(levels, d) /\ Predecessors(reg, s) \subseteq Before(levels, d)
  BY <1>1 DEF Waiting
<1>3. \A p \in Predecessors(reg, s) : \E e \in 1..(d - 1) : p \in levels[e]
  BY <1>2 DEF Before
<1> HIDE DEF m
<1>4. ASSUME NEW e \in 1..m, s \in levels[e], e # d PROVE FALSE
  <2>1. s \in DOMAIN reg \ Before(levels, e)
    BY <1>1, <1>4 DEF Waiting
  <2>2. CASE e < d
    <3>1. e \in 1..(d - 1)
      BY <1>1, <2>2 DEF m
    <3> QED
      BY <1>2, <1>4, <3>1 DEF Before
  <2>3. CASE d < e
    <3>1. d \in 1..(e - 1)
      BY <1>1, <2>3 DEF m
    <3> QED
      BY <2>1, <3>1 DEF Before
  <2> QED
    BY <1>1, <1>4, <2>2, <2>3 DEF m
<1>5. ASSUME d > 1 PROVE Predecessors(reg, s) \cap levels[d - 1] # {}
  <2>1. SUFFICES ASSUME Predecessors(reg, s) \cap levels[d - 1] = {} PROVE FALSE
    OBVIOUS
  <2>2. d - 1 \in 1..m /\ d - 1 # d
    BY <1>1, <1>5 DEF m
  <2>3. 1..(d - 1) = 1..((d - 1) - 1) \cup {d - 1}
    BY <1>1, <1>5 DEF m
  <2>4. Predecessors(reg, s) \subseteq Before(levels, d - 1)
    BY <1>2, <2>1, <2>3 DEF Before
  <2>5. s \notin Before(levels, d - 1)
    BY <1>2, <2>3 DEF Before
  <2>6. s \in levels[d - 1]
    BY <1>1, <1>2, <2>2, <2>4, <2>5 DEF Waiting
  <2> QED
    BY <1>4, <2>2, <2>6
<1> QED
  BY <1>3, <1>4, <1>5 DEF m

LEMMA DepthFacts ==
    ASSUME NEW reg, NEW levels, IsLevelling(levels, reg), NEW s \in UNION Range(levels)
    PROVE  /\ Depth(levels, s) \in 1..Len(levels) /\ s \in levels[Depth(levels, s)]
           /\ \A d \in 1..Len(levels) : s \in levels[d] => d = Depth(levels, s)
           /\ \A p \in Predecessors(reg, s) :
                  /\ p \in UNION Range(levels)
                  /\ Depth(levels, p) \in 1..Len(levels)
                  /\ Depth(levels, p) < Depth(levels, s)
           /\ Depth(levels, s) = 1 <=> Predecessors(reg, s) = {}
           /\ Depth(levels, s) > 1 =>
                  \E p \in Predecessors(reg, s) : Depth(levels, p) = Depth(levels, s) - 1
<1> DEFINE m == Len(levels)
           d == Depth(levels, s)
<1>1. DOMAIN levels = 1..m /\ m \in Nat
  BY LevelsPlace
<1>2. \A t \in UNION Range(levels) : Depth(levels, t) \in 1..m /\ t \in levels[Depth(levels, t)]
  BY <1>1 DEF Depth, Range
<1>3. \A t, e : e \in 1..m /\ t \in levels[e] => t \in UNION Range(levels) /\ e = Depth(levels, t)
  <2> SUFFICES ASSUME NEW t, NEW e \in 1..m, t \in levels[e]
               PROVE  t \in UNION Range(levels) /\ e = Depth(levels, t)
    OBVIOUS
  <2>1. t \in UNION Range(levels)
    BY <1>1 DEF Range
  <2>2. \A f \in 1..m : t \in levels[f] => f = e
    BY LevelsAreTight
  <2> QED
    BY <1>2, <2>1, <2>2
<1>4. /\ \A p \in Predecessors(reg, s) : \E e \in 1..(d - 1) : p \in levels[e]
      /\ d > 1 => Predecessors(reg, s) \cap levels[d - 1] # {}
      /\ d \in 1..m /\ s \in levels[d]
  <2>1. d \in 1..m /\ s \in levels[d]
    BY <1>2
  <2> HIDE DEF d
  <2> QED
    BY <2>1, LevelsAreTight
<1> HIDE DEF m, d
<1>5. ASSUME NEW p \in Predecessors(reg, s)
      PROVE  p \in UNION Range(levels) /\ Depth(levels, p) \in 1..m /\ Depth(levels, p) < d
  <2>1. PICK e \in 1..(d - 1) : p \in levels[e]
    BY <1>4
  <2>2. e \in 1..m /\ e < d
    BY <1>1, <1>4
  <2> QED
    BY <1>3, <2>1, <2>2
<1>6. ASSUME d > 1 PROVE \E p \in Predecessors(reg, s) : Depth(levels, p) = d - 1
  <2>1. PICK p \in Predecessors(reg, s) : p \in levels[d - 1]
    BY <1>4, <1>6
  <2>2. d - 1 \in 1..m
    BY <1>1, <1>4, <1>6
  <2> QED
    BY <1>3, <2>1, <2>2
<1>7. d = 1 <=> Predecessors(reg, s) = {}
  <2>1. ASSUME d = 1, NEW p \in Predecessors(reg, s) PROVE FALSE
    BY <1>1, <1>5, <2>1
  <2>2. ASSUME d # 1 PROVE Predecessors(reg, s) # {}
    <3>1. d > 1
      BY <1>1, <1>4, <2>2
    <3> QED
      BY <1>6, <3>1
  <2> QED
    BY <2>1, <2>2
<1> QED
  BY <1>3, <1>4, <1>5, <1>6, <1>7 DEF m, d

\* No skill of a circle is ever placed.
LEMMA CirclesAreLeft ==
    ASSUME NEW reg, IsRegistry(reg), NEW levels, IsLevelling(levels, reg),
           NEW S \in SUBSET DOMAIN reg, \A s \in S : Predecessors(reg, s) \cap S # {}
    PROVE  S \cap UNION Range(levels) = {}
<1> DEFINE T == S \cap UNION Range(levels)
           f == [s \in T |-> Depth(levels, s)]
<1>1. SUFFICES ASSUME T # {} PROVE FALSE
  OBVIOUS
<1>2. IsFiniteSet(T)
  BY FS_Subset DEF IsRegistry
<1>3. \A s \in T : f[s] = Depth(levels, s) /\ f[s] \in Nat
  <2>1. \A s \in T : Depth(levels, s) \in Nat
    BY DepthFacts, LevelsPlace
  <2> QED
    BY <2>1
<1> HIDE DEF f
<1>4. PICK s \in T : \A t \in T : f[s] <= f[t]
  <2> HIDE DEF T
  <2> QED
    BY <1>1, <1>2, <1>3, LowestOf
<1>5. PICK p \in Predecessors(reg, s) : p \in S
  OBVIOUS
<1>6. p \in UNION Range(levels) /\ Depth(levels, p) < Depth(levels, s)
  BY DepthFacts
<1>7. p \in T
  BY <1>5, <1>6
<1> QED
  BY <1>3, <1>4, <1>6, <1>7

-----------------------------------------------------------------------------
(* The search for a cycle.                                                 *)

IsGraph(nodes, next) ==
    IsFiniteSet(nodes) /\ nodes \subseteq DOMAIN Place /\ next \in [nodes -> SUBSET nodes]

IsCycle(cycle, next) ==
    /\ Len(cycle) > 1 /\ cycle[1] = cycle[Len(cycle)]
    /\ \A i \in 1..(Len(cycle) - 1) : cycle[i + 1] \in next[cycle[i]]

\* Edges go down from what the search is done with.
Ranked(done, next) ==
    \E rank : /\ \A s \in done : rank[s] \in Nat
              /\ \A s \in done : \A t \in next[s] : t \in done /\ rank[t] < rank[s]

LEMMA RankedMore ==
    ASSUME NEW done, IsFiniteSet(done), NEW next, Ranked(done, next),
           NEW node, node \notin done, next[node] \subseteq done
    PROVE  Ranked(done \cup {node}, next)
<1>1. PICK rank : /\ \A s \in done : rank[s] \in Nat
                  /\ \A s \in done : \A t \in next[s] : t \in done /\ rank[t] < rank[s]
  BY DEF Ranked
<1>2. PICK top \in Nat : \A s \in done : rank[s] < top
  <2>1. CASE done = {}
    BY <2>1
  <2>2. CASE done # {}
    <3>1. PICK x \in done : \A y \in done : rank[y] <= rank[x]
      BY <1>1, <2>2, HighestOf
    <3>2. rank[x] + 1 \in Nat /\ \A y \in done : rank[y] < rank[x] + 1
      BY <1>1, <3>1
    <3> QED
      BY <3>2
  <2> QED
    BY <2>1, <2>2
<1> DEFINE new == [s \in done \cup {node} |-> IF s = node THEN top ELSE rank[s]]
<1>3. new[node] = top /\ \A s \in done : new[s] = rank[s]
  OBVIOUS
<1> HIDE DEF new
<1>4. \A s \in done \cup {node} : new[s] \in Nat
  BY <1>1, <1>3
<1>5. \A s \in done \cup {node} : \A t \in next[s] : t \in done \cup {node} /\ new[t] < new[s]
  BY <1>1, <1>2, <1>3
<1> QED
  BY <1>4, <1>5 DEF Ranked

LEMMA RankedHasNoCircle ==
    ASSUME NEW done, NEW next, Ranked(done, next), NEW S \in SUBSET done, IsFiniteSet(S),
           \A s \in S : \E p \in S : s \in next[p]
    PROVE  S = {}
<1>1. PICK rank : /\ \A s \in done : rank[s] \in Nat
                  /\ \A s \in done : \A t \in next[s] : t \in done /\ rank[t] < rank[s]
  BY DEF Ranked
<1>2. ASSUME S # {} PROVE FALSE
  <2>1. \A s \in S : rank[s] \in Nat
    BY <1>1
  <2>2. PICK x \in S : \A y \in S : rank[y] <= rank[x]
    BY <1>2, <2>1, HighestOf
  <2>3. PICK p \in S : x \in next[p]
    OBVIOUS
  <2>4. rank[x] < rank[p] /\ rank[p] <= rank[x] /\ rank[x] \in Nat /\ rank[p] \in Nat
    BY <1>1, <2>2, <2>3
  <2> QED
    BY <2>4
<1> QED
  BY <1>2

States(nodes) == [stack : Seq(nodes), done : SUBSET nodes, cycle : Seq(nodes)]

\* The stack is a way through nodes that are neither done nor on it twice.
SearchOK(nodes, next, at) ==
    /\ at \in States(nodes)
    /\ \A i, j \in 1..Len(at.stack) : at.stack[i] = at.stack[j] => i = j
    /\ \A i \in 1..Len(at.stack) : at.stack[i] \notin at.done
    /\ \A i \in 1..(Len(at.stack) - 1) : at.stack[i + 1] \in next[at.stack[i]]
    /\ Ranked(at.done, next)
    /\ at.cycle # << >> => IsCycle(at.cycle, next)

Searching(nodes, at) == at.cycle = << >> /\ at.done # nodes
Progressed(at) == 2 * Cardinality(at.done) + Len(at.stack)

\* The four ways on.
Begun(nodes, at) == [at EXCEPT !.stack = <<First(nodes \ at.done)>>]
Grown(at, t) == [at EXCEPT !.stack = Append(@, t)]
Shrunk(at) == [at EXCEPT !.stack = Front(@), !.done = @ \cup {Last(at.stack)}]
CycleFound(at, t) ==
    LET i == CHOOSE j \in DOMAIN at.stack : at.stack[j] = t
    IN  [at EXCEPT !.cycle = Append(SubSeq(at.stack, i, Len(at.stack)), t)]

StepGoesOn(nodes, next, at, to) ==
    /\ SearchOK(nodes, next, to)
    /\ Searching(nodes, to) \/ to.cycle = << >> => Progressed(to) = Progressed(at) + 1

\* The top of the stack.
LEMMA StackTop ==
    ASSUME NEW nodes, NEW next, NEW at, IsGraph(nodes, next), SearchOK(nodes, next, at),
           at.stack # << >>
    PROVE  /\ Len(at.stack) \in Nat /\ Len(at.stack) >= 1
           /\ Last(at.stack) = at.stack[Len(at.stack)]
           /\ Last(at.stack) \in nodes /\ Last(at.stack) \notin at.done
           /\ next[Last(at.stack)] \subseteq nodes
<1>1. at.stack \in Seq(nodes)
  BY DEF SearchOK, States
<1>2. Len(at.stack) \in Nat /\ Len(at.stack) >= 1
  BY <1>1
<1>3. Last(at.stack) = at.stack[Len(at.stack)]
  BY DEF Last
<1>4. at.stack[Len(at.stack)] \in nodes
  BY <1>1, <1>2
<1> QED
  BY <1>2, <1>3, <1>4 DEF SearchOK, IsGraph

LEMMA StackBegins ==
    ASSUME NEW nodes, NEW next, IsGraph(nodes, next), NEW at, SearchOK(nodes, next, at),
           Searching(nodes, at), at.stack = << >>
    PROVE  StepGoesOn(nodes, next, at, Begun(nodes, at))
<1> DEFINE t == First(nodes \ at.done)
           to == [at EXCEPT !.stack = <<t>>]
<1>1. at \in States(nodes) /\ at.done \subseteq nodes /\ at.done # nodes
  BY DEF SearchOK, States, Searching
<1>2. t \in nodes \ at.done
  <2>1. IsFiniteSet(nodes \ at.done) /\ nodes \ at.done # {} /\ nodes \ at.done \subseteq DOMAIN Place
    BY <1>1, FS_Subset DEF IsGraph
  <2> QED
    BY <2>1, FirstIsOne
<1> HIDE DEF t
<1>3. to.stack = <<t>> /\ to.done = at.done /\ to.cycle = at.cycle /\ to \in States(nodes)
  <2>1. at \in States(nodes) /\ <<t>> \in Seq(nodes)
    BY <1>1, <1>2
  <2> QED
    BY <2>1 DEF States
<1> HIDE DEF to
<1>4. Len(<<t>>) = 1 /\ <<t>>[1] = t /\ Len(at.stack) = 0
  OBVIOUS
<1>5. SearchOK(nodes, next, to)
  BY <1>2, <1>3, <1>4 DEF SearchOK
<1>6. Cardinality(at.done) \in Nat
  BY <1>1, FS_Subset, FS_CardinalityType DEF IsGraph
<1>7. Progressed(to) = Progressed(at) + 1
  BY <1>3, <1>4, <1>6 DEF Progressed
<1> QED
  BY <1>5, <1>7 DEF StepGoesOn, to, t, Begun

LEMMA StackGrows ==
    ASSUME NEW nodes, NEW next, IsGraph(nodes, next), NEW at, SearchOK(nodes, next, at),
           Searching(nodes, at), at.stack # << >>,
           NEW t \in next[Last(at.stack)] \ at.done, t \notin Range(at.stack)
    PROVE  StepGoesOn(nodes, next, at, Grown(at, t))
<1> DEFINE stack == at.stack
           n == Len(stack)
           new == Append(stack, t)
           to == [at EXCEPT !.stack = new]
<1>1. /\ at \in States(nodes) /\ stack \in Seq(nodes) /\ n \in Nat /\ n >= 1
      /\ Last(stack) = stack[n] /\ t \in nodes /\ t \notin at.done
  BY StackTop DEF SearchOK, States
<1>2. /\ new \in Seq(nodes) /\ Len(new) = n + 1
      /\ \A i \in 1..n : new[i] = stack[i] /\ stack[i] # t
      /\ new[n + 1] = t
  BY <1>1 DEF Range
<1> HIDE DEF new
<1>3. to.stack = new /\ to.done = at.done /\ to.cycle = at.cycle /\ to \in States(nodes)
  <2>1. at \in States(nodes) /\ new \in Seq(nodes)
    BY <1>1, <1>2
  <2> QED
    BY <2>1 DEF States
<1>4. /\ \A i, j \in 1..n : stack[i] = stack[j] => i = j
      /\ \A i \in 1..n : stack[i] \notin at.done
      /\ \A i \in 1..(n - 1) : stack[i + 1] \in next[stack[i]]
      /\ Ranked(at.done, next) /\ at.cycle = << >>
  BY DEF SearchOK, Searching
<1> HIDE DEF to, stack, n
<1>5. 1..(n + 1) = 1..n \cup {n + 1} /\ \A i \in 1..n : i # n + 1
  BY <1>1
<1>6. \A i, j \in 1..(n + 1) : new[i] = new[j] => i = j
  BY <1>2, <1>4, <1>5
<1>7. \A i \in 1..(n + 1) : new[i] \notin at.done
  BY <1>1, <1>2, <1>4, <1>5
<1>8. ASSUME NEW i \in 1..((n + 1) - 1) PROVE new[i + 1] \in next[new[i]]
  <2>1. CASE i = n
    BY <1>1, <1>2, <2>1 DEF stack
  <2>2. CASE i # n
    <3>1. i \in 1..(n - 1) /\ i \in 1..n /\ i + 1 \in 1..n
      BY <1>1, <2>2
    <3> QED
      BY <1>2, <1>4, <3>1
  <2> QED
    BY <2>1, <2>2
<1>9. SearchOK(nodes, next, to)
  BY <1>2, <1>3, <1>4, <1>6, <1>7, <1>8 DEF SearchOK
<1>10. Cardinality(at.done) \in Nat
  BY <1>1, FS_Subset, FS_CardinalityType DEF IsGraph, States
<1>11. Progressed(to) = Progressed(at) + 1
  BY <1>1, <1>2, <1>3, <1>10 DEF Progressed, n, stack
<1> QED
  BY <1>9, <1>11 DEF StepGoesOn, to, new, stack, Grown

LEMMA StackShrinks ==
    ASSUME NEW nodes, NEW next, IsGraph(nodes, next), NEW at, SearchOK(nodes, next, at),
           Searching(nodes, at), at.stack # << >>, next[Last(at.stack)] \subseteq at.done
    PROVE  StepGoesOn(nodes, next, at, Shrunk(at))
<1> DEFINE stack == at.stack
           n == Len(stack)
           node == Last(stack)
           new == Front(stack)
           done == at.done \cup {node}
           to == [at EXCEPT !.stack = new, !.done = done]
<1>1. /\ at \in States(nodes) /\ stack \in Seq(nodes) /\ n \in Nat /\ n >= 1
      /\ node = stack[n] /\ node \in nodes /\ node \notin at.done /\ at.done \subseteq nodes
  BY StackTop DEF SearchOK, States
<1>2. /\ new \in Seq(nodes) /\ Len(new) = n - 1
      /\ \A i \in 1..(n - 1) : new[i] = stack[i]
  <2>1. new = [i \in 1..(n - 1) |-> stack[i]]
    BY <1>1 DEF Front
  <2> HIDE DEF new, stack, n
  <2>2. \A i \in 1..(n - 1) : stack[i] \in nodes
    BY <1>1 DEF n
  <2>3. new \in [1..(n - 1) -> nodes] /\ n - 1 \in Nat
    BY <1>1, <2>1, <2>2
  <2> QED
    BY <2>1, <2>3
<1> HIDE DEF new, done, node
<1>3. to.stack = new /\ to.done = done /\ to.cycle = at.cycle /\ to \in States(nodes)
  <2>1. at \in States(nodes) /\ new \in Seq(nodes) /\ done \in SUBSET nodes
    BY <1>1, <1>2 DEF done
  <2> QED
    BY <2>1 DEF States
<1>4. /\ \A i, j \in 1..n : stack[i] = stack[j] => i = j
      /\ \A i \in 1..n : stack[i] \notin at.done
      /\ \A i \in 1..(n - 1) : stack[i + 1] \in next[stack[i]]
      /\ Ranked(at.done, next) /\ at.cycle = << >>
  BY DEF SearchOK, Searching
<1>5. IsFiniteSet(at.done) /\ Cardinality(at.done) \in Nat
  BY <1>1, FS_Subset, FS_CardinalityType DEF IsGraph
<1> HIDE DEF to, stack, n
<1>6. \A i \in 1..(n - 1) : i \in 1..n /\ i # n
  BY <1>1
<1>7. \A i, j \in 1..(n - 1) : new[i] = new[j] => i = j
  BY <1>2, <1>4, <1>6
<1>8. \A i \in 1..(n - 1) : new[i] \notin done
  <2>1. n \in 1..n
    BY <1>1
  <2> QED
    BY <1>1, <1>2, <1>4, <1>6, <2>1 DEF done
<1>9. ASSUME NEW i \in 1..((n - 1) - 1) PROVE new[i + 1] \in next[new[i]]
  <2>1. i \in 1..(n - 1) /\ i + 1 \in 1..(n - 1)
    BY <1>1
  <2> QED
    BY <1>2, <1>4, <2>1
<1>10. Ranked(done, next)
  <2>1. next[node] \subseteq at.done
    BY DEF node, stack
  <2> QED
    BY <1>1, <1>4, <1>5, <2>1, RankedMore DEF done
<1>11. SearchOK(nodes, next, to)
  BY <1>2, <1>3, <1>4, <1>7, <1>8, <1>9, <1>10 DEF SearchOK
<1>12. Cardinality(done) = Cardinality(at.done) + 1
  BY <1>1, <1>5, FS_AddElement DEF done
<1>13. Progressed(to) = Progressed(at) + 1
  BY <1>1, <1>2, <1>3, <1>5, <1>12 DEF Progressed, n, stack
<1> QED
  BY <1>11, <1>13 DEF StepGoesOn, to, new, stack, done, node, Shrunk

\* An edge back into the stack closes a cycle.
LEMMA CycleCloses ==
    ASSUME NEW nodes, NEW next, IsGraph(nodes, next), NEW at, SearchOK(nodes, next, at),
           Searching(nodes, at), at.stack # << >>,
           NEW t \in next[Last(at.stack)] \ at.done, t \in Range(at.stack)
    PROVE  StepGoesOn(nodes, next, at, CycleFound(at, t))
<1> DEFINE stack == at.stack
           n == Len(stack)
           i == CHOOSE j \in DOMAIN stack : stack[j] = t
           way == SubSeq(stack, i, n)
           new == Append(way, t)
           to == [at EXCEPT !.cycle = new]
<1>1. /\ at \in States(nodes) /\ stack \in Seq(nodes) /\ n \in Nat /\ n >= 1
      /\ Last(stack) = stack[n] /\ t \in nodes /\ t \in next[stack[n]]
      /\ \A j \in 1..(n - 1) : stack[j + 1] \in next[stack[j]]
  BY StackTop DEF SearchOK, States
<1>2. i \in 1..n /\ stack[i] = t
  <2>1. \E j \in DOMAIN stack : stack[j] = t
    BY DEF Range
  <2>2. DOMAIN stack = 1..n
    BY <1>1
  <2> QED
    BY <2>1, <2>2
<1> HIDE DEF i, stack, n
<1>3. /\ way \in Seq(nodes) /\ Len(way) = n - i + 1
      /\ \A j \in 1..(n - i + 1) : way[j] = stack[i + j - 1]
  <2>1. way = [j \in 1..(n - i + 1) |-> stack[i + j - 1]]
    BY <1>1, <1>2 DEF n
  <2>2. \A j \in 1..(n - i + 1) : i + j - 1 \in 1..n
    BY <1>1, <1>2
  <2>3. \A j \in 1..(n - i + 1) : stack[i + j - 1] \in nodes
    BY <1>1, <2>2 DEF n
  <2>4. n - i + 1 \in Nat
    BY <1>1, <1>2
  <2> HIDE DEF way
  <2>5. way \in [1..(n - i + 1) -> nodes]
    BY <2>1, <2>3
  <2> QED
    BY <2>1, <2>4, <2>5
<1> HIDE DEF way
<1> DEFINE m == n - i + 1
<1>4. m \in Nat /\ m >= 1 /\ i + m - 1 = n /\ i + 1 - 1 = i
  BY <1>1, <1>2
<1>5. /\ new \in Seq(nodes) /\ Len(new) = m + 1 /\ new[m + 1] = t
      /\ \A j \in 1..m : new[j] = stack[i + j - 1]
  BY <1>1, <1>3, <1>4
<1> HIDE DEF new
<1>6. to.stack = stack /\ to.done = at.done /\ to.cycle = new /\ to \in States(nodes)
  <2>1. at \in States(nodes) /\ new \in Seq(nodes)
    BY <1>1, <1>5
  <2> QED
    BY <2>1 DEF States, stack
<1>7. IsCycle(new, next)
  <2>1. new[1] = t
    <3>1. 1 \in 1..m
      BY <1>4
    <3> QED
      BY <1>2, <1>4, <1>5, <3>1
  <2>2. ASSUME NEW j \in 1..((m + 1) - 1) PROVE new[j + 1] \in next[new[j]]
    <3>1. CASE j = m
      BY <1>1, <1>4, <1>5, <3>1
    <3>2. CASE j # m
      <4>1. j \in 1..m /\ j + 1 \in 1..m /\ i + j - 1 \in 1..(n - 1)
            /\ i + (j + 1) - 1 = (i + j - 1) + 1
        BY <1>1, <1>2, <1>4, <3>2
      <4>2. new[j] = stack[i + j - 1] /\ new[j + 1] = stack[(i + j - 1) + 1]
        BY <1>5, <4>1
      <4> QED
        BY <1>1, <4>1, <4>2
    <3> QED
      BY <3>1, <3>2
  <2>3. Len(new) > 1
    BY <1>4, <1>5
  <2> QED
    BY <1>5, <2>1, <2>2, <2>3 DEF IsCycle
<1>8. new # << >>
  BY <1>4, <1>5
<1>9. SearchOK(nodes, next, to)
  BY <1>6, <1>7, <1>8 DEF SearchOK, stack
<1>10. StepGoesOn(nodes, next, at, to)
  BY <1>6, <1>8, <1>9 DEF StepGoesOn, Searching
<1> QED
  BY <1>10 DEF to, new, way, i, n, stack, CycleFound

LEMMA SearchStepOK ==
    ASSUME NEW nodes, NEW next, IsGraph(nodes, next), NEW at, SearchOK(nodes, next, at)
    PROVE  /\ ~Searching(nodes, at) => SearchStep(nodes, next, at) = at
           /\ Searching(nodes, at) => StepGoesOn(nodes, next, at, SearchStep(nodes, next, at))
<1> DEFINE node == Last(at.stack)
           open == next[node] \ at.done
           t == First(open)
           to == SearchStep(nodes, next, at)
<1>1. CASE ~Searching(nodes, at)
  BY <1>1 DEF SearchStep, Searching
<1>2. CASE Searching(nodes, at) /\ at.stack = << >>
  <2>1. to = Begun(nodes, at)
    BY <1>2 DEF SearchStep, Searching, Begun
  <2>2. StepGoesOn(nodes, next, at, Begun(nodes, at))
    BY <1>2, StackBegins
  <2> HIDE DEF to
  <2> QED
    BY <1>2, <2>1, <2>2 DEF to
<1>3. CASE Searching(nodes, at) /\ at.stack # << >> /\ open = {}
  <2>1. to = Shrunk(at)
    BY <1>3 DEF SearchStep, Searching, Shrunk
  <2>2. next[Last(at.stack)] \subseteq at.done
    BY <1>3
  <2>3. StepGoesOn(nodes, next, at, Shrunk(at))
    BY <1>3, <2>2, StackShrinks
  <2> QED
    BY <1>3, <2>1, <2>3
<1>4. CASE Searching(nodes, at) /\ at.stack # << >> /\ open # {}
  <2>1. next[node] \subseteq nodes
    BY <1>4, StackTop
  <2>2. t \in open
    <3>1. IsFiniteSet(open) /\ open \subseteq DOMAIN Place
      BY <2>1, FS_Subset DEF IsGraph
    <3> HIDE DEF open
    <3> QED
      BY <1>4, <3>1, FirstIsOne
  <2>3. CASE t \notin Range(at.stack)
    <3>1. to = Grown(at, t)
      BY <1>4, <2>3 DEF SearchStep, Searching, Grown
    <3>2. StepGoesOn(nodes, next, at, Grown(at, t))
      <4> HIDE DEF t
      <4> QED
        BY <1>4, <2>2, <2>3, StackGrows
    <3> QED
      BY <1>4, <3>1, <3>2
  <2>4. CASE t \in Range(at.stack)
    <3>1. to = CycleFound(at, t)
      BY <1>4, <2>4 DEF SearchStep, Searching, CycleFound
    <3>2. StepGoesOn(nodes, next, at, CycleFound(at, t))
      <4> HIDE DEF t
      <4> QED
        BY <1>4, <2>2, <2>4, CycleCloses
    <3> QED
      BY <1>4, <3>1, <3>2
  <2> QED
    BY <2>3, <2>4
<1> QED
  BY <1>1, <1>2, <1>3, <1>4

FirstLook == [stack |-> << >>, done |-> {}, cycle |-> << >>]

IsSearch(search, nodes, next) ==
    search = [i \in 0..(2 * Cardinality(nodes)) |->
                 IF i = 0 THEN FirstLook ELSE SearchStep(nodes, next, search[i - 1])]

LEMMA FirstLookOK ==
    ASSUME NEW nodes, NEW next, IsGraph(nodes, next)
    PROVE  SearchOK(nodes, next, FirstLook) /\ Progressed(FirstLook) = 0
<1>1. FirstLook.stack = << >> /\ FirstLook.done = {} /\ FirstLook.cycle = << >>
  BY DEF FirstLook
<1>2. FirstLook \in States(nodes)
  BY DEF FirstLook, States
<1>3. Ranked({}, next)
  BY DEF Ranked
<1>4. SearchOK(nodes, next, FirstLook)
  BY <1>1, <1>2, <1>3 DEF SearchOK
<1>5. Progressed(FirstLook) = 0
  BY <1>1, FS_EmptySet DEF Progressed
<1> QED
  BY <1>4, <1>5

LEMMA SearchExists ==
    ASSUME NEW nodes, NEW next, IsGraph(nodes, next)
    PROVE  \E search : IsSearch(search, nodes, next)
<1> DEFINE n == 2 * Cardinality(nodes)
           X == {at \in States(nodes) : SearchOK(nodes, next, at)}
           step == [at \in X |-> SearchStep(nodes, next, at)]
<1>1. n \in Nat
  BY FS_CardinalityType DEF IsGraph
<1>2. FirstLook \in X
  BY FirstLookOK DEF SearchOK
<1>3. ASSUME NEW at \in X PROVE SearchStep(nodes, next, at) \in X
  <2>1. SearchOK(nodes, next, SearchStep(nodes, next, at))
    BY SearchStepOK DEF StepGoesOn
  <2> QED
    BY <2>1 DEF SearchOK
<1>4. step \in [X -> X] /\ \A at \in X : step[at] = SearchStep(nodes, next, at)
  BY <1>3
<1> HIDE DEF step, X, n
<1>5. PICK g : IsIteration(g, n, X, FirstLook, step)
  BY <1>1, <1>2, <1>4, Iterates
<1>6. ASSUME NEW i \in 0..n
      PROVE  g[i] = IF i = 0 THEN FirstLook ELSE SearchStep(nodes, next, g[i - 1])
  <2>1. i # 0 => i \in 1..n /\ i - 1 \in 0..n
    BY <1>1
  <2> QED
    BY <1>4, <1>5, <2>1 DEF IsIteration
<1>7. IsSearch(g, nodes, next)
  <2>1. g = [i \in 0..n |-> g[i]]
    BY <1>5 DEF IsIteration
  <2> QED
    BY <1>6, <2>1 DEF IsSearch, n
<1> QED
  BY <1>7

\* A search that goes on has not yet taken all its steps.
LEMMA SearchEnds ==
    ASSUME NEW nodes, NEW next, IsGraph(nodes, next), NEW at, SearchOK(nodes, next, at),
           Searching(nodes, at)
    PROVE  Progressed(at) < 2 * Cardinality(nodes)
<1> DEFINE n == Len(at.stack)
           rest == nodes \ at.done
<1>1. /\ at.stack \in Seq(nodes) /\ n \in Nat /\ at.done \subseteq nodes
      /\ at.stack \in [1..n -> nodes]
  BY DEF SearchOK, States
<1>2. /\ IsFiniteSet(at.done) /\ IsFiniteSet(rest) /\ Cardinality(at.done) \in Nat
      /\ Cardinality(rest) \in Nat /\ Cardinality(nodes) \in Nat
  BY <1>1, FS_Subset, FS_CardinalityType DEF IsGraph
<1>3. Cardinality(rest) = Cardinality(nodes) - Cardinality(at.done)
  <2>1. nodes \cap at.done = at.done
    BY <1>1
  <2> QED
    BY <2>1, FS_Difference DEF IsGraph
<1>4. n <= Cardinality(rest)
  <2>1. at.stack \in Injection(1..n, rest)
    <3>1. \A i \in 1..n : at.stack[i] \in rest
      BY <1>1 DEF SearchOK
    <3>2. \A i, j \in 1..n : at.stack[i] = at.stack[j] => i = j
      BY DEF SearchOK
    <3>3. at.stack \in [1..n -> rest]
      BY <1>1, <3>1
    <3> HIDE DEF n, rest
    <3> QED
      BY <3>2, <3>3 DEF Injection, IsInjective
  <2>2. Cardinality(1..n) <= Cardinality(rest)
    <3> HIDE DEF n, rest
    <3> QED
      BY <1>2, <2>1, FS_Injection
  <2>3. Cardinality(1..n) = n
    <3>1. 1 \in Int /\ n \in Int
      BY <1>1
    <3>2. Cardinality(1..n) = IF 1 > n THEN 0 ELSE n - 1 + 1
      <4> HIDE DEF n
      <4> QED
        BY <3>1, FS_Interval
    <3> QED
      BY <1>1, <3>2
  <2> QED
    BY <2>2, <2>3
<1>5. Cardinality(at.done) < Cardinality(nodes)
  <2>1. at.done # nodes
    BY DEF Searching
  <2> QED
    BY <1>1, <1>2, <2>1, FS_Subset DEF IsGraph
<1> QED
  BY <1>1, <1>2, <1>3, <1>4, <1>5 DEF Progressed

\* findCyclePath (dag-compiler.ts:186-235) closes a cycle of the graph, and closes none
\* only where edges can be made to go down, so that there is none.
THEOREM CyclesAreFound ==
    ASSUME NEW nodes, NEW next, IsGraph(nodes, next)
    PROVE  LET cycle == FindCycle(nodes, next)
           IN  /\ cycle \in Seq(nodes)
               /\ cycle = << >> => Ranked(nodes, next)
               /\ cycle # << >> => IsCycle(cycle, next)
<1> DEFINE n == 2 * Cardinality(nodes)
           search == CHOOSE search : IsSearch(search, nodes, next)
<1>1. n \in Nat
  BY FS_CardinalityType DEF IsGraph
<1>2. IsSearch(search, nodes, next)
  BY SearchExists
<1>3. FindCycle(nodes, next) = search[n].cycle
  BY DEF FindCycle, IsSearch, FirstLook
<1> HIDE DEF search
<1>4. search[0] = FirstLook /\ \A i \in 1..n : search[i] = SearchStep(nodes, next, search[i - 1])
  <2>1. \A i \in 0..n :
            search[i] = IF i = 0 THEN FirstLook ELSE SearchStep(nodes, next, search[i - 1])
    BY <1>2 DEF IsSearch
  <2> HIDE DEF n
  <2>2. 0 \in 0..n /\ \A i \in 1..n : i \in 0..n /\ i # 0
    BY <1>1
  <2> QED
    BY <2>1, <2>2
<1> DEFINE C == {i \in Nat : /\ SearchOK(nodes, next, search[i])
                             /\ Searching(nodes, search[i]) => Progressed(search[i]) = i}
<1>5. 0 \in C
  BY <1>4, FirstLookOK
<1>6. ASSUME NEW i \in 0..(n - 1), i \in C PROVE i + 1 \in C
  <2>1. i + 1 \in Nat /\ i \in Nat /\ search[i + 1] = SearchStep(nodes, next, search[i])
    <3>1. i + 1 \in 1..n /\ (i + 1) - 1 = i
      BY <1>1
    <3> QED
      BY <1>4, <3>1
  <2>2. SearchOK(nodes, next, search[i])
    BY <1>6
  <2>3. CASE ~Searching(nodes, search[i])
    <3>1. search[i + 1] = search[i]
      BY <2>1, <2>2, <2>3, SearchStepOK
    <3> QED
      BY <2>1, <2>2, <2>3, <3>1
  <2>4. CASE Searching(nodes, search[i])
    <3>1. StepGoesOn(nodes, next, search[i], search[i + 1])
      BY <2>1, <2>2, <2>4, SearchStepOK
    <3>2. Progressed(search[i]) = i
      BY <1>6, <2>4
    <3> QED
      BY <2>1, <3>1, <3>2 DEF StepGoesOn
  <2> QED
    BY <2>3, <2>4
<1>7. SearchOK(nodes, next, search[n]) /\ ~Searching(nodes, search[n])
  <2>1. n \in C
    <3> HIDE DEF C, n
    <3> QED
      BY <1>1, <1>5, <1>6, CountTo
  <2>2. ASSUME Searching(nodes, search[n]) PROVE FALSE
    <3>1. Progressed(search[n]) = n /\ Progressed(search[n]) < n
      BY <2>1, <2>2, SearchEnds
    <3> HIDE DEF n
    <3> QED
      BY <1>1, <3>1
  <2> QED
    BY <2>1, <2>2
<1> HIDE DEF n
<1>8. search[n].cycle \in Seq(nodes)
  BY <1>7 DEF SearchOK, States
<1>9. search[n].cycle = << >> => Ranked(nodes, next)
  BY <1>7 DEF SearchOK, Searching
<1>10. search[n].cycle # << >> => IsCycle(search[n].cycle, next)
  BY <1>7 DEF SearchOK
<1> QED
  BY <1>3, <1>8, <1>9, <1>10 DEF n

-----------------------------------------------------------------------------
(* What is kept.                                                           *)

\* Nothing outside S is wanted, or goes into what a skill of S consumes.
Wanted(reg, targets, S) ==
    \A s \in DOMAIN reg :
        (\/ targets = {} \/ reg[s].produces \cap targets # {}
         \/ \E t \in S : reg[s].produces \cap reg[t].consumes # {})
        => s \in S

\* One round back from the artifacts that are wanted or consumed.
Back(reg, targets, S) ==
    UNION {Producers(reg, a) : a \in targets \cup UNION {reg[s].consumes : s \in S}}

IsKept(kept, reg, targets) ==
    kept = [i \in 0..Cardinality(DOMAIN reg) |->
               IF i = 0 THEN {} ELSE Back(reg, targets, kept[i - 1])]

LEMMA BackIs ==
    ASSUME NEW reg, NEW targets, NEW S
    PROVE  Back(reg, targets, S) =
               {s \in DOMAIN reg : \/ reg[s].produces \cap targets # {}
                                   \/ \E t \in S : reg[s].produces \cap reg[t].consumes # {}}
<1> DEFINE needs == targets \cup UNION {reg[s].consumes : s \in S}
<1>1. ASSUME NEW s
      PROVE  s \in Back(reg, targets, S) <=> s \in DOMAIN reg /\ reg[s].produces \cap needs # {}
  BY DEF Back, Producers
<1>2. ASSUME NEW s
      PROVE  reg[s].produces \cap needs # {} <=>
                 \/ reg[s].produces \cap targets # {}
                 \/ \E t \in S : reg[s].produces \cap reg[t].consumes # {}
  OBVIOUS
<1> HIDE DEF needs
<1> QED
  BY <1>1, <1>2

LEMMA KeptExists ==
    ASSUME NEW reg, IsRegistry(reg), NEW targets
    PROVE  \E kept : IsKept(kept, reg, targets)
<1> DEFINE n == Cardinality(DOMAIN reg)
           X == SUBSET DOMAIN reg
           step == [S \in X |-> Back(reg, targets, S)]
<1>1. n \in Nat
  BY FS_CardinalityType DEF IsRegistry
<1>2. \A S \in X : Back(reg, targets, S) \in X
  BY BackIs
<1>3. step \in [X -> X] /\ \A S \in X : step[S] = Back(reg, targets, S)
  BY <1>2
<1>4. {} \in X
  OBVIOUS
<1> HIDE DEF step, X, n
<1>5. PICK g : IsIteration(g, n, X, {}, step)
  BY <1>1, <1>3, <1>4, Iterates
<1>6. ASSUME NEW i \in 0..n PROVE g[i] = IF i = 0 THEN {} ELSE Back(reg, targets, g[i - 1])
  <2>1. i # 0 => i \in 1..n /\ i - 1 \in 0..n
    BY <1>1
  <2> QED
    BY <1>3, <1>5, <2>1 DEF IsIteration
<1>7. IsKept(g, reg, targets)
  <2>1. g = [i \in 0..n |-> g[i]]
    BY <1>5 DEF IsIteration
  <2> QED
    BY <1>6, <2>1 DEF IsKept, n
<1> QED
  BY <1>7

\* The last round goes back no further.
LEMMA KeptIsClosed ==
    ASSUME NEW reg, IsRegistry(reg), NEW targets, NEW kept, IsKept(kept, reg, targets)
    PROVE  LET last == kept[Cardinality(DOMAIN reg)]
           IN  /\ last \subseteq DOMAIN reg /\ Back(reg, targets, last) = last
               /\ \A S \in SUBSET DOMAIN reg : Back(reg, targets, S) \subseteq S => last \subseteq S
<1> DEFINE D == DOMAIN reg
           n == Cardinality(D)
           B(S) == Back(reg, targets, S)
<1>1. n \in Nat /\ IsFiniteSet(D)
  BY FS_CardinalityType DEF IsRegistry
<1>2. kept[0] = {} /\ \A i \in 1..n : kept[i] = B(kept[i - 1])
  <2>1. \A i \in 0..n : kept[i] = IF i = 0 THEN {} ELSE B(kept[i - 1])
    BY DEF IsKept
  <2> HIDE DEF n
  <2>2. 0 \in 0..n /\ \A i \in 1..n : i \in 0..n /\ i # 0
    BY <1>1
  <2> QED
    BY <2>1, <2>2
<1>3. \A S : B(S) \subseteq D
  BY BackIs
<1>4. \A S, T : S \subseteq T => B(S) \subseteq B(T)
  BY BackIs
<1> HIDE DEF B, n, D
<1> DEFINE Out(S) == \A T \in SUBSET D : B(T) \subseteq T => S \subseteq T
           C == {i \in Nat : /\ kept[i] \subseteq D /\ kept[i] \subseteq B(kept[i])
                             /\ B(kept[i]) = kept[i] \/ Cardinality(kept[i]) >= i
                             /\ Out(kept[i])}
<1>5. 0 \in C
  BY <1>2, FS_EmptySet
<1>6. ASSUME NEW i \in 0..(n - 1), i \in C PROVE i + 1 \in C
  <2>1. i + 1 \in Nat /\ i \in Nat /\ kept[i + 1] = B(kept[i])
    <3>1. i + 1 \in 1..n /\ (i + 1) - 1 = i
      BY <1>1
    <3> QED
      BY <1>2, <3>1
  <2>2. kept[i + 1] \subseteq D /\ kept[i + 1] \subseteq B(kept[i + 1])
    BY <1>3, <1>4, <1>6, <2>1
  <2>3. Out(kept[i + 1])
    <3> SUFFICES ASSUME NEW T \in SUBSET D, B(T) \subseteq T PROVE kept[i + 1] \subseteq T
      OBVIOUS
    <3>1. kept[i] \subseteq T
      BY <1>6
    <3> QED
      BY <1>4, <2>1, <3>1
  <2>4. B(kept[i + 1]) = kept[i + 1] \/ Cardinality(kept[i + 1]) >= i + 1
    <3>1. CASE B(kept[i]) = kept[i]
      BY <2>1, <3>1
    <3>2. CASE B(kept[i]) # kept[i]
      <4>1. PICK s \in kept[i + 1] : s \notin kept[i]
        BY <1>6, <2>1, <3>2
      <4>2. /\ IsFiniteSet(kept[i]) /\ IsFiniteSet(kept[i + 1])
            /\ Cardinality(kept[i]) \in Nat /\ Cardinality(kept[i + 1]) \in Nat
        BY <1>1, <1>6, <2>2, FS_Subset, FS_CardinalityType
      <4>3. Cardinality(kept[i] \cup {s}) = Cardinality(kept[i]) + 1
        BY <4>1, <4>2, FS_AddElement
      <4>4. kept[i] \cup {s} \subseteq kept[i + 1]
        BY <1>6, <2>1, <4>1
      <4>5. Cardinality(kept[i] \cup {s}) <= Cardinality(kept[i + 1])
        BY <4>2, <4>4, FS_Subset
      <4>6. Cardinality(kept[i]) >= i
        BY <1>6, <3>2
      <4> QED
        BY <2>1, <4>2, <4>3, <4>5, <4>6
    <3> QED
      BY <3>1, <3>2
  <2> HIDE DEF Out
  <2> QED
    BY <2>1, <2>2, <2>3, <2>4
<1>7. n \in C
  <2> HIDE DEF C
  <2> QED
    BY <1>1, <1>5, <1>6, CountTo
<1>8. B(kept[n]) = kept[n]
  <2>1. CASE Cardinality(kept[n]) >= n
    <3>1. Cardinality(kept[n]) <= Cardinality(D) /\ Cardinality(kept[n]) \in Nat
      BY <1>1, <1>7, FS_Subset, FS_CardinalityType
    <3>2. Cardinality(kept[n]) = Cardinality(D)
      BY <1>1, <2>1, <3>1 DEF n
    <3>3. kept[n] = D
      BY <1>1, <1>7, <3>2, FS_Subset
    <3> QED
      BY <1>3, <1>7, <3>3
  <2> QED
    BY <1>7, <2>1
<1> QED
  BY <1>7, <1>8 DEF B, n, D

\* resolveKeptSkills (dag-compiler.ts:121-184) keeps the least set of skills that holds
\* the producers of what is wanted and of whatever is consumed in it.
THEOREM KeptIsLeast ==
    ASSUME NEW reg, IsRegistry(reg), NEW targets
    PROVE  /\ KeptSkills(reg, targets) \subseteq DOMAIN reg
           /\ Wanted(reg, targets, KeptSkills(reg, targets))
           /\ \A S \in SUBSET DOMAIN reg :
                  Wanted(reg, targets, S) => KeptSkills(reg, targets) \subseteq S
<1> DEFINE kept == CHOOSE kept : IsKept(kept, reg, targets)
           last == kept[Cardinality(DOMAIN reg)]
<1>1. IsKept(kept, reg, targets)
  BY KeptExists
<1>2. targets # {} => KeptSkills(reg, targets) = last
  BY DEF KeptSkills, IsKept, Back
<1>3. targets = {} => KeptSkills(reg, targets) = DOMAIN reg
  BY DEF KeptSkills
<1> HIDE DEF kept
<1>4. /\ last \subseteq DOMAIN reg /\ Back(reg, targets, last) = last
      /\ \A S \in SUBSET DOMAIN reg : Back(reg, targets, S) \subseteq S => last \subseteq S
  BY <1>1, KeptIsClosed
<1> HIDE DEF last
<1>5. CASE targets = {}
  BY <1>3, <1>5 DEF Wanted
<1>6. CASE targets # {}
  <2>1. \A S \in SUBSET DOMAIN reg : Wanted(reg, targets, S) <=> Back(reg, targets, S) \subseteq S
    BY <1>6, BackIs DEF Wanted
  <2> QED
    BY <1>2, <1>4, <1>6, <2>1
<1> QED
  BY <1>5, <1>6

-----------------------------------------------------------------------------
(* The critical path.                                                      *)

LEMMA GreatestIs ==
    ASSUME NEW S, S \subseteq Int, NEW m \in S, \A x \in S : x <= m
    PROVE  Max(S) = m
<1>1. \E x \in S : \A y \in S : x >= y
  OBVIOUS
<1>2. Max(S) \in S /\ \A y \in S : Max(S) >= y
  BY <1>1 DEF Max
<1> HIDE DEF Max
<1>3. Max(S) \in Int /\ m \in Int /\ Max(S) >= m /\ Max(S) <= m
  BY <1>2
<1> QED
  BY <1>3

DepthsOf(levels, S) == {Depth(levels, p) : p \in S}

\* A skill is one level above the highest of those it waits for.
LEMMA DepthsBelow ==
    ASSUME NEW reg, NEW levels, IsLevelling(levels, reg), NEW s \in UNION Range(levels)
    PROVE  LET below == DepthsOf(levels, Predecessors(reg, s))
           IN  /\ Depth(levels, s) = 1 + Max({0} \cup below)
               /\ Predecessors(reg, s) # {} => Depth(levels, s) = 1 + Max(below)
<1> DEFINE P == Predecessors(reg, s)
           d == Depth(levels, s)
           below == DepthsOf(levels, P)
<1>1. /\ d \in Nat /\ d >= 1
      /\ \A x \in below : x \in Nat /\ x <= d - 1
      /\ d = 1 => P = {}
      /\ P # {} => d > 1
      /\ d > 1 => d - 1 \in below
  <2>1. \A p \in P : Depth(levels, p) \in 1..Len(levels) /\ Depth(levels, p) < d
    BY DepthFacts
  <2>2. Len(levels) \in Nat /\ d \in 1..Len(levels)
    BY DepthFacts, LevelsPlace
  <2>3. /\ d = 1 <=> P = {}
        /\ d > 1 => \E p \in P : Depth(levels, p) = d - 1
    BY DepthFacts
  <2> HIDE DEF P, d
  <2> QED
    BY <2>1, <2>2, <2>3 DEF DepthsOf
<1> HIDE DEF P, d, below
<1>2. CASE d = 1
  <2>1. below = {}
    BY <1>1, <1>2 DEF below, DepthsOf
  <2>2. Max({0} \cup below) = 0
    BY <2>1, GreatestIs
  <2> QED
    BY <1>1, <1>2, <2>2 DEF P, d, below
<1>3. CASE d > 1
  <2>1. Max(below) = d - 1
    BY <1>1, <1>3, GreatestIs
  <2>2. Max({0} \cup below) = d - 1
    <3>1. \A x \in {0} \cup below : x \in Int /\ x <= d - 1
      BY <1>1, <1>3
    <3>2. d - 1 \in {0} \cup below
      BY <1>1, <1>3
    <3> QED
      BY <3>1, <3>2, GreatestIs
  <2> QED
    BY <1>1, <2>1, <2>2 DEF P, d, below
<1> QED
  BY <1>1, <1>2, <1>3

IsDistance(distance, reg) ==
    distance = [s \in DOMAIN reg |->
                   IF Predecessors(reg, s) = {} THEN 1
                   ELSE 1 + Max({distance[p] : p \in Predecessors(reg, s)})]

\* All skills are placed.
AllPlaced(levels, reg) ==
    /\ IsRegistry(reg) /\ DOMAIN reg # {}
    /\ IsLevelling(levels, reg) /\ UNION Range(levels) = DOMAIN reg

\* The distance of a skill is its level.
LEMMA DistanceIsDepth ==
    ASSUME NEW reg, NEW levels, AllPlaced(levels, reg)
    PROVE  /\ \E distance : IsDistance(distance, reg)
           /\ \A distance : IsDistance(distance, reg) =>
                  \A s \in DOMAIN reg : distance[s] = Depth(levels, s)
<1> DEFINE D == DOMAIN reg
           P(s) == Predecessors(reg, s)
           deep == [s \in D |-> Depth(levels, s)]
<1>1. \A s \in D : P(s) \subseteq D
  BY DEF Predecessors
<1>2. ASSUME NEW s \in D
      PROVE  /\ Depth(levels, s) \in Nat
             /\ \A p \in P(s) : Depth(levels, p) < Depth(levels, s)
             /\ P(s) = {} => Depth(levels, s) = 1
             /\ P(s) # {} => Depth(levels, s) = 1 + Max(DepthsOf(levels, P(s)))
  <2>1. IsLevelling(levels, reg) /\ s \in UNION Range(levels)
    BY DEF AllPlaced
  <2>2. Len(levels) \in Nat
    BY <2>1, LevelsPlace
  <2>3. Depth(levels, s) \in Nat /\ (P(s) = {} => Depth(levels, s) = 1)
    BY <2>1, <2>2, DepthFacts
  <2>4. \A p \in P(s) : Depth(levels, p) < Depth(levels, s)
    BY <2>1, DepthFacts
  <2>5. P(s) # {} => Depth(levels, s) = 1 + Max(DepthsOf(levels, P(s)))
    BY <2>1, DepthsBelow
  <2> QED
    BY <2>3, <2>4, <2>5
<1>3. IsDistance(deep, reg)
  <2>1. ASSUME NEW s \in D
        PROVE  deep[s] = IF P(s) = {} THEN 1 ELSE 1 + Max({deep[p] : p \in P(s)})
    <3>1. {deep[p] : p \in P(s)} = DepthsOf(levels, P(s))
      BY <1>1 DEF DepthsOf
    <3>2. deep[s] = Depth(levels, s)
      OBVIOUS
    <3> HIDE DEF deep
    <3> QED
      BY <1>2, <3>1, <3>2
  <2>2. deep = [s \in D |-> deep[s]]
    OBVIOUS
  <2> HIDE DEF deep
  <2> QED
    BY <2>1, <2>2 DEF IsDistance
<1>4. ASSUME NEW distance, IsDistance(distance, reg), NEW s \in D, distance[s] # Depth(levels, s)
      PROVE  FALSE
  <2> DEFINE S == {t \in D : distance[t] # Depth(levels, t)}
  <2>1. IsFiniteSet(S) /\ S # {}
    BY <1>4, FS_Subset DEF AllPlaced, IsRegistry
  <2>2. \A t \in S : deep[t] \in Nat /\ deep[t] = Depth(levels, t)
    BY <1>2
  <2>3. PICK t \in S : \A u \in S : deep[t] <= deep[u]
    <3> HIDE DEF S, deep
    <3> QED
      BY <2>1, <2>2, LowestOf
  <2>4. \A p \in P(t) : distance[p] = Depth(levels, p)
    <3> SUFFICES ASSUME NEW p \in P(t), p \in S PROVE FALSE
      BY <1>1
    <3>1. Depth(levels, p) < Depth(levels, t)
      BY <1>2
    <3>2. deep[p] = Depth(levels, p) /\ deep[t] = Depth(levels, t) /\ deep[t] <= deep[p]
      BY <2>2, <2>3
    <3>3. Depth(levels, p) \in Nat /\ Depth(levels, t) \in Nat
      BY <1>2
    <3> HIDE DEF deep
    <3> QED
      BY <3>1, <3>2, <3>3
  <2>5. {distance[p] : p \in P(t)} = DepthsOf(levels, P(t))
    BY <2>4 DEF DepthsOf
  <2>6. distance[t] = IF P(t) = {} THEN 1 ELSE 1 + Max({distance[p] : p \in P(t)})
    BY <1>4 DEF IsDistance
  <2> QED
    BY <1>2, <2>5, <2>6
<1> QED
  BY <1>3, <1>4

Furthest(distance, S) == First({s \in S : \A t \in S : distance[t] <= distance[s]})

IsBack(back, distance, reg) ==
    back = [i \in 1..distance[Furthest(distance, DOMAIN reg)] |->
               IF i = 1 THEN Furthest(distance, DOMAIN reg)
               ELSE Furthest(distance, Predecessors(reg, back[i - 1]))]

LEMMA FurthestIs ==
    ASSUME NEW S, IsFiniteSet(S), S # {}, S \subseteq DOMAIN Place,
           NEW distance, \A s \in S : distance[s] \in Nat
    PROVE  /\ Furthest(distance, S) \in S
           /\ \A t \in S : distance[t] <= distance[Furthest(distance, S)]
<1> DEFINE T == {s \in S : \A t \in S : distance[t] <= distance[s]}
<1>1. T # {}
  BY HighestOf
<1>2. IsFiniteSet(T) /\ T \subseteq DOMAIN Place
  BY FS_Subset
<1>3. Furthest(distance, S) = First(T)
  BY DEF Furthest
<1>4. First(T) \in T
  <2> HIDE DEF T
  <2> QED
    BY <1>1, <1>2, FirstIsOne
<1> QED
  BY <1>3, <1>4

\* The way back from the last level goes through every level.
LEMMA WayBack ==
    ASSUME NEW reg, NEW levels, AllPlaced(levels, reg), NEW distance, IsDistance(distance, reg)
    PROVE  LET furthest(S) == Furthest(distance, S)
           IN  /\ furthest(DOMAIN reg) \in DOMAIN reg
               /\ distance[furthest(DOMAIN reg)] = Len(levels)
               /\ \A s \in DOMAIN reg : distance[s] \in 1..Len(levels)
               /\ \A s \in DOMAIN reg : distance[s] > 1 =>
                      /\ furthest(Predecessors(reg, s)) \in Predecessors(reg, s)
                      /\ distance[furthest(Predecessors(reg, s))] = distance[s] - 1
<1> DEFINE D == DOMAIN reg
           m == Len(levels)
           P(s) == Predecessors(reg, s)
           furthest(S) == Furthest(distance, S)
<1>1. IsRegistry(reg) /\ IsLevelling(levels, reg) /\ UNION Range(levels) = D /\ D # {}
  BY DEF AllPlaced
<1>2. m \in Nat /\ DOMAIN levels = 1..m
  BY <1>1, LevelsPlace
<1>3. \A s \in D : distance[s] = Depth(levels, s) /\ Depth(levels, s) \in 1..m
  BY <1>1, DistanceIsDepth, DepthFacts
<1>4. \A s \in D : distance[s] \in Nat /\ distance[s] \in 1..m
  BY <1>2, <1>3
<1>5. /\ furthest(D) \in D /\ \A t \in D : distance[t] <= distance[furthest(D)]
  BY <1>1, <1>4, FurthestIs DEF IsRegistry
<1>6. \E s \in D : distance[s] = m
  <2>1. PICK s \in D : TRUE
    BY <1>1
  <2>2. m \in 1..m
    BY <1>2, <1>4, <2>1
  <2>3. PICK t \in levels[m] : TRUE
    BY <1>1, <2>2 DEF IsLevelling
  <2>4. t \in D
    BY <1>1, <1>2, <2>2, <2>3 DEF Range
  <2>5. m = Depth(levels, t)
    BY <1>1, <2>2, <2>3, <2>4, DepthFacts
  <2> QED
    BY <1>3, <2>4, <2>5
<1>7. distance[furthest(D)] = m
  <2> HIDE DEF furthest, m
  <2> QED
    BY <1>2, <1>4, <1>5, <1>6
<1>8. ASSUME NEW s \in D, distance[s] > 1
      PROVE  furthest(P(s)) \in P(s) /\ distance[furthest(P(s))] = distance[s] - 1
  <2>1. PICK p \in P(s) : Depth(levels, p) = Depth(levels, s) - 1
    BY <1>1, <1>3, <1>8, DepthFacts
  <2>2. IsFiniteSet(P(s)) /\ P(s) \subseteq D
    BY <1>1, PredecessorsFinite
  <2>3. /\ furthest(P(s)) \in P(s) /\ \A t \in P(s) : distance[t] <= distance[furthest(P(s))]
    BY <1>1, <1>4, <2>1, <2>2, FurthestIs DEF IsRegistry
  <2>4. \A q \in P(s) : Depth(levels, q) < Depth(levels, s)
    BY <1>1, DepthFacts
  <2> HIDE DEF furthest, m, P
  <2>5. /\ distance[furthest(P(s))] < distance[s]
        /\ distance[s] - 1 <= distance[furthest(P(s))]
    BY <1>3, <2>1, <2>2, <2>3, <2>4
  <2>6. distance[furthest(P(s))] \in Nat /\ distance[s] \in Nat
    BY <1>4, <2>2, <2>3
  <2> QED
    BY <2>3, <2>5, <2>6
<1> QED
  BY <1>4, <1>5, <1>7, <1>8

LEMMA BackExists ==
    ASSUME NEW reg, NEW levels, AllPlaced(levels, reg), NEW distance, IsDistance(distance, reg)
    PROVE  \E back : IsBack(back, distance, reg)
<1> DEFINE D == DOMAIN reg
           m == Len(levels)
           P(s) == Predecessors(reg, s)
           top == Furthest(distance, D)
           step == [s \in D |-> IF distance[s] > 1 THEN Furthest(distance, P(s)) ELSE s]
<1>1. /\ m \in Nat /\ top \in D /\ distance[top] = m
      /\ \A s \in D : /\ distance[s] \in 1..m
                      /\ distance[s] > 1 => /\ Furthest(distance, P(s)) \in D
                                            /\ distance[Furthest(distance, P(s))] = distance[s] - 1
  <2>1. m \in Nat
    BY LevelsPlace DEF AllPlaced
  <2>2. \A s \in D : P(s) \subseteq D
    BY DEF Predecessors
  <2> QED
    BY <2>1, <2>2, WayBack
<1>2. m >= 1 /\ m - 1 \in Nat
  BY <1>1
<1> HIDE DEF m, P, top
<1>3. step \in [D -> D] /\ \A s \in D : distance[s] > 1 => step[s] = Furthest(distance, P(s))
  BY <1>1
<1> HIDE DEF step, D
<1>4. PICK g : IsIteration(g, m - 1, D, top, step)
  BY <1>1, <1>2, <1>3, Iterates
<1>5. /\ g[0] = top /\ \A i \in 0..(m - 1) : g[i] \in D
      /\ \A i \in 1..(m - 1) : g[i] = step[g[i - 1]]
  BY <1>4 DEF IsIteration
<1> DEFINE C == {i \in Nat : i <= m - 1 => distance[g[i]] = m - i}
<1>6. ASSUME NEW k \in 0..(m - 1) PROVE distance[g[k]] = m - k
  <2>1. 0 \in C
    BY <1>1, <1>5
  <2>2. ASSUME NEW i \in 0..(k - 1), i \in C PROVE i + 1 \in C
    <3>1. i \in 0..(m - 1) /\ i + 1 \in 1..(m - 1) /\ (i + 1) - 1 = i /\ i <= m - 1 /\ m - i > 1
      BY <1>1
    <3>2. distance[g[i]] = m - i
      BY <2>2, <3>1
    <3>3. g[i + 1] = Furthest(distance, P(g[i]))
      <4>1. g[i + 1] = step[g[i]] /\ g[i] \in D
        BY <1>5, <3>1
      <4> QED
        BY <1>3, <3>1, <3>2, <4>1
    <3>4. distance[g[i + 1]] = (m - i) - 1
      BY <1>1, <1>5, <3>1, <3>2, <3>3
    <3> QED
      BY <1>1, <3>1, <3>4
  <2>3. k \in Nat /\ k <= m - 1
    BY <1>1
  <2>4. k \in C
    <3> HIDE DEF C
    <3> QED
      BY <2>1, <2>2, <2>3, CountTo
  <2> QED
    BY <2>3, <2>4
<1> DEFINE back == [i \in 1..m |-> g[i - 1]]
<1>7. ASSUME NEW i \in 1..m
      PROVE  back[i] = IF i = 1 THEN top ELSE Furthest(distance, P(back[i - 1]))
  <2>1. back[i] = g[i - 1]
    OBVIOUS
  <2>2. CASE i = 1
    BY <1>5, <2>1, <2>2
  <2>3. CASE i # 1
    <3>1. i - 1 \in 1..m /\ i - 1 \in 1..(m - 1) /\ i - 2 \in 0..(m - 1) /\ (i - 1) - 1 = i - 2
      BY <1>1, <2>3
    <3>2. back[i - 1] = g[i - 2]
      BY <3>1
    <3>3. g[i - 1] = step[g[i - 2]] /\ g[i - 2] \in D
      BY <1>5, <3>1
    <3>4. distance[g[i - 2]] > 1
      BY <1>1, <1>6, <3>1
    <3> HIDE DEF back
    <3> QED
      BY <1>3, <2>1, <2>3, <3>2, <3>3, <3>4
  <2> QED
    BY <2>2, <2>3
<1>8. back = [i \in 1..m |-> back[i]]
  OBVIOUS
<1> HIDE DEF back
<1>9. IsBack(back, distance, reg)
  BY <1>1, <1>7, <1>8 DEF IsBack, top, P, D
<1> QED
  BY <1>9

\* Where every skill is placed, the critical path takes one skill of every level, each
\* waiting for the one before (dag-compiler.ts:289-348).
THEOREM CriticalPathClimbs ==
    ASSUME NEW reg, NEW levels, AllPlaced(levels, reg)
    PROVE  LET path == CriticalPath(reg)
           IN  /\ path \in Seq(DOMAIN reg) /\ Len(path) = Len(levels)
               /\ \A i \in 1..(Len(path) - 1) : path[i] \in Predecessors(reg, path[i + 1])
<1> DEFINE D == DOMAIN reg
           m == Len(levels)
           P(s) == Predecessors(reg, s)
           distance == CHOOSE distance : IsDistance(distance, reg)
           top == Furthest(distance, D)
           back == CHOOSE back : IsBack(back, distance, reg)
           path == Reverse([i \in DOMAIN back |-> back[i]])
<1>1. IsDistance(distance, reg)
  BY DistanceIsDepth
<1>2. CriticalPath(reg) = path
  BY DEF CriticalPath, IsDistance, IsBack, Furthest
<1> HIDE DEF distance
<1>3. IsBack(back, distance, reg)
  BY <1>1, BackExists
<1> HIDE DEF back
<1>4. /\ m \in Nat /\ top \in D /\ distance[top] = m
      /\ \A s \in D : /\ distance[s] \in 1..m
                      /\ P(s) \subseteq D
                      /\ distance[s] > 1 => /\ Furthest(distance, P(s)) \in P(s)
                                            /\ distance[Furthest(distance, P(s))] = distance[s] - 1
  <2>1. m \in Nat
    BY LevelsPlace DEF AllPlaced
  <2>2. \A s \in D : P(s) \subseteq D
    BY DEF Predecessors
  <2> QED
    BY <1>1, <2>1, <2>2, WayBack
<1>5. /\ DOMAIN back = 1..m
      /\ \A i \in 1..m : back[i] = IF i = 1 THEN top ELSE Furthest(distance, P(back[i - 1]))
  <2>1. distance[Furthest(distance, D)] = m
    BY <1>4
  <2> HIDE DEF m
  <2> QED
    BY <1>3, <2>1 DEF IsBack
<1> HIDE DEF m, top, P, D
<1>6. ASSUME NEW k \in 1..m PROVE back[k] \in D /\ distance[back[k]] = (m - k) + 1
  <2> DEFINE C == {i \in Nat : i + 1 <= m =>
                       back[i + 1] \in D /\ distance[back[i + 1]] = m - i}
  <2>1. 0 \in C
    BY <1>4, <1>5
  <2>2. ASSUME NEW i \in 0..((k - 1) - 1), i \in C PROVE i + 1 \in C
    <3>1. /\ i \in Nat /\ i + 1 \in 1..m /\ (i + 1) + 1 \in 1..m /\ (i + 1) + 1 # 1
          /\ ((i + 1) + 1) - 1 = i + 1 /\ i + 1 <= m /\ m - i > 1
      BY <1>4
    <3>2. back[i + 1] \in D /\ distance[back[i + 1]] = m - i
      BY <2>2, <3>1
    <3>3. back[(i + 1) + 1] = Furthest(distance, P(back[i + 1]))
      BY <1>5, <3>1
    <3>4. back[(i + 1) + 1] \in D /\ distance[back[(i + 1) + 1]] = (m - i) - 1
      BY <1>4, <3>1, <3>2, <3>3
    <3> QED
      BY <1>4, <3>1, <3>4
  <2>3. k - 1 \in Nat /\ (k - 1) + 1 = k /\ k <= m
    BY <1>4
  <2>4. k - 1 \in C
    <3> HIDE DEF C
    <3> QED
      BY <2>1, <2>2, <2>3, CountTo
  <2>5. back[k] \in D /\ distance[back[k]] = m - (k - 1)
    BY <2>3, <2>4
  <2> QED
    BY <1>4, <2>5
<1>7. /\ path \in Seq(D) /\ Len(path) = m
      /\ \A i \in 1..m : path[i] = back[(m - i) + 1]
  <2> DEFINE seq == [i \in DOMAIN back |-> back[i]]
  <2>1. seq \in [1..m -> D] /\ \A i \in 1..m : seq[i] = back[i]
    BY <1>5, <1>6
  <2>2. seq \in Seq(D) /\ Len(seq) = m
    BY <1>4, <2>1
  <2> HIDE DEF seq
  <2>3. path = [i \in 1..m |-> seq[(m - i) + 1]]
    BY <2>2 DEF Reverse, seq
  <2>4. \A i \in 1..m : (m - i) + 1 \in 1..m
    BY <1>4
  <2> HIDE DEF path
  <2>5. path \in [1..m -> D] /\ \A i \in 1..m : path[i] = back[(m - i) + 1]
    BY <2>1, <2>3, <2>4
  <2> QED
    BY <1>4, <2>5
<1> HIDE DEF path
<1>8. ASSUME NEW i \in 1..(m - 1) PROVE path[i] \in P(path[i + 1])
  <2>1. /\ i \in 1..m /\ i + 1 \in 1..m
        /\ (m - i) + 1 \in 1..m /\ (m - i) + 1 # 1 /\ ((m - i) + 1) - 1 = (m - (i + 1)) + 1
        /\ (m - (i + 1)) + 1 \in 1..m
    BY <1>4
  <2>2. path[i] = Furthest(distance, P(path[i + 1]))
    BY <1>5, <1>7, <2>1
  <2>3. path[i + 1] \in D /\ distance[path[i + 1]] > 1
    <3>1. distance[path[i + 1]] = (m - ((m - (i + 1)) + 1)) + 1 /\ path[i + 1] \in D
      BY <1>6, <1>7, <2>1
    <3>2. (m - ((m - (i + 1)) + 1)) + 1 > 1
      BY <1>4
    <3> QED
      BY <3>1, <3>2
  <2> QED
    BY <1>4, <2>2, <2>3
<1> QED
  BY <1>2, <1>7, <1>8 DEF m, P, D

\* No chain of skills that wait for each other is longer than the critical path.
THEOREM CriticalPathIsLongest ==
    ASSUME NEW reg, NEW levels, AllPlaced(levels, reg), NEW chain \in Seq(DOMAIN reg),
           \A i \in 1..(Len(chain) - 1) : chain[i] \in Predecessors(reg, chain[i + 1])
    PROVE  Len(chain) <= Len(CriticalPath(reg))
<1> DEFINE n == Len(chain)
           m == Len(levels)
<1>1. n \in Nat /\ m \in Nat /\ \A i \in 1..n : chain[i] \in DOMAIN reg
  BY LevelsPlace DEF AllPlaced
<1>2. /\ \A s \in DOMAIN reg : Depth(levels, s) \in 1..m
      /\ \A s \in DOMAIN reg : \A p \in Predecessors(reg, s) : Depth(levels, p) < Depth(levels, s)
  BY DepthFacts DEF AllPlaced
<1> HIDE DEF m
<1> DEFINE C == {i \in Nat : i + 1 <= n => Depth(levels, chain[i + 1]) >= i + 1}
<1>3. 0 \in C
  <2>1. 0 + 1 <= n => chain[0 + 1] \in DOMAIN reg
    BY <1>1
  <2> QED
    BY <1>1, <1>2, <2>1
<1>4. ASSUME NEW i \in 0..((n - 1) - 1), i \in C PROVE i + 1 \in C
  <2>1. i + 1 \in 1..n /\ i + 1 \in 1..(n - 1) /\ (i + 1) + 1 \in 1..n /\ i + 1 \in Nat
    BY <1>1
  <2>2. Depth(levels, chain[i + 1]) >= i + 1
    BY <1>4, <2>1
  <2>3. Depth(levels, chain[i + 1]) < Depth(levels, chain[(i + 1) + 1])
    BY <1>1, <1>2, <2>1
  <2>4. Depth(levels, chain[i + 1]) \in 1..m /\ Depth(levels, chain[(i + 1) + 1]) \in 1..m
    BY <1>1, <1>2, <2>1
  <2> QED
    BY <1>1, <2>1, <2>2, <2>3, <2>4
<1>5. ASSUME n = 0 PROVE n <= m
  BY <1>1, <1>5
<1>6. ASSUME n # 0 PROVE n <= m
  <2>1. n - 1 \in Nat /\ (n - 1) + 1 = n /\ n \in 1..n
    BY <1>1, <1>6
  <2>2. n - 1 \in C
    <3> HIDE DEF C
    <3> QED
      BY <1>3, <1>4, <2>1, CountTo
  <2>3. Depth(levels, chain[n]) >= n
    BY <2>1, <2>2
  <2>4. Depth(levels, chain[n]) \in 1..m
    BY <1>1, <1>2, <2>1
  <2> QED
    BY <1>1, <2>3, <2>4
<1>7. Len(CriticalPath(reg)) = m
  BY CriticalPathClimbs DEF m
<1> QED
  BY <1>5, <1>6, <1>7

-----------------------------------------------------------------------------
(* The plan.                                                               *)

Active(reg, targets) == Restrict(reg, KeptSkills(reg, targets))

\* What a kept skill waits for is kept.
LEMMA ActiveSkills ==
    ASSUME NEW reg, IsRegistry(reg), NEW targets
    PROVE  LET active == Active(reg, targets)
               kept == KeptSkills(reg, targets)
           IN  /\ DOMAIN active = kept /\ kept \subseteq DOMAIN reg /\ IsRegistry(active)
               /\ \A s \in kept : /\ active[s] = reg[s]
                                  /\ Predecessors(active, s) = Predecessors(reg, s)
                                  /\ Predecessors(reg, s) \subseteq kept
               /\ \A p, s \in kept : s \in Successors(active, p) <=> p \in Predecessors(reg, s)
<1> DEFINE active == Active(reg, targets)
           kept == KeptSkills(reg, targets)
<1>1. DOMAIN active = kept /\ \A s \in kept : active[s] = reg[s]
  BY DEF Active, Restrict
<1>2. kept \subseteq DOMAIN reg /\ Wanted(reg, targets, kept)
  BY KeptIsLeast
<1> HIDE DEF active, kept
<1>3. IsRegistry(active)
  BY <1>1, <1>2, FS_Subset DEF IsRegistry
<1>4. ASSUME NEW s \in kept
      PROVE  /\ Predecessors(active, s) = Predecessors(reg, s)
             /\ Predecessors(reg, s) \subseteq kept
  <2>1. Predecessors(reg, s) \subseteq kept
    BY <1>2, <1>4 DEF Predecessors, Wanted
  <2>2. ASSUME NEW p PROVE p \in Predecessors(active, s) <=> p \in Predecessors(reg, s)
    BY <1>1, <1>2, <2>1 DEF Predecessors
  <2> QED
    BY <2>1, <2>2
<1>5. ASSUME NEW p \in kept, NEW s \in kept
      PROVE  s \in Successors(active, p) <=> p \in Predecessors(reg, s)
  BY <1>1, <1>2 DEF Predecessors, Successors
<1> QED
  BY <1>1, <1>2, <1>3, <1>4, <1>5 DEF active, kept

LEMMA PlanOfNothing ==
    ASSUME NEW reg, IsRegistry(reg), NEW targets, KeptSkills(reg, targets) = {},
           NEW plan, plan = CompileExecutionPlan(reg, targets)
    PROVE  /\ plan.ok /\ plan.levels = << >> /\ plan.criticalPath = << >>
           /\ plan.pruned = PrunedSkills(reg, targets)
<1>1. DOMAIN Restrict(reg, KeptSkills(reg, targets)) = {}
  BY ActiveSkills DEF Active
<1> QED
  BY <1>1 DEF CompileExecutionPlan

Left(reg, targets) ==
    KeptSkills(reg, targets) \ UNION Range(TopoLevels(Active(reg, targets)))
NextLeft(reg, targets) ==
    [s \in Left(reg, targets) |->
        Successors(Active(reg, targets), s) \cap Left(reg, targets)]

LEMMA PlanOfSkills ==
    ASSUME NEW reg, IsRegistry(reg), NEW targets, KeptSkills(reg, targets) # {},
           NEW plan, plan = CompileExecutionPlan(reg, targets)
    PROVE  LET left == Left(reg, targets)
               active == Active(reg, targets)
           IN  /\ plan.ok <=> left = {}
               /\ plan.levels = TopoLevels(active) /\ plan.pruned = PrunedSkills(reg, targets)
               /\ left = {} => plan.criticalPath = CriticalPath(active)
               /\ left # {} => plan.cycle = FindCycle(left, NextLeft(reg, targets))
<1> DEFINE active == Active(reg, targets)
           left == DOMAIN active \ UNION Range(TopoLevels(active))
           next == [s \in left |-> Successors(active, s) \cap left]
<1>1. DOMAIN active = KeptSkills(reg, targets)
  BY ActiveSkills
<1>2. left = Left(reg, targets) /\ next = NextLeft(reg, targets)
  BY <1>1 DEF Left, NextLeft
<1>3. plan = [ok |-> left = {}, levels |-> TopoLevels(active),
              criticalPath |-> IF left = {} THEN CriticalPath(active) ELSE << >>,
              cycle |-> IF left = {} THEN << >> ELSE FindCycle(left, next),
              pruned |-> PrunedSkills(reg, targets)]
  BY <1>1 DEF CompileExecutionPlan, Active
<1> HIDE DEF left, next, active
<1>4. /\ plan.ok <=> left = {}
      /\ plan.levels = TopoLevels(active) /\ plan.pruned = PrunedSkills(reg, targets)
      /\ plan.criticalPath = IF left = {} THEN CriticalPath(active) ELSE << >>
      /\ plan.cycle = IF left = {} THEN << >> ELSE FindCycle(left, next)
  <2>1. plan.ok <=> left = {}
    <3> DEFINE okay == left = {}
    <3>1. plan = [ok |-> okay, levels |-> TopoLevels(active),
                  criticalPath |-> IF left = {} THEN CriticalPath(active) ELSE << >>,
                  cycle |-> IF left = {} THEN << >> ELSE FindCycle(left, next),
                  pruned |-> PrunedSkills(reg, targets)]
      BY <1>3
    <3> HIDE DEF okay
    <3>2. plan.ok = okay
      BY <3>1
    <3>3. okay <=> left = {}
      BY DEF okay
    <3> QED
      BY <3>2, <3>3
  <2>2. /\ plan.levels = TopoLevels(active) /\ plan.pruned = PrunedSkills(reg, targets)
        /\ plan.criticalPath = IF left = {} THEN CriticalPath(active) ELSE << >>
        /\ plan.cycle = IF left = {} THEN << >> ELSE FindCycle(left, next)
    BY <1>3
  <2> QED
    BY <2>1, <2>2
<1> QED
  BY <1>2, <1>4 DEF active

\* Skills of which each waits for another of them.
IsCircle(reg, S) == S # {} /\ \A s \in S : Predecessors(reg, s) \cap S # {}

\* compileExecutionPlan (dag-compiler.ts:363-428) gives a plan unless skills that are kept
\* wait for each other in a circle, and then names skills that do.
THEOREM CompilesUnlessCircular ==
    ASSUME NEW reg, IsRegistry(reg), NEW targets,
           NEW plan, plan = CompileExecutionPlan(reg, targets)
    PROVE  LET kept == KeptSkills(reg, targets)
           IN  /\ plan.ok <=> ~\E S \in SUBSET kept : IsCircle(reg, S)
               /\ ~plan.ok =>
                      /\ plan.cycle \in Seq(kept) /\ Len(plan.cycle) > 2
                      /\ plan.cycle[1] = plan.cycle[Len(plan.cycle)]
                      /\ \A i \in 1..(Len(plan.cycle) - 1) :
                             plan.cycle[i] \in Predecessors(reg, plan.cycle[i + 1])
<1> DEFINE kept == KeptSkills(reg, targets)
           active == Active(reg, targets)
           levels == TopoLevels(active)
           left == Left(reg, targets)
           next == NextLeft(reg, targets)
<1>1. CASE kept = {}
  BY <1>1, PlanOfNothing DEF IsCircle
<1>2. CASE kept # {}
  <2>1. /\ plan.ok <=> left = {}
        /\ left # {} => plan.cycle = FindCycle(left, next)
    BY <1>2, PlanOfSkills
  <2>2. /\ DOMAIN active = kept /\ kept \subseteq DOMAIN reg /\ IsRegistry(active)
        /\ \A s \in kept : Predecessors(active, s) = Predecessors(reg, s)
        /\ \A p, s \in kept : s \in Successors(active, p) <=> p \in Predecessors(reg, s)
    BY ActiveSkills
  <2>3. IsLevelling(levels, active)
    BY <2>2, LevelsOfRounds
  <2>4. left = DOMAIN active \ UNION Range(levels)
    BY <2>2 DEF Left
  <2>5. ASSUME left = {}, NEW S \in SUBSET kept, IsCircle(reg, S) PROVE FALSE
    <3>1. \A s \in S : Predecessors(active, s) \cap S # {}
      BY <2>2, <2>5 DEF IsCircle
    <3>2. S \cap UNION Range(levels) = {}
      BY <2>2, <2>3, <3>1, CirclesAreLeft
    <3> QED
      BY <2>2, <2>4, <2>5, <3>2 DEF IsCircle
  <2>6. \A s \in left : Predecessors(reg, s) \cap left # {}
    BY <2>2, <2>3, <2>4, LeftIsCircular
  <2>7. left # {} => IsCircle(reg, left) /\ left \in SUBSET kept
    BY <2>2, <2>4, <2>6 DEF IsCircle
  <2>8. /\ left \subseteq kept /\ next \in [left -> SUBSET left]
        /\ \A p, s \in left : s \in next[p] <=> p \in Predecessors(reg, s)
    <3>1. next = [s \in left |-> Successors(active, s) \cap left]
      BY DEF NextLeft
    <3>2. left \subseteq kept
      BY <2>2, <2>4
    <3> HIDE DEF next, left, kept, active
    <3> QED
      BY <2>2, <3>1, <3>2
  <2>9. IsGraph(left, next)
    <3>1. IsFiniteSet(left) /\ left \subseteq DOMAIN Place
      <4> HIDE DEF left, active, kept
      <4> QED
        BY <2>2, <2>8, FS_Subset DEF IsRegistry
    <3> HIDE DEF next, left, kept, active
    <3> QED
      BY <2>8, <3>1 DEF IsGraph
  <2> DEFINE cycle == FindCycle(left, next)
  <2>10. ASSUME left # {}
         PROVE  /\ cycle \in Seq(kept) /\ Len(cycle) > 2 /\ cycle[1] = cycle[Len(cycle)]
                /\ \A i \in 1..(Len(cycle) - 1) : cycle[i] \in Predecessors(reg, cycle[i + 1])
    <3>1. /\ cycle \in Seq(left)
          /\ cycle = << >> => Ranked(left, next)
          /\ cycle # << >> => IsCycle(cycle, next)
      BY <2>9, CyclesAreFound
    <3> HIDE DEF cycle, next, left, kept, active, levels
    <3>2. \A s \in left : \E p \in left : s \in next[p]
      BY <2>6, <2>8
    <3>3. cycle # << >>
      <4>1. left \in SUBSET left /\ IsFiniteSet(left)
        BY <2>9 DEF IsGraph
      <4> QED
        BY <2>10, <3>1, <3>2, <4>1, RankedHasNoCircle
    <3>4. /\ Len(cycle) > 1 /\ cycle[1] = cycle[Len(cycle)]
          /\ \A i \in 1..(Len(cycle) - 1) : cycle[i + 1] \in next[cycle[i]]
      BY <3>1, <3>3 DEF IsCycle
    <3>5. Len(cycle) \in Nat /\ \A i \in 1..Len(cycle) : cycle[i] \in left
      BY <3>1
    <3>6. \A i \in 1..(Len(cycle) - 1) : cycle[i] \in Predecessors(reg, cycle[i + 1])
      <4> SUFFICES ASSUME NEW i \in 1..(Len(cycle) - 1)
                   PROVE  cycle[i] \in Predecessors(reg, cycle[i + 1])
        OBVIOUS
      <4>1. i \in 1..Len(cycle) /\ i + 1 \in 1..Len(cycle)
        BY <3>5
      <4> QED
        BY <2>8, <3>4, <3>5, <4>1
    <3>7. Len(cycle) # 2
      <4> SUFFICES ASSUME Len(cycle) = 2 PROVE FALSE
        OBVIOUS
      <4>1. cycle[1] \in Predecessors(reg, cycle[1 + 1]) /\ cycle[1] = cycle[2] /\ 1 + 1 = 2
        BY <3>4, <3>6
      <4> QED
        BY <4>1 DEF Predecessors
    <3>8. cycle \in Seq(kept)
      <4>1. left \subseteq kept
        BY <2>8
      <4> QED
        BY <3>1, <4>1
    <3>9. Len(cycle) > 2
      <4>1. Len(cycle) \in Nat
        BY <3>5
      <4>2. Len(cycle) > 1
        BY <3>4
      <4>3. PICK n : n = Len(cycle)
        OBVIOUS
      <4>4. n \in Nat /\ n > 1 /\ n # 2
        BY <3>7, <4>1, <4>2, <4>3
      <4>5. n > 2
        BY <4>4
      <4> QED
        BY <4>3, <4>5
    <3> QED
      BY <3>4, <3>6, <3>8, <3>9
  <2> HIDE DEF cycle, next, left, kept, active, levels
  <2> QED
    BY <2>1, <2>5, <2>7, <2>10 DEF cycle, kept
<1> QED
  BY <1>1, <1>2

\* A plan holds just the skills that are kept, each a level above the highest of those
\* it waits for, and its critical path climbs through all levels.
THEOREM PlansAreTight ==
    ASSUME NEW reg, IsRegistry(reg), NEW targets,
           NEW plan, plan = CompileExecutionPlan(reg, targets), plan.ok
    PROVE  LET kept == KeptSkills(reg, targets)
               levels == plan.levels
               path == plan.criticalPath
           IN  /\ UNION Range(levels) = kept
               /\ DOMAIN plan.pruned = DOMAIN reg \ kept
               /\ \A s \in kept : /\ Depth(levels, s) \in DOMAIN levels
                                  /\ s \in levels[Depth(levels, s)]
                                  /\ Depth(levels, s)
                                         = 1 + Max({0} \cup DepthsOf(levels, Predecessors(reg, s)))
               /\ path \in Seq(kept) /\ Len(path) = Len(levels)
               /\ \A i \in 1..(Len(path) - 1) : path[i] \in Predecessors(reg, path[i + 1])
<1> DEFINE kept == KeptSkills(reg, targets)
           active == Active(reg, targets)
           levels == plan.levels
           path == plan.criticalPath
<1>1. DOMAIN PrunedSkills(reg, targets) = DOMAIN reg \ kept
  BY DEF PrunedSkills
<1>2. CASE kept = {}
  <2>1. /\ levels = << >> /\ path = << >> /\ plan.pruned = PrunedSkills(reg, targets)
    BY <1>2, PlanOfNothing
  <2>2. UNION Range(levels) = {}
    BY <2>1 DEF Range
  <2>3. path \in Seq(kept) /\ Len(path) = 0 /\ Len(levels) = 0
    BY <2>1
  <2>4. 1..(Len(path) - 1) = {}
    BY <2>3
  <2> HIDE DEF kept, levels, path
  <2>5. plan.pruned = PrunedSkills(reg, targets)
    BY <2>1
  <2> QED
    BY <1>1, <1>2, <2>2, <2>3, <2>4, <2>5 DEF kept, levels, path
<1>3. CASE kept # {}
  <2>1. /\ Left(reg, targets) = {} /\ levels = TopoLevels(active)
        /\ plan.pruned = PrunedSkills(reg, targets) /\ path = CriticalPath(active)
    BY <1>3, PlanOfSkills
  <2>2. /\ DOMAIN active = kept /\ IsRegistry(active)
        /\ \A s \in kept : /\ Predecessors(active, s) = Predecessors(reg, s)
                           /\ Predecessors(reg, s) \subseteq kept
    BY ActiveSkills
  <2>3. IsLevelling(levels, active)
    BY <2>1, <2>2, LevelsOfRounds
  <2>4. /\ UNION Range(levels) \subseteq DOMAIN active /\ DOMAIN levels = 1..Len(levels)
    BY <2>3, LevelsPlace
  <2>5. UNION Range(levels) = kept
    BY <2>1, <2>2, <2>4 DEF Left
  <2>6. AllPlaced(levels, active)
    BY <1>3, <2>2, <2>3, <2>5 DEF AllPlaced
  <2>7. /\ path \in Seq(kept) /\ Len(path) = Len(levels)
        /\ \A i \in 1..(Len(path) - 1) : path[i] \in Predecessors(active, path[i + 1])
    BY <2>1, <2>2, <2>6, CriticalPathClimbs
  <2>8. \A i \in 1..(Len(path) - 1) : path[i] \in Predecessors(reg, path[i + 1])
    <3> SUFFICES ASSUME NEW i \in 1..(Len(path) - 1)
                 PROVE  path[i] \in Predecessors(reg, path[i + 1])
      OBVIOUS
    <3> HIDE DEF path, kept, active
    <3>1. i + 1 \in 1..Len(path)
      BY <2>7
    <3>2. path[i + 1] \in kept
      BY <2>7, <3>1
    <3> QED
      BY <2>2, <2>7, <3>2
  <2>9. ASSUME NEW s \in kept
        PROVE  /\ Depth(levels, s) \in DOMAIN levels /\ s \in levels[Depth(levels, s)]
               /\ Depth(levels, s) = 1 + Max({0} \cup DepthsOf(levels, Predecessors(reg, s)))
    <3>1. s \in UNION Range(levels)
      BY <2>5, <2>9
    <3>2. Depth(levels, s) \in 1..Len(levels) /\ s \in levels[Depth(levels, s)]
      BY <2>3, <3>1, DepthFacts
    <3>3. Depth(levels, s) = 1 + Max({0} \cup DepthsOf(levels, Predecessors(active, s)))
      BY <2>3, <3>1, DepthsBelow
    <3> HIDE DEF kept, active, levels
    <3> QED
      BY <2>2, <2>4, <2>9, <3>2, <3>3
  <2> HIDE DEF kept, active, levels, path
  <2> QED
    BY <1>1, <2>1, <2>5, <2>7, <2>8, <2>9 DEF kept, levels, path
<1> QED
  BY <1>2, <1>3

-----------------------------------------------------------------------------
(* What the safety verifier passes.                                        *)

IsUp(up, reg, s) ==
    up = [i \in 0..Cardinality(DOMAIN reg) |->
             IF i = 0 THEN Parents(reg, s)
             ELSE LET below == up[i - 1] IN below \cup UNION {Parents(reg, p) : p \in below}]

Above(reg, S) == S \cup UNION {Parents(reg, p) : p \in S}

LEMMA UpExists ==
    ASSUME NEW reg, IsRegistry(reg), NEW s
    PROVE  \E up : IsUp(up, reg, s)
<1> DEFINE n == Cardinality(DOMAIN reg)
           X == SUBSET DOMAIN reg
           step == [S \in X |-> Above(reg, S)]
<1>1. n \in Nat
  BY FS_CardinalityType DEF IsRegistry
<1>2. Parents(reg, s) \in X /\ \A S \in X : Above(reg, S) \in X
  BY DEF Parents, Above
<1>3. step \in [X -> X] /\ \A S \in X : step[S] = Above(reg, S)
  BY <1>2
<1> HIDE DEF step, X, n
<1>4. PICK g : IsIteration(g, n, X, Parents(reg, s), step)
  BY <1>1, <1>2, <1>3, Iterates
<1>5. ASSUME NEW i \in 0..n
      PROVE  g[i] = IF i = 0 THEN Parents(reg, s) ELSE Above(reg, g[i - 1])
  <2>1. i # 0 => i \in 1..n /\ i - 1 \in 0..n
    BY <1>1
  <2> QED
    BY <1>3, <1>4, <2>1 DEF IsIteration
<1>6. IsUp(g, reg, s)
  <2>1. g = [i \in 0..n |-> g[i]]
    BY <1>4 DEF IsIteration
  <2> QED
    BY <1>5, <2>1 DEF IsUp, Above, n
<1> QED
  BY <1>6

\* What is closed under parents holds all ancestors of a skill whose parents it holds.
LEMMA AncestorsIn ==
    ASSUME NEW reg, IsRegistry(reg), NEW s, NEW S, Parents(reg, s) \subseteq S,
           \A p \in S : Parents(reg, p) \subseteq S
    PROVE  Ancestors(reg, s) \subseteq S
<1> DEFINE n == Cardinality(DOMAIN reg)
           up == CHOOSE up : IsUp(up, reg, s)
<1>1. n \in Nat
  BY FS_CardinalityType DEF IsRegistry
<1>2. IsUp(up, reg, s)
  BY UpExists
<1>3. Ancestors(reg, s) = up[n]
  BY DEF Ancestors, IsUp
<1> HIDE DEF up
<1>4. up[0] = Parents(reg, s) /\ \A i \in 1..n : up[i] = Above(reg, up[i - 1])
  <2>1. \A i \in 0..n : up[i] = IF i = 0 THEN Parents(reg, s) ELSE Above(reg, up[i - 1])
    BY <1>2 DEF IsUp, Above
  <2> HIDE DEF n
  <2>2. 0 \in 0..n /\ \A i \in 1..n : i \in 0..n /\ i # 0
    BY <1>1
  <2> QED
    BY <2>1, <2>2
<1> HIDE DEF n
<1> DEFINE C == {i \in Nat : i <= n => up[i] \subseteq S}
<1>5. 0 \in C
  BY <1>4
<1>6. ASSUME NEW i \in 0..(n - 1), i \in C PROVE i + 1 \in C
  <2>1. i + 1 \in 1..n /\ (i + 1) - 1 = i /\ i <= n
    BY <1>1
  <2>2. up[i + 1] = Above(reg, up[i]) /\ up[i] \subseteq S
    BY <1>4, <1>6, <2>1
  <2>3. up[i + 1] \subseteq S
    BY <2>2 DEF Above
  <2> QED
    BY <2>1, <2>3
<1>7. n \in C
  <2> HIDE DEF C
  <2> QED
    BY <1>1, <1>5, <1>6, CountTo
<1> QED
  BY <1>1, <1>3, <1>7

\* A registry without a cycle for the verifier has no circle, not even of one skill.
LEMMA VerifiedHasNoCircle ==
    ASSUME NEW reg, IsRegistry(reg), CycleFreedom(reg) = << >>
    PROVE  /\ \A s \in DOMAIN reg : Parents(reg, s) = Predecessors(reg, s)
           /\ \A S \in SUBSET DOMAIN reg : ~IsCircle(reg, S)
<1> DEFINE D == DOMAIN reg
           next == [s \in D |-> {t \in D : s \in Parents(reg, t)}]
<1>1. IsGraph(D, next)
  BY DEF IsGraph, IsRegistry
<1>2. FindCycle(D, next) = << >>
  BY DEF CycleFreedom
<1>3. \A p, s \in D : s \in next[p] <=> p \in Parents(reg, s)
  OBVIOUS
<1> HIDE DEF next, D
<1>4. Ranked(D, next)
  BY <1>1, <1>2, CyclesAreFound
<1>5. ASSUME NEW S \in SUBSET D, \A s \in S : \E p \in S : p \in Parents(reg, s) PROVE S = {}
  <2>1. IsFiniteSet(S)
    BY <1>1, FS_Subset DEF IsGraph
  <2>2. \A s \in S : \E p \in S : s \in next[p]
    BY <1>3, <1>5
  <2> QED
    BY <1>4, <2>1, <2>2, RankedHasNoCircle
<1>6. ASSUME NEW s \in D PROVE Parents(reg, s) = Predecessors(reg, s)
  <2>1. s \notin Parents(reg, s)
    <3> SUFFICES ASSUME s \in Parents(reg, s) PROVE FALSE
      OBVIOUS
    <3>1. {s} \in SUBSET D /\ \A t \in {s} : \E p \in {s} : p \in Parents(reg, t)
      OBVIOUS
    <3> QED
      BY <1>5, <3>1
  <2> QED
    BY <2>1 DEF Parents, Predecessors
<1>7. ASSUME NEW S \in SUBSET D, IsCircle(reg, S) PROVE FALSE
  BY <1>5, <1>6, <1>7 DEF IsCircle
<1> QED
  BY <1>6, <1>7 DEF D

\* A registry that verifySafetyInvariants passes (safety-verifier.ts:372-412) compiles
\* whatever is wanted of it; when a level runs, what its skills consume is there from the
\* start or made on an earlier level, and a guardrail and an approval have come before
\* every skill that writes.
THEOREM VerifiedRegistriesRun ==
    ASSUME NEW reg, IsRegistry(reg), NEW targets, NEW available, NEW initial,
           VerifySafetyInvariants(reg, available, initial).passed,
           NEW plan, plan = CompileExecutionPlan(reg, targets)
    PROVE  /\ plan.ok
           /\ \A d \in DOMAIN plan.levels : \A s \in plan.levels[d] :
                  LET earlier == Before(plan.levels, d)
                  IN  /\ \A a \in reg[s].consumes \ initial : \E p \in earlier : a \in reg[p].produces
                      /\ reg[s].writes => /\ \E p \in earlier : reg[p].stage = "guardrail"
                                          /\ \E p \in earlier : reg[p].approves
<1> DEFINE kept == KeptSkills(reg, targets)
           active == Active(reg, targets)
           levels == plan.levels
<1>1. /\ WritePathGuardrail(reg) = {} /\ ApprovalPath(reg) = {}
      /\ CycleFreedom(reg) = << >> /\ Completeness(reg, initial) = {}
  BY DEF VerifySafetyInvariants
<1>2. /\ \A s \in DOMAIN reg : Parents(reg, s) = Predecessors(reg, s)
      /\ \A S \in SUBSET DOMAIN reg : ~IsCircle(reg, S)
  BY <1>1, VerifiedHasNoCircle
<1>3. /\ DOMAIN active = kept /\ kept \subseteq DOMAIN reg /\ IsRegistry(active)
      /\ \A s \in kept : /\ Predecessors(active, s) = Predecessors(reg, s)
                         /\ Predecessors(reg, s) \subseteq kept
  BY ActiveSkills
<1>4. plan.ok
  <2>1. ~\E S \in SUBSET kept : IsCircle(reg, S)
    BY <1>2, <1>3
  <2> QED
    BY <2>1, CompilesUnlessCircular
<1>5. ASSUME NEW d \in DOMAIN levels, NEW s \in levels[d]
      PROVE  LET earlier == Before(levels, d)
             IN  /\ \A a \in reg[s].consumes \ initial : \E p \in earlier : a \in reg[p].produces
                 /\ reg[s].writes => /\ \E p \in earlier : reg[p].stage = "guardrail"
                                     /\ \E p \in earlier : reg[p].approves
  <2>1. kept # {} /\ levels = TopoLevels(active)
    <3>1. ASSUME kept = {} PROVE FALSE
      <4>1. levels = << >>
        BY <3>1, PlanOfNothing
      <4> QED
        BY <1>5, <4>1
    <3> QED
      BY <3>1, PlanOfSkills
  <2>2. IsLevelling(levels, active)
    BY <1>3, <2>1, LevelsOfRounds
  <2>3. DOMAIN levels = 1..Len(levels) /\ Len(levels) \in Nat /\ UNION Range(levels) \subseteq kept
    BY <1>3, <2>2, LevelsPlace
  <2>4. \A e \in DOMAIN levels : levels[e] \subseteq kept
    BY <2>3 DEF Range
  <2>5. ASSUME NEW e \in DOMAIN levels, NEW t \in levels[e]
        PROVE  Parents(reg, t) \subseteq Before(levels, e)
    <3>1. \A p \in Predecessors(active, t) : \E f \in 1..(e - 1) : p \in levels[f]
      BY <2>2, <2>3, LevelsAreTight
    <3>2. Predecessors(active, t) = Parents(reg, t)
      BY <1>2, <1>3, <2>4
    <3> QED
      BY <3>1, <3>2 DEF Before
  <2>6. \A p \in Before(levels, d) : Parents(reg, p) \subseteq Before(levels, d)
    <3> SUFFICES ASSUME NEW p \in Before(levels, d)
                 PROVE  Parents(reg, p) \subseteq Before(levels, d)
      OBVIOUS
    <3>1. PICK e \in 1..(d - 1) : p \in levels[e]
      BY DEF Before
    <3>2. e \in DOMAIN levels /\ 1..(e - 1) \subseteq 1..(d - 1)
      BY <2>3
    <3>3. Parents(reg, p) \subseteq Before(levels, e)
      BY <2>5, <3>1, <3>2
    <3>4. Before(levels, e) \subseteq Before(levels, d)
      BY <3>2 DEF Before
    <3> QED
      BY <3>3, <3>4
  <2>7. Parents(reg, s) \subseteq Before(levels, d)
    BY <2>5
  <2>8. Ancestors(reg, s) \subseteq Before(levels, d)
    BY <2>6, <2>7, AncestorsIn
  <2>9. s \in DOMAIN reg
    BY <1>3, <2>4
  <2>10. ASSUME NEW a \in reg[s].consumes \ initial
         PROVE  \E p \in Before(levels, d) : a \in reg[p].produces
    <3>1. Producers(reg, a) # {}
      <4> SUFFICES ASSUME Producers(reg, a) = {} PROVE FALSE
        OBVIOUS
      <4>1. <<s, a>> \in Completeness(reg, initial)
        BY <2>9 DEF Completeness
      <4> QED
        BY <1>1, <4>1
    <3>2. PICK p \in DOMAIN reg : a \in reg[p].produces
      BY <3>1 DEF Producers
    <3>3. p \in Parents(reg, s)
      BY <3>2 DEF Parents
    <3> QED
      BY <2>7, <3>2, <3>3
  <2>11. ASSUME reg[s].writes PROVE \E p \in Before(levels, d) : reg[p].stage = "guardrail"
    BY <1>1, <2>8, <2>9, <2>11 DEF WritePathGuardrail
  <2>12. ASSUME reg[s].writes PROVE \E p \in Before(levels, d) : reg[p].approves
    BY <1>1, <2>8, <2>9, <2>12 DEF ApprovalPath
  <2> QED
    BY <2>10, <2>11, <2>12
<1> QED
  BY <1>4, <1>5
================================================================================
