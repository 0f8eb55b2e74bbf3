-------------------------- MODULE Directory_proofs --------------------------
(***************************************************************************)
(* Proofs about Directory, for every number of sessions and every set of   *)
(* requests, identities, rules and schema definitions: what is stored was  *)
(* validated and conforms to the schema, a quiet directory is saved, no    *)
(* entry is lost, and nothing is written that the rules do not allow.      *)
(***************************************************************************)
EXTENDS Directory, FiniteSetTheorems, SequenceTheorems, TLAPS

-----------------------------------------------------------------------------
(* The schema: what validateEntry accepts conforms to it, by a definition  *)
(* that does not know the algorithm, for any schema files whose classes    *)
(* have one name each and no cyclic SUP.                                   *)

\* Every set of numbers that is not empty has a least one.
LEMMA LeastNumber ==
  ASSUME NEW T, T \subseteq Nat, T # {}
  PROVE  \E m \in T : \A n \in T : m <= n
<1> DEFINE R == OpToRel(<, Nat)
<1>1. \A m, n \in Nat : m < n => <<m, n>> \in R
  BY DEF OpToRel
<1>2. IsWellFoundedOn(R, Nat)
  BY NatLessThanWellFounded
<1> HIDE DEF R
<1>3. \E m \in T : \A n \in T : ~(<<n, m>> \in R)
  BY <1>2, WFMin
<1>4. PICK m \in T : \A n \in T : ~(<<n, m>> \in R)
  BY <1>3
<1>5. \A n \in T : ~(n < m)
  BY <1>1, <1>4
<1>6. \A n \in T : m <= n
  BY <1>5
<1> QED BY <1>6

\* Induction up to a number, over a set.
LEMMA CountUp ==
  ASSUME NEW N \in Nat, NEW T, 0 \in T, \A k \in 1..N : k - 1 \in T => k \in T
  PROVE  0..N \subseteq T
<1> DEFINE Bad == {k \in 0..N : k \notin T}
<1> SUFFICES ASSUME Bad # {} PROVE FALSE
  OBVIOUS
<1>0. Bad \subseteq Nat
  OBVIOUS
<1>1. PICK m \in Bad : \A n \in Bad : m <= n
  <2> HIDE DEF Bad
  <2> QED BY <1>0, LeastNumber
<1>2. m \in 1..N /\ m - 1 \in 0..N /\ ~(m <= m - 1)
  BY DEF Bad
<1>3. m - 1 \in T
  BY <1>1, <1>2
<1> QED BY <1>2, <1>3

\* A function can be applied any number of times, one after the other.
Iterated(S, s0, F, N) ==
  \E g \in [0..N -> S] : g[0] = s0 /\ \A k \in 1..N : g[k] = F[g[k - 1]]

LEMMA Iterates ==
  ASSUME NEW S, NEW s0 \in S, NEW F \in [S -> S], NEW N \in Nat
  PROVE  Iterated(S, s0, F, N)
<1> DEFINE Upto(n) == {g \in [0..n -> S] : g[0] = s0 /\ \A k \in 1..n : g[k] = F[g[k - 1]]}
           T == {n \in Nat : Upto(n) = {}}
<1>1. T = {}
  <2> SUFFICES ASSUME T # {} PROVE FALSE
    OBVIOUS
  <2>1. PICK m \in T : \A n \in T : m <= n
    BY LeastNumber
  <2>2. m \in Nat /\ Upto(m) = {}
    OBVIOUS
  <2>3. CASE m = 0
    <3> DEFINE g == [k \in 0..0 |-> s0]
    <3>1. g \in [0..0 -> S] /\ g[0] = s0 /\ 1..0 = {}
      OBVIOUS
    <3>2. g \in Upto(0)
      BY <3>1
    <3> QED BY <2>2, <2>3, <3>2
  <2>4. CASE m # 0
    <3>1. m - 1 \in Nat /\ m - 1 \notin T
      <4>1. m - 1 \in Nat /\ ~(m <= m - 1)
        BY <2>2, <2>4
      <4> HIDE DEF T
      <4> QED BY <2>1, <4>1
    <3>2. PICK g : g \in Upto(m - 1)
      BY <3>1
    <3>3. g \in [0..(m - 1) -> S] /\ g[0] = s0 /\ \A k \in 1..(m - 1) : g[k] = F[g[k - 1]]
      BY <3>2
    <3> DEFINE h == [k \in 0..m |-> IF k = m THEN F[g[m - 1]] ELSE g[k]]
    <3>4. F[g[m - 1]] \in S
      BY <3>1, <3>3
    <3>5. h \in [0..m -> S]
      BY <2>2, <3>3, <3>4
    <3>6. h[0] = s0 /\ \A k \in 1..m : h[k] = F[h[k - 1]]
      BY <2>2, <2>4, <3>3
    <3>7. h \in Upto(m)
      BY <3>5, <3>6
    <3> QED BY <2>2, <3>7
  <2> QED BY <2>3, <2>4
<1>2. N \notin T
  BY <1>1
<1>3. Upto(N) # {}
  BY <1>2
<1> QED BY <1>3 DEF Iterated

\* The rounds of collectObjectClasses.
Rounds(g, names, N) ==
  /\ DOMAIN g = 0..N
  /\ g[0] = names /\ \A k \in 1..N : g[k] = visit(g[k - 1])

LEMMA CollectInRounds ==
  ASSUME IsFiniteSet(ClassNames), NEW names
  PROVE  \E g : Rounds(g, names, Cardinality(ClassNames))
                /\ collectObjectClasses(names) = g[Cardinality(ClassNames)]
<1> DEFINE N == Cardinality(ClassNames)
           X == names \cup UNION {superiorsOf(n) : n \in ClassNames}
           F == [Y \in SUBSET X |-> visit(Y)]
<1>1. N \in Nat
  BY FS_CardinalityType
<1>2. ASSUME NEW Y \in SUBSET X PROVE visit(Y) \in SUBSET X
  <2>1. ASSUME NEW n \in Y PROVE superiorsOf(n) \subseteq X
    BY DEF superiorsOf, ClassNames
  <2> QED BY <2>1 DEF visit
<1>3. names \in SUBSET X /\ F \in [SUBSET X -> SUBSET X]
  BY <1>2
<1>4. PICK g \in [0..N -> SUBSET X] : g[0] = names /\ \A k \in 1..N : g[k] = F[g[k - 1]]
  <2> DEFINE S == SUBSET X
  <2>1. names \in S /\ F \in [S -> S]
    BY <1>3
  <2> HIDE DEF F, N, X, S
  <2>2. Iterated(S, names, F, N)
    BY <1>1, <2>1, Iterates
  <2> QED BY <2>2 DEF S, Iterated
<1> HIDE DEF N, X
<1>5. \A k \in 1..N : k - 1 \in 0..N
  BY <1>1
<1>6. \A k \in 1..N : g[k] = visit(g[k - 1])
  BY <1>4, <1>5
<1> DEFINE P(f) == f = [k \in 0..N |-> IF k = 0 THEN names ELSE visit(f[k - 1])]
           reach == CHOOSE f : P(f)
<1>7. P(g)
  BY <1>1, <1>4, <1>6
<1>8. P(reach)
  BY <1>7
<1>9. collectObjectClasses(names) = reach[N]
  BY DEF collectObjectClasses, N, ClassNames
<1> HIDE DEF reach
<1>10. Rounds(reach, names, N)
  BY <1>1, <1>8 DEF Rounds
<1> QED BY <1>9, <1>10 DEF N

LEMMA RoundsGrow ==
  ASSUME NEW N \in Nat, NEW names, NEW g, Rounds(g, names, N)
  PROVE  /\ \A k \in 1..N : g[k - 1] \subseteq g[k]
         /\ \A k \in 0..N : g[k] \subseteq g[N]
<1>1. \A k \in 1..N : g[k - 1] \subseteq g[k]
  BY DEF Rounds, visit
<1> DEFINE T == {d \in 0..N : g[N - d] \subseteq g[N]}
<1>2. 0 \in T
  OBVIOUS
<1>3. ASSUME NEW d \in 1..N, d - 1 \in T PROVE d \in T
  <2>1. N - (d - 1) \in 1..N /\ (N - (d - 1)) - 1 = N - d
    OBVIOUS
  <2>2. g[N - d] \subseteq g[N - (d - 1)]
    BY <1>1, <2>1
  <2> QED BY <1>3, <2>2
<1>4. 0..N \subseteq T
  <2> HIDE DEF T
  <2> QED BY <1>2, <1>3, CountUp
<1>5. ASSUME NEW k \in 0..N PROVE g[k] \subseteq g[N]
  <2>1. N - k \in 0..N /\ N - (N - k) = k
    OBVIOUS
  <2>2. N - k \in T
    BY <1>4, <2>1
  <2> QED BY <2>1, <2>2
<1> QED BY <1>1, <1>5

\* If the last round is not closed under SUP, no round was.
LEMMA RoundsStrict ==
  ASSUME NEW N \in Nat, NEW names, NEW g, Rounds(g, names, N), visit(g[N]) # g[N]
  PROVE  g[0] # {} /\ \A k \in 1..N : g[k] # g[k - 1]
<1>1. ASSUME NEW j \in 0..N, visit(g[j]) = g[j] PROVE FALSE
  <2> DEFINE T == {d \in Nat : j + d <= N => g[j + d] = g[j]}
  <2>1. 0 \in T
    OBVIOUS
  <2>2. ASSUME NEW d \in 1..(N - j), d - 1 \in T PROVE d \in T
    <3>1. j + d \in 1..N /\ (j + d) - 1 = j + (d - 1) /\ j + (d - 1) <= N
      OBVIOUS
    <3>2. g[j + d] = visit(g[j + (d - 1)])
      BY <3>1 DEF Rounds
    <3> QED BY <1>1, <2>2, <3>1, <3>2
  <2>3. N - j \in Nat
    OBVIOUS
  <2>4. 0..(N - j) \subseteq T
    <3> HIDE DEF T
    <3> QED BY <2>1, <2>2, <2>3, CountUp
  <2>5. N - j \in T /\ j + (N - j) = N
    BY <2>3, <2>4
  <2>6. g[N] = g[j]
    BY <2>5
  <2> QED BY <1>1, <2>6
<1>2. g[0] # {}
  <2>1. visit({}) = {} /\ 0 \in 0..N
    BY DEF visit
  <2> QED BY <1>1, <2>1
<1>3. ASSUME NEW k \in 1..N PROVE g[k] # g[k - 1]
  <2>1. k - 1 \in 0..N /\ g[k] = visit(g[k - 1])
    BY DEF Rounds
  <2> QED BY <1>1, <2>1
<1> QED BY <1>2, <1>3

\* The worklist finds a set of classes that is closed under SUP, if every class
\* it meets is defined.
LEMMA CollectCloses ==
  ASSUME IsFiniteSet(ClassNames), NEW names, collectObjectClasses(names) \subseteq ClassNames
  PROVE  LET C == collectObjectClasses(names)
         IN  /\ names \subseteq C
             /\ UpwardClosed(C)
             /\ \A S \in SUBSET ClassNames : names \subseteq S /\ UpwardClosed(S) => C \subseteq S
<1> DEFINE C == collectObjectClasses(names)
           N == Cardinality(ClassNames)
<1>0. N \in Nat
  BY FS_CardinalityType
<1>1. PICK g : Rounds(g, names, N) /\ C = g[N]
  BY CollectInRounds
<1> HIDE DEF C, N
<1>2. /\ \A k \in 1..N : g[k - 1] \subseteq g[k]
      /\ \A k \in 0..N : g[k] \subseteq C
  BY <1>0, <1>1, RoundsGrow
<1>3. names \subseteq C
  BY <1>0, <1>1, <1>2 DEF Rounds
<1>4. C \subseteq ClassNames
  BY DEF C
<1>5. visit(C) = C
  <2> SUFFICES ASSUME visit(C) # C PROVE FALSE
    OBVIOUS
  <2>1. g[0] # {} /\ \A k \in 1..N : g[k] # g[k - 1]
    BY <1>0, <1>1, RoundsStrict
  <2>2. ASSUME NEW k \in 0..N PROVE IsFiniteSet(g[k]) /\ Cardinality(g[k]) \in Nat
    <3>1. IsFiniteSet(g[k])
      BY <1>2, <1>4, FS_Subset
    <3> QED BY <3>1, FS_CardinalityType
  <2> DEFINE T == {k \in 0..N : Cardinality(g[k]) >= k + 1}
  <2>3. 0 \in T
    <3>1. 0 \in 0..N
      BY <1>0
    <3>2. Cardinality(g[0]) # 0 /\ Cardinality(g[0]) \in Nat
      BY <2>1, <2>2, <3>1, FS_EmptySet
    <3> QED BY <3>1, <3>2
  <2>4. ASSUME NEW k \in 1..N, k - 1 \in T PROVE k \in T
    <3>1. k \in 0..N /\ k - 1 \in 0..N /\ k \in Nat
      BY <1>0
    <3>2. g[k - 1] \subseteq g[k] /\ g[k - 1] # g[k]
      BY <1>2, <2>1
    <3> DEFINE a == Cardinality(g[k - 1])
               b == Cardinality(g[k])
    <3>3. a <= b /\ a # b
      BY <2>2, <3>1, <3>2, FS_Subset
    <3>4. a \in Nat /\ b \in Nat /\ a >= (k - 1) + 1
      BY <2>2, <2>4, <3>1
    <3> HIDE DEF a, b
    <3>5. b >= k + 1
      BY <3>1, <3>3, <3>4
    <3> QED BY <3>1, <3>5 DEF b
  <2>5. 0..N \subseteq T
    <3> HIDE DEF T
    <3> QED BY <1>0, <2>3, <2>4, CountUp
  <2>6. N \in 0..N
    BY <1>0
  <2>7. Cardinality(C) >= N + 1
    BY <1>1, <2>5, <2>6
  <2>8. Cardinality(C) <= N
    BY <1>4, FS_Subset DEF N
  <2>9. Cardinality(C) \in Nat
    BY <1>1, <2>2, <2>6
  <2> QED BY <1>0, <2>7, <2>8, <2>9
<1>6. UpwardClosed(C)
  <2>1. ASSUME NEW n \in C PROVE object_class_index[n].superiors \subseteq C
    <3>1. superiorsOf(n) = object_class_index[n].superiors
      BY <1>4 DEF superiorsOf, ClassNames
    <3>2. superiorsOf(n) \subseteq visit(C)
      BY DEF visit
    <3> QED BY <1>5, <3>1, <3>2
  <2> QED BY <2>1 DEF UpwardClosed
<1>7. ASSUME NEW S \in SUBSET ClassNames, names \subseteq S, UpwardClosed(S) PROVE C \subseteq S
  <2> DEFINE T == {k \in 0..N : g[k] \subseteq S}
  <2>1. 0 \in T
    BY <1>0, <1>1, <1>7 DEF Rounds
  <2>2. ASSUME NEW k \in 1..N, k - 1 \in T PROVE k \in T
    <3>1. g[k] = visit(g[k - 1]) /\ g[k - 1] \subseteq S /\ k \in 0..N
      BY <1>0, <1>1, <2>2 DEF Rounds
    <3>2. \A n \in S : superiorsOf(n) \subseteq S
      BY <1>7 DEF superiorsOf, UpwardClosed, ClassNames
    <3>3. visit(g[k - 1]) \subseteq S
      BY <3>1, <3>2 DEF visit
    <3> QED BY <3>1, <3>3
  <2>3. 0..N \subseteq T
    <3> HIDE DEF T
    <3> QED BY <1>0, <2>1, <2>2, CountUp
  <2>4. N \in T
    BY <1>0, <2>3
  <2> QED BY <1>1, <2>4
<1>8. /\ names \subseteq C
      /\ UpwardClosed(C)
      /\ \A S \in SUBSET ClassNames : names \subseteq S /\ UpwardClosed(S) => C \subseteq S
  BY <1>3, <1>6, <1>7
<1> QED BY <1>8 DEF C

-----------------------------------------------------------------------------
(* The syntax of a type.                                                   *)

\* attributeSyntax walks the SUP chain for MaxDepth steps.
LEMMA SyntaxByWalk ==
  ASSUME NEW n \in DOMAIN attribute_index
  PROVE  \E w : /\ w[0] = attribute_index[n]
                /\ \A k \in 1..MaxDepth : w[k] = walkUp(w[k - 1])
                /\ attributeSyntax[n] = w[MaxDepth].syntax
<1> DEFINE A == {attribute_index[m] : m \in DOMAIN attribute_index} \cup {NoAttribute}
           F == [a \in A |-> walkUp(a)]
           N == MaxDepth
           a0 == attribute_index[n]
<1>1. N \in Nat
  BY DEF MaxDepth
<1>2. ASSUME NEW a \in A PROVE walkUp(a) \in A
  BY DEF walkUp, superiorOf
<1>3. a0 \in A /\ F \in [A -> A]
  BY <1>2
<1>4. PICK g \in [0..N -> A] : g[0] = a0 /\ \A k \in 1..N : g[k] = F[g[k - 1]]
  <2> HIDE DEF F, N, A, a0
  <2>1. Iterated(A, a0, F, N)
    BY <1>1, <1>3, Iterates
  <2> QED BY <2>1 DEF Iterated
<1> DEFINE P(f) == f = [k \in 0..N |-> IF k = 0 THEN a0 ELSE walkUp(f[k - 1])]
           walk == CHOOSE f : P(f)
<1>5. attributeSyntax[n] = walk[N].syntax
  BY DEF attributeSyntax
<1> HIDE DEF N, A, a0
<1>6. \A k \in 1..N : k - 1 \in 0..N
  BY <1>1
<1>7. \A k \in 1..N : g[k] = walkUp(g[k - 1])
  BY <1>4, <1>6
<1>8. P(g)
  BY <1>1, <1>4, <1>7
<1>9. P(walk)
  BY <1>8
<1> HIDE DEF walk
<1>10. walk[0] = a0 /\ \A k \in 1..N : walk[k] = walkUp(walk[k - 1])
  BY <1>1, <1>9
<1> QED BY <1>5, <1>10 DEF N, a0

\* A path of m types, as a sequence.
OfLength(path, m) ==
  /\ m \in 1..3 /\ Len(path) = m
  /\ Head(path) = path[1] /\ Last(path) = path[m]

\* A function on 1..m is a sequence of length m.
LEMMA FunctionIsSequence ==
  ASSUME NEW D, NEW m \in 0..3, NEW path \in [1..m -> D], path # << >>
  PROVE  OfLength(path, m)
<1>1. m \in Nat
  OBVIOUS
<1>2. path \in Seq(D)
  BY <1>1, SeqDef
<1>3. Len(path) \in Nat /\ DOMAIN path = 1..Len(path)
  BY <1>2, LenProperties
<1>4. Len(path) = m
  BY <1>1, <1>3
<1>5. Len(path) # 0
  BY <1>2, EmptySeq
<1>6. Last(path) = path[Len(path)]
  BY DEF Last
<1>7. Head(path) = path[1]
  BY <1>2
<1> QED BY <1>4, <1>5, <1>6, <1>7 DEF OfLength

\* A path of m types from one to the next superior, of which only the last has a
\* syntax of its own.
SyntaxPath(path, m) ==
  /\ path \in [1..m -> DOMAIN attribute_index]
  /\ \A i \in 1..(m - 1) : /\ attribute_index[path[i]].superior = path[i + 1]
                           /\ attribute_index[path[i]].syntax = ""
  /\ attribute_index[path[m]].syntax # ""
  /\ "" \notin DOMAIN attribute_index

\* The walk follows such a path to its end, and stays there.
LEMMA WalkEndsAtSyntax ==
  ASSUME NEW m \in 1..3, NEW path, SyntaxPath(path, m)
  PROVE  attributeSyntax[path[1]] = attribute_index[path[m]].syntax
<1> DEFINE at(k) == attribute_index[path[IF k < m THEN k + 1 ELSE m]]
<1>1. \A i \in 1..m : path[i] \in DOMAIN attribute_index
  BY DEF SyntaxPath
<1>2. ASSUME NEW i \in 1..(m - 1)
      PROVE  walkUp(attribute_index[path[i]]) = attribute_index[path[i + 1]]
  <2>1. i + 1 \in 1..m
    OBVIOUS
  <2>2. path[i + 1] \in DOMAIN attribute_index
    BY <1>1, <2>1
  <2>3. attribute_index[path[i]].superior = path[i + 1] /\ attribute_index[path[i]].syntax = ""
    BY DEF SyntaxPath
  <2>4. "" \notin DOMAIN attribute_index
    BY DEF SyntaxPath
  <2> QED BY <2>2, <2>3, <2>4 DEF walkUp, superiorOf
<1>3. walkUp(attribute_index[path[m]]) = attribute_index[path[m]]
  BY DEF walkUp, SyntaxPath
<1>4. 1 \in 1..m
  OBVIOUS
<1>5. PICK w : /\ w[0] = attribute_index[path[1]]
               /\ \A k \in 1..MaxDepth : w[k] = walkUp(w[k - 1])
               /\ attributeSyntax[path[1]] = w[MaxDepth].syntax
  BY <1>1, <1>4, SyntaxByWalk
<1> DEFINE T == {k \in 0..MaxDepth : w[k] = at(k)}
<1>6. MaxDepth \in Nat /\ MaxDepth \in 0..MaxDepth /\ ~(MaxDepth < m) /\ 0 \in 0..MaxDepth
  BY DEF MaxDepth
<1>7. 0 \in T
  <2>1. IF 0 < m THEN 0 + 1 = 1 ELSE FALSE
    OBVIOUS
  <2> QED BY <1>5, <1>6, <2>1
<1>8. ASSUME NEW k \in 1..MaxDepth, k - 1 \in T PROVE k \in T
  <2>0. k \in 0..MaxDepth /\ k \in Nat /\ m \in Nat /\ k - 1 \in Int
    BY <1>6
  <2>1. w[k] = walkUp(w[k - 1])
    BY <1>5
  <2>2. w[k - 1] = at(k - 1)
    BY <1>8
  <2>3. CASE k < m
    <3>1. k \in 1..(m - 1) /\ k - 1 < m /\ (k - 1) + 1 = k
      BY <2>0, <2>3
    <3> QED BY <1>2, <2>0, <2>1, <2>2, <2>3, <3>1
  <2>4. CASE ~(k < m)
    <3>1. at(k - 1) = attribute_index[path[m]]
      <4>1. k - 1 < m => (k - 1) + 1 = m
        BY <2>0, <2>4
      <4> QED BY <4>1
    <3> QED BY <1>3, <2>0, <2>1, <2>2, <2>4, <3>1
  <2> QED BY <2>3, <2>4
<1>9. 0..MaxDepth \subseteq T
  <2> HIDE DEF T
  <2> QED BY <1>6, <1>7, <1>8, CountUp
<1>10. w[MaxDepth] = at(MaxDepth)
  BY <1>6, <1>9
<1> QED BY <1>5, <1>6, <1>10

\* A type's syntax is the one it inherits by the reference definition.
LEMMA InheritedSyntax ==
  ASSUME "" \notin DOMAIN attribute_index,
         NEW t \in DOMAIN attribute_index, NEW x \in SyntaxesOf[t]
  PROVE  x # "" /\ attributeSyntax[t] = x
<1>1. PICK v \in DOMAIN attribute_index :
        Inherits(t, v) /\ attribute_index[v].syntax # "" /\ x = attribute_index[v].syntax
  BY DEF SyntaxesOf
<1>2. \E m \in 0..3 : \E path \in [1..m -> DOMAIN attribute_index] :
        /\ path # << >> /\ Head(path) = t /\ Last(path) = v
        /\ \A i \in 1..(Len(path) - 1) : /\ attribute_index[path[i]].superior = path[i + 1]
                                         /\ attribute_index[path[i]].syntax = ""
  BY <1>1 DEF Inherits, SeqOf
<1>3. PICK m \in 0..3 : \E path \in [1..m -> DOMAIN attribute_index] :
        /\ path # << >> /\ Head(path) = t /\ Last(path) = v
        /\ \A i \in 1..(Len(path) - 1) : /\ attribute_index[path[i]].superior = path[i + 1]
                                         /\ attribute_index[path[i]].syntax = ""
  BY <1>2
<1>4. PICK path \in [1..m -> DOMAIN attribute_index] :
        /\ path # << >> /\ Head(path) = t /\ Last(path) = v
        /\ \A i \in 1..(Len(path) - 1) : /\ attribute_index[path[i]].superior = path[i + 1]
                                         /\ attribute_index[path[i]].syntax = ""
  BY <1>3
<1>5. /\ m \in 1..3 /\ Len(path) = m
      /\ Head(path) = path[1] /\ Last(path) = path[m]
  <2>1. path # << >>
    BY <1>4
  <2> DEFINE D == DOMAIN attribute_index
  <2>2. path \in [1..m -> D]
    BY <1>4
  <2> HIDE DEF D
  <2>3. OfLength(path, m)
    BY <2>1, <2>2, FunctionIsSequence
  <2> QED BY <2>3 DEF OfLength
<1>6. attributeSyntax[path[1]] = attribute_index[path[m]].syntax
  <2>1. SyntaxPath(path, m)
    BY <1>1, <1>4, <1>5 DEF SyntaxPath
  <2> QED BY <1>5, <2>1, WalkEndsAtSyntax
<1> QED BY <1>1, <1>4, <1>5, <1>6

-----------------------------------------------------------------------------
(* What is accepted.                                                       *)

\* A registry such as the shipped schema files give: there are classes, finitely
\* many, each with one name, and no class is its own superior, be it over others;
\* no attribute type has the empty name.
ClassesSane ==
  /\ ObjectClasses # << >>
  /\ IsFiniteSet(ClassNames)
  /\ \A n \in ClassNames : Primary(n) = n
  /\ \A S \in SUBSET ClassNames :
       S # {} => \E c \in S : \A d \in S : c \notin object_class_index[d].superiors
  /\ "" \notin DOMAIN attribute_index

\* The superclasses of the classes that an entry names are those collected.
LEMMA CollectIsSuperclasses ==
  ASSUME IsFiniteSet(ClassNames), NEW names, collectObjectClasses(names) \subseteq ClassNames
  PROVE  /\ names \subseteq ClassNames
         /\ collectObjectClasses(names) = UNION {Superclasses[c] : c \in names}
<1> DEFINE C == collectObjectClasses(names)
           all == UNION {Superclasses[c] : c \in names}
<1>1. /\ names \subseteq C /\ C \subseteq ClassNames /\ UpwardClosed(C)
      /\ \A S \in SUBSET ClassNames : names \subseteq S /\ UpwardClosed(S) => C \subseteq S
  BY CollectCloses
<1> HIDE DEF C
<1>2. \A c \in ClassNames :
        Superclasses[c] = {d \in ClassNames :
                             \A S \in SUBSET ClassNames : c \in S /\ UpwardClosed(S) => d \in S}
  BY DEF Superclasses
<1>3. names \subseteq ClassNames
  BY <1>1
<1>4. all \subseteq C
  BY <1>1, <1>2, <1>3
<1>5. C \subseteq all
  <2>1. all \subseteq ClassNames /\ names \subseteq all
    BY <1>2, <1>3
  <2>2. UpwardClosed(all)
    <3> SUFFICES ASSUME NEW n \in all, NEW e \in object_class_index[n].superiors
                 PROVE  e \in all
      BY DEF UpwardClosed
    <3>1. PICK c \in names : n \in Superclasses[c]
      OBVIOUS
    <3>2. e \in ClassNames
      BY <1>1, <1>4 DEF UpwardClosed
    <3>3. ASSUME NEW S \in SUBSET ClassNames, c \in S, UpwardClosed(S) PROVE e \in S
      <4>1. n \in S
        BY <1>2, <1>3, <3>1, <3>3
      <4> QED BY <3>3, <4>1 DEF UpwardClosed
    <3>4. e \in Superclasses[c]
      BY <1>2, <1>3, <3>2, <3>3
    <3> QED BY <3>4
  <2> HIDE DEF all
  <2> QED BY <1>1, <2>1, <2>2
<1> QED BY <1>3, <1>4, <1>5 DEF C

\* If one structural class is left that is no superior of another, the others
\* are superclasses of it.
LEMMA OneLeaf ==
  ASSUME ClassesSane, NEW C \in SUBSET ClassNames, UpwardClosed(C), Cardinality(leaves(C)) = 1
  PROVE  \E c \in {n \in C : Kind(n) = "structural"} :
           {n \in C : Kind(n) = "structural"} = {d \in Superclasses[c] : Kind(d) = "structural"}
<1> DEFINE St == {n \in C : Kind(n) = "structural"}
           Up == UNION {{q \in object_class_index[n].superiors : Kind(q) = "structural"} : n \in St}
<1>1. St \subseteq C /\ Up \subseteq C
  BY DEF UpwardClosed
<1>2. leaves(C) = St \ Up
  <2>1. \A n \in C : Primary(n) = n
    BY DEF ClassesSane
  <2>2. {Primary(n) : n \in St} = St /\ {Primary(p) : p \in Up} = Up
    <3> HIDE DEF St, Up
    <3> QED BY <1>1, <2>1
  <2> QED BY <2>2 DEF leaves
<1>3. IsFiniteSet(St \ Up)
  <2>1. IsFiniteSet(ClassNames) /\ St \ Up \subseteq ClassNames
    BY <1>1 DEF ClassesSane
  <2> HIDE DEF St, Up
  <2> QED BY <2>1, FS_Subset
<1>4. PICK c : St \ Up = {c}
  <2> HIDE DEF St, Up
  <2> QED BY <1>2, <1>3, FS_Singleton
<1>5. c \in St /\ c \in ClassNames
  BY <1>1, <1>4
<1>6. Superclasses[c] = {d \in ClassNames :
                           \A S \in SUBSET ClassNames : c \in S /\ UpwardClosed(S) => d \in S}
  BY <1>5 DEF Superclasses
<1>7. Superclasses[c] \subseteq C
  BY <1>5, <1>6
<1>8. ASSUME NEW n \in Superclasses[c], NEW e \in object_class_index[n].superiors
      PROVE  e \in Superclasses[c]
  <2>1. n \in C /\ e \in C
    BY <1>7 DEF UpwardClosed
  <2>2. \A S \in SUBSET ClassNames : c \in S /\ UpwardClosed(S) => e \in S
    BY <1>6 DEF UpwardClosed
  <2> QED BY <1>6, <2>1, <2>2
<1> DEFINE Bad == St \ Superclasses[c]
<1>9. Bad = {}
  <2> SUFFICES ASSUME Bad # {} PROVE FALSE
    OBVIOUS
  <2>0. Bad \in SUBSET ClassNames
    BY <1>1
  <2>1. PICK b \in Bad : \A d \in Bad : b \notin object_class_index[d].superiors
    <3> HIDE DEF Bad
    <3> QED BY <2>0 DEF ClassesSane
  <2>2. c \in Superclasses[c]
    BY <1>5, <1>6
  <2>3. b \in Up
    BY <1>4, <2>2
  <2>4. PICK d \in St : b \in object_class_index[d].superiors
    BY <2>3
  <2>5. d \in Superclasses[c]
    BY <2>1, <2>4
  <2>6. b \in Superclasses[c]
    BY <1>8, <2>4, <2>5
  <2> QED BY <2>6
<1>10. St = {d \in Superclasses[c] : Kind(d) = "structural"}
  BY <1>7, <1>9
<1> QED BY <1>5, <1>10

\* What validateEntry accepts conforms to the schema.
THEOREM ValidEntriesConform ==
  ASSUME ClassesSane, NEW attrs, validateEntry(attrs) = "Success"
  PROVE  EntryConforms(attrs)
<1> DEFINE own == ToSet(attrs["objectClass"])
           classes == collectObjectClasses(own)
           required == UNION {object_class_index[n].must : n \in classes}
           permitted == required \cup UNION {object_class_index[n].may : n \in classes}
           results == {validateAttribute(attrs, t, permitted) : t \in DOMAIN attrs \ {"objectClass"}}
<1>1. /\ "objectClass" \in DOMAIN attrs
      /\ classes \subseteq ClassNames
      /\ Cardinality(leaves(classes)) = 1
      /\ \A t \in required : hasNonEmpty(attrs, t)
      /\ results \subseteq {"Success"}
  <2> HIDE DEF own, classes, required, results
  <2>1. validateEntry(attrs) =
          IF ObjectClasses = << >>                                   THEN "Success"
          ELSE IF "objectClass" \notin DOMAIN attrs \/ attrs["objectClass"] = << >>
                                                                     THEN "ObjectClassViolation"
          ELSE IF ~(classes \subseteq DOMAIN object_class_index)     THEN "ObjectClassViolation"
          ELSE IF Cardinality(leaves(classes)) # 1                   THEN "ObjectClassViolation"
          ELSE IF \E t \in required : ~hasNonEmpty(attrs, t)         THEN "ObjectClassViolation"
          ELSE IF results \subseteq {"Success"}                      THEN "Success"
          ELSE CHOOSE rc \in results : rc # "Success"
    BY DEF validateEntry, own, classes, required, results
  <2>2. ~(results \subseteq {"Success"}) => (CHOOSE rc \in results : rc # "Success") # "Success"
    OBVIOUS
  <2>3. ObjectClasses # << >>
    BY DEF ClassesSane
  <2> HIDE DEF results
  <2> QED BY <2>1, <2>2, <2>3 DEF ClassNames
<1>2. IsFiniteSet(ClassNames)
  BY DEF ClassesSane
<1> HIDE DEF own
<1>3. own \subseteq ClassNames /\ classes = UNION {Superclasses[c] : c \in own}
  BY <1>1, <1>2, CollectIsSuperclasses
<1>4. UpwardClosed(classes)
  BY <1>1, <1>2, CollectCloses
<1> HIDE DEF classes
<1> DEFINE structural == {c \in classes : Kind(c) = "structural"}
<1>5. \E c \in structural : structural = {d \in Superclasses[c] : Kind(d) = "structural"}
  BY <1>1, <1>4, OneLeaf
<1>6. own # {}
  <2>1. classes # {}
    BY <1>5
  <2> QED BY <1>3, <2>1
<1>7. ASSUME NEW c \in classes, NEW t \in object_class_index[c].must
      PROVE  t \in DOMAIN attrs /\ attrs[t] # << >>
  <2>1. hasNonEmpty(attrs, t)
    BY <1>1
  <2>2. t \in DOMAIN attrs /\ DOMAIN attrs[t] # {}
    BY <2>1 DEF hasNonEmpty
  <2>3. DOMAIN << >> = {}
    OBVIOUS
  <2> QED BY <2>2, <2>3
<1>8. ASSUME NEW t \in DOMAIN attrs \ {"objectClass"}
      PROVE  /\ t \in DOMAIN attribute_index
             /\ \E c \in classes : t \in object_class_index[c].must \cup object_class_index[c].may
             /\ attribute_index[t].single => ~(Len(attrs[t]) > 1)
             /\ \A i \in DOMAIN attrs[t], x \in SyntaxesOf[t] : attrs[t][i] \in Legal[x]
  <2>1. validateAttribute(attrs, t, permitted) = "Success"
    BY <1>1
  <2>2. /\ t \in DOMAIN attribute_index /\ t \in permitted
        /\ ~(attribute_index[t].single /\ Len(attrs[t]) > 1)
        /\ \A i \in DOMAIN attrs[t] : valueMatchesSyntax(attributeSyntax[t], attrs[t][i])
    <3> HIDE DEF permitted
    <3> QED BY <2>1 DEF validateAttribute
  <2>3. \E c \in classes : t \in object_class_index[c].must \cup object_class_index[c].may
    BY <2>2
  <2>4. ASSUME NEW x \in SyntaxesOf[t] PROVE x # "" /\ attributeSyntax[t] = x
    BY <2>2, InheritedSyntax DEF ClassesSane
  <2>5. \A i \in DOMAIN attrs[t], x \in SyntaxesOf[t] : attrs[t][i] \in Legal[x]
    BY <2>2, <2>4 DEF valueMatchesSyntax
  <2> QED BY <2>2, <2>3, <2>5
<1>9. EntryConforms(attrs) <=>
        /\ "objectClass" \in DOMAIN attrs /\ own # {} /\ own \subseteq ClassNames
        /\ \E c \in structural : structural = {d \in Superclasses[c] : Kind(d) = "structural"}
        /\ \A c \in classes : \A t \in object_class_index[c].must :
             t \in DOMAIN attrs /\ attrs[t] # << >>
        /\ \A t \in DOMAIN attrs \ {"objectClass"} :
             /\ t \in DOMAIN attribute_index
             /\ \E c \in classes : t \in object_class_index[c].must \cup object_class_index[c].may
             /\ attribute_index[t].single => ~(Len(attrs[t]) > 1)
             /\ \A i \in DOMAIN attrs[t], x \in SyntaxesOf[t] : attrs[t][i] \in Legal[x]
  BY <1>3 DEF EntryConforms, own
<1> HIDE DEF structural
<1> QED BY <1>1, <1>3, <1>5, <1>6, <1>7, <1>8, <1>9

-----------------------------------------------------------------------------
(* What the backend's mutators do to a tree.                               *)

\* MemoryBackend::rename moves one entry to a name that is free ...
LEMMA RenameDomain ==
  ASSUME NEW t, NEW from, NEW to, renameOk(t, from, to), from # to
  PROVE  DOMAIN rename(t, from, to) = (DOMAIN t \ {from}) \cup {to} /\ to \notin DOMAIN t
BY DEF rename, renameOk, Put, Erase

LEMMA RenameMoves ==
  ASSUME NEW t, NEW from, NEW to, renameOk(t, from, to), from # to
  PROVE  rename(t, from, to)[to] = t[from]
BY DEF rename, renameOk, Put, Erase

\* ... and no other.
LEMMA RenameLeaves ==
  ASSUME NEW t, NEW from, NEW to, renameOk(t, from, to), from # to, NEW e \in DOMAIN t \ {from}
  PROVE  rename(t, from, to)[e] = t[e]
<1> DEFINE u == Erase(t, from)
<1>1. rename(t, from, to) = Put(u, to, t[from]) /\ to \notin DOMAIN t
  BY DEF rename, renameOk
<1>2. e \in DOMAIN u /\ u[e] = t[e] /\ e # to
  BY <1>1 DEF Erase
<1> HIDE DEF u
<1> QED BY <1>1, <1>2 DEF Put

\* In a directory without group rules the tree has no say in who may write.
GroupFree == \A r \in Rules : r.who.kind \in {"anyone", "anonymous", "users", "dn"}

LEMMA GroupFreeRules ==
  ASSUME GroupFree, NEW t, NEW u, NEW who, NEW dn
  PROVE  mayWrite(Rules, RootDn, t, who, dn) <=> mayWrite(Rules, RootDn, u, who, dn)
<1>1. ASSUME NEW r \in Rules PROVE whoMatches(r, t, who) <=> whoMatches(r, u, who)
  BY DEF GroupFree, whoMatches
<1> QED BY <1>1 DEF mayWrite

-----------------------------------------------------------------------------
(* The inductive invariant.                                                *)

Validated(attrs) == checkSchema(attrs) = Success
Storing == {"addStore", "modifyStore", "dnStore", "pwStore"}

\* The state of a session has the fields of Idle.
Fields == {"pc", "who", "req", "target", "account", "entry", "rc", "wrote"}

\* A session is at a step of the handler of its request, it has not written
\* before its store, once between the two calls of ModifyDN, and what it is
\* about to store was validated.
SessionOK(k) ==
  /\ DOMAIN k = Fields
  /\ k.req \in Requests \cup {NoRequest} /\ k.who \in Identities \cup {Idle.who}
  /\ k.pc \in Steps(k.req.op)
  /\ k.wrote \in 0..2
  /\ k.pc \notin {"dnRename", "persist", "done"} => k.wrote = 0
  /\ k.pc = "dnRename" => k.wrote = 1
  /\ k.pc \in Storing => Validated(k.entry)

\* Every entry was validated, or is one that was imported at the start.
Stored(attrs) == Validated(attrs) \/ \E e \in DOMAIN InitialTree : attrs = InitialTree[e]
EntriesValidated == \A d \in DOMAIN tree : Stored(tree[d])

IInv ==
  /\ RootDse \notin DOMAIN tree \cup DOMAIN saved
  /\ half \in BOOLEAN
  /\ sess = [s \in Sessions |-> sess[s]]
  /\ \A s \in Sessions : SessionOK(sess[s])
  /\ EntriesValidated
  /\ SavedWhenQuiet

\* A step of session s leaves the others where they are.
Frame(s) ==
  /\ sess' = [t \in Sessions |-> sess'[t]]
  /\ \A t \in Sessions \ {s} : sess'[t] = sess[t]

\* A step that leaves the backend alone, and is not the one after a write.
LEMMA LocalKeeps ==
  ASSUME IInv, NEW s \in Sessions, Frame(s), SessionOK(sess'[s]),
         UNCHANGED <<tree, saved, half>>, sess[s].pc \notin {"dnRename", "persist"}
  PROVE  IInv'
<1>1. \A t \in Sessions : SessionOK(sess'[t])
  BY DEF IInv, Frame
<1>2. EntriesValidated'
  BY DEF IInv, EntriesValidated
<1>3. SavedWhenQuiet'
  BY DEF IInv, SavedWhenQuiet, Frame
<1> QED BY <1>1, <1>2, <1>3 DEF IInv, Frame

\* A session that moves on within its handler before it has written.
LEMMA MovedOK ==
  ASSUME NEW k, SessionOK(k), k.pc \notin {"dnRename", "persist", "done"},
         NEW m, DOMAIN m = Fields, m.who = k.who, m.req = k.req, m.wrote = k.wrote,
         m.pc \in Steps(k.req.op), m.pc # "dnRename",
         m.pc \in Storing => Validated(m.entry)
  PROVE  SessionOK(m)
<1>1. m.req \in Requests \cup {NoRequest} /\ m.who \in Identities \cup {Idle.who}
  BY DEF SessionOK
<1>2. m.wrote \in 0..2 /\ m.wrote = 0
  BY DEF SessionOK
<1> QED BY <1>1, <1>2 DEF SessionOK

\* What Proceed, ProceedWith and Mutate do to the state of the session.
LEMMA ProceedFields ==
  ASSUME IInv, NEW s \in Sessions, NEW rc, NEW next, Proceed(s, rc, next)
  PROVE  /\ Frame(s) /\ DOMAIN sess'[s] = Fields
         /\ sess'[s].pc = IF rc = Success THEN next ELSE "done"
         /\ sess'[s].who = sess[s].who /\ sess'[s].req = sess[s].req
         /\ sess'[s].target = sess[s].target /\ sess'[s].wrote = sess[s].wrote
<1>1. DOMAIN sess[s] = Fields /\ sess = [t \in Sessions |-> sess[t]]
  BY DEF IInv, SessionOK
<1> QED BY <1>1 DEF Proceed, Frame, Fields

LEMMA ProceedWithFields ==
  ASSUME IInv, NEW s \in Sessions, NEW rc, NEW next, NEW attrs, ProceedWith(s, rc, next, attrs)
  PROVE  /\ Frame(s) /\ DOMAIN sess'[s] = Fields
         /\ sess'[s].pc = IF rc = Success THEN next ELSE "done"
         /\ sess'[s].entry = IF rc = Success THEN attrs ELSE sess[s].entry
         /\ sess'[s].who = sess[s].who /\ sess'[s].req = sess[s].req
         /\ sess'[s].target = sess[s].target /\ sess'[s].wrote = sess[s].wrote
<1>1. DOMAIN sess[s] = Fields /\ sess = [t \in Sessions |-> sess[t]]
  BY DEF IInv, SessionOK
<1> QED BY <1>1 DEF ProceedWith, Frame, Fields

LEMMA MutateFields ==
  ASSUME IInv, NEW s \in Sessions, NEW ok \in BOOLEAN, NEW newTree, NEW next,
         Mutate(s, ok, newTree, next)
  PROVE  /\ Frame(s) /\ DOMAIN sess'[s] = Fields
         /\ sess'[s].pc = IF ok THEN next ELSE "done"
         /\ sess'[s].who = sess[s].who /\ sess'[s].req = sess[s].req
         /\ sess'[s].target = sess[s].target
         /\ sess'[s].wrote = IF ok THEN sess[s].wrote + 1 ELSE sess[s].wrote
<1>1. DOMAIN sess[s] = Fields /\ sess = [t \in Sessions |-> sess[t]]
  BY DEF IInv, SessionOK
<1> QED BY <1>1 DEF Mutate, Frame, Fields

\* Proceed
LEMMA ProceedKeeps ==
  ASSUME IInv, NEW s \in Sessions, NEW rc, NEW next, Proceed(s, rc, next),
         UNCHANGED <<tree, saved, half>>,
         sess[s].pc \notin {"dnRename", "persist", "done"},
         next \in Steps(sess[s].req.op) \ ({"dnRename"} \cup Storing),
         "done" \in Steps(sess[s].req.op)
  PROVE  IInv'
<1>1. SessionOK(sess[s])
  BY DEF IInv
<1>2. /\ Frame(s) /\ DOMAIN sess'[s] = Fields
      /\ sess'[s].pc = IF rc = Success THEN next ELSE "done"
      /\ sess'[s].who = sess[s].who /\ sess'[s].req = sess[s].req
      /\ sess'[s].wrote = sess[s].wrote
  BY ProceedFields
<1>3. SessionOK(sess'[s])
  BY <1>1, <1>2, MovedOK DEF Storing
<1> QED BY <1>2, <1>3, LocalKeeps

\* ProceedWith
LEMMA ProceedWithKeeps ==
  ASSUME IInv, NEW s \in Sessions, NEW rc, NEW next, NEW attrs, ProceedWith(s, rc, next, attrs),
         UNCHANGED <<tree, saved, half>>,
         sess[s].pc \notin {"dnRename", "persist", "done"},
         next \in Steps(sess[s].req.op) \ {"dnRename"},
         "done" \in Steps(sess[s].req.op),
         rc = Success /\ next \in Storing => Validated(attrs)
  PROVE  IInv'
<1>1. SessionOK(sess[s])
  BY DEF IInv
<1>2. /\ Frame(s) /\ DOMAIN sess'[s] = Fields
      /\ sess'[s].pc = IF rc = Success THEN next ELSE "done"
      /\ sess'[s].entry = IF rc = Success THEN attrs ELSE sess[s].entry
      /\ sess'[s].who = sess[s].who /\ sess'[s].req = sess[s].req
      /\ sess'[s].wrote = sess[s].wrote
  BY ProceedWithFields
<1>3. SessionOK(sess'[s])
  BY <1>1, <1>2, MovedOK DEF Storing
<1> QED BY <1>2, <1>3, LocalKeeps

\* Mutate: a backend call that changes the tree or fails.
LEMMA MutateKeeps ==
  ASSUME IInv, NEW s \in Sessions, NEW ok \in BOOLEAN, NEW newTree, NEW next,
         Mutate(s, ok, newTree, next),
         sess[s].pc \notin {"persist", "done"},
         next \in Steps(sess[s].req.op) \cap {"dnRename", "persist"},
         next = "dnRename" => sess[s].pc # "dnRename",
         "done" \in Steps(sess[s].req.op),
         ok => RootDse \notin DOMAIN newTree /\ \A d \in DOMAIN newTree : Stored(newTree[d])
  PROVE  IInv'
<1>1. /\ SessionOK(sess[s])
      /\ sess[s].wrote = IF sess[s].pc = "dnRename" THEN 1 ELSE 0
  BY DEF IInv, SessionOK
<1>2. /\ Frame(s) /\ DOMAIN sess'[s] = Fields
      /\ sess'[s].pc = IF ok THEN next ELSE "done"
      /\ sess'[s].who = sess[s].who /\ sess'[s].req = sess[s].req
      /\ sess'[s].wrote = IF ok THEN sess[s].wrote + 1 ELSE sess[s].wrote
  BY MutateFields
<1>3. SessionOK(sess'[s])
  <2>1. sess'[s].req \in Requests \cup {NoRequest} /\ sess'[s].who \in Identities \cup {Idle.who}
    BY <1>1, <1>2 DEF SessionOK
  <2>2. sess'[s].pc \in Steps(sess'[s].req.op) /\ sess'[s].pc \in {"dnRename", "persist", "done"}
    BY <1>2
  <2>3. sess'[s].wrote \in 0..2 /\ (sess'[s].pc = "dnRename" => sess'[s].wrote = 1)
    BY <1>1, <1>2
  <2> QED BY <1>2, <2>1, <2>2, <2>3 DEF SessionOK, Storing
<1>4. \A t \in Sessions : SessionOK(sess'[t])
  BY <1>2, <1>3 DEF IInv, Frame
<1>5. /\ tree' = IF ok THEN newTree ELSE tree
      /\ saved' = saved /\ half' = (half \/ (~ok /\ sess[s].wrote > 0))
  BY DEF Mutate
<1>6. half' \in BOOLEAN
  BY <1>5
<1>7. EntriesValidated' /\ RootDse \notin DOMAIN tree' \cup DOMAIN saved'
  BY <1>5 DEF IInv, EntriesValidated
<1>8. SavedWhenQuiet'
  <2>1. CASE ok
    BY <1>2, <2>1 DEF SavedWhenQuiet
  <2>2. CASE ~ok /\ sess[s].pc = "dnRename"
    <3>1. sess[s].wrote > 0
      BY <1>1, <2>2
    <3>2. half'
      BY <1>5, <2>2, <3>1
    <3> QED BY <3>2 DEF SavedWhenQuiet
  <2>3. CASE ~ok /\ sess[s].pc # "dnRename"
    <3>1. half' = half
      BY <1>1, <1>5, <2>3 DEF IInv
    <3>2. tree' = tree /\ saved' = saved
      BY <1>5, <2>3
    <3> QED BY <1>2, <2>3, <3>1, <3>2 DEF IInv, SavedWhenQuiet, Frame
  <2> QED BY <2>1, <2>2, <2>3
<1> QED BY <1>2, <1>4, <1>6, <1>7, <1>8 DEF IInv, Frame

\* A stored copy was validated, and goes where an entry may be.
LEMMA PutKeeps ==
  ASSUME IInv, NEW d, NEW a, Validated(a), d # RootDse
  PROVE  RootDse \notin DOMAIN Put(tree, d, a)
         /\ \A e \in DOMAIN Put(tree, d, a) : Stored(Put(tree, d, a)[e])
BY DEF Put, IInv, EntriesValidated, Stored

-----------------------------------------------------------------------------
(* The handlers.                                                           *)

\* Reading a request, answering it, and persist().
LEMMA ServeKeeps ==
  ASSUME IInv, NEW s \in Sessions, serve(s) \/ send(s)
  PROVE  IInv'
<1>1. DOMAIN sess[s] = Fields /\ sess = [t \in Sessions |-> sess[t]]
  BY DEF IInv, SessionOK
<1>2. CASE serve(s)
  <2>1. PICK r \in Requests, w \in Identities :
          sess' = [sess EXCEPT ![s] = [Idle EXCEPT !.pc = "start", !.req = r, !.who = w]]
    BY <1>2 DEF serve
  <2> DEFINE m == [Idle EXCEPT !.pc = "start", !.req = r, !.who = w]
  <2>2. DOMAIN m = Fields /\ m.pc = "start" /\ m.req = r /\ m.who = w /\ m.wrote = 0
    BY DEF Idle, Fields
  <2>3. Frame(s) /\ sess'[s] = m
    BY <1>1, <2>1 DEF Frame
  <2>4. "start" \in Steps(r.op)
    BY RequestOps DEF Steps
  <2> HIDE DEF m
  <2>5. SessionOK(m)
    BY <2>2, <2>4 DEF SessionOK, Storing
  <2> QED BY <1>2, <2>3, <2>5, LocalKeeps DEF serve
<1>3. CASE send(s)
  <2>1. Frame(s) /\ sess'[s] = Idle
    BY <1>1, <1>3 DEF Frame, send
  <2>2. /\ DOMAIN Idle = Fields /\ Idle.pc = "idle" /\ Idle.req = NoRequest /\ Idle.wrote = 0
    BY DEF Idle, Fields
  <2>3. "idle" \in Steps(NoRequest.op)
    BY DEF Steps, NoRequest
  <2>4. SessionOK(Idle)
    BY <2>2, <2>3 DEF SessionOK, Storing
  <2> QED BY <1>3, <2>1, <2>4, LocalKeeps DEF send
<1> QED BY <1>2, <1>3

LEMMA PersistKeeps ==
  ASSUME IInv, NEW s \in Sessions, persist(s)
  PROVE  IInv'
<1>1. SessionOK(sess[s]) /\ DOMAIN sess[s] = Fields /\ sess = [t \in Sessions |-> sess[t]]
  BY DEF IInv, SessionOK
<1>2. /\ Frame(s) /\ DOMAIN sess'[s] = Fields /\ sess'[s].pc = "done"
      /\ sess'[s].who = sess[s].who /\ sess'[s].req = sess[s].req /\ sess'[s].wrote = sess[s].wrote
  BY <1>1 DEF persist, Frame, Fields
<1>3. "done" \in Steps(sess[s].req.op)
  <2>1. "persist" \in Steps(sess[s].req.op)
    BY <1>1 DEF persist, SessionOK
  <2>2. sess[s].req.op \in {"none", "add", "modify", "delete", "modifyDn", "passwordModify"}
    BY <1>1, RequestOps DEF SessionOK, NoRequest
  <2> QED BY <2>1, <2>2 DEF Steps
<1>4. SessionOK(sess'[s])
  BY <1>1, <1>2, <1>3 DEF SessionOK, Storing
<1>5. \A t \in Sessions : SessionOK(sess'[t])
  BY <1>2, <1>4 DEF IInv, Frame
<1>6. tree' = tree /\ saved' = tree /\ half' = FALSE
  BY DEF persist
<1>7. EntriesValidated' /\ SavedWhenQuiet'
  BY <1>6 DEF IInv, EntriesValidated, SavedWhenQuiet
<1> QED BY <1>2, <1>5, <1>6, <1>7 DEF IInv, Frame

LEMMA AddKeeps ==
  ASSUME IInv, NEW s \in Sessions, handleAdd(s) \/ addParent(s) \/ addStore(s)
  PROVE  IInv'
<1>1. {"start", "done", "persist", "addParent", "addStore"} = Steps("add")
  BY DEF Steps
<1>2. CASE handleAdd(s)
  BY <1>1, <1>2, ProceedKeeps DEF handleAdd, At, Storing
<1>3. CASE addParent(s)
  <2> DEFINE attrs == encodeUserPasswords(sess[s].req.attrs)
             parent == dnParent(sess[s].req.dn)
             rc == IF parent # RootDse /\ ~found(tree, parent) THEN "NamingViolation"
                   ELSE checkSchema(attrs)
  <2>1. ProceedWith(s, rc, "addStore", attrs) /\ At(s, "addParent", "add")
    BY <1>3 DEF addParent
  <2>2. rc = Success => Validated(attrs)
    BY DEF Validated, Success
  <2> HIDE DEF attrs, rc
  <2> QED BY <1>1, <1>3, <2>1, <2>2, ProceedWithKeeps DEF addParent, At
<1>4. CASE addStore(s)
  <2> DEFINE dn == sess[s].req.dn
             new == Put(tree, dn, sess[s].entry)
             ok == addOk(tree, dn)
  <2>1. Mutate(s, ok, new, "persist") /\ sess[s].pc = "addStore" /\ sess[s].req.op = "add"
    BY <1>4 DEF addStore, At
  <2>2. Validated(sess[s].entry)
    BY <2>1 DEF IInv, SessionOK, Storing
  <2>3. ok => RootDse \notin DOMAIN new /\ \A d \in DOMAIN new : Stored(new[d])
    BY <2>2, PutKeeps DEF addOk
  <2>4. ok \in BOOLEAN
    BY DEF addOk
  <2> HIDE DEF ok, new
  <2> QED BY <1>1, <2>1, <2>3, <2>4, MutateKeeps
<1> QED BY <1>2, <1>3, <1>4

\* The mutator of handleModify, of the first half of handleModifyDn and of
\* handlePasswordModify: it replaces an entry that is there.
LEMMA ReplaceKeeps ==
  ASSUME IInv, NEW s \in Sessions, NEW dn, NEW next,
         Mutate(s, modifyOk(tree, dn), Put(tree, dn, sess[s].entry), next),
         sess[s].pc \in Storing, next \in Steps(sess[s].req.op) \cap {"dnRename", "persist"},
         "done" \in Steps(sess[s].req.op)
  PROVE  IInv'
<1> DEFINE new == Put(tree, dn, sess[s].entry)
           ok == modifyOk(tree, dn)
<1>1. Validated(sess[s].entry) /\ sess[s].pc \notin {"persist", "done", "dnRename"}
  BY DEF IInv, SessionOK, Storing
<1>2. ok => RootDse \notin DOMAIN new /\ \A d \in DOMAIN new : Stored(new[d])
  BY <1>1, PutKeeps DEF modifyOk, IInv
<1>3. ok \in BOOLEAN
  BY DEF modifyOk
<1> HIDE DEF ok, new
<1> QED BY <1>1, <1>2, <1>3, MutateKeeps DEF ok, new

LEMMA ModifyKeeps ==
  ASSUME IInv, NEW s \in Sessions, handleModify(s) \/ modifyStore(s)
  PROVE  IInv'
<1>1. {"start", "done", "persist", "modifyStore"} = Steps("modify")
  BY DEF Steps
<1>2. CASE handleModify(s)
  <2> DEFINE dn == sess[s].req.dn
             applied == applyModifications(tree[dn], encodeUserPasswordChanges(sess[s].req.changes))
             rc == IF ~allowed(s, dn) THEN "InsufficientAccessRights"
                   ELSE IF ~found(tree, dn) THEN "NoSuchObject"
                   ELSE IF applied.rc # Success THEN applied.rc
                   ELSE checkSchema(applied.attrs)
  <2>1. ProceedWith(s, rc, "modifyStore", applied.attrs) /\ At(s, "start", "modify")
    BY <1>2 DEF handleModify
  <2>2. rc = Success => Validated(applied.attrs)
    BY DEF Validated, Success
  <2> HIDE DEF applied, rc
  <2> QED BY <1>1, <1>2, <2>1, <2>2, ProceedWithKeeps DEF handleModify, At
<1>3. CASE modifyStore(s)
  BY <1>1, <1>3, ReplaceKeeps DEF modifyStore, At, Storing
<1> QED BY <1>2, <1>3

LEMMA DeleteKeeps ==
  ASSUME IInv, NEW s \in Sessions, handleDelete(s) \/ deleteChildren(s) \/ deleteRemove(s)
  PROVE  IInv'
<1>1. {"start", "done", "persist", "deleteChildren", "deleteRemove"} = Steps("delete")
  BY DEF Steps
<1>2. CASE handleDelete(s) \/ deleteChildren(s)
  BY <1>1, <1>2, ProceedKeeps DEF handleDelete, deleteChildren, At, Storing
<1>3. CASE deleteRemove(s)
  <2> DEFINE dn == sess[s].req.dn
             new == Erase(tree, dn)
             ok == removeOk(tree, dn)
  <2>1. Mutate(s, ok, new, "persist") /\ sess[s].pc = "deleteRemove" /\ sess[s].req.op = "delete"
    BY <1>3 DEF deleteRemove, At
  <2>2. RootDse \notin DOMAIN new /\ \A d \in DOMAIN new : Stored(new[d])
    BY DEF Erase, IInv, EntriesValidated
  <2>3. ok \in BOOLEAN
    BY DEF removeOk
  <2> HIDE DEF ok, new
  <2> QED BY <1>1, <2>1, <2>2, <2>3, MutateKeeps
<1> QED BY <1>2, <1>3

LEMMA ModifyDnKeeps ==
  ASSUME IInv, NEW s \in Sessions,
         \/ handleModifyDn(s) \/ modifyDnParent(s) \/ modifyDnTarget(s)
         \/ modifyDnStore(s) \/ modifyDnRename(s)
  PROVE  IInv'
<1>1. {"start", "done", "persist", "dnParent", "dnTarget", "dnStore", "dnRename"} = Steps("modifyDn")
  BY DEF Steps
<1>2. CASE handleModifyDn(s)
  BY <1>1, <1>2, ProceedWithKeeps DEF handleModifyDn, At, Storing
<1>3. CASE modifyDnParent(s)
  BY <1>1, <1>3, ProceedKeeps DEF modifyDnParent, At, Storing
<1>4. CASE modifyDnTarget(s)
  <2> DEFINE r == sess[s].req
             attrs == renameRdn(sess[s].entry, r)
             rc == IF newDn(r) # r.dn /\ found(tree, newDn(r)) THEN "EntryAlreadyExists"
                   ELSE checkSchema(attrs)
  <2>1. ProceedWith(s, rc, "dnStore", attrs) /\ At(s, "dnTarget", "modifyDn")
    BY <1>4 DEF modifyDnTarget
  <2>2. rc = Success => Validated(attrs)
    BY DEF Validated, Success
  <2> HIDE DEF attrs, rc
  <2> QED BY <1>1, <1>4, <2>1, <2>2, ProceedWithKeeps DEF modifyDnTarget, At
<1>5. CASE modifyDnStore(s)
  BY <1>1, <1>5, ReplaceKeeps DEF modifyDnStore, At, Storing
<1>6. CASE modifyDnRename(s)
  <2> DEFINE from == sess[s].req.dn
             to == newDn(sess[s].req)
             new == rename(tree, from, to)
             ok == renameOk(tree, from, to)
  <2>1. Mutate(s, ok, new, "persist") /\ sess[s].pc = "dnRename" /\ sess[s].req.op = "modifyDn"
    BY <1>6 DEF modifyDnRename, At
  <2>2. ok => RootDse \notin DOMAIN new /\ \A d \in DOMAIN new : Stored(new[d])
    <3> HIDE DEF from, to
    <3>1. CASE from = to
      BY <3>1 DEF rename, IInv, EntriesValidated
    <3>2. CASE from # to /\ ok
      <4>1. DOMAIN new = (DOMAIN tree \ {from}) \cup {to}
        BY <3>2 DEF rename, renameOk, Put, Erase
      <4>2. from \in DOMAIN tree /\ to # RootDse
        BY <3>2 DEF renameOk
      <4>3. new[to] = tree[from]
        BY <3>2, RenameMoves
      <4>4. \A e \in DOMAIN tree \ {from} : new[e] = tree[e]
        BY <3>2, RenameLeaves
      <4> HIDE DEF new
      <4> QED BY <4>1, <4>2, <4>3, <4>4 DEF IInv, EntriesValidated
    <3> QED BY <3>1, <3>2
  <2>3. ok \in BOOLEAN
    BY DEF renameOk
  <2> HIDE DEF ok, new
  <2> QED BY <1>1, <2>1, <2>2, <2>3, MutateKeeps
<1> QED BY <1>2, <1>3, <1>4, <1>5, <1>6

\* handlePasswordModify, whose steps before the store set fields that do not
\* matter here: the target and the account the old password is checked against.
LEMMA PwMoves ==
  ASSUME IInv, NEW s \in Sessions,
         pwAuthorise(s, RootDn) \/ (\E target : pwAuthorise(s, target)) \/ pwOld(s) \/ pwOldFind(s),
         UNCHANGED <<tree, saved, half>>,
         sess[s].pc \in {"start", "pwFind", "pwOld", "pwOldFind"},
         sess[s].req.op = "passwordModify"
  PROVE  IInv'
<1>1. SessionOK(sess[s]) /\ DOMAIN sess[s] = Fields /\ sess = [t \in Sessions |-> sess[t]]
  BY DEF IInv, SessionOK
<1>2. /\ Frame(s) /\ DOMAIN sess'[s] = Fields
      /\ sess'[s].pc \in {"done", "pwLookup", "pwOld", "pwOldFind", "pwVerify"}
      /\ sess'[s].who = sess[s].who /\ sess'[s].req = sess[s].req
      /\ sess'[s].wrote = sess[s].wrote
  <2>1. CASE \E target : pwAuthorise(s, target)
    <3>1. PICK target : pwAuthorise(s, target)
      BY <2>1
    <3> DEFINE rc == IF target = NoName THEN "NoSuchObject"
                     ELSE IF target = RootDn THEN "UnwillingToPerform"
                     ELSE IF /\ sess[s].who.dn \notin {RootDn, target}
                             /\ ~allowed(s, target) THEN "InsufficientAccessRights"
                     ELSE Success
               next == IF sess[s].req.old = {} THEN "pwLookup" ELSE "pwOld"
    <3>2. sess' = [sess EXCEPT ![s].pc = IF rc = Success THEN next ELSE "done",
                               ![s].rc = IF rc = Success THEN @ ELSE rc, ![s].target = target]
      BY <3>1 DEF pwAuthorise
    <3>3. next \in {"pwLookup", "pwOld"}
      OBVIOUS
    <3> HIDE DEF rc, next
    <3> QED BY <1>1, <3>2, <3>3 DEF Frame, Fields
  <2>2. CASE pwOld(s)
    BY <1>1, <2>2 DEF pwOld, Frame, Fields
  <2>3. CASE pwOldFind(s)
    BY <1>1, <2>3 DEF pwOldFind, Frame, Fields
  <2> QED BY <2>1, <2>2, <2>3
<1>3. SessionOK(sess'[s])
  <2>1. sess'[s].pc \in Steps(sess[s].req.op)
    BY <1>2 DEF Steps
  <2> QED BY <1>1, <1>2, <2>1, MovedOK DEF Storing
<1> QED BY <1>2, <1>3, LocalKeeps

LEMMA PasswordModifyKeeps ==
  ASSUME IInv, NEW s \in Sessions,
         \/ handlePasswordModify(s) \/ pwFind(s) \/ pwOld(s) \/ pwOldFind(s)
         \/ pwVerify(s) \/ pwLookup(s) \/ pwStore(s)
  PROVE  IInv'
<1>1. {"start", "done", "persist", "pwFind", "pwOld", "pwOldFind", "pwVerify", "pwLookup", "pwStore"}
        = Steps("passwordModify")
  BY DEF Steps
<1>2. CASE handlePasswordModify(s)
  <2>1. /\ At(s, "start", "passwordModify") /\ UNCHANGED <<tree, saved, half>>
        /\ \/ \E rc : Proceed(s, rc, "done")
           \/ Proceed(s, Success, "pwFind")
           \/ \E target : pwAuthorise(s, target)
    <3> HIDE DEF At, Proceed, pwAuthorise
    <3> QED BY <1>2 DEF handlePasswordModify
  <2>2. CASE \E rc : Proceed(s, rc, "done")
    BY <1>1, <2>1, <2>2, ProceedKeeps DEF At, Storing
  <2>3. CASE Proceed(s, Success, "pwFind")
    BY <1>1, <2>1, <2>3, ProceedKeeps DEF At, Storing
  <2>4. CASE \E target : pwAuthorise(s, target)
    BY <2>1, <2>4, PwMoves DEF At
  <2> QED BY <2>1, <2>2, <2>3, <2>4
<1>3. CASE pwFind(s)
  BY <1>3, PwMoves DEF pwFind, At
<1>4. CASE pwOld(s)
  BY <1>4, PwMoves DEF pwOld, At
<1>5. CASE pwOldFind(s)
  BY <1>5, PwMoves DEF pwOldFind, At
<1>6. CASE pwVerify(s)
  BY <1>1, <1>6, ProceedKeeps DEF pwVerify, At, Storing
<1>7. CASE pwLookup(s)
  <2> DEFINE target == sess[s].target
             applied == applyModifications(tree[target],
                          <<[op |-> "replace", type |-> "userPassword",
                             values |-> <<encodeUserPassword(sess[s].req.new)>>]>>)
             rc == IF ~found(tree, target) THEN "NoSuchObject" ELSE checkSchema(applied.attrs)
  <2>1. ProceedWith(s, rc, "pwStore", applied.attrs) /\ At(s, "pwLookup", "passwordModify")
    BY <1>7 DEF pwLookup
  <2>2. rc = Success => Validated(applied.attrs)
    BY DEF Validated, Success
  <2> HIDE DEF applied, rc
  <2> QED BY <1>1, <1>7, <2>1, <2>2, ProceedWithKeeps DEF pwLookup, At
<1>8. CASE pwStore(s)
  BY <1>1, <1>8, ReplaceKeeps DEF pwStore, At, Storing
<1> QED BY <1>2, <1>3, <1>4, <1>5, <1>6, <1>7, <1>8

-----------------------------------------------------------------------------
(* The theorems about states.                                              *)

\* The inductive invariant holds in every state.
THEOREM DirectoryInductive == Spec => []IInv
<1>1. ASSUME Init PROVE IInv
  <2>1. /\ DOMAIN Idle = Fields /\ Idle.pc = "idle" /\ Idle.req = NoRequest /\ Idle.wrote = 0
    BY DEF Idle, Fields
  <2>2. "idle" \in Steps(NoRequest.op)
    BY DEF Steps, NoRequest
  <2>3. SessionOK(Idle)
    BY <2>1, <2>2 DEF SessionOK, Storing
  <2>4. EntriesValidated /\ SavedWhenQuiet
    BY <1>1 DEF Init, EntriesValidated, Stored, SavedWhenQuiet
  <2>5. sess = [s \in Sessions |-> sess[s]] /\ \A s \in Sessions : SessionOK(sess[s])
    BY <1>1, <2>3 DEF Init
  <2> QED BY <1>1, <2>4, <2>5, ImportNames DEF Init, IInv
<1>2. ASSUME IInv, [Next]_vars PROVE IInv'
  <2>1. ASSUME NEW s \in Sessions, Step(s) PROVE IInv'
    BY <1>2, <2>1, ServeKeeps, PersistKeeps, AddKeeps, ModifyKeeps, DeleteKeeps, ModifyDnKeeps,
       PasswordModifyKeeps
    DEF Step
  <2>2. CASE UNCHANGED vars
    BY <1>2, <2>2 DEF vars, IInv, EntriesValidated, SavedWhenQuiet
  <2> QED BY <1>2, <2>1, <2>2 DEF Next
<1> QED BY <1>1, <1>2, PTL DEF Spec

\* Every session is at a step of the handler of its own request, makes at
\* most two backend writes, and no entry ever has the empty name.
THEOREM DirectoryTyped == Spec => []TypeOK
<1>1. IInv => TypeOK
  BY DEF IInv, SessionOK, TypeOK
<1> QED BY <1>1, DirectoryInductive, PTL

\* Nothing gets past validateEntry: every entry of the tree passes it as it
\* is now, or is one of those that were imported at the start, although a
\* handler validates a copy and a rename moves whatever is there by then.
THEOREM NothingUnvalidated == Spec => []EntriesValidated
<1>1. IInv => EntriesValidated
  BY DEF IInv
<1> QED BY <1>1, DirectoryInductive, PTL

\* The import checks nothing; this file happens to conform.
ImportConforms == \A d \in DOMAIN InitialTree : EntryConforms(InitialTree[d])

\* What is stored conforms to the schema, by a definition that does not know
\* how validateEntry goes about it, if what was imported does: a handler
\* validates a copy that it stores only later, and rename moves an entry that
\* another session may have rewritten since.
THEOREM EntriesConform ==
  ASSUME ClassesSane, ImportConforms
  PROVE  Spec => []SchemaHolds
<1>1. ASSUME NEW attrs, Validated(attrs) PROVE EntryConforms(attrs)
  <2>1. validateEntry(attrs) = "Success"
    BY <1>1 DEF Validated, checkSchema, Success
  <2> QED BY <2>1, ValidEntriesConform
<1>2. IInv => SchemaHolds
  BY <1>1 DEF IInv, EntriesValidated, Stored, SchemaHolds, ImportConforms
<1> QED BY <1>2, DirectoryInductive, PTL

\* When no session is between its write and its persist(), ldif_file holds
\* the tree, unless a ModifyDN was refused half way and nobody saved since.
THEOREM QuietDirectoryIsSaved == Spec => []SavedWhenQuiet
<1>1. IInv => SavedWhenQuiet
  BY DEF IInv
<1> QED BY <1>1, DirectoryInductive, PTL

-----------------------------------------------------------------------------
(* The steps that write, and what they write.                              *)

\* The entry at dn is replaced by the session's copy.
Replaces(s, dn) == dn \in DOMAIN tree /\ tree' = Put(tree, dn, sess[s].entry)

Writes(s) ==
  LET k == sess[s]
      r == sess[s].req
  IN  \/ k.pc = "addStore" /\ addOk(tree, r.dn) /\ tree' = Put(tree, r.dn, k.entry)
      \/ k.pc \in {"modifyStore", "dnStore"} /\ Replaces(s, r.dn)
      \/ k.pc = "pwStore" /\ Replaces(s, k.target)
      \/ k.pc = "deleteRemove" /\ tree' = Erase(tree, r.dn)
      \/ /\ k.pc = "dnRename" /\ renameOk(tree, r.dn, newDn(r))
         /\ tree' = rename(tree, r.dn, newDn(r))

LEMMA OnlyWritesWrite ==
  ASSUME IInv, NEW s \in Sessions, Step(s), tree' # tree
  PROVE  Writes(s) /\ Frame(s) /\ sess'[s].pc # sess[s].pc
<1>1. ASSUME NEW ok \in BOOLEAN, NEW newTree, NEW next, Mutate(s, ok, newTree, next),
             next \in {"dnRename", "persist"}
      PROVE  ok /\ tree' = newTree /\ Frame(s) /\ sess'[s].pc = next
  <2>1. ok /\ tree' = newTree
    BY <1>1 DEF Mutate
  <2>2. Frame(s) /\ sess'[s].pc = IF ok THEN next ELSE "done"
    BY <1>1, MutateFields
  <2> QED BY <2>1, <2>2
<1>2. CASE addStore(s)
  <2> DEFINE ok == addOk(tree, sess[s].req.dn)
             new == Put(tree, sess[s].req.dn, sess[s].entry)
  <2>1. Mutate(s, ok, new, "persist") /\ ok \in BOOLEAN /\ sess[s].pc = "addStore"
    BY <1>2 DEF addStore, addOk, At
  <2> HIDE DEF ok, new
  <2>2. ok /\ tree' = new /\ Frame(s) /\ sess'[s].pc = "persist"
    BY <1>1, <2>1
  <2> QED BY <2>1, <2>2 DEF Writes, ok, new
<1>3. ASSUME NEW dn, NEW next \in {"dnRename", "persist"},
             Mutate(s, modifyOk(tree, dn), Put(tree, dn, sess[s].entry), next)
      PROVE  Replaces(s, dn) /\ Frame(s) /\ sess'[s].pc = next
  <2> DEFINE ok == modifyOk(tree, dn)
             new == Put(tree, dn, sess[s].entry)
  <2>1. Mutate(s, ok, new, next) /\ ok \in BOOLEAN
    BY <1>3 DEF modifyOk
  <2> HIDE DEF ok, new
  <2>2. ok /\ tree' = new /\ Frame(s) /\ sess'[s].pc = next
    BY <1>1, <1>3, <2>1
  <2> QED BY <2>1, <2>2 DEF Replaces, ok, new, modifyOk
<1>4. CASE modifyStore(s) \/ modifyDnStore(s) \/ pwStore(s)
  BY <1>3, <1>4 DEF modifyStore, modifyDnStore, pwStore, At, Writes
<1>5. CASE deleteRemove(s)
  <2> DEFINE ok == removeOk(tree, sess[s].req.dn)
             new == Erase(tree, sess[s].req.dn)
  <2>1. Mutate(s, ok, new, "persist") /\ ok \in BOOLEAN /\ sess[s].pc = "deleteRemove"
    BY <1>5 DEF deleteRemove, removeOk, At
  <2> HIDE DEF ok, new
  <2>2. tree' = new /\ Frame(s) /\ sess'[s].pc = "persist"
    BY <1>1, <2>1
  <2> QED BY <2>1, <2>2 DEF Writes, new
<1>6. CASE modifyDnRename(s)
  <2> DEFINE ok == renameOk(tree, sess[s].req.dn, newDn(sess[s].req))
             new == rename(tree, sess[s].req.dn, newDn(sess[s].req))
  <2>1. Mutate(s, ok, new, "persist") /\ ok \in BOOLEAN /\ sess[s].pc = "dnRename"
    BY <1>6 DEF modifyDnRename, renameOk, At
  <2> HIDE DEF ok, new
  <2>2. ok /\ tree' = new /\ Frame(s) /\ sess'[s].pc = "persist"
    BY <1>1, <2>1
  <2> QED BY <2>1, <2>2 DEF Writes, ok, new
<1> QED BY <1>2, <1>4, <1>5, <1>6
        DEF Step, serve, send, persist, handleAdd, addParent, handleModify, handleDelete,
            deleteChildren, handleModifyDn, modifyDnParent, modifyDnTarget,
            handlePasswordModify, pwFind, pwOld, pwOldFind, pwVerify, pwLookup

\* A rename whose two names are the same changes nothing.
LEMMA RenameToOther ==
  ASSUME tree' # tree, NEW from, NEW to, tree' = rename(tree, from, to)
  PROVE  from # to
BY DEF rename

\* Entries vanish only by a delete of that name, or by a rename that leaves
\* the entry as it was under a name that was free, however the handlers of
\* the sessions interleave.
THEOREM EntriesAreNotLost == Spec => NoEntryLost
<1> DEFINE Kept(d, s) ==
      /\ sess'[s] # sess[s]
      /\ sess[s].req.dn = d
      /\ \/ sess[s].pc = "deleteRemove"
         \/ /\ sess[s].pc = "dnRename"
            /\ newDn(sess[s].req) \notin DOMAIN tree
            /\ tree'[newDn(sess[s].req)] = tree[d]
<1>1. ASSUME IInv, [Next]_vars, tree' # tree, NEW d \in DOMAIN tree \ DOMAIN tree'
      PROVE  \E s \in Sessions : Kept(d, s)
  <2>1. PICK s \in Sessions : Step(s)
    BY <1>1 DEF Next, vars
  <2>2. Writes(s) /\ sess'[s] # sess[s]
    BY <1>1, <2>1, OnlyWritesWrite
  <2> SUFFICES Kept(d, s)
    OBVIOUS
  <2> DEFINE from == sess[s].req.dn
             to   == newDn(sess[s].req)
  <2>3. \/ sess[s].pc = "deleteRemove" /\ tree' = Erase(tree, from)
        \/ sess[s].pc = "dnRename" /\ renameOk(tree, from, to) /\ tree' = rename(tree, from, to)
    BY <1>1, <2>2 DEF Writes, Replaces, Put
  <2>4. CASE sess[s].pc = "deleteRemove" /\ tree' = Erase(tree, from)
    BY <1>1, <2>2, <2>4 DEF Erase
  <2>5. CASE sess[s].pc = "dnRename" /\ renameOk(tree, from, to) /\ tree' = rename(tree, from, to)
    <3> HIDE DEF from, to
    <3>1. from # to
      BY <1>1, <2>5, RenameToOther
    <3>2. DOMAIN tree' = (DOMAIN tree \ {from}) \cup {to} /\ to \notin DOMAIN tree
      BY <2>5, <3>1, RenameDomain
    <3>3. tree'[to] = tree[from] /\ d = from
      BY <1>1, <2>5, <3>1, <3>2, RenameMoves
    <3> QED BY <2>2, <2>5, <3>2, <3>3 DEF from, to
  <2> QED BY <2>3, <2>4, <2>5
<1>2. ASSUME IInv, [Next]_vars
      PROVE  [\A d \in DOMAIN tree \ DOMAIN tree' : \E s \in Sessions : Kept(d, s)]_tree
  BY <1>1, <1>2
<1> QED BY <1>2, DirectoryInductive, PTL DEF Spec, NoEntryLost

-----------------------------------------------------------------------------
(* Access.                                                                 *)

\* Without group rules a grant does not depend on the tree it is looked up
\* in, so the one a handler found at its start still stands at its store.
Granted(k, d) == k.who.bound /\ mayWrite(Rules, RootDn, InitialTree, k.who.dn, d)

\* Past its access check a handler has the grants that it needs; Password
\* Modify needs none for the bound name, and none for root.
Checked(k) ==
  /\ k.pc \in {"addParent", "addStore", "modifyStore", "deleteChildren", "deleteRemove",
               "dnParent", "dnTarget", "dnStore", "dnRename"} => Granted(k, k.req.dn)
  /\ k.pc \in {"dnParent", "dnTarget", "dnStore", "dnRename"} => Granted(k, newDn(k.req))
  /\ k.pc \in {"pwFind", "pwOld", "pwOldFind", "pwVerify", "pwLookup", "pwStore"}
       => k.who.bound /\ k.who.dn # RootDse
  /\ k.pc \in {"pwOld", "pwOldFind", "pwVerify", "pwLookup", "pwStore"}
       => k.who.dn \in {RootDn, k.target} \/ Granted(k, k.target)

AllChecked == \A s \in Sessions : Checked(sess[s])

LEMMA AllowedGranted ==
  ASSUME GroupFree, NEW s \in Sessions, NEW d
  PROVE  allowed(s, d) <=> Granted(sess[s], d)
BY GroupFreeRules DEF allowed, Granted

LEMMA CheckedMoves ==
  ASSUME AllChecked, NEW s \in Sessions, Frame(s), Checked(sess'[s])
  PROVE  AllChecked'
BY DEF AllChecked, Frame

\* A session that moves on keeps its grants.
LEMMA GrantsKept ==
  ASSUME NEW k, NEW m, m.who = k.who, m.req = k.req, NEW d
  PROVE  Granted(m, d) <=> Granted(k, d)
BY DEF Granted

\* Steps without an access check: reading, answering, and the backend's mutators.
LEMMA UncheckedSteps ==
  ASSUME IInv, AllChecked, NEW s \in Sessions,
         \/ serve(s) \/ send(s) \/ persist(s) \/ addStore(s) \/ modifyStore(s)
         \/ deleteRemove(s) \/ modifyDnStore(s) \/ modifyDnRename(s) \/ pwStore(s)
  PROVE  AllChecked'
<1>0. Checked(sess[s]) /\ DOMAIN sess[s] = Fields /\ sess = [t \in Sessions |-> sess[t]]
  BY DEF AllChecked, IInv, SessionOK
<1>1. CASE serve(s) \/ send(s) \/ persist(s)
  <2>1. Frame(s) /\ sess'[s].pc \in {"start", "idle", "done"}
    <3>1. CASE serve(s)
      BY <1>0, <3>1 DEF serve, Frame, Idle, Fields
    <3>2. CASE send(s)
      BY <1>0, <3>2 DEF send, Frame, Idle, Fields
    <3>3. CASE persist(s)
      BY <1>0, <3>3 DEF persist, Frame, Fields
    <3> QED BY <1>1, <3>1, <3>2, <3>3
  <2> QED BY <2>1, CheckedMoves DEF Checked
<1>2. ASSUME NEW ok \in BOOLEAN, NEW newTree, Mutate(s, ok, newTree, "persist")
      PROVE  AllChecked'
  <2>1. Frame(s) /\ sess'[s].pc \in {"persist", "done"}
    BY <1>2, MutateFields
  <2> QED BY <2>1, CheckedMoves DEF Checked
<1>3. CASE addStore(s) \/ modifyStore(s) \/ deleteRemove(s) \/ modifyDnRename(s) \/ pwStore(s)
  <2>1. \A d, e : /\ addOk(tree, d) \in BOOLEAN /\ modifyOk(tree, d) \in BOOLEAN
                  /\ removeOk(tree, d) \in BOOLEAN /\ renameOk(tree, d, e) \in BOOLEAN
    BY DEF addOk, modifyOk, removeOk, renameOk
  <2> QED BY <1>2, <1>3, <2>1 DEF addStore, modifyStore, deleteRemove, modifyDnRename, pwStore
<1>4. CASE modifyDnStore(s)
  <2> DEFINE ok == modifyOk(tree, sess[s].req.dn)
             new == Put(tree, sess[s].req.dn, sess[s].entry)
  <2>1. Mutate(s, ok, new, "dnRename") /\ ok \in BOOLEAN /\ sess[s].pc = "dnStore"
    BY <1>4 DEF modifyDnStore, modifyOk, At
  <2> HIDE DEF ok, new
  <2>2. /\ Frame(s) /\ sess'[s].pc \in {"dnRename", "done"}
        /\ sess'[s].who = sess[s].who /\ sess'[s].req = sess[s].req
    BY <2>1, MutateFields
  <2>3. Granted(sess'[s], sess[s].req.dn) /\ Granted(sess'[s], newDn(sess[s].req))
    BY <1>0, <2>1, <2>2, GrantsKept DEF Checked
  <2> QED BY <2>2, <2>3, CheckedMoves DEF Checked
<1> QED BY <1>1, <1>3, <1>4

\* The steps of a handler between its check and its store.
LEMMA LaterSteps ==
  ASSUME IInv, AllChecked, NEW s \in Sessions,
         \/ addParent(s) \/ deleteChildren(s) \/ modifyDnParent(s) \/ modifyDnTarget(s)
         \/ pwOld(s) \/ pwOldFind(s) \/ pwVerify(s) \/ pwLookup(s)
  PROVE  AllChecked'
<1> DEFINE k == sess[s]
           m == sess'[s]
<1>1. Checked(k) /\ DOMAIN k = Fields /\ sess = [t \in Sessions |-> sess[t]]
  BY DEF AllChecked, IInv, SessionOK
<1>2. ASSUME Frame(s), m.who = k.who, m.req = k.req,
             k.pc \in {"addParent", "deleteChildren"},
             m.pc \in {"addStore", "deleteRemove", "done"}
      PROVE  AllChecked'
  <2>1. Granted(m, k.req.dn)
    BY <1>1, <1>2, GrantsKept DEF Checked
  <2> QED BY <1>2, <2>1, CheckedMoves DEF Checked
<1>3. ASSUME Frame(s), m.who = k.who, m.req = k.req,
             k.pc \in {"dnParent", "dnTarget"} /\ m.pc \in {"dnTarget", "dnStore", "done"}
      PROVE  AllChecked'
  <2>1. Granted(m, k.req.dn) /\ Granted(m, newDn(k.req))
    BY <1>1, <1>3, GrantsKept DEF Checked
  <2> QED BY <1>3, <2>1, CheckedMoves DEF Checked
<1>4. ASSUME Frame(s), m.who = k.who, m.req = k.req, m.target = k.target,
             k.pc \in {"pwOld", "pwOldFind", "pwVerify", "pwLookup"},
             m.pc \in {"pwOldFind", "pwVerify", "pwLookup", "pwStore", "done"}
      PROVE  AllChecked'
  <2>1. /\ k.who.bound /\ k.who.dn # RootDse
        /\ k.who.dn \in {RootDn, k.target} \/ Granted(k, k.target)
    BY <1>1, <1>4 DEF Checked
  <2>2. Granted(m, k.target) <=> Granted(k, k.target)
    BY <1>4, GrantsKept
  <2> QED BY <1>4, <2>1, <2>2, CheckedMoves DEF Checked
<1>5. ASSUME NEW rc, NEW next, Proceed(s, rc, next) \/ \E a : ProceedWith(s, rc, next, a)
      PROVE  /\ Frame(s) /\ m.pc \in {next, "done"} /\ m.who = k.who /\ m.req = k.req
             /\ m.target = k.target
  BY <1>5, ProceedFields, ProceedWithFields
<1>6. CASE addParent(s)
  <2>1. k.pc = "addParent" /\ \E rc, a : ProceedWith(s, rc, "addStore", a)
    BY <1>6 DEF addParent, At
  <2>2. /\ Frame(s) /\ m.pc \in {"addStore", "done"} /\ m.who = k.who /\ m.req = k.req
    BY <1>5, <2>1
  <2> QED BY <1>2, <2>1, <2>2
<1>7. CASE deleteChildren(s)
  BY <1>2, <1>5, <1>7 DEF deleteChildren, At
<1>8. CASE modifyDnParent(s)
  BY <1>3, <1>5, <1>8 DEF modifyDnParent, At
<1>9. CASE modifyDnTarget(s)
  BY <1>3, <1>5, <1>9 DEF modifyDnTarget, At
<1>10. CASE pwVerify(s)
  BY <1>4, <1>5, <1>10 DEF pwVerify, At
<1>11. CASE pwLookup(s)
  BY <1>4, <1>5, <1>11 DEF pwLookup, At
<1>12. CASE pwOld(s)
  <2>1. /\ Frame(s) /\ m.who = k.who /\ m.req = k.req /\ m.target = k.target
        /\ k.pc = "pwOld" /\ m.pc \in {"pwOldFind", "pwVerify"}
    BY <1>1, <1>12 DEF pwOld, At, Frame, Fields
  <2> QED BY <1>4, <2>1
<1>13. CASE pwOldFind(s)
  <2>1. /\ Frame(s) /\ m.who = k.who /\ m.req = k.req /\ m.target = k.target
        /\ k.pc = "pwOldFind" /\ m.pc \in {"done", "pwVerify"}
    BY <1>1, <1>13 DEF pwOldFind, At, Frame, Fields
  <2> QED BY <1>4, <2>1
<1> QED BY <1>6, <1>7, <1>8, <1>9, <1>10, <1>11, <1>12, <1>13

\* The access checks themselves.
LEMMA CheckSteps ==
  ASSUME GroupFree, IInv, AllChecked, NEW s \in Sessions,
         \/ handleAdd(s) \/ handleModify(s) \/ handleDelete(s) \/ handleModifyDn(s)
         \/ handlePasswordModify(s) \/ pwFind(s)
  PROVE  AllChecked'
<1> DEFINE k == sess[s]
           m == sess'[s]
<1>1. Checked(k) /\ DOMAIN k = Fields /\ sess = [t \in Sessions |-> sess[t]]
  BY DEF AllChecked, IInv, SessionOK
<1>2. ASSUME Frame(s), m.who = k.who, m.req = k.req,
             m.pc \in {"addParent", "modifyStore", "deleteChildren", "done"},
             m.pc # "done" => allowed(s, k.req.dn)
      PROVE  AllChecked'
  <2>1. m.pc # "done" => Granted(m, k.req.dn)
    BY <1>2, AllowedGranted, GrantsKept
  <2> QED BY <1>2, <2>1, CheckedMoves DEF Checked
<1>3. CASE handleAdd(s)
  <2> DEFINE dn == k.req.dn
             rc == IF ~allowed(s, dn)        THEN "InsufficientAccessRights"
                   ELSE IF dn = RootDse      THEN "InvalidDnSyntax"
                   ELSE IF found(tree, dn)   THEN "EntryAlreadyExists"
                   ELSE Success
  <2>1. Proceed(s, rc, "addParent")
    BY <1>3 DEF handleAdd
  <2>2. rc = Success => allowed(s, dn)
    BY DEF Success
  <2> HIDE DEF rc
  <2>3. /\ Frame(s) /\ m.who = k.who /\ m.req = k.req
        /\ m.pc = IF rc = Success THEN "addParent" ELSE "done"
    BY <2>1, ProceedFields
  <2> QED BY <1>2, <2>2, <2>3
<1>4. CASE handleModify(s)
  <2> DEFINE dn == k.req.dn
             applied == applyModifications(tree[dn], encodeUserPasswordChanges(k.req.changes))
             rc == IF ~allowed(s, dn) THEN "InsufficientAccessRights"
                   ELSE IF ~found(tree, dn) THEN "NoSuchObject"
                   ELSE IF applied.rc # Success THEN applied.rc
                   ELSE checkSchema(applied.attrs)
  <2>1. ProceedWith(s, rc, "modifyStore", applied.attrs)
    BY <1>4 DEF handleModify
  <2>2. rc = Success => allowed(s, dn)
    BY DEF Success
  <2> HIDE DEF rc, applied
  <2>3. /\ Frame(s) /\ m.who = k.who /\ m.req = k.req
        /\ m.pc = IF rc = Success THEN "modifyStore" ELSE "done"
    BY <2>1, ProceedWithFields
  <2> QED BY <1>2, <2>2, <2>3
<1>5. CASE handleDelete(s)
  <2> DEFINE dn == k.req.dn
             rc == IF ~allowed(s, dn) THEN "InsufficientAccessRights"
                   ELSE IF ~found(tree, dn) THEN "NoSuchObject"
                   ELSE Success
  <2>1. Proceed(s, rc, "deleteChildren")
    BY <1>5 DEF handleDelete
  <2>2. rc = Success => allowed(s, dn)
    BY DEF Success
  <2> HIDE DEF rc
  <2>3. /\ Frame(s) /\ m.who = k.who /\ m.req = k.req
        /\ m.pc = IF rc = Success THEN "deleteChildren" ELSE "done"
    BY <2>1, ProceedFields
  <2> QED BY <1>2, <2>2, <2>3
<1>6. CASE handleModifyDn(s)
  <2> DEFINE r == k.req
             rc == IF r.newRdn = << >> THEN "InvalidDnSyntax"
                   ELSE IF ~allowed(s, r.dn) \/ ~allowed(s, newDn(r)) THEN "InsufficientAccessRights"
                   ELSE IF ~found(tree, r.dn) THEN "NoSuchObject"
                   ELSE Success
  <2>1. ProceedWith(s, rc, "dnParent", tree[r.dn])
    BY <1>6 DEF handleModifyDn
  <2>2. rc = Success => allowed(s, r.dn) /\ allowed(s, newDn(r))
    BY DEF Success
  <2> HIDE DEF rc
  <2>3. /\ Frame(s) /\ m.who = k.who /\ m.req = k.req
        /\ m.pc = IF rc = Success THEN "dnParent" ELSE "done"
    BY <2>1, ProceedWithFields
  <2>4. rc = Success => Granted(m, r.dn) /\ Granted(m, newDn(r))
    BY <2>2, <2>3, AllowedGranted, GrantsKept
  <2> QED BY <2>3, <2>4, CheckedMoves DEF Checked
<1>7. ASSUME NEW target, pwAuthorise(s, target), k.who.bound, k.who.dn # RootDse
      PROVE  AllChecked'
  <2> DEFINE rc == IF target = NoName THEN "NoSuchObject"
                   ELSE IF target = RootDn THEN "UnwillingToPerform"
                   ELSE IF /\ k.who.dn \notin {RootDn, target}
                           /\ ~allowed(s, target) THEN "InsufficientAccessRights"
                   ELSE Success
             next == IF k.req.old = {} THEN "pwLookup" ELSE "pwOld"
  <2>1. sess' = [sess EXCEPT ![s].pc = IF rc = Success THEN next ELSE "done",
                             ![s].rc = IF rc = Success THEN @ ELSE rc, ![s].target = target]
    BY <1>7 DEF pwAuthorise
  <2>2. next \in {"pwLookup", "pwOld"}
    OBVIOUS
  <2>3. rc = Success => k.who.dn \in {RootDn, target} \/ allowed(s, target)
    BY DEF Success
  <2> HIDE DEF rc, next
  <2>4. /\ Frame(s) /\ m.who = k.who /\ m.req = k.req /\ m.target = target
        /\ m.pc = IF rc = Success THEN next ELSE "done"
    BY <1>1, <2>1 DEF Frame, Fields
  <2>5. rc = Success => k.who.dn \in {RootDn, target} \/ Granted(m, target)
    BY <2>3, <2>4, AllowedGranted, GrantsKept
  <2> QED BY <1>7, <2>2, <2>4, <2>5, CheckedMoves DEF Checked
<1>8. CASE handlePasswordModify(s)
  <2>1. \/ \E rc : Proceed(s, rc, "done")
        \/ /\ k.who.bound /\ k.who.dn # RootDse
           /\ Proceed(s, Success, "pwFind") \/ \E target : pwAuthorise(s, target)
    BY <1>8 DEF handlePasswordModify, Success
  <2>2. CASE \E rc : Proceed(s, rc, "done")
    <3>1. Frame(s) /\ m.pc = "done"
      BY <2>2, ProceedFields
    <3> QED BY <3>1, CheckedMoves DEF Checked
  <2>3. CASE k.who.bound /\ k.who.dn # RootDse /\ Proceed(s, Success, "pwFind")
    <3>1. Frame(s) /\ m.pc = "pwFind" /\ m.who = k.who
      BY <2>3, ProceedFields
    <3> QED BY <2>3, <3>1, CheckedMoves DEF Checked
  <2> QED BY <1>7, <2>1, <2>2, <2>3
<1>9. CASE pwFind(s)
  <2>1. k.who.bound /\ k.who.dn # RootDse
    BY <1>1, <1>9 DEF pwFind, At, Checked
  <2> QED BY <1>7, <1>9, <2>1 DEF pwFind
<1> QED BY <1>3, <1>4, <1>5, <1>6, <1>8, <1>9

\* Without group rules, a step changes an entry only for a session whose
\* identity may write that name (a rename: both names), or that sets its own
\* password, although the handlers check access several steps before they store.
THEOREM OnlyAuthorisedWrites ==
  ASSUME GroupFree
  PROVE  Spec => WritesAuthorised
<1> DEFINE Allowed(s, d) ==
      \/ sess[s].who.bound /\ mayWrite(Rules, RootDn, tree, sess[s].who.dn, d)
      \/ sess[s].pc = "pwStore" /\ sess[s].who.dn = d
<1>1. Init => AllChecked
  BY DEF Init, AllChecked, Checked, Idle
<1>2. ASSUME IInv, AllChecked, [Next]_vars PROVE AllChecked'
  <2>1. ASSUME NEW s \in Sessions, Step(s) PROVE AllChecked'
    BY <1>2, <2>1, UncheckedSteps, LaterSteps, CheckSteps DEF Step
  <2>2. CASE UNCHANGED vars
    BY <1>2, <2>2 DEF vars, AllChecked
  <2> QED BY <1>2, <2>1, <2>2 DEF Next
<1>3. ASSUME IInv, AllChecked, [Next]_vars, tree' # tree,
             NEW s \in Sessions, sess'[s] # sess[s], NEW d \in Changed
      PROVE  Allowed(s, d)
  <2>1. PICK t \in Sessions : Step(t)
    BY <1>3 DEF Next, vars
  <2>2. Writes(t) /\ t = s
    BY <1>3, <2>1, OnlyWritesWrite DEF Frame
  <2>3. Checked(sess[s])
    BY <1>3 DEF AllChecked
  <2>4. ASSUME Granted(sess[s], d) PROVE Allowed(s, d)
    BY <2>4, GroupFreeRules DEF Granted
  <2>5. ASSUME NEW e, NEW a, tree' = Put(tree, e, a) PROVE d = e
    BY <1>3, <2>5 DEF Changed, Put
  <2>6. CASE sess[s].pc \in {"addStore", "modifyStore", "dnStore"}
    <3>1. d = sess[s].req.dn
      BY <2>2, <2>5, <2>6 DEF Writes, Replaces
    <3> QED BY <2>3, <2>4, <2>6, <3>1 DEF Checked
  <2>7. CASE sess[s].pc = "deleteRemove"
    <3>1. d = sess[s].req.dn
      BY <1>3, <2>2, <2>7 DEF Writes, Erase, Changed
    <3> QED BY <2>3, <2>4, <2>7, <3>1 DEF Checked
  <2>8. CASE sess[s].pc = "dnRename"
    <3> DEFINE from == sess[s].req.dn
               to   == newDn(sess[s].req)
    <3>1. renameOk(tree, from, to) /\ tree' = rename(tree, from, to)
      BY <2>2, <2>8 DEF Writes
    <3>2. Granted(sess[s], from) /\ Granted(sess[s], to)
      BY <2>3, <2>8 DEF Checked
    <3> HIDE DEF from, to
    <3>3. from # to
      BY <1>3, <3>1, RenameToOther
    <3>4. DOMAIN tree' = (DOMAIN tree \ {from}) \cup {to}
      BY <3>1, <3>3 DEF rename, renameOk, Put, Erase
    <3>5. \A e \in DOMAIN tree \ {from} : tree'[e] = tree[e]
      BY <3>1, <3>3, RenameLeaves
    <3>6. d \in {from, to}
      BY <3>4, <3>5 DEF Changed
    <3> QED BY <2>4, <3>2, <3>6
  <2>9. CASE sess[s].pc = "pwStore"
    <3>1. d = sess[s].target
      BY <2>2, <2>5, <2>9 DEF Writes, Replaces
    <3>2. /\ sess[s].who.bound /\ sess[s].who.dn # RootDse
          /\ sess[s].who.dn \in {RootDn, d} \/ Granted(sess[s], d)
      BY <2>3, <2>9, <3>1 DEF Checked
    <3>3. CASE sess[s].who.dn = RootDn
      BY <3>2, <3>3 DEF mayWrite, isRoot
    <3> QED BY <2>4, <2>9, <3>2, <3>3
  <2> QED BY <2>2, <2>6, <2>7, <2>8, <2>9 DEF Writes
<1>4. ASSUME IInv, AllChecked, [Next]_vars
      PROVE  [\A s \in Sessions : sess'[s] # sess[s] => \A d \in Changed : Allowed(s, d)]_tree
  BY <1>3, <1>4
<1> QED BY <1>1, <1>2, <1>4, DirectoryInductive, PTL DEF Spec, WritesAuthorised

-----------------------------------------------------------------------------
(* One connection at a time.                                               *)

OneSession == \A s, t \in Sessions : s = t

\* What handleModifyDn looked up is still so when it stores and renames.
Serial(s) ==
  LET k == sess[s]
  IN  /\ k.pc \in {"dnParent", "dnTarget", "dnStore", "dnRename"}
           => k.req.dn \in DOMAIN tree /\ k.req.newRdn # << >>
      /\ k.pc \in {"dnStore", "dnRename"}
           => newDn(k.req) = k.req.dn \/ newDn(k.req) \notin DOMAIN tree
      /\ k.pc = "done" /\ k.rc # Success => k.wrote = 0

AllSerial == \A s \in Sessions : Serial(s)

\* What a ModifyDN puts together are names.
LEMMA ModifyDnNames ==
  ASSUME NEW r \in Requests, r.op = "modifyDn"
  PROVE  r.newRdn \in Seq(Component) /\ newParent(r) \in Seq(Component)
<1>1. {r.dn, r.newRdn, r.newSuperior} \subseteq Seq(Component)
  BY RequestNames
<1> HIDE DEF Component
<1>2. dnParent(r.dn) \in Seq(Component)
  BY <1>1 DEF dnParent, RootDse
<1> QED BY <1>1, <1>2 DEF newParent

\* The name a ModifyDN asks for is never the empty one, once its RDN was
\* found not to be.
LEMMA NewDnNotEmpty ==
  ASSUME NEW r \in Requests, r.op = "modifyDn", r.newRdn # << >>
  PROVE  newDn(r) # RootDse
<1>1. r.newRdn \in Seq(Component) /\ newParent(r) \in Seq(Component)
  BY ModifyDnNames
<1> HIDE DEF Component
<1>2. Len(r.newRdn) \in Nat /\ Len(r.newRdn) > 0 /\ Len(newParent(r)) \in Nat
  BY <1>1
<1>3. Len(r.newRdn \o newParent(r)) = Len(r.newRdn) + Len(newParent(r))
  BY <1>1
<1> QED BY <1>2, <1>3 DEF newDn, composeDn, RootDse

\* The steps of the other handlers before their store.
LEMMA QuietSteps ==
  ASSUME IInv, NEW s \in Sessions,
         \/ handleAdd(s) \/ addParent(s) \/ handleModify(s) \/ handleDelete(s) \/ deleteChildren(s)
         \/ handlePasswordModify(s) \/ pwFind(s) \/ pwOld(s) \/ pwOldFind(s) \/ pwVerify(s)
         \/ pwLookup(s)
  PROVE  Serial(s)'
<1> DEFINE m == sess'[s]
<1>1. DOMAIN sess[s] = Fields /\ sess = [t \in Sessions |-> sess[t]]
  BY DEF IInv, SessionOK
<1>2. sess[s].wrote = 0
  BY DEF IInv, SessionOK, handleAdd, addParent, handleModify, handleDelete, deleteChildren,
         handlePasswordModify, pwFind, pwOld, pwOldFind, pwVerify, pwLookup, At
<1>3. ASSUME m.wrote = 0, m.pc \notin {"dnParent", "dnTarget", "dnStore", "dnRename"}
      PROVE  Serial(s)'
  BY <1>3 DEF Serial
<1>4. ASSUME NEW rc, NEW next, Proceed(s, rc, next),
             next \notin {"dnParent", "dnTarget", "dnStore", "dnRename"}
      PROVE  Serial(s)'
  BY <1>2, <1>3, <1>4, ProceedFields
<1>5. ASSUME NEW rc, NEW next, NEW a, ProceedWith(s, rc, next, a),
             next \notin {"dnParent", "dnTarget", "dnStore", "dnRename"}
      PROVE  Serial(s)'
  BY <1>2, <1>3, <1>5, ProceedWithFields
<1>6. ASSUME NEW target, pwAuthorise(s, target) PROVE Serial(s)'
  <2>1. PICK rc, next :
          /\ next \in {"pwLookup", "pwOld"}
          /\ sess' = [sess EXCEPT ![s].pc = IF rc = Success THEN next ELSE "done",
                                  ![s].rc = IF rc = Success THEN @ ELSE rc,
                                  ![s].target = target]
    <3> DEFINE rc == IF target = NoName THEN "NoSuchObject"
                     ELSE IF target = RootDn THEN "UnwillingToPerform"
                     ELSE IF /\ sess[s].who.dn \notin {RootDn, target}
                             /\ ~allowed(s, target) THEN "InsufficientAccessRights"
                     ELSE Success
               next == IF sess[s].req.old = {} THEN "pwLookup" ELSE "pwOld"
    <3>1. sess' = [sess EXCEPT ![s].pc = IF rc = Success THEN next ELSE "done",
                               ![s].rc = IF rc = Success THEN @ ELSE rc, ![s].target = target]
      BY <1>6 DEF pwAuthorise
    <3>2. next \in {"pwLookup", "pwOld"}
      OBVIOUS
    <3> HIDE DEF rc, next
    <3> QED BY <3>1, <3>2
  <2>2. m.wrote = 0 /\ m.pc \in {"pwLookup", "pwOld", "done"}
    BY <1>1, <1>2, <2>1 DEF Fields
  <2> QED BY <1>3, <2>2
<1>7. CASE handleAdd(s) \/ handleDelete(s) \/ deleteChildren(s) \/ pwVerify(s)
  BY <1>4, <1>7 DEF handleAdd, handleDelete, deleteChildren, pwVerify
<1>8. CASE addParent(s) \/ handleModify(s) \/ pwLookup(s)
  BY <1>5, <1>8 DEF addParent, handleModify, pwLookup
<1>9. CASE handlePasswordModify(s)
  BY <1>4, <1>6, <1>9 DEF handlePasswordModify
<1>10. CASE pwFind(s)
  BY <1>6, <1>10 DEF pwFind
<1>11. CASE pwOld(s) \/ pwOldFind(s)
  <2>1. m.wrote = 0 /\ m.pc \in {"pwOldFind", "pwVerify", "done"}
    <3>1. CASE pwOld(s)
      BY <1>1, <1>2, <3>1 DEF pwOld, Fields
    <3>2. CASE pwOldFind(s)
      BY <1>1, <1>2, <3>2 DEF pwOldFind, Fields
    <3> QED BY <1>11, <3>1, <3>2
  <2> QED BY <1>3, <2>1
<1> QED BY <1>7, <1>8, <1>9, <1>10, <1>11

\* handleModifyDn, alone: its rename finds what its checks found.
LEMMA ModifyDnSteps ==
  ASSUME IInv, NEW s \in Sessions, Serial(s),
         \/ handleModifyDn(s) \/ modifyDnParent(s) \/ modifyDnTarget(s)
         \/ modifyDnStore(s) \/ modifyDnRename(s)
  PROVE  Serial(s)'
<1> DEFINE k == sess[s]
           r == sess[s].req
           m == sess'[s]
<1>1. DOMAIN sess[s] = Fields /\ sess = [t \in Sessions |-> sess[t]]
  BY DEF IInv, SessionOK
<1>2. CASE handleModifyDn(s)
  <2> DEFINE rc == IF r.newRdn = << >> THEN "InvalidDnSyntax"
                   ELSE IF ~allowed(s, r.dn) \/ ~allowed(s, newDn(r)) THEN "InsufficientAccessRights"
                   ELSE IF ~found(tree, r.dn) THEN "NoSuchObject"
                   ELSE Success
  <2>1. ProceedWith(s, rc, "dnParent", tree[r.dn]) /\ k.pc = "start" /\ tree' = tree
    BY <1>2 DEF handleModifyDn, At
  <2>2. rc = Success => r.dn \in DOMAIN tree /\ r.newRdn # << >>
    BY DEF Success, found
  <2>3. k.wrote = 0
    BY <2>1 DEF IInv, SessionOK
  <2> HIDE DEF rc
  <2>4. /\ m.pc = IF rc = Success THEN "dnParent" ELSE "done"
        /\ m.req = r /\ m.wrote = k.wrote
    BY <2>1, ProceedWithFields
  <2> QED BY <2>1, <2>2, <2>3, <2>4 DEF Serial
<1>3. CASE modifyDnParent(s)
  <2>1. (\E rc : Proceed(s, rc, "dnTarget")) /\ k.pc = "dnParent" /\ tree' = tree
    BY <1>3 DEF modifyDnParent, At
  <2>2. k.wrote = 0 /\ r.dn \in DOMAIN tree /\ r.newRdn # << >>
    BY <2>1 DEF IInv, SessionOK, Serial
  <2>3. m.pc \in {"dnTarget", "done"} /\ m.req = r /\ m.wrote = k.wrote
    BY <2>1, ProceedFields
  <2> QED BY <2>1, <2>2, <2>3 DEF Serial
<1>4. CASE modifyDnTarget(s)
  <2> DEFINE attrs == renameRdn(sess[s].entry, r)
             rc == IF newDn(r) # r.dn /\ found(tree, newDn(r)) THEN "EntryAlreadyExists"
                   ELSE checkSchema(attrs)
  <2>1. ProceedWith(s, rc, "dnStore", attrs) /\ k.pc = "dnTarget" /\ tree' = tree
    BY <1>4 DEF modifyDnTarget, At
  <2>2. k.wrote = 0 /\ r.dn \in DOMAIN tree /\ r.newRdn # << >>
    BY <2>1 DEF IInv, SessionOK, Serial
  <2>3. rc = Success => newDn(r) = r.dn \/ newDn(r) \notin DOMAIN tree
    BY DEF Success, found
  <2> HIDE DEF rc, attrs
  <2>4. /\ m.pc = IF rc = Success THEN "dnStore" ELSE "done"
        /\ m.req = r /\ m.wrote = k.wrote
    BY <2>1, ProceedWithFields
  <2> QED BY <2>1, <2>2, <2>3, <2>4 DEF Serial
<1>5. CASE modifyDnStore(s)
  <2> DEFINE ok == modifyOk(tree, r.dn)
             new == Put(tree, r.dn, k.entry)
  <2>1. Mutate(s, ok, new, "dnRename") /\ k.pc = "dnStore" /\ ok \in BOOLEAN
    BY <1>5 DEF modifyDnStore, modifyOk, At
  <2>2. r.dn \in DOMAIN tree /\ r.newRdn # << >> /\ (newDn(r) = r.dn \/ newDn(r) \notin DOMAIN tree)
    BY <2>1 DEF Serial
  <2>3. ok /\ DOMAIN new = DOMAIN tree
    BY <2>2 DEF modifyOk, Put
  <2> HIDE DEF ok, new
  <2>4. m.pc = "dnRename" /\ m.req = r
    <3>1. m.pc = (IF ok THEN "dnRename" ELSE "done") /\ m.req = r
      BY <2>1, MutateFields
    <3> QED BY <2>3, <3>1
  <2>5. tree' = new
    BY <2>1, <2>3 DEF Mutate
  <2> QED BY <2>2, <2>3, <2>4, <2>5 DEF Serial
<1>6. CASE modifyDnRename(s)
  <2> DEFINE ok == renameOk(tree, r.dn, newDn(r))
             new == rename(tree, r.dn, newDn(r))
  <2>1. /\ Mutate(s, ok, new, "persist") /\ ok \in BOOLEAN
        /\ k.pc = "dnRename" /\ r.op = "modifyDn"
    BY <1>6 DEF modifyDnRename, renameOk, At
  <2>2. r.dn \in DOMAIN tree /\ r.newRdn # << >> /\ (newDn(r) = r.dn \/ newDn(r) \notin DOMAIN tree)
    BY <2>1 DEF Serial
  <2>3. r \in Requests
    BY <2>1 DEF IInv, SessionOK, NoRequest
  <2>4. ok
    BY <2>1, <2>2, <2>3, NewDnNotEmpty DEF renameOk, IInv
  <2> HIDE DEF ok, new
  <2>5. m.pc = "persist"
    <3>1. m.pc = IF ok THEN "persist" ELSE "done"
      BY <2>1, MutateFields
    <3> QED BY <2>4, <3>1
  <2> QED BY <2>5 DEF Serial
<1> QED BY <1>2, <1>3, <1>4, <1>5, <1>6

\* The other steps: reading, answering, persist(), and the stores of the other
\* handlers, which are the first write of their request.
LEMMA OtherSteps ==
  ASSUME IInv, NEW s \in Sessions,
         \/ serve(s) \/ send(s) \/ persist(s) \/ addStore(s) \/ modifyStore(s)
         \/ deleteRemove(s) \/ pwStore(s)
  PROVE  Serial(s)'
<1>1. DOMAIN sess[s] = Fields /\ sess = [t \in Sessions |-> sess[t]]
  BY DEF IInv, SessionOK
<1>2. CASE serve(s)
  BY <1>1, <1>2 DEF serve, Idle, Serial
<1>3. CASE send(s)
  BY <1>1, <1>3 DEF send, Idle, Serial
<1>4. CASE persist(s)
  BY <1>1, <1>4 DEF persist, Fields, Serial
<1>5. ASSUME NEW ok \in BOOLEAN, NEW newTree, Mutate(s, ok, newTree, "persist"), sess[s].wrote = 0
      PROVE  Serial(s)'
  <2>1. /\ sess'[s].pc = IF ok THEN "persist" ELSE "done"
        /\ sess'[s].wrote = IF ok THEN sess[s].wrote + 1 ELSE sess[s].wrote
    BY <1>5, MutateFields
  <2> QED BY <1>5, <2>1 DEF Serial
<1>6. CASE addStore(s) \/ modifyStore(s) \/ deleteRemove(s) \/ pwStore(s)
  <2>1. sess[s].wrote = 0
    BY <1>6 DEF IInv, SessionOK, addStore, modifyStore, deleteRemove, pwStore, At
  <2>2. \A d : /\ addOk(tree, d) \in BOOLEAN /\ modifyOk(tree, d) \in BOOLEAN
               /\ removeOk(tree, d) \in BOOLEAN
    BY DEF addOk, modifyOk, removeOk
  <2> QED BY <1>5, <1>6, <2>1, <2>2 DEF addStore, modifyStore, deleteRemove, pwStore
<1> QED BY <1>2, <1>3, <1>4, <1>6

\* With one connection at a time, a request that is answered with an error has
\* changed nothing.  (With two, a ModifyDN may be refused after its first write.)
THEOREM RefusedLeavesNoTrace ==
  ASSUME OneSession
  PROVE  Spec => []FailedWriteHasNoEffect
<1>1. Init => AllSerial
  BY DEF Init, AllSerial, Serial, Idle
<1>2. ASSUME IInv, AllSerial, [Next]_vars PROVE AllSerial'
  <2>1. ASSUME NEW s \in Sessions, Step(s) PROVE AllSerial'
    <3>1. Serial(s)
      BY <1>2 DEF AllSerial
    <3>2. Serial(s)'
      BY <1>2, <2>1, <3>1, QuietSteps, ModifyDnSteps, OtherSteps DEF Step
    <3> QED BY <3>2 DEF AllSerial, OneSession
  <2>2. CASE UNCHANGED vars
    BY <1>2, <2>2 DEF vars, AllSerial, Serial
  <2> QED BY <1>2, <2>1, <2>2 DEF Next
<1>3. AllSerial => FailedWriteHasNoEffect
  BY DEF AllSerial, Serial, FailedWriteHasNoEffect
<1> QED BY <1>1, <1>2, <1>3, DirectoryInductive, PTL DEF Spec

\* The names that entries may have, by the import and by the requests, and
\* that none of them is directly below a name that a request changes.
Nameable ==
  DOMAIN InitialTree \cup {r.dn : r \in {q \in Requests : q.op = "add"}}
                     \cup {newDn(r) : r \in {q \in Requests : q.op = "modifyDn"}}
LeafRenames ==
  \A r \in Requests :
    r.op = "modifyDn" /\ r.newRdn # << >> /\ newDn(r) # r.dn
      => \A d \in Nameable : ~dnIsOneLevelChild(d, r.dn)

HasParent(t, d) == dnParent(d) = RootDse \/ dnParent(d) \in DOMAIN t
RootedImport == \A d \in DOMAIN InitialTree : HasParent(InitialTree, d)

\* The parent that a handler found is still there, and the children that it did
\* not find are still not.
Rooted(s) ==
  LET k == sess[s]
  IN  /\ k.pc = "addStore" => HasParent(tree, k.req.dn)
      /\ k.pc = "deleteRemove" => ~hasChildren(tree, k.req.dn)
      /\ k.pc \in {"dnParent", "dnTarget", "dnStore", "dnRename"} => k.req.newRdn # << >>
      /\ k.pc \in {"dnTarget", "dnStore", "dnRename"}
           => newParent(k.req) = RootDse \/ newParent(k.req) \in DOMAIN tree

TreeRooted == DOMAIN tree \subseteq Nameable /\ NoOrphans /\ \A s \in Sessions : Rooted(s)

\* Whose parent is another entry's name is a child of it.
LEMMA ParentOfChild ==
  ASSUME NEW d, dnParent(d) # RootDse
  PROVE  dnIsOneLevelChild(d, dnParent(d))
BY DEF dnParent, dnIsOneLevelChild, RootDse

\* What a sequence's length can be.
LEMMA EmptyOrLonger ==
  ASSUME NEW C, NEW q \in Seq(C)
  PROVE  q = << >> \/ (Len(q) \in Nat /\ Len(q) > 0)
OBVIOUS

\* A sequence that is not empty has one element or more.
LEMMA OneOrMore ==
  ASSUME NEW C, NEW q \in Seq(C), q # << >>
  PROVE  Len(q) = 1 \/ Len(q) > 1
<1> DEFINE n == Len(q)
<1>1. n \in Nat /\ n # 0
  BY EmptySeq
<1> HIDE DEF n
<1>2. n = 1 \/ n > 1
  BY <1>1
<1> QED BY <1>2 DEF n

\* A sequence with one element in front of it has it as its tail.
LEMMA TailOfOne ==
  ASSUME NEW C, NEW q \in Seq(C), NEW p \in Seq(C), Len(q) = 1
  PROVE  Len(q \o p) = 1 + Len(p) /\ Tail(q \o p) = p
<1> DEFINE n == q \o p
           t == Tail(n)
           L == Len(p)
<1>1. /\ n \in Seq(C) /\ Len(n) = Len(q) + L
      /\ \A i \in 1 .. Len(q) + L : n[i] = IF i <= Len(q) THEN q[i] ELSE p[i - Len(q)]
  BY ConcatProperties
<1>2. L \in Nat
  BY LenProperties
<1> HIDE DEF n, L
<1>3. n # << >>
  BY <1>1, <1>2
<1>4. t \in Seq(C) /\ Len(t) = Len(n) - 1 /\ \A i \in 1 .. Len(t) : t[i] = n[i + 1]
  BY <1>1, <1>3, HeadTailProperties
<1> HIDE DEF t
<1>5. Len(n) = 1 + L /\ Len(t) = L
  BY <1>1, <1>2, <1>4
<1>6. ASSUME NEW i \in 1 .. L PROVE t[i] = p[i]
  <2>1. i + 1 \in 1 .. 1 + L /\ ~(i + 1 <= 1) /\ (i + 1) - 1 = i
    BY <1>2
  <2>2. n[i + 1] = p[i]
    BY <1>1, <2>1
  <2> QED BY <1>4, <1>5, <2>2
<1>7. t = p
  BY <1>4, <1>5, <1>6, SeqEqual DEF L
<1> QED BY <1>5, <1>7 DEF n, t, L

\* The parent of the new name is the one that handleModifyDn looked up, if the
\* new RDN has no comma.
LEMMA ParentOfNewDn ==
  ASSUME NEW r \in Requests, r.op = "modifyDn", Len(r.newRdn) = 1
  PROVE  dnParent(newDn(r)) = newParent(r)
<1>1. r.newRdn \in Seq(Component) /\ newParent(r) \in Seq(Component)
  BY ModifyDnNames
<1> DEFINE p == newParent(r)
           n == r.newRdn \o p
<1>2. Len(n) = 1 + Len(p) /\ Tail(n) = p
  BY <1>1, TailOfOne
<1>3. newDn(r) = n
  BY DEF newDn, composeDn
<1>4. p \in Seq(Component)
  BY <1>1
<1> HIDE DEF p, n
<1>5. p = << >> \/ (Len(p) \in Nat /\ Len(p) > 0)
  BY <1>4, EmptyOrLonger
<1>6. dnParent(n) = p
  BY <1>2, <1>5 DEF dnParent, RootDse
<1> QED BY <1>3, <1>6 DEF p

\* The steps that do not lead to a store that relies on a parent or on the
\* absence of children.
LEMMA OffPathSteps ==
  ASSUME IInv, NEW s \in Sessions,
         \/ serve(s) \/ send(s) \/ persist(s) \/ handleAdd(s) \/ addStore(s)
         \/ handleModify(s) \/ modifyStore(s) \/ handleDelete(s) \/ deleteRemove(s)
         \/ modifyDnRename(s) \/ handlePasswordModify(s) \/ pwFind(s) \/ pwOld(s)
         \/ pwOldFind(s) \/ pwVerify(s) \/ pwLookup(s) \/ pwStore(s)
  PROVE  Rooted(s)'
<1> DEFINE m == sess'[s]
           Path == {"addStore", "deleteRemove", "dnParent", "dnTarget", "dnStore", "dnRename"}
<1>1. DOMAIN sess[s] = Fields /\ sess = [t \in Sessions |-> sess[t]]
  BY DEF IInv, SessionOK
<1>2. ASSUME m.pc \notin Path PROVE Rooted(s)'
  BY <1>2 DEF Rooted
<1>3. ASSUME NEW rc, NEW next, Proceed(s, rc, next), next \notin Path PROVE Rooted(s)'
  BY <1>2, <1>3, ProceedFields
<1>4. ASSUME NEW rc, NEW next, NEW a, ProceedWith(s, rc, next, a), next \notin Path
      PROVE  Rooted(s)'
  BY <1>2, <1>4, ProceedWithFields
<1>5. ASSUME NEW ok \in BOOLEAN, NEW newTree, Mutate(s, ok, newTree, "persist")
      PROVE  Rooted(s)'
  <2>1. m.pc = IF ok THEN "persist" ELSE "done"
    BY <1>5, MutateFields
  <2> QED BY <1>2, <2>1
<1>6. ASSUME NEW target, pwAuthorise(s, target) PROVE Rooted(s)'
  <2>1. m.pc \in {"pwLookup", "pwOld", "done"}
    BY <1>1, <1>6 DEF pwAuthorise, Fields
  <2> QED BY <1>2, <2>1
<1>7. CASE serve(s) \/ send(s)
  <2>1. m.pc \in {"start", "idle"}
    <3>1. CASE serve(s)
      BY <1>1, <3>1 DEF serve, Idle
    <3>2. CASE send(s)
      BY <1>1, <3>2 DEF send, Idle
    <3> QED BY <1>7, <3>1, <3>2
  <2> QED BY <1>2, <2>1
<1>8. CASE persist(s)
  <2>1. m.pc = "done"
    BY <1>1, <1>8 DEF persist, Fields
  <2> QED BY <1>2, <2>1
<1>9. CASE handleAdd(s) \/ handleDelete(s) \/ pwVerify(s)
  BY <1>3, <1>9 DEF handleAdd, handleDelete, pwVerify
<1>10. CASE handleModify(s) \/ pwLookup(s)
  BY <1>4, <1>10 DEF handleModify, pwLookup
<1>11. CASE addStore(s) \/ modifyStore(s) \/ deleteRemove(s) \/ pwStore(s) \/ modifyDnRename(s)
  <2>1. \A d, e : /\ addOk(tree, d) \in BOOLEAN /\ modifyOk(tree, d) \in BOOLEAN
                  /\ removeOk(tree, d) \in BOOLEAN /\ renameOk(tree, d, e) \in BOOLEAN
    BY DEF addOk, modifyOk, removeOk, renameOk
  <2> QED BY <1>5, <1>11, <2>1 DEF addStore, modifyStore, deleteRemove, pwStore, modifyDnRename
<1>12. CASE handlePasswordModify(s)
  BY <1>3, <1>6, <1>12 DEF handlePasswordModify
<1>13. CASE pwFind(s)
  BY <1>6, <1>13 DEF pwFind
<1>14. CASE pwOld(s) \/ pwOldFind(s)
  <2>1. m.pc \in {"pwOldFind", "pwVerify", "done"}
    <3>1. CASE pwOld(s)
      BY <1>1, <3>1 DEF pwOld, Fields
    <3>2. CASE pwOldFind(s)
      BY <1>1, <3>2 DEF pwOldFind, Fields
    <3> QED BY <1>14, <3>1, <3>2
  <2> QED BY <1>2, <2>1
<1> QED BY <1>7, <1>8, <1>9, <1>10, <1>11, <1>12, <1>13, <1>14

\* The steps that look for the parent or for children, and those after them.
LEMMA OnPathSteps ==
  ASSUME IInv, NEW s \in Sessions, Rooted(s), Serial(s),
         \/ addParent(s) \/ deleteChildren(s) \/ handleModifyDn(s) \/ modifyDnParent(s)
         \/ modifyDnTarget(s) \/ modifyDnStore(s)
  PROVE  Rooted(s)'
<1> DEFINE k == sess[s]
           r == sess[s].req
           m == sess'[s]
<1>1. CASE addParent(s)
  <2> DEFINE parent == dnParent(r.dn)
             attrs == encodeUserPasswords(r.attrs)
             rc == IF parent # RootDse /\ ~found(tree, parent) THEN "NamingViolation"
                   ELSE checkSchema(attrs)
  <2>1. ProceedWith(s, rc, "addStore", attrs) /\ tree' = tree
    BY <1>1 DEF addParent
  <2>2. rc = Success => HasParent(tree, r.dn)
    BY DEF Success, found, HasParent
  <2> HIDE DEF rc, attrs
  <2>3. m.req = r /\ m.pc = IF rc = Success THEN "addStore" ELSE "done"
    BY <2>1, ProceedWithFields
  <2> QED BY <2>1, <2>2, <2>3 DEF Rooted, HasParent
<1>2. CASE deleteChildren(s)
  <2> DEFINE rc == IF hasChildren(tree, r.dn) THEN "NotAllowedOnNonLeaf" ELSE Success
  <2>1. Proceed(s, rc, "deleteRemove") /\ tree' = tree
    BY <1>2 DEF deleteChildren
  <2>2. rc = Success => ~hasChildren(tree, r.dn)
    BY DEF Success
  <2> HIDE DEF rc
  <2>3. m.req = r /\ m.pc = IF rc = Success THEN "deleteRemove" ELSE "done"
    BY <2>1, ProceedFields
  <2> QED BY <2>1, <2>2, <2>3 DEF Rooted, hasChildren
<1>3. CASE handleModifyDn(s)
  <2> DEFINE rc == IF r.newRdn = << >> THEN "InvalidDnSyntax"
                   ELSE IF ~allowed(s, r.dn) \/ ~allowed(s, newDn(r)) THEN "InsufficientAccessRights"
                   ELSE IF ~found(tree, r.dn) THEN "NoSuchObject"
                   ELSE Success
  <2>1. ProceedWith(s, rc, "dnParent", tree[r.dn])
    BY <1>3 DEF handleModifyDn
  <2>2. rc = Success => r.newRdn # << >>
    BY DEF Success
  <2> HIDE DEF rc
  <2>3. m.req = r /\ m.pc = IF rc = Success THEN "dnParent" ELSE "done"
    BY <2>1, ProceedWithFields
  <2> QED BY <2>2, <2>3 DEF Rooted
<1>4. CASE modifyDnParent(s)
  <2> DEFINE parent == newParent(r)
             rc == IF parent # RootDse /\ ~found(tree, parent) THEN "NamingViolation" ELSE Success
  <2>1. Proceed(s, rc, "dnTarget") /\ k.pc = "dnParent" /\ tree' = tree
    BY <1>4 DEF modifyDnParent, At
  <2>2. rc = Success => newParent(r) = RootDse \/ newParent(r) \in DOMAIN tree
    BY DEF Success, found
  <2>3. r.newRdn # << >>
    BY <2>1 DEF Rooted
  <2> HIDE DEF rc
  <2>4. m.req = r /\ m.pc = IF rc = Success THEN "dnTarget" ELSE "done"
    BY <2>1, ProceedFields
  <2> QED BY <2>1, <2>2, <2>3, <2>4 DEF Rooted
<1>5. CASE modifyDnTarget(s)
  <2>1. (\E rc, a : ProceedWith(s, rc, "dnStore", a)) /\ k.pc = "dnTarget" /\ tree' = tree
    BY <1>5 DEF modifyDnTarget, At
  <2>2. r.newRdn # << >> /\ (newParent(r) = RootDse \/ newParent(r) \in DOMAIN tree)
    BY <2>1 DEF Rooted
  <2>3. m.req = r /\ m.pc \in {"dnStore", "done"}
    BY <2>1, ProceedWithFields
  <2> QED BY <2>1, <2>2, <2>3 DEF Rooted
<1>6. CASE modifyDnStore(s)
  <2> DEFINE ok == modifyOk(tree, r.dn)
             new == Put(tree, r.dn, k.entry)
  <2>1. Mutate(s, ok, new, "dnRename") /\ k.pc = "dnStore" /\ ok \in BOOLEAN
    BY <1>6 DEF modifyDnStore, modifyOk, At
  <2>2. r.newRdn # << >> /\ (newParent(r) = RootDse \/ newParent(r) \in DOMAIN tree)
    BY <2>1 DEF Rooted
  <2>3. ok => DOMAIN new = DOMAIN tree
    BY DEF modifyOk, Put
  <2> HIDE DEF ok, new
  <2>4. m.req = r /\ m.pc = IF ok THEN "dnRename" ELSE "done"
    BY <2>1, MutateFields
  <2>5. DOMAIN tree' = DOMAIN tree
    BY <2>1, <2>3 DEF Mutate
  <2> QED BY <2>2, <2>4, <2>5 DEF Rooted
<1> QED BY <1>1, <1>2, <1>3, <1>4, <1>5, <1>6

\* A write leaves every entry its parent.
LEMMA WritesKeepParents ==
  ASSUME LeafRenames, IInv, NEW s \in Sessions, Rooted(s),
         DOMAIN tree \subseteq Nameable, NoOrphans, Writes(s)
  PROVE  DOMAIN tree' \subseteq Nameable /\ NoOrphans'
<1> DEFINE k == sess[s]
           r == sess[s].req
<1>0. SessionOK(k) /\ \A d \in DOMAIN tree \ UncheckedNames : HasParent(tree, d)
  BY DEF IInv, NoOrphans, HasParent, found
<1>1. ASSUME DOMAIN tree' \subseteq Nameable,
             \A d \in DOMAIN tree' \ UncheckedNames : HasParent(tree', d)
      PROVE  DOMAIN tree' \subseteq Nameable /\ NoOrphans'
  BY <1>1 DEF NoOrphans, HasParent, found, UncheckedNames, newDn, newParent
<1>2. k.pc \in {"addStore", "deleteRemove", "dnRename"} =>
        /\ r \in Requests
        /\ k.pc = "addStore" => r.op = "add"
        /\ k.pc = "dnRename" => r.op = "modifyDn"
  <2>1. k.pc \in Steps(r.op) /\ r \in Requests \cup {NoRequest}
    BY <1>0 DEF SessionOK
  <2>2. r.op \in {"none", "add", "modify", "delete", "modifyDn", "passwordModify"}
        /\ (r \in Requests \/ r.op = "none")
    BY <2>1, RequestOps DEF NoRequest
  <2> QED BY <2>1, <2>2 DEF Steps
<1>3. CASE k.pc = "addStore" /\ tree' = Put(tree, r.dn, k.entry)
  <2>1. DOMAIN tree' = DOMAIN tree \cup {r.dn}
    BY <1>3 DEF Put
  <2>2. HasParent(tree, r.dn) /\ r.dn \in Nameable
    BY <1>2, <1>3 DEF Rooted, Nameable
  <2> QED BY <1>0, <1>1, <2>1, <2>2 DEF HasParent
<1>4. ASSUME NEW dn, Replaces(s, dn) PROVE DOMAIN tree' \subseteq Nameable /\ NoOrphans'
  <2>1. DOMAIN tree' = DOMAIN tree
    BY <1>4 DEF Replaces, Put
  <2> QED BY <1>0, <1>1, <2>1 DEF HasParent
<1>5. CASE k.pc = "deleteRemove" /\ tree' = Erase(tree, r.dn)
  <2>1. DOMAIN tree' = DOMAIN tree \ {r.dn}
    BY <1>5 DEF Erase
  <2>2. \A d \in DOMAIN tree : ~dnIsOneLevelChild(d, r.dn)
    BY <1>5 DEF Rooted, hasChildren
  <2>3. \A d \in DOMAIN tree : dnParent(d) = RootDse \/ dnParent(d) # r.dn
    BY <2>2, ParentOfChild
  <2> QED BY <1>0, <1>1, <2>1, <2>3 DEF HasParent
<1>6. CASE /\ k.pc = "dnRename" /\ renameOk(tree, r.dn, newDn(r))
           /\ tree' = rename(tree, r.dn, newDn(r))
  <2> DEFINE to == newDn(r)
  <2>1. CASE r.dn = to
    <3>1. tree' = tree
      BY <1>6, <2>1 DEF rename
    <3> QED BY <1>0, <1>1, <3>1
  <2>2. CASE r.dn # to
    <3>1. DOMAIN tree' = (DOMAIN tree \ {r.dn}) \cup {to}
      <4>1. renameOk(tree, r.dn, to) /\ tree' = rename(tree, r.dn, to)
        BY <1>6
      <4> HIDE DEF to, r
      <4> QED BY <2>2, <4>1, RenameDomain
    <3>2. to \in Nameable /\ r \in Requests /\ r.op = "modifyDn" /\ r.newRdn # << >>
      BY <1>2, <1>6 DEF Nameable, Rooted
    <3>3. \A d \in Nameable : ~dnIsOneLevelChild(d, r.dn)
      BY <2>2, <3>2 DEF LeafRenames
    <3>4. \A d \in Nameable : dnParent(d) = RootDse \/ dnParent(d) # r.dn
      BY <3>3, ParentOfChild
    <3>5. to \in UncheckedNames \/ HasParent(tree, to)
      <4>1. newParent(r) = RootDse \/ newParent(r) \in DOMAIN tree
        BY <1>6 DEF Rooted
      <4>2. r.newRdn \in Seq(Component)
        BY <3>2, ModifyDnNames
      <4>3. CASE Len(r.newRdn) = 1
        <5>1. dnParent(to) = newParent(r)
          BY <3>2, <4>3, ParentOfNewDn
        <5> QED BY <4>1, <5>1 DEF HasParent
      <4>4. CASE Len(r.newRdn) > 1
        BY <3>2, <4>4 DEF UncheckedNames
      <4>5. Len(r.newRdn) = 1 \/ Len(r.newRdn) > 1
        BY <3>2, <4>2, OneOrMore
      <4> QED BY <4>3, <4>4, <4>5
    <3> HIDE DEF to
    <3> QED BY <1>0, <1>1, <3>1, <3>2, <3>4, <3>5 DEF HasParent
  <2> QED BY <2>1, <2>2
<1> QED BY <1>3, <1>4, <1>5, <1>6 DEF Writes

\* With one connection at a time, in a directory whose import has no orphans and
\* whose requests rename leaves only, every entry has its parent, but for those
\* whose name a new RDN of several components makes.
THEOREM NobodyOrphaned ==
  ASSUME OneSession, LeafRenames, RootedImport
  PROVE  Spec => []NoOrphans
<1>1. Init => AllSerial /\ TreeRooted
  <2> SUFFICES ASSUME Init PROVE AllSerial /\ TreeRooted
    OBVIOUS
  <2>1. AllSerial /\ \A s \in Sessions : Rooted(s)
    BY DEF Init, AllSerial, Serial, Rooted, Idle
  <2>2. tree = InitialTree
    BY DEF Init
  <2> QED BY <2>1, <2>2 DEF TreeRooted, Nameable, NoOrphans, RootedImport, HasParent, found
<1>2. ASSUME IInv, AllSerial, TreeRooted, [Next]_vars PROVE AllSerial' /\ TreeRooted'
  <2>1. ASSUME NEW s \in Sessions, Step(s) PROVE AllSerial' /\ TreeRooted'
    <3>1. Serial(s) /\ Rooted(s) /\ DOMAIN tree \subseteq Nameable /\ NoOrphans
      BY <1>2 DEF AllSerial, TreeRooted
    <3>2. Serial(s)'
      BY <1>2, <2>1, <3>1, QuietSteps, ModifyDnSteps, OtherSteps DEF Step
    <3>3. Rooted(s)'
      BY <1>2, <2>1, <3>1, OffPathSteps, OnPathSteps DEF Step
    <3>4. DOMAIN tree' \subseteq Nameable /\ NoOrphans'
      <4>1. CASE tree' = tree
        BY <3>1, <4>1 DEF NoOrphans, found
      <4>2. CASE tree' # tree
        BY <1>2, <2>1, <3>1, <4>2, OnlyWritesWrite, WritesKeepParents
      <4> QED BY <4>1, <4>2
    <3> QED BY <3>2, <3>3, <3>4 DEF AllSerial, TreeRooted, OneSession, Nameable, newDn, newParent
  <2>2. CASE UNCHANGED vars
    BY <1>2, <2>2 DEF vars, AllSerial, Serial, TreeRooted, Rooted, NoOrphans, HasParent,
                      hasChildren, found, Nameable
  <2> QED BY <1>2, <2>1, <2>2 DEF Next
<1>3. TreeRooted => NoOrphans
  BY DEF TreeRooted
<1> QED BY <1>1, <1>2, <1>3, DirectoryInductive, PTL DEF Spec

-----------------------------------------------------------------------------
(* What a list of changes leaves alone.                                    *)

\* Outside the types T the attributes a and b are the same.
Keeps(a, b, T) ==
  \A t \in (DOMAIN a \cup DOMAIN b) \ T : t \in DOMAIN a \cap DOMAIN b /\ a[t] = b[t]

LEMMA WithKeeps ==
  ASSUME NEW a, NEW t, NEW vs
  PROVE  Keeps(a, With(a, t, vs), {t}) /\ Keeps(a, Without(a, t), {t}) /\ Keeps(a, a, {t})
BY DEF Keeps, With, Without

LEMMA ChangeKeeps ==
  ASSUME NEW a, NEW c
  PROVE  Keeps(a, ApplyChange(a, c).attrs, {c.type})
<1> DEFINE t == c.type
           vs == c.values
<1>1. Keeps(a, AddValues(a, t, vs).attrs, {t})
  BY WithKeeps DEF AddValues, Result
<1>2. Keeps(a, DeleteValues(a, t, vs).attrs, {t})
  BY WithKeeps DEF DeleteValues, Result
<1>3. Keeps(a, ReplaceValues(a, t, vs).attrs, {t})
  BY WithKeeps DEF ReplaceValues, Result
<1>4. Keeps(a, a, {t})
  BY WithKeeps
<1> HIDE DEF t, vs
<1> QED BY <1>1, <1>2, <1>3, <1>4 DEF ApplyChange, Result, t, vs

\* applyModifications changes the entry in as many steps as there are changes.
LEMMA ModificationsInSteps ==
  ASSUME NEW a, NEW changes, Len(changes) \in Nat
  PROVE  \E w : /\ w[0] = Result(Success, a)
                /\ \A k \in 1..Len(changes) : w[k] = ApplyNext(w[k - 1], changes[k])
                /\ applyModifications(a, changes) = w[Len(changes)]
<1> DEFINE N == Len(changes)
           base == Result(Success, a)
           P(f, n) == f = [k \in 0..n |-> IF k = 0 THEN base ELSE ApplyNext(f[k - 1], changes[k])]
           Ex == {n \in 0..N : \E f : P(f, n)}
           w == CHOOSE f : P(f, N)
<1>1. applyModifications(a, changes) = w[N]
  BY DEF applyModifications
<1>2. N \in Nat
  OBVIOUS
<1> HIDE DEF N, base
<1>3. 0 \in Ex
  <2> DEFINE g == [k \in 0..0 |-> base]
  <2>1. P(g, 0)
    OBVIOUS
  <2>2. 0 \in 0..N
    BY <1>2
  <2> HIDE DEF g
  <2> QED BY <2>1, <2>2
<1>4. ASSUME NEW n \in 1..N, n - 1 \in Ex PROVE n \in Ex
  <2>1. PICK f : P(f, n - 1)
    BY <1>4
  <2> DEFINE g == [k \in 0..n |-> IF k = n THEN ApplyNext(f[n - 1], changes[n]) ELSE f[k]]
  <2>2. n \in Nat /\ n # 0 /\ n \in 0..N
    BY <1>2
  <2>3. \A k \in 0..(n - 1) : f[k] = IF k = 0 THEN base ELSE ApplyNext(f[k - 1], changes[k])
    BY <2>1
  <2>4. ASSUME NEW k \in 0..n
        PROVE  g[k] = IF k = 0 THEN base ELSE ApplyNext(g[k - 1], changes[k])
    <3>1. CASE k = 0
      BY <2>2, <2>3, <3>1
    <3>2. CASE k = n
      <4>1. n - 1 \in 0..n /\ n - 1 # n /\ n \in 0..n
        BY <2>2
      <4> QED BY <2>2, <3>2, <4>1
    <3>3. CASE k # 0 /\ k # n
      <4>1. k \in 0..(n - 1) /\ k - 1 \in 0..n /\ k - 1 # n
        BY <2>2, <3>3
      <4> QED BY <2>2, <2>3, <3>3, <4>1
    <3> QED BY <3>1, <3>2, <3>3
  <2>5. P(g, n)
    <3> HIDE DEF g
    <3>1. g = [k \in 0..n |-> g[k]]
      BY DEF g
    <3> QED BY <2>4, <3>1
  <2> QED BY <2>2, <2>5
<1>5. 0..N \subseteq Ex
  <2> HIDE DEF Ex
  <2> QED BY <1>2, <1>3, <1>4, CountUp
<1>6. N \in 0..N
  BY <1>2
<1>7. P(w, N)
  BY <1>5, <1>6
<1> HIDE DEF w
<1>8. w[0] = base /\ \A k \in 1..N : w[k] = ApplyNext(w[k - 1], changes[k])
  BY <1>2, <1>7
<1> QED BY <1>1, <1>8 DEF N, base

\* However many changes there are, only the types they name change.
LEMMA ModificationsKeep ==
  ASSUME NEW a, NEW changes, Len(changes) \in Nat, NEW T,
         \A i \in 1..Len(changes) : changes[i].type \in T
  PROVE  Keeps(a, applyModifications(a, changes).attrs, T)
<1> DEFINE N == Len(changes)
<1>1. PICK w : /\ w[0] = Result(Success, a)
               /\ \A k \in 1..N : w[k] = ApplyNext(w[k - 1], changes[k])
               /\ applyModifications(a, changes) = w[N]
  BY ModificationsInSteps
<1> DEFINE Good == {n \in 0..N : Keeps(a, w[n].attrs, T)}
<1>2. N \in Nat /\ N \in 0..N /\ 0 \in 0..N
  OBVIOUS
<1> HIDE DEF N
<1>3. 0 \in Good
  BY <1>1, <1>2 DEF Keeps, Result
<1>4. ASSUME NEW k \in 1..N, k - 1 \in Good PROVE k \in Good
  <2> DEFINE x == w[k - 1].attrs
             y == w[k].attrs
  <2>0. k \in 0..N
    BY <1>2
  <2>1. w[k] = ApplyNext(w[k - 1], changes[k])
    BY <1>1
  <2>2. y = x \/ y = ApplyChange(x, changes[k]).attrs
    BY <2>1 DEF ApplyNext
  <2>3. Keeps(a, x, T) /\ changes[k].type \in T
    BY <1>4 DEF N
  <2>4. Keeps(x, ApplyChange(x, changes[k]).attrs, {changes[k].type})
    BY ChangeKeeps
  <2> HIDE DEF x, y
  <2>5. Keeps(a, y, T)
    BY <2>2, <2>3, <2>4 DEF Keeps
  <2> QED BY <2>0, <2>5 DEF y
<1>5. 0..N \subseteq Good
  <2> HIDE DEF Good
  <2> QED BY <1>2, <1>3, <1>4, CountUp
<1> QED BY <1>1, <1>2, <1>5

\* encodeUserPasswordChanges leaves the number of changes and their types.
LEMMA EncodingKeepsTypes ==
  ASSUME NEW r \in Requests, r.op = "modify"
  PROVE  LET encoded == encodeUserPasswordChanges(r.changes)
         IN  /\ Len(encoded) = Len(r.changes) /\ Len(r.changes) \in Nat
             /\ \A i \in 1..Len(r.changes) : encoded[i].type = r.changes[i].type
<1> DEFINE N == Len(r.changes)
           encoded == encodeUserPasswordChanges(r.changes)
<1>1. /\ N \in Nat /\ DOMAIN r.changes = 1..N
      /\ \A i \in 1..N : DOMAIN r.changes[i] = {"op", "type", "values"}
  BY RequestChanges
<1> HIDE DEF N
<1>2. DOMAIN encoded = 1..N /\ encoded = [i \in 1..N |-> encoded[i]]
  BY <1>1 DEF encodeUserPasswordChanges
<1>3. ASSUME NEW i \in 1..N PROVE encoded[i].type = r.changes[i].type
  BY <1>1 DEF encodeUserPasswordChanges
<1> HIDE DEF encoded
<1>4. Len(encoded) = N
  <2> DEFINE S == {encoded[i] : i \in 1..N}
  <2>1. encoded \in [1..N -> S]
    BY <1>2
  <2> HIDE DEF S
  <2>2. encoded \in Seq(S)
    BY <1>1, <2>1, SeqDef
  <2>3. Len(encoded) \in Nat /\ DOMAIN encoded = 1..Len(encoded)
    BY <2>2, LenProperties
  <2> QED BY <1>1, <1>2, <2>3
<1> QED BY <1>1, <1>3, <1>4 DEF N, encoded

-----------------------------------------------------------------------------
\* The copy that handleModify and Password Modify are about to store differs
\* from the entry in what the request names, and in nothing else.
Copied(s) ==
  LET k == sess[s]
  IN  /\ k.pc = "modifyStore" => Keeps(tree[k.req.dn], k.entry, Touches(s))
      /\ k.pc = "pwStore" => Keeps(tree[k.target], k.entry, Touches(s))

\* Nothing but handleModify and pwLookup leads to these stores.
LEMMA OtherPlaces ==
  ASSUME IInv, NEW s \in Sessions, Step(s), ~handleModify(s), ~pwLookup(s)
  PROVE  sess'[s].pc \notin {"modifyStore", "pwStore"}
<1> DEFINE m == sess'[s]
           Stores == {"modifyStore", "pwStore"}
<1>1. DOMAIN sess[s] = Fields /\ sess = [t \in Sessions |-> sess[t]]
  BY DEF IInv, SessionOK
<1>2. ASSUME NEW rc, NEW next, Proceed(s, rc, next), next \notin Stores PROVE m.pc \notin Stores
  BY <1>2, ProceedFields
<1>3. ASSUME NEW rc, NEW next, NEW a, ProceedWith(s, rc, next, a), next \notin Stores
      PROVE  m.pc \notin Stores
  BY <1>3, ProceedWithFields
<1>4. ASSUME NEW ok \in BOOLEAN, NEW new, NEW next, Mutate(s, ok, new, next), next \notin Stores
      PROVE  m.pc \notin Stores
  BY <1>4, MutateFields
<1>5. ASSUME NEW target, pwAuthorise(s, target) PROVE m.pc \notin Stores
  BY <1>1, <1>5 DEF pwAuthorise, Fields
<1>6. \A d, e : /\ addOk(tree, d) \in BOOLEAN /\ modifyOk(tree, d) \in BOOLEAN
                /\ removeOk(tree, d) \in BOOLEAN /\ renameOk(tree, d, e) \in BOOLEAN
  BY DEF addOk, modifyOk, removeOk, renameOk
<1>7. CASE serve(s) \/ send(s) \/ persist(s)
  <2>1. CASE serve(s)
    BY <1>1, <2>1 DEF serve, Idle
  <2>2. CASE send(s)
    BY <1>1, <2>2 DEF send, Idle
  <2>3. CASE persist(s)
    BY <1>1, <2>3 DEF persist, Fields
  <2> QED BY <1>7, <2>1, <2>2, <2>3
<1>8. CASE handleAdd(s) \/ handleDelete(s) \/ deleteChildren(s) \/ modifyDnParent(s) \/ pwVerify(s)
  BY <1>2, <1>8 DEF handleAdd, handleDelete, deleteChildren, modifyDnParent, pwVerify
<1>9. CASE addParent(s) \/ handleModifyDn(s) \/ modifyDnTarget(s)
  BY <1>3, <1>9 DEF addParent, handleModifyDn, modifyDnTarget
<1>10. CASE addStore(s) \/ modifyStore(s) \/ deleteRemove(s) \/ modifyDnStore(s)
            \/ modifyDnRename(s) \/ pwStore(s)
  BY <1>4, <1>6, <1>10 DEF addStore, modifyStore, deleteRemove, modifyDnStore, modifyDnRename, pwStore
<1>11. CASE handlePasswordModify(s) \/ pwFind(s)
  BY <1>2, <1>5, <1>11 DEF handlePasswordModify, pwFind
<1>12. CASE pwOld(s) \/ pwOldFind(s)
  <2>1. CASE pwOld(s)
    BY <1>1, <2>1 DEF pwOld, Fields
  <2>2. CASE pwOldFind(s)
    BY <1>1, <2>2 DEF pwOldFind, Fields
  <2> QED BY <1>12, <2>1, <2>2
<1> QED BY <1>7, <1>8, <1>9, <1>10, <1>11, <1>12 DEF Step

LEMMA CopiedByModify ==
  ASSUME IInv, NEW s \in Sessions, handleModify(s)
  PROVE  Copied(s)'
<1> DEFINE r == sess[s].req
           m == sess'[s]
           encoded == encodeUserPasswordChanges(r.changes)
           applied == applyModifications(tree[r.dn], encoded)
           rc == IF ~allowed(s, r.dn)           THEN "InsufficientAccessRights"
                 ELSE IF ~found(tree, r.dn)     THEN "NoSuchObject"
                 ELSE IF applied.rc # Success   THEN applied.rc
                 ELSE checkSchema(applied.attrs)
           types == {r.changes[i].type : i \in DOMAIN r.changes}
<1>1. ProceedWith(s, rc, "modifyStore", applied.attrs) /\ r.op = "modify" /\ tree' = tree
  BY DEF handleModify, At
<1>2. r \in Requests
  BY <1>1 DEF IInv, SessionOK, NoRequest
<1>3. Keeps(tree[r.dn], applied.attrs, types)
  <2>1. /\ Len(encoded) = Len(r.changes) /\ Len(r.changes) \in Nat
        /\ \A i \in 1..Len(r.changes) : encoded[i].type = r.changes[i].type
    BY <1>1, <1>2, EncodingKeepsTypes
  <2>2. DOMAIN r.changes = 1..Len(r.changes)
    BY <1>1, <1>2, RequestChanges
  <2>3. Len(encoded) \in Nat /\ \A i \in 1..Len(encoded) : encoded[i].type \in types
    BY <2>1, <2>2
  <2> HIDE DEF encoded, types
  <2> QED BY <2>3, ModificationsKeep
<1> HIDE DEF rc, applied, types
<1>4. /\ m.pc = IF rc = Success THEN "modifyStore" ELSE "done"
      /\ m.entry = IF rc = Success THEN applied.attrs ELSE sess[s].entry
      /\ m.req = r
  BY <1>1, ProceedWithFields
<1>5. Touches(s)' = types
  BY <1>1, <1>4 DEF Touches, types
<1> QED BY <1>1, <1>3, <1>4, <1>5 DEF Copied

LEMMA CopiedByPassword ==
  ASSUME IInv, NEW s \in Sessions, pwLookup(s)
  PROVE  Copied(s)'
<1> DEFINE target == sess[s].target
           m == sess'[s]
           change == [op |-> "replace", type |-> "userPassword",
                      values |-> <<encodeUserPassword(sess[s].req.new)>>]
           applied == applyModifications(tree[target], <<change>>)
           rc == IF ~found(tree, target) THEN "NoSuchObject" ELSE checkSchema(applied.attrs)
<1>1. /\ ProceedWith(s, rc, "pwStore", applied.attrs)
      /\ sess[s].req.op = "passwordModify" /\ tree' = tree
  BY DEF pwLookup, At
<1>2. Keeps(tree[target], applied.attrs, {"userPassword"})
  <2>1. change.type = "userPassword"
    OBVIOUS
  <2> HIDE DEF change
  <2> DEFINE q == <<change>>
  <2>2. Len(q) = 1 /\ q[1] = change
    OBVIOUS
  <2>3. Len(q) \in Nat /\ \A i \in 1..Len(q) : q[i].type \in {"userPassword"}
    BY <2>1, <2>2
  <2> HIDE DEF q
  <2>4. Keeps(tree[target], applyModifications(tree[target], q).attrs, {"userPassword"})
    BY <2>3, ModificationsKeep
  <2> QED BY <2>4 DEF q
<1> HIDE DEF rc, applied
<1>3. /\ m.pc = IF rc = Success THEN "pwStore" ELSE "done"
      /\ m.entry = IF rc = Success THEN applied.attrs ELSE sess[s].entry
      /\ m.req = sess[s].req /\ m.target = target
  BY <1>1, ProceedWithFields
<1>4. Touches(s)' = {"userPassword"}
  BY <1>1, <1>3 DEF Touches
<1> QED BY <1>1, <1>2, <1>3, <1>4 DEF Copied

\* With one connection at a time, Modify and Password Modify leave every
\* attribute that the request does not name as it is in the tree, however many
\* changes the request has.  (With two, the later store undoes the other's.)
THEOREM OtherAttributesStay ==
  ASSUME OneSession
  PROVE  Spec => OnlyNamedAttributesChange
<1> DEFINE AllCopied == \A s \in Sessions : Copied(s)
<1>1. Init => AllCopied
  BY DEF Init, Copied, Idle
<1>2. ASSUME IInv, AllCopied, [Next]_vars PROVE AllCopied'
  <2>1. ASSUME NEW s \in Sessions, Step(s) PROVE AllCopied'
    <3>1. CASE ~handleModify(s) /\ ~pwLookup(s)
      BY <1>2, <2>1, <3>1, OtherPlaces DEF Copied, OneSession
    <3>2. CASE handleModify(s) \/ pwLookup(s)
      BY <1>2, <3>2, CopiedByModify, CopiedByPassword DEF OneSession
    <3> QED BY <3>1, <3>2
  <2>2. CASE UNCHANGED vars
    BY <1>2, <2>2 DEF vars, Copied, Touches
  <2> QED BY <1>2, <2>1, <2>2 DEF Next
<1>3. ASSUME IInv, AllCopied, [Next]_vars
      PROVE  [\A d \in DOMAIN tree \cap DOMAIN tree', s \in Sessions :
                sess[s].pc \in {"modifyStore", "pwStore"} /\ sess'[s].pc # sess[s].pc =>
                  \A t \in (DOMAIN tree[d] \cup DOMAIN tree'[d]) \ Touches(s) :
                    /\ t \in DOMAIN tree[d] \cap DOMAIN tree'[d]
                    /\ tree[d][t] = tree'[d][t]]_tree
  <2> SUFFICES ASSUME tree' # tree, NEW d \in DOMAIN tree \cap DOMAIN tree', NEW s \in Sessions,
                      sess[s].pc \in {"modifyStore", "pwStore"}
               PROVE  Keeps(tree[d], tree'[d], Touches(s))
    BY DEF Keeps
  <2>1. Step(s)
    BY <1>3 DEF Next, vars, OneSession
  <2>2. Writes(s)
    BY <1>3, <2>1, OnlyWritesWrite
  <2>3. ASSUME NEW e, Replaces(s, e), Keeps(tree[e], sess[s].entry, Touches(s))
        PROVE  Keeps(tree[d], tree'[d], Touches(s))
    BY <2>3 DEF Replaces, Put, Keeps
  <2>4. CASE sess[s].pc = "modifyStore"
    BY <1>3, <2>2, <2>3, <2>4 DEF Writes, Copied
  <2>5. CASE sess[s].pc = "pwStore"
    BY <1>3, <2>2, <2>3, <2>5 DEF Writes, Copied
  <2> QED BY <2>4, <2>5
<1> QED BY <1>1, <1>2, <1>3, DirectoryInductive, PTL DEF Spec, OnlyNamedAttributesChange
=============================================================================
