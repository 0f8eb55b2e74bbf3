--------------------------- MODULE Search_proofs ---------------------------
(***************************************************************************)
(* Proofs about Search and Filter.  A filter finds what it means, and one  *)
(* call of the backend finds exactly the entries meant; whatever other     *)
(* sessions write between the steps of a request, what is sent could be    *)
(* read; and while nobody writes, the pages of a search are exactly what   *)
(* was asked for.                                                          *)
(***************************************************************************)
EXTENDS Search, SequenceTheorems, NaturalsInduction, WellFoundedInduction, TLAPS

-----------------------------------------------------------------------------
(* Induction over numbers.                                                 *)

\* Every set of numbers that is not empty has a least one.
LEMMA LeastNumber ==
  ASSUME NEW T, T \subseteq Nat, T # {}
  PROVE  \E m \in T : \A n \in T : m <= n
<1> DEFINE R == OpToRel(<, Nat)
<1>1. \A m, n \in Nat : m < n => <<m, n>> \in R
  BY DEF OpToRel
<1>2. IsWellFoundedOn(R, Nat)
  BY NatLessThanWellFounded
<1> HIDE DEF R
<1>3. \E m \in T : \A n \in T : ~(<<n, m>> \in R)
  BY <1>2, WFMin
<1>4. PICK m \in T : \A n \in T : ~(<<n, m>> \in R)
  BY <1>3
<1>5. \A n \in T : ~(n < m)
  BY <1>1, <1>4
<1>6. \A n \in T : m <= n
  BY <1>5
<1> QED BY <1>6

\* Induction up to a number, over a set.
LEMMA CountUp ==
  ASSUME NEW N \in Nat, NEW T, 0 \in T, \A k \in 1..N : k - 1 \in T => k \in T
  PROVE  0..N \subseteq T
<1> DEFINE Bad == {k \in 0..N : k \notin T}
<1> SUFFICES ASSUME Bad # {} PROVE FALSE
  OBVIOUS
<1>0. Bad \subseteq Nat
  OBVIOUS
<1>1. PICK m \in Bad : \A n \in Bad : m <= n
  <2> HIDE DEF Bad
  <2> QED BY <1>0, LeastNumber
<1>2. m \in 1..N /\ m - 1 \in 0..N /\ ~(m <= m - 1)
  BY DEF Bad
<1>3. m - 1 \in T
  BY <1>1, <1>2
<1> QED BY <1>2, <1>3

\* A loop of N turns, each of which makes a value of X of the one before.
Loops(X, x0, G, N) ==
  \E f \in [0..N -> X] : f[0] = x0 /\ \A k \in 1..N : f[k] = G[<<k, f[k - 1]>>]

\* A loop over 1..n has a value after each turn: the recursive function exists.
LEMMA LoopRuns ==
  ASSUME NEW X, NEW x0 \in X, NEW N \in Nat, NEW G \in [(1..N) \X X -> X]
  PROVE  Loops(X, x0, G, N)
<1> DEFINE P(f, n) == f[0] = x0 /\ \A k \in 1..n : f[k] = G[<<k, f[k - 1]>>]
           Ex == {n \in 0..N : \E f \in [0..n -> X] : P(f, n)}
<1>1. 0 \in Ex
  <2> DEFINE g == [k \in 0..0 |-> x0]
  <2>1. g \in [0..0 -> X] /\ P(g, 0)
    OBVIOUS
  <2>2. 0 \in 0..N
    OBVIOUS
  <2> HIDE DEF g, P
  <2> QED BY <2>1, <2>2
<1>2. ASSUME NEW n \in 1..N, n - 1 \in Ex PROVE n \in Ex
  <2>1. PICK f \in [0..(n - 1) -> X] : P(f, n - 1)
    BY <1>2
  <2>2. n \in 0..N /\ n - 1 \in 0..(n - 1)
    OBVIOUS
  <2> DEFINE y == G[<<n, f[n - 1]>>]
             g == [k \in 0..n |-> IF k = n THEN y ELSE f[k]]
  <2>3. y \in X
    BY <2>2
  <2> HIDE DEF y
  <2>4. g \in [0..n -> X]
    <3>1. ASSUME NEW k \in 0..n, k # n PROVE k \in 0..(n - 1)
      BY <3>1
    <3> QED BY <2>3, <3>1
  <2>5. g[0] = x0
    BY <2>1, <2>2
  <2>6. ASSUME NEW k \in 1..n PROVE g[k] = G[<<k, g[k - 1]>>]
    <3>1. CASE k = n
      <4>1. g[k - 1] = f[n - 1] /\ g[k] = y
        BY <2>2, <3>1
      <4> QED BY <3>1, <4>1 DEF y
    <3>2. CASE k # n
      <4>1. k \in 1..(n - 1) /\ k \in 0..n /\ k - 1 \in 0..n /\ k - 1 # n
        BY <2>2, <3>2
      <4>2. g[k - 1] = f[k - 1] /\ g[k] = f[k]
        BY <3>2, <4>1
      <4> QED BY <2>1, <4>1, <4>2
    <3> QED BY <3>1, <3>2
  <2>7. P(g, n)
    BY <2>5, <2>6
  <2> HIDE DEF g, P
  <2> QED BY <2>2, <2>4, <2>7
<1>3. 0..N \subseteq Ex
  <2> HIDE DEF Ex
  <2> QED BY <1>1, <1>2, CountUp
<1>4. N \in Ex
  BY <1>3
<1> QED BY <1>4 DEF Loops

-----------------------------------------------------------------------------
(* Sequences.                                                              *)

\* A sequence over any set is one over its own elements.
LEMMA SeqIs ==
  ASSUME NEW S, NEW q \in Seq(S)
  PROVE  IsSeq(q) /\ ToSet(q) \subseteq S
  BY DEF IsSeq, ToSet

\* The empty list.
LEMMA EmptyIs == IsSeq(<< >>) /\ ToSet(<< >>) = {}
  BY DEF IsSeq, ToSet

\* A list of one entry.
LEMMA OneIs == ASSUME NEW e PROVE IsSeq(<<e>>) /\ ToSet(<<e>>) = {e}
<1>1. <<e>> \in Seq({e})
  OBVIOUS
<1>2. IsSeq(<<e>>) /\ ToSet(<<e>>) \subseteq {e}
  BY <1>1, SeqIs
<1>3. 1 \in DOMAIN <<e>> /\ <<e>>[1] = e
  OBVIOUS
<1>4. e \in ToSet(<<e>>)
  BY <1>3 DEF ToSet
<1> QED BY <1>2, <1>4

\* An element of a list.
LEMMA InRange ==
  ASSUME NEW q, IsSeq(q), NEW i \in 1..Len(q)
  PROVE  q[i] \in ToSet(q)
  BY DEF IsSeq, ToSet

\* A list that grows at its end.
LEMMA AppendIs ==
  ASSUME NEW q, IsSeq(q), NEW e
  PROVE  /\ IsSeq(Append(q, e)) /\ ToSet(Append(q, e)) \subseteq ToSet(q) \cup {e}
         /\ Len(Append(q, e)) = Len(q) + 1
<1> DEFINE S == ToSet(q) \cup {e}
<1>1. q \in Seq(S)
  <2>1. q \in Seq(ToSet(q))
    BY DEF IsSeq
  <2> HIDE DEF S
  <2>2. ToSet(q) \subseteq S
    BY DEF S
  <2> QED BY <2>1, <2>2
<1>2. e \in S
  OBVIOUS
<1> HIDE DEF S
<1>3. Append(q, e) \in Seq(S) /\ Len(Append(q, e)) = Len(q) + 1
  BY <1>1, <1>2
<1>4. IsSeq(Append(q, e)) /\ ToSet(Append(q, e)) \subseteq S
  BY <1>3, SeqIs
<1> QED BY <1>3, <1>4 DEF S

\* A list without its first element.
LEMMA TailIs ==
  ASSUME NEW q, IsSeq(q), q # << >>
  PROVE  /\ IsSeq(Tail(q)) /\ ToSet(Tail(q)) \subseteq ToSet(q)
         /\ Head(q) \in ToSet(q)
         /\ Tail(q) # << >> => Head(Tail(q)) = q[2]
<1> DEFINE S == ToSet(q)
<1>1. q \in Seq(S)
  BY DEF IsSeq
<1> HIDE DEF S
<1>2. Tail(q) \in Seq(S) /\ Head(q) \in S
  BY <1>1
<1>3. Tail(q) # << >> => Head(Tail(q)) = q[2]
  BY <1>1
<1>4. IsSeq(Tail(q)) /\ ToSet(Tail(q)) \subseteq S
  BY <1>2, SeqIs
<1> QED BY <1>2, <1>3, <1>4 DEF S

\* Two lists, one behind the other.
LEMMA ConcatIs ==
  ASSUME NEW p, NEW q, IsSeq(p), IsSeq(q)
  PROVE  IsSeq(p \o q) /\ ToSet(p \o q) \subseteq ToSet(p) \cup ToSet(q)
<1> DEFINE S == ToSet(p) \cup ToSet(q)
<1>1. p \in Seq(ToSet(p)) /\ q \in Seq(ToSet(q)) /\ ToSet(p) \subseteq S /\ ToSet(q) \subseteq S
  BY DEF IsSeq
<1> HIDE DEF S
<1>2. p \in Seq(S) /\ q \in Seq(S)
  BY <1>1
<1>3. p \o q \in Seq(S)
  BY <1>2
<1>4. IsSeq(p \o q) /\ ToSet(p \o q) \subseteq S
  BY <1>3, SeqIs
<1> QED BY <1>4 DEF S

-----------------------------------------------------------------------------
(* kept and Among.                                                         *)

\* kept satisfies its recursive definition.
LEMMA KeptIs ==
  ASSUME NEW q, IsSeq(q), NEW S
  PROVE  /\ Len(q) \in Nat /\ DOMAIN q = 1..Len(q)
         /\ kept(q, S)[0] = << >>
         /\ \A n \in 1..Len(q) : kept(q, S)[n] = IF q[n] \in S THEN Append(kept(q, S)[n - 1], q[n])
                                                 ELSE kept(q, S)[n - 1]
         /\ \A n \in 0..Len(q) : kept(q, S)[n] \in Seq(ToSet(q) \cap S)
<1> DEFINE N == Len(q)
           X == Seq(ToSet(q) \cap S)
           Is(f) == f = [n \in 0..N |-> IF n = 0 THEN << >>
                                        ELSE IF q[n] \in S THEN Append(f[n - 1], q[n])
                                        ELSE f[n - 1]]
           k == CHOOSE f : Is(f)
           G == [p \in (1..N) \X X |-> IF q[p[1]] \in S THEN Append(p[2], q[p[1]]) ELSE p[2]]
<1>1. kept(q, S) = k
  BY DEF kept
<1>2. N \in Nat /\ DOMAIN q = 1..N
  BY DEF IsSeq
<1>3. \A n \in 1..N : q[n] \in ToSet(q)
  BY <1>2 DEF ToSet
<1> HIDE DEF N
<1>4. << >> \in X
  OBVIOUS
<1>5. ASSUME NEW n \in 1..N, NEW x \in X, q[n] \in S PROVE Append(x, q[n]) \in X
  BY <1>3, <1>5
<1> HIDE DEF X
<1>6. G \in [(1..N) \X X -> X]
  BY <1>5
<1>7. \A n \in 1..N, x \in X : G[<<n, x>>] = IF q[n] \in S THEN Append(x, q[n]) ELSE x
  OBVIOUS
<1> HIDE DEF G
<1>8. Loops(X, << >>, G, N)
  BY <1>2, <1>4, <1>6, LoopRuns
<1>9. PICK f \in [0..N -> X] : f[0] = << >> /\ \A n \in 1..N : f[n] = G[<<n, f[n - 1]>>]
  BY <1>8 DEF Loops
<1>10. ASSUME NEW n \in 1..N
       PROVE  f[n] = IF q[n] \in S THEN Append(f[n - 1], q[n]) ELSE f[n - 1]
  <2>1. n - 1 \in 0..N
    BY <1>2
  <2> QED BY <1>7, <1>9, <2>1
<1>11. Is(f)
  <2>1. f = [n \in 0..N |-> f[n]]
    BY <1>9
  <2>2. \A n \in 0..N : n = 0 \/ n \in 1..N
    BY <1>2
  <2> QED BY <1>9, <1>10, <2>1, <2>2
<1>12. Is(k)
  BY <1>11
<1> HIDE DEF k
<1>13. /\ k[0] = << >>
       /\ \A n \in 1..N : k[n] = IF q[n] \in S THEN Append(k[n - 1], q[n]) ELSE k[n - 1]
  <2>1. 0 \in 0..N /\ \A n \in 1..N : n \in 0..N /\ n # 0
    BY <1>2
  <2>2. \A n \in 0..N : k[n] = IF n = 0 THEN << >>
                                ELSE IF q[n] \in S THEN Append(k[n - 1], q[n]) ELSE k[n - 1]
    BY <1>12
  <2> QED BY <2>1, <2>2
<1>14. \A n \in 0..N : k[n] \in X
  <2> DEFINE T == {n \in 0..N : k[n] \in X}
  <2>1. 0 \in T
    BY <1>2, <1>4, <1>13
  <2>2. ASSUME NEW n \in 1..N, n - 1 \in T PROVE n \in T
    BY <1>2, <1>5, <1>13, <2>2
  <2> HIDE DEF T
  <2>3. 0..N \subseteq T
    BY <1>2, <2>1, <2>2, CountUp
  <2> QED BY <2>3 DEF T
<1> QED BY <1>1, <1>2, <1>13, <1>14 DEF N, X

\* The length of a list and its indices.
LEMMA SeqLen == ASSUME NEW q, IsSeq(q) PROVE Len(q) \in Nat /\ DOMAIN q = 1..Len(q)
  BY DEF IsSeq

\* Nothing is kept before the first turn.
LEMMA KeptStart == ASSUME NEW q, IsSeq(q), NEW S PROVE kept(q, S)[0] = << >>
  BY KeptIs

\* What one turn adds.
LEMMA KeptNext ==
  ASSUME NEW q, IsSeq(q), NEW S, NEW n \in 1..Len(q)
  PROVE  kept(q, S)[n] = IF q[n] \in S THEN Append(kept(q, S)[n - 1], q[n]) ELSE kept(q, S)[n - 1]
<1>1. \A m \in 1..Len(q) : kept(q, S)[m] = IF q[m] \in S THEN Append(kept(q, S)[m - 1], q[m])
                                            ELSE kept(q, S)[m - 1]
  BY KeptIs
<1> QED BY <1>1

\* Only members of S are kept.
LEMMA KeptSeq ==
  ASSUME NEW q, IsSeq(q), NEW S, NEW n \in 0..Len(q)
  PROVE  kept(q, S)[n] \in Seq(ToSet(q) \cap S)
  BY KeptIs

\* Among is a sequence of the members of q that are in S.
LEMMA AmongIs ==
  ASSUME NEW q, IsSeq(q), NEW S
  PROVE  IsSeq(Among(q, S)) /\ ToSet(Among(q, S)) \subseteq ToSet(q) \cap S
<1>1. Len(q) \in Nat
  BY KeptIs
<1>2. Among(q, S) \in Seq(ToSet(q) \cap S)
  BY <1>1, KeptSeq DEF Among
<1> QED BY <1>2 DEF IsSeq, ToSet

\* The members in S of a first part of a list, and then of the whole.
LEMMA KeptOfPrefix ==
  ASSUME NEW p, IsSeq(p), NEW q, IsSeq(q), NEW S, Len(p) <= Len(q),
         \A i \in 1..Len(p) : p[i] = q[i]
  PROVE  \A n \in 0..Len(p) : kept(p, S)[n] = kept(q, S)[n]
<1> DEFINE T == {n \in 0..Len(p) : kept(p, S)[n] = kept(q, S)[n]}
<1>1. Len(p) \in Nat /\ Len(q) \in Nat
  BY SeqLen
<1>2. 0 \in T
  BY <1>1, KeptStart
<1>3. ASSUME NEW n \in 1..Len(p), n - 1 \in T PROVE n \in T
  <2>1. n \in 0..Len(p) /\ n \in 1..Len(q) /\ p[n] = q[n]
    BY <1>1
  <2>2. kept(p, S)[n - 1] = kept(q, S)[n - 1]
    BY <1>3
  <2>3. kept(p, S)[n] = IF p[n] \in S THEN Append(kept(p, S)[n - 1], p[n]) ELSE kept(p, S)[n - 1]
    BY KeptNext
  <2>4. kept(q, S)[n] = IF q[n] \in S THEN Append(kept(q, S)[n - 1], q[n]) ELSE kept(q, S)[n - 1]
    BY <2>1, KeptNext
  <2> QED BY <2>1, <2>2, <2>3, <2>4
<1> HIDE DEF T
<1>4. 0..Len(p) \subseteq T
  BY <1>1, <1>2, <1>3, CountUp
<1> QED BY <1>4 DEF T

\* One more element is kept or left out.
LEMMA AmongAppend ==
  ASSUME NEW p, IsSeq(p), NEW e, NEW S
  PROVE  Among(Append(p, e), S) = IF e \in S THEN Append(Among(p, S), e) ELSE Among(p, S)
<1> DEFINE q == Append(p, e)
           N == Len(p)
<1>1. N \in Nat /\ p \in Seq(ToSet(p) \cup {e}) /\ e \in ToSet(p) \cup {e}
  BY DEF IsSeq
<1>2. q \in Seq(ToSet(p) \cup {e}) /\ Len(q) = N + 1 /\ q[N + 1] = e /\ \A i \in 1..N : q[i] = p[i]
  BY <1>1
<1>3. IsSeq(q)
  BY <1>2 DEF IsSeq, ToSet
<1> HIDE DEF q
<1>4. kept(q, S)[N + 1] = IF e \in S THEN Append(kept(q, S)[N], e) ELSE kept(q, S)[N]
  <2>1. N + 1 \in 1..Len(q) /\ (N + 1) - 1 = N
    BY <1>1, <1>2
  <2> QED BY <1>2, <1>3, <2>1, KeptNext
<1>5. kept(q, S)[N] = kept(p, S)[N]
  <2>1. N \in 0..N /\ N <= Len(q)
    BY <1>1, <1>2
  <2> QED BY <1>2, <1>3, <2>1, KeptOfPrefix
<1> QED BY <1>2, <1>4, <1>5 DEF Among, q

\* Choosing twice is choosing once.
LEMMA AmongEmpty == ASSUME NEW S PROVE Among(<< >>, S) = << >>
<1>1. IsSeq(<< >>) /\ Len(<< >>) = 0
  BY DEF IsSeq, ToSet
<1> QED BY <1>1, KeptStart DEF Among

\* Nothing is kept of no set.
LEMMA AmongNone == ASSUME NEW q, IsSeq(q) PROVE Among(q, {}) = << >>
<1> DEFINE a == Among(q, {})
<1>1. a \in Seq({})
  <2>1. Len(q) \in Nat /\ Len(q) \in 0..Len(q)
    BY SeqLen
  <2>2. a \in Seq(ToSet(q) \cap {})
    BY <2>1, KeptSeq DEF Among
  <2>3. ToSet(q) \cap {} = {}
    OBVIOUS
  <2> QED BY <2>2, <2>3
<1> HIDE DEF a
<1>2. Len(a) \in Nat /\ \A i \in 1..Len(a) : a[i] \in {}
  BY <1>1
<1>3. Len(a) = 0
  BY <1>2
<1> QED BY <1>1, <1>3 DEF a

\* Choosing twice is choosing once.
LEMMA AmongAmong ==
  ASSUME NEW q, IsSeq(q), NEW S, NEW T
  PROVE  Among(Among(q, S), T) = Among(q, S \cap T)
<1> DEFINE N == Len(q)
           ST == S \cap T
           U == {n \in 0..N : Among(kept(q, S)[n], T) = kept(q, ST)[n]}
<1>1. N \in Nat
  BY SeqLen
<1>2. \A e : e \in ST <=> e \in S /\ e \in T
  OBVIOUS
<1> HIDE DEF ST
<1>3. 0 \in U
  <2>1. kept(q, S)[0] = << >> /\ kept(q, ST)[0] = << >>
    BY KeptStart
  <2> QED BY <1>1, <2>1, AmongEmpty
<1>4. ASSUME NEW n \in 1..N, n - 1 \in U PROVE n \in U
  <2> DEFINE p == kept(q, S)[n - 1]
             e == q[n]
  <2>1. n \in 0..N /\ n - 1 \in 0..N
    BY <1>1
  <2>2. Among(p, T) = kept(q, ST)[n - 1]
    BY <1>4
  <2>3. IsSeq(p)
    <3>1. p \in Seq(ToSet(q) \cap S)
      BY <2>1, KeptSeq
    <3> HIDE DEF p
    <3> QED BY <3>1, SeqIs
  <2>4. kept(q, S)[n] = IF e \in S THEN Append(p, e) ELSE p
    BY KeptNext
  <2>5. kept(q, ST)[n] = IF e \in ST THEN Append(kept(q, ST)[n - 1], e) ELSE kept(q, ST)[n - 1]
    BY KeptNext
  <2> HIDE DEF p, e
  <2>6. Among(Append(p, e), T) = IF e \in T THEN Append(Among(p, T), e) ELSE Among(p, T)
    BY <2>3, AmongAppend
  <2> QED BY <1>2, <2>1, <2>2, <2>4, <2>5, <2>6
<1> HIDE DEF U
<1>5. N \in U
  <2>1. 0..N \subseteq U
    BY <1>1, <1>3, <1>4, CountUp
  <2> QED BY <1>1, <2>1
<1> QED BY <1>5 DEF U, ST, Among

\* A loop over two lists, one behind the other.
LEMMA AmongConcat ==
  ASSUME NEW p, IsSeq(p), NEW q, IsSeq(q), NEW S
  PROVE  Among(p \o q, S) = Among(p, S) \o Among(q, S)
<1> DEFINE A == ToSet(p) \cup ToSet(q)
           M == Len(p)
           N == Len(q)
           U == {n \in 0..N : kept(p \o q, S)[M + n] = Among(p, S) \o kept(q, S)[n]}
<1>1. M \in Nat /\ N \in Nat /\ p \in Seq(A) /\ q \in Seq(A)
  BY DEF IsSeq
<1> HIDE DEF A
<1>2. /\ p \o q \in Seq(A) /\ Len(p \o q) = M + N
      /\ \A i \in 1..M : (p \o q)[i] = p[i]
      /\ \A i \in 1..N : (p \o q)[M + i] = q[i]
  BY <1>1
<1>3. IsSeq(p \o q)
  BY <1>2, SeqIs
<1>4. Among(p, S) \in Seq(A)
  <2>1. Among(p, S) \in Seq(ToSet(p) \cap S)
    BY <1>1, KeptSeq DEF Among
  <2>2. ToSet(p) \cap S \subseteq A
    BY DEF A
  <2> QED BY <2>1, <2>2
<1>5. 0 \in U
  <2>1. kept(p \o q, S)[M] = Among(p, S)
    <3> DEFINE pq == p \o q
    <3>1. M \in 0..M /\ M <= Len(pq) /\ IsSeq(pq) /\ \A i \in 1..M : p[i] = pq[i]
      BY <1>1, <1>2, <1>3
    <3> HIDE DEF pq
    <3>2. kept(p, S)[M] = kept(pq, S)[M]
      BY <3>1, KeptOfPrefix
    <3> QED BY <3>2 DEF pq, Among
  <2>2. kept(q, S)[0] = << >> /\ Among(p, S) \o << >> = Among(p, S) /\ M + 0 = M /\ 0 \in 0..N
    BY <1>1, <1>4, KeptStart
  <2> QED BY <2>1, <2>2
<1>6. ASSUME NEW n \in 1..N, n - 1 \in U PROVE n \in U
  <2> DEFINE m == M + n
             x == kept(q, S)[n - 1]
  <2>1. n \in 0..N /\ n - 1 \in 0..N /\ m \in 1..(M + N) /\ m - 1 = M + (n - 1)
    BY <1>1
  <2>2. kept(p \o q, S)[m - 1] = Among(p, S) \o x
    BY <1>6, <2>1
  <2>3. (p \o q)[m] = q[n]
    BY <1>2
  <2> HIDE DEF m
  <2>4. kept(p \o q, S)[m] = IF q[n] \in S THEN Append(Among(p, S) \o x, q[n]) ELSE Among(p, S) \o x
    <3> DEFINE pq == p \o q
    <3>0. IsSeq(pq) /\ m \in 1..Len(pq)
      BY <1>2, <1>3, <2>1
    <3>1. pq[m] = q[n] /\ kept(pq, S)[m - 1] = Among(p, S) \o x
      BY <2>2, <2>3
    <3> HIDE DEF pq, x
    <3>2. kept(pq, S)[m] = IF pq[m] \in S THEN Append(kept(pq, S)[m - 1], pq[m]) ELSE kept(pq, S)[m - 1]
      BY <3>0, KeptNext
    <3> QED BY <3>1, <3>2 DEF pq
  <2>5. kept(q, S)[n] = IF q[n] \in S THEN Append(x, q[n]) ELSE x
    BY KeptNext
  <2>6. x \in Seq(A) /\ q[n] \in A
    <3>1. x \in Seq(ToSet(q) \cap S)
      BY <2>1, KeptSeq
    <3>2. q[n] \in ToSet(q)
      BY SeqLen DEF ToSet
    <3> QED BY <3>1, <3>2 DEF A
  <2> HIDE DEF x
  <2>7. Append(Among(p, S) \o x, q[n]) = Among(p, S) \o Append(x, q[n])
    BY <1>4, <2>6
  <2> QED BY <2>1, <2>4, <2>5, <2>7 DEF m
<1> HIDE DEF U
<1>7. N \in U
  <2>1. 0..N \subseteq U
    BY <1>1, <1>5, <1>6, CountUp
  <2> QED BY <1>1, <2>1
<1> QED BY <1>2, <1>7 DEF U, Among

-----------------------------------------------------------------------------
(* Substring filters: the first place for each part is good enough.        *)

\* The least number of a set.
LEMMA MinIs ==
  ASSUME NEW T, T \subseteq Nat, T # {}
  PROVE  Min(T) \in T /\ \A y \in T : Min(T) <= y
<1>1. \E m \in T : \A n \in T : m <= n
  BY LeastNumber
<1> QED BY <1>1 DEF Min

\* A search for a part gives npos, or the end of the first place from pos on.
LEMMA BehindIs ==
  ASSUME NEW text, IsSeq(text), NEW part, IsSeq(part), NEW pos \in Int
  PROVE  /\ Behind(text, part, pos) \in {-1} \cup Nat
         /\ Behind(text, part, pos) # -1 =>
              /\ pos >= 0 /\ Behind(text, part, pos) - Len(part) >= pos
              /\ At(text, part, Behind(text, part, pos) - Len(part))
         /\ \A c \in Nat : 0 <= pos /\ pos <= c /\ At(text, part, c) =>
              Behind(text, part, pos) # -1 /\ Behind(text, part, pos) <= c + Len(part)
<1> DEFINE places == {p \in pos..Len(text) : At(text, part, p)}
           b == Behind(text, part, pos)
<1>1. Len(text) \in Nat /\ Len(part) \in Nat
  BY SeqLen
<1>2. b = IF pos < 0 \/ places = {} THEN -1 ELSE Min(places) + Len(part)
  BY DEF Behind
<1>3. ASSUME pos >= 0, places # {}
      PROVE  /\ Min(places) \in Nat /\ Min(places) >= pos /\ At(text, part, Min(places))
             /\ \A c \in places : Min(places) <= c
  <2>1. places \subseteq Nat
    BY <1>1, <1>3
  <2>2. Min(places) \in places /\ \A c \in places : Min(places) <= c
    <3> HIDE DEF places
    <3> QED BY <1>3, <2>1, MinIs
  <2> QED BY <1>1, <1>3, <2>1, <2>2
<1>4. ASSUME NEW c \in Nat, 0 <= pos, pos <= c, At(text, part, c) PROVE c \in places
  BY <1>1, <1>4 DEF At
<1> HIDE DEF b, places
<1>5. CASE pos < 0 \/ places = {}
  <2>1. b = -1
    BY <1>2, <1>5
  <2>2. ASSUME NEW c \in Nat, 0 <= pos, pos <= c, At(text, part, c) PROVE FALSE
    BY <1>4, <1>5, <2>2
  <2> QED BY <2>1, <2>2 DEF b
<1>6. CASE pos >= 0 /\ places # {}
  <2> DEFINE m == Min(places)
  <2>1. m \in Nat /\ m >= pos /\ At(text, part, m) /\ \A c \in places : m <= c
    BY <1>3, <1>6
  <2>2. b = m + Len(part)
    BY <1>2, <1>6
  <2> HIDE DEF m
  <2>3. b \in Nat /\ b # -1 /\ b - Len(part) = m
    BY <1>1, <2>1, <2>2
  <2>4. ASSUME NEW c \in Nat, 0 <= pos, pos <= c, At(text, part, c) PROVE b <= c + Len(part)
    <3>1. m <= c
      BY <1>4, <2>1, <2>4
    <3> QED BY <1>1, <2>1, <2>2, <3>1
  <2> QED BY <1>6, <2>1, <2>3, <2>4 DEF b
<1> QED BY <1>5, <1>6

\* A substring node as it is parsed.
SubstringNode(node) ==
  /\ IsSeq(node.initial) /\ IsSeq(node.final) /\ IsSeq(node.any)
  /\ \A i \in 1..Len(node.any) : IsSeq(node.any[i])

\* The places that substringMatches finds one after the other.
Places(text, node, f) ==
  /\ f \in [0..Len(node.any) -> {-1} \cup Nat]
  /\ f[0] = IF At(text, node.initial, 0) THEN Len(node.initial) ELSE -1
  /\ \A k \in 1..Len(node.any) : f[k] = Behind(text, node.any[k], f[k - 1])
EndsBehind(text, node, last) ==
  /\ last # -1
  /\ Len(text) >= last + Len(node.final)
  /\ At(text, node.final, Len(text) - Len(node.final))

\* The places that substringMatches finds, one for each part.
LEMMA SubstringPlaces ==
  ASSUME NEW text, IsSeq(text), NEW node, SubstringNode(node)
  PROVE  \E f : /\ Places(text, node, f)
                /\ substringMatches(text, node) <=> EndsBehind(text, node, f[Len(node.any)])
<1> DEFINE N == Len(node.any)
           X == {-1} \cup Nat
           base == IF At(text, node.initial, 0) THEN Len(node.initial) ELSE -1
           Is(f) == f = [i \in 0..N |-> IF i = 0 THEN base ELSE Behind(text, node.any[i], f[i - 1])]
           w == CHOOSE f : Is(f)
           G == [p \in (1..N) \X X |-> Behind(text, node.any[p[1]], p[2])]
<1>1. substringMatches(text, node) <=> EndsBehind(text, node, w[N])
  BY DEF substringMatches, EndsBehind
<1>2. N \in Nat /\ Len(node.initial) \in Nat
  BY SeqLen DEF SubstringNode
<1>3. base \in X
  BY <1>2
<1>4. \A i \in 1..N : IsSeq(node.any[i])
  BY DEF SubstringNode
<1> HIDE DEF N, base
<1>5. ASSUME NEW i \in 1..N, NEW x \in X PROVE Behind(text, node.any[i], x) \in X
  <2>1. x \in Int /\ IsSeq(node.any[i])
    BY <1>4
  <2> QED BY <2>1, BehindIs
<1> HIDE DEF X
<1>6. G \in [(1..N) \X X -> X]
  BY <1>5
<1>7. \A i \in 1..N, x \in X : G[<<i, x>>] = Behind(text, node.any[i], x)
  OBVIOUS
<1> HIDE DEF G
<1>8. Loops(X, base, G, N)
  BY <1>2, <1>3, <1>6, LoopRuns
<1>9. PICK f \in [0..N -> X] : f[0] = base /\ \A i \in 1..N : f[i] = G[<<i, f[i - 1]>>]
  BY <1>8 DEF Loops
<1>10. ASSUME NEW i \in 1..N PROVE f[i] = Behind(text, node.any[i], f[i - 1])
  <2>1. i - 1 \in 0..N
    BY <1>2
  <2> QED BY <1>7, <1>9, <2>1
<1>11. Is(f)
  <2>1. f = [i \in 0..N |-> f[i]]
    BY <1>9
  <2>2. \A i \in 0..N : i = 0 \/ i \in 1..N
    BY <1>2
  <2> QED BY <1>9, <1>10, <2>1, <2>2
<1>12. Is(w)
  BY <1>11
<1> HIDE DEF w
<1>13. w = [i \in 0..N |-> w[i]] /\ w[0] = base /\ \A i \in 1..N : w[i] = Behind(text, node.any[i], w[i - 1])
  <2>1. 0 \in 0..N /\ \A i \in 1..N : i \in 0..N /\ i # 0
    BY <1>2
  <2>2. \A i \in 0..N : w[i] = IF i = 0 THEN base ELSE Behind(text, node.any[i], w[i - 1])
    BY <1>12
  <2>3. DOMAIN w = 0..N /\ w = [i \in DOMAIN w |-> w[i]]
    BY <1>12
  <2> QED BY <2>1, <2>2, <2>3
<1>14. w \in [0..N -> X]
  <2> DEFINE T == {n \in 0..N : w[n] \in X}
  <2>1. 0 \in T
    BY <1>2, <1>3, <1>13
  <2>2. ASSUME NEW n \in 1..N, n - 1 \in T PROVE n \in T
    <3>1. n \in 0..N /\ w[n - 1] \in X
      BY <1>2, <2>2
    <3>2. w[n] = Behind(text, node.any[n], w[n - 1])
      BY <1>13
    <3> QED BY <1>5, <3>1, <3>2
  <2> HIDE DEF T
  <2>3. 0..N \subseteq T
    BY <1>2, <2>1, <2>2, CountUp
  <2> QED BY <1>13, <2>3 DEF T
<1>15. Places(text, node, w)
  BY <1>13, <1>14 DEF Places, N, X, base
<1> QED BY <1>1, <1>15 DEF N

\* The cut that FitsSubstrings asks for.
Cut(text, node, cut) ==
  LET N == Len(node.any)
      begin(i) == IF i = N + 1 THEN Len(text) - Len(node.final) ELSE cut[i]
      end(i)   == IF i = 0 THEN Len(node.initial) ELSE cut[i] + Len(node.any[i])
  IN  /\ At(text, node.initial, 0)
      /\ begin(N + 1) >= 0
      /\ At(text, node.final, begin(N + 1))
      /\ \A i \in 1..N : At(text, node.any[i], cut[i])
      /\ \A i \in 1..(N + 1) : end(i - 1) <= begin(i)

\* The places found cut the value into the pieces that a filter means.
LEMMA PlacesCut ==
  ASSUME NEW text, IsSeq(text), NEW node, SubstringNode(node), NEW f, Places(text, node, f),
         EndsBehind(text, node, f[Len(node.any)])
  PROVE  FitsSubstrings(text, node)
<1> DEFINE N == Len(node.any)
           L == Len(text)
<1>1. /\ N \in Nat /\ L \in Nat /\ Len(node.initial) \in Nat /\ Len(node.final) \in Nat
      /\ \A i \in 1..N : IsSeq(node.any[i]) /\ Len(node.any[i]) \in Nat
  BY SeqLen DEF SubstringNode
<1>2. /\ \A i \in 0..N : f[i] \in {-1} \cup Nat
      /\ f[0] = IF At(text, node.initial, 0) THEN Len(node.initial) ELSE -1
      /\ \A i \in 1..N : f[i] = Behind(text, node.any[i], f[i - 1])
  BY DEF Places
<1>3. f[N] # -1 /\ L >= f[N] + Len(node.final) /\ At(text, node.final, L - Len(node.final))
  BY DEF EndsBehind
<1> HIDE DEF N, L
<1>4. ASSUME NEW i \in 1..N, f[i] # -1
      PROVE  /\ f[i - 1] \in Nat /\ f[i] \in Nat /\ f[i] - Len(node.any[i]) >= f[i - 1]
             /\ At(text, node.any[i], f[i] - Len(node.any[i]))
  <2>1. i \in 0..N /\ i - 1 \in 0..N
    BY <1>1
  <2>2. f[i - 1] \in Int /\ IsSeq(node.any[i])
    BY <1>1, <1>2, <2>1
  <2>3. f[i] = Behind(text, node.any[i], f[i - 1])
    BY <1>2
  <2>4. /\ f[i - 1] >= 0 /\ f[i] - Len(node.any[i]) >= f[i - 1]
        /\ At(text, node.any[i], f[i] - Len(node.any[i]))
    BY <1>4, <2>2, <2>3, BehindIs
  <2>5. f[i - 1] \in {-1} \cup Nat /\ f[i] \in {-1} \cup Nat
    BY <1>2, <2>1
  <2> QED BY <1>4, <2>4, <2>5
<1>5. \A i \in 0..N : f[i] # -1
  <2> DEFINE T == {j \in 0..N : f[N - j] # -1}
  <2>1. 0 \in T
    BY <1>1, <1>3
  <2>2. ASSUME NEW j \in 1..N, j - 1 \in T PROVE j \in T
    <3> DEFINE i == N - (j - 1)
    <3>1. i \in 1..N /\ i - 1 = N - j /\ j \in 0..N
      BY <1>1
    <3>2. f[i] # -1
      BY <2>2
    <3> HIDE DEF i
    <3>3. f[i - 1] \in Nat
      BY <1>4, <3>1, <3>2
    <3>4. f[N - j] # -1
      BY <3>1, <3>3
    <3> QED BY <3>1, <3>4
  <2> HIDE DEF T
  <2>3. 0..N \subseteq T
    BY <1>1, <2>1, <2>2, CountUp
  <2>4. ASSUME NEW i \in 0..N PROVE f[i] # -1
    <3>1. N - i \in 0..N /\ N - (N - i) = i
      BY <1>1
    <3>2. N - i \in T
      BY <2>3, <3>1
    <3> QED BY <3>1, <3>2 DEF T
  <2> QED BY <2>4
<1> DEFINE cut == [i \in 1..N |-> f[i] - Len(node.any[i])]
<1>6. ASSUME NEW i \in 1..N
      PROVE  /\ f[i - 1] \in Nat /\ cut[i] >= f[i - 1] /\ cut[i] \in Nat
             /\ cut[i] + Len(node.any[i]) = f[i] /\ At(text, node.any[i], cut[i])
  <2>1. f[i] # -1
    BY <1>1, <1>5
  <2>2. /\ f[i - 1] \in Nat /\ f[i] \in Nat /\ f[i] - Len(node.any[i]) >= f[i - 1]
        /\ At(text, node.any[i], f[i] - Len(node.any[i])) /\ Len(node.any[i]) \in Nat
    BY <1>1, <1>4, <2>1
  <2>3. cut[i] = f[i] - Len(node.any[i])
    OBVIOUS
  <2> HIDE DEF cut
  <2> QED BY <2>2, <2>3
<1>7. cut \in [1..N -> 0..L]
  <2>1. ASSUME NEW i \in 1..N PROVE cut[i] \in 0..L
    <3>1. cut[i] \in Nat /\ cut[i] + Len(node.any[i]) <= L
      BY <1>6 DEF At, L
    <3> QED BY <1>1, <3>1
  <2> QED BY <2>1
<1>8. f[0] = Len(node.initial) /\ At(text, node.initial, 0)
  BY <1>1, <1>2, <1>5
<1>9. cut = [i \in 1..N |-> cut[i]]
  OBVIOUS
<1> HIDE DEF cut
<1> DEFINE begin(i) == IF i = N + 1 THEN L - Len(node.final) ELSE cut[i]
           end(i)   == IF i = 0 THEN Len(node.initial) ELSE cut[i] + Len(node.any[i])
<1>10. ASSUME NEW i \in 1..(N + 1) PROVE end(i - 1) <= begin(i)
  <2>1. end(i - 1) = f[i - 1]
    <3>1. CASE i = 1
      BY <1>8, <3>1
    <3>2. CASE i # 1
      <4>1. i - 1 \in 1..N /\ i - 1 # 0
        BY <1>1, <3>2
      <4> QED BY <1>6, <4>1
    <3> QED BY <3>1, <3>2
  <2>2. begin(i) >= f[i - 1]
    <3>1. CASE i = N + 1
      <4>1. i - 1 = N /\ begin(i) = L - Len(node.final) /\ N \in 0..N
        BY <1>1, <3>1
      <4>2. f[N] \in Nat
        BY <1>2, <1>5, <4>1
      <4>3. L - Len(node.final) >= f[N]
        BY <1>1, <1>3, <4>2
      <4> QED BY <4>1, <4>3
    <3>2. CASE i # N + 1
      <4>1. i \in 1..N
        BY <1>1, <3>2
      <4> QED BY <1>6, <3>2, <4>1
    <3> QED BY <3>1, <3>2
  <2>3. f[i - 1] \in Int /\ begin(i) \in Int
    <3>1. i - 1 \in 0..N /\ (i = N + 1 \/ i \in 1..N)
      BY <1>1
    <3>2. f[i - 1] \in Int
      BY <1>2, <3>1
    <3>3. begin(i) \in Int
      <4>1. CASE i = N + 1
        BY <1>1, <4>1
      <4>2. CASE i # N + 1
        BY <1>6, <3>1, <4>2
      <4> QED BY <4>1, <4>2
    <3> QED BY <3>2, <3>3
  <2> HIDE DEF begin, end
  <2> QED BY <2>1, <2>2, <2>3
<1>11. begin(N + 1) = L - Len(node.final) /\ L - Len(node.final) >= 0
  <2>1. N \in 0..N /\ f[N] \in Nat
    BY <1>1, <1>2, <1>3
  <2> QED BY <1>1, <1>3, <2>1
<1>12. /\ At(text, node.initial, 0)
       /\ begin(N + 1) >= 0
       /\ At(text, node.final, begin(N + 1))
       /\ \A i \in 1..N : At(text, node.any[i], cut[i])
       /\ \A i \in 1..(N + 1) : end(i - 1) <= begin(i)
  BY <1>3, <1>6, <1>8, <1>10, <1>11
<1>13. Cut(text, node, cut)
  BY <1>12 DEF Cut, N, L
<1> QED BY <1>7, <1>13 DEF FitsSubstrings, Cut, N, L

\* Where a value can be cut at all, every part is found no later.
LEMMA CutPlaces ==
  ASSUME NEW text, IsSeq(text), NEW node, SubstringNode(node), NEW f, Places(text, node, f),
         FitsSubstrings(text, node)
  PROVE  EndsBehind(text, node, f[Len(node.any)])
<1> DEFINE N == Len(node.any)
           L == Len(text)
<1>1. /\ N \in Nat /\ L \in Nat /\ Len(node.initial) \in Nat /\ Len(node.final) \in Nat
      /\ \A i \in 1..N : IsSeq(node.any[i]) /\ Len(node.any[i]) \in Nat
  BY SeqLen DEF SubstringNode
<1>2. /\ \A i \in 0..N : f[i] \in {-1} \cup Nat
      /\ f[0] = IF At(text, node.initial, 0) THEN Len(node.initial) ELSE -1
      /\ \A i \in 1..N : f[i] = Behind(text, node.any[i], f[i - 1])
  BY DEF Places
<1>3. PICK cut \in [1..N -> 0..L] : Cut(text, node, cut)
  BY DEF FitsSubstrings, Cut
<1> DEFINE begin(i) == IF i = N + 1 THEN L - Len(node.final) ELSE cut[i]
           end(i)   == IF i = 0 THEN Len(node.initial) ELSE cut[i] + Len(node.any[i])
<1>4. /\ At(text, node.initial, 0)
      /\ begin(N + 1) >= 0
      /\ At(text, node.final, begin(N + 1))
      /\ \A i \in 1..N : At(text, node.any[i], cut[i])
      /\ \A i \in 1..(N + 1) : end(i - 1) <= begin(i)
  BY <1>3 DEF Cut
<1> HIDE DEF N, L
<1>5. \A i \in 1..N : cut[i] \in Nat
  BY <1>1, <1>3
<1> DEFINE T == {n \in 0..N : f[n] # -1 /\ f[n] <= end(n)}
<1>6. 0 \in T
  <2>1. f[0] = Len(node.initial) /\ 0 \in 0..N /\ end(0) = Len(node.initial)
    BY <1>1, <1>2, <1>4
  <2> HIDE DEF end
  <2> QED BY <1>1, <2>1
<1>7. ASSUME NEW n \in 1..N, n - 1 \in T PROVE n \in T
  <2>1. n \in 0..N /\ n - 1 \in 0..N /\ n \in 1..(N + 1) /\ n # N + 1 /\ n # 0
    BY <1>1
  <2>2. f[n - 1] # -1 /\ f[n - 1] <= end(n - 1)
    BY <1>7
  <2>3. end(n - 1) <= begin(n)
    BY <1>4, <2>1
  <2>4. begin(n) = cut[n] /\ end(n) = cut[n] + Len(node.any[n])
    BY <2>1
  <2>5. f[n - 1] \in Nat /\ cut[n] \in Nat /\ end(n - 1) \in Int
    <3>1. f[n - 1] \in Nat
      BY <1>2, <2>1, <2>2
    <3>2. end(n - 1) \in Int
      <4>1. CASE n = 1
        BY <1>1, <4>1
      <4>2. CASE n # 1
        <5>1. n - 1 \in 1..N /\ n - 1 # 0
          BY <1>1, <4>2
        <5>2. cut[n - 1] \in Nat /\ Len(node.any[n - 1]) \in Nat
          BY <1>1, <1>5, <5>1
        <5> QED BY <5>1, <5>2
      <4> QED BY <4>1, <4>2
    <3> HIDE DEF end
    <3> QED BY <1>5, <3>1, <3>2
  <2> HIDE DEF begin, end
  <2>6. 0 <= f[n - 1] /\ f[n - 1] <= cut[n]
    BY <2>2, <2>3, <2>4, <2>5
  <2>7. At(text, node.any[n], cut[n]) /\ IsSeq(node.any[n]) /\ f[n - 1] \in Int
    BY <1>1, <1>4, <2>5
  <2>8. f[n] = Behind(text, node.any[n], f[n - 1])
    BY <1>2
  <2>9. f[n] # -1 /\ f[n] <= cut[n] + Len(node.any[n])
    BY <2>5, <2>6, <2>7, <2>8, BehindIs
  <2> QED BY <2>1, <2>4, <2>9
<1>8. N \in T
  <2> HIDE DEF T
  <2>1. 0..N \subseteq T
    BY <1>1, <1>6, <1>7, CountUp
  <2> QED BY <1>1, <2>1
<1>9. f[N] # -1 /\ f[N] <= end(N) /\ N \in 0..N
  BY <1>8
<1>10. end(N) <= L - Len(node.final) /\ end(N) \in Int
  <2>1. N + 1 \in 1..(N + 1) /\ (N + 1) - 1 = N
    BY <1>1
  <2>2. end((N + 1) - 1) <= begin(N + 1)
    BY <1>4, <2>1
  <2>3. end(N) \in Int
    <3>1. CASE N = 0
      BY <1>1, <3>1
    <3>2. CASE N # 0
      <4>1. N \in 1..N
        BY <1>1, <3>2
      <4> QED BY <1>1, <1>5, <3>2, <4>1
    <3> QED BY <3>1, <3>2
  <2>4. begin(N + 1) = L - Len(node.final)
    OBVIOUS
  <2> HIDE DEF begin, end
  <2> QED BY <2>1, <2>2, <2>3, <2>4
<1>11. begin(N + 1) = L - Len(node.final)
  OBVIOUS
<1> HIDE DEF begin, end
<1>12. f[N] \in Nat
  BY <1>2, <1>9
<1>13. L >= f[N] + Len(node.final)
  BY <1>1, <1>9, <1>10, <1>12
<1> QED BY <1>4, <1>9, <1>11, <1>13 DEF EndsBehind, N, L

\* Looking for each part at its first place finds a cut whenever there is one.
LEMMA SubstringExact ==
  ASSUME NEW text, IsSeq(text), NEW node, SubstringNode(node)
  PROVE  substringMatches(text, node) <=> FitsSubstrings(text, node)
<1>1. PICK f : /\ Places(text, node, f)
               /\ substringMatches(text, node) <=> EndsBehind(text, node, f[Len(node.any)])
  BY SubstringPlaces
<1> QED BY <1>1, PlacesCut, CutPlaces

-----------------------------------------------------------------------------
(* Filters: the algorithm finds what a filter means.                       *)

\* One node, by the algorithm with the results f of its children, and by its
\* meaning with the set S of the nodes that the entry satisfies.
NodeTest(attrs, m, n) ==
  LET values(node) == IF node.attribute \in DOMAIN attrs THEN ToSet(attrs[node.attribute])
                                                         ELSE {}
      node == Nodes[n]
      kids == node.children
  IN  CASE node.type = "And"       -> \A i \in DOMAIN kids : m[kids[i]]
        [] node.type = "Or"        -> \E i \in DOMAIN kids : m[kids[i]]
        [] node.type = "Not"       -> Len(kids) = 1 /\ ~m[kids[1]]
        [] node.type = "Present"   -> node.attribute \in DOMAIN attrs
        [] node.type = "Equality"  -> node.value \in values(node)
        [] node.type = "Substring" -> \E v \in values(node) : substringMatches(Text[v], node)
Meets(attrs, S, n) ==
  LET node == Nodes[n]
      has  == node.attribute \in DOMAIN attrs
      kids == ToSet(node.children)
  IN  CASE node.type = "And"       -> kids \subseteq S
        [] node.type = "Or"        -> kids \cap S # {}
        [] node.type = "Not"       -> kids \cap S = {}
        [] node.type = "Present"   -> has
        [] node.type = "Equality"  -> has /\ Contains(attrs[node.attribute], node.value)
        [] node.type = "Substring" -> has /\ \E i \in DOMAIN attrs[node.attribute] :
                                               FitsSubstrings(Text[attrs[node.attribute][i]], node)

NodeTypes == {"And", "Or", "Not", "Present", "Equality", "Substring"}

\* The table of filters, one node at a time.
LEMMA NodesAre ==
  ASSUME NEW n \in DOMAIN Nodes
  PROVE  LET node == Nodes[n]
             kids == node.children
         IN  /\ node.type \in NodeTypes
             /\ Len(kids) \in Nat /\ DOMAIN kids = 1..Len(kids)
             /\ \A i \in DOMAIN kids : kids[i] \in DOMAIN Nodes /\ kids[i] > n
             /\ ToSet(kids) = {kids[i] : i \in DOMAIN kids}
             /\ node.type = "Not" => Len(kids) = 1
             /\ node.type = "Substring" => SubstringNode(node)
<1>1. IsSeq(Nodes[n].children)
  BY NodesAssumption
<1>2. Len(Nodes[n].children) \in Nat /\ DOMAIN Nodes[n].children = 1..Len(Nodes[n].children)
  BY <1>1, SeqLen
<1>3. ASSUME Nodes[n].type = "Substring" PROVE SubstringNode(Nodes[n])
  <2>1. /\ IsSeq(Nodes[n].initial) /\ IsSeq(Nodes[n].final) /\ IsSeq(Nodes[n].any)
        /\ \A i \in DOMAIN Nodes[n].any : IsSeq(Nodes[n].any[i])
    BY <1>3, NodesAssumption
  <2>2. DOMAIN Nodes[n].any = 1..Len(Nodes[n].any)
    BY <2>1, SeqLen
  <2> QED BY <2>1, <2>2 DEF SubstringNode
<1> QED BY <1>2, <1>3, NodesAssumption DEF NodeTypes, ToSet

\* The meaning of a node depends on the nodes behind it only.
LEMMA MeetsBehind ==
  ASSUME NEW attrs, NEW n \in DOMAIN Nodes, NEW S, NEW T,
         \A k \in DOMAIN Nodes : k > n => (k \in S <=> k \in T)
  PROVE  Meets(attrs, S, n) <=> Meets(attrs, T, n)
<1> DEFINE kids == ToSet(Nodes[n].children)
<1>1. \A k \in kids : k \in S <=> k \in T
  BY NodesAre
<1>2. Nodes[n].type \in NodeTypes
  BY NodesAre
<1> HIDE DEF kids
<1>3. (kids \subseteq S <=> kids \subseteq T) /\ (kids \cap S = {} <=> kids \cap T = {})
  BY <1>1
<1> QED BY <1>2, <1>3 DEF Meets, NodeTypes, kids

\* Every test on an entry gives TRUE or FALSE.
LEMMA TestsAreBoolean ==
  ASSUME NEW attrs, NEW n \in DOMAIN Nodes, NEW S
  PROVE  NodeTest(attrs, S, n) \in BOOLEAN /\ Meets(attrs, S, n) \in BOOLEAN
<1>1. Nodes[n].type \in NodeTypes
  BY NodesAre
<1>2. CASE Nodes[n].type = "And"
  BY <1>2 DEF NodeTest, Meets
<1>3. CASE Nodes[n].type = "Or"
  BY <1>3 DEF NodeTest, Meets
<1>4. CASE Nodes[n].type = "Not"
  BY <1>4 DEF NodeTest, Meets
<1>5. CASE Nodes[n].type = "Present"
  BY <1>5 DEF NodeTest, Meets
<1>6. CASE Nodes[n].type = "Equality"
  BY <1>6 DEF NodeTest, Meets
<1>7. CASE Nodes[n].type = "Substring"
  BY <1>7 DEF NodeTest, Meets
<1> QED BY <1>1, <1>2, <1>3, <1>4, <1>5, <1>6, <1>7 DEF NodeTypes

\* The algorithm tests what the node means.
LEMMA TestMeets ==
  ASSUME NEW attrs, Legible(attrs), NEW n \in DOMAIN Nodes, NEW S, NEW f,
         \A k \in DOMAIN Nodes : f[k] = (k \in S)
  PROVE  NodeTest(attrs, f, n) = Meets(attrs, S, n)
<1> DEFINE node == Nodes[n]
           kids == node.children
           a == node.attribute
<1>1. /\ node.type \in NodeTypes
      /\ Len(kids) \in Nat /\ DOMAIN kids = 1..Len(kids)
      /\ \A i \in DOMAIN kids : kids[i] \in DOMAIN Nodes
      /\ node.type = "Not" => Len(kids) = 1
      /\ node.type = "Substring" => SubstringNode(node)
  BY NodesAre
<1>2. \A i \in DOMAIN kids : f[kids[i]] = (kids[i] \in S)
  BY <1>1
<1>3. CASE node.type = "And"
  <2>1. NodeTest(attrs, f, n) = \A i \in DOMAIN kids : f[kids[i]]
    BY <1>3 DEF NodeTest
  <2>2. Meets(attrs, S, n) = (ToSet(kids) \subseteq S)
    BY <1>3 DEF Meets
  <2> QED BY <1>2, <2>1, <2>2 DEF ToSet
<1>4. CASE node.type = "Or"
  <2>1. NodeTest(attrs, f, n) = \E i \in DOMAIN kids : f[kids[i]]
    BY <1>4 DEF NodeTest
  <2>2. Meets(attrs, S, n) = (ToSet(kids) \cap S # {})
    BY <1>4 DEF Meets
  <2>3. (\E i \in DOMAIN kids : f[kids[i]]) <=> \E i \in DOMAIN kids : kids[i] \in S
    BY <1>2
  <2>4. (ToSet(kids) \cap S # {}) <=> \E i \in DOMAIN kids : kids[i] \in S
    BY DEF ToSet
  <2> HIDE DEF kids
  <2> QED BY <2>1, <2>2, <2>3, <2>4
<1>5. CASE node.type = "Not"
  <2>1. NodeTest(attrs, f, n) = (Len(kids) = 1 /\ ~f[kids[1]])
    BY <1>5 DEF NodeTest
  <2>2. Meets(attrs, S, n) = (ToSet(kids) \cap S = {})
    BY <1>5 DEF Meets
  <2>3. Len(kids) = 1 /\ DOMAIN kids = {1}
    BY <1>1, <1>5
  <2>4. ToSet(kids) = {kids[1]}
    BY <2>3 DEF ToSet
  <2> QED BY <1>2, <2>1, <2>2, <2>3, <2>4
<1>6. CASE node.type = "Present"
  BY <1>6 DEF NodeTest, Meets
<1>7. CASE node.type = "Equality"
  <2>1. NodeTest(attrs, f, n) = (node.value \in IF a \in DOMAIN attrs THEN ToSet(attrs[a]) ELSE {})
    BY <1>7 DEF NodeTest
  <2>2. Meets(attrs, S, n) = (a \in DOMAIN attrs /\ Contains(attrs[a], node.value))
    BY <1>7 DEF Meets
  <2>3. ASSUME a \in DOMAIN attrs
        PROVE  node.value \in ToSet(attrs[a]) <=> Contains(attrs[a], node.value)
    <3>1. IsSeq(attrs[a])
      BY <2>3 DEF Legible
    <3>2. DOMAIN attrs[a] = 1..Len(attrs[a])
      BY <3>1, SeqLen
    <3> HIDE DEF a, node
    <3> QED BY <3>2 DEF ToSet, Contains
  <2> HIDE DEF a, node
  <2> QED BY <2>1, <2>2, <2>3
<1>8. CASE node.type = "Substring"
  <2>1. NodeTest(attrs, f, n) = \E v \in IF a \in DOMAIN attrs THEN ToSet(attrs[a]) ELSE {} :
                                   substringMatches(Text[v], node)
    BY <1>8 DEF NodeTest
  <2>2. Meets(attrs, S, n) = (a \in DOMAIN attrs /\ \E i \in DOMAIN attrs[a] :
                                                       FitsSubstrings(Text[attrs[a][i]], node))
    BY <1>8 DEF Meets
  <2>3. ASSUME a \in DOMAIN attrs, NEW v \in ToSet(attrs[a])
        PROVE  substringMatches(Text[v], node) <=> FitsSubstrings(Text[v], node)
    <3>1. IsSeq(Text[v]) /\ SubstringNode(node)
      BY <1>1, <1>8, <2>3 DEF Legible
    <3> HIDE DEF node
    <3> QED BY <3>1, SubstringExact
  <2> HIDE DEF a, node
  <2> QED BY <2>1, <2>2, <2>3 DEF ToSet
<1> QED BY <1>1, <1>3, <1>4, <1>5, <1>6, <1>7, <1>8 DEF NodeTypes

\* A set that agrees with itself on the nodes from n on, and on all of them.
Agrees(attrs, S, n) == \A k \in n..Len(Nodes) : k \in S <=> Meets(attrs, S, k)

\* The filters are numbered from 1.
LEMMA Numbered == Len(Nodes) \in Nat /\ DOMAIN Nodes = 1..Len(Nodes)
  BY NodesAssumption, SeqLen

\* The equations of Satisfied have a solution, built from the last node up.
LEMMA SomeAgrees ==
  ASSUME NEW attrs
  PROVE  \E S \in SUBSET DOMAIN Nodes : Agrees(attrs, S, 1)
<1> DEFINE N == Len(Nodes)
           Ex == {j \in 0..N : \E S \in SUBSET DOMAIN Nodes : Agrees(attrs, S, (N - j) + 1)}
<1>1. N \in Nat /\ DOMAIN Nodes = 1..N
  BY Numbered
<1>2. 0 \in Ex
  <2>1. Agrees(attrs, {}, (N - 0) + 1) /\ {} \in SUBSET DOMAIN Nodes /\ 0 \in 0..N
    BY <1>1 DEF Agrees
  <2> QED BY <2>1
<1>3. ASSUME NEW j \in 1..N, j - 1 \in Ex PROVE j \in Ex
  <2> DEFINE n == (N - j) + 1
  <2>1. n \in 1..N /\ (N - (j - 1)) + 1 = n + 1 /\ j \in 0..N
    BY <1>1
  <2>2. PICK S \in SUBSET DOMAIN Nodes : Agrees(attrs, S, n + 1)
    BY <1>3, <2>1
  <2> HIDE DEF n
  <2> DEFINE T == {k \in DOMAIN Nodes : IF k = n THEN Meets(attrs, S, n) ELSE k \in S}
  <2>3. \A k \in DOMAIN Nodes : k # n => (k \in S <=> k \in T)
    OBVIOUS
  <2>4. n \in T <=> Meets(attrs, S, n)
    BY <1>1, <2>1
  <2>5. T \in SUBSET DOMAIN Nodes
    OBVIOUS
  <2> HIDE DEF T
  <2>6. ASSUME NEW k \in n..N PROVE k \in T <=> Meets(attrs, T, k)
    <3>1. k \in DOMAIN Nodes /\ k \in 1..N
      BY <1>1, <2>1
    <3>2. \A i \in DOMAIN Nodes : i > k => i # n
      BY <1>1, <2>1
    <3>3. Meets(attrs, S, k) <=> Meets(attrs, T, k)
      BY <2>3, <3>1, <3>2, MeetsBehind
    <3>4. CASE k = n
      BY <2>4, <3>3, <3>4
    <3>5. CASE k # n
      <4>1. k \in (n + 1)..N
        BY <1>1, <2>1, <3>5
      <4>2. k \in S <=> Meets(attrs, S, k)
        BY <2>2, <4>1 DEF Agrees
      <4> QED BY <2>3, <3>1, <3>3, <3>5, <4>2
    <3> QED BY <3>4, <3>5
  <2>7. Agrees(attrs, T, n)
    BY <2>6 DEF Agrees
  <2> QED BY <2>1, <2>5, <2>7 DEF n
<1>4. N \in Ex
  <2> HIDE DEF Ex
  <2>1. 0..N \subseteq Ex
    BY <1>1, <1>2, <1>3, CountUp
  <2> QED BY <1>1, <2>1
<1>5. (N - N) + 1 = 1
  BY <1>1
<1> QED BY <1>4, <1>5

\* They have only one.
LEMMA OneAgrees ==
  ASSUME NEW attrs, NEW S, Agrees(attrs, S, 1), NEW T, Agrees(attrs, T, 1)
  PROVE  \A n \in DOMAIN Nodes : n \in S <=> n \in T
<1> DEFINE N == Len(Nodes)
           Same == {j \in 0..N : \A k \in 1..N : k > N - j => (k \in S <=> k \in T)}
<1>1. N \in Nat /\ DOMAIN Nodes = 1..N
  BY Numbered
<1>2. 0 \in Same
  BY <1>1
<1>3. ASSUME NEW j \in 1..N, j - 1 \in Same PROVE j \in Same
  <2> DEFINE n == (N - j) + 1
  <2>1. n \in 1..N /\ N - (j - 1) = n /\ N - j = n - 1 /\ j \in 0..N
    BY <1>1
  <2>2. \A k \in 1..N : k > n => (k \in S <=> k \in T)
    BY <1>3, <2>1
  <2> HIDE DEF n
  <2>3. Meets(attrs, S, n) <=> Meets(attrs, T, n)
    BY <1>1, <2>1, <2>2, MeetsBehind
  <2>4. n \in S <=> n \in T
    BY <2>1, <2>3 DEF Agrees
  <2>5. \A k \in 1..N : k > n - 1 => k = n \/ k > n
    BY <1>1, <2>1
  <2>6. \A k \in 1..N : k > N - j => (k \in S <=> k \in T)
    BY <2>1, <2>2, <2>4, <2>5
  <2> QED BY <2>1, <2>6
<1>4. N \in Same
  <2> HIDE DEF Same
  <2>1. 0..N \subseteq Same
    BY <1>1, <1>2, <1>3, CountUp
  <2> QED BY <1>1, <2>1
<1>5. \A k \in 1..N : k > N - N
  BY <1>1
<1> QED BY <1>1, <1>4, <1>5

\* Satisfied is the solution of its equations.
LEMMA SatisfiedMeets ==
  ASSUME NEW attrs, NEW n \in DOMAIN Nodes
  PROVE  n \in Satisfied(attrs) <=> Meets(attrs, Satisfied(attrs), n)
<1>1. PICK S \in SUBSET DOMAIN Nodes : Agrees(attrs, S, 1)
  BY SomeAgrees
<1>2. \A k \in DOMAIN Nodes : k \in S <=> Meets(attrs, S, k)
  BY <1>1, Numbered DEF Agrees
<1>3. Satisfied(attrs) = CHOOSE Z \in SUBSET DOMAIN Nodes :
                           \A k \in DOMAIN Nodes : k \in Z <=> Meets(attrs, Z, k)
  BY DEF Satisfied, Meets
<1> QED BY <1>2, <1>3

\* nodeMatches finds what the filter means.
LEMMA FilterExact ==
  ASSUME NEW attrs, Legible(attrs), NEW n \in DOMAIN Nodes
  PROVE  nodeMatches(attrs)[n] <=> n \in Satisfied(attrs)
<1> DEFINE Is(f) == f = [k \in DOMAIN Nodes |-> NodeTest(attrs, f, k)]
           m == CHOOSE f : Is(f)
<1>1. nodeMatches(attrs) = m
  BY DEF nodeMatches, NodeTest
<1>2. PICK S \in SUBSET DOMAIN Nodes : Agrees(attrs, S, 1)
  BY SomeAgrees
<1>3. \A k \in DOMAIN Nodes : k \in S <=> Meets(attrs, S, k)
  BY <1>2, Numbered DEF Agrees
<1>4. Is(m)
  <2> DEFINE f == [k \in DOMAIN Nodes |-> k \in S]
  <2>1. \A k \in DOMAIN Nodes : f[k] = (k \in S)
    OBVIOUS
  <2>2. f = [k \in DOMAIN Nodes |-> f[k]]
    OBVIOUS
  <2> HIDE DEF f
  <2>3. ASSUME NEW k \in DOMAIN Nodes PROVE f[k] = NodeTest(attrs, f, k)
    <3>1. NodeTest(attrs, f, k) = Meets(attrs, S, k)
      BY <2>1, TestMeets
    <3>2. Meets(attrs, S, k) \in BOOLEAN
      BY TestsAreBoolean
    <3> QED BY <1>3, <2>1, <3>1, <3>2
  <2>4. Is(f)
    BY <2>2, <2>3
  <2> QED BY <2>4
<1> HIDE DEF m
<1>5. \A k \in DOMAIN Nodes : m[k] = NodeTest(attrs, m, k)
  BY <1>4
<1>6. Agrees(attrs, Satisfied(attrs), 1)
  BY SatisfiedMeets, Numbered DEF Agrees
<1> DEFINE M == {k \in DOMAIN Nodes : m[k]}
<1>7. \A k \in DOMAIN Nodes : m[k] = (k \in M)
  <2>1. ASSUME NEW k \in DOMAIN Nodes PROVE m[k] \in BOOLEAN
    <3>1. NodeTest(attrs, m, k) \in BOOLEAN
      BY TestsAreBoolean
    <3> QED BY <1>5, <3>1
  <2> QED BY <2>1
<1> HIDE DEF M
<1>8. Agrees(attrs, M, 1)
  <2>1. ASSUME NEW k \in DOMAIN Nodes PROVE k \in M <=> Meets(attrs, M, k)
    BY <1>5, <1>7, TestMeets
  <2> QED BY <2>1, Numbered DEF Agrees
<1>9. n \in M <=> n \in Satisfied(attrs)
  BY <1>6, <1>8, OneAgrees
<1> QED BY <1>1, <1>7, <1>9

-----------------------------------------------------------------------------
(* The search of the backend.                                              *)

\* A list with as many members as another, and the names of a list.
LEMMA SameLength ==
  ASSUME NEW q, IsSeq(q), NEW p, DOMAIN p = DOMAIN q, p = [i \in DOMAIN p |-> p[i]]
  PROVE  IsSeq(p) /\ Len(p) = Len(q)
<1> DEFINE N == Len(q)
           A == ToSet(p)
<1>1. N \in Nat /\ DOMAIN q = 1..N
  BY SeqLen
<1>2. p \in [1..N -> A]
  BY <1>1 DEF ToSet
<1> HIDE DEF N, A
<1>3. p \in Seq(A)
  BY <1>1, <1>2, SeqDef
<1>4. Len(p) \in Nat /\ DOMAIN p = 1..Len(p)
  BY <1>3, LenProperties
<1>5. Len(p) = N
  BY <1>1, <1>4
<1> QED BY <1>3, <1>5 DEF IsSeq, N, A

\* The names of entries, one by one.
LEMMA DnsIs ==
  ASSUME NEW q, IsSeq(q)
  PROVE  /\ IsSeq(Dns(q)) /\ Len(Dns(q)) = Len(q)
         /\ \A i \in 1..Len(q) : Dns(q)[i] = q[i].dn
<1> DEFINE d == Dns(q)
<1>1. DOMAIN d = DOMAIN q /\ d = [i \in DOMAIN d |-> d[i]] /\ \A i \in DOMAIN q : d[i] = q[i].dn
  BY DEF Dns
<1>2. DOMAIN q = 1..Len(q)
  BY SeqLen
<1> HIDE DEF d
<1>3. IsSeq(d) /\ Len(d) = Len(q)
  BY <1>1, SameLength
<1> QED BY <1>1, <1>2, <1>3 DEF d

\* Two lists with the same members at the same places.
LEMMA SameList ==
  ASSUME NEW p, IsSeq(p), NEW q, IsSeq(q), Len(p) = Len(q), \A i \in 1..Len(p) : p[i] = q[i]
  PROVE  p = q
<1> DEFINE A == ToSet(p) \cup ToSet(q)
<1>1. p \in Seq(A) /\ q \in Seq(A)
  BY DEF IsSeq
<1> HIDE DEF A
<1> QED BY <1>1

\* One call of backend.search finds exactly what the filter means, in the
\* order of the map (MemoryBackend::search, protocol/filter.cpp).
THEOREM SearchFindsMeant == BackendSearchExact
<1> SUFFICES ASSUME NEW t \in Trees, NEW r \in Requests, r.op = "search", r.filter # 0
             PROVE  /\ IsSeq(backendSearch(t, r))
                    /\ Dns(backendSearch(t, r)) = Among(MapOrder, Meant(t, r))
                    /\ \A e \in ToSet(backendSearch(t, r)) : e.dn \in Meant(t, r) /\ e.attrs = t[e.dn]
  BY DEF BackendSearchExact
<1> DEFINE q == backendSearch(t, r)
           H == {d \in DOMAIN t : inScope(r, d) /\ nodeMatches(t[d])[r.filter]}
           hits == Among(MapOrder, Meant(t, r))
<1>1. H = Meant(t, r)
  <2>1. r.filter \in DOMAIN Nodes
    BY RequestsAssumption
  <2>2. ASSUME NEW d \in DOMAIN t
        PROVE  nodeMatches(t[d])[r.filter] <=> r.filter \in Satisfied(t[d])
    <3>1. Legible(t[d])
      BY TreesAssumption
    <3> QED BY <2>1, <3>1, FilterExact
  <2> QED BY <2>2 DEF Meant
<1>2. q = [i \in DOMAIN hits |-> Entry(hits[i], t[hits[i]])]
  BY <1>1 DEF backendSearch
<1>3. IsSeq(MapOrder)
  BY TreesAssumption
<1>4. IsSeq(hits) /\ ToSet(hits) \subseteq Meant(t, r)
  BY <1>3, AmongIs
<1> HIDE DEF q, hits
<1>5. /\ DOMAIN q = DOMAIN hits /\ q = [i \in DOMAIN q |-> q[i]]
      /\ \A i \in DOMAIN hits : q[i].dn = hits[i] /\ q[i].attrs = t[hits[i]]
  BY <1>2 DEF Entry
<1>6. IsSeq(q) /\ Len(q) = Len(hits)
  BY <1>4, <1>5, SameLength
<1>7. Dns(q) = hits
  <2>1. IsSeq(Dns(q)) /\ Len(Dns(q)) = Len(q) /\ \A i \in 1..Len(q) : Dns(q)[i] = q[i].dn
    BY <1>6, DnsIs
  <2>2. DOMAIN hits = 1..Len(hits)
    BY <1>4, SeqLen
  <2>3. \A i \in 1..Len(Dns(q)) : Dns(q)[i] = hits[i]
    BY <1>5, <1>6, <2>1, <2>2
  <2> DEFINE p == Dns(q)
  <2>4. IsSeq(p) /\ Len(p) = Len(hits) /\ \A i \in 1..Len(p) : p[i] = hits[i]
    BY <1>6, <2>1, <2>3
  <2> HIDE DEF p
  <2>5. p = hits
    BY <1>4, <2>4, SameList
  <2> QED BY <2>5 DEF p
<1>8. ASSUME NEW e \in ToSet(q) PROVE e.dn \in Meant(t, r) /\ e.attrs = t[e.dn]
  <2>1. PICK i \in DOMAIN q : e = q[i]
    BY DEF ToSet
  <2>2. hits[i] \in ToSet(hits)
    BY <1>5, <2>1 DEF ToSet
  <2> QED BY <1>4, <1>5, <2>1, <2>2
<1> QED BY <1>6, <1>7, <1>8 DEF q, hits

-----------------------------------------------------------------------------
(* The inductive invariant of a request among other sessions.              *)

Quiet == {"idle", "search", "answered", "finished"}
Checked == {"base", "entry", "compare"}
Compared == {"CompareTrue", "CompareFalse", "NoSuchAttribute"}

Types ==
  /\ tree \in Trees /\ seen \subseteq Trees /\ changes \in 0..MaxChanges
  /\ pc \in Quiet \cup Checked \cup {"find", "page", "loop", "value"}
  /\ cookie \in {BadCookie} \cup Nat
  /\ pc \in Quiet => check = NoCheck /\ matches = << >> /\ visible = << >>
  /\ check.rule \in 0..(Len(Rules) + 1)

Proper(q) == IsSeq(q) /\ \A e \in ToSet(q) : e.dn \in Names \cup {RootDse}
Lists == Proper(matches) /\ Proper(visible) /\ Proper(sent) /\ Proper(received)

\* The steps of the request in hand.
Requested ==
  /\ pc # "idle" => req \in Requests /\ tree \in seen
  /\ pc \in {"search", "base", "find", "entry", "page", "loop"} => req.op = "search"
  /\ pc \in {"base", "find", "entry", "page", "loop"} => req.filter # 0
  /\ pc = "answered" /\ cookie # 0 => req.op = "search"
  /\ pc = "loop" => cookie \in Nat

\* The access check belongs to the step, and its group was read a moment ago.
GroupRead(r) ==
  /\ r.who.kind = "group"
  /\ \E t \in seen : found(t, r.who.dn) /\ check.group = <<t[r.who.dn]>>
Checks ==
  /\ DOMAIN check = {"dn", "rule", "group"}
  /\ check.group # << >> => /\ pc \in Checked /\ check.rule \in DOMAIN Rules
                            /\ GroupRead(Rules[check.rule])
  /\ pc = "entry" => matches # << >> /\ check.dn = Head(matches).dn
  /\ pc = "compare" /\ check.rule > 0 => check.dn = req.dn /\ req.dn # RootDse
  /\ pc \in {"find", "page", "loop", "value"} => check = NoCheck

\* An entry as it was found, one that could be read, and one as it is sent.
FoundOk(e) ==
  e.dn # RootDse =>
    \E t \in seen : e.dn \in DOMAIN t /\ e.attrs = t[e.dn] /\ req.filter \in Satisfied(t[e.dn])
ReadOk(dn) == dn # RootDse => CouldRead(dn)
SentOk(e) ==
  /\ e.dn # RootDse =>
       /\ CouldRead(e.dn)
       /\ \E t \in seen : /\ e.dn \in DOMAIN t /\ req.filter \in Satisfied(t[e.dn])
                          /\ \A a \in DOMAIN e.attrs :
                               a \in DOMAIN t[e.dn] /\ e.attrs[a] \in {<< >>, t[e.dn][a]}
  /\ "userPassword" \in DOMAIN e.attrs => who = RootDn

Reads ==
  /\ \A e \in ToSet(matches) : FoundOk(e)
  /\ \A e \in ToSet(visible) : FoundOk(e) /\ ReadOk(e.dn)
  /\ \A e \in ToSet(sent) : SentOk(e)
  /\ pc = "value" \/ result \in Compared => CouldRead(req.dn)

IInv == Types /\ Lists /\ Requested /\ Checks /\ Reads

\* What was true of the moments of this request stays true.
LEMMA StaysRead ==
  ASSUME UNCHANGED <<who, req>>, seen \subseteq seen'
  PROVE  /\ \A d : CouldRead(d) => CouldRead(d)'
         /\ \A e : FoundOk(e) => FoundOk(e)'
         /\ \A e : SentOk(e) => SentOk(e)'
<1>1. \A d : CouldRead(d) => CouldRead(d)'
  BY DEF CouldRead
<1>2. \A e : FoundOk(e) => FoundOk(e)'
  BY DEF FoundOk
<1>3. \A e : SentOk(e) => SentOk(e)'
  BY <1>1 DEF SentOk
<1> QED BY <1>1, <1>2, <1>3

\* The rules are numbered from 1.
LEMMA RulesAre == Len(Rules) \in Nat /\ DOMAIN Rules = 1..Len(Rules)
  BY RulesAssumption, SeqLen

Frame == UNCHANGED <<tree, who, req, sent, received, seen, changes>>

\* The request is answered.
LEMMA AnswerKeeps ==
  ASSUME IInv, Frame, pc # "idle", NEW rc, Answer(rc), rc \in Compared => CouldRead(req.dn)
  PROVE  IInv'
<1>1. /\ result' = rc /\ pc' = "answered" /\ cookie' = 0
      /\ check' = NoCheck /\ matches' = << >> /\ visible' = << >>
      /\ UNCHANGED <<tree, who, req, sent, received, seen, changes>>
  BY DEF Answer, Frame
<1>2. NoCheck.rule = 0 /\ NoCheck.group = << >> /\ DOMAIN NoCheck = {"dn", "rule", "group"}
  BY DEF NoCheck
<1>3. 0 \in 0..(Len(Rules) + 1) /\ 0 \in Nat
  BY RulesAre
<1>4. Types'
  BY <1>1, <1>2, <1>3 DEF IInv, Types, Quiet
<1>5. Lists'
  BY <1>1, EmptyIs DEF IInv, Lists, Proper
<1>6. Requested'
  BY <1>1 DEF IInv, Requested
<1>7. Checks'
  BY <1>1, <1>2 DEF Checks
<1>8. Reads'
  BY <1>1, EmptyIs, StaysRead DEF IInv, Reads
<1> QED BY <1>4, <1>5, <1>6, <1>7, <1>8 DEF IInv

\* The check of dn begins.
LEMMA CheckingFields ==
  ASSUME NEW dn, NEW next, Checking(dn, next)
  PROVE  /\ DOMAIN check' = {"dn", "rule", "group"} /\ check'.dn = dn /\ check'.rule = 1
         /\ check'.group = << >> /\ pc' = next
  BY DEF Checking, NoCheck

\* The next of the matches, or the page.
NextMatch ==
  IF matches' = << >> THEN pc' = "page" /\ check' = NoCheck
  ELSE Checking(Head(matches').dn, "entry")

\* The next entry of the snapshot is checked, or there is none left.
LEMMA MatchesKeeps ==
  ASSUME IInv, Frame, UNCHANGED <<result, cookie>>, NextMatch,
         pc \in {"find", "entry"},
         Proper(matches)', Proper(visible)',
         \A e \in ToSet(matches') : FoundOk(e),
         \A e \in ToSet(visible') : FoundOk(e) /\ ReadOk(e.dn)
  PROVE  IInv'
<1>1. UNCHANGED <<tree, who, req, sent, received, seen, changes, result, cookie>>
  BY DEF Frame
<1>2. NoCheck.rule = 0 /\ NoCheck.group = << >> /\ DOMAIN NoCheck = {"dn", "rule", "group"}
  BY DEF NoCheck
<1>3. /\ check'.rule \in {0, 1} /\ check'.group = << >>
      /\ DOMAIN check' = {"dn", "rule", "group"}
      /\ \/ pc' = "page" /\ check' = NoCheck
         \/ pc' = "entry" /\ matches' # << >> /\ check'.dn = Head(matches').dn
  BY <1>2, CheckingFields DEF NextMatch
<1>4. 0 \in 0..(Len(Rules) + 1) /\ 1 \in 0..(Len(Rules) + 1)
  BY RulesAre
<1>5. Types'
  BY <1>1, <1>3, <1>4 DEF IInv, Types, Quiet, Checked
<1>6. Lists'
  BY <1>1 DEF IInv, Lists, Proper
<1>7. Requested'
  BY <1>1, <1>3 DEF IInv, Requested
<1>8. Checks'
  BY <1>3 DEF Checks
<1>9. Reads'
  <2>1. \A d : ReadOk(d) => ReadOk(d)'
    BY <1>1, StaysRead DEF ReadOk
  <2>2. result' \in Compared => CouldRead(req.dn)'
    BY <1>1, StaysRead DEF IInv, Reads
  <2> QED BY <1>1, <1>3, <2>1, <2>2, StaysRead DEF IInv, Reads
<1> QED BY <1>5, <1>6, <1>7, <1>8, <1>9 DEF IInv

\* Access to check.dn is granted.
LEMMA GrantedKeeps ==
  ASSUME IInv, Frame, pc \in Checked, check.rule > 0, Granted, ReadOk(check.dn)
  PROVE  IInv'
<1>1. CASE pc = "entry"
  <2>1. /\ visible' = Append(visible, Head(matches)) /\ matches' = Tail(matches)
        /\ UNCHANGED <<result, cookie>>
        /\ IF Tail(matches) = << >> THEN pc' = "page" /\ check' = NoCheck
           ELSE Checking(matches[2].dn, "entry")
    BY <1>1 DEF Granted
  <2>2. Proper(matches) /\ Proper(visible) /\ matches # << >> /\ check.dn = Head(matches).dn
    BY <1>1 DEF IInv, Lists, Checks
  <2>3. /\ IsSeq(matches') /\ ToSet(matches') \subseteq ToSet(matches)
        /\ Head(matches) \in ToSet(matches)
        /\ matches' # << >> => Head(matches') = matches[2]
    BY <2>1, <2>2, TailIs DEF Proper
  <2>4. IsSeq(visible') /\ ToSet(visible') \subseteq ToSet(visible) \cup {Head(matches)}
    BY <2>1, <2>2, AppendIs DEF Proper
  <2>5. NextMatch
    BY <2>1, <2>3 DEF NextMatch
  <2>6. Proper(matches)' /\ Proper(visible)'
    BY <2>2, <2>3, <2>4 DEF Proper
  <2>7. \A e \in ToSet(matches') : FoundOk(e)
    BY <2>3 DEF IInv, Reads
  <2>8. \A e \in ToSet(visible') : FoundOk(e) /\ ReadOk(e.dn)
    BY <2>2, <2>3, <2>4 DEF IInv, Reads
  <2> QED BY <1>1, <2>1, <2>5, <2>6, <2>7, <2>8, MatchesKeeps
<1>2. CASE pc # "entry"
  <2>1. /\ pc' = (IF pc = "base" THEN "find" ELSE "value")
        /\ check' = NoCheck /\ UNCHANGED <<result, cookie, matches, visible>>
        /\ UNCHANGED <<tree, who, req, sent, received, seen, changes>>
    BY <1>2 DEF Granted, Frame
  <2>2. NoCheck.rule = 0 /\ NoCheck.group = << >> /\ DOMAIN NoCheck = {"dn", "rule", "group"}
    BY DEF NoCheck
  <2>3. 0 \in 0..(Len(Rules) + 1)
    BY RulesAre
  <2>4. Types'
    BY <1>2, <2>1, <2>2, <2>3 DEF IInv, Types, Quiet, Checked
  <2>5. Lists'
    BY <2>1 DEF IInv, Lists, Proper
  <2>6. Requested'
    BY <1>2, <2>1 DEF IInv, Requested, Checked
  <2>7. Checks'
    BY <1>2, <2>1, <2>2 DEF Checks, Checked
  <2>8. Reads'
    <3>1. pc # "base" => CouldRead(req.dn)
      BY <1>2 DEF IInv, Checks, Checked, ReadOk
    <3>2. pc' = "value" \/ result' \in Compared => CouldRead(req.dn)
      BY <2>1, <3>1 DEF IInv, Reads
    <3>3. \A d : ReadOk(d) => ReadOk(d)'
      BY <2>1, StaysRead DEF ReadOk
    <3>4. CouldRead(req.dn) => CouldRead(req.dn)'
      BY <2>1, StaysRead
    <3> QED BY <2>1, <3>2, <3>3, <3>4, StaysRead DEF IInv, Reads
  <2> QED BY <2>4, <2>5, <2>6, <2>7, <2>8 DEF IInv
<1> QED BY <1>1, <1>2

\* Access is denied.
LEMMA DeniedKeeps ==
  ASSUME IInv, Frame, pc \in Checked, Denied
  PROVE  IInv'
<1>1. CASE pc = "entry"
  <2>1. /\ matches' = Tail(matches) /\ UNCHANGED <<result, cookie, visible>>
        /\ IF Tail(matches) = << >> THEN pc' = "page" /\ check' = NoCheck
           ELSE Checking(matches[2].dn, "entry")
    BY <1>1 DEF Denied
  <2>2. Proper(matches) /\ Proper(visible) /\ matches # << >>
    BY <1>1 DEF IInv, Lists, Checks
  <2>3. /\ IsSeq(matches') /\ ToSet(matches') \subseteq ToSet(matches)
        /\ matches' # << >> => Head(matches') = matches[2]
    BY <2>1, <2>2, TailIs DEF Proper
  <2>5. NextMatch
    BY <2>1, <2>3 DEF NextMatch
  <2>6. Proper(matches)' /\ Proper(visible)'
    BY <2>1, <2>2, <2>3 DEF Proper
  <2>7. \A e \in ToSet(matches') : FoundOk(e)
    BY <2>3 DEF IInv, Reads
  <2>8. \A e \in ToSet(visible') : FoundOk(e) /\ ReadOk(e.dn)
    BY <2>1 DEF IInv, Reads
  <2> QED BY <1>1, <2>1, <2>5, <2>6, <2>7, <2>8, MatchesKeeps
<1>2. CASE pc # "entry"
  <2>1. Answer("InsufficientAccessRights") /\ pc # "idle"
    BY <1>2 DEF Denied, Checked
  <2> QED BY <2>1, AnswerKeeps DEF Compared
<1> QED BY <1>1, <1>2

\* The check goes on, with another rule or with the group of this one.
LEMMA CheckGoesOn ==
  ASSUME IInv, Frame, pc \in Checked, check.rule > 0,
         UNCHANGED <<pc, result, cookie, matches, visible>>,
         DOMAIN check' = {"dn", "rule", "group"}, check'.dn = check.dn,
         check'.rule \in 1..(Len(Rules) + 1),
         \/ check'.group = << >>
         \/ check'.rule \in DOMAIN Rules /\ GroupRead(Rules[check.rule])'
  PROVE  IInv'
<1>1. /\ UNCHANGED <<tree, who, req, sent, received, seen, changes>>
      /\ UNCHANGED <<pc, result, cookie, matches, visible>>
  BY DEF Frame
<1>2. Types'
  <2>1. check'.rule \in 0..(Len(Rules) + 1)
    BY RulesAre
  <2> QED BY <1>1, <2>1 DEF IInv, Types, Quiet, Checked
<1>3. Lists' /\ Requested'
  BY <1>1 DEF IInv, Lists, Proper, Requested
<1>4. Checks'
  BY <1>1 DEF IInv, Checks, Checked
<1>5. Reads'
  <2>1. \A d : ReadOk(d) => ReadOk(d)'
    BY <1>1, StaysRead DEF ReadOk
  <2>2. CouldRead(req.dn) => CouldRead(req.dn)'
    BY <1>1, StaysRead
  <2> QED BY <1>1, <2>1, <2>2, StaysRead DEF IInv, Reads
<1> QED BY <1>2, <1>3, <1>4, <1>5 DEF IInv

\* The next rule is tried.
LEMMA NextRuleKeeps ==
  ASSUME IInv, Frame, pc \in Checked, check.rule > 0, check.rule \in DOMAIN Rules, NextRule
  PROVE  IInv'
<1> DEFINE n == check.rule + 1
<1>1. n \in 1..(Len(Rules) + 1)
  BY RulesAre
<1>2. check' = [check EXCEPT !.rule = n, !.group = << >>]
  BY DEF NextRule
<1> HIDE DEF n
<1>3. /\ DOMAIN check' = {"dn", "rule", "group"} /\ check'.dn = check.dn /\ check'.rule = n
      /\ check'.group = << >>
  BY <1>2 DEF IInv, Checks
<1>4. UNCHANGED <<pc, result, cookie, matches, visible>>
  BY DEF NextRule
<1> QED BY <1>1, <1>3, <1>4, CheckGoesOn

\* A rule that grants access, with the group read before if it is a group's.
LEMMA RuleKeeps == ASSUME IInv, maySearchRule PROVE IInv'
<1>0. /\ Frame /\ pc \in Checked /\ check.rule > 0 /\ check.group = << >> /\ pc # "idle"
      /\ tree \in seen
  BY DEF maySearchRule, Frame, Checked, IInv, Requested
<1>1. CASE Open
  <2>1. Granted
    BY <1>1 DEF maySearchRule
  <2>2. ReadOk(check.dn)
    BY <1>1 DEF Open, ReadOk, CouldRead, isRoot
  <2> QED BY <1>0, <2>1, <2>2, GrantedKeeps
<1>2. CASE ~Open /\ check.rule > Len(Rules)
  <2>1. Denied
    BY <1>2 DEF maySearchRule
  <2> QED BY <1>0, <2>1, DeniedKeeps
<1>3. CASE ~Open /\ ~(check.rule > Len(Rules))
  <2>0. check.rule \in DOMAIN Rules /\ check.rule \in 1..(Len(Rules) + 1)
    BY <1>0, <1>3, RulesAre DEF IInv, Types
  <2>1. CASE NextRule
    BY <1>0, <2>0, <2>1, NextRuleKeeps
  <2>2. CASE /\ rule.who.kind = "group" /\ found(tree, rule.who.dn)
             /\ check' = [check EXCEPT !.group = <<tree[rule.who.dn]>>]
             /\ UNCHANGED <<pc, result, cookie, matches, visible>>
    <3>1. /\ DOMAIN check' = {"dn", "rule", "group"} /\ check'.dn = check.dn
          /\ check'.rule = check.rule /\ check'.group = <<tree[rule.who.dn]>>
      BY <2>2 DEF IInv, Checks
    <3>2. GroupRead(Rules[check.rule])'
      <4>1. seen' = seen
        BY <1>0 DEF Frame
      <4> QED BY <1>0, <2>2, <3>1, <4>1 DEF GroupRead, rule
    <3> QED BY <1>0, <2>0, <2>2, <3>1, <3>2, CheckGoesOn
  <2>3. CASE Granted /\ rule.who.kind # "group" /\ whoMatches(rule, tree, who) /\ covers(rule, check.dn)
    <3>1. CouldRead(check.dn)
      BY <1>0, <2>0, <2>3 DEF CouldRead, rule
    <3> QED BY <1>0, <2>3, <3>1, GrantedKeeps DEF ReadOk
  <2> QED BY <1>3, <2>1, <2>2, <2>3 DEF maySearchRule
<1> QED BY <1>1, <1>2, <1>3

\* A group rule is decided on.
LEMMA UserKeeps == ASSUME IInv, maySearchUser PROVE IInv'
<1>0. Frame /\ check.group # << >>
  BY DEF maySearchUser, Frame
<1>1. /\ pc \in Checked /\ check.rule \in DOMAIN Rules /\ check.rule > 0 /\ pc # "idle"
      /\ GroupRead(rule) /\ tree \in seen
  BY <1>0, RulesAre DEF IInv, Checks, Checked, rule, Requested
<1>2. CASE NextRule
  BY <1>0, <1>1, <1>2, NextRuleKeeps
<1>3. CASE Granted /\ whoMatches(rule, Put(tree, rule.who.dn, check.group[1]), who) /\ covers(rule, check.dn)
  <2>1. PICK t \in seen : found(t, rule.who.dn) /\ check.group = <<t[rule.who.dn]>>
    BY <1>1 DEF GroupRead
  <2>2. check.group[1] = t[rule.who.dn] /\ rule.who.kind = "group"
    BY <1>1, <2>1 DEF GroupRead
  <2>3. inGroup(Put(tree, rule.who.dn, t[rule.who.dn]), who, rule.who.dn)
    BY <1>3, <2>2 DEF whoMatches
  <2>4. CouldRead(check.dn)
    BY <1>1, <1>3, <2>1, <2>2, <2>3 DEF CouldRead, rule
  <2> QED BY <1>0, <1>1, <1>3, <2>4, GrantedKeeps DEF ReadOk
<1> QED BY <1>2, <1>3 DEF maySearchUser

-----------------------------------------------------------------------------
(* The other steps of a search.                                            *)

\* Before the first request.
LEMMA InitKeeps == Init => IInv
<1> SUFFICES ASSUME Init PROVE IInv
  OBVIOUS
<1>1. NoCheck.rule = 0 /\ NoCheck.group = << >> /\ DOMAIN NoCheck = {"dn", "rule", "group"}
  BY DEF NoCheck
<1>2. 0 \in 0..(Len(Rules) + 1) /\ 0 \in Nat /\ 0 \in 0..MaxChanges
  BY RulesAre, RequestsAssumption
<1>3. Types
  BY <1>1, <1>2 DEF Init, Types, Quiet
<1>4. Lists /\ Requested
  BY EmptyIs DEF Init, Lists, Proper, Requested
<1>5. Checks
  BY <1>1 DEF Init, Checks
<1>6. Reads
  BY EmptyIs DEF Init, Reads, Compared
<1> QED BY <1>3, <1>4, <1>5, <1>6 DEF IInv

\* A request is sent.
LEMMA StartKeeps == ASSUME IInv, start PROVE IInv'
<1>1. PICK r \in Requests, w \in Identities :
        /\ req' = r /\ who' = w /\ pc' = r.op
        /\ cookie' = IF r.op = "search" THEN r.cookie ELSE 0
  BY DEF start
<1>2. /\ pc = "idle" /\ received' = << >> /\ sent' = << >> /\ result' = ""
      /\ seen' = {tree} /\ changes' = 0 /\ UNCHANGED <<tree, check, matches, visible>>
  BY DEF start
<1>3. /\ check = NoCheck /\ matches = << >> /\ visible = << >> /\ tree \in Trees
  BY <1>2 DEF IInv, Types, Quiet
<1>4. NoCheck.rule = 0 /\ NoCheck.group = << >> /\ DOMAIN NoCheck = {"dn", "rule", "group"}
  BY DEF NoCheck
<1>5. 0 \in 0..(Len(Rules) + 1) /\ 0 \in Nat /\ 0 \in 0..MaxChanges
  BY RulesAre, RequestsAssumption
<1>6. r.op \in {"search", "compare"} /\ cookie' \in {BadCookie} \cup Nat
  <2>1. r.op \in {"search", "compare"} /\ (r.op = "search" => r.cookie \in {BadCookie} \cup Nat)
    BY RequestsAssumption
  <2> QED BY <1>1, <1>5, <2>1
<1>7. Types'
  BY <1>1, <1>2, <1>3, <1>4, <1>5, <1>6 DEF Types, Quiet, Checked
<1>8. Lists' /\ Requested'
  BY <1>1, <1>2, <1>3, <1>6, EmptyIs DEF Lists, Proper, Requested
<1>9. Checks'
  <2>0. ~(NoCheck.rule > 0)
    BY <1>4
  <2>1. check' = NoCheck /\ pc' \in {"search", "compare"} /\ ~(NoCheck.rule > 0)
    BY <1>1, <1>2, <1>3, <1>6, <2>0
  <2> QED BY <1>4, <2>1 DEF Checks
<1>10. Reads'
  BY <1>1, <1>2, <1>3, <1>6, EmptyIs DEF Reads, Compared
<1> QED BY <1>7, <1>8, <1>9, <1>10 DEF IInv

\* The control flow goes on, and nothing else changes but the check.
LEMMA MovesOn ==
  ASSUME IInv, Frame, UNCHANGED <<result, cookie, matches, visible>>,
         \/ pc = "search" /\ pc' = "find" /\ check' = check /\ req.filter # 0
         \/ pc = "search" /\ Checking(req.dn, "base") /\ req.filter # 0
         \/ pc = "page" /\ pc' = "loop" /\ check' = check /\ cookie # BadCookie
         \/ pc = "compare" /\ Checking(req.dn, "compare") /\ req.dn # RootDse
  PROVE  IInv'
<1>1. /\ UNCHANGED <<tree, who, req, sent, received, seen, changes>>
      /\ UNCHANGED <<result, cookie, matches, visible>>
  BY DEF Frame
<1>2. NoCheck.rule = 0 /\ NoCheck.group = << >> /\ DOMAIN NoCheck = {"dn", "rule", "group"}
  BY DEF NoCheck
<1>3. /\ DOMAIN check' = {"dn", "rule", "group"} /\ check'.group = << >>
      /\ check'.rule \in {0, 1}
      /\ \/ pc = "search" /\ pc' = "find" /\ check' = NoCheck /\ req.filter # 0
         \/ pc = "search" /\ pc' = "base" /\ req.filter # 0
         \/ pc = "page" /\ pc' = "loop" /\ check' = NoCheck /\ cookie # BadCookie
         \/ pc = "compare" /\ pc' = "compare" /\ check'.dn = req.dn /\ req.dn # RootDse
  BY <1>2, CheckingFields DEF IInv, Types, Checks, Quiet
<1>4. 0 \in 0..(Len(Rules) + 1) /\ 1 \in 0..(Len(Rules) + 1)
  BY RulesAre
<1>5. Types'
  BY <1>1, <1>3, <1>4 DEF IInv, Types, Quiet, Checked
<1>6. Lists'
  BY <1>1 DEF IInv, Lists, Proper
<1>7. Requested'
  BY <1>1, <1>3 DEF IInv, Types, Requested
<1>8. Checks'
  BY <1>1, <1>3 DEF Checks
<1>9. Reads'
  <2>1. \A d : ReadOk(d) => ReadOk(d)'
    BY <1>1, StaysRead DEF ReadOk
  <2>2. CouldRead(req.dn) => CouldRead(req.dn)'
    BY <1>1, StaysRead
  <2> QED BY <1>1, <1>3, <2>1, <2>2, StaysRead DEF IInv, Reads
<1> QED BY <1>5, <1>6, <1>7, <1>8, <1>9 DEF IInv

\* handleSearch, up to the base.
LEMMA HandleSearchKeeps == ASSUME IInv, handleSearch PROVE IInv'
<1>1. Frame /\ pc = "search" /\ pc # "idle"
  BY DEF handleSearch, Frame
<1>2. controlFault \notin Compared
  <2>1. \A c : fault(c) \in {"UnavailableCriticalExtension", "ProtocolError", "Success"}
    BY DEF fault, Success
  <2> QED BY <2>1 DEF controlFault, Compared, Success
<1>3. CASE Answer("ProtocolError") \/ Answer(controlFault) \/ Answer("NoSuchObject")
  BY <1>1, <1>2, <1>3, AnswerKeeps DEF Compared
<1>4. CASE /\ req.filter # 0 /\ UNCHANGED <<result, cookie, matches, visible>>
           /\ (pc' = "find" /\ check' = check) \/ Checking(req.dn, "base")
  BY <1>1, <1>4, MovesOn
<1> QED BY <1>3, <1>4 DEF handleSearch, work

\* The snapshot is of the tree as it is now.
LEMMA FindKeeps == ASSUME IInv, find PROVE IInv'
<1> DEFINE found_now == backendSearch(tree, req)
<1>1. /\ pc = "find" /\ matches' = found_entries /\ visible' = << >>
      /\ UNCHANGED <<result, cookie>> /\ Frame
      /\ IF found_entries = << >> THEN pc' = "page" /\ check' = NoCheck
                                  ELSE Checking(Head(found_entries).dn, "entry")
  BY DEF find, Frame, local
<1>2. req \in Requests /\ req.op = "search" /\ req.filter # 0 /\ tree \in seen /\ tree \in Trees
  BY <1>1 DEF IInv, Types, Requested
<1>3. /\ IsSeq(found_now)
      /\ \A e \in ToSet(found_now) : /\ e.dn \in DOMAIN tree /\ e.attrs = tree[e.dn]
                                     /\ req.filter \in Satisfied(tree[e.dn])
  BY <1>2, SearchFindsMeant DEF BackendSearchExact, Meant
<1> HIDE DEF found_now
<1>4. \A e \in ToSet(found_now) : FoundOk(e) /\ e.dn \in Names
  BY <1>2, <1>3, TreesAssumption DEF FoundOk, Names
<1>5. /\ IsSeq(found_entries)
      /\ \A e \in ToSet(found_entries) : FoundOk(e) /\ e.dn \in Names \cup {RootDse}
  <2> DEFINE dse  == IF nodeMatches(Dse)[req.filter] THEN <<Entry(RootDse, Dse)>> ELSE << >>
             rest == IF req.scope = "base" THEN << >> ELSE found_now
  <2>1. IsSeq(dse) /\ ToSet(dse) \subseteq {Entry(RootDse, Dse)}
    BY EmptyIs, OneIs
  <2>2. IsSeq(rest) /\ ToSet(rest) \subseteq ToSet(found_now)
    BY <1>3, EmptyIs
  <2>3. found_entries = IF req.dn # RootDse \/ req.scope = "one" THEN found_now ELSE dse \o rest
    BY DEF found_entries, found_now
  <2>4. FoundOk(Entry(RootDse, Dse)) /\ Entry(RootDse, Dse).dn = RootDse
    BY DEF FoundOk, Entry
  <2> HIDE DEF dse, rest
  <2>5. IsSeq(dse \o rest) /\ ToSet(dse \o rest) \subseteq ToSet(dse) \cup ToSet(rest)
    BY <2>1, <2>2, ConcatIs
  <2> QED BY <1>3, <1>4, <2>1, <2>2, <2>3, <2>4, <2>5
<1> HIDE DEF found_now
<1>6. Proper(matches)' /\ Proper(visible)'
  BY <1>1, <1>5, EmptyIs DEF Proper
<1>7. \A e \in ToSet(matches') : FoundOk(e)
  BY <1>1, <1>5
<1>8. \A e \in ToSet(visible') : FoundOk(e) /\ ReadOk(e.dn)
  BY <1>1, EmptyIs
<1>9. NextMatch
  BY <1>1 DEF NextMatch
<1> QED BY <1>1, <1>6, <1>7, <1>8, <1>9, MatchesKeeps

\* A page begins.
LEMMA BeginPageKeeps == ASSUME IInv, beginPage PROVE IInv'
<1>1. Frame /\ pc = "page" /\ pc # "idle"
  BY DEF beginPage, Frame
<1>2. CASE Answer("ProtocolError") \/ Answer(Success)
  BY <1>1, <1>2, AnswerKeeps DEF Compared, Success
<1>3. CASE pc' = "loop" /\ cookie # BadCookie /\ UNCHANGED <<result, cookie, check, matches, visible>>
  BY <1>1, <1>3, MovesOn
<1> QED BY <1>2, <1>3 DEF beginPage, work

\* handleCompare, up to the access check.
LEMMA CompareKeeps == ASSUME IInv, handleCompare PROVE IInv'
<1>1. Frame /\ pc = "compare" /\ pc # "idle"
  BY DEF handleCompare, Frame
<1>2. CASE Answer("ProtocolError")
  BY <1>1, <1>2, AnswerKeeps DEF Compared
<1>3. CASE /\ Checking(req.dn, "compare") /\ req.dn # RootDse
           /\ UNCHANGED <<result, cookie, matches, visible>>
  BY <1>1, <1>3, MovesOn
<1> QED BY <1>2, <1>3 DEF handleCompare

\* The value is compared.
LEMMA ValueKeeps == ASSUME IInv, compareValue PROVE IInv'
<1>1. Frame /\ pc = "value" /\ pc # "idle" /\ CouldRead(req.dn)
  BY DEF compareValue, Frame, IInv, Reads
<1>2. PICK rc : Answer(rc)
  BY DEF compareValue
<1> QED BY <1>1, <1>2, AnswerKeeps

\* The end of a page.
LEMMA DoneKeeps ==
  ASSUME IInv, Frame, pc = "loop", NEW rc, done(rc), rc \notin Compared
  PROVE  IInv'
<1>1. /\ result' = rc /\ pc' = "answered" /\ cookie' = nextCookie(rc)
      /\ check' = NoCheck /\ matches' = << >> /\ visible' = << >>
      /\ UNCHANGED <<tree, who, req, sent, received, seen, changes>>
  BY DEF done, Frame
<1>2. NoCheck.rule = 0 /\ NoCheck.group = << >> /\ DOMAIN NoCheck = {"dn", "rule", "group"}
  BY DEF NoCheck
<1>3. 0 \in 0..(Len(Rules) + 1)
  BY RulesAre
<1>4. nextCookie(rc) \in Nat
  <2>1. cookie \in Nat /\ Len(sent) \in Nat
    BY DEF IInv, Requested, Lists, Proper, IsSeq
  <2> QED BY <2>1 DEF nextCookie
<1>5. Types'
  BY <1>1, <1>2, <1>3, <1>4 DEF IInv, Types, Quiet
<1>6. Lists'
  BY <1>1, EmptyIs DEF IInv, Lists, Proper
<1>7. Requested'
  BY <1>1 DEF IInv, Requested
<1>8. Checks'
  BY <1>1, <1>2 DEF Checks
<1>9. Reads'
  BY <1>1, EmptyIs, StaysRead DEF IInv, Reads
<1> QED BY <1>5, <1>6, <1>7, <1>8, <1>9 DEF IInv

\* toSearchEntry sends what was found, or less, and the password to root only.
LEMMA SendKeeps == ASSUME IInv, sendEntry PROVE IInv'
<1> DEFINE i == cookie + Len(sent) + 1
           e == visible[i]
<1>1. /\ pc = "loop" /\ More /\ sent' = Append(sent, toSearchEntry(e))
      /\ UNCHANGED <<tree, who, req, cookie, pc, check, matches, visible, result, received, seen, changes>>
  BY DEF sendEntry, local, work
<1>2. /\ cookie \in Nat /\ Proper(visible) /\ Proper(sent)
      /\ Len(sent) \in Nat /\ Len(visible) \in Nat
  BY <1>1 DEF IInv, Requested, Lists, Proper, IsSeq
<1>3. i \in 1..Len(visible)
  BY <1>1, <1>2 DEF More
<1> HIDE DEF i
<1>4. e \in ToSet(visible)
  BY <1>2, <1>3, InRange DEF Proper
<1>5. FoundOk(e) /\ ReadOk(e.dn) /\ e.dn \in Names \cup {RootDse}
  BY <1>2, <1>4 DEF IInv, Reads, Proper
<1> HIDE DEF e
<1> DEFINE s == toSearchEntry(e)
<1>6. /\ s.dn = e.dn /\ DOMAIN s.attrs \subseteq DOMAIN e.attrs
      /\ \A a \in DOMAIN s.attrs : s.attrs[a] \in {<< >>, e.attrs[a]}
      /\ "userPassword" \in DOMAIN s.attrs => who = RootDn
  BY DEF toSearchEntry, Entry, reveal_password
<1> HIDE DEF s
<1>7. SentOk(s)
  <2>1. ASSUME e.dn # RootDse
        PROVE  \E t \in seen : /\ s.dn \in DOMAIN t /\ req.filter \in Satisfied(t[s.dn])
                               /\ \A a \in DOMAIN s.attrs :
                                    a \in DOMAIN t[s.dn] /\ s.attrs[a] \in {<< >>, t[s.dn][a]}
    BY <1>5, <1>6, <2>1 DEF FoundOk
  <2> QED BY <1>5, <1>6, <2>1 DEF SentOk, ReadOk
<1>8. sent' = Append(sent, s)
  BY <1>1 DEF s
<1>9. IsSeq(sent') /\ ToSet(sent') \subseteq ToSet(sent) \cup {s}
  BY <1>2, <1>8, AppendIs DEF Proper
<1>10. Types' /\ Requested' /\ Checks'
  BY <1>1 DEF IInv, Types, Requested, Checks, GroupRead
<1>11. Lists'
  BY <1>1, <1>5, <1>6, <1>9 DEF IInv, Lists, Proper
<1>12. Reads'
  <2>1. \A d : ReadOk(d) => ReadOk(d)'
    BY <1>1, StaysRead DEF ReadOk
  <2>2. CouldRead(req.dn) => CouldRead(req.dn)'
    BY <1>1, StaysRead
  <2>3. \A x \in ToSet(sent') : SentOk(x)
    BY <1>7, <1>9 DEF IInv, Reads
  <2> QED BY <1>1, <2>1, <2>2, <2>3, StaysRead DEF IInv, Reads
<1> QED BY <1>10, <1>11, <1>12 DEF IInv

\* The client has the page, whole or cut off.
LEMMA ReceiveKeeps == ASSUME IInv, receiveDone \/ sendFails PROVE IInv'
<1>1. /\ pc \in {"answered", "loop"} /\ received' = received \o sent
      /\ UNCHANGED <<tree, who, req, cookie, changes>>
      /\ check' = NoCheck /\ matches' = << >> /\ visible' = << >>
  BY DEF receiveDone, sendFails, local, work, IInv, Types, Quiet
<1>2. \/ /\ pc' = "search" /\ seen' = {tree} /\ sent' = << >> /\ pc = "answered"
         /\ cookie # 0 /\ result = Success /\ result' = result
      \/ /\ pc' = "finished" /\ UNCHANGED <<seen, sent>>
         /\ result' = result \/ result' = "truncated"
  BY DEF receiveDone, sendFails
<1>3. NoCheck.rule = 0 /\ NoCheck.group = << >> /\ DOMAIN NoCheck = {"dn", "rule", "group"}
  BY DEF NoCheck
<1>4. 0 \in 0..(Len(Rules) + 1)
  BY RulesAre
<1>5. IsSeq(received') /\ ToSet(received') \subseteq ToSet(received) \cup ToSet(sent)
  BY <1>1, ConcatIs DEF IInv, Lists, Proper
<1>6. Types'
  BY <1>1, <1>2, <1>3, <1>4 DEF IInv, Types, Quiet
<1>7. Lists'
  BY <1>1, <1>2, <1>5, EmptyIs DEF IInv, Lists, Proper
<1>8. Requested'
  BY <1>1, <1>2 DEF IInv, Requested
<1>9. Checks'
  BY <1>1, <1>2, <1>3 DEF Checks
<1>10. Reads'
  <2>1. CASE pc' = "search"
    BY <1>1, <1>2, <2>1, EmptyIs DEF Reads, Compared, Success
  <2>2. CASE pc' = "finished"
    <3>1. UNCHANGED <<who, req, seen, sent>> /\ (result' = result \/ result' \notin Compared)
      BY <1>1, <1>2, <2>2 DEF Compared
    <3>2. CouldRead(req.dn) => CouldRead(req.dn)'
      BY <3>1, StaysRead
    <3> QED BY <1>1, <2>2, <3>1, <3>2, EmptyIs, StaysRead DEF IInv, Reads
  <2> QED BY <1>2, <2>1, <2>2
<1> QED BY <1>6, <1>7, <1>8, <1>9, <1>10 DEF IInv

\* The session waits for another request.
LEMMA FinishKeeps == ASSUME IInv, finish PROVE IInv'
<1>1. /\ pc = "finished" /\ pc' = "idle" /\ cookie' = 0
      /\ received' = << >> /\ sent' = << >> /\ result' = "" /\ seen' = {} /\ changes' = 0
      /\ UNCHANGED <<tree, check, matches, visible>>
  BY DEF finish, work
<1>2. check = NoCheck /\ matches = << >> /\ visible = << >> /\ tree \in Trees
  BY <1>1 DEF IInv, Types, Quiet
<1>3. NoCheck.rule = 0 /\ NoCheck.group = << >> /\ DOMAIN NoCheck = {"dn", "rule", "group"}
  BY DEF NoCheck
<1>4. 0 \in 0..(Len(Rules) + 1) /\ 0 \in Nat /\ 0 \in 0..MaxChanges
  BY RulesAre, RequestsAssumption
<1>5. Types'
  BY <1>1, <1>2, <1>3, <1>4 DEF Types, Quiet
<1>6. Lists' /\ Requested'
  BY <1>1, <1>2, EmptyIs DEF Lists, Proper, Requested
<1>7. Checks'
  BY <1>1, <1>2, <1>3 DEF Checks
<1>8. Reads'
  BY <1>1, <1>2, EmptyIs DEF Reads, Compared
<1> QED BY <1>5, <1>6, <1>7, <1>8 DEF IInv

\* A write of another session only adds a moment.
LEMMA OthersKeep == ASSUME IInv, otherSessions PROVE IInv'
<1>1. /\ tree' \in Trees /\ seen' = seen \cup {tree'} /\ changes' = changes + 1
      /\ changes < MaxChanges
      /\ UNCHANGED <<who, req, cookie, pc, check, matches, visible, sent, result, received>>
  BY DEF otherSessions, local, work
<1>2. changes' \in 0..MaxChanges
  BY <1>1, RequestsAssumption DEF IInv, Types
<1>3. Types'
  BY <1>1, <1>2 DEF IInv, Types
<1>4. Lists'
  BY <1>1 DEF IInv, Lists, Proper
<1>5. Requested'
  BY <1>1 DEF IInv, Requested
<1>6. Checks'
  BY <1>1 DEF IInv, Checks, GroupRead
<1>7. Reads'
  <2>1. \A d : ReadOk(d) => ReadOk(d)'
    BY <1>1, StaysRead DEF ReadOk
  <2>2. CouldRead(req.dn) => CouldRead(req.dn)'
    BY <1>1, StaysRead
  <2> QED BY <1>1, <2>1, <2>2, StaysRead DEF IInv, Reads
<1> QED BY <1>3, <1>4, <1>5, <1>6, <1>7 DEF IInv

-----------------------------------------------------------------------------
(* The theorems.                                                           *)

\* The inductive invariant of a request holds throughout.
THEOREM SearchInductive == Spec => []IInv
<1>1. Init => IInv
  BY InitKeeps
<1>2. ASSUME IInv, [Next]_vars PROVE IInv'
  <2>1. CASE timeUp \/ endPage
    <3>1. Frame /\ pc = "loop"
      BY <2>1 DEF timeUp, endPage, Frame
    <3>2. \/ done("TimeLimitExceeded") \/ done("SizeLimitExceeded") \/ done(Success)
      BY <2>1 DEF timeUp, endPage
    <3> QED BY <1>2, <3>1, <3>2, DoneKeeps DEF Compared, Success
  <2>2. CASE UNCHANGED vars
    <3>1. Types' /\ Lists' /\ Requested' /\ Checks'
      BY <1>2, <2>2 DEF IInv, Types, Lists, Proper, Requested, Checks, GroupRead, vars
    <3>2. Reads'
      <4>0. UNCHANGED <<who, req, seen, matches, visible, sent, pc, result>>
        BY <2>2 DEF vars
      <4>1. \A d : ReadOk(d) => ReadOk(d)'
        BY <4>0, StaysRead DEF ReadOk
      <4>2. CouldRead(req.dn) => CouldRead(req.dn)'
        BY <4>0, StaysRead
      <4> QED BY <1>2, <4>0, <4>1, <4>2, StaysRead DEF IInv, Reads
    <3> QED BY <3>1, <3>2 DEF IInv
  <2> QED BY <1>2, <2>1, <2>2, StartKeeps, HandleSearchKeeps, FindKeeps, RuleKeeps, UserKeeps,
             BeginPageKeeps, SendKeeps, ReceiveKeeps, CompareKeeps, ValueKeeps, FinishKeeps,
             OthersKeep DEF Next, Step
<1> QED BY <1>1, <1>2, PTL DEF Spec

\* The handler of a search or compare request is at one of its steps, asks
\* about one of the configured rules, and leaves nothing of a page behind
\* (handleSearch, handleCompare, core/session.cpp).
THEOREM SearchTyped == Spec => []TypeOK
<1>1. IInv => TypeOK
  <2> SUFFICES ASSUME IInv PROVE TypeOK
    OBVIOUS
  <2>1. /\ Proper(matches \o visible)
    BY ConcatIs DEF IInv, Lists, Proper
  <2>2. Proper((matches \o visible) \o sent)
    BY <2>1, ConcatIs DEF IInv, Lists, Proper
  <2>3. Proper(((matches \o visible) \o sent) \o received)
    BY <2>2, ConcatIs DEF IInv, Lists, Proper
  <2> QED BY <2>3 DEF IInv, Types, Quiet, Checked, TypeOK, Proper
<1> QED BY <1>1, SearchInductive, PTL

\* Whatever other sessions write during a request: an entry that is sent
\* matched the filter with the values sent at a moment of the request, it and
\* an entry that a compare says something about could be read, and the
\* password goes to root only.
THEOREM OnlyReadableSent == Spec => []OnlyReadable
<1>1. IInv => OnlyReadable
  BY DEF IInv, Reads, SentOk, OnlyReadable, Compared
<1> QED BY <1>1, SearchInductive, PTL

-----------------------------------------------------------------------------
(* What a client is told while nobody writes: the invariant.               *)

\* The names of a list that grows by one entry.
LEMMA DnsAppend ==
  ASSUME NEW q, IsSeq(q), NEW e
  PROVE  Dns(Append(q, e)) = Append(Dns(q), e.dn)
<1> DEFINE x == Append(q, e)
           d == Dns(q)
           y == Append(d, e.dn)
<1>1. q \in Seq(ToSet(q) \cup {e}) /\ e \in ToSet(q) \cup {e}
  BY DEF IsSeq
<1>2. IsSeq(x) /\ Len(x) = Len(q) + 1 /\ x[Len(q) + 1] = e /\ \A i \in 1..Len(q) : x[i] = q[i]
  BY <1>1, AppendIs
<1>3. IsSeq(d) /\ Len(d) = Len(q) /\ \A i \in 1..Len(q) : d[i] = q[i].dn
  BY DnsIs
<1> HIDE DEF x, d
<1>4. d \in Seq(ToSet(d) \cup {e.dn}) /\ e.dn \in ToSet(d) \cup {e.dn}
  BY <1>3 DEF IsSeq
<1>5. IsSeq(y) /\ Len(y) = Len(d) + 1 /\ y[Len(d) + 1] = e.dn /\ \A i \in 1..Len(d) : y[i] = d[i]
  BY <1>3, <1>4, AppendIs
<1> HIDE DEF y
<1> DEFINE z == Dns(x)
<1>6. IsSeq(z) /\ Len(z) = Len(x) /\ \A i \in 1..Len(x) : z[i] = x[i].dn
  BY <1>2, DnsIs
<1> HIDE DEF z
<1>7. Len(q) \in Nat
  BY SeqLen
<1>8. \A i \in 1..Len(z) : z[i] = y[i]
  <2> TAKE i \in 1..Len(z)
  <2>1. i \in 1..Len(q) \/ i = Len(q) + 1
    BY <1>2, <1>6, <1>7
  <2>2. i \in 1..Len(x)
    BY <1>6
  <2>3. CASE i \in 1..Len(q)
    BY <1>2, <1>3, <1>5, <1>6, <2>2, <2>3
  <2>4. CASE i = Len(q) + 1
    BY <1>2, <1>3, <1>5, <1>6, <2>2, <2>4
  <2> QED BY <2>1, <2>3, <2>4
<1>9. z = y
  <2>1. Len(z) = Len(y)
    BY <1>2, <1>3, <1>5, <1>6
  <2> QED BY <1>5, <1>6, <1>8, <2>1, SameList
<1> QED BY <1>9 DEF x, y, z, d

\* The names of no entries.
LEMMA DnsEmpty == Dns(<< >>) = << >>
<1>1. IsSeq(<< >>) /\ Len(<< >>) = 0
  BY EmptyIs
<1>2. IsSeq(Dns(<< >>)) /\ Len(Dns(<< >>)) = 0
  BY <1>1, DnsIs
<1> QED BY <1>2 DEF IsSeq

\* The names of a list that begins with one entry.
LEMMA DnsCons ==
  ASSUME NEW e, NEW q, IsSeq(q)
  PROVE  Dns(<<e>> \o q) = <<e.dn>> \o Dns(q)
<1> DEFINE A == {e} \cup ToSet(q)
           d == Dns(q)
           B == {e.dn} \cup ToSet(d)
           x == <<e>> \o q
           y == <<e.dn>> \o d
           z == Dns(x)
<1>1. q \in Seq(A) /\ <<e>> \in Seq(A) /\ Len(<<e>>) = 1
  BY DEF IsSeq
<1>2. IsSeq(d) /\ Len(d) = Len(q) /\ \A i \in 1..Len(q) : d[i] = q[i].dn
  BY DnsIs
<1> HIDE DEF d
<1>3. d \in Seq(B) /\ <<e.dn>> \in Seq(B) /\ Len(<<e.dn>>) = 1
  BY <1>2 DEF IsSeq
<1>4. <<e>>[1] = e /\ <<e.dn>>[1] = e.dn
  OBVIOUS
<1> HIDE DEF A, B
<1>5. x \in Seq(A) /\ Len(x) = Len(q) + 1 /\ x[1] = e /\ \A i \in 1..Len(q) : x[i + 1] = q[i]
  BY <1>1, <1>4
<1>6. y \in Seq(B) /\ Len(y) = Len(d) + 1 /\ y[1] = e.dn /\ \A i \in 1..Len(d) : y[i + 1] = d[i]
  BY <1>3, <1>4
<1>7. IsSeq(x) /\ IsSeq(y)
  <2> HIDE DEF x, y
  <2> QED BY <1>5, <1>6, SeqIs
<1> HIDE DEF x, y
<1>8. IsSeq(z) /\ Len(z) = Len(x) /\ \A i \in 1..Len(x) : z[i] = x[i].dn
  BY <1>7, DnsIs
<1> HIDE DEF z
<1>9. Len(q) \in Nat
  BY SeqLen
<1>10. ASSUME NEW i \in 1..Len(z) PROVE z[i] = y[i]
  <2>1. i = 1 \/ (i - 1 \in 1..Len(q) /\ (i - 1) + 1 = i)
    BY <1>5, <1>8, <1>9
  <2>2. z[i] = x[i].dn
    BY <1>8
  <2>3. CASE i = 1
    BY <1>5, <1>6, <2>2, <2>3
  <2>4. CASE i - 1 \in 1..Len(q) /\ (i - 1) + 1 = i
    <3> DEFINE j == i - 1
    <3>1. j \in 1..Len(q) /\ j + 1 = i
      BY <2>4
    <3> HIDE DEF j
    <3>2. x[j + 1] = q[j] /\ y[j + 1] = d[j] /\ d[j] = q[j].dn
      BY <1>2, <1>5, <1>6, <3>1
    <3> QED BY <2>2, <3>1, <3>2
  <2> QED BY <2>1, <2>3, <2>4
<1>11. Len(z) = Len(y)
  BY <1>2, <1>5, <1>6, <1>8
<1>12. z = y
  BY <1>7, <1>8, <1>10, <1>11, SameList
<1> QED BY <1>12 DEF x, y, z, d

\* A rule grants check.dn, and the names that may be read now.
Grants(r, dn) == whoMatches(r, tree, who) /\ covers(r, dn)
ReadableNow == {d \in Names \cup {RootDse} : Readable(tree, d)}

\* The rules before this one do not grant the name that is asked for.
Tried ==
  /\ check.rule > 0 /\ pc \in Checked => \A i \in 1..(check.rule - 1) : ~Grants(Rules[i], check.dn)
  /\ pc = "base" => check.dn = req.dn
  /\ pc \in {"base", "entry"} => check.rule > 0
  /\ pc \in {"compare", "value"} => req.op = "compare"

\* How far the snapshot has been gone through.
Found == Dns(found_entries)
Scanned ==
  /\ pc = "entry" =>
       /\ Len(matches) <= Len(Found)
       /\ \A i \in 1..Len(matches) : matches[i].dn = Found[(Len(Found) - Len(matches)) + i]
       /\ Dns(visible) = kept(Found, ReadableNow)[Len(Found) - Len(matches)]
  /\ pc \in {"page", "loop"} => Dns(visible) = Wanted(tree)

\* What the client has, with the page that is on its way, is what was asked
\* for from the first cookie on.
Printed == IF pc = "finished" THEN received ELSE received \o sent
Position == req.cookie + Len(Printed)
Follows ==
  /\ Printed # << >> => Position <= Len(Wanted(tree)) /\ req.cookie \in Nat
  /\ \A i \in 1..Len(Printed) : Printed[i].dn = Wanted(tree)[req.cookie + i]

BaseFound == req.dn = RootDse \/ req.dn \in DOMAIN tree
BaseRead == controlFault = Success /\ BaseFound /\ Readable(tree, req.dn)

InHand == {"search", "base", "find", "entry", "page", "loop"}
Paging ==
  /\ pc \in InHand => cookie = req.cookie + Len(received)
  /\ pc \in InHand \ {"loop"} => sent = << >>
  /\ pc = "base" => controlFault = Success /\ BaseFound
  /\ pc \in {"find", "entry", "page", "loop"} \/ Printed # << >> => BaseRead
  /\ Printed # << >> => pageSize # 0
  /\ pc = "loop" => pageSize # 0
  /\ req.sizeLimit > 0 => Len(sent) <= req.sizeLimit

\* What the result says.
Outcome ==
  LET more == req.cookie \in Nat /\ Position < Len(Wanted(tree))
  IN  CASE result = Success ->
             \/ cookie # 0 /\ cookie = Position
             \/ cookie = 0 /\ pageSize = 0 /\ Printed = << >>
             \/ cookie = 0 /\ pageSize # 0 /\ req.cookie \in Nat /\ Position >= Len(Wanted(tree))
        [] result = "SizeLimitExceeded" -> more /\ Len(sent) = req.sizeLimit
        [] result = "TimeLimitExceeded" -> more /\ req.timeLimit > 0
        [] result = "truncated" -> pc = "finished" /\ req.cookie \in Nat
        [] result = "NoSuchObject" -> Printed = << >> /\ ~BaseFound
        [] result = "InsufficientAccessRights" -> Printed = << >> /\ ~Readable(tree, req.dn)
        [] OTHER -> Printed = << >> /\ (controlFault # Success \/ req.cookie = BadCookie)
Told ==
  /\ pc \in {"answered", "finished"} => Outcome
  /\ pc = "finished" /\ result = Success => cookie = 0

CompareTold ==
  result \in {"CompareTrue", "CompareFalse"} =>
    LET values == ToSet(tree[req.dn][req.attribute])
        agreed == result = "CompareTrue"
    IN  IF req.attribute = "userPassword"
        THEN agreed <=> \/ /\ req.value \notin DOMAIN Scheme
                           /\ {req.value, encodeUserPassword(req.value)} \cap values # {}
                        \/ \E v \in values \cap DOMAIN Scheme :
                             Scheme[v].name \in {"CLEARTEXT", "SHA"} /\ Scheme[v].of = req.value
        ELSE \A n \in DOMAIN Nodes :
               /\ Nodes[n].type = "Equality"
               /\ Nodes[n].attribute = req.attribute /\ Nodes[n].value = req.value
               => (agreed <=> n \in Satisfied(tree[req.dn]))

Undisturbed == changes = 0 /\ pc # "idle"
Searching == req.op = "search" /\ req.filter # 0
ExactNow ==
  /\ seen = {tree} /\ Tried /\ CompareTold
  /\ Searching => Scanned /\ Follows /\ Paging /\ Told
Exact == Undisturbed => ExactNow

\* The snapshot is what the request means, before anybody asks who may read it.
LEMMA FoundIs ==
  ASSUME tree \in Trees, req \in Requests, req.op = "search", req.filter # 0
  PROVE  /\ IsSeq(found_entries) /\ IsSeq(Found) /\ Len(Found) = Len(found_entries)
         /\ \A i \in 1..Len(found_entries) : Found[i] = found_entries[i].dn
         /\ Among(Found, ReadableNow) = Wanted(tree)
<1> DEFINE B == backendSearch(tree, req)
           M == Meant(tree, req)
           R == ReadableNow
           dse == Entry(RootDse, Dse)
           R0 == {d \in M : Readable(tree, d)}
<1>1. IsSeq(B) /\ Dns(B) = Among(MapOrder, M)
  BY SearchFindsMeant DEF BackendSearchExact
<1>2. IsSeq(MapOrder)
  BY TreesAssumption
<1>3. M \cap R = R0
  <2>1. M \subseteq Names
    BY TreesAssumption DEF Meant, Names
  <2> HIDE DEF M
  <2> QED BY <2>1 DEF ReadableNow
<1>4. RootDse \in R
  BY DEF ReadableNow, Readable, maySearch
<1>5. nodeMatches(Dse)[req.filter] <=> req.filter \in Satisfied(Dse)
  <2>1. req.filter \in DOMAIN Nodes /\ Legible(Dse)
    BY RequestsAssumption, TreesAssumption
  <2> QED BY <2>1, FilterExact
<1>6. dse.dn = RootDse
  BY DEF Entry
<1> HIDE DEF B, M, R, dse, R0
<1>7. Among(Dns(B), R) = Among(MapOrder, R0)
  BY <1>1, <1>2, <1>3, AmongAmong
<1>8. IsSeq(Among(MapOrder, R0)) /\ IsSeq(Dns(B))
  BY <1>1, <1>2, AmongIs
<1>9. /\ IsSeq(<<dse>>) /\ IsSeq(<<RootDse>>) /\ IsSeq(<< >>)
  BY OneIs, EmptyIs
<1>10. Among(<<RootDse>>, R) = <<RootDse>>
  <2>1. <<RootDse>> = Append(<< >>, RootDse)
    OBVIOUS
  <2>2. Among(Append(<< >>, RootDse), R) = Append(Among(<< >>, R), RootDse)
    BY <1>4, <1>9, AmongAppend
  <2> QED BY <2>1, <2>2, AmongEmpty
<1>11. IsSeq(found_entries) /\ Among(Dns(found_entries), R) = Wanted(tree)
  <2>1. CASE req.dn # RootDse \/ req.scope = "one"
    <3>1. found_entries = B
      BY <2>1 DEF found_entries, B
    <3>2. Wanted(tree) = << >> \o Among(MapOrder, R0)
      BY <2>1 DEF Wanted, R0, M
    <3>3. Wanted(tree) = Among(MapOrder, R0)
      BY <1>8, <3>2 DEF IsSeq
    <3> QED BY <1>1, <1>7, <3>1, <3>3
  <2>2. CASE req.dn = RootDse /\ req.scope # "one" /\ req.scope = "base"
    <3>1. found_entries = (IF nodeMatches(Dse)[req.filter] THEN <<dse>> ELSE << >>) \o << >>
      BY <2>2 DEF found_entries, dse
    <3>2. Wanted(tree) = (IF req.filter \in Satisfied(Dse) THEN <<RootDse>> ELSE << >>) \o Among(MapOrder, {})
      BY <2>2 DEF Wanted
    <3>3. Among(MapOrder, {}) = << >>
      BY <1>2, AmongNone
    <3>4. <<dse>> \o << >> = <<dse>> /\ <<RootDse>> \o << >> = <<RootDse>> /\ << >> \o << >> = << >>
      BY <1>9 DEF IsSeq
    <3>5. Dns(<<dse>>) = <<RootDse>>
      <4>1. Dns(<<dse>> \o << >>) = <<dse.dn>> \o Dns(<< >>)
        BY <1>9, DnsCons
      <4> QED BY <1>6, <3>4, <4>1, DnsEmpty
    <3>6. CASE nodeMatches(Dse)[req.filter]
      BY <1>5, <1>9, <1>10, <3>1, <3>2, <3>3, <3>4, <3>5, <3>6
    <3>7. CASE ~nodeMatches(Dse)[req.filter]
      BY <1>5, <1>9, <3>1, <3>2, <3>3, <3>4, <3>7, DnsEmpty, AmongEmpty
    <3> QED BY <3>6, <3>7
  <2>3. CASE req.dn = RootDse /\ req.scope # "one" /\ req.scope # "base"
    <3>1. found_entries = (IF nodeMatches(Dse)[req.filter] THEN <<dse>> ELSE << >>) \o B
      BY <2>3 DEF found_entries, dse, B
    <3>2. Wanted(tree) = (IF req.filter \in Satisfied(Dse) THEN <<RootDse>> ELSE << >>)
                           \o Among(MapOrder, R0)
      BY <2>3 DEF Wanted, R0, M
    <3>3. CASE nodeMatches(Dse)[req.filter]
      <4>1. found_entries = <<dse>> \o B /\ Wanted(tree) = <<RootDse>> \o Among(MapOrder, R0)
        BY <1>5, <3>1, <3>2, <3>3
      <4>2. IsSeq(<<dse>> \o B)
        BY <1>1, <1>9, ConcatIs
      <4>3. Dns(<<dse>> \o B) = <<RootDse>> \o Dns(B)
        BY <1>1, <1>6, DnsCons
      <4>4. Among(<<RootDse>> \o Dns(B), R) = Among(<<RootDse>>, R) \o Among(Dns(B), R)
        <5> DEFINE one == <<RootDse>>
                   b == Dns(B)
        <5>1. IsSeq(one) /\ IsSeq(b)
          BY <1>8, <1>9
        <5> HIDE DEF one, b
        <5>2. Among(one \o b, R) = Among(one, R) \o Among(b, R)
          BY <5>1, AmongConcat
        <5> QED BY <5>2 DEF one, b
      <4> QED BY <1>7, <1>10, <4>1, <4>2, <4>3, <4>4
    <3>4. CASE ~nodeMatches(Dse)[req.filter]
      <4>1. found_entries = << >> \o B /\ Wanted(tree) = << >> \o Among(MapOrder, R0)
        BY <1>5, <3>1, <3>2, <3>4
      <4>2. found_entries = B /\ Wanted(tree) = Among(MapOrder, R0)
        BY <1>1, <1>8, <4>1 DEF IsSeq
      <4> QED BY <1>1, <1>7, <4>2
    <3> QED BY <3>3, <3>4
  <2> QED BY <2>1, <2>2, <2>3
<1> QED BY <1>11, DnsIs DEF Found, R

-----------------------------------------------------------------------------
(* The question, and the steps that answer it at once.                     *)

\* The question and what it means stay the same.
LEMMA SameQuestion ==
  ASSUME UNCHANGED <<tree, who, req>>
  PROVE  /\ Wanted(tree)' = Wanted(tree) /\ controlFault' = controlFault /\ pageSize' = pageSize
         /\ Found' = Found /\ ReadableNow' = ReadableNow
         /\ BaseFound' = BaseFound /\ BaseRead' = BaseRead /\ Searching' = Searching
<1>1. Wanted(tree)' = Wanted(tree)
  BY DEF Wanted, Readable
<1>2. controlFault' = controlFault /\ pageSize' = pageSize
  BY DEF controlFault, pageSize, Paged
<1>3. Found' = Found
  BY DEF Found, found_entries
<1>4. ReadableNow' = ReadableNow
  BY DEF ReadableNow, Readable
<1>5. BaseFound' = BaseFound /\ Searching' = Searching
  BY DEF BaseFound, Searching
<1>6. BaseRead' = BaseRead
  BY <1>2, <1>5 DEF BaseRead, Readable
<1> QED BY <1>1, <1>2, <1>3, <1>4, <1>5, <1>6

\* What may be read depends on the tree and the session only.
LEMMA SameRights ==
  ASSUME UNCHANGED <<tree, who>>
  PROVE  /\ \A d : Readable(tree, d)' = Readable(tree, d)
         /\ \A r, d : Grants(r, d)' = Grants(r, d)
  BY DEF Readable, Grants

\* What a compare said is still true of the same tree.
LEMMA StillTold ==
  ASSUME CompareTold, UNCHANGED <<tree, req>>,
         result' = result \/ result' \notin {"CompareTrue", "CompareFalse"}
  PROVE  CompareTold'
  BY DEF CompareTold

\* Nothing is sent or received.
LEMMA StillFollows ==
  ASSUME Follows, UNCHANGED <<tree, who, req, received, sent>>,
         (pc = "finished") = (pc' = "finished")
  PROVE  Follows' /\ Printed' = Printed /\ Position' = Position
<1>1. Printed' = Printed
  BY DEF Printed
<1>2. Position' = Position
  BY <1>1 DEF Position
<1> QED BY <1>1, <1>2, SameQuestion DEF Follows

\* The values of an index.
LEMMA Indices ==
  ASSUME IInv, Searching, pc # "idle"
  PROVE  /\ req \in Requests /\ tree \in Trees
         /\ Len(received) \in Nat /\ Len(sent) \in Nat /\ Len(visible) \in Nat /\ Len(matches) \in Nat
         /\ IsSeq(received) /\ IsSeq(sent) /\ IsSeq(visible) /\ IsSeq(matches)
         /\ req.cookie \in {-1} \cup Nat /\ req.sizeLimit \in Int /\ req.timeLimit \in Int
         /\ pageSize \in Int
<1>1. req \in Requests /\ tree \in Trees
  BY DEF IInv, Types, Requested
<1>2. IsSeq(received) /\ IsSeq(sent) /\ IsSeq(visible) /\ IsSeq(matches)
  BY DEF IInv, Lists, Proper
<1>3. Len(received) \in Nat /\ Len(sent) \in Nat /\ Len(visible) \in Nat /\ Len(matches) \in Nat
  BY <1>2, SeqLen
<1>4. /\ req.cookie \in {-1} \cup Nat /\ req.sizeLimit \in Int /\ req.timeLimit \in Int
      /\ IsSeq(req.controls) /\ \A c \in ToSet(req.controls) : c.size \in Int
  BY <1>1, RequestsAssumption DEF Searching, BadCookie
<1>5. pageSize \in Int
  <2>1. IsSeq(Paged) /\ ToSet(Paged) \subseteq ToSet(req.controls)
    BY <1>4, AmongIs DEF Paged
  <2>2. CASE Paged = << >>
    BY <2>2 DEF pageSize
  <2>3. CASE Paged # << >>
    <3>1. Len(Paged) \in 1..Len(Paged)
      BY <2>1, <2>3 DEF IsSeq
    <3>2. Last(Paged) \in ToSet(Paged)
      BY <2>1, <3>1, InRange DEF Last
    <3> QED BY <1>4, <2>1, <2>3, <3>2 DEF pageSize
  <2> QED BY <2>2, <2>3
<1> QED BY <1>1, <1>2, <1>3, <1>4, <1>5

\* A request is answered without a page.
LEMMA AnswerExact ==
  ASSUME IInv, Exact, Undisturbed, Frame, pc # "finished", NEW rc, Answer(rc), CompareTold',
         Searching =>
           /\ Printed = << >>
           /\ req.sizeLimit > 0 => Len(sent) <= req.sizeLimit
           /\ \/ rc = Success /\ pageSize = 0
              \/ rc = "NoSuchObject" /\ ~BaseFound
              \/ rc = "InsufficientAccessRights" /\ ~Readable(tree, req.dn)
              \/ /\ rc \in {"ProtocolError", "UnavailableCriticalExtension"}
                 /\ controlFault # Success \/ req.cookie = BadCookie
  PROVE  Exact'
<1>1. /\ result' = rc /\ pc' = "answered" /\ cookie' = 0
      /\ check' = NoCheck
      /\ UNCHANGED <<tree, who, req, sent, received, seen, changes>>
  BY DEF Answer, Frame
<1>2. ExactNow
  BY DEF Exact
<1>3. Tried'
  <2>1. ~(NoCheck.rule > 0)
    BY DEF NoCheck
  <2> QED BY <1>1, <2>1 DEF Tried, Checked
<1>4. ASSUME Searching PROVE Scanned' /\ Follows' /\ Paging' /\ Told'
  <2>1. Follows /\ Paging
    BY <1>2, <1>4 DEF ExactNow
  <2>2. Follows' /\ Printed' = Printed
    BY <1>1, <2>1, StillFollows
  <2>3. Scanned'
    BY <1>1 DEF Scanned
  <2>4. Paging'
    BY <1>1, <1>4, <2>2 DEF Paging, InHand
  <2>5. Outcome'
    BY <1>1, <1>4, <2>2, SameQuestion, SameRights DEF Outcome, Success
  <2> QED BY <1>1, <2>2, <2>3, <2>4, <2>5 DEF Told
<1>5. ExactNow'
  BY <1>1, <1>2, <1>3, <1>4, SameQuestion DEF ExactNow
<1> QED BY <1>5 DEF Exact

\* handleSearch answers at once, finds the root DSE, or asks for the base.
LEMMA HandleSearchExact == ASSUME IInv, Exact, handleSearch PROVE Exact'
<1> SUFFICES ASSUME Undisturbed' PROVE Exact'
  BY DEF Exact
<1>1. Frame /\ pc = "search"
  BY DEF handleSearch, Frame
<1>2. Undisturbed /\ ExactNow
  BY <1>1 DEF Undisturbed, Frame, Exact
<1>3. controlFault \in {"UnavailableCriticalExtension", "ProtocolError", "Success"}
  <2>1. \A c : fault(c) \in {"UnavailableCriticalExtension", "ProtocolError", "Success"}
    BY DEF fault, Success
  <2> QED BY <2>1 DEF controlFault, Success
<1>4. ASSUME Searching
      PROVE  /\ Follows /\ Paging /\ (Printed # << >> => BaseRead)
             /\ req.sizeLimit > 0 => Len(sent) <= req.sizeLimit
  BY <1>2, <1>4 DEF ExactNow, Paging
<1>5. req.op = "search"
  BY <1>1 DEF IInv, Requested
<1>6. CASE req.filter = 0 /\ Answer("ProtocolError")
  <2>1. ~Searching
    BY <1>6 DEF Searching
  <2>2. CompareTold'
    BY <1>1, <1>2, <1>6, StillTold DEF Answer, Frame, ExactNow
  <2> QED BY <1>1, <1>2, <1>6, <2>1, <2>2, AnswerExact
<1>7. CASE req.filter # 0 /\ controlFault # Success /\ Answer(controlFault)
  <2>1. controlFault \in {"ProtocolError", "UnavailableCriticalExtension"}
    BY <1>3, <1>7 DEF Success
  <2>2. CompareTold'
    BY <1>1, <1>2, <1>7, <2>1, StillTold DEF Answer, Frame, ExactNow
  <2>3. Searching => Printed = << >>
    BY <1>4, <1>7 DEF BaseRead
  <2> QED BY <1>1, <1>2, <1>4, <1>7, <2>1, <2>2, <2>3, AnswerExact
<1>8. CASE /\ req.filter # 0 /\ req.dn # RootDse /\ ~found(tree, req.dn)
           /\ Answer("NoSuchObject")
  <2>1. ~BaseFound
    BY <1>8 DEF BaseFound, found
  <2>2. CompareTold'
    BY <1>1, <1>2, <1>8, StillTold DEF Answer, Frame, ExactNow
  <2>3. Searching => Printed = << >>
    BY <1>4, <2>1 DEF BaseRead
  <2> QED BY <1>1, <1>2, <1>4, <1>8, <2>1, <2>2, <2>3, AnswerExact
<1>9. CASE /\ req.filter # 0 /\ controlFault = Success /\ UNCHANGED <<result, cookie, matches, visible>>
           /\ \/ req.dn = RootDse /\ pc' = "find" /\ check' = check
              \/ found(tree, req.dn) /\ Checking(req.dn, "base")
  <2>1. /\ UNCHANGED <<tree, who, req, sent, received, seen, changes>>
        /\ UNCHANGED <<result, cookie, matches, visible>>
        /\ pc' \in {"find", "base"}
    BY <1>1, <1>9, CheckingFields DEF Frame
  <2>2. BaseFound /\ (pc' = "find" => BaseRead)
    BY <1>9, CheckingFields DEF BaseFound, BaseRead, found, Readable, maySearch
  <2>3. Searching /\ Follows /\ Paging /\ CompareTold
    BY <1>2, <1>4, <1>5, <1>9 DEF Searching, ExactNow
  <2>4. CompareTold'
    BY <2>1, <2>3, StillTold
  <2>5. Tried'
    <3>1. CASE pc' = "find"
      BY <3>1 DEF Tried, Checked
    <3>2. CASE pc' = "base"
      <4>1. check'.dn = req.dn /\ check'.rule = 1 /\ 1..(1 - 1) = {}
        BY <1>9, <3>2, CheckingFields
      <4> QED BY <2>1, <3>2, <4>1 DEF Tried
    <3> QED BY <2>1, <3>1, <3>2
  <2>6. Follows' /\ Printed' = Printed
    BY <1>1, <2>1, <2>3, StillFollows
  <2>7. Paging'
    BY <1>1, <1>9, <2>1, <2>2, <2>3, <2>6, SameQuestion DEF Paging, InHand
  <2>8. Scanned' /\ Told'
    BY <2>1 DEF Scanned, Told
  <2>9. ExactNow'
    BY <1>2, <2>1, <2>4, <2>5, <2>6, <2>7, <2>8 DEF ExactNow
  <2> QED BY <2>9 DEF Exact
<1> QED BY <1>6, <1>7, <1>8, <1>9 DEF handleSearch, work

\* The snapshot, none of it checked yet.
LEMMA FindExact == ASSUME IInv, Exact, find PROVE Exact'
<1> SUFFICES ASSUME Undisturbed' PROVE Exact'
  BY DEF Exact
<1>1. /\ pc = "find" /\ matches' = found_entries /\ visible' = << >>
      /\ UNCHANGED <<tree, who, req, cookie, sent, result, received, seen, changes>>
      /\ IF found_entries = << >> THEN pc' = "page" /\ check' = NoCheck
                                  ELSE Checking(Head(found_entries).dn, "entry")
  BY DEF find, local
<1>2. Undisturbed /\ ExactNow
  BY <1>1 DEF Undisturbed, Exact
<1>3. Searching /\ req \in Requests /\ tree \in Trees
  BY <1>1 DEF IInv, Requested, Types, Searching
<1>4. Follows /\ Paging /\ CompareTold
  BY <1>2, <1>3 DEF ExactNow
<1>5. /\ IsSeq(found_entries) /\ IsSeq(Found) /\ Len(Found) = Len(found_entries)
      /\ \A i \in 1..Len(found_entries) : Found[i] = found_entries[i].dn
      /\ Among(Found, ReadableNow) = Wanted(tree)
  BY <1>3, FoundIs DEF Searching
<1>6. Len(Found) \in Nat
  BY <1>5, SeqLen
<1>7. pc' = "page" \/ (pc' = "entry" /\ check'.rule = 1)
  BY <1>1, CheckingFields
<1>8. Tried'
  <2>1. 1..(1 - 1) = {}
    OBVIOUS
  <2> QED BY <1>7, <2>1 DEF Tried, Checked
<1>9. CompareTold'
  BY <1>1, <1>4, StillTold
<1>10. Follows' /\ Printed' = Printed
  BY <1>1, <1>4, <1>7, StillFollows
<1>11. Paging'
  BY <1>1, <1>4, <1>7, <1>10, SameQuestion DEF Paging, InHand
<1>12. Told'
  BY <1>7 DEF Told
<1>13. Scanned'
  <2>1. CASE pc' = "entry"
    <3>1. Found' = Found /\ ReadableNow' = ReadableNow /\ Len(matches') = Len(Found)
      BY <1>1, <1>5, SameQuestion
    <3>2. Len(Found) - Len(Found) = 0 /\ Len(Found) <= Len(Found) /\ \A i \in 1..Len(Found) : 0 + i = i
      BY <1>6
    <3>3. kept(Found, ReadableNow)[0] = << >> /\ Dns(visible') = << >>
      BY <1>1, <1>5, KeptStart, DnsEmpty
    <3> QED BY <1>1, <1>5, <2>1, <3>1, <3>2, <3>3 DEF Scanned
  <2>2. CASE pc' = "page"
    <3>1. found_entries = << >>
      BY <1>1, <2>2, CheckingFields
    <3>2. Len(Found) = 0
      BY <1>5, <3>1
    <3>3. Wanted(tree) = << >>
      BY <1>5, <3>2, KeptStart DEF Among
    <3> QED BY <1>1, <2>2, <3>3, DnsEmpty, SameQuestion DEF Scanned
  <2> QED BY <1>7, <2>1, <2>2
<1>14. ExactNow'
  BY <1>1, <1>2, <1>8, <1>9, <1>10, <1>11, <1>12, <1>13 DEF ExactNow
<1> QED BY <1>14 DEF Exact

-----------------------------------------------------------------------------
(* The access checks.                                                      *)

\* One more entry of the snapshot has been decided on.
LEMMA EntryExact ==
  ASSUME IInv, Exact, Undisturbed, Frame, pc = "entry", UNCHANGED <<result, cookie>>,
         matches' = Tail(matches), NextMatch,
         \/ Readable(tree, check.dn) /\ visible' = Append(visible, Head(matches))
         \/ ~Readable(tree, check.dn) /\ visible' = visible
  PROVE  Exact'
<1>1. UNCHANGED <<tree, who, req, sent, received, seen, changes, result, cookie>>
  BY DEF Frame
<1>2. Searching /\ ExactNow /\ pc # "idle"
  BY DEF IInv, Requested, Searching, Exact
<1>3. Scanned /\ Follows /\ Paging /\ CompareTold
  BY <1>2 DEF ExactNow
<1>4. /\ req \in Requests /\ tree \in Trees /\ IsSeq(visible) /\ IsSeq(matches)
      /\ Len(matches) \in Nat
  BY <1>2, Indices
<1>5. matches # << >> /\ check.dn = Head(matches).dn
  BY DEF IInv, Checks
<1>6. /\ IsSeq(Found) /\ Among(Found, ReadableNow) = Wanted(tree) /\ Len(Found) \in Nat
  BY <1>2, <1>4, FoundIs, SeqLen DEF Searching
<1> DEFINE k == Len(Found) - Len(matches)
           K == kept(Found, ReadableNow)
<1>7. /\ Len(matches) <= Len(Found) /\ Dns(visible) = K[k]
      /\ \A i \in 1..Len(matches) : matches[i].dn = Found[k + i]
  BY <1>3 DEF Scanned
<1>8. /\ Len(matches) >= 1 /\ Head(matches) = matches[1]
      /\ Len(matches') = Len(matches) - 1
      /\ \A i \in 1..Len(matches') : matches'[i] = matches[i + 1]
  BY <1>4, <1>5 DEF IsSeq
<1>9. k \in Nat /\ k + 1 \in 1..Len(Found) /\ Len(Found) - Len(matches') = k + 1
  <2> DEFINE a == Len(matches)
             b == Len(Found)
             c == Len(matches')
  <2>1. a \in Nat /\ b \in Nat /\ a <= b /\ a >= 1 /\ c = a - 1
    BY <1>4, <1>6, <1>7, <1>8
  <2> HIDE DEF a, b, c
  <2>2. b - a \in Nat /\ (b - a) + 1 \in 1..b /\ b - c = (b - a) + 1
    BY <2>1
  <2> QED BY <2>2 DEF a, b, c
<1>10. Found[k + 1] = check.dn
  BY <1>5, <1>7, <1>8
<1>11. check.dn \in ReadableNow <=> Readable(tree, check.dn)
  <2>1. Head(matches) \in ToSet(matches)
    BY <1>4, <1>5, TailIs
  <2>2. check.dn \in Names \cup {RootDse}
    BY <1>5, <2>1 DEF IInv, Lists, Proper
  <2> QED BY <2>2 DEF ReadableNow
<1>12. Dns(visible') = K[k + 1]
  <2> DEFINE n == k + 1
  <2>1. n \in 1..Len(Found) /\ n - 1 = k /\ Found[n] = check.dn
    BY <1>9, <1>10
  <2> HIDE DEF n, k
  <2>2. K[n] = IF Found[n] \in ReadableNow THEN Append(K[n - 1], Found[n]) ELSE K[n - 1]
    BY <1>6, <2>1, KeptNext
  <2>3. Dns(Append(visible, Head(matches))) = Append(Dns(visible), check.dn)
    BY <1>4, <1>5, DnsAppend
  <2> HIDE DEF K
  <2> QED BY <1>7, <1>11, <2>1, <2>2, <2>3 DEF n
<1>13. Found' = Found /\ ReadableNow' = ReadableNow /\ Wanted(tree)' = Wanted(tree)
  BY <1>1, SameQuestion
<1>14. \A i \in 1..Len(matches') : matches'[i].dn = Found[(k + 1) + i]
  <2> TAKE i \in 1..Len(matches')
  <2>1. i + 1 \in 1..Len(matches) /\ k + (i + 1) = (k + 1) + i
    BY <1>4, <1>8, <1>9
  <2>2. matches'[i] = matches[i + 1] /\ matches[i + 1].dn = Found[k + (i + 1)]
    BY <1>7, <1>8, <2>1
  <2> QED BY <2>1, <2>2
<1>15. \/ pc' = "page" /\ matches' = << >>
       \/ pc' = "entry" /\ check'.rule = 1
  BY CheckingFields DEF NextMatch
<1>16. Scanned'
  <2>1. CASE pc' = "entry"
    <3>1. Len(matches') <= Len(Found)
      BY <1>4, <1>6, <1>7, <1>8
    <3> HIDE DEF k
    <3> QED BY <1>9, <1>12, <1>13, <1>14, <2>1, <3>1 DEF Scanned
  <2>2. CASE pc' = "page" /\ matches' = << >>
    <3>1. Len(<< >>) = 0
      OBVIOUS
    <3>2. Len(matches') = 0
      BY <2>2, <3>1
    <3> HIDE DEF k
    <3>3. k + 1 = Len(Found)
      <4> DEFINE b == Len(Found)
                 c == Len(matches')
      <4>1. b \in Nat /\ k \in Nat /\ c = 0 /\ b - c = k + 1
        BY <1>6, <1>9, <3>2
      <4> HIDE DEF b, c
      <4>2. k + 1 = b
        BY <4>1
      <4> QED BY <4>2 DEF b
    <3>4. Dns(visible') = Wanted(tree)
      BY <1>6, <1>12, <3>3 DEF Among
    <3> QED BY <1>13, <2>2, <3>4 DEF Scanned
  <2> QED BY <1>15, <2>1, <2>2
<1> HIDE DEF k, K
<1>17. Tried'
  <2>1. 1..(1 - 1) = {}
    OBVIOUS
  <2> QED BY <1>15, <2>1 DEF Tried, Checked
<1>18. CompareTold'
  BY <1>1, <1>3, StillTold
<1>19. Follows' /\ Printed' = Printed
  BY <1>1, <1>3, <1>15, StillFollows
<1>20. Paging'
  BY <1>1, <1>3, <1>15, <1>19, SameQuestion DEF Paging, InHand
<1>21. Told'
  BY <1>15 DEF Told
<1>22. ExactNow'
  BY <1>1, <1>2, <1>16, <1>17, <1>18, <1>19, <1>20, <1>21 DEF ExactNow
<1> QED BY <1>22 DEF Exact

\* The base of a search, or the entry of a compare, may be read.
LEMMA BaseExact ==
  ASSUME IInv, Exact, Undisturbed, Frame, pc \in {"base", "compare"}, Readable(tree, check.dn),
         pc' = IF pc = "base" THEN "find" ELSE "value", check' = NoCheck,
         UNCHANGED <<result, cookie, matches, visible>>
  PROVE  Exact'
<1>1. /\ UNCHANGED <<tree, who, req, sent, received, seen, changes, result, cookie>>
      /\ pc' \in {"find", "value"} /\ (pc = "base") = (pc' = "find")
  BY DEF Frame
<1>2. ExactNow
  BY DEF Exact
<1>3. Tried'
  BY <1>1, <1>2 DEF ExactNow, Tried, Checked
<1>4. CompareTold'
  BY <1>1, <1>2, StillTold DEF ExactNow
<1>5. ASSUME Searching PROVE Scanned' /\ Follows' /\ Paging' /\ Told'
  <2>1. Follows /\ Paging /\ Tried
    BY <1>2, <1>5 DEF ExactNow
  <2>2. Follows' /\ Printed' = Printed
    BY <1>1, <2>1, StillFollows
  <2>3. pc = "base" => BaseRead
    BY <2>1 DEF Paging, BaseRead, Tried
  <2>4. Paging'
    BY <1>1, <2>1, <2>2, <2>3, SameQuestion DEF Paging, InHand
  <2> QED BY <1>1, <2>2, <2>4 DEF Scanned, Told
<1>6. ExactNow'
  BY <1>1, <1>2, <1>3, <1>4, <1>5, SameQuestion DEF ExactNow
<1> QED BY <1>6 DEF Exact

\* A name is granted because some rule grants it.
LEMMA GrantedExact ==
  ASSUME IInv, Exact, Undisturbed, Frame, pc \in Checked, Granted, Readable(tree, check.dn)
  PROVE  Exact'
<1>1. CASE pc = "entry"
  <2>1. /\ visible' = Append(visible, Head(matches)) /\ matches' = Tail(matches)
        /\ UNCHANGED <<result, cookie>>
        /\ IF Tail(matches) = << >> THEN pc' = "page" /\ check' = NoCheck
           ELSE Checking(matches[2].dn, "entry")
    BY <1>1 DEF Granted
  <2>2. IsSeq(matches) /\ matches # << >>
    BY <1>1 DEF IInv, Lists, Checks, Proper
  <2>3. NextMatch
    BY <2>1, <2>2, TailIs DEF NextMatch
  <2> QED BY <1>1, <2>1, <2>3, EntryExact
<1>2. CASE pc # "entry"
  BY <1>2, BaseExact DEF Granted, Checked
<1> QED BY <1>1, <1>2

\* A name is denied when every rule has been tried.
LEMMA DeniedExact ==
  ASSUME IInv, Exact, Undisturbed, Frame, pc \in Checked, check.rule > 0, Denied,
         ~Readable(tree, check.dn)
  PROVE  Exact'
<1>1. CASE pc = "entry"
  <2>1. /\ matches' = Tail(matches)
        /\ UNCHANGED <<result, cookie, visible>>
        /\ IF Tail(matches) = << >> THEN pc' = "page" /\ check' = NoCheck
           ELSE Checking(matches[2].dn, "entry")
    BY <1>1 DEF Denied
  <2>2. IsSeq(matches) /\ matches # << >>
    BY <1>1 DEF IInv, Lists, Checks, Proper
  <2>3. NextMatch
    BY <2>1, <2>2, TailIs DEF NextMatch
  <2> QED BY <1>1, <2>1, <2>3, EntryExact
<1>2. CASE pc # "entry"
  <2>1. Answer("InsufficientAccessRights") /\ pc # "finished" /\ pc # "idle" /\ pc \in {"base", "compare"}
    BY <1>2 DEF Denied, Checked
  <2>2. ExactNow
    BY DEF Exact
  <2>3. CompareTold'
    BY <2>1, <2>2, StillTold DEF Answer, Frame, ExactNow
  <2>4. check.dn = req.dn
    BY <2>1, <2>2 DEF ExactNow, Tried, IInv, Checks
  <2>5. Searching => Printed = << >> /\ (req.sizeLimit > 0 => Len(sent) <= req.sizeLimit)
    BY <2>2, <2>4 DEF ExactNow, Paging, BaseRead
  <2> QED BY <2>1, <2>3, <2>4, <2>5, AnswerExact
<1> QED BY <1>1, <1>2

\* The check goes on: no rule so far grants the name.
LEMMA GoesOnExact ==
  ASSUME IInv, Exact, Undisturbed, Frame, pc \in Checked, check.rule > 0,
         UNCHANGED <<pc, result, cookie, matches, visible>>,
         check'.dn = check.dn, check'.rule > 0,
         \A i \in 1..(check'.rule - 1) : ~Grants(Rules[i], check.dn)
  PROVE  Exact'
<1>1. UNCHANGED <<tree, who, req, sent, received, seen, changes, result, cookie, pc, matches, visible>>
  BY DEF Frame
<1>2. ExactNow
  BY DEF Exact
<1>3. Tried'
  BY <1>1, <1>2, SameRights DEF Tried, ExactNow
<1>4. CompareTold'
  BY <1>1, <1>2, StillTold DEF ExactNow
<1>5. ASSUME Searching PROVE Scanned' /\ Follows' /\ Paging' /\ Told'
  <2>1. Follows /\ Paging /\ Scanned
    BY <1>2, <1>5 DEF ExactNow
  <2>2. Follows' /\ Printed' = Printed
    BY <1>1, <2>1, StillFollows
  <2>3. Paging'
    BY <1>1, <2>1, <2>2, SameQuestion DEF Paging
  <2>4. Scanned'
    BY <1>1, <2>1, SameQuestion DEF Scanned
  <2>5. Told'
    BY <1>1 DEF Told, Checked
  <2> QED BY <2>2, <2>3, <2>4, <2>5
<1>6. ExactNow'
  BY <1>1, <1>2, <1>3, <1>4, <1>5, SameQuestion DEF ExactNow
<1> QED BY <1>6 DEF Exact

\* A rule that does not grant the name has been tried.
LEMMA NextRuleExact ==
  ASSUME IInv, Exact, Undisturbed, Frame, pc \in Checked, check.rule > 0, NextRule,
         ~Grants(Rules[check.rule], check.dn)
  PROVE  Exact'
<1> DEFINE n == check.rule + 1
<1>0. check.rule \in Nat /\ n > 0 /\ n - 1 = check.rule
  BY DEF IInv, Types
<1>1. check' = [check EXCEPT !.rule = n, !.group = << >>]
  BY DEF NextRule
<1> HIDE DEF n
<1>2. check'.dn = check.dn /\ check'.rule = n
  BY <1>1 DEF IInv, Checks
<1>3. \A i \in 1..(check.rule - 1) : ~Grants(Rules[i], check.dn)
  BY DEF Exact, ExactNow, Tried
<1>4. \A i \in 1..(n - 1) : ~Grants(Rules[i], check.dn)
  <2>1. \A i \in 1..(n - 1) : i = check.rule \/ i \in 1..(check.rule - 1)
    BY <1>0
  <2> QED BY <1>3, <2>1
<1>5. UNCHANGED <<pc, result, cookie, matches, visible>>
  BY DEF NextRule
<1> QED BY <1>0, <1>2, <1>4, <1>5, GoesOnExact

\* A rule that grants a name makes it readable; when none does, it is not.
LEMMA RuleGrants ==
  ASSUME NEW i \in DOMAIN Rules, NEW d, Grants(Rules[i], d)
  PROVE  Readable(tree, d)
  BY DEF Grants, Readable, maySearch, ToSet

\* A rule is tried, or the group it names is read.
LEMMA RuleExact == ASSUME IInv, Exact, maySearchRule PROVE Exact'
<1> SUFFICES ASSUME Undisturbed' PROVE Exact'
  BY DEF Exact
<1>0. /\ Frame /\ pc \in Checked /\ check.rule > 0 /\ pc # "idle"
  BY DEF maySearchRule, Frame, Checked
<1>00. Undisturbed /\ ExactNow
  BY <1>0 DEF Undisturbed, Frame, Exact
<1>1. CASE Open
  <2>1. Granted
    BY <1>1 DEF maySearchRule
  <2>2. Readable(tree, check.dn)
    <3>1. ToSet(<< >>) = {}
      BY EmptyIs
    <3> QED BY <1>1, <3>1 DEF Open, Readable, maySearch
  <2> QED BY <1>0, <1>00, <2>1, <2>2, GrantedExact
<1>2. CASE ~Open /\ check.rule > Len(Rules)
  <2>1. Denied
    BY <1>2 DEF maySearchRule
  <2>2. \A i \in DOMAIN Rules : ~Grants(Rules[i], check.dn)
    <3>1. \A i \in 1..(check.rule - 1) : ~Grants(Rules[i], check.dn)
      BY <1>0, <1>00 DEF ExactNow, Tried
    <3>2. \A i \in DOMAIN Rules : i \in 1..(check.rule - 1)
      BY <1>2, RulesAre DEF IInv, Types
    <3> QED BY <3>1, <3>2
  <2>3. ToSet(Rules) # {}
    <3>1. Rules \in Seq(ToSet(Rules)) /\ Rules # << >>
      BY <1>2, RulesAssumption DEF IsSeq, Open
    <3>2. 1 \in DOMAIN Rules
      BY <3>1
    <3> QED BY <3>2 DEF ToSet
  <2>4. ~Readable(tree, check.dn)
    BY <1>2, <2>2, <2>3 DEF Open, Readable, maySearch, Grants, ToSet
  <2> QED BY <1>0, <1>00, <2>1, <2>4, DeniedExact
<1>3. CASE ~Open /\ ~(check.rule > Len(Rules))
  <2>0. check.rule \in DOMAIN Rules
    BY <1>0, <1>3, RulesAre DEF IInv, Types
  <2>1. CASE NextRule /\ ~Grants(Rules[check.rule], check.dn)
    BY <1>0, <1>00, <2>1, NextRuleExact
  <2>2. CASE /\ check' = [check EXCEPT !.group = <<tree[rule.who.dn]>>]
             /\ UNCHANGED <<pc, result, cookie, matches, visible>>
    <3>1. check'.dn = check.dn /\ check'.rule = check.rule
      BY <2>2 DEF IInv, Checks
    <3>2. \A i \in 1..(check.rule - 1) : ~Grants(Rules[i], check.dn)
      BY <1>0, <1>00 DEF ExactNow, Tried
    <3> QED BY <1>0, <1>00, <2>2, <3>1, <3>2, GoesOnExact
  <2>3. CASE Granted /\ Grants(Rules[check.rule], check.dn)
    BY <1>0, <1>00, <2>0, <2>3, RuleGrants, GrantedExact
  <2>4. ASSUME rule.who.kind = "group", ~(who # RootDse /\ found(tree, rule.who.dn))
        PROVE  ~Grants(Rules[check.rule], check.dn)
    BY <2>4 DEF Grants, whoMatches, inGroup, rule
  <2> QED BY <1>3, <2>1, <2>2, <2>3, <2>4 DEF maySearchRule, Grants, rule
<1> QED BY <1>1, <1>2, <1>3

\* Putting an entry where it is changes nothing that a group rule reads.
LEMMA PutSame ==
  ASSUME NEW t, NEW g, found(t, g), NEW w
  PROVE  inGroup(Put(t, g, t[g]), w, g) <=> inGroup(t, w, g)
<1> DEFINE u == Put(t, g, t[g])
<1>1. DOMAIN u = DOMAIN t /\ \A d \in DOMAIN t : u[d] = t[d]
  BY DEF Put, found
<1> HIDE DEF u
<1>2. \A d : found(u, d) <=> found(t, d)
  BY <1>1 DEF found
<1>3. \A d, a, v : Holds(u, d, a, v) <=> Holds(t, d, a, v)
  BY <1>1 DEF Holds, found
<1>4. memberName(u, w) = memberName(t, w)
  BY <1>1 DEF memberName, found
<1>5. inGroup(u, w, g) <=> inGroup(t, w, g)
  BY <1>2, <1>3, <1>4 DEF inGroup
<1> QED BY <1>5 DEF u

\* A group rule is decided on, with the group read before.
LEMMA UserExact == ASSUME IInv, Exact, maySearchUser PROVE Exact'
<1> SUFFICES ASSUME Undisturbed' PROVE Exact'
  BY DEF Exact
<1>0. Frame /\ check.group # << >>
  BY DEF maySearchUser, Frame
<1>1. /\ pc \in Checked /\ check.rule \in DOMAIN Rules /\ check.rule > 0 /\ pc # "idle"
      /\ GroupRead(rule)
  BY <1>0, RulesAre DEF IInv, Checks, Checked, rule
<1>2. Undisturbed /\ ExactNow
  BY <1>0, <1>1 DEF Undisturbed, Frame, Exact
<1>3. PICK t \in seen : found(t, rule.who.dn) /\ check.group = <<t[rule.who.dn]>>
  BY <1>1 DEF GroupRead
<1>4. t = tree /\ check.group[1] = tree[rule.who.dn] /\ rule.who.kind = "group"
  BY <1>1, <1>2, <1>3 DEF ExactNow, GroupRead
<1>5. whoMatches(rule, Put(tree, rule.who.dn, check.group[1]), who) <=> whoMatches(rule, tree, who)
  BY <1>3, <1>4, PutSame DEF whoMatches
<1>6. CASE Granted /\ Grants(Rules[check.rule], check.dn)
  BY <1>0, <1>1, <1>2, <1>6, RuleGrants, GrantedExact
<1>7. CASE NextRule /\ ~Grants(Rules[check.rule], check.dn)
  BY <1>0, <1>1, <1>2, <1>7, NextRuleExact
<1> QED BY <1>5, <1>6, <1>7 DEF maySearchUser, Grants, rule

-----------------------------------------------------------------------------
(* The loop of a page.                                                     *)

\* A page begins where the cookie says.
LEMMA BeginPageExact == ASSUME IInv, Exact, beginPage PROVE Exact'
<1> SUFFICES ASSUME Undisturbed' PROVE Exact'
  BY DEF Exact
<1>1. Frame /\ pc = "page"
  BY DEF beginPage, Frame
<1>2. Undisturbed /\ ExactNow /\ Searching
  BY <1>1 DEF Undisturbed, Frame, Exact, IInv, Requested, Searching
<1>3. Scanned /\ Follows /\ Paging /\ CompareTold
  BY <1>2 DEF ExactNow
<1>4. /\ cookie = req.cookie + Len(received) /\ sent = << >>
      /\ req.sizeLimit > 0 => Len(sent) <= req.sizeLimit
  BY <1>1, <1>3 DEF Paging, InHand
<1>5. /\ Len(received) \in Nat /\ req.cookie \in {-1} \cup Nat /\ IsSeq(received)
  BY <1>1, <1>2, Indices
<1>6. Printed = received
  <2>1. received \o << >> = received
    BY <1>5 DEF IsSeq
  <2> QED BY <1>1, <1>4, <2>1 DEF Printed
<1>7. CASE cookie = BadCookie /\ Answer("ProtocolError")
  <2>1. req.cookie = BadCookie /\ Len(received) = 0
    BY <1>4, <1>5, <1>7 DEF BadCookie
  <2>2. Printed = << >>
    BY <1>5, <1>6, <2>1 DEF IsSeq
  <2>3. CompareTold'
    BY <1>1, <1>3, <1>7, StillTold DEF Answer, Frame
  <2> QED BY <1>1, <1>2, <1>4, <1>7, <2>1, <2>2, <2>3, AnswerExact
<1>8. CASE pageSize = 0 /\ Answer(Success)
  <2>1. Printed = << >>
    BY <1>3, <1>8 DEF Paging
  <2>2. CompareTold'
    BY <1>1, <1>3, <1>8, StillTold DEF Answer, Frame, Success
  <2> QED BY <1>1, <1>2, <1>4, <1>8, <2>1, <2>2, AnswerExact
<1>9. CASE pageSize # 0 /\ pc' = "loop" /\ UNCHANGED <<result, cookie, check, matches, visible>>
  <2>1. UNCHANGED <<tree, who, req, sent, received, seen, changes, result, cookie, check, visible>>
    BY <1>1, <1>9 DEF Frame
  <2>2. Tried'
    BY <1>9 DEF Tried, Checked
  <2>3. CompareTold'
    BY <1>3, <2>1, StillTold
  <2>4. Follows' /\ Printed' = Printed
    BY <1>1, <1>3, <1>9, <2>1, StillFollows
  <2>5. Paging'
    BY <1>1, <1>3, <1>9, <2>1, <2>4, SameQuestion DEF Paging, InHand
  <2>6. Scanned' /\ Told'
    BY <1>1, <1>3, <1>9, <2>1, SameQuestion DEF Scanned, Told
  <2>7. ExactNow'
    BY <1>2, <2>1, <2>2, <2>3, <2>4, <2>5, <2>6 DEF ExactNow
  <2> QED BY <2>7 DEF Exact
<1> QED BY <1>7, <1>8, <1>9 DEF beginPage, work

\* Where the loop is: at the next of the entries wanted.
LEMMA LoopFacts ==
  ASSUME IInv, ExactNow, pc = "loop"
  PROVE  /\ Searching /\ Follows /\ Paging /\ CompareTold
         /\ IsSeq(received) /\ IsSeq(sent) /\ IsSeq(visible)
         /\ Printed = received \o sent /\ Position = cookie + Len(sent)
         /\ Len(Printed) = Len(received) + Len(sent)
         /\ cookie \in Nat /\ Len(sent) \in Nat /\ pageSize \in Int /\ pageSize # 0 /\ req.sizeLimit \in Int
         /\ Len(visible) \in Nat /\ Len(visible) = Len(Wanted(tree))
         /\ \A i \in 1..Len(visible) : visible[i].dn = Wanted(tree)[i]
         /\ req.cookie \in Nat /\ Position \in Nat /\ Len(received) \in Nat
<1>1. Searching /\ Scanned /\ Follows /\ Paging /\ CompareTold
  BY DEF IInv, Requested, Searching, ExactNow
<1>2. /\ Len(received) \in Nat /\ Len(sent) \in Nat /\ Len(visible) \in Nat
      /\ IsSeq(received) /\ IsSeq(sent) /\ IsSeq(visible)
      /\ req.cookie \in {-1} \cup Nat /\ pageSize \in Int /\ req.sizeLimit \in Int
  BY <1>1, Indices
<1>3. cookie = req.cookie + Len(received) /\ pageSize # 0 /\ cookie \in Nat
  BY <1>1 DEF Paging, InHand, IInv, Requested
<1>4. Printed = received \o sent
  BY DEF Printed
<1>5. Len(Printed) = Len(received) + Len(sent) /\ (received # << >> => Printed # << >>)
  <2> DEFINE A == ToSet(received) \cup ToSet(sent)
  <2>1. received \in Seq(A) /\ sent \in Seq(A)
    BY <1>2 DEF IsSeq
  <2> HIDE DEF A
  <2>2. Len(received \o sent) = Len(received) + Len(sent)
    BY <2>1
  <2>3. received # << >> => Len(received) # 0
    BY <2>1
  <2>4. received \o sent = << >> => Len(received \o sent) = 0
    OBVIOUS
  <2> QED BY <1>2, <1>4, <2>2, <2>3, <2>4
<1>6. req.cookie \in Nat
  <2>1. CASE received = << >>
    <3>1. Len(received) = 0
      BY <2>1
    <3> QED BY <1>2, <1>3, <3>1
  <2>2. CASE received # << >>
    BY <1>1, <1>5, <2>2 DEF Follows
  <2> QED BY <2>1, <2>2
<1>7. Position = cookie + Len(sent) /\ Position \in Nat
  <2> HIDE DEF Printed
  <2> QED BY <1>2, <1>3, <1>5, <1>6 DEF Position
<1>8. Dns(visible) = Wanted(tree)
  BY <1>1 DEF Scanned
<1>9. Len(visible) = Len(Wanted(tree)) /\ \A i \in 1..Len(visible) : visible[i].dn = Wanted(tree)[i]
  BY <1>2, <1>8, DnsIs
<1> QED BY <1>1, <1>2, <1>3, <1>4, <1>5, <1>6, <1>7, <1>9

\* The end of a page says how the page ended.
LEMMA DoneExact ==
  ASSUME IInv, Exact, Undisturbed, Frame, pc = "loop", NEW rc, done(rc),
         \/ rc = "TimeLimitExceeded" /\ More /\ req.timeLimit > 0
         \/ rc = "SizeLimitExceeded" /\ More /\ AtSizeLimit
         \/ rc = Success /\ ~(More /\ AtSizeLimit) /\ (~More \/ AtSizeLimit \/ AtPageEnd)
  PROVE  Exact'
<1>1. /\ result' = rc /\ pc' = "answered" /\ cookie' = nextCookie(rc) /\ check' = NoCheck
      /\ UNCHANGED <<tree, who, req, sent, received, seen, changes>>
  BY DEF done, Frame
<1>2. ExactNow
  BY DEF Exact
<1>3. /\ Searching /\ Follows /\ Paging /\ CompareTold
      /\ Position = cookie + Len(sent) /\ Position \in Nat /\ req.cookie \in Nat
      /\ cookie \in Nat /\ Len(sent) \in Nat /\ pageSize \in Int /\ pageSize # 0
      /\ Len(visible) = Len(Wanted(tree)) /\ Len(visible) \in Nat /\ req.sizeLimit \in Int
  BY <1>2, LoopFacts
<1>4. Tried'
  BY <1>1 DEF Tried, Checked
<1>5. CompareTold'
  BY <1>1, <1>3, StillTold DEF Success
<1>6. Follows' /\ Printed' = Printed /\ Position' = Position
  BY <1>1, <1>3, StillFollows
<1>7. Paging'
  BY <1>1, <1>3, <1>6, SameQuestion DEF Paging, InHand
<1>8. Scanned'
  BY <1>1 DEF Scanned
<1> DEFINE W == Len(Wanted(tree))
<1>9. /\ Wanted(tree)' = Wanted(tree) /\ pageSize' = pageSize
  BY <1>1, SameQuestion
<1>10. More <=> Position < W
  BY <1>3 DEF More
<1>11. Outcome'
  <2>1. CASE rc = "TimeLimitExceeded"
    BY <1>1, <1>3, <1>6, <1>9, <1>10, <2>1 DEF Outcome, Success
  <2>2. CASE rc = "SizeLimitExceeded"
    <3>1. More /\ AtSizeLimit
      BY <2>2 DEF Success
    <3>2. Len(sent) = req.sizeLimit
      BY <1>3, <3>1 DEF AtSizeLimit, Paging
    <3> QED BY <1>1, <1>3, <1>6, <1>9, <1>10, <2>2, <3>1, <3>2 DEF Outcome, Success
  <2>3. CASE rc = Success
    <3>0. ~(More /\ AtSizeLimit) /\ (~More \/ AtSizeLimit \/ AtPageEnd)
      BY <2>3 DEF Success
    <3>1. nextCookie(rc) = IF pageSize > 0 /\ Position < W THEN Position ELSE 0
      BY <1>3, <2>3 DEF nextCookie, Success
    <3>2. CASE ~More
      <4>1. Position >= W /\ cookie' = 0
        BY <1>1, <1>3, <1>10, <3>1, <3>2
      <4> QED BY <1>1, <1>3, <1>6, <1>9, <2>3, <4>1 DEF Outcome, Success
    <3>3. CASE More
      <4>1. AtPageEnd
        BY <3>0, <3>3
      <4>2. cookie' = Position /\ Position # 0
        BY <1>1, <1>3, <1>10, <3>1, <3>3, <4>1 DEF AtPageEnd
      <4> QED BY <1>1, <1>6, <2>3, <4>2 DEF Outcome, Success
    <3> QED BY <3>2, <3>3
  <2> QED BY <2>1, <2>2, <2>3
<1>12. Told'
  BY <1>1, <1>11 DEF Told
<1>13. ExactNow'
  BY <1>1, <1>2, <1>4, <1>5, <1>6, <1>7, <1>8, <1>12 DEF ExactNow
<1> QED BY <1>13 DEF Exact

\* The next of the entries wanted is sent.
LEMMA SendExact == ASSUME IInv, Exact, sendEntry PROVE Exact'
<1> SUFFICES ASSUME Undisturbed' PROVE Exact'
  BY DEF Exact
<1> DEFINE s == toSearchEntry(visible[cookie + Len(sent) + 1])
<1>1. /\ pc = "loop" /\ More /\ ~AtSizeLimit /\ sent' = Append(sent, s)
      /\ UNCHANGED <<tree, who, req, cookie, pc, check, matches, visible, result, received, seen, changes>>
  BY DEF sendEntry, local, work
<1>2. Undisturbed /\ ExactNow
  BY <1>1 DEF Undisturbed, Exact
<1>3. /\ Searching /\ Follows /\ Paging /\ CompareTold
      /\ IsSeq(received) /\ IsSeq(sent) /\ IsSeq(visible)
      /\ Printed = received \o sent /\ Position = cookie + Len(sent)
      /\ Len(Printed) = Len(received) + Len(sent)
      /\ cookie \in Nat /\ Len(sent) \in Nat /\ req.sizeLimit \in Int
      /\ Len(visible) \in Nat /\ Len(visible) = Len(Wanted(tree))
      /\ \A i \in 1..Len(visible) : visible[i].dn = Wanted(tree)[i]
      /\ req.cookie \in Nat /\ Position \in Nat /\ Len(received) \in Nat
  BY <1>1, <1>2, LoopFacts
<1>4. s.dn = Wanted(tree)[Position + 1] /\ Position + 1 <= Len(Wanted(tree))
  <2>1. cookie + Len(sent) + 1 = Position + 1 /\ Position + 1 \in 1..Len(visible)
    BY <1>1, <1>3 DEF More
  <2>2. s.dn = visible[cookie + Len(sent) + 1].dn
    BY DEF toSearchEntry, Entry
  <2>3. visible[Position + 1].dn = Wanted(tree)[Position + 1]
    BY <1>3, <2>1
  <2> HIDE DEF s
  <2> QED BY <1>3, <2>1, <2>2, <2>3
<1> HIDE DEF s
<1>5. Printed' = Append(Printed, s)
  <2> DEFINE A == ToSet(received) \cup ToSet(sent) \cup {s}
  <2>1. received \in Seq(A) /\ sent \in Seq(A) /\ s \in A
    BY <1>3 DEF IsSeq
  <2> HIDE DEF A
  <2>2. received \o Append(sent, s) = Append(received \o sent, s)
    BY <2>1
  <2> QED BY <1>1, <1>3, <2>2 DEF Printed
<1>6. IsSeq(Printed)
  BY <1>3, ConcatIs
<1> DEFINE P == Printed
           Q == Printed'
<1>7. Len(Q) = Len(P) + 1 /\ Q[Len(P) + 1] = s /\ \A i \in 1..Len(P) : Q[i] = P[i]
  <2>1. P \in Seq(ToSet(P) \cup {s}) /\ s \in ToSet(P) \cup {s} /\ Q = Append(P, s)
    BY <1>5, <1>6 DEF IsSeq
  <2> HIDE DEF P, Q
  <2> QED BY <2>1
<1>8. Len(P) \in Nat /\ Position = req.cookie + Len(P) /\ Position' = req.cookie + Len(Q)
  <2>1. Position = req.cookie + Len(P) /\ Position' = req.cookie + Len(Q)
    BY <1>1 DEF Position
  <2> QED BY <1>3, <2>1
<1>9. Wanted(tree)' = Wanted(tree)
  BY <1>1, SameQuestion
<1> HIDE DEF P, Q
<1>10. Position' = Position + 1
  <2> DEFINE c == req.cookie
             n == Len(P)
             m == Len(Q)
  <2>1. c \in Nat /\ n \in Nat /\ m = n + 1 /\ Position = c + n /\ Position' = c + m
    BY <1>3, <1>7, <1>8
  <2> HIDE DEF c, n, m
  <2> QED BY <2>1
<1>11. \A i \in 1..Len(Q) : Q[i].dn = Wanted(tree)[req.cookie + i]
  <2> TAKE i \in 1..Len(Q)
  <2>1. i \in 1..Len(P) \/ i = Len(P) + 1
    BY <1>7, <1>8
  <2>2. CASE i \in 1..Len(P)
    BY <1>3, <1>7, <2>2 DEF Follows, P
  <2>3. CASE i = Len(P) + 1
    <3>1. req.cookie + i = Position + 1
      <4> DEFINE c == req.cookie
                 n == Len(P)
      <4>1. c \in Nat /\ n \in Nat /\ Position = c + n /\ i = n + 1
        BY <1>3, <1>8, <2>3
      <4> HIDE DEF c, n
      <4>2. c + i = Position + 1
        BY <4>1
      <4> QED BY <4>2 DEF c
    <3> QED BY <1>4, <1>7, <2>3, <3>1
  <2> QED BY <2>1, <2>2, <2>3
<1>12. Follows'
  BY <1>1, <1>3, <1>4, <1>9, <1>10, <1>11 DEF Follows, Q
<1>13. Len(sent') = Len(sent) + 1
  BY <1>1, <1>3, AppendIs
<1>14. Paging'
  <2>1. req.sizeLimit > 0 => Len(sent') <= req.sizeLimit
    BY <1>1, <1>3, <1>13 DEF AtSizeLimit
  <2>2. cookie = req.cookie + Len(received) /\ BaseRead /\ pageSize # 0
    BY <1>1, <1>3 DEF Paging, InHand
  <2> QED BY <1>1, <2>1, <2>2, SameQuestion DEF Paging, InHand
<1>15. Scanned' /\ Told'
  BY <1>1, <1>2, <1>3, SameQuestion DEF ExactNow, Scanned, Told
<1>16. Tried' /\ CompareTold'
  BY <1>1, <1>3, StillTold DEF Tried, Checked
<1>17. ExactNow'
  BY <1>1, <1>2, <1>12, <1>14, <1>15, <1>16 DEF ExactNow
<1> QED BY <1>17 DEF Exact

-----------------------------------------------------------------------------
(* The client, compare, and the end.                                       *)

\* The client has the page, whole or cut off, and the next is asked for or
\* the search is over.
LEMMA ReceiveExact == ASSUME IInv, Exact, receiveDone \/ sendFails PROVE Exact'
<1> SUFFICES ASSUME Undisturbed' PROVE Exact'
  BY DEF Exact
<1>1. /\ pc \in {"answered", "loop"} /\ received' = received \o sent
      /\ UNCHANGED <<tree, who, req, cookie, changes>>
      /\ check' = NoCheck
  BY DEF receiveDone, sendFails, local, work, IInv, Types, Quiet
<1>2. \/ /\ pc' = "search" /\ seen' = {tree} /\ sent' = << >> /\ pc = "answered"
         /\ cookie # 0 /\ result = Success /\ result' = result
      \/ /\ pc' = "finished" /\ UNCHANGED <<seen, sent>> /\ pc = "answered"
         /\ ~(cookie # 0 /\ result = Success) /\ result' = result
      \/ /\ pc' = "finished" /\ UNCHANGED <<seen, sent>> /\ pc = "loop"
         /\ result' = "truncated"
  BY DEF receiveDone, sendFails
<1>3. Undisturbed /\ ExactNow
  BY <1>1 DEF Undisturbed, Exact
<1>4. Tried'
  BY <1>2 DEF Tried, Checked
<1>5. CompareTold'
  BY <1>1, <1>2, <1>3, StillTold DEF ExactNow
<1>6. ASSUME Searching PROVE Scanned' /\ Follows' /\ Paging' /\ Told'
  <2>1. Follows /\ Paging /\ Told
    BY <1>3, <1>6 DEF ExactNow
  <2>2. IsSeq(received) /\ IsSeq(sent)
    BY DEF IInv, Lists, Proper
  <2>3. Printed = received \o sent
    BY <1>1 DEF Printed
  <2>4. IsSeq(received \o sent)
    BY <2>2, ConcatIs
  <2>5. Printed' = Printed
    <3>1. CASE pc' = "finished"
      BY <1>1, <2>3, <3>1 DEF Printed
    <3>2. CASE pc' = "search"
      <4>1. Printed' = (received \o sent) \o << >>
        BY <1>1, <1>2, <3>2 DEF Printed
      <4> DEFINE p == received \o sent
      <4>2. p \in Seq(ToSet(p))
        BY <2>4 DEF IsSeq
      <4> HIDE DEF p
      <4>3. p \o << >> = p
        BY <4>2
      <4> QED BY <2>3, <4>1, <4>3 DEF p
    <3> QED BY <1>2, <3>1, <3>2
  <2>6. Position' = Position
    BY <1>1, <2>5 DEF Position
  <2>7. Follows'
    BY <1>1, <2>1, <2>5, <2>6, SameQuestion DEF Follows
  <2>8. Scanned'
    BY <1>2 DEF Scanned
  <2>9. CASE pc' = "search"
    <3>1. pc = "answered" /\ cookie # 0 /\ result = Success /\ sent' = << >>
      BY <1>2, <2>9
    <3>2. cookie = Position
      BY <2>1, <3>1 DEF Told, Outcome, Success
    <3>3. cookie' = req'.cookie + Len(received')
      BY <1>1, <2>3, <3>2 DEF Position
    <3>4. req.sizeLimit > 0 => Len(sent') <= req.sizeLimit
      <4>1. req.sizeLimit \in Int /\ Len(sent') = 0
        BY <1>3, <1>6, <3>1, Indices DEF Undisturbed
      <4> QED BY <4>1
    <3>5. Paging'
      BY <1>1, <2>1, <2>5, <2>9, <3>1, <3>3, <3>4, SameQuestion DEF Paging, InHand
    <3> QED BY <2>7, <2>8, <2>9, <3>5 DEF Told
  <2>10. CASE pc' = "finished"
    <3>1. UNCHANGED sent
      BY <1>2, <2>10
    <3>2. Paging'
      BY <1>1, <2>1, <2>5, <2>10, <3>1, SameQuestion DEF Paging, InHand
    <3>3. CASE pc = "answered"
      <4>1. Outcome /\ result' = result /\ ~(cookie # 0 /\ result = Success)
        BY <1>2, <2>1, <2>10, <3>3 DEF Told
      <4>2. Outcome'
        BY <1>1, <2>5, <2>6, <2>10, <3>1, <4>1, SameQuestion, SameRights DEF Outcome
      <4> QED BY <1>1, <2>7, <2>8, <3>2, <4>1, <4>2 DEF Told
    <3>4. CASE pc = "loop"
      <4>1. result' = "truncated" /\ req.cookie \in Nat
        BY <1>2, <1>3, <2>10, <3>4, LoopFacts
      <4> QED BY <1>1, <2>7, <2>8, <2>10, <3>2, <4>1 DEF Told, Outcome, Success
    <3> QED BY <1>1, <3>3, <3>4
  <2> QED BY <1>2, <2>9, <2>10
<1>7. seen' = {tree'}
  BY <1>1, <1>2, <1>3 DEF ExactNow
<1>8. ExactNow'
  BY <1>1, <1>4, <1>5, <1>6, <1>7, SameQuestion DEF ExactNow
<1> QED BY <1>8 DEF Exact

\* A request has been sent, and nothing has been answered.
LEMMA StartExact == ASSUME IInv, start PROVE Exact'
<1>1. PICK r \in Requests :
        req' = r /\ pc' = r.op /\ cookie' = IF r.op = "search" THEN r.cookie ELSE 0
  BY DEF start
<1>2. /\ received' = << >> /\ sent' = << >> /\ result' = "" /\ pc = "idle"
      /\ seen' = {tree} /\ UNCHANGED <<tree, check>>
  BY DEF start
<1>3. check = NoCheck /\ ~(NoCheck.rule > 0)
  <2>1. ~(NoCheck.rule > 0)
    BY DEF NoCheck
  <2> QED BY <1>2, <2>1 DEF IInv, Types, Quiet
<1>4. /\ r.op \in {"search", "compare"}
      /\ r.op = "search" => r.cookie \in {-1} \cup Nat /\ r.sizeLimit \in Int
  BY RequestsAssumption DEF BadCookie
<1>5. Tried'
  BY <1>1, <1>2, <1>3, <1>4 DEF Tried
<1>6. CompareTold'
  BY <1>2 DEF CompareTold
<1>7. ASSUME Searching' PROVE Scanned' /\ Follows' /\ Paging' /\ Told'
  <2>1. pc' = "search" /\ cookie' = r.cookie /\ r.cookie \in {-1} \cup Nat /\ r.sizeLimit \in Int
    BY <1>1, <1>4, <1>7 DEF Searching
  <2>2. << >> \o << >> = << >> /\ Len(<< >>) = 0 /\ 1..0 = {}
    OBVIOUS
  <2>3. Printed' = << >>
    BY <1>2, <2>1, <2>2 DEF Printed
  <2>4. Follows'
    BY <2>2, <2>3 DEF Follows
  <2>5. Paging'
    <3>1. r.cookie + Len(<< >>) = r.cookie /\ (r.sizeLimit > 0 => Len(<< >>) <= r.sizeLimit)
      BY <2>1, <2>2
    <3> QED BY <1>1, <1>2, <2>1, <2>3, <3>1 DEF Paging, InHand
  <2> QED BY <2>1, <2>4, <2>5 DEF Scanned, Told
<1>8. ExactNow'
  BY <1>2, <1>5, <1>6, <1>7 DEF ExactNow
<1> QED BY <1>8 DEF Exact

\* handleCompare asks for access, or answers at once.
LEMMA HandleCompareExact == ASSUME IInv, Exact, handleCompare PROVE Exact'
<1> SUFFICES ASSUME Undisturbed' PROVE Exact'
  BY DEF Exact
<1>1. Frame /\ pc = "compare"
  BY DEF handleCompare, Frame
<1>2. Undisturbed /\ ExactNow
  BY <1>1 DEF Undisturbed, Frame, Exact
<1>3. req.op = "compare" /\ ~Searching
  BY <1>1, <1>2 DEF ExactNow, Tried, Searching
<1>4. CASE Answer("ProtocolError")
  <2>1. CompareTold'
    BY <1>1, <1>2, <1>4, StillTold DEF Answer, Frame, ExactNow
  <2> QED BY <1>1, <1>2, <1>3, <1>4, <2>1, AnswerExact
<1>5. CASE Checking(req.dn, "compare") /\ UNCHANGED <<result, cookie, matches, visible>>
  <2>1. UNCHANGED <<tree, who, req, sent, received, seen, changes, result>>
    BY <1>1, <1>5 DEF Frame
  <2>2. pc' = "compare" /\ check'.rule = 1 /\ 1..(1 - 1) = {}
    BY <1>5, CheckingFields
  <2>3. Tried'
    BY <1>3, <2>1, <2>2 DEF Tried
  <2>4. CompareTold'
    BY <1>2, <2>1, StillTold DEF ExactNow
  <2>5. ExactNow'
    BY <1>2, <1>3, <2>1, <2>3, <2>4, SameQuestion DEF ExactNow
  <2> QED BY <2>5 DEF Exact
<1> QED BY <1>4, <1>5 DEF handleCompare

\* A value of the entry is the password given, or its hash, or has it with a
\* scheme that encodeUserPassword does not make.
LEMMA PasswordAgrees ==
  ASSUME NEW values, NEW given
  PROVE  (\E v \in values : verifyUserPassword(v, given)) <=>
           \/ /\ given \notin DOMAIN Scheme
              /\ {given, encodeUserPassword(given)} \cap values # {}
           \/ \E v \in values \cap DOMAIN Scheme :
                Scheme[v].name \in {"CLEARTEXT", "SHA"} /\ Scheme[v].of = given
<1>1. ASSUME given \in DOMAIN Hash
      PROVE  /\ given \notin DOMAIN Scheme /\ Hash[given] \in DOMAIN Scheme
             /\ Scheme[Hash[given]].name = "SSHA" /\ Scheme[Hash[given]].of = given
  <2>1. given \notin DOMAIN Scheme
    BY <1>1, HashAssumption
  <2>2. /\ Hash[given] \in DOMAIN Scheme
        /\ Scheme[Hash[given]] = [name |-> "SSHA", of |-> given]
    BY <1>1, HashAssumption
  <2> QED BY <2>1, <2>2
<1>2. ASSUME NEW v \in DOMAIN Scheme, Scheme[v].name = "SSHA", Scheme[v].of = given
      PROVE  given \in DOMAIN Hash /\ v = Hash[given]
  BY <1>2, HashAssumption
<1>3. ASSUME NEW v \in values, verifyUserPassword(v, given)
      PROVE  \/ /\ given \notin DOMAIN Scheme
                /\ {given, encodeUserPassword(given)} \cap values # {}
             \/ \E w \in values \cap DOMAIN Scheme :
                  Scheme[w].name \in {"CLEARTEXT", "SHA"} /\ Scheme[w].of = given
  <2>1. CASE v \notin DOMAIN Scheme
    BY <1>3, <2>1 DEF verifyUserPassword
  <2>2. CASE v \in DOMAIN Scheme /\ Scheme[v].name = "SSHA"
    BY <1>1, <1>2, <1>3, <2>2 DEF verifyUserPassword, encodeUserPassword
  <2>3. CASE v \in DOMAIN Scheme /\ Scheme[v].name # "SSHA"
    BY <1>3, <2>3 DEF verifyUserPassword
  <2> QED BY <2>1, <2>2, <2>3
<1>4. ASSUME given \notin DOMAIN Scheme, {given, encodeUserPassword(given)} \cap values # {}
      PROVE  \E v \in values : verifyUserPassword(v, given)
  BY <1>1, <1>4 DEF verifyUserPassword, encodeUserPassword
<1>5. ASSUME NEW w \in values \cap DOMAIN Scheme,
             Scheme[w].name \in {"CLEARTEXT", "SHA"}, Scheme[w].of = given
      PROVE  \E v \in values : verifyUserPassword(v, given)
  BY <1>5 DEF verifyUserPassword
<1> QED BY <1>3, <1>4, <1>5

\* The entry is read, and its values are compared.
LEMMA CompareValueExact == ASSUME IInv, Exact, compareValue PROVE Exact'
<1> SUFFICES ASSUME Undisturbed' PROVE Exact'
  BY DEF Exact
<1>1. Frame /\ pc = "value"
  BY DEF compareValue, Frame
<1>2. Undisturbed /\ ExactNow
  BY <1>1 DEF Undisturbed, Frame, Exact
<1>3. req.op = "compare" /\ ~Searching /\ tree \in Trees
  BY <1>1, <1>2 DEF ExactNow, Tried, Searching, IInv, Types
<1> DEFINE a == req.attribute
           attrs == tree[req.dn]
           hit == \E v \in ToSet(attrs[a]) : valueMatches(v, req.value)
           rc == IF ~found(tree, req.dn)     THEN "NoSuchObject"
                 ELSE IF a \notin DOMAIN attrs THEN "NoSuchAttribute"
                 ELSE IF hit THEN "CompareTrue" ELSE "CompareFalse"
<1>4. Answer(rc)
  BY DEF compareValue
<1>5. result' = rc /\ UNCHANGED <<tree, req>>
  BY <1>1, <1>4 DEF Answer, Frame
<1>6. ASSUME rc \in {"CompareTrue", "CompareFalse"}
      PROVE  /\ req.dn \in DOMAIN tree /\ a \in DOMAIN attrs
             /\ rc = "CompareTrue" <=> hit
  BY <1>6 DEF found
<1>7. CompareTold'
  <2>1. ASSUME rc \in {"CompareTrue", "CompareFalse"}
        PROVE  IF a = "userPassword"
               THEN hit <=>
                      \/ /\ req.value \notin DOMAIN Scheme
                         /\ {req.value, encodeUserPassword(req.value)} \cap ToSet(attrs[a]) # {}
                      \/ \E v \in ToSet(attrs[a]) \cap DOMAIN Scheme :
                           Scheme[v].name \in {"CLEARTEXT", "SHA"} /\ Scheme[v].of = req.value
               ELSE \A n \in DOMAIN Nodes :
                      /\ Nodes[n].type = "Equality"
                      /\ Nodes[n].attribute = a /\ Nodes[n].value = req.value
                      => (hit <=> n \in Satisfied(attrs))
    <3>1. req.dn \in DOMAIN tree /\ a \in DOMAIN attrs
      BY <1>6, <2>1
    <3>2. CASE a = "userPassword"
      <4>1. hit <=> \E v \in ToSet(attrs[a]) : verifyUserPassword(v, req.value)
        BY <3>2 DEF valueMatches
      <4> HIDE DEF hit, attrs
      <4> QED BY <3>2, <4>1, PasswordAgrees
    <3>3. CASE a # "userPassword"
      <4>1. hit <=> req.value \in ToSet(attrs[a])
        BY <3>3 DEF valueMatches
      <4>2. Legible(attrs)
        BY <1>3, <3>1, TreesAssumption
      <4>3. ASSUME NEW n \in DOMAIN Nodes, Nodes[n].type = "Equality",
                   Nodes[n].attribute = a, Nodes[n].value = req.value
            PROVE  hit <=> n \in Satisfied(attrs)
        <5>1. n \in Satisfied(attrs) <=> Meets(attrs, Satisfied(attrs), n)
          BY SatisfiedMeets
        <5>2. Meets(attrs, Satisfied(attrs), n) <=> Contains(attrs[a], req.value)
          BY <3>1, <4>3 DEF Meets
        <5>3. IsSeq(attrs[a])
          BY <3>1, <4>2 DEF Legible
        <5>4. DOMAIN attrs[a] = 1..Len(attrs[a])
          BY <5>3, SeqLen
        <5> HIDE DEF attrs, hit, a
        <5>5. Contains(attrs[a], req.value) <=> req.value \in ToSet(attrs[a])
          BY <5>4 DEF Contains, ToSet
        <5> QED BY <4>1, <5>1, <5>2, <5>5
      <4> HIDE DEF hit, attrs
      <4> QED BY <3>3, <4>3
    <3> QED BY <3>2, <3>3
  <2> HIDE DEF hit, rc
  <2> QED BY <1>5, <1>6, <2>1 DEF CompareTold
<1> QED BY <1>1, <1>2, <1>3, <1>4, <1>7, AnswerExact

\* Nothing happens.
LEMMA StutterExact == ASSUME Exact, UNCHANGED vars PROVE Exact'
<1>1. /\ UNCHANGED <<tree, who, req, pc, cookie, check, matches, visible, sent, result,
                     received, seen, changes>>
  BY DEF vars
<1>2. ASSUME Undisturbed PROVE ExactNow'
  <2>1. ExactNow
    BY <1>2 DEF Exact
  <2>2. Tried'
    BY <1>1, <2>1, SameRights DEF ExactNow, Tried
  <2>3. CompareTold'
    BY <1>1, <2>1, StillTold DEF ExactNow
  <2>4. ASSUME Searching PROVE Scanned' /\ Follows' /\ Paging' /\ Told'
    <3>1. Scanned /\ Follows /\ Paging /\ Told
      BY <2>1, <2>4 DEF ExactNow
    <3>2. Follows' /\ Printed' = Printed /\ Position' = Position
      BY <1>1, <3>1, StillFollows
    <3>3. Paging' /\ Scanned'
      BY <1>1, <3>1, <3>2, SameQuestion DEF Paging, Scanned
    <3>4. Told'
      BY <1>1, <3>1, <3>2, SameQuestion, SameRights DEF Told, Outcome
    <3> QED BY <3>2, <3>3, <3>4
  <2> QED BY <1>1, <2>1, <2>2, <2>3, <2>4, SameQuestion DEF ExactNow
<1> QED BY <1>1, <1>2 DEF Exact, Undisturbed

\* What the client was told while nobody wrote, throughout.
THEOREM ExactInductive == Spec => [](IInv /\ Exact)
<1>1. Init => Exact
  BY DEF Init, Exact, Undisturbed
<1>2. ASSUME IInv, Exact, [Next]_vars PROVE Exact'
  <2>1. CASE timeUp \/ endPage
    <3>1. Frame /\ pc = "loop"
      BY <2>1 DEF timeUp, endPage, Frame
    <3>2. \/ done("TimeLimitExceeded") /\ More /\ req.timeLimit > 0
          \/ done("SizeLimitExceeded") /\ More /\ AtSizeLimit
          \/ done(Success) /\ ~(More /\ AtSizeLimit) /\ (~More \/ AtSizeLimit \/ AtPageEnd)
      BY <2>1 DEF timeUp, endPage
    <3>3. Undisturbed' => Undisturbed
      BY <3>1 DEF Undisturbed, Frame
    <3> QED BY <1>2, <3>1, <3>2, <3>3, DoneExact DEF Exact
  <2>2. CASE finish
    <3>1. ~Undisturbed'
      BY <2>2 DEF finish, Undisturbed
    <3> QED BY <3>1 DEF Exact
  <2>3. CASE otherSessions
    <3>1. changes' # 0
      BY <1>2, <2>3 DEF otherSessions, IInv, Types
    <3> QED BY <3>1 DEF Exact, Undisturbed
  <2> QED BY <1>2, <2>1, <2>2, <2>3, StartExact, HandleSearchExact, FindExact, RuleExact, UserExact,
             BeginPageExact, SendExact, ReceiveExact, HandleCompareExact, CompareValueExact,
             StutterExact DEF Next, Step
<1> QED BY <1>1, <1>2, SearchInductive, PTL DEF Spec

\* The part of a list from a place on, and a list that agrees with it so far.
LEMMA PrefixIs ==
  ASSUME NEW w, IsSeq(w), NEW c \in Nat, NEW g, IsSeq(g),
         \A i \in 1..Len(g) : g[i] = w[c + i],
         g # << >> => c + Len(g) <= Len(w)
  PROVE  LET rest == SubSeq(w, c + 1, Len(w))
         IN  /\ IsPrefix(g, rest)
             /\ c + Len(g) < Len(w) => IsStrictPrefix(g, rest)
             /\ c + Len(g) >= Len(w) => g = rest
<1> DEFINE rest == SubSeq(w, c + 1, Len(w))
           A == ToSet(w)
           N == Len(w)
           m == Len(g)
<1>1. w \in Seq(A) /\ N \in Nat /\ m \in Nat /\ g \in Seq(ToSet(g))
  BY DEF IsSeq
<1>2. m = 0 => g = << >>
  BY <1>1
<1> HIDE DEF A
<1>3. /\ rest \in Seq(A) /\ Len(rest) = IF c + 1 <= N THEN N - c ELSE 0
      /\ \A i \in 1..(N - c) : rest[i] = w[c + i]
  <2>1. c + 1 \in Nat /\ c + 1 >= 1 /\ N <= N
    BY <1>1
  <2>2. CASE c + 1 <= N
    <3>1. /\ rest \in Seq(A) /\ Len(rest) = (N - (c + 1)) + 1
          /\ \A i \in 1..((N - (c + 1)) + 1) : rest[i] = w[((c + 1) + i) - 1]
      BY <1>1, <2>1, <2>2, SubSeqProperties
    <3> QED BY <1>1, <2>2, <3>1
  <2>3. CASE ~(c + 1 <= N)
    <3>1. rest = << >>
      BY <1>1, <2>1, <2>3, SubSeqProperties
    <3> QED BY <1>1, <2>3, <3>1
  <2> QED BY <2>2, <2>3
<1>4. IsSeq(rest)
  <2> HIDE DEF rest
  <2> QED BY <1>3, SeqIs
<1> HIDE DEF rest
<1>5. g = << >> \/ c + m <= N
  BY <1>1
<1>6. Len(rest) \in Nat /\ (m = 0 \/ c + m <= N)
  <2>1. g = << >> => m = 0
    BY EmptyIs
  <2> QED BY <1>1, <1>3, <1>5, <2>1
<1> DEFINE L == Len(rest)
<1>7. L = IF c + 1 <= N THEN N - c ELSE 0
  BY <1>3
<1>8. \A i \in 1..m : g[i] = w[c + i]
  OBVIOUS
<1>9. L \in Nat
  BY <1>6
<1> HIDE DEF L, N, m
<1>10. /\ m <= L /\ (c + m < N => m # L) /\ (c + m >= N => m = L)
       /\ \A i \in 1..m : i \in 1..(N - c)
  BY <1>1, <1>6, <1>7, <1>9
<1>11. \A i \in 1..m : g[i] = rest[i]
  BY <1>3, <1>8, <1>10
<1>12. IsPrefix(g, rest)
  <2> DEFINE p == SubSeq(g, 1, Len(g))
             q == SubSeq(rest, 1, Len(g))
  <2>1. rest \in Seq(ToSet(rest)) /\ g \in Seq(ToSet(g))
    BY <1>4 DEF IsSeq
  <2>2. CASE m = 0
    <3>1. p = << >> /\ q = << >>
      BY <1>1, <2>1, <2>2, SubSeqProperties DEF m
    <3> QED BY <1>10, <3>1 DEF IsPrefix, m, L
  <2>3. CASE m # 0
    <3>0. 1 <= m /\ 1 \in 1..(m + 1) /\ 1 \in 1..(L + 1) /\ m \in 0..m /\ m \in 0..L /\ (m - 1) + 1 = m
      BY <1>1, <1>9, <1>10, <2>3
    <3>1. p \in Seq(ToSet(g)) /\ Len(p) = m /\ \A i \in 1..m : p[i] = g[i]
      BY <1>1, <2>1, <3>0, SubSeqProperties DEF m
    <3>2. q \in Seq(ToSet(rest)) /\ Len(q) = m /\ \A i \in 1..m : q[i] = rest[i]
      BY <1>1, <1>9, <2>1, <3>0, SubSeqProperties DEF m, L
    <3> HIDE DEF p, q
    <3>3. IsSeq(p) /\ IsSeq(q)
      BY <3>1, <3>2, SeqIs
    <3>4. p = q
      BY <1>11, <3>1, <3>2, <3>3, SameList
    <3> QED BY <1>10, <3>4 DEF IsPrefix, p, q, m, L
  <2> QED BY <2>2, <2>3
<1>13. c + m < N => g # rest
  BY <1>10 DEF m, L
<1>14. c + m >= N => g = rest
  <2> SUFFICES ASSUME c + m >= N PROVE g = rest
    OBVIOUS
  <2>1. Len(g) = Len(rest)
    BY <1>10 DEF m, L
  <2> QED BY <1>4, <1>11, <2>1, SameList DEF m
<1> QED BY <1>12, <1>13, <1>14 DEF IsStrictPrefix, rest, m, N

\* What a search asks for is a list.
LEMMA WantedIs ==
  ASSUME tree \in Trees, req \in Requests, Searching
  PROVE  IsSeq(Wanted(tree))
<1>1. IsSeq(Found) /\ Among(Found, ReadableNow) = Wanted(tree)
  BY FoundIs DEF Searching
<1> QED BY <1>1, AmongIs

\* The arms of the outcome, one by one.
LEMMA PagesAreComplete == ASSUME IInv, Exact PROVE PagesComplete
<1> SUFFICES ASSUME pc = "finished", changes = 0, req.op = "search", req.filter # 0
    PROVE LET wanted == SubSeq(Wanted(tree), req.cookie + 1, Len(Wanted(tree)))
              got    == Dns(received)
          IN  CASE result = Success -> got = IF pageSize = 0 THEN << >> ELSE wanted
                [] result = "SizeLimitExceeded" ->
                     IsStrictPrefix(got, wanted) /\ Len(sent) = req.sizeLimit
                [] result = "TimeLimitExceeded" -> IsStrictPrefix(got, wanted) /\ req.timeLimit > 0
                [] result = "truncated" -> IsPrefix(got, wanted)
                [] result = "NoSuchObject" -> got = << >> /\ req.dn \notin DOMAIN tree \cup {RootDse}
                [] result = "InsufficientAccessRights" -> got = << >> /\ ~Readable(tree, req.dn)
                [] OTHER -> got = << >> /\ (controlFault # Success \/ req.cookie = BadCookie)
  BY DEF PagesComplete
<1> DEFINE w == Wanted(tree)
           got == Dns(received)
           c == req.cookie
           wanted == SubSeq(w, c + 1, Len(w))
<1>1. Searching /\ Undisturbed /\ ExactNow
  BY DEF Searching, Undisturbed, Exact
<1>2. Follows /\ Told /\ Outcome /\ Printed = received
  BY <1>1 DEF ExactNow, Told, Printed
<1>3. tree \in Trees /\ req \in Requests /\ IsSeq(received)
  BY DEF IInv, Types, Requested, Lists, Proper
<1>4. IsSeq(w)
  BY <1>1, <1>3, WantedIs
<1>5. IsSeq(got) /\ Len(got) = Len(received) /\ \A i \in 1..Len(received) : got[i] = received[i].dn
  BY <1>3, DnsIs
<1>6. received = << >> => got = << >>
  BY DnsEmpty
<1>7. got # << >> => received # << >>
  BY <1>6
<1>8. Position = c + Len(got)
  BY <1>2, <1>5 DEF Position
<1>9. \A i \in 1..Len(got) : got[i] = w[c + i]
  BY <1>2, <1>5 DEF Follows
<1>10. got # << >> => c + Len(got) <= Len(w)
  BY <1>2, <1>7, <1>8 DEF Follows
<1>11. result = Success => cookie = 0
  BY <1>2 DEF Told
<1>12. Outcome <=>
        LET more == c \in Nat /\ Position < Len(w)
        IN  CASE result = Success ->
                   \/ cookie # 0 /\ cookie = Position
                   \/ cookie = 0 /\ pageSize = 0 /\ received = << >>
                   \/ cookie = 0 /\ pageSize # 0 /\ c \in Nat /\ Position >= Len(w)
              [] result = "SizeLimitExceeded" -> more /\ Len(sent) = req.sizeLimit
              [] result = "TimeLimitExceeded" -> more /\ req.timeLimit > 0
              [] result = "truncated" -> pc = "finished" /\ c \in Nat
              [] result = "NoSuchObject" -> received = << >> /\ ~BaseFound
              [] result = "InsufficientAccessRights" -> received = << >> /\ ~Readable(tree, req.dn)
              [] OTHER -> received = << >> /\ (controlFault # Success \/ c = BadCookie)
  BY <1>2 DEF Outcome
<1>13. ASSUME c \in Nat
       PROVE  /\ IsPrefix(got, wanted)
              /\ Position < Len(w) => IsStrictPrefix(got, wanted)
              /\ Position >= Len(w) => got = wanted
  <2> HIDE DEF w, got, c
  <2> QED BY <1>4, <1>5, <1>8, <1>9, <1>10, <1>13, PrefixIs
<1>14. ~BaseFound => req.dn \notin DOMAIN tree \cup {RootDse}
  BY DEF BaseFound
<1> HIDE DEF w, got, c, wanted
<1>15. CASE result = Success
  <2>1. \/ pageSize = 0 /\ received = << >>
        \/ pageSize # 0 /\ c \in Nat /\ Position >= Len(w)
    BY <1>2, <1>11, <1>12, <1>15 DEF Success
  <2> QED BY <1>6, <1>13, <1>15, <2>1 DEF w, got, c, wanted, Success
<1>16. CASE result = "SizeLimitExceeded"
  <2>1. c \in Nat /\ Position < Len(w) /\ Len(sent) = req.sizeLimit
    BY <1>2, <1>12, <1>16 DEF Success
  <2> QED BY <1>13, <1>16, <2>1 DEF w, got, c, wanted, Success
<1>17. CASE result = "TimeLimitExceeded"
  <2>1. c \in Nat /\ Position < Len(w) /\ req.timeLimit > 0
    BY <1>2, <1>12, <1>17 DEF Success
  <2> QED BY <1>13, <1>17, <2>1 DEF w, got, c, wanted, Success
<1>18. CASE result = "truncated"
  <2>1. c \in Nat
    BY <1>2, <1>12, <1>18 DEF Success
  <2> QED BY <1>13, <1>18, <2>1 DEF w, got, c, wanted, Success
<1>19. CASE result = "NoSuchObject"
  <2>1. received = << >> /\ ~BaseFound
    BY <1>2, <1>12, <1>19 DEF Success
  <2> QED BY <1>6, <1>14, <1>19, <2>1 DEF got, Success
<1>20. CASE result = "InsufficientAccessRights"
  <2>1. received = << >> /\ ~Readable(tree, req.dn)
    BY <1>2, <1>12, <1>20 DEF Success
  <2> QED BY <1>6, <1>20, <2>1 DEF got, Success
<1>21. CASE result \notin {Success, "SizeLimitExceeded", "TimeLimitExceeded", "truncated",
                           "NoSuchObject", "InsufficientAccessRights"}
  <2>1. received = << >> /\ (controlFault # Success \/ c = BadCookie)
    BY <1>2, <1>12, <1>21 DEF Success
  <2> QED BY <1>6, <1>21, <2>1 DEF got, c, Success
<1> QED BY <1>15, <1>16, <1>17, <1>18, <1>19, <1>20, <1>21

\* While nobody writes, the client has printed exactly what its request asks
\* for (the loop of ldapsearch over the pages of handleSearch), and a compare
\* says what a bind and a search would (handleCompare).
THEOREM AnswersAreExact == Spec => []AnswersExact
<1>1. ASSUME IInv, Exact PROVE CompareAgrees
  <2> SUFFICES ASSUME pc = "finished", changes = 0, result \in {"CompareTrue", "CompareFalse"}
      PROVE CompareAgrees
    BY DEF CompareAgrees
  <2>1. CompareTold
    BY <1>1 DEF Exact, Undisturbed, ExactNow
  <2> QED BY <2>1 DEF CompareTold, CompareAgrees
<1>2. IInv /\ Exact => AnswersExact
  BY <1>1, PagesAreComplete DEF AnswersExact
<1> QED BY <1>2, ExactInductive, PTL
=============================================================================
