------------------------------ MODULE ListProofs ------------------------------
(***************************************************************************)
(* What the proofs about data rest on: induction over numbers, and         *)
(* sequences put together from sequences.  The models put together the log *)
(* (ResultLog), the body of a job with dependencies and the ordered groups *)
(* (TreeCompiler, Nanostate) in this way.                                  *)
(*                                                                         *)
(* An induction is one over a set of good numbers: a theorem about an      *)
(* arbitrary predicate could not be instantiated, one about a set can.     *)
(***************************************************************************)
EXTENDS Integers, Sequences, SequencesExt, SequenceTheorems, WellFoundedInduction, TLAPS

\* A set of numbers that is not empty has a least member.
LEMMA Least ==
    ASSUME NEW T, T \subseteq Nat, T # {}
    PROVE  \E n \in T : \A m \in T : n <= m
<1> DEFINE R == OpToRel(<, Nat)
<1>1. IsWellFoundedOn(R, Nat)
    BY NatLessThanWellFounded
<1>2. PICK n \in T : \A m \in T : ~(<<m, n>> \in R)
  <2> HIDE DEF R
  <2> QED
      BY <1>1, WFMin
<1>3. \A m \in T : ~(m < n)
    BY <1>2 DEF OpToRel
<1> QED
    BY <1>3

\* Induction up to N, over the set of the numbers for which the claim is true
LEMMA UpTo ==
    ASSUME NEW N \in Nat, NEW Good,
           0 \in Good, \A n \in 0..(N - 1) : n \in Good => n + 1 \in Good
    PROVE  \A n \in 0..N : n \in Good
<1> SUFFICES ASSUME ~ \A n \in 0..N : n \in Good PROVE FALSE
    OBVIOUS
<1> DEFINE Bad == {n \in 0..N : n \notin Good}
<1>1. PICK n \in Bad : \A m \in Bad : n <= m
  <2>1. Bad \subseteq Nat /\ Bad # {}
      OBVIOUS
  <2> QED
      BY <2>1, Least
<1>2. n # 0 /\ n \in 0..N
    BY <1>1
<1>3. n - 1 \in 0..(N - 1) /\ n - 1 \in Good
    BY <1>1, <1>2
<1>4. n \in Good
    BY <1>2, <1>3
<1> QED
    BY <1>1, <1>4

\* f starts with v and makes k steps.
Iterated(f, k, V, v, step) == /\ f \in [0..k -> V] /\ f[0] = v
                          /\ \A n \in 1..k : f[n] = step[<<n, f[n - 1]>>]

\* A step can be iterated.
LEMMA Iterates ==
    ASSUME NEW N \in Nat, NEW V, NEW v \in V, NEW step \in [(1..N) \X V -> V]
    PROVE  \E f : Iterated(f, N, V, v, step)
<1> DEFINE Good == {k \in 0..N : \E f : Iterated(f, k, V, v, step)}
<1>1. 0 \in Good
  <2> DEFINE f == [n \in 0..0 |-> v]
  <2>1. f \in [0..0 -> V] /\ f[0] = v
      OBVIOUS
  <2>2. Iterated(f, 0, V, v, step)
      BY <2>1 DEF Iterated
  <2> QED
      BY <2>2
<1>2. ASSUME NEW k \in 0..(N - 1), k \in Good PROVE k + 1 \in Good
  <2>1. PICK f : Iterated(f, k, V, v, step)
      BY <1>2
  <2>2. PICK w : w = step[<<k + 1, f[k]>>]
      OBVIOUS
  <2>3. k \in Nat /\ k + 1 \in 1..N /\ k \in 0..k
      OBVIOUS
  <2>4. f[k] \in V
      BY <2>1, <2>3 DEF Iterated
  <2>5. w \in V
      BY <2>2, <2>3, <2>4
  <2> DEFINE g == [n \in 0..(k + 1) |-> IF n = k + 1 THEN w ELSE f[n]]
  <2>6. g[k + 1] = w
      BY <2>3
  <2>7. \A n \in 0..k : g[n] = f[n]
      BY <2>3
  <2>8. g \in [0..(k + 1) -> V]
    <3>1. \A n \in 0..(k + 1) : n = k + 1 \/ n \in 0..k
        BY <2>3
    <3>2. \A n \in 0..k : f[n] \in V
        BY <2>1 DEF Iterated
    <3> QED
        BY <2>5, <3>1, <3>2
  <2> HIDE DEF g
  <2>9. ASSUME NEW n \in 1..(k + 1) PROVE g[n] = step[<<n, g[n - 1]>>]
    <3>1. CASE n = k + 1
      <4>1. n - 1 = k
          BY <2>3, <3>1
      <4>2. g[n - 1] = f[k]
          BY <2>3, <2>7, <4>1
      <4> QED
          BY <2>2, <2>6, <3>1, <4>2
    <3>2. CASE n # k + 1
      <4>1. n \in 1..k /\ n \in 0..k /\ n - 1 \in 0..k
          BY <2>3, <3>2
      <4>2. f[n] = step[<<n, f[n - 1]>>]
          BY <2>1, <4>1 DEF Iterated
      <4> QED
          BY <2>7, <4>1, <4>2
    <3> QED
        BY <3>1, <3>2
  <2>10. g[0] = v
      BY <2>1, <2>3, <2>7 DEF Iterated
  <2>11. Iterated(g, k + 1, V, v, step)
      BY <2>8, <2>9, <2>10 DEF Iterated
  <2> QED
      BY <2>3, <2>11
<1>3. N \in Good
  <2> HIDE DEF Good
  <2> QED
      BY <1>1, <1>2, UpTo
<1> QED
    BY <1>3
-----------------------------------------------------------------------------
(* FlattenSeq *)

\* The first n elements of s
First(s, n) == [k \in 1..n |-> s[k]]

\* f[n] is s[1] \o ... \o s[n].
Joins(f, s, S) == /\ f \in [0..Len(s) -> Seq(S)] /\ f[0] = <<>>
                  /\ \A n \in 1..Len(s) : f[n] = f[n - 1] \o s[n]

LEMMA JoinsExists ==
    ASSUME NEW S, NEW s \in Seq(Seq(S))
    PROVE  \E f : Joins(f, s, S)
<1> DEFINE N == Len(s)
           step == [p \in (1..N) \X Seq(S) |-> p[2] \o s[p[1]]]
<1>1. N \in Nat /\ \A n \in 1..N : s[n] \in Seq(S)
    BY LenProperties, ElementOfSeq
<1>2. step \in [(1..N) \X Seq(S) -> Seq(S)]
    BY <1>1, ConcatProperties
<1>3. <<>> \in Seq(S)
    BY EmptySeq
<1>4. PICK f : Iterated(f, N, Seq(S), <<>>, step)
  <2> HIDE DEF step, N
  <2> QED
      BY <1>1, <1>2, <1>3, Iterates
<1>5. ASSUME NEW n \in 1..N PROVE f[n] = f[n - 1] \o s[n]
  <2>1. n - 1 \in 0..N
      BY <1>1
  <2>2. f[n - 1] \in Seq(S) /\ f[n] = step[<<n, f[n - 1]>>]
      BY <1>4, <2>1 DEF Iterated
  <2>3. <<n, f[n - 1]>> \in (1..N) \X Seq(S)
      BY <2>2
  <2> QED
      BY <2>2, <2>3
<1>6. f \in [0..N -> Seq(S)] /\ f[0] = <<>>
    BY <1>4 DEF Iterated
<1> QED
    BY <1>5, <1>6 DEF Joins

LEMMA JoinsUnique ==
    ASSUME NEW S, NEW s \in Seq(Seq(S)), NEW t \in Seq(Seq(S)), NEW f, NEW g,
           Joins(f, s, S), Joins(g, t, S),
           Len(s) <= Len(t), \A n \in 1..Len(s) : s[n] = t[n]
    PROVE  \A n \in 0..Len(s) : f[n] = g[n]
<1> DEFINE N == Len(s)
<1>0. N \in Nat /\ Len(t) \in Nat
    BY LenProperties
<1> DEFINE Good == {n \in 0..N : f[n] = g[n]}
<1>1. 0 \in Good
    BY <1>0 DEF Joins
<1>2. ASSUME NEW n \in 0..(N - 1), n \in Good PROVE n + 1 \in Good
  <2>1. n + 1 \in 1..Len(s) /\ n + 1 \in 1..Len(t) /\ (n + 1) - 1 = n /\ n + 1 \in 1..N
      BY <1>0
  <2>2. f[n + 1] = f[n] \o s[n + 1] /\ g[n + 1] = g[n] \o t[n + 1]
      BY <2>1 DEF Joins
  <2>3. f[n] = g[n] /\ s[n + 1] = t[n + 1]
      BY <1>2, <2>1
  <2>4. f[n + 1] = g[n + 1]
      BY <2>2, <2>3
  <2> QED
      BY <2>1, <2>4
<1> HIDE DEF Good
<1>3. \A n \in 0..N : n \in Good
    BY <1>0, <1>1, <1>2, UpTo
<1> QED
    BY <1>3 DEF Good

LEMMA FlattenJoins ==
    ASSUME NEW S, NEW s \in Seq(Seq(S)), NEW f, Joins(f, s, S)
    PROVE  FlattenSeq(s) = f[Len(s)]
<1>1. Len(s) \in Nat /\ \A n \in 1..Len(s) : s[n] \in Seq(S)
    BY LenProperties, ElementOfSeq
<1>2. CASE Len(s) = 0
  <2>1. s = <<>>
      BY <1>2, EmptySeq
  <2> QED
      BY <1>2, <2>1 DEF FlattenSeq, Joins
<1>3. CASE Len(s) # 0
  <2> DEFINE Def(g) == [i \in 1..Len(s) |-> IF i = 1 THEN s[i] ELSE g[i - 1] \o s[i]]
             g == CHOOSE g : g = Def(g)
             h == [i \in 1..Len(s) |-> f[i]]
  <2>1. h = Def(h)
    <3>1. \A i \in 1..Len(s) : h[i] = Def(h)[i]
      <4>1. \A i \in 1..Len(s) : i # 1 => i - 1 \in 1..Len(s)
          BY <1>1
      <4>2. <<>> \o s[1] = s[1]
          BY <1>1, <1>3, ConcatEmptySeq
      <4>3. \A i \in 1..Len(s) : f[i] = f[i - 1] \o s[i]
          BY DEF Joins
      <4>4. f[1] = s[1]
        <5>1. f[0] = <<>> /\ 1 \in 1..Len(s) /\ 1 - 1 = 0
            BY <1>1, <1>3 DEF Joins
        <5>2. f[1] = f[0] \o s[1]
            BY <4>3, <5>1
        <5> QED
            BY <4>2, <5>1, <5>2
      <4> QED
          BY <4>1, <4>3, <4>4
    <3> QED
        BY <3>1
  <2>2. g = Def(g)
      BY <2>1
  <2>3. FlattenSeq(s) = g[Len(s)]
      BY <1>3 DEF FlattenSeq
  <2> HIDE DEF g
  <2> DEFINE Good == {n \in 0..Len(s) : n = 0 \/ g[n] = f[n]}
  <2>4. 0 \in Good
      BY <1>1
  <2>5. ASSUME NEW n \in 0..(Len(s) - 1), n \in Good PROVE n + 1 \in Good
    <3>1. n + 1 \in 1..Len(s) /\ (n + 1) - 1 = n
        BY <1>1
    <3>2. f[n + 1] = f[n] \o s[n + 1] /\ f[0] = <<>>
        BY <3>1 DEF Joins
    <3>3. g[n + 1] = IF n + 1 = 1 THEN s[n + 1] ELSE g[n] \o s[n + 1]
        BY <2>2, <3>1
    <3>4. <<>> \o s[n + 1] = s[n + 1]
        BY <1>1, <3>1, ConcatEmptySeq
    <3>5. g[n + 1] = f[n + 1]
      <4>1. CASE n = 0
        <5>1. n + 1 = 1 /\ f[n] = <<>>
            BY <3>2, <4>1
        <5>2. g[n + 1] = s[n + 1]
            BY <3>3, <5>1
        <5> QED
            BY <3>2, <3>4, <5>1, <5>2, Zenon
      <4>2. CASE n # 0
        <5>1. g[n] = f[n] /\ n + 1 # 1
            BY <2>5, <4>2
        <5> QED
            BY <3>2, <3>3, <5>1
      <4> QED
          BY <4>1, <4>2
    <3> QED
        BY <3>1, <3>5
  <2>6. \A n \in 0..Len(s) : n \in Good
    <3> HIDE DEF Good
    <3> QED
        BY <1>1, <2>4, <2>5, UpTo
  <2> QED
      BY <1>1, <1>3, <2>3, <2>6
<1> QED
    BY <1>2, <1>3

LEMMA FlattenEmpty == FlattenSeq(<<>>) = <<>>
BY DEF FlattenSeq

LEMMA FlattenType ==
    ASSUME NEW S, NEW s \in Seq(Seq(S))
    PROVE  FlattenSeq(s) \in Seq(S)
<1>1. PICK f : Joins(f, s, S)
    BY JoinsExists
<1>2. FlattenSeq(s) = f[Len(s)] /\ Len(s) \in Nat
    BY <1>1, FlattenJoins, LenProperties
<1> QED
    BY <1>1, <1>2 DEF Joins

\* One more sequence is put behind the others.
LEMMA FlattenAppend ==
    ASSUME NEW S, NEW s \in Seq(Seq(S)), NEW x \in Seq(S)
    PROVE  FlattenSeq(Append(s, x)) = FlattenSeq(s) \o x
<1> DEFINE t == Append(s, x)
<1>1. /\ t \in Seq(Seq(S)) /\ Len(t) = Len(s) + 1 /\ t[Len(s) + 1] = x
      /\ \A n \in 1..Len(s) : t[n] = s[n]
    BY AppendProperties
<1>2. Len(s) \in Nat
    BY LenProperties
<1> HIDE DEF t
<1>3. PICK f : Joins(f, s, S)
    BY JoinsExists
<1>4. PICK g : Joins(g, t, S)
    BY <1>1, JoinsExists
<1>5. f[Len(s)] = g[Len(s)]
  <2>1. Len(s) <= Len(t) /\ \A n \in 1..Len(s) : s[n] = t[n]
      BY <1>1, <1>2
  <2>2. \A n \in 0..Len(s) : f[n] = g[n]
      BY <1>1, <1>3, <1>4, <2>1, JoinsUnique
  <2> QED
      BY <1>2, <2>2
<1>6. g[Len(t)] = g[Len(s)] \o t[Len(t)]
  <2>1. Len(t) \in 1..Len(t) /\ Len(t) - 1 = Len(s)
      BY <1>1, <1>2
  <2> QED
      BY <1>4, <2>1 DEF Joins
<1>7. FlattenSeq(s) = f[Len(s)] /\ FlattenSeq(t) = g[Len(t)]
    BY <1>1, <1>3, <1>4, FlattenJoins
<1>8. FlattenSeq(t) = FlattenSeq(s) \o x
    BY <1>1, <1>5, <1>6, <1>7
<1> QED
    BY <1>8 DEF t

LEMMA FirstFacts ==
    ASSUME NEW S, NEW s \in Seq(S)
    PROVE  /\ First(s, 0) = <<>> /\ First(s, Len(s)) = s
           /\ \A n \in 0..Len(s) : First(s, n) \in Seq(S) /\ Len(First(s, n)) = n
           /\ \A n \in 0..(Len(s) - 1) : First(s, n + 1) = Append(First(s, n), s[n + 1])
<1>1. Len(s) \in Nat /\ s \in [1..Len(s) -> S]
    BY LenProperties
<1>2. First(s, 0) = <<>>
    BY DEF First
<1>3. First(s, Len(s)) = s
    BY <1>1 DEF First
<1>4. \A n \in 0..Len(s) : First(s, n) \in Seq(S) /\ Len(First(s, n)) = n
    BY <1>1 DEF First
<1>5. ASSUME NEW n \in 0..(Len(s) - 1)
      PROVE  First(s, n + 1) = Append(First(s, n), s[n + 1])
    BY <1>1, <1>4 DEF First
<1> QED
    BY <1>2, <1>3, <1>4, <1>5

\* The same, for the sequences up to a place
LEMMA FlattenFirst ==
    ASSUME NEW S, NEW s \in Seq(Seq(S))
    PROVE  /\ FlattenSeq(First(s, 0)) = <<>> /\ FlattenSeq(First(s, Len(s))) = FlattenSeq(s)
           /\ \A n \in 0..Len(s) : FlattenSeq(First(s, n)) \in Seq(S)
           /\ \A n \in 0..(Len(s) - 1) :
                FlattenSeq(First(s, n + 1)) = FlattenSeq(First(s, n)) \o s[n + 1]
<1>1. Len(s) \in Nat /\ \A n \in 0..(Len(s) - 1) : n + 1 \in 1..Len(s) /\ n \in 0..Len(s)
    BY LenProperties
<1>2. \A n \in 1..Len(s) : s[n] \in Seq(S)
    BY ElementOfSeq
<1>3. \A n \in 0..Len(s) : First(s, n) \in Seq(Seq(S))
    BY FirstFacts
<1>4. ASSUME NEW n \in 0..(Len(s) - 1)
      PROVE  FlattenSeq(First(s, n + 1)) = FlattenSeq(First(s, n)) \o s[n + 1]
    BY <1>1, <1>2, <1>3, FirstFacts, FlattenAppend
<1> QED
    BY <1>3, <1>4, FirstFacts, FlattenEmpty, FlattenType
-----------------------------------------------------------------------------
(* More about FlattenSeq, and the greatest of a set of places *)

LEMMA Extremes ==
    ASSUME NEW N \in Nat, NEW T, T \subseteq 1..N, T # {}
    PROVE  /\ Max(T) \in T /\ \A n \in T : n <= Max(T)
           /\ Min(T) \in T /\ \A n \in T : Min(T) <= n
<1>1. Min(T) \in T /\ \A n \in T : Min(T) <= n
  <2>1. T \subseteq Nat
      OBVIOUS
  <2>2. PICK n \in T : \A k \in T : n <= k
      BY <2>1, Least
  <2> QED
      BY <2>2 DEF Min
<1>2. Max(T) \in T /\ \A n \in T : n <= Max(T)
  <2> DEFINE D == {N - n : n \in T}
  <2>1. D \subseteq Nat /\ D # {}
    <3>1. \A n \in T : n \in Int /\ N - n \in Nat
        OBVIOUS
    <3>2. PICK n : n \in T
        OBVIOUS
    <3>3. N - n \in D
        BY <3>2
    <3> QED
        BY <3>1, <3>3
  <2>2. PICK d \in D : \A k \in D : d <= k
    <3> HIDE DEF D
    <3> QED
        BY <2>1, Least
  <2>3. PICK n \in T : d = N - n
      BY <2>2
  <2>4. \A k \in T : n >= k
    <3> TAKE k \in T
    <3>1. N - k \in D
        OBVIOUS
    <3>2. N - n <= N - k
        BY <2>2, <2>3, <3>1
    <3> QED
        BY <3>2
  <2>5. Max(T) \in T /\ \A k \in T : Max(T) >= k
      BY <2>4 DEF Max
  <2>6. \A k \in T : k \in Nat
      OBVIOUS
  <2> QED
      BY <2>5, <2>6
<1> QED
    BY <1>1, <1>2

\* Sequences of the same lengths, related element by element, stay so.
LEMMA Pairwise ==
    ASSUME NEW S, NEW T, NEW p \in Seq(Seq(S)), NEW q \in Seq(Seq(T)), NEW R,
           Len(p) = Len(q),
           \A n \in 1..Len(p) : /\ Len(p[n]) = Len(q[n])
                                /\ \A k \in 1..Len(p[n]) : <<p[n][k], q[n][k]>> \in R
    PROVE  /\ Len(FlattenSeq(p)) = Len(FlattenSeq(q))
           /\ \A k \in 1..Len(FlattenSeq(p)) : <<FlattenSeq(p)[k], FlattenSeq(q)[k]>> \in R
<1> DEFINE N == Len(p)
           P(n) == FlattenSeq(First(p, n))
           Q(n) == FlattenSeq(First(q, n))
           Good == {n \in 0..N : /\ Len(P(n)) = Len(Q(n))
                                 /\ \A k \in 1..Len(P(n)) : <<P(n)[k], Q(n)[k]>> \in R}
<1>1. N \in Nat /\ Len(q) = N
    BY LenProperties
<1>2. /\ P(0) = <<>> /\ Q(0) = <<>> /\ P(N) = FlattenSeq(p) /\ Q(N) = FlattenSeq(q)
      /\ \A n \in 0..N : P(n) \in Seq(S) /\ Q(n) \in Seq(T)
      /\ \A n \in 0..(N - 1) : P(n + 1) = P(n) \o p[n + 1] /\ Q(n + 1) = Q(n) \o q[n + 1]
    BY <1>1, FlattenFirst
<1>3. 0 \in Good
  <2>1. Len(P(0)) = 0 /\ Len(Q(0)) = 0
      BY <1>2, EmptySeq
  <2> QED
      BY <1>1, <2>1
<1>4. ASSUME NEW n \in 0..(N - 1), n \in Good PROVE n + 1 \in Good
  <2> DEFINE a == P(n)  b == Q(n)  x == p[n + 1]  y == q[n + 1]
  <2>1. n + 1 \in 1..N /\ n \in 0..N /\ n + 1 \in 0..N
      BY <1>1
  <2>2. x \in Seq(S) /\ y \in Seq(T) /\ a \in Seq(S) /\ b \in Seq(T)
      BY <1>1, <1>2, <2>1, ElementOfSeq
  <2>3. Len(x) = Len(y) /\ \A k \in 1..Len(x) : <<x[k], y[k]>> \in R
      BY <2>1
  <2>4. Len(a) = Len(b) /\ \A k \in 1..Len(a) : <<a[k], b[k]>> \in R
      BY <1>4
  <2>5. P(n + 1) = a \o x /\ Q(n + 1) = b \o y
      BY <1>2
  <2> HIDE DEF a, b, x, y, P, Q
  <2>6. /\ Len(a) \in Nat /\ Len(x) \in Nat
        /\ Len(a \o x) = Len(a) + Len(x) /\ Len(b \o y) = Len(b) + Len(y)
        /\ \A k \in 1..(Len(a) + Len(x)) :
             (a \o x)[k] = IF k <= Len(a) THEN a[k] ELSE x[k - Len(a)]
        /\ \A k \in 1..(Len(b) + Len(y)) :
             (b \o y)[k] = IF k <= Len(b) THEN b[k] ELSE y[k - Len(b)]
      BY <2>2, ConcatProperties, LenProperties
  <2>7. \A k \in 1..Len(a \o x) : <<(a \o x)[k], (b \o y)[k]>> \in R
    <3> TAKE k \in 1..Len(a \o x)
    <3>1. k \in 1..(Len(a) + Len(x)) /\ k \in 1..(Len(b) + Len(y))
        BY <2>3, <2>4, <2>6
    <3>2. CASE k <= Len(a)
      <4>1. (a \o x)[k] = a[k] /\ (b \o y)[k] = b[k] /\ k \in 1..Len(a)
          BY <2>4, <2>6, <3>1, <3>2
      <4> QED
          BY <2>4, <4>1
    <3>3. CASE ~(k <= Len(a))
      <4>1. (a \o x)[k] = x[k - Len(a)]
          BY <2>6, <3>1, <3>3
      <4>2. (b \o y)[k] = y[k - Len(a)]
          BY <2>4, <2>6, <3>1, <3>3
      <4>3. k - Len(a) \in 1..Len(x)
          BY <2>6, <3>1, <3>3
      <4> QED
          BY <2>3, <4>1, <4>2, <4>3
    <3> QED
        BY <3>2, <3>3
  <2>8. Len(a \o x) = Len(b \o y)
      BY <2>3, <2>4, <2>6
  <2> QED
      BY <2>1, <2>5, <2>7, <2>8
<1>5. \A n \in 0..N : n \in Good
  <2> HIDE DEF Good, N
  <2> QED
      BY <1>1, <1>3, <1>4, UpTo
<1>6. N \in Good
    BY <1>1, <1>5
<1> QED
    BY <1>2, <1>6

\* The sequence of its own elements
LEMMA Singles ==
    ASSUME NEW S, NEW t \in Seq(S)
    PROVE  FlattenSeq([n \in 1..Len(t) |-> <<t[n]>>]) = t
<1> DEFINE s == [n \in 1..Len(t) |-> <<t[n]>>]
<1>1. Len(t) \in Nat /\ \A n \in 1..Len(t) : t[n] \in S
    BY LenProperties, ElementOfSeq
<1>2. s \in Seq(Seq(S)) /\ Len(s) = Len(t) /\ \A n \in 1..Len(t) : s[n] = <<t[n]>>
  <2>1. \A n \in 1..Len(t) : <<t[n]>> \in Seq(S)
      BY <1>1
  <2> QED
      BY <1>1, <2>1
<1> DEFINE Good == {n \in 0..Len(t) : FlattenSeq(First(s, n)) = First(t, n)}
<1> HIDE DEF s
<1>3. 0 \in Good
    BY <1>1, FirstFacts, FlattenEmpty, <1>2
<1>4. ASSUME NEW n \in 0..(Len(t) - 1), n \in Good PROVE n + 1 \in Good
  <2>1. n + 1 \in 1..Len(t) /\ n \in 0..Len(t) /\ n + 1 \in 0..Len(t)
      BY <1>1
  <2>2. FlattenSeq(First(s, n + 1)) = FlattenSeq(First(s, n)) \o s[n + 1]
      BY <1>2, FlattenFirst
  <2>3. FlattenSeq(First(s, n)) = First(t, n) /\ s[n + 1] = <<t[n + 1]>>
      BY <1>2, <1>4, <2>1
  <2>4. First(t, n + 1) = Append(First(t, n), t[n + 1]) /\ First(t, n) \in Seq(S)
      BY <2>1, FirstFacts
  <2>5. First(t, n) \o <<t[n + 1]>> = Append(First(t, n), t[n + 1])
    <3>1. t[n + 1] \in S
        BY <1>1, <2>1
    <3> QED
        BY <2>4, <3>1, AppendIsConcat
  <2> QED
      BY <2>1, <2>2, <2>3, <2>4, <2>5
<1>5. \A n \in 0..Len(t) : n \in Good
  <2> HIDE DEF Good
  <2> QED
      BY <1>1, <1>3, <1>4, UpTo
<1>6. FlattenSeq(First(s, Len(t))) = First(t, Len(t))
    BY <1>1, <1>5
<1>7. FlattenSeq(s) = t
    BY <1>2, <1>6, FirstFacts
<1> QED
    BY <1>7 DEF s

LEMMA FunctionIsSeq ==
    ASSUME NEW S, NEW n \in Nat, NEW f \in [1..n -> S]
    PROVE  f \in Seq(S) /\ Len(f) = n
OBVIOUS

LEMMA OneElement ==
    ASSUME NEW S, NEW x \in S
    PROVE  <<x>> \in Seq(S)
OBVIOUS

LEMMA SeqOfMore ==
    ASSUME NEW S, NEW T, S \subseteq T, NEW s \in Seq(S)
    PROVE  s \in Seq(T)
<1>1. Len(s) \in Nat /\ s \in [1..Len(s) -> S]
    BY LenProperties
<1>2. s \in [1..Len(s) -> T]
    BY <1>1
<1> QED
    BY <1>1, <1>2

LEMMA NewHead ==
    ASSUME NEW S, NEW s \in Seq(S), s # <<>>, NEW x \in S
    PROVE  <<x>> \o Tail(s) = [s EXCEPT ![1] = x]
<1> DEFINE u == <<x>> \o Tail(s)
<1>1. Len(s) \in Nat /\ Len(s) # 0 /\ s \in [1..Len(s) -> S]
    BY LenProperties, EmptySeq
<1>2. /\ Tail(s) \in Seq(S) /\ Len(Tail(s)) = Len(s) - 1
      /\ \A n \in 1..Len(Tail(s)) : Tail(s)[n] = s[n + 1]
    BY HeadTailProperties
<1>3. <<x>> \in Seq(S) /\ Len(<<x>>) = 1 /\ <<x>>[1] = x
    BY OneElement
<1>4. /\ u \in Seq(S) /\ Len(u) = 1 + (Len(s) - 1)
      /\ \A n \in 1..(1 + (Len(s) - 1)) : u[n] = IF n <= 1 THEN <<x>>[n] ELSE Tail(s)[n - 1]
    BY <1>2, <1>3, ConcatProperties
<1> HIDE DEF u
<1>5. u \in [1..Len(s) -> S]
    BY <1>1, <1>4, LenProperties
<1>6. ASSUME NEW n \in 1..Len(s) PROVE u[n] = IF n = 1 THEN x ELSE s[n]
  <2>1. n \in 1..(1 + (Len(s) - 1))
      BY <1>1
  <2>2. CASE n = 1
      BY <1>3, <1>4, <2>1, <2>2
  <2>3. CASE n # 1
    <3>1. ~(n <= 1) /\ n - 1 \in 1..Len(Tail(s)) /\ (n - 1) + 1 = n
        BY <1>1, <1>2, <2>3
    <3>2. u[n] = Tail(s)[n - 1]
        BY <1>4, <2>1, <3>1
    <3>3. Tail(s)[n - 1] = s[n]
        BY <1>2, <3>1
    <3> QED
        BY <2>3, <3>2, <3>3
  <2> QED
      BY <2>2, <2>3
<1>7. [s EXCEPT ![1] = x] = [n \in 1..Len(s) |-> IF n = 1 THEN x ELSE s[n]]
    BY <1>1
<1>8. u = [n \in 1..Len(s) |-> u[n]]
    BY <1>5
<1>9. u = [s EXCEPT ![1] = x]
    BY <1>6, <1>7, <1>8
<1> QED
    BY <1>9 DEF u

\* All but one of the sequences are empty.
LEMMA OnlyOne ==
    ASSUME NEW S, NEW s \in Seq(Seq(S)), NEW i \in 1..Len(s),
           \A n \in 1..Len(s) : n # i => s[n] = <<>>
    PROVE  FlattenSeq(s) = s[i]
<1>1. Len(s) \in Nat /\ s[i] \in Seq(S)
    BY LenProperties, ElementOfSeq
<1> DEFINE F(n) == FlattenSeq(First(s, n))
           Good == {n \in 0..Len(s) : F(n) = IF n < i THEN <<>> ELSE s[i]}
<1>2. /\ F(0) = <<>> /\ F(Len(s)) = FlattenSeq(s)
      /\ \A n \in 0..(Len(s) - 1) : F(n + 1) = F(n) \o s[n + 1]
    BY FlattenFirst
<1> HIDE DEF F
<1>3. 0 \in Good
    BY <1>1, <1>2
<1>4. ASSUME NEW n \in 0..(Len(s) - 1), n \in Good PROVE n + 1 \in Good
  <2>1. n + 1 \in 1..Len(s) /\ n + 1 \in 0..Len(s) /\ n \in Nat
      BY <1>1
  <2>2. F(n + 1) = F(n) \o s[n + 1]
      BY <1>2
  <2>3. CASE n + 1 < i
    <3>1. F(n) = <<>> /\ s[n + 1] = <<>>
        BY <1>4, <2>1, <2>3
    <3>2. F(n + 1) = <<>>
        BY <2>2, <3>1, EmptySeq, ConcatEmptySeq
    <3> QED
        BY <2>1, <2>3, <3>2
  <2>4. CASE n + 1 = i
    <3>1. F(n) = <<>> /\ s[n + 1] = s[i]
        BY <1>4, <2>1, <2>4
    <3>2. <<>> \o s[i] = s[i]
        BY <1>1, ConcatEmptySeq
    <3>3. F(n + 1) = s[i]
        BY <2>2, <3>1, <3>2
    <3> QED
        BY <2>1, <2>4, <3>3
  <2>5. CASE n + 1 > i
    <3>1. F(n) = s[i] /\ s[n + 1] = <<>>
        BY <1>4, <2>1, <2>5
    <3>2. s[i] \o <<>> = s[i]
        BY <1>1, ConcatEmptySeq
    <3>3. F(n + 1) = s[i]
        BY <2>2, <3>1, <3>2
    <3> QED
        BY <2>1, <2>5, <3>3
  <2> QED
      BY <2>1, <2>3, <2>4, <2>5
<1>5. \A n \in 0..Len(s) : n \in Good
  <2> HIDE DEF Good
  <2> QED
      BY <1>1, <1>3, <1>4, UpTo
<1>6. Len(s) \in Good
    BY <1>1, <1>5
<1> QED
    BY <1>1, <1>2, <1>6

\* All of them are.
LEMMA NothingLeft ==
    ASSUME NEW s \in Seq(Seq({})), \A n \in 1..Len(s) : s[n] = <<>>
    PROVE  FlattenSeq(s) = <<>>
<1>1. FlattenSeq(s) \in Seq({})
    BY FlattenType
<1> QED
    BY <1>1, EmptySeq, ElementOfSeq, LenProperties
=============================================================================
