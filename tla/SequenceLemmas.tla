----------------------------- MODULE SequenceLemmas -----------------------------
(***************************************************************************)
(* Facts about numbers and sequences the other proofs rest on.  Induction   *)
(* is stated over sets of numbers, so that a proof can name the set for     *)
(* which its claim holds: a set of numbers that has 0 and, with a number,   *)
(* the next one, has them all.  Definition by recursion is stated for steps *)
(* that are functions.                                                      *)
(***************************************************************************)
EXTENDS Integers, Sequences, SequencesExt, Functions, TLAPS,
        FiniteSetTheorems, SequenceTheorems, WellFoundedInduction

\* A nonempty set of numbers has a least one: the initial segments its members
\* close are finite sets, and strict inclusion between those is well-founded.
LEMMA LeastNumber ==
    ASSUME NEW N \in SUBSET Nat, N # {}
    PROVE  \E n \in N : \A m \in N : n <= m
<1> DEFINE segments == {0..n : n \in N}
<1>1. segments \subseteq FiniteSubsetsOf(Nat) /\ segments # {}
  <2>1. \A n \in N : 0..n \in SUBSET Nat /\ IsFiniteSet(0..n)
    BY FS_Interval
  <2>2. QED
    BY <2>1 DEF FiniteSubsetsOf
<1>2. PICK least \in segments :
         \A other \in segments : ~(<<other, least>> \in StrictSubsetOrdering(Nat))
  BY <1>1, FS_StrictSubsetOrderingWellFounded, WFMin
<1>3. PICK n \in N : least = 0..n
  BY <1>2
<1>4. ASSUME NEW m \in N, ~(n <= m)
      PROVE  FALSE
  <2>1. 0..m \subseteq Nat /\ 0..n \subseteq Nat
    OBVIOUS
  <2>2. 0..m \subseteq 0..n /\ n \in 0..n /\ n \notin 0..m
    BY <1>4
  <2>3. <<0..m, 0..n>> \in StrictSubsetOrdering(Nat)
    BY <2>1, <2>2 DEF StrictSubsetOrdering
  <2>4. QED
    BY <1>2, <1>3, <1>4, <2>3
<1>5. QED
  BY <1>4

\* A nonempty set of numbers below a bound has a greatest one.
LEMMA GreatestNumber ==
    ASSUME NEW m \in Nat, NEW N \in SUBSET (0..m), N # {}
    PROVE  \E n \in N : \A i \in N : n >= i
<1> DEFINE M == {m - i : i \in N}
<1>1. M \in SUBSET Nat /\ M # {}
  <2>1. \A i \in N : m - i \in Nat
    OBVIOUS
  <2>2. QED
    BY <2>1
<1>2. \E d \in M : \A e \in M : d <= e
  <2> HIDE DEF M
  <2>1. QED
    BY <1>1, LeastNumber
<1>3. PICK n \in N : \A i \in N : m - n <= m - i
  BY <1>2
<1>4. ASSUME NEW i \in N PROVE n >= i
  <2>1. m - n <= m - i
    BY <1>3
  <2>2. m - n \in Nat /\ n \in 0..m /\ i \in 0..m
    BY <1>3
  <2>3. QED
    BY <2>1, <2>2
<1>5. QED
  BY <1>4

\* Induction: what holds of 0 and passes from n to n + 1 holds of every number.
LEMMA Induction ==
    ASSUME NEW N, 0 \in N, \A n \in Nat : n \in N => n + 1 \in N
    PROVE  Nat \subseteq N
<1> SUFFICES ASSUME ~(Nat \subseteq N) PROVE FALSE
  OBVIOUS
<1>1. PICK n \in Nat \ N : \A m \in Nat \ N : n <= m
  <2>1. Nat \ N \in SUBSET Nat /\ Nat \ N # {}
    OBVIOUS
  <2>2. QED
    BY <2>1, LeastNumber
<1>2. n # 0 /\ n - 1 \in Nat
  BY <1>1
<1>3. n - 1 \in N
  BY <1>1, <1>2
<1>4. QED
  BY <1>1, <1>2, <1>3

\* The same up to a bound.
LEMMA BoundedInduction ==
    ASSUME NEW N, NEW m \in Nat, 0 \in N, \A n \in 0..(m - 1) : n \in N => n + 1 \in N
    PROVE  0..m \subseteq N
<1> DEFINE M == {n \in Nat : n <= m => n \in N}
<1>1. 0 \in M /\ \A n \in Nat : n \in M => n + 1 \in M
  OBVIOUS
<1>2. Nat \subseteq M
  <2> HIDE DEF M
  <2>1. QED
    BY <1>1, Induction
<1>3. QED
  BY <1>2

\* A function is defined by where it starts and the steps it takes.
IsRecursion(g, X, m, base, step) ==
    /\ g \in [0..m -> X]
    /\ g[0] = base
    /\ \A n \in 1..m : g[n] = step[n][g[n - 1]]

LEMMA RecursionDefined ==
    ASSUME NEW X, NEW m \in Nat, NEW base \in X, NEW step \in [1..m -> [X -> X]]
    PROVE  \E g : IsRecursion(g, X, m, base, step)
<1> DEFINE Defines(g, k) == /\ g \in [0..k -> X] /\ g[0] = base
                            /\ \A n \in 1..k : g[n] = step[n][g[n - 1]]
           N == {k \in 0..m : \E g : Defines(g, k)}
<1>1. 0 \in N
  <2>1. Defines([n \in 0..0 |-> base], 0)
    OBVIOUS
  <2> HIDE DEF Defines
  <2>2. QED
    BY <2>1
<1>2. ASSUME NEW k \in 0..(m - 1), k \in N
      PROVE  k + 1 \in N
  <2>1. PICK g : Defines(g, k)
    BY <1>2
  <2> DEFINE h == [n \in 0..(k + 1) |-> IF n = k + 1 THEN step[k + 1][g[k]] ELSE g[n]]
  <2>2. k + 1 \in 1..m /\ g[k] \in X /\ step[k + 1][g[k]] \in X
    BY <2>1
  <2>3. h \in [0..(k + 1) -> X]
    BY <2>1, <2>2
  <2>4. ASSUME NEW n \in 1..(k + 1)
        PROVE  h[n] = step[n][h[n - 1]]
    <3>1. CASE n = k + 1
      BY <3>1, <2>2
    <3>2. CASE n # k + 1
      <4>1. n \in 1..k /\ n - 1 \in 0..k
        BY <3>2
      <4>2. h[n] = g[n] /\ h[n - 1] = g[n - 1]
        BY <4>1
      <4>3. QED
        BY <4>1, <4>2, <2>1
    <3>3. QED
      BY <3>1, <3>2
  <2>5. h[0] = base
    BY <2>1
  <2>6. Defines(h, k + 1)
    <3> HIDE DEF h
    <3>1. QED
      BY <2>3, <2>4, <2>5
  <2> HIDE DEF Defines, h
  <2>7. k + 1 \in 0..m
    BY <2>2
  <2>8. QED
    BY <2>6, <2>7
<1>3. m \in N
  <2> HIDE DEF N
  <2>1. 0..m \subseteq N
    BY <1>1, <1>2, BoundedInduction
  <2>2. QED
    BY <2>1
<1>4. QED
  BY <1>3 DEF IsRecursion

\* The parts of a flattened sequence, joined one by one.
IsRunning(f, S, seqs) ==
    /\ f \in [0..Len(seqs) -> Seq(S)]
    /\ f[0] = << >>
    /\ \A n \in 1..Len(seqs) : f[n] = f[n - 1] \o seqs[n]

LEMMA Flattened ==
    ASSUME NEW S, NEW seqs \in Seq(Seq(S))
    PROVE  \E f : IsRunning(f, S, seqs) /\ FlattenSeq(seqs) = f[Len(seqs)]
<1> DEFINE m == Len(seqs)
           X == Seq(S)
           step == [n \in 1..m |-> [x \in X |-> x \o seqs[n]]]
           Flat(f) == [n \in 1..m |-> IF n = 1 THEN seqs[n] ELSE f[n - 1] \o seqs[n]]
           flat == CHOOSE f : f = Flat(f)
<1>1. m \in Nat /\ \A n \in 1..m : seqs[n] \in X
  OBVIOUS
<1>2. step \in [1..m -> [X -> X]] /\ << >> \in X
  <2>1. \A n \in 1..m : \A x \in X : x \o seqs[n] \in X
    BY <1>1, ConcatProperties
  <2> HIDE DEF X, m
  <2>2. step \in [1..m -> [X -> X]]
    BY <2>1
  <2>3. << >> \in X
    BY DEF X
  <2>4. QED
    BY <2>2, <2>3
<1>3. PICK f : IsRunning(f, S, seqs)
  <2>1. \E f : IsRecursion(f, X, m, << >>, step)
    <3> HIDE DEF X, m, step
    <3>1. QED
      BY <1>1, <1>2, RecursionDefined
  <2>2. PICK f : IsRecursion(f, X, m, << >>, step)
    BY <2>1
  <2>3. f \in [0..m -> X] /\ f[0] = << >> /\ \A n \in 1..m : f[n] = step[n][f[n - 1]]
    BY <2>2 DEF IsRecursion
  <2>4. ASSUME NEW n \in 1..m PROVE f[n] = f[n - 1] \o seqs[n]
    <3>1. n - 1 \in 0..m
      BY <1>1
    <3>2. f[n - 1] \in X
      BY <2>3, <3>1
    <3> HIDE DEF X
    <3>3. step[n][f[n - 1]] = f[n - 1] \o seqs[n]
      BY <3>2
    <3>4. QED
      BY <2>3, <3>3
  <2>5. QED
    BY <2>3, <2>4 DEF IsRunning
<1>4. f \in [0..m -> X] /\ f[0] = << >> /\ \A n \in 1..m : f[n] = f[n - 1] \o seqs[n]
  BY <1>3 DEF IsRunning
<1> HIDE DEF step
<1>5. m > 0 => f[1] = seqs[1]
  <2>1. ASSUME m > 0 PROVE f[1] = seqs[1]
    <3>1. 1 \in 1..m /\ 1 - 1 = 0
      BY <1>1, <2>1
    <3>2. f[1] = f[1 - 1] \o seqs[1] /\ seqs[1] \in X
      BY <1>1, <1>4, <3>1
    <3>3. << >> \o seqs[1] = seqs[1]
      BY <3>2, ConcatEmptySeq
    <3>4. QED
      BY <1>4, <3>1, <3>2, <3>3
  <2>2. QED
    BY <2>1
<1>6. flat = Flat(flat)
  <2> DEFINE g == [n \in 1..m |-> f[n]]
  <2>1. ASSUME NEW n \in 1..m PROVE g[n] = Flat(g)[n]
    <3>1. CASE n = 1
      BY <1>1, <1>5, <3>1
    <3>2. CASE n # 1
      <4>1. n - 1 \in 1..m
        BY <1>1, <3>2
      <4>2. g[n - 1] = f[n - 1] /\ g[n] = f[n]
        BY <4>1
      <4> HIDE DEF g
      <4>3. QED
        BY <1>4, <3>2, <4>2
    <3>3. QED
      BY <3>1, <3>2
  <2>2. DOMAIN g = 1..m /\ DOMAIN Flat(g) = 1..m /\ g = [n \in 1..m |-> g[n]]
           /\ Flat(g) = [n \in 1..m |-> Flat(g)[n]]
    OBVIOUS
  <2>3. g = Flat(g)
    <3> HIDE DEF g, Flat
    <3>1. QED
      BY <2>1, <2>2
  <2> HIDE DEF g, Flat
  <2>4. QED
    BY <2>3
<1>7. \A n \in 1..m : flat[n] = IF n = 1 THEN seqs[n] ELSE flat[n - 1] \o seqs[n]
  <2> HIDE DEF flat, m
  <2>1. \A n \in 1..m : flat[n] = Flat(flat)[n]
    <3> HIDE DEF Flat
    <3>1. QED
      BY <1>6
  <2>2. QED
    BY <2>1
<1>8. FlattenSeq(seqs) = IF m = 0 THEN seqs ELSE flat[m]
  BY DEF FlattenSeq
<1> DEFINE N == {n \in 0..m : n = 0 \/ flat[n] = f[n]}
<1> HIDE DEF flat, Flat
<1>9. ASSUME NEW n \in 0..(m - 1), n \in N
      PROVE  n + 1 \in N
  <2>1. n + 1 \in 1..m /\ (n + 1) - 1 = n
    BY <1>1
  <2>2. CASE n = 0
    BY <1>5, <1>7, <2>1, <2>2
  <2>3. CASE n # 0
    <3>1. flat[n] = f[n]
      BY <1>9, <2>3
    <3>2. flat[n + 1] = flat[n] \o seqs[n + 1]
      <4>1. n + 1 # 1 /\ n + 1 \in 1..m
        BY <1>1, <2>1, <2>3
      <4> HIDE DEF m
      <4>2. flat[n + 1] = flat[(n + 1) - 1] \o seqs[n + 1]
        BY <1>7, <4>1
      <4>3. QED
        BY <2>1, <4>2
    <3>3. f[n + 1] = f[n] \o seqs[n + 1]
      BY <1>4, <2>1
    <3>4. flat[n + 1] = f[n + 1] /\ n + 1 \in 0..m
      BY <1>1, <2>1, <3>1, <3>2, <3>3
    <3>5. QED
      BY <3>4
  <2>4. QED
    BY <2>2, <2>3
<1>10. m \in N
  <2>1. 0 \in N
    BY <1>1
  <2> HIDE DEF N
  <2>2. 0..m \subseteq N
    BY <1>1, <1>9, <2>1, BoundedInduction
  <2>3. QED
    BY <1>1, <2>2
<1>11. CASE m = 0
  <2>1. seqs = << >>
    BY <1>11
  <2>2. QED
    BY <1>3, <1>4, <1>8, <1>11, <2>1
<1>12. CASE m # 0
  BY <1>3, <1>8, <1>10, <1>12
<1>13. QED
  BY <1>11, <1>12

\* One sequence is the front of another.
Leads(front, whole) ==
    Len(front) <= Len(whole) /\ \A i \in 1..Len(front) : front[i] = whole[i]

\* What was joined first stays in front.
LEMMA RunningGrows ==
    ASSUME NEW S, NEW seqs \in Seq(Seq(S)), NEW f, IsRunning(f, S, seqs),
           NEW k \in 0..Len(seqs)
    PROVE  Leads(f[k], f[Len(seqs)])
<1> DEFINE m == Len(seqs)
           X == Seq(S)
           u == f[k]
           Before(w) == Len(u) <= Len(w) /\ \A i \in 1..Len(u) : u[i] = w[i]
           N == {n \in 0..m : n >= k => Before(f[n])}
<1>1. m \in Nat /\ \A n \in 1..m : seqs[n] \in X
  OBVIOUS
<1>2. f \in [0..m -> X] /\ \A n \in 1..m : f[n] = f[n - 1] \o seqs[n]
  BY DEF IsRunning
<1>3. \A v, w \in X : /\ Len(v) \in Nat /\ Len(w) \in Nat
                      /\ Len(v \o w) = Len(v) + Len(w)
                      /\ \A i \in 1..Len(v) : (v \o w)[i] = v[i]
  BY ConcatProperties
<1>4. u \in X /\ Len(u) \in Nat
  <2>1. u \in X
    BY <1>2
  <2>2. QED
    BY <1>3, <2>1
<1>5. Before(u)
  BY <1>4
<1> HIDE DEF X, u
<1>6. \A v, w \in X : Before(v) => Before(v \o w)
  BY <1>3, <1>4
<1> HIDE DEF Before, m
<1>7. 0 \in N
  BY <1>1, <1>5 DEF u, m
<1>8. ASSUME NEW n \in 0..(m - 1), n \in N
      PROVE  n + 1 \in N
  <2>1. n + 1 \in 1..m /\ (n + 1) - 1 = n /\ n \in 0..m /\ n + 1 \in 0..m
    BY <1>1
  <2>2. f[n + 1] = f[n] \o seqs[n + 1] /\ f[n] \in X /\ seqs[n + 1] \in X
    BY <1>1, <1>2, <2>1
  <2>3. CASE n + 1 = k
    BY <1>5, <2>1, <2>3 DEF u
  <2>4. CASE n >= k
    <3>1. Before(f[n])
      BY <1>8, <2>4
    <3>2. Before(f[n + 1])
      BY <1>6, <2>2, <3>1
    <3>3. QED
      BY <2>1, <3>2
  <2>5. CASE n + 1 < k
    BY <2>1, <2>5
  <2>6. n + 1 = k \/ n >= k \/ n + 1 < k
    BY <1>1 DEF m
  <2>7. QED
    BY <2>3, <2>4, <2>5, <2>6
<1>9. m \in N
  <2> HIDE DEF N
  <2>1. 0..m \subseteq N
    BY <1>1, <1>7, <1>8, BoundedInduction
  <2>2. QED
    BY <1>1, <2>1
<1>10. Before(f[m])
  BY <1>1, <1>9 DEF m
<1>11. QED
  BY <1>10 DEF Before, u, m, Leads

-----------------------------------------------------------------------------
\* The greatest number of an initial segment, and what is left without it.
LEMMA PrefixMax ==
    ASSUME NEW n \in Nat, NEW k \in 1..n
    PROVE  /\ 1..k \in SUBSET (1..n) /\ 1..k # {} /\ Max(1..k) = k
           /\ (1..k) \ {Max(1..k)} = 1..(k - 1) /\ 1..(k - 1) \in SUBSET (1..n)
<1>1. k \in 1..k /\ \A i \in 1..k : k >= i
  OBVIOUS
<1>2. \E m \in 1..k : \A i \in 1..k : m >= i
  BY <1>1
<1>3. Max(1..k) \in 1..k /\ \A i \in 1..k : Max(1..k) >= i
  BY <1>2 DEF Max
<1>4. Max(1..k) = k
  BY <1>1, <1>3
<1>5. QED
  BY <1>1, <1>4

\* A set of numbers that grows by one above them all: its greatest number.
LEMMA NewMax ==
    ASSUME NEW k \in Nat, NEW A \in SUBSET (1..(k + 1)), k + 1 \in A
    PROVE  Max(A) = k + 1 /\ A \ {Max(A)} \in SUBSET (1..k)
<1>1. k + 1 \in A /\ \A i \in A : k + 1 >= i
  OBVIOUS
<1>2. \E m \in A : \A i \in A : m >= i
  BY <1>1
<1>3. Max(A) \in A /\ \A i \in A : Max(A) >= i
  BY <1>2 DEF Max
<1>4. Max(A) = k + 1
  <2>1. Max(A) \in 1..(k + 1) /\ Max(A) >= k + 1
    BY <1>1, <1>3
  <2>2. QED
    BY <2>1
<1>5. A \ {k + 1} \in SUBSET (1..k)
  OBVIOUS
<1>6. QED
  BY <1>4, <1>5

\* A nonempty set of places has a greatest one.
LEMMA MaxMember ==
    ASSUME NEW k \in Nat, NEW A \in SUBSET (1..k), A # {}
    PROVE  Max(A) \in A /\ \A i \in A : Max(A) >= i
<1>1. A \in SUBSET (0..k)
  OBVIOUS
<1>2. \E n \in A : \A i \in A : n >= i
  BY <1>1, GreatestNumber
<1>3. QED
  BY <1>2 DEF Max

\* What a fold computes is a function on the sets of places, each step of which
\* takes the last place of a set.
IsFold(g, X, m, base, step) ==
    /\ g \in [SUBSET (1..m) -> X]
    /\ g[{}] = base
    /\ \A A \in SUBSET (1..m) : A # {} => g[A] = step[Max(A)][g[A \ {Max(A)}]]

LEMMA FoldDefined ==
    ASSUME NEW X, NEW m \in Nat, NEW base \in X, NEW step \in [1..m -> [X -> X]]
    PROVE  \E g : IsFold(g, X, m, base, step)
<1> DEFINE Defines(g, k) ==
             /\ g \in [SUBSET (1..k) -> X] /\ g[{}] = base
             /\ \A A \in SUBSET (1..k) : A # {} => g[A] = step[Max(A)][g[A \ {Max(A)}]]
           N == {k \in 0..m : \E g : Defines(g, k)}
<1>1. 0 \in N
  <2> DEFINE g == [A \in SUBSET (1..0) |-> base]
  <2>1. SUBSET (1..0) = {{}}
    OBVIOUS
  <2>2. g \in [SUBSET (1..0) -> X] /\ g[{}] = base
    BY <2>1
  <2>3. \A A \in SUBSET (1..0) : A # {} => g[A] = step[Max(A)][g[A \ {Max(A)}]]
    BY <2>1
  <2>4. Defines(g, 0)
    <3> HIDE DEF g
    <3>1. QED
      BY <2>2, <2>3
  <2> HIDE DEF Defines, g
  <2>5. QED
    BY <2>4
<1>2. ASSUME NEW k \in 0..(m - 1), k \in N
      PROVE  k + 1 \in N
  <2>1. PICK g : Defines(g, k)
    BY <1>2
  <2> DEFINE h == [A \in SUBSET (1..(k + 1)) |->
                     IF k + 1 \in A THEN step[k + 1][g[A \ {k + 1}]] ELSE g[A]]
  <2>2. k + 1 \in 1..m /\ k \in Nat
    OBVIOUS
  <2>3. \A A \in SUBSET (1..(k + 1)) :
           /\ k + 1 \in A => A \ {k + 1} \in SUBSET (1..k)
           /\ k + 1 \notin A => A \in SUBSET (1..k)
    OBVIOUS
  <2>4. \A B \in SUBSET (1..k) : B \in SUBSET (1..(k + 1)) /\ h[B] = g[B] /\ g[B] \in X
    BY <2>1
  <2>5. h \in [SUBSET (1..(k + 1)) -> X]
    <3>1. ASSUME NEW A \in SUBSET (1..(k + 1))
          PROVE  (IF k + 1 \in A THEN step[k + 1][g[A \ {k + 1}]] ELSE g[A]) \in X
      <4>1. CASE k + 1 \in A
        <5>1. g[A \ {k + 1}] \in X
          BY <2>1, <2>3, <4>1
        <5>2. step[k + 1][g[A \ {k + 1}]] \in X
          BY <2>2, <5>1
        <5>3. QED
          BY <4>1, <5>2
      <4>2. CASE k + 1 \notin A
        <5>1. g[A] \in X
          BY <2>1, <2>3, <4>2
        <5>2. QED
          BY <4>2, <5>1
      <4>3. QED
        BY <4>1, <4>2
    <3>2. QED
      BY <3>1
  <2>6. h[{}] = base
    BY <2>1, <2>4
  <2>7. ASSUME NEW A \in SUBSET (1..(k + 1)), A # {}
        PROVE  h[A] = step[Max(A)][h[A \ {Max(A)}]]
    <3>1. CASE k + 1 \in A
      <4>1. Max(A) = k + 1 /\ A \ {Max(A)} \in SUBSET (1..k)
        BY <2>2, <2>7, <3>1, NewMax
      <4>2. h[A] = step[k + 1][g[A \ {k + 1}]]
        BY <3>1
      <4>3. h[A \ {k + 1}] = g[A \ {k + 1}]
        BY <2>4, <4>1
      <4>4. QED
        BY <4>1, <4>2, <4>3
    <3>2. CASE k + 1 \notin A
      <4>1. A \in SUBSET (1..k) /\ A \ {Max(A)} \in SUBSET (1..k)
        BY <2>3, <3>2
      <4>2. h[A] = g[A] /\ h[A \ {Max(A)}] = g[A \ {Max(A)}]
        BY <2>4, <4>1
      <4>3. g[A] = step[Max(A)][g[A \ {Max(A)}]]
        BY <2>1, <2>7, <4>1
      <4>4. QED
        BY <4>2, <4>3
    <3>3. QED
      BY <3>1, <3>2
  <2>8. Defines(h, k + 1)
    <3> HIDE DEF h
    <3>1. QED
      BY <2>5, <2>6, <2>7
  <2>9. k + 1 \in 0..m
    BY <2>2
  <2> HIDE DEF Defines, h
  <2>10. QED
    BY <2>8, <2>9
<1>3. m \in N
  <2>1. m \in 0..m
    OBVIOUS
  <2> HIDE DEF N
  <2>2. QED
    BY <1>1, <1>2, <2>1, BoundedInduction
<1>4. QED
  BY <1>3 DEF IsFold

\* A function that each number but 0 takes from a number before it.
IsDescent(f, X, base, step, before) ==
    /\ f \in [Nat -> X]
    /\ f[0] = base
    /\ \A n \in Nat \ {0} : f[n] = step[n][f[before[n]]]

LEMMA DescentDefined ==
    ASSUME NEW X, NEW base \in X, NEW step \in [Nat -> [X -> X]],
           NEW before \in [Nat -> Nat], \A n \in Nat \ {0} : before[n] < n
    PROVE  \E f : IsDescent(f, X, base, step, before)
<1> DEFINE Defines(g, k) == /\ g \in [0..k -> X] /\ g[0] = base
                            /\ \A n \in 1..k : g[n] = step[n][g[before[n]]]
           N == {k \in Nat : \E g : Defines(g, k)}
<1>1. 0 \in N
  <2> DEFINE g == [n \in 0..0 |-> base]
  <2>1. Defines(g, 0)
    <3>1. g \in [0..0 -> X] /\ g[0] = base /\ 1..0 = {}
      OBVIOUS
    <3> HIDE DEF g
    <3>2. QED
      BY <3>1
  <2> HIDE DEF Defines
  <2>2. QED
    BY <2>1
<1>2. ASSUME NEW k \in Nat, k \in N
      PROVE  k + 1 \in N
  <2>1. PICK g : Defines(g, k)
    BY <1>2
  <2> DEFINE last == step[k + 1][g[before[k + 1]]]
             h == [n \in 0..(k + 1) |-> IF n = k + 1 THEN last ELSE g[n]]
  <2>2. before[k + 1] \in 0..k /\ last \in X
    <3>1. k + 1 \in Nat \ {0} /\ before[k + 1] < k + 1 /\ before[k + 1] \in Nat
      OBVIOUS
    <3>2. before[k + 1] \in 0..k
      BY <3>1
    <3>3. QED
      BY <2>1, <3>1, <3>2
  <2>3. \A n \in 0..k : h[n] = g[n]
    OBVIOUS
  <2>4. h[k + 1] = last
    OBVIOUS
  <2>5. h \in [0..(k + 1) -> X]
    BY <2>1, <2>2
  <2>6. ASSUME NEW n \in 1..(k + 1)
        PROVE  h[n] = step[n][h[before[n]]]
    <3>1. CASE n = k + 1
      <4>1. h[before[k + 1]] = g[before[k + 1]]
        BY <2>2, <2>3
      <4>2. QED
        BY <2>4, <3>1, <4>1
    <3>2. CASE n # k + 1
      <4>1. n \in 1..k /\ n \in Nat \ {0}
        BY <3>2
      <4>2. before[n] \in 0..k
        BY <4>1
      <4>3. h[n] = g[n] /\ h[before[n]] = g[before[n]]
        <5>1. n \in 0..k
          BY <4>1
        <5> HIDE DEF h
        <5>2. QED
          BY <2>3, <4>2, <5>1
      <4>4. g[n] = step[n][g[before[n]]]
        BY <2>1, <4>1
      <4>5. QED
        BY <4>3, <4>4
    <3>3. QED
      BY <3>1, <3>2
  <2>7. h[0] = base
    BY <2>1, <2>3
  <2>8. Defines(h, k + 1)
    <3> HIDE DEF h
    <3>1. QED
      BY <2>5, <2>6, <2>7
  <2> HIDE DEF Defines, h
  <2>9. QED
    BY <2>8
<1>3. Nat \subseteq N
  <2> HIDE DEF N
  <2>1. QED
    BY <1>1, <1>2, Induction
<1> DEFINE approximation == [k \in Nat |-> CHOOSE g : Defines(g, k)]
           f == [n \in Nat |-> approximation[n][n]]
<1>4. \A k \in Nat : Defines(approximation[k], k)
  <2>1. \A k \in Nat : \E g : Defines(g, k)
    BY <1>3
  <2> HIDE DEF Defines
  <2>2. QED
    BY <2>1
<1>5. ASSUME NEW k \in Nat, NEW m \in Nat, k <= m
      PROVE  \A n \in 0..k : approximation[k][n] = approximation[m][n]
  <2> DEFINE g == approximation[k]
             h == approximation[m]
             differs == {n \in 0..k : g[n] # h[n]}
  <2>1. Defines(g, k) /\ Defines(h, m)
    BY <1>4
  <2> HIDE DEF approximation, g, h
  <2>2. SUFFICES ASSUME differs # {} PROVE FALSE
    BY DEF g, h
  <2>3. differs \in SUBSET Nat
    OBVIOUS
  <2>4. PICK n \in differs : \A i \in differs : n <= i
    <3> HIDE DEF differs
    <3>1. QED
      BY <2>2, <2>3, LeastNumber
  <2>5. n \in 1..k /\ n \in 1..m /\ n \in Nat \ {0}
    <3>1. n # 0
      BY <2>1, <2>4
    <3>2. QED
      BY <1>5, <2>4, <3>1
  <2>6. before[n] \in 0..k /\ before[n] < n
    BY <2>5
  <2>7. g[before[n]] = h[before[n]]
    BY <2>4, <2>6
  <2>8. g[n] = h[n]
    BY <2>1, <2>5, <2>7
  <2>9. QED
    BY <2>4, <2>8
<1>6. f \in [Nat -> X]
  <2>1. \A n \in Nat : approximation[n][n] \in X
    <3>1. TAKE n \in Nat
    <3> DEFINE g == approximation[n]
    <3>2. n \in 0..n
      OBVIOUS
    <3>3. Defines(g, n)
      <4> HIDE DEF approximation, Defines
      <4>1. QED
        BY <1>4
    <3>4. g[n] \in X
      <4> HIDE DEF g
      <4>1. QED
        BY <3>2, <3>3
    <3>5. QED
      BY <3>4
  <2> HIDE DEF approximation
  <2>2. QED
    BY <2>1
<1>7. f[0] = base
  <2>1. Defines(approximation[0], 0)
    BY <1>4
  <2> HIDE DEF approximation
  <2>2. QED
    BY <2>1
<1>8. ASSUME NEW n \in Nat \ {0}
      PROVE  f[n] = step[n][f[before[n]]]
  <2>1. Defines(approximation[n], n)
    BY <1>4
  <2>2. before[n] \in Nat /\ before[n] < n
    OBVIOUS
  <2>3. before[n] \in 0..before[n] /\ n \in 1..n
    BY <2>2
  <2>4. approximation[before[n]][before[n]] = approximation[n][before[n]]
    <3> HIDE DEF approximation
    <3>1. QED
      BY <1>5, <2>2, <2>3
  <2> HIDE DEF approximation
  <2>5. approximation[n][n] = step[n][approximation[n][before[n]]]
    BY <2>1, <2>3
  <2>6. QED
    BY <2>2, <2>4, <2>5
<1>9. QED
  <2> HIDE DEF f
  <2>1. IsDescent(f, X, base, step, before)
    BY <1>6, <1>7, <1>8 DEF IsDescent
  <2>2. QED
    BY <2>1

-----------------------------------------------------------------------------
\* A scan of a text: the states it goes through, and that it goes from one
\* state to another.
IsTrace(t, X, step, a, s) ==
    /\ t \in [0..Len(s) -> X]
    /\ t[0] = a
    /\ \A k \in 1..Len(s) : t[k] = step[t[k - 1]][s[k]]
Runs(X, step, a, s, b) == \E t : IsTrace(t, X, step, a, s) /\ t[Len(s)] = b

\* A scan ends in a state.
LEMMA RunEnds ==
    ASSUME NEW C, NEW X, NEW step, NEW s \in Seq(C), NEW a, NEW b, Runs(X, step, a, s, b)
    PROVE  a \in X /\ b \in X
<1>1. PICK t : IsTrace(t, X, step, a, s) /\ t[Len(s)] = b
  BY DEF Runs
<1>2. Len(s) \in 0..Len(s) /\ 0 \in 0..Len(s)
  OBVIOUS
<1>3. QED
  BY <1>1, <1>2 DEF IsTrace

\* Nothing read, nothing changed.
LEMMA RunEmpty ==
    ASSUME NEW X, NEW step, NEW a \in X
    PROVE  Runs(X, step, a, << >>, a)
<1> DEFINE t == [k \in 0..0 |-> a]
<1>1. IsTrace(t, X, step, a, << >>) /\ t[Len(<< >>)] = a
  BY DEF IsTrace
<1>2. QED
  BY <1>1 DEF Runs

\* A character read.
LEMMA RunOne ==
    ASSUME NEW C, NEW X, NEW step, NEW a \in X, NEW c \in C, step[a][c] \in X
    PROVE  Runs(X, step, a, <<c>>, step[a][c])
<1> DEFINE t == [k \in 0..1 |-> IF k = 0 THEN a ELSE step[a][c]]
<1>1. Len(<<c>>) = 1 /\ <<c>>[1] = c /\ 1..1 = {1}
  OBVIOUS
<1>2. t \in [0..1 -> X] /\ t[0] = a /\ t[1] = step[a][c]
  OBVIOUS
<1>3. IsTrace(t, X, step, a, <<c>>) /\ t[1] = step[a][c]
  BY <1>1, <1>2 DEF IsTrace
<1>4. QED
  BY <1>1, <1>3 DEF Runs

\* One text after another.
LEMMA RunJoin ==
    ASSUME NEW C, NEW X, NEW step, NEW s \in Seq(C), NEW u \in Seq(C),
           NEW a, NEW b, NEW c, Runs(X, step, a, s, b), Runs(X, step, b, u, c)
    PROVE  Runs(X, step, a, s \o u, c)
<1>1. PICK t : IsTrace(t, X, step, a, s) /\ t[Len(s)] = b
  BY DEF Runs
<1>2. PICK v : IsTrace(v, X, step, b, u) /\ v[Len(u)] = c
  BY DEF Runs
<1> DEFINE w == [k \in 0..(Len(s) + Len(u)) |-> IF k <= Len(s) THEN t[k] ELSE v[k - Len(s)]]
<1>3. Len(s) \in Nat /\ Len(u) \in Nat /\ Len(s \o u) = Len(s) + Len(u)
  OBVIOUS
<1>4. ASSUME NEW k \in 0..(Len(s) + Len(u)) PROVE w[k] \in X
  <2>1. k <= Len(s) => k \in 0..Len(s)
    BY <1>3
  <2>2. ~(k <= Len(s)) => k - Len(s) \in 0..Len(u)
    BY <1>3
  <2>3. QED
    BY <1>1, <1>2, <2>1, <2>2 DEF IsTrace
<1>5. \A k \in Len(s)..(Len(s) + Len(u)) : w[k] = v[k - Len(s)]
  BY <1>1, <1>2, <1>3 DEF IsTrace
<1>6. ASSUME NEW k \in 1..(Len(s) + Len(u))
      PROVE  w[k] = step[w[k - 1]][(s \o u)[k]]
  <2>1. CASE k <= Len(s)
    <3>1. k \in 1..Len(s) /\ (s \o u)[k] = s[k] /\ w[k] = t[k] /\ w[k - 1] = t[k - 1]
      BY <1>3, <2>1
    <3>2. QED
      BY <1>1, <3>1 DEF IsTrace
  <2>2. CASE ~(k <= Len(s))
    <3> DEFINE j == k - Len(s)
    <3>1. j \in 1..Len(u) /\ (s \o u)[k] = u[j] /\ w[k] = v[j]
      BY <1>3, <1>5, <2>2
    <3>2. w[k - 1] = v[j - 1]
      <4>1. k - 1 \in Len(s)..(Len(s) + Len(u)) /\ (k - 1) - Len(s) = j - 1
        BY <1>3, <2>2
      <4> HIDE DEF w, j
      <4>2. QED
        BY <1>5, <4>1
    <3> HIDE DEF w, j
    <3>3. QED
      BY <1>2, <3>1, <3>2 DEF IsTrace
  <2>3. QED
    BY <2>1, <2>2
<1>7. IsTrace(w, X, step, a, s \o u)
  <2>1. w[0] = a
    BY <1>1, <1>3 DEF IsTrace
  <2>2. w \in [0..(Len(s) + Len(u)) -> X]
    BY <1>4
  <2> HIDE DEF w
  <2>3. QED
    BY <1>3, <1>6, <2>1, <2>2 DEF IsTrace
<1>8. w[Len(s \o u)] = c
  <2>1. Len(s) + Len(u) \in Len(s)..(Len(s) + Len(u)) /\ (Len(s) + Len(u)) - Len(s) = Len(u)
    BY <1>3
  <2> HIDE DEF w
  <2>2. QED
    BY <1>2, <1>3, <1>5, <2>1
<1> HIDE DEF w
<1>9. QED
  BY <1>7, <1>8 DEF Runs

\* Many texts, one after another.
LEMMA RunChain ==
    ASSUME NEW C, NEW X, NEW step, NEW seqs \in Seq(Seq(C)), NEW a,
           a[0] \in X,
           \A i \in 1..Len(seqs) : Runs(X, step, a[i - 1], seqs[i], a[i])
    PROVE  Runs(X, step, a[0], FlattenSeq(seqs), a[Len(seqs)])
<1> DEFINE n == Len(seqs)
<1>1. PICK f : IsRunning(f, C, seqs) /\ FlattenSeq(seqs) = f[n]
  BY Flattened
<1>2. n \in Nat
  OBVIOUS
<1> DEFINE N == {k \in 0..n : Runs(X, step, a[0], f[k], a[k])}
<1>3. 0 \in N
  <2>1. f[0] = << >>
    BY <1>1 DEF IsRunning
  <2>2. QED
    BY <1>2, <2>1, RunEmpty
<1>4. ASSUME NEW k \in 0..(n - 1), k \in N
      PROVE  k + 1 \in N
  <2>1. k + 1 \in 1..n /\ k + 1 \in 0..n /\ (k + 1) - 1 = k /\ k \in 0..n
    BY <1>2
  <2>2. f[k + 1] = f[k] \o seqs[k + 1] /\ f[k] \in Seq(C) /\ seqs[k + 1] \in Seq(C)
    <3>1. seqs[k + 1] \in Seq(C)
      BY <2>1
    <3>2. f[k + 1] = f[(k + 1) - 1] \o seqs[k + 1] /\ f[k] \in Seq(C)
      BY <1>1, <2>1 DEF IsRunning
    <3>3. QED
      BY <2>1, <3>1, <3>2, Zenon
  <2>3. Runs(X, step, a[0], f[k], a[k]) /\ Runs(X, step, a[k], seqs[k + 1], a[k + 1])
    BY <1>4, <2>1
  <2>4. Runs(X, step, a[0], f[k + 1], a[k + 1])
    BY <2>2, <2>3, RunJoin
  <2>5. QED
    BY <2>1, <2>4
<1>5. n \in N
  <2>1. n \in 0..n
    BY <1>2
  <2> HIDE DEF N
  <2>2. QED
    BY <1>2, <1>3, <1>4, <2>1, BoundedInduction
<1>6. QED
  BY <1>1, <1>5

\* The first character read, a scan goes on with the rest.
LEMMA RunTail ==
    ASSUME NEW C, NEW X, NEW step, NEW s \in Seq(C), s # << >>, NEW a, NEW b,
           Runs(X, step, a, s, b)
    PROVE  Runs(X, step, step[a][s[1]], Tail(s), b)
<1>1. PICK t : IsTrace(t, X, step, a, s) /\ t[Len(s)] = b
  BY DEF Runs
<1> DEFINE w == [k \in 0..(Len(s) - 1) |-> t[k + 1]]
<1>2. Len(s) \in Nat \ {0} /\ Len(Tail(s)) = Len(s) - 1
      /\ \A k \in 1..(Len(s) - 1) : Tail(s)[k] = s[k + 1]
  OBVIOUS
<1>3. w \in [0..(Len(s) - 1) -> X]
  BY <1>1, <1>2 DEF IsTrace
<1>4. w[0] = step[a][s[1]]
  <2>1. 1 \in 1..Len(s) /\ 1 - 1 = 0 /\ w[0] = t[1]
    BY <1>2
  <2>2. t[1] = step[t[1 - 1]][s[1]]
    BY <1>1, <2>1 DEF IsTrace
  <2>3. QED
    BY <1>1, <2>1, <2>2 DEF IsTrace
<1>5. ASSUME NEW k \in 1..(Len(s) - 1)
      PROVE  w[k] = step[w[k - 1]][Tail(s)[k]]
  <2>1. w[k] = t[k + 1] /\ w[k - 1] = t[k] /\ k + 1 \in 1..Len(s) /\ (k + 1) - 1 = k
    BY <1>2
  <2>2. t[k + 1] = step[t[k]][s[k + 1]]
    BY <1>1, <2>1 DEF IsTrace
  <2> HIDE DEF w
  <2>3. QED
    BY <1>2, <2>1, <2>2
<1>6. w[Len(Tail(s))] = b
  BY <1>1, <1>2
<1> HIDE DEF w
<1>7. IsTrace(w, X, step, step[a][s[1]], Tail(s))
  BY <1>2, <1>3, <1>4, <1>5 DEF IsTrace
<1>8. QED
  BY <1>6, <1>7 DEF Runs

\* A state that no character of a text changes.
LEMMA RunStays ==
    ASSUME NEW C, NEW X, NEW step, NEW s \in Seq(C), NEW a \in X,
           \A c \in C : step[a][c] = a
    PROVE  Runs(X, step, a, s, a)
<1> DEFINE t == [k \in 0..Len(s) |-> a]
<1>1. Len(s) \in Nat /\ \A k \in 1..Len(s) : s[k] \in C
  OBVIOUS
<1>2. IsTrace(t, X, step, a, s) /\ t[Len(s)] = a
  BY <1>1 DEF IsTrace
<1>3. QED
  BY <1>2 DEF Runs

\* A fold over a sequence takes the scan's steps, from the states it reaches.
FoldsAs(fold, X, step, a, s) ==
    /\ fold[{}] = a
    /\ \A A \in SUBSET (1..Len(s)) :
         A # {} /\ fold[A \ {Max(A)}] \in X => fold[A] = step[fold[A \ {Max(A)}]][s[Max(A)]]

\* There is such a fold.
LEMMA FoldMade ==
    ASSUME NEW C, NEW X, NEW step \in [X -> [C -> X]], NEW a \in X, NEW s \in Seq(C)
    PROVE  \E g : g \in [SUBSET (1..Len(s)) -> X] /\ FoldsAs(g, X, step, a, s)
<1> DEFINE n == Len(s)
           by == [i \in 1..n |-> [x \in X |-> step[x][s[i]]]]
<1>1. n \in Nat /\ \A i \in 1..n : s[i] \in C
  OBVIOUS
<1>2. by \in [1..n -> [X -> X]]
  BY <1>1
<1>3. PICK g : IsFold(g, X, n, a, by)
  <2> HIDE DEF by, n
  <2>1. QED
    BY <1>1, <1>2, FoldDefined
<1>4. ASSUME NEW A \in SUBSET (1..n), A # {}
      PROVE  g[A] = step[g[A \ {Max(A)}]][s[Max(A)]]
  <2>1. Max(A) \in 1..n
    <3> HIDE DEF n
    <3>1. QED
      BY <1>1, <1>4, MaxMember
  <2>2. g[A \ {Max(A)}] \in X
    <3>1. A \ {Max(A)} \in SUBSET (1..n)
      OBVIOUS
    <3>2. QED
      BY <1>3, <3>1 DEF IsFold
  <2>3. by[Max(A)][g[A \ {Max(A)}]] = step[g[A \ {Max(A)}]][s[Max(A)]]
    BY <2>1, <2>2
  <2>4. g[A] = by[Max(A)][g[A \ {Max(A)}]]
    BY <1>3, <1>4 DEF IsFold
  <2>5. QED
    BY <2>3, <2>4
<1>5. g \in [SUBSET (1..n) -> X] /\ g[{}] = a
  BY <1>3 DEF IsFold
<1>6. QED
  BY <1>4, <1>5 DEF FoldsAs

\* A fold over a sequence ends where the scan of the sequence does.
LEMMA FoldRuns ==
    ASSUME NEW C, NEW X, NEW step, NEW a, NEW s \in Seq(C), NEW b, Runs(X, step, a, s, b),
           NEW fold, FoldsAs(fold, X, step, a, s)
    PROVE  fold[1..Len(s)] = b
<1>1. PICK t : IsTrace(t, X, step, a, s) /\ t[Len(s)] = b
  BY DEF Runs
<1> DEFINE n == Len(s)
           N == {k \in 0..n : fold[1..k] = t[k]}
<1>2. n \in Nat
  OBVIOUS
<1>3. 0 \in N
  <2>1. 1..0 = {} /\ 0 \in 0..n
    BY <1>2
  <2>2. QED
    BY <1>1, <2>1 DEF IsTrace, FoldsAs
<1>4. ASSUME NEW k \in 0..(n - 1), k \in N
      PROVE  k + 1 \in N
  <2>1. k + 1 \in 1..n /\ k + 1 \in 0..n /\ (k + 1) - 1 = k /\ k \in 0..n
    BY <1>2
  <2> DEFINE A == 1..(k + 1)
  <2>2. A \in SUBSET (1..n) /\ A # {} /\ Max(A) = k + 1 /\ A \ {Max(A)} = 1..k
    BY <1>2, <2>1, PrefixMax
  <2>3. fold[1..k] = t[k] /\ t[k] \in X
    BY <1>1, <1>4, <2>1 DEF IsTrace
  <2>4. fold[A] = step[t[k]][s[k + 1]]
    <3> HIDE DEF A
    <3>1. fold[A \ {Max(A)}] = t[k]
      BY <2>2, <2>3, Zenon
    <3>2. fold[A] = step[fold[A \ {Max(A)}]][s[Max(A)]]
      BY <2>2, <2>3, <3>1 DEF FoldsAs
    <3>3. QED
      BY <2>2, <3>1, <3>2
  <2>5. t[k + 1] = step[t[k]][s[k + 1]]
    BY <1>1, <2>1 DEF IsTrace
  <2>6. QED
    BY <2>1, <2>4, <2>5
<1>5. n \in N
  <2>1. n \in 0..n
    BY <1>2
  <2> HIDE DEF N
  <2>2. QED
    BY <1>2, <1>3, <1>4, <2>1, BoundedInduction
<1>6. QED
  BY <1>1, <1>5

\* The characters of a text.
LEMMA Characters ==
    ASSUME NEW C, NEW s \in Seq(C)
    PROVE  Len(s) \in Nat /\ DOMAIN s = 1..Len(s) /\ \A i \in 1..Len(s) : s[i] \in C
OBVIOUS

\* The front of a text, one character longer each time.
LEMMA FrontGrows ==
    ASSUME NEW C, NEW s \in Seq(C), NEW L \in Seq(C)
    PROVE  /\ \A k \in 0..Len(s) : SubSeq(s, 1, k) \in Seq(C) /\ L \o SubSeq(s, 1, k) \in Seq(C)
           /\ L \o SubSeq(s, 1, 0) = L /\ SubSeq(s, 1, Len(s)) = s
           /\ \A k \in 1..Len(s) : L \o SubSeq(s, 1, k) = Append(L \o SubSeq(s, 1, k - 1), s[k])
<1>1. Len(s) \in Nat
  OBVIOUS
<1>2. \A k \in 0..Len(s) : SubSeq(s, 1, k) \in Seq(C) /\ L \o SubSeq(s, 1, k) \in Seq(C)
  <2>1. TAKE k \in 0..Len(s)
  <2>2. SubSeq(s, 1, k) \in Seq(C)
    BY <1>1, SubSeqProperties
  <2>3. QED
    BY <2>2, ConcatProperties
<1>3. SubSeq(s, 1, 0) = << >> /\ SubSeq(s, 1, Len(s)) = s
  BY <1>1, SubSeqEmpty, SubSeqFull
<1>4. ASSUME NEW k \in 1..Len(s)
      PROVE  L \o SubSeq(s, 1, k) = Append(L \o SubSeq(s, 1, k - 1), s[k])
  <2> DEFINE u == SubSeq(s, 1, k)
             v == SubSeq(s, 1, k - 1)
  <2>1. /\ u \in Seq(C) /\ v \in Seq(C) /\ Len(u) = k /\ Len(v) = k - 1
        /\ (\A i \in 1..k : u[i] = s[i]) /\ (\A i \in 1..(k - 1) : v[i] = s[i])
    <3>1. k - 1 \in 0..Len(s) /\ k \in 0..Len(s) /\ 1 \in 1..(Len(s) + 1)
      BY <1>1
    <3>2. QED
      BY <1>1, <1>2, <3>1, SubSeqProperties
  <2>2. s[k] \in C
    OBVIOUS
  <2> HIDE DEF u, v
  <2>3. /\ L \o v \in Seq(C) /\ Len(L \o v) = Len(L) + (k - 1) /\ Len(L \o u) = Len(L) + k
        /\ Len(L) \in Nat
    BY <2>1, ConcatProperties, Characters
  <2>4. Append(L \o v, s[k]) \in Seq(C) /\ Len(Append(L \o v, s[k])) = Len(L) + k
    BY <2>2, <2>3
  <2>5. \A i \in 1..(Len(L) + k) : (L \o u)[i] = Append(L \o v, s[k])[i]
    <3>1. TAKE i \in 1..(Len(L) + k)
    <3>2. CASE i <= Len(L)
      BY <2>1, <2>2, <2>3, <3>2
    <3>3. CASE i = Len(L) + k
      BY <2>1, <2>2, <2>3, <3>3
    <3>4. CASE i > Len(L) /\ i < Len(L) + k
      <4>1. i - Len(L) \in 1..(k - 1) /\ i - Len(L) \in 1..k
        BY <3>4
      <4>2. (L \o u)[i] = u[i - Len(L)] /\ (L \o v)[i] = v[i - Len(L)]
        BY <2>1, <3>4
      <4>3. Append(L \o v, s[k])[i] = (L \o v)[i]
        BY <2>2, <2>3, <3>4
      <4>4. QED
        BY <2>1, <4>1, <4>2, <4>3
    <3>5. i <= Len(L) \/ i = Len(L) + k \/ (i > Len(L) /\ i < Len(L) + k)
      BY <2>3, <3>1
    <3>6. QED
      BY <3>2, <3>3, <3>4, <3>5
  <2>6. L \o u \in Seq(C)
    BY <2>1
  <2>7. QED
    BY <2>3, <2>4, <2>5, <2>6, SeqEqual DEF u, v
<1>5. QED
  BY <1>2, <1>3, <1>4

\* A list made element by element.
LEMMA ListGrows ==
    ASSUME NEW S, NEW n \in Nat, NEW g, \A j \in 1..(n + 1) : g[j] \in S
    PROVE  /\ [j \in 1..n |-> g[j]] \in Seq(S)
           /\ Append([j \in 1..n |-> g[j]], g[n + 1]) = [j \in 1..(n + 1) |-> g[j]]
<1> DEFINE s == [j \in 1..n |-> g[j]]
           u == [j \in 1..(n + 1) |-> g[j]]
<1>1. s \in Seq(S) /\ Len(s) = n /\ \A j \in 1..n : s[j] = g[j]
  OBVIOUS
<1>2. u \in Seq(S) /\ Len(u) = n + 1 /\ \A j \in 1..(n + 1) : u[j] = g[j]
  OBVIOUS
<1>3. g[n + 1] \in S
  OBVIOUS
<1> DEFINE last == g[n + 1]
<1> HIDE DEF s, u, last
<1>4. /\ Append(s, last) \in Seq(S) /\ Len(Append(s, last)) = n + 1
      /\ Append(s, last)[n + 1] = last /\ \A j \in 1..n : Append(s, last)[j] = s[j]
  BY <1>1, <1>3 DEF last
<1>5. \A j \in 1..(n + 1) : Append(s, last)[j] = u[j]
  <2>1. TAKE j \in 1..(n + 1)
  <2>2. j \in 1..n \/ j = n + 1
    OBVIOUS
  <2>3. QED
    BY <1>1, <1>2, <1>4, <2>2 DEF last
<1>6. Append(s, last) = u
  BY <1>2, <1>4, <1>5, SeqEqual
<1>7. QED
  BY <1>1, <1>6 DEF s, u, last

\* Texts are joined in any order.
LEMMA TextsAssociate ==
    ASSUME NEW C
    PROVE  \A s, t, u \in Seq(C) : s \o (t \o u) = (s \o t) \o u
BY ConcatAssociative

\* An element more.
LEMMA Appended ==
    ASSUME NEW S, NEW s \in Seq(S), NEW e \in S
    PROVE  /\ Append(s, e) \in Seq(S) /\ Len(Append(s, e)) = Len(s) + 1
           /\ Append(s, e)[Len(s) + 1] = e
           /\ \A i \in 1..Len(s) : Append(s, e)[i] = s[i]
<1>1. Append(s, e) \in Seq(S) /\ Len(Append(s, e)) = Len(s) + 1
  OBVIOUS
<1>2. Append(s, e)[Len(s) + 1] = e
  OBVIOUS
<1>3. \A i \in 1..Len(s) : Append(s, e)[i] = s[i]
  OBVIOUS
<1>4. QED
  BY <1>1, <1>2, <1>3

\* A list of three, element by element.
LEMMA InARow ==
    ASSUME NEW S, NEW a \in S, NEW b \in S, NEW d \in S
    PROVE  /\ << >> \in Seq(S) /\ <<a>> \in Seq(S) /\ <<a, b>> \in Seq(S)
           /\ Append(<< >>, a) = <<a>> /\ Append(<<a>>, b) = <<a, b>>
           /\ Append(<<a, b>>, d) = <<a, b, d>>
<1>1. << >> \in Seq(S) /\ <<a>> \in Seq(S) /\ <<a, b>> \in Seq(S) /\ Append(<< >>, a) = <<a>>
  OBVIOUS
<1>2. Append(<<a>>, b) = <<a, b>>
  <2> DEFINE p == <<a>>
             q == <<a, b>>
  <2>1. p \in Seq(S) /\ Len(p) = 1 /\ p[1] = a /\ q \in Seq(S) /\ Len(q) = 2 /\ q[1] = a /\ q[2] = b
    OBVIOUS
  <2> HIDE DEF p, q
  <2> DEFINE u == Append(p, b)
  <2>2. u \in Seq(S) /\ Len(u) = Len(p) + 1 /\ u[Len(p) + 1] = b
    BY <2>1, Appended, ZenonT(30)
  <2>3. \A i \in 1..Len(p) : u[i] = p[i]
    <3>1. p \in Seq(S)
      BY <2>1
    <3>2. QED
      BY <3>1, Appended
  <2> HIDE DEF u
  <2>4. u[1] = a /\ Len(u) = 2 /\ u[2] = b
    BY <2>1, <2>2, <2>3
  <2>5. \A i \in 1..Len(u) : u[i] = q[i]
    BY <2>1, <2>4
  <2>6. QED
    BY <2>1, <2>2, <2>4, <2>5, SeqEqual DEF u, p, q
<1>3. Append(<<a, b>>, d) = <<a, b, d>>
  <2> DEFINE p == <<a, b>>
             q == <<a, b, d>>
  <2>1. p \in Seq(S) /\ Len(p) = 2 /\ p[1] = a /\ p[2] = b
        /\ q \in Seq(S) /\ Len(q) = 3 /\ q[1] = a /\ q[2] = b /\ q[3] = d
    OBVIOUS
  <2> HIDE DEF p, q
  <2> DEFINE u == Append(p, d)
  <2>2. u \in Seq(S) /\ Len(u) = Len(p) + 1 /\ u[Len(p) + 1] = d
    BY <2>1, Appended, ZenonT(30)
  <2>3. \A i \in 1..Len(p) : u[i] = p[i]
    <3>1. p \in Seq(S)
      BY <2>1
    <3>2. QED
      BY <3>1, Appended
  <2> HIDE DEF u
  <2>4. u[1] = a /\ Len(u) = 3 /\ u[2] = b /\ u[3] = d
    BY <2>1, <2>2, <2>3
  <2>5. \A i \in 1..Len(u) : u[i] = q[i]
    <3>1. \A i \in 1..3 : i = 1 \/ i = 2 \/ i = 3
      OBVIOUS
    <3>2. QED
      BY <2>1, <2>4, <3>1
  <2>6. QED
    BY <2>1, <2>2, <2>4, <2>5, SeqEqual DEF u, p, q
<1>4. QED
  BY <1>1, <1>2, <1>3

\* A list after another, element by element.
LEMMA Concatenated ==
    ASSUME NEW S, NEW a \in Seq(S), NEW b \in Seq(S)
    PROVE  /\ a \o b \in Seq(S) /\ Len(a \o b) = Len(a) + Len(b)
           /\ Len(a) \in Nat /\ Len(b) \in Nat
           /\ \A i \in 1..Len(a) : (a \o b)[i] = a[i]
           /\ \A i \in 1..Len(b) : (a \o b)[Len(a) + i] = b[i]
<1> DEFINE w == a \o b
<1>1. /\ w \in Seq(S) /\ Len(w) = Len(a) + Len(b)
      /\ \A i \in 1..(Len(a) + Len(b)) : w[i] = IF i <= Len(a) THEN a[i] ELSE b[i - Len(a)]
  BY ConcatProperties
<1>2. Len(a) \in Nat /\ Len(b) \in Nat
  OBVIOUS
<1> HIDE DEF w
<1>3. \A i \in 1..Len(a) : w[i] = a[i]
  BY <1>1, <1>2
<1>4. \A i \in 1..Len(b) : w[Len(a) + i] = b[i]
  <2>1. TAKE i \in 1..Len(b)
  <2>2. Len(a) + i \in 1..(Len(a) + Len(b)) /\ ~(Len(a) + i <= Len(a)) /\ (Len(a) + i) - Len(a) = i
    BY <1>2
  <2>3. QED
    BY <1>1, <2>2
<1>5. QED
  BY <1>1, <1>2, <1>3, <1>4 DEF w

\* Joining a list of texts to another joins what they join to.
LEMMA FlattenJoined ==
    ASSUME NEW S, NEW a \in Seq(Seq(S)), NEW b \in Seq(Seq(S))
    PROVE  FlattenSeq(a \o b) = FlattenSeq(a) \o FlattenSeq(b)
<1> DEFINE w == a \o b
           m == Len(a)
           n == Len(b)
<1>1. /\ w \in Seq(Seq(S)) /\ Len(w) = m + n /\ m \in Nat /\ n \in Nat
      /\ \A i \in 1..m : w[i] = a[i]
      /\ \A i \in 1..n : w[m + i] = b[i]
  BY Concatenated
<1> HIDE DEF w, m, n
<1>2. PICK f : IsRunning(f, S, w) /\ FlattenSeq(w) = f[Len(w)]
  BY <1>1, Flattened
<1>3. PICK g : IsRunning(g, S, a) /\ FlattenSeq(a) = g[m]
  BY Flattened DEF m
<1>4. PICK h : IsRunning(h, S, b) /\ FlattenSeq(b) = h[n]
  BY Flattened DEF n
<1>5. /\ f \in [0..(m + n) -> Seq(S)] /\ f[0] = << >>
      /\ \A i \in 1..(m + n) : f[i] = f[i - 1] \o w[i]
  BY <1>1, <1>2 DEF IsRunning
<1>6. /\ g \in [0..m -> Seq(S)] /\ g[0] = << >> /\ \A i \in 1..m : g[i] = g[i - 1] \o a[i]
  BY <1>3 DEF IsRunning, m
<1>7. /\ h \in [0..n -> Seq(S)] /\ h[0] = << >> /\ \A i \in 1..n : h[i] = h[i - 1] \o b[i]
  BY <1>4 DEF IsRunning, n
<1>8. f[m] = g[m]
  <2> DEFINE N == {k \in 0..m : f[k] = g[k]}
  <2>1. 0 \in N
    BY <1>1, <1>5, <1>6
  <2>2. ASSUME NEW k \in 0..(m - 1), k \in N
        PROVE  k + 1 \in N
    <3>1. k + 1 \in 0..m /\ k + 1 \in 1..m /\ k + 1 \in 1..(m + n) /\ (k + 1) - 1 = k
      BY <1>1
    <3>2. f[k + 1] = f[k] \o w[k + 1] /\ g[k + 1] = g[k] \o a[k + 1] /\ w[k + 1] = a[k + 1]
      BY <1>1, <1>5, <1>6, <3>1, Zenon
    <3>3. QED
      BY <2>2, <3>1, <3>2
  <2>3. m \in N
    <3>1. m \in 0..m
      BY <1>1
    <3> HIDE DEF N
    <3>2. QED
      BY <1>1, <2>1, <2>2, <3>1, BoundedInduction
  <2>4. QED
    BY <2>3
<1>9. f[m + n] = g[m] \o h[n]
  <2> DEFINE N == {k \in 0..n : f[m + k] = g[m] \o h[k]}
  <2>1. g[m] \in Seq(S)
    <3>1. m \in 0..m
      BY <1>1
    <3>2. QED
      BY <1>6, <3>1
  <2>2. 0 \in N
    <3>1. m + 0 = m /\ 0 \in 0..n
      BY <1>1
    <3>2. g[m] \o << >> = g[m]
      BY <2>1
    <3>3. QED
      BY <1>7, <1>8, <3>1, <3>2
  <2>3. ASSUME NEW k \in 0..(n - 1), k \in N
        PROVE  k + 1 \in N
    <3>1. k \in 0..n /\ k + 1 \in 0..n /\ k + 1 \in 1..n /\ (k + 1) - 1 = k
          /\ m + (k + 1) \in 1..(m + n) /\ (m + (k + 1)) - 1 = m + k
      BY <1>1
    <3>2. f[m + (k + 1)] = f[m + k] \o w[m + (k + 1)]
      BY <1>5, <3>1, Zenon
    <3>3. h[k + 1] = h[k] \o b[k + 1] /\ w[m + (k + 1)] = b[k + 1]
      BY <1>1, <1>7, <3>1, Zenon
    <3>4. h[k] \in Seq(S) /\ b[k + 1] \in Seq(S)
      <4>1. b[k + 1] \in Seq(S)
        BY <3>1 DEF n
      <4>2. QED
        BY <1>7, <3>1, <4>1
    <3>5. g[m] \o (h[k] \o b[k + 1]) = (g[m] \o h[k]) \o b[k + 1]
      <4>1. \A s, t, u \in Seq(S) : s \o (t \o u) = (s \o t) \o u
        BY TextsAssociate
      <4>2. QED
        BY <2>1, <3>4, <4>1, Zenon
    <3>6. f[m + k] = g[m] \o h[k]
      BY <2>3
    <3> HIDE DEF N
    <3>7. f[m + (k + 1)] = g[m] \o h[k + 1]
      BY <3>2, <3>3, <3>5, <3>6, Zenon
    <3>8. QED
      BY <3>1, <3>7 DEF N
  <2>4. n \in N
    <3>1. n \in 0..n
      BY <1>1
    <3> HIDE DEF N
    <3>2. QED
      BY <1>1, <2>2, <2>3, <3>1, BoundedInduction
  <2>5. QED
    BY <2>4
<1>10. QED
  BY <1>1, <1>2, <1>3, <1>4, <1>9, Zenon DEF w

\* Three texts may be joined in any order.
LEMMA ThreeTexts ==
    ASSUME NEW C, NEW x \in Seq(C), NEW y \in Seq(C), NEW z \in Seq(C)
    PROVE  x \o (y \o z) = (x \o y) \o z
BY TextsAssociate

\* A frame on a stack.
LEMMA Pushed ==
    ASSUME NEW S, NEW f \in S, NEW s \in Seq(S)
    PROVE  /\ <<f>> \o s \in Seq(S) /\ Len(<<f>> \o s) = Len(s) + 1 /\ Len(s) \in Nat
           /\ DOMAIN (<<f>> \o s) = 1..(Len(s) + 1) /\ DOMAIN s = 1..Len(s)
           /\ (<<f>> \o s)[1] = f
           /\ \A i \in 1..Len(s) : (<<f>> \o s)[i + 1] = s[i]
           /\ s # << >> => s = <<Head(s)>> \o Tail(s) /\ Head(s) \in S /\ Tail(s) \in Seq(S)
<1> DEFINE one == <<f>>
<1>1. one \in Seq(S) /\ Len(one) = 1 /\ one[1] = f
  OBVIOUS
<1> HIDE DEF one
<1> DEFINE u == one \o s
<1>2. /\ u \in Seq(S) /\ Len(u) = Len(one) + Len(s) /\ Len(s) \in Nat
      /\ \A i \in 1..Len(one) : u[i] = one[i]
      /\ \A i \in 1..Len(s) : u[Len(one) + i] = s[i]
  BY <1>1, Concatenated
<1>3. ASSUME s # << >>
      PROVE  s = <<Head(s)>> \o Tail(s) /\ Head(s) \in S /\ Tail(s) \in Seq(S)
  BY <1>3
<1> HIDE DEF u
<1>4. Len(u) = Len(s) + 1 /\ DOMAIN u = 1..Len(u) /\ DOMAIN s = 1..Len(s)
  BY <1>1, <1>2
<1>5. u[1] = f /\ \A i \in 1..Len(s) : u[i + 1] = s[i]
  <2>1. 1 \in 1..Len(one) /\ \A i \in 1..Len(s) : Len(one) + i = i + 1
    BY <1>1, <1>2
  <2>2. QED
    BY <1>1, <1>2, <2>1
<1>6. QED
  BY <1>2, <1>3, <1>4, <1>5 DEF u, one

\* Two frames are put on a stack one after the other.
LEMMA TwoPushed ==
    ASSUME NEW S, NEW f \in S, NEW g \in S, NEW s \in Seq(S)
    PROVE  <<f, g>> \o s = <<f>> \o (<<g>> \o s)
<1> DEFINE two == <<f, g>>
           u == two \o s
           v == <<g>> \o s
           w == <<f>> \o v
           n == Len(s)
<1>1. two \in Seq(S) /\ Len(two) = 2 /\ two[1] = f /\ two[2] = g
  OBVIOUS
<1> HIDE DEF two
<1>2. /\ u \in Seq(S) /\ Len(u) = Len(two) + n /\ n \in Nat
      /\ \A i \in 1..Len(two) : u[i] = two[i]
      /\ \A i \in 1..n : u[Len(two) + i] = s[i]
  <2>1. two \in Seq(S) /\ s \in Seq(S)
    BY <1>1
  <2>2. QED
    BY <2>1, Concatenated
<1>3. v \in Seq(S) /\ Len(v) = n + 1 /\ v[1] = g /\ \A i \in 1..n : v[i + 1] = s[i]
  BY Pushed
<1> HIDE DEF u, v, n
<1>4. w \in Seq(S) /\ Len(w) = Len(v) + 1 /\ w[1] = f /\ \A i \in 1..Len(v) : w[i + 1] = v[i]
  BY <1>3, Pushed
<1> HIDE DEF w
<1>5. u \in Seq(S) /\ Len(u) = n + 2 /\ u[1] = f /\ u[2] = g /\ \A i \in 1..n : u[i + 2] = s[i]
  <2>1. 1 \in 1..Len(two) /\ 2 \in 1..Len(two) /\ \A i \in 1..n : Len(two) + i = i + 2
    BY <1>1, <1>2
  <2>2. QED
    BY <1>1, <1>2, <2>1
<1>6. w \in Seq(S) /\ Len(w) = n + 2 /\ w[1] = f /\ w[2] = g /\ \A i \in 1..n : w[i + 2] = s[i]
  <2>1. 1 \in 1..Len(v) /\ 1 + 1 = 2
    BY <1>2, <1>3
  <2>2. w[2] = g
    BY <1>3, <1>4, <2>1
  <2>3. \A i \in 1..n : i + 1 \in 1..Len(v) /\ (i + 1) + 1 = i + 2
    BY <1>2, <1>3
  <2>4. \A i \in 1..n : w[i + 2] = s[i]
    BY <1>3, <1>4, <2>3
  <2>5. Len(w) = n + 2
    BY <1>2, <1>3, <1>4
  <2>6. QED
    BY <1>4, <2>2, <2>4, <2>5
<1>7. \A i \in 1..Len(u) : u[i] = w[i]
  <2>1. TAKE i \in 1..Len(u)
  <2> DEFINE k == i - 2
  <2>2. i = 1 \/ i = 2 \/ (k \in 1..n /\ k + 2 = i)
    BY <1>2, <1>5
  <2> HIDE DEF k
  <2>3. QED
    BY <1>5, <1>6, <2>2
<1>8. u = w
  BY <1>5, <1>6, <1>7, SeqEqual
<1>9. QED
  BY <1>8 DEF u, w, v, two

\* Two of a list of two.
LEMMA TwoOfTwo ==
    ASSUME NEW S, NEW s \in Seq(S), Len(s) = 2
    PROVE  s[1] \in S /\ s[2] \in S
<1>1. \A i \in 1..Len(s) : s[i] \in S
  OBVIOUS
<1>2. QED
  BY <1>1
==============================================================================
