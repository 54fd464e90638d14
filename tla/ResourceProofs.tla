--------------------------- MODULE ResourceProofs ---------------------------
(***************************************************************************)
(* Proofs about what is made of a container's resources.                    *)
(*                                                                          *)
(* The archive, for every container, every host closure and every limit:    *)
(* cache, decryptor and navigation memo.                                    *)
(*                                                                          *)
(* The processor, for every publication, chapter, book, set of options and  *)
(* stream: what the packager of a chapter puts in and counts, what the      *)
(* streaming rewriter puts out, what a search finds and where a book opens. *)
(***************************************************************************)
EXTENDS ResourceArchive, ChapterPackaging, StreamRewriting, BookReading, SequenceLemmas

-----------------------------------------------------------------------------
\* A key that is not queued is pushed to the back of the queue.
LEMMA MoveNew ==
    ASSUME NEW s, NEW p, p \notin Range(s)
    PROVE  MoveToBack(s, p) = Append(s, p)
BY DEF MoveToBack, Range

\* A queued key moves to the back of the queue: the keys behind it move up by
\* one place, the others stay.
LEMMA MoveQueued ==
    ASSUME NEW S, NEW s \in Seq(S), IsInjective(s), NEW k \in 1..Len(s)
    PROVE  /\ MoveToBack(s, s[k]) \in Seq(S)
           /\ Len(MoveToBack(s, s[k])) = Len(s)
           /\ \A i \in 1..Len(s) :
                 MoveToBack(s, s[k])[i] =
                    IF i < k THEN s[i] ELSE IF i < Len(s) THEN s[i + 1] ELSE s[k]
<1> DEFINE r == RemoveAt(s, k)
<1>1. (CHOOSE i \in DOMAIN s : s[i] = s[k]) = k
  BY DEF IsInjective
<1>2. MoveToBack(s, s[k]) = Append(r, s[k])
  <2>1. \E i \in DOMAIN s : s[i] = s[k]
    OBVIOUS
  <2>2. MoveToBack(s, s[k]) = Append(RemoveAt(s, CHOOSE i \in DOMAIN s : s[i] = s[k]), s[k])
    BY <2>1, Zenon DEF MoveToBack
  <2>3. QED
    BY <1>1, <2>2, Zenon
<1>3. /\ SubSeq(s, 1, k - 1) \in Seq(S)
      /\ Len(SubSeq(s, 1, k - 1)) = k - 1
      /\ \A i \in 1..(k - 1) : SubSeq(s, 1, k - 1)[i] = s[i]
  OBVIOUS
<1>4. /\ SubSeq(s, k + 1, Len(s)) \in Seq(S)
      /\ Len(SubSeq(s, k + 1, Len(s))) = Len(s) - k
      /\ \A i \in 1..(Len(s) - k) : SubSeq(s, k + 1, Len(s))[i] = s[k + i]
  OBVIOUS
<1>5. /\ r \in Seq(S)
      /\ Len(r) = Len(s) - 1
      /\ \A i \in 1..(Len(s) - 1) : r[i] = IF i < k THEN s[i] ELSE s[i + 1]
  <2> DEFINE a == SubSeq(s, 1, k - 1)
             b == SubSeq(s, k + 1, Len(s))
  <2>1. r = a \o b
    BY DEF RemoveAt
  <2>2. a \in Seq(S) /\ b \in Seq(S) /\ Len(a) = k - 1 /\ Len(b) = Len(s) - k
    BY <1>3, <1>4
  <2>3. \A i \in 1..(k - 1) : a[i] = s[i]
    BY <1>3
  <2>4. \A i \in 1..(Len(s) - k) : b[i] = s[k + i]
    BY <1>4
  <2> HIDE DEF a, b, r
  <2>5. r \in Seq(S) /\ Len(r) = Len(s) - 1
    BY <2>1, <2>2
  <2>6. ASSUME NEW i \in 1..(Len(s) - 1)
        PROVE  r[i] = IF i < k THEN s[i] ELSE s[i + 1]
    <3>1. CASE i < k
      BY <2>1, <2>2, <2>3, <3>1
    <3>2. CASE ~(i < k)
      <4>1. r[i] = b[i - (k - 1)]
        <5>1. i \in 1..(Len(a) + Len(b)) /\ ~(i <= Len(a)) /\ Len(a) = k - 1
          BY <2>2, <3>2
        <5>2. (a \o b)[i] = b[i - Len(a)]
          BY <2>2, <5>1
        <5>3. QED
          BY <2>1, <5>1, <5>2
      <4>2. i - (k - 1) \in 1..(Len(s) - k) /\ k + (i - (k - 1)) = i + 1
        BY <3>2
      <4>3. QED
        BY <4>1, <4>2, <2>4, <3>2
    <3>3. QED
      BY <3>1, <3>2
  <2>7. QED
    BY <2>5, <2>6
<1>6. s[k] \in S
  OBVIOUS
<1> HIDE DEF r
<1>7. QED
  BY <1>2, <1>5, <1>6

-----------------------------------------------------------------------------
\* Running totals over n entries with lengths w, from zero to total.
Totals(n, w, total, sum) ==
    /\ sum \in [0..n -> 0..total]
    /\ sum[0] = 0 /\ sum[n] = total
    /\ \A i \in 1..n : sum[i] = sum[i - 1] + w[i]
    /\ \A i, j \in 0..n : i <= j => sum[i] <= sum[j]

\* What the facts below use of running totals, with bare types.
LEMMA TotalsFacts ==
    ASSUME NEW n \in Nat, NEW total \in Nat, NEW w \in [1..n -> Nat],
           NEW sum, Totals(n, w, total, sum)
    PROVE  /\ \A i \in 0..n : sum[i] \in Int /\ 0 <= sum[i] /\ sum[i] <= total
           /\ sum[0] = 0 /\ sum[n] = total
           /\ \A i \in 1..n : w[i] \in Int /\ 0 <= w[i] /\ sum[i] = sum[i - 1] + w[i]
           /\ \A i, j \in 0..n : i <= j => sum[i] <= sum[j]
BY DEF Totals

\* Moving an entry to the back leaves the total as it is.
LEMMA TotalsMove ==
    ASSUME NEW n \in Nat, NEW total \in Nat, NEW k \in 1..n,
           NEW w \in [1..n -> Nat], NEW v \in [1..n -> Nat],
           \A i \in 1..n :
              v[i] = IF i < k THEN w[i] ELSE IF i < n THEN w[i + 1] ELSE w[k],
           NEW sum, Totals(n, w, total, sum)
    PROVE  \E g : Totals(n, v, total, g)
<1> DEFINE h(i) == IF i < k THEN sum[i]
                   ELSE IF i < n THEN sum[i + 1] - w[k] ELSE sum[n]
           g == [i \in 0..n |-> h(i)]
<1>1. /\ \A i \in 0..n : sum[i] \in Int /\ 0 <= sum[i] /\ sum[i] <= total
      /\ sum[0] = 0 /\ sum[n] = total
      /\ \A i \in 1..n : w[i] \in Int /\ 0 <= w[i] /\ sum[i] = sum[i - 1] + w[i]
      /\ \A i, j \in 0..n : i <= j => sum[i] <= sum[j]
  BY TotalsFacts
<1>2. /\ sum[k - 1] \in Int /\ 0 <= sum[k - 1] /\ sum[k] \in Int
      /\ w[k] \in Int /\ 0 <= w[k] /\ sum[k] = sum[k - 1] + w[k]
  BY <1>1
<1>3. \A i \in 0..n : i < k => h(i) = sum[i]
  OBVIOUS
<1>4. \A i \in 0..n : ~(i < k) /\ i < n => h(i) = sum[i + 1] - w[k]
  OBVIOUS
<1>5. h(n) = total
  BY <1>1
<1>6. h(0) = 0
  BY <1>1
<1>7. \A i \in 0..n : i < n => i + 1 \in 0..n /\ i + 1 \in 1..n
  OBVIOUS
<1>8. \A i \in 1..n : i - 1 \in 0..n
  OBVIOUS
<1> HIDE DEF h
<1>9. ASSUME NEW i \in 0..n, NEW j \in 0..n, i <= j PROVE h(i) <= h(j)
  <2>1. CASE j < k
    <3>1. i < k /\ sum[i] <= sum[j]
      BY <1>1, <2>1, <1>9
    <3>2. QED
      BY <1>3, <2>1, <3>1
  <2>2. CASE i < k /\ j = n
    BY <1>1, <1>3, <1>5, <2>2
  <2>3. CASE ~(i < k) /\ i < n /\ j = n
    <3>1. sum[i + 1] \in Int /\ sum[i + 1] <= total
      BY <1>1, <1>7, <2>3
    <3>2. h(i) = sum[i + 1] - w[k] /\ h(j) = total
      BY <1>4, <1>5, <2>3
    <3>3. w[k] \in Int /\ 0 <= w[k] /\ total \in Int
      BY <1>2
    <3>4. QED
      BY <3>1, <3>2, <3>3
  <2>4. CASE i = n /\ j = n
    BY <1>5, <2>4
  <2>5. CASE i < k /\ ~(j < k) /\ j < n
    <3>1. k - 1 \in 0..n /\ k \in 0..n /\ i <= k - 1 /\ k <= j + 1 /\ j + 1 \in 0..n
      BY <1>7, <2>5
    <3>2. sum[i] <= sum[k - 1] /\ sum[k] <= sum[j + 1]
      BY <1>1, <3>1
    <3>3. sum[i] \in Int /\ sum[j + 1] \in Int
      BY <1>1, <3>1
    <3>4. h(i) = sum[i] /\ h(j) = sum[j + 1] - w[k]
      BY <1>3, <1>4, <2>5
    <3>5. \A a, b, c, d, e \in Int : a <= b /\ c = b + d /\ c <= e => a <= e - d
      OBVIOUS
    <3>6. sum[i] <= sum[j + 1] - w[k]
      BY <1>2, <3>2, <3>3, <3>5
    <3>7. QED
      BY <3>4, <3>6
  <2>6. CASE ~(i < k) /\ j < n
    <3>1. i + 1 \in 0..n /\ j + 1 \in 0..n /\ i + 1 <= j + 1
      BY <1>7, <2>6, <1>9
    <3>2. sum[i + 1] \in Int /\ sum[j + 1] \in Int /\ sum[i + 1] <= sum[j + 1]
      BY <1>1, <3>1
    <3>3. h(i) = sum[i + 1] - w[k] /\ h(j) = sum[j + 1] - w[k]
      BY <1>4, <2>6, <1>9
    <3>4. w[k] \in Int
      BY <1>2
    <3>5. sum[i + 1] - w[k] <= sum[j + 1] - w[k]
      BY <3>2, <3>4
    <3>6. QED
      BY <3>3, <3>5
  <2>7. QED
    BY <2>1, <2>2, <2>3, <2>4, <2>5, <2>6, <1>9
<1>10. ASSUME NEW i \in 0..n PROVE h(i) \in Int
  <2>1. CASE i < k
    BY <1>1, <1>3, <2>1
  <2>2. CASE ~(i < k) /\ i < n
    <3>1. i + 1 \in 0..n
      BY <1>7, <2>2
    <3>2. sum[i + 1] \in Int
      BY <1>1, <3>1
    <3>3. h(i) = sum[i + 1] - w[k] /\ w[k] \in Int
      BY <1>2, <1>4, <2>2
    <3>4. QED
      BY <3>2, <3>3
  <2>3. CASE i = n
    BY <1>5, <2>3
  <2>4. QED
    BY <2>1, <2>2, <2>3
<1>11. ASSUME NEW i \in 0..n PROVE h(i) \in 0..total
  <2>1. 0 \in 0..n /\ n \in 0..n
    OBVIOUS
  <2>2. h(0) <= h(i) /\ h(i) <= h(n)
    BY <2>1, <1>9
  <2>3. QED
    BY <2>2, <1>5, <1>6, <1>10
<1>12. ASSUME NEW i \in 1..n PROVE h(i) = h(i - 1) + v[i]
  <2>1. i \in 0..n /\ i - 1 \in 0..n /\ sum[i] \in Int /\ sum[i - 1] \in Int
    BY <1>1, <1>8
  <2>2. sum[i] = sum[i - 1] + w[i] /\ w[i] \in Int
    BY <1>1
  <2>3. CASE i < k
    <3>1. h(i) = sum[i] /\ h(i - 1) = sum[i - 1] /\ v[i] = w[i]
      BY <1>3, <2>1, <2>3
    <3>2. QED
      BY <2>1, <2>2, <3>1
  <2>4. CASE ~(i < k) /\ i < n
    <3>4. i + 1 \in 0..n /\ i + 1 \in 1..n /\ (i + 1) - 1 = i
      BY <1>7, <2>4
    <3>1. sum[i + 1] = sum[i] + w[i + 1] /\ sum[i + 1] \in Int /\ w[i + 1] \in Int
      BY <1>1, <3>4
    <3>2. v[i] = w[i + 1] /\ h(i) = sum[i + 1] - w[k]
      BY <1>4, <2>1, <2>4
    <3>3. h(i - 1) = sum[i] - w[k]
      <4>1. CASE i = k
        BY <1>2, <1>3, <2>1, <4>1
      <4>2. CASE i # k
        <5>1. ~(i - 1 < k) /\ i - 1 < n /\ (i - 1) + 1 = i
          BY <2>4, <4>2
        <5>2. QED
          BY <1>4, <2>1, <5>1
      <4>3. QED
        BY <4>1, <4>2
    <3>5. w[k] \in Int
      BY <1>2
    <3>6. sum[i + 1] - w[k] = (sum[i] - w[k]) + w[i + 1]
      <4>1. \A a, b, c \in Int : (a + b) - c = (a - c) + b
        OBVIOUS
      <4>2. sum[i] \in Int /\ w[i + 1] \in Int /\ sum[i + 1] = sum[i] + w[i + 1]
        BY <2>1, <3>1
      <4>3. (sum[i] + w[i + 1]) - w[k] = (sum[i] - w[k]) + w[i + 1]
        BY <3>5, <4>1, <4>2
      <4>4. QED
        BY <4>2, <4>3, Zenon
    <3>7. QED
      BY <3>2, <3>3, <3>6, Zenon
  <2>5. CASE i = n
    <3>1. v[i] = w[k] /\ h(i) = sum[n] /\ sum[n] \in Int
      BY <1>1, <1>5, <2>5
    <3>2. CASE k = n
      BY <1>2, <1>3, <2>1, <2>5, <3>1, <3>2
    <3>3. CASE k # n
      <4>1. ~(i - 1 < k) /\ i - 1 < n /\ (i - 1) + 1 = n
        BY <2>5, <3>3
      <4>2. h(i - 1) = sum[n] - w[k]
        BY <1>4, <2>1, <4>1
      <4>3. QED
        BY <1>2, <3>1, <4>2
    <3>4. QED
      BY <3>2, <3>3
  <2>6. QED
    BY <2>3, <2>4, <2>5
<1>13. /\ g \in [0..n -> 0..total]
       /\ g[0] = 0 /\ g[n] = total
       /\ \A i \in 1..n : g[i] = g[i - 1] + v[i]
       /\ \A i, j \in 0..n : i <= j => g[i] <= g[j]
  <2>1. g \in [0..n -> 0..total] /\ g[0] = 0 /\ g[n] = total
    BY <1>5, <1>6, <1>11
  <2>2. \A i \in 1..n : g[i] = g[i - 1] + v[i]
    BY <1>8, <1>12
  <2>3. \A i, j \in 0..n : i <= j => g[i] <= g[j]
    BY <1>9
  <2>4. QED
    BY <2>1, <2>2, <2>3
<1> HIDE DEF g
<1>14. Totals(n, v, total, g)
  BY <1>13 DEF Totals
<1>15. QED
  BY <1>14

\* Dropping the first entry takes its length off the total.
LEMMA TotalsTail ==
    ASSUME NEW n \in Nat, n > 0, NEW total \in Nat,
           NEW w \in [1..n -> Nat], NEW v, \A i \in 1..(n - 1) : v[i] = w[i + 1],
           NEW sum, Totals(n, w, total, sum)
    PROVE  /\ total - w[1] \in Nat
           /\ \E g : Totals(n - 1, v, total - w[1], g)
<1> DEFINE g == [i \in 0..(n - 1) |-> sum[i + 1] - w[1]]
<1>1. /\ \A i \in 0..n : sum[i] \in Int /\ 0 <= sum[i] /\ sum[i] <= total
      /\ sum[0] = 0 /\ sum[n] = total
      /\ \A i \in 1..n : w[i] \in Int /\ 0 <= w[i] /\ sum[i] = sum[i - 1] + w[i]
      /\ \A i, j \in 0..n : i <= j => sum[i] <= sum[j]
  BY TotalsFacts
<1>2. 1 \in 0..n /\ 1 \in 1..n /\ 1 - 1 = 0
  OBVIOUS
<1>3. sum[1] = w[1] /\ w[1] \in Int /\ 0 <= w[1] /\ w[1] <= total
  BY <1>1, <1>2
<1>4. \A i \in 0..(n - 1) : i + 1 \in 0..n /\ 1 <= i + 1
  OBVIOUS
<1>5. \A i \in 0..(n - 1) :
         sum[i + 1] \in Int /\ w[1] <= sum[i + 1] /\ sum[i + 1] <= total
  BY <1>1, <1>2, <1>3, <1>4
<1>6. \A i \in 0..(n - 1) : sum[i + 1] - w[1] \in 0..(total - w[1])
  BY <1>3, <1>5
<1>7. sum[0 + 1] - w[1] = 0 /\ sum[(n - 1) + 1] - w[1] = total - w[1]
  BY <1>1, <1>3
<1>8. ASSUME NEW i \in 1..(n - 1)
      PROVE  sum[i + 1] - w[1] = sum[(i - 1) + 1] - w[1] + v[i]
  <2>1. i + 1 \in 1..n /\ (i + 1) - 1 = i /\ (i - 1) + 1 = i /\ i \in 0..n
    OBVIOUS
  <2>2. sum[i + 1] = sum[i] + w[i + 1] /\ sum[i] \in Int /\ w[i + 1] \in Int
    BY <1>1, <2>1
  <2>3. QED
    BY <1>3, <2>1, <2>2
<1>9. ASSUME NEW i \in 0..(n - 1), NEW j \in 0..(n - 1), i <= j
      PROVE  sum[i + 1] - w[1] <= sum[j + 1] - w[1]
  <2>1. sum[i + 1] <= sum[j + 1]
    BY <1>1, <1>4, <1>9
  <2>2. QED
    BY <1>3, <1>5, <2>1
<1>10. \A i \in 1..(n - 1) : i - 1 \in 0..(n - 1) /\ i \in 0..(n - 1)
  OBVIOUS
<1>11. g \in [0..(n - 1) -> 0..(total - w[1])]
  BY <1>6
<1>12. 0 \in 0..(n - 1) /\ n - 1 \in 0..(n - 1)
  OBVIOUS
<1>13. g[0] = 0 /\ g[n - 1] = total - w[1]
  BY <1>7, <1>12
<1>14. \A i \in 1..(n - 1) : g[i] = g[i - 1] + v[i]
  BY <1>8, <1>10
<1>15. \A i, j \in 0..(n - 1) : i <= j => g[i] <= g[j]
  BY <1>9
<1> HIDE DEF g
<1>16. Totals(n - 1, v, total - w[1], g)
  BY <1>11, <1>13, <1>14, <1>15 DEF Totals
<1>17. QED
  BY <1>3, <1>16

\* Appending an entry adds its length to the total.
LEMMA TotalsAppend ==
    ASSUME NEW n \in Nat, NEW total \in Nat, NEW x \in Nat,
           NEW w \in [1..n -> Nat],
           NEW v, v[n + 1] = x, \A i \in 1..n : v[i] = w[i],
           NEW sum, Totals(n, w, total, sum)
    PROVE  \E g : Totals(n + 1, v, total + x, g)
<1> DEFINE g == [i \in 0..(n + 1) |-> IF i <= n THEN sum[i] ELSE total + x]
<1>1. /\ \A i \in 0..n : sum[i] \in Int /\ 0 <= sum[i] /\ sum[i] <= total
      /\ sum[0] = 0 /\ sum[n] = total
      /\ \A i \in 1..n : w[i] \in Int /\ 0 <= w[i] /\ sum[i] = sum[i - 1] + w[i]
      /\ \A i, j \in 0..n : i <= j => sum[i] <= sum[j]
  BY TotalsFacts
<1>2. \A i \in 0..n : g[i] = sum[i]
  OBVIOUS
<1>3. g[n + 1] = total + x
  OBVIOUS
<1>4. \A i \in 0..(n + 1) : i \in 0..n \/ i = n + 1
  OBVIOUS
<1>5. g \in [0..(n + 1) -> 0..(total + x)]
  <2>1. \A i \in 0..(n + 1) : g[i] \in 0..(total + x)
    BY <1>1, <1>2, <1>3, <1>4
  <2>2. QED
    BY <2>1
<1> HIDE DEF g
<1>6. g[0] = 0
  BY <1>1, <1>2
<1>7. ASSUME NEW i \in 1..(n + 1) PROVE g[i] = g[i - 1] + v[i]
  <2>1. CASE i \in 1..n
    <3>1. i - 1 \in 0..n /\ i \in 0..n
      BY <2>1
    <3>2. QED
      BY <1>1, <1>2, <2>1, <3>1
  <2>2. CASE i = n + 1
    <3>1. i - 1 = n /\ n \in 0..n
      BY <2>2
    <3>2. QED
      BY <1>1, <1>2, <1>3, <2>2, <3>1
  <2>3. QED
    BY <2>1, <2>2
<1>8. ASSUME NEW i \in 0..(n + 1), NEW j \in 0..(n + 1), i <= j PROVE g[i] <= g[j]
  <2>1. CASE j \in 0..n
    <3>1. i \in 0..n
      BY <2>1, <1>8
    <3>2. QED
      BY <1>1, <1>2, <1>8, <2>1, <3>1
  <2>2. CASE i \in 0..n /\ j = n + 1
    BY <1>1, <1>2, <1>3, <2>2
  <2>3. CASE i = n + 1 /\ j = n + 1
    BY <1>3, <2>3
  <2>4. QED
    BY <1>4, <2>1, <2>2, <2>3, <1>8
<1>9. Totals(n + 1, v, total + x, g)
  BY <1>3, <1>5, <1>6, <1>7, <1>8 DEF Totals
<1>10. QED
  BY <1>9

-----------------------------------------------------------------------------
\* Moving a key to the back keeps the keys distinct and adds at most that key.
LEMMA MoveToBackFacts ==
    ASSUME NEW S, NEW s \in Seq(S), IsInjective(s), NEW p \in S
    PROVE  /\ MoveToBack(s, p) \in Seq(S)
           /\ IsInjective(MoveToBack(s, p))
           /\ Range(MoveToBack(s, p)) = Range(s) \cup {p}
<1> DEFINE m == MoveToBack(s, p)
<1>1. CASE p \notin Range(s)
  <2>1. m = Append(s, p)
    BY <1>1, MoveNew
  <2> HIDE DEF m
  <2>2. /\ m \in Seq(S) /\ Len(m) = Len(s) + 1 /\ m[Len(s) + 1] = p
        /\ \A i \in 1..Len(s) : m[i] = s[i]
    BY <2>1
  <2>3. \A i \in 1..Len(m) : i \in 1..Len(s) \/ i = Len(s) + 1
    BY <2>2
  <2>4. \A i \in 1..Len(s) : s[i] # p
    BY <1>1 DEF Range
  <2>5. IsInjective(m)
    BY <2>2, <2>3, <2>4 DEF IsInjective
  <2>6. Range(m) = Range(s) \cup {p}
    BY <2>2, <2>3 DEF Range
  <2>7. QED
    BY <2>2, <2>5, <2>6 DEF m
<1>2. CASE p \in Range(s)
  <2>1. PICK k \in 1..Len(s) : s[k] = p
    BY <1>2 DEF Range
  <2>2. /\ m \in Seq(S) /\ Len(m) = Len(s)
        /\ \A i \in 1..Len(s) :
              m[i] = IF i < k THEN s[i] ELSE IF i < Len(s) THEN s[i + 1] ELSE s[k]
    BY <2>1, MoveQueued
  <2> HIDE DEF m
  <2> DEFINE at(i) == IF i < k THEN i ELSE IF i < Len(s) THEN i + 1 ELSE k
             from(i) == IF i < k THEN i ELSE IF i = k THEN Len(s) ELSE i - 1
  <2>3. \A i \in 1..Len(s) : at(i) \in 1..Len(s) /\ m[i] = s[at(i)]
    BY <2>2
  <2>4. \A i, j \in 1..Len(s) : at(i) = at(j) => i = j
    BY SMTT(30)
  <2>5. \A i \in 1..Len(s) : from(i) \in 1..Len(s) /\ at(from(i)) = i
    OBVIOUS
  <2> HIDE DEF at, from
  <2>6. IsInjective(m)
    <3>1. ASSUME NEW i \in 1..Len(s), NEW j \in 1..Len(s), m[i] = m[j] PROVE i = j
      <4>1. s[at(i)] = s[at(j)] /\ at(i) \in DOMAIN s /\ at(j) \in DOMAIN s
        <5>1. at(i) \in 1..Len(s) /\ at(j) \in 1..Len(s) /\ DOMAIN s = 1..Len(s)
          BY <2>3
        <5>2. m[i] = s[at(i)] /\ m[j] = s[at(j)]
          BY <2>3
        <5>3. QED
          BY <3>1, <5>1, <5>2
      <4>2. at(i) = at(j)
        BY <4>1, Zenon DEF IsInjective
      <4>3. QED
        BY <2>4, <4>2
    <3>2. DOMAIN m = 1..Len(s)
      BY <2>2
    <3>3. QED
      BY <3>1, <3>2, Zenon DEF IsInjective
  <2>7. Range(m) = Range(s)
    <3>1. Range(m) \subseteq Range(s)
      BY <2>2, <2>3 DEF Range
    <3>2. \A i \in 1..Len(s) : s[i] = m[from(i)]
      BY <2>3, <2>5
    <3>3. Range(s) \subseteq Range(m)
      <4>1. SUFFICES ASSUME NEW e \in Range(s) PROVE e \in Range(m)
        OBVIOUS
      <4>2. PICK i \in 1..Len(s) : e = s[i]
        BY DEF Range
      <4>3. from(i) \in 1..Len(s) /\ e = m[from(i)]
        BY <2>5, <3>2, <4>2
      <4>4. DOMAIN m = 1..Len(s)
        BY <2>2
      <4>5. QED
        BY <4>3, <4>4, Zenon DEF Range
    <3>4. QED
      BY <3>1, <3>3
  <2>8. QED
    BY <1>2, <2>2, <2>6, <2>7 DEF m
<1>3. QED
  BY <1>1, <1>2

\* What processing an entry gives is bytes of that entry.
LEMMA ProcessedBytes ==
    ASSUME NEW b \in Books, NEW p \in Paths, NEW d \in Decryptors \cup {NoDecryptor},
           NEW x \in Processed(b, p, d)
    PROVE  x \in Bytes /\ x.path = p
<1>1. RawLen[p] \in Nat /\ Encryption[p] \in {"none", "font", "content"}
  BY LengthsAssumption
<1>2. Raw(p) \in Bytes /\ Raw(p).path = p
  BY <1>1 DEF Raw, Bytes, Keys
<1>3. CASE Encryption[p] = "none"
  BY <1>2, <1>3 DEF Processed
<1>4. CASE Encryption[p] = "font"
  <2>1. Identifier[b] \in Keys
    BY BooksAssumption DEF Keys
  <2>2. x = [path |-> p, how |-> "font", key |-> Identifier[b], len |-> RawLen[p]]
    BY <1>4 DEF Processed
  <2>3. QED
    BY <1>1, <2>1, <2>2 DEF Bytes
<1>5. CASE Encryption[p] = "content"
  <2>1. CASE d = NoDecryptor
    BY <1>2, <1>5, <2>1 DEF Processed
  <2>2. CASE d # NoDecryptor
    <3>1. d \in Decryptors /\ d \in Keys
      BY <2>2 DEF Keys
    <3>2. Answers[d][p] \subseteq Nat \cup {Declined}
      BY <3>1, AnswersAssumption
    <3>3. PICK n \in Answers[d][p] :
             x = IF n = Declined THEN Raw(p)
                 ELSE [path |-> p, how |-> "plain", key |-> d, len |-> n]
      BY <1>5, <2>2 DEF Processed
    <3>4. CASE n = Declined
      BY <1>2, <3>3, <3>4
    <3>5. CASE n # Declined
      <4>1. n \in Nat
        BY <3>2, <3>5
      <4>2. QED
        BY <3>1, <3>3, <3>5, <4>1 DEF Bytes
    <3>6. QED
      BY <3>4, <3>5
  <2>3. QED
    BY <2>1, <2>2
<1>6. QED
  BY <1>1, <1>3, <1>4, <1>5

-----------------------------------------------------------------------------
\* What a call in the middle of a miss will insert is not in the cache: its
\* key cannot be queued twice.
PendingNotCached == \A f \in fetched : f.bytes.path \notin DOMAIN cache

\* The eviction queue is the end of the list of recent reads, place by place.
RecentSuffix ==
    /\ IsInjective(recent)
    /\ Len(cache_order) <= Len(recent)
    /\ \A i \in 1..Len(cache_order) :
          cache_order[i] = recent[Len(recent) - Len(cache_order) + i]

\* The inductive invariant of the cache.
CacheInv ==
    /\ TypeOK
    /\ QueueMatchesCache
    /\ SizeIsTotal
    /\ OverLimitOnlyAlone
    /\ CacheCoherent
    /\ PendingNotCached
    /\ RecentSuffix

\* The lengths of the entries of a queue.
LensOf(c, q) == [i \in 1..Len(q) |-> c[q[i]].len]

\* The counter and the running totals over the queue, now.
LEMMA SizeTotals ==
    ASSUME TypeOK, QueueMatchesCache
    PROVE  /\ \A i \in 1..Len(cache_order) : cache_order[i] \in DOMAIN cache
           /\ \A p \in DOMAIN cache : cache[p] \in Bytes /\ cache[p].len \in Nat
           /\ LensOf(cache, cache_order) \in [1..Len(cache_order) -> Nat]
           /\ SizeIsTotal => \E sum : Totals(Len(cache_order), LensOf(cache, cache_order),
                                             current_cache_size, sum)
<1>1. \A i \in 1..Len(cache_order) : cache_order[i] \in DOMAIN cache
  BY DEF TypeOK, QueueMatchesCache, Range
<1>2. \A p \in DOMAIN cache : cache[p] \in Bytes /\ cache[p].len \in Nat
  BY DEF TypeOK, Bytes
<1>3. LensOf(cache, cache_order) \in [1..Len(cache_order) -> Nat]
  BY <1>1, <1>2 DEF LensOf
<1>4. ASSUME NEW sum \in [0..Len(cache_order) -> 0..current_cache_size],
             RunningTotals(sum)
      PROVE  Totals(Len(cache_order), LensOf(cache, cache_order), current_cache_size, sum)
  BY <1>4 DEF RunningTotals, Totals, LensOf
<1>5. QED
  BY <1>1, <1>2, <1>3, <1>4 DEF SizeIsTotal

\* The same after a step, the other way round.
LEMMA NextTotals ==
    ASSUME NEW g, Totals(Len(cache_order'), LensOf(cache', cache_order'),
                         current_cache_size', g)
    PROVE  SizeIsTotal'
BY DEF SizeIsTotal, RunningTotals, Totals, LensOf

\* A returning call changes the answers and the memoized document, typed.
LEMMA ReturnTypes ==
    ASSUME TypeOK, NEW use \in Uses, NEW b \in Books, NEW bytes \in Bytes,
           Return(use, b, bytes)
    PROVE  /\ nav_cache' \in SUBSET NavDocs
           /\ reply' \in SUBSET Replies
           /\ nav_reply' \in SUBSET NavReplies
<1> DEFINE nav == [book |-> b, bytes |-> {bytes}]
           rep == [book |-> b, path |-> bytes.path, bytes |-> {bytes}]
<1>1. rep \in Replies
  BY DEF Replies, Bytes
<1>2. nav \in NavDocs
  BY DEF NavDocs
<1>3. [book |-> b, nav |-> {nav}] \in NavReplies /\ [book |-> b, nav |-> {}] \in NavReplies
  BY <1>2 DEF NavReplies
<1>4. QED
  BY <1>1, <1>2, <1>3 DEF Return, TypeOK

\* A hit: the queue is rotated, nothing else of the cache changes.
LEMMA HitKeeps ==
    ASSUME CacheInv, NEW use \in Uses, NEW b \in Books, NEW p \in Paths,
           ReadHit(use, b, p)
    PROVE  CacheInv'
<1> USE DEF CacheInv
<1>1. /\ p \in DOMAIN cache /\ cache' = cache
      /\ cache_order' = MoveToBack(cache_order, p) /\ recent' = MoveToBack(recent, p)
      /\ current_cache_size' = current_cache_size
      /\ content_decryptor' = content_decryptor /\ fetched' = fetched
      /\ parsed' = parsed /\ Return(use, b, cache[p])
  BY DEF ReadHit
<1>2. /\ cache_order \in Seq(Paths) /\ IsInjective(cache_order)
      /\ recent \in Seq(Paths) /\ IsInjective(recent)
  BY DEF TypeOK, QueueMatchesCache, RecentSuffix
<1>3. PICK k \in 1..Len(cache_order) : cache_order[k] = p
  BY <1>1 DEF QueueMatchesCache, Range
<1> DEFINE n == Len(cache_order)
<1>4. n \in Nat
  BY <1>2
<1>5. /\ Len(cache_order') = n
      /\ \A i \in 1..n : cache_order'[i] =
            IF i < k THEN cache_order[i]
            ELSE IF i < n THEN cache_order[i + 1] ELSE cache_order[k]
  BY <1>1, <1>2, <1>3, MoveQueued
<1>6. TypeOK'
  <2>1. cache_order' \in Seq(Paths) /\ recent' \in Seq(Paths)
    BY <1>1, <1>2, MoveToBackFacts
  <2>2. cache[p] \in Bytes
    BY <1>1 DEF TypeOK
  <2>3. /\ nav_cache' \in SUBSET NavDocs /\ reply' \in SUBSET Replies
        /\ nav_reply' \in SUBSET NavReplies
    BY <1>1, <2>2, ReturnTypes
  <2>4. QED
    BY <1>1, <2>1, <2>3 DEF TypeOK
<1>7. QueueMatchesCache'
  <2> DEFINE q == MoveToBack(cache_order, p)
  <2>1. IsInjective(q) /\ Range(q) = Range(cache_order) \cup {p}
    BY <1>2, MoveToBackFacts
  <2>2. Range(q) = DOMAIN cache
    BY <1>1, <2>1 DEF QueueMatchesCache
  <2>3. cache_order' = q /\ cache' = cache
    BY <1>1
  <2> HIDE DEF q
  <2>4. QED
    BY <2>1, <2>2, <2>3 DEF QueueMatchesCache
<1>8. SizeIsTotal'
  <2> DEFINE w == LensOf(cache, cache_order)
             v == LensOf(cache', cache_order')
  <2>1. PICK sum : Totals(n, w, current_cache_size, sum)
    BY SizeTotals
  <2>2. w \in [1..n -> Nat] /\ current_cache_size \in Nat /\ k \in 1..n
    BY SizeTotals DEF TypeOK
  <2>3. \A i \in 1..n : v[i] = cache[cache_order'[i]].len
    BY <1>1, <1>5 DEF LensOf
  <2>4. \A i \in 1..n : w[i] = cache[cache_order[i]].len
    BY DEF LensOf
  <2>5. \A i \in 1..n : v[i] = IF i < k THEN w[i] ELSE IF i < n THEN w[i + 1] ELSE w[k]
    <3>1. SUFFICES ASSUME NEW i \in 1..n
                   PROVE v[i] = IF i < k THEN w[i] ELSE IF i < n THEN w[i + 1] ELSE w[k]
      OBVIOUS
    <3>2. v[i] = cache[cache_order'[i]].len
      BY <2>3
    <3>3. CASE i < k
      BY <1>5, <2>4, <3>2, <3>3
    <3>4. CASE ~(i < k) /\ i < n
      <4>1. i + 1 \in 1..n
        BY <1>4, <3>4
      <4>2. cache_order'[i] = cache_order[i + 1]
        BY <1>5, <3>4
      <4>3. QED
        BY <2>4, <3>2, <3>4, <4>1, <4>2
    <3>5. CASE ~(i < k) /\ ~(i < n)
      BY <1>3, <1>5, <2>4, <3>2, <3>5
    <3>6. QED
      BY <3>3, <3>4, <3>5
  <2>6. v \in [1..n -> Nat]
    <3>1. DOMAIN v = 1..n /\ v = [i \in DOMAIN v |-> v[i]]
      BY <1>5 DEF LensOf
    <3>2. \A i \in 1..n : v[i] \in Nat
      BY <1>4, <2>2, <2>5
    <3>3. QED
      BY <3>1, <3>2
  <2> HIDE DEF w, v, n
  <2>7. PICK g : Totals(n, v, current_cache_size, g)
    BY <1>4, <2>1, <2>2, <2>5, <2>6, TotalsMove
  <2>8. QED
    BY <1>1, <1>5, <2>7, NextTotals DEF v
<1>9. OverLimitOnlyAlone'
  BY <1>1, <1>5 DEF OverLimitOnlyAlone
<1>10. CacheCoherent' /\ PendingNotCached'
  BY <1>1 DEF CacheCoherent, PendingNotCached
<1>11. RecentSuffix'
  <2> DEFINE N == Len(recent)
             j == N - n + k
  <2>1. /\ N \in Nat /\ n <= N
        /\ \A i \in 1..n : cache_order[i] = recent[N - n + i]
    BY <1>2 DEF RecentSuffix
  <2>2. j \in 1..N /\ recent[j] = p
    <3>1. j \in 1..N
      BY <1>4, <2>1
    <3>2. recent[j] = cache_order[k]
      BY <2>1
    <3>3. QED
      BY <1>3, <3>1, <3>2
  <2>3. /\ IsInjective(recent') /\ Len(recent') = N
        /\ \A i \in 1..N : recent'[i] =
              IF i < j THEN recent[i] ELSE IF i < N THEN recent[i + 1] ELSE recent[j]
    <3>1. IsInjective(MoveToBack(recent, p))
      BY <1>2, MoveToBackFacts
    <3>2. /\ Len(MoveToBack(recent, recent[j])) = N
          /\ \A i \in 1..N : MoveToBack(recent, recent[j])[i] =
                IF i < j THEN recent[i] ELSE IF i < N THEN recent[i + 1] ELSE recent[j]
      BY <1>2, <2>2, MoveQueued
    <3>3. recent' = MoveToBack(recent, p) /\ recent[j] = p
      BY <1>1, <2>2
    <3>4. QED
      BY <3>1, <3>2, <3>3
  <2>4. ASSUME NEW i \in 1..n PROVE cache_order'[i] = recent'[N - n + i]
    <3>1. /\ N - n + i \in 1..N
          /\ N - n + i < j <=> i < k
          /\ N - n + i < N <=> i < n
          /\ (N - n + i) + 1 = N - n + (i + 1)
      BY <1>4, <2>1
    <3>2. CASE i < k
      BY <1>5, <2>1, <2>3, <3>1, <3>2
    <3>3. CASE ~(i < k) /\ i < n
      <4>1. i + 1 \in 1..n
        BY <1>4, <3>3
      <4>2. cache_order'[i] = cache_order[i + 1]
        BY <1>5, <3>3
      <4>3. recent'[N - n + i] = recent[N - n + (i + 1)]
        BY <2>3, <3>1, <3>3
      <4>4. QED
        BY <2>1, <4>1, <4>2, <4>3
    <3>4. CASE ~(i < k) /\ ~(i < n)
      <4>1. cache_order'[i] = p
        BY <1>3, <1>5, <3>4
      <4>2. recent'[N - n + i] = p
        BY <2>2, <2>3, <3>1, <3>4
      <4>3. QED
        BY <4>1, <4>2
    <3>5. QED
      BY <3>2, <3>3, <3>4
  <2>5. QED
    BY <1>5, <2>1, <2>3, <2>4 DEF RecentSuffix
<1>12. QED
  BY <1>6, <1>7, <1>8, <1>9, <1>10, <1>11

\* An eviction: the first entry of the queue leaves the cache.
LEMMA EvictKeeps ==
    ASSUME CacheInv, NEW f \in fetched, EvictOldest(f)
    PROVE  CacheInv'
<1> USE DEF CacheInv
<1> DEFINE n == Len(cache_order)
           old == cache_order[1]
<1>1. /\ cache_order \in Seq(Paths) /\ cache_order # << >>
      /\ cache_order' = Tail(cache_order)
      /\ cache' = [p \in DOMAIN cache \ {old} |-> cache[p]]
      /\ current_cache_size' = current_cache_size - cache[old].len
      /\ UNCHANGED <<content_decryptor, nav_cache, fetched, parsed, reply,
                     nav_reply, recent>>
  BY DEF EvictOldest, NeedsRoom, TypeOK
<1>2. /\ n \in Nat /\ n > 0
      /\ cache_order' \in Seq(Paths) /\ Len(cache_order') = n - 1
      /\ \A i \in 1..(n - 1) : cache_order'[i] = cache_order[i + 1]
  BY <1>1
<1>3. DOMAIN cache' = DOMAIN cache \ {old} /\ \A p \in DOMAIN cache' : cache'[p] = cache[p]
  BY <1>1
<1>4. /\ \A i \in 1..n : cache_order[i] \in DOMAIN cache
      /\ \A i, j \in 1..n : cache_order[i] = cache_order[j] => i = j
  BY <1>1, SizeTotals DEF QueueMatchesCache, IsInjective
<1>5. /\ current_cache_size' \in Nat /\ current_cache_size' <= current_cache_size
      /\ n = 1 => current_cache_size' = 0
      /\ SizeIsTotal'
  <2> DEFINE w == LensOf(cache, cache_order)
             v == LensOf(cache', cache_order')
  <2>1. PICK sum : Totals(n, w, current_cache_size, sum)
    BY SizeTotals
  <2>2. w \in [1..n -> Nat] /\ current_cache_size \in Nat /\ 1 \in 1..n
    BY <1>2, SizeTotals DEF TypeOK
  <2>3. \A i \in 1..n : w[i] = cache[cache_order[i]].len
    BY DEF LensOf
  <2>4. \A i \in 1..(n - 1) : v[i] = w[i + 1]
    <3>1. ASSUME NEW i \in 1..(n - 1) PROVE v[i] = w[i + 1]
      <4>1. i + 1 \in 1..n /\ i + 1 # 1
        BY <1>2
      <4>2. cache_order[i + 1] \in DOMAIN cache'
        BY <1>2, <1>3, <1>4, <4>1
      <4>3. v[i] = cache'[cache_order'[i]].len
        BY <1>2 DEF LensOf
      <4>4. QED
        BY <1>2, <1>3, <2>3, <4>1, <4>2, <4>3
    <3>2. QED
      BY <3>1
  <2>5. w[1] = cache[old].len
    BY <2>2, <2>3
  <2> HIDE DEF w, v, n, old
  <2>6. /\ current_cache_size - w[1] \in Nat
        /\ \E g : Totals(n - 1, v, current_cache_size - w[1], g)
    BY <1>2, <2>1, <2>2, <2>4, TotalsTail
  <2>7. current_cache_size' = current_cache_size - w[1] /\ w[1] \in Nat
    BY <1>1, <2>2, <2>5
  <2>8. PICK g : Totals(n - 1, v, current_cache_size', g)
    BY <2>6, <2>7
  <2>9. SizeIsTotal'
    BY <1>2, <2>8, NextTotals DEF v
  <2>10. n = 1 => current_cache_size' = 0
    BY <2>8 DEF Totals
  <2>11. QED
    BY <2>2, <2>6, <2>7, <2>9, <2>10
<1>6. QueueMatchesCache'
  <2>1. IsInjective(cache_order')
    <3>1. ASSUME NEW i \in 1..(n - 1), NEW j \in 1..(n - 1),
                 cache_order'[i] = cache_order'[j]
          PROVE  i = j
      <4>1. i + 1 \in 1..n /\ j + 1 \in 1..n
        BY <1>2
      <4>2. cache_order[i + 1] = cache_order[j + 1]
        BY <1>2, <3>1
      <4>3. i + 1 = j + 1
        BY <1>4, <4>1, <4>2
      <4>4. QED
        BY <4>3
    <3>2. DOMAIN cache_order' = 1..(n - 1)
      BY <1>2
    <3>3. QED
      BY <3>1, <3>2 DEF IsInjective
  <2>2. Range(cache_order') = DOMAIN cache'
    <3>1. ASSUME NEW i \in 1..(n - 1) PROVE cache_order'[i] \in DOMAIN cache'
      <4>1. i + 1 \in 1..n /\ 1 \in 1..n /\ i + 1 # 1
        BY <1>2
      <4>2. QED
        BY <1>2, <1>3, <1>4, <4>1
    <3>2. ASSUME NEW p \in DOMAIN cache'
          PROVE  \E i \in 1..(n - 1) : cache_order'[i] = p
      <4>1. PICK i \in 1..n : cache_order[i] = p
        BY <1>1, <1>3 DEF QueueMatchesCache, Range
      <4>2. i # 1
        BY <1>3, <4>1
      <4>3. i - 1 \in 1..(n - 1) /\ (i - 1) + 1 = i
        BY <1>2, <4>2
      <4>4. cache_order'[i - 1] = p
        BY <1>2, <4>1, <4>3
      <4>5. QED
        BY <4>3, <4>4
    <3>3. DOMAIN cache_order' = 1..(n - 1)
      BY <1>2
    <3>4. QED
      BY <3>1, <3>2, <3>3 DEF Range
  <2>3. \A p \in DOMAIN cache' : cache'[p].path = p
    BY <1>3 DEF QueueMatchesCache
  <2>4. QED
    BY <2>1, <2>2, <2>3 DEF QueueMatchesCache
<1>7. TypeOK'
  <2>1. DOMAIN cache' \subseteq Paths /\ cache' \in [DOMAIN cache' -> Bytes]
    <3>1. \A p \in DOMAIN cache' : cache'[p] \in Bytes
      BY <1>3 DEF TypeOK
    <3>2. cache' = [p \in DOMAIN cache' |-> cache'[p]]
      BY <1>1
    <3>3. QED
      BY <1>3, <3>1, <3>2 DEF TypeOK
  <2>2. QED
    BY <1>1, <1>2, <1>5, <2>1 DEF TypeOK
<1>8. OverLimitOnlyAlone'
  <2>1. current_cache_size \in Nat /\ MaxCacheSize \in Nat
    BY LimitsAssumption DEF TypeOK
  <2>2. QED
    BY <1>2, <1>5, <2>1 DEF OverLimitOnlyAlone
<1>9. CacheCoherent' /\ PendingNotCached'
  BY <1>1, <1>3 DEF CacheCoherent, PendingNotCached
<1>10. RecentSuffix'
  <2> DEFINE N == Len(recent)
  <2>1. /\ N \in Nat /\ n <= N /\ IsInjective(recent)
        /\ \A i \in 1..n : cache_order[i] = recent[N - n + i]
    BY DEF RecentSuffix, TypeOK
  <2>2. ASSUME NEW i \in 1..(n - 1) PROVE cache_order'[i] = recent[N - (n - 1) + i]
    <3>1. i + 1 \in 1..n /\ N - n + (i + 1) = N - (n - 1) + i
      <4>1. n \in Nat /\ N \in Nat /\ i \in 1..(n - 1)
        BY <2>1
      <4> HIDE DEF n, N
      <4>2. QED
        BY <4>1
    <3>2. QED
      BY <1>2, <2>1, <3>1
  <2>3. Len(cache_order') <= Len(recent) /\ recent' = recent
    BY <1>1, <1>2, <2>1
  <2>4. QED
    BY <1>2, <2>1, <2>2, <2>3 DEF RecentSuffix
<1>11. QED
  BY <1>5, <1>6, <1>7, <1>8, <1>9, <1>10

\* An insertion: the fetched entry joins the cache and the back of the queue.
LEMMA InsertKeeps ==
    ASSUME CacheInv, NEW f \in fetched, InsertFetched(f)
    PROVE  CacheInv'
<1> USE DEF CacheInv
<1> DEFINE n == Len(cache_order)
           p == f.bytes.path
<1>1. /\ ~NeedsRoom(f)
      /\ current_cache_size' = current_cache_size + f.bytes.len
      /\ cache' = [q \in DOMAIN cache \cup {p} |-> IF q = p THEN f.bytes ELSE cache[q]]
      /\ cache_order' = Append(cache_order, p)
      /\ recent' = MoveToBack(recent, p)
      /\ fetched' = {} /\ Return(f.use, f.book, f.bytes)
      /\ content_decryptor' = content_decryptor /\ parsed' = parsed
  BY DEF InsertFetched
<1>2. /\ f.use \in Uses /\ f.book \in Books /\ f.bytes \in Bytes
      /\ p \in Paths /\ f.bytes.len \in Nat /\ p \notin DOMAIN cache
      /\ f.book \in parsed
      /\ f.bytes \in Processed(f.book, p, content_decryptor)
  BY DEF TypeOK, Fetches, Bytes, PendingNotCached, CacheCoherent
<1>3. /\ n \in Nat /\ cache_order \in Seq(Paths)
      /\ cache_order' \in Seq(Paths) /\ Len(cache_order') = n + 1
      /\ \A i \in 1..n : cache_order'[i] = cache_order[i]
      /\ cache_order'[n + 1] = p
      /\ \A i \in 1..(n + 1) : i \in 1..n \/ i = n + 1
  BY <1>1, <1>2 DEF TypeOK
<1>4. /\ DOMAIN cache' = DOMAIN cache \cup {p}
      /\ \A q \in DOMAIN cache : cache'[q] = cache[q]
      /\ cache'[p] = f.bytes
  BY <1>1, <1>2
<1>5. /\ \A i \in 1..n : cache_order[i] \in DOMAIN cache
      /\ \A i \in 1..n : cache_order[i] # p
  BY <1>2, SizeTotals
<1> HIDE DEF p
<1>6. recent \in Seq(Paths) /\ IsInjective(recent)
  BY DEF TypeOK, RecentSuffix
<1>7. /\ recent' \in Seq(Paths) /\ IsInjective(recent')
  BY <1>1, <1>2, <1>6, MoveToBackFacts
<1>8. TypeOK'
  <2>1. /\ nav_cache' \in SUBSET NavDocs /\ reply' \in SUBSET Replies
        /\ nav_reply' \in SUBSET NavReplies
    BY <1>1, <1>2, ReturnTypes
  <2>2. DOMAIN cache' \subseteq Paths /\ cache' \in [DOMAIN cache' -> Bytes]
    <3>1. \A q \in DOMAIN cache' : cache'[q] \in Bytes
      BY <1>2, <1>4 DEF TypeOK
    <3>2. cache' = [q \in DOMAIN cache' |-> cache'[q]]
      BY <1>1
    <3>3. QED
      BY <1>2, <1>4, <3>1, <3>2 DEF TypeOK
  <2>3. current_cache_size' \in Nat
    BY <1>1, <1>2 DEF TypeOK
  <2>4. QED
    BY <1>1, <1>3, <1>7, <2>1, <2>2, <2>3 DEF TypeOK
<1>9. QueueMatchesCache'
  <2>1. IsInjective(cache_order')
    <3>1. ASSUME NEW i \in 1..(n + 1), NEW j \in 1..(n + 1),
                 cache_order'[i] = cache_order'[j]
          PROVE  i = j
      <4>1. CASE i \in 1..n /\ j \in 1..n
        BY <1>3, <3>1, <4>1 DEF QueueMatchesCache, IsInjective
      <4>2. CASE i = n + 1 \/ j = n + 1
        BY <1>3, <1>5, <3>1, <4>2
      <4>3. QED
        BY <1>3, <4>1, <4>2
    <3>2. DOMAIN cache_order' = 1..(n + 1)
      BY <1>3
    <3>3. QED
      BY <3>1, <3>2 DEF IsInjective
  <2>2. Range(cache_order') = DOMAIN cache'
    <3>1. Range(cache_order) = DOMAIN cache /\ DOMAIN cache_order = 1..n
      BY <1>3 DEF QueueMatchesCache
    <3>2. DOMAIN cache_order' = 1..(n + 1) /\ n + 1 \in 1..(n + 1)
      BY <1>3
    <3>3. Range(cache_order') = Range(cache_order) \cup {p}
      <4>1. \A i \in 1..n : i \in 1..(n + 1)
        BY <1>3
      <4>2. QED
        BY <1>3, <3>1, <3>2, <4>1 DEF Range
    <3>4. QED
      BY <1>4, <3>1, <3>3
  <2>3. \A q \in DOMAIN cache' : cache'[q].path = q
    BY <1>4 DEF QueueMatchesCache, p
  <2>4. QED
    BY <2>1, <2>2, <2>3 DEF QueueMatchesCache
<1>10. SizeIsTotal'
  <2> DEFINE w == LensOf(cache, cache_order)
             v == LensOf(cache', cache_order')
  <2>1. PICK sum : Totals(n, w, current_cache_size, sum)
    BY SizeTotals
  <2>2. w \in [1..n -> Nat] /\ current_cache_size \in Nat
    BY SizeTotals DEF TypeOK
  <2>3. \A i \in 1..n : v[i] = w[i]
    <3>1. ASSUME NEW i \in 1..n PROVE v[i] = w[i]
      <4>1. v[i] = cache'[cache_order'[i]].len
        BY <1>3 DEF LensOf
      <4>2. w[i] = cache[cache_order[i]].len
        BY DEF LensOf
      <4>3. QED
        BY <1>3, <1>4, <1>5, <4>1, <4>2
    <3>2. QED
      BY <3>1
  <2>4. v[n + 1] = f.bytes.len
    BY <1>3, <1>4 DEF LensOf
  <2> HIDE DEF w, v, n
  <2>5. PICK g : Totals(n + 1, v, current_cache_size + f.bytes.len, g)
    BY <1>2, <1>3, <2>1, <2>2, <2>3, <2>4, TotalsAppend
  <2>6. QED
    BY <1>1, <1>3, <2>5, NextTotals DEF v
<1>11. OverLimitOnlyAlone'
  <2>1. CASE cache_order = << >>
    <3>1. Len(cache_order') = 1
      BY <1>3, <2>1
    <3>2. QED
      BY <3>1 DEF OverLimitOnlyAlone
  <2>2. CASE cache_order # << >>
    <3>1. ~(current_cache_size + f.bytes.len > MaxCacheSize)
      BY <1>1, <2>2 DEF NeedsRoom
    <3>2. QED
      BY <1>1, <3>1 DEF OverLimitOnlyAlone
  <2>3. QED
    BY <2>1, <2>2
<1>12. CacheCoherent' /\ PendingNotCached'
  <2>1. \A q \in DOMAIN cache' :
           \E b \in parsed : cache'[q] \in Processed(b, q, content_decryptor)
    BY <1>2, <1>4 DEF CacheCoherent
  <2>2. QED
    BY <1>1, <2>1 DEF CacheCoherent, PendingNotCached
<1>13. RecentSuffix'
  <2> DEFINE N == Len(recent)
  <2>1. /\ N \in Nat /\ n <= N
        /\ \A i \in 1..n : cache_order[i] = recent[N - n + i]
    BY <1>3, <1>6 DEF RecentSuffix
  <2>2. CASE p \notin Range(recent)
    <3>1. recent' = Append(recent, p)
      BY <1>1, <2>2, MoveNew
    <3>2. /\ Len(recent') = N + 1 /\ recent'[N + 1] = p
          /\ \A i \in 1..N : recent'[i] = recent[i]
      BY <1>6, <3>1
    <3>3. ASSUME NEW i \in 1..(n + 1)
          PROVE  cache_order'[i] = recent'[(N + 1) - (n + 1) + i]
      <4>1. CASE i \in 1..n
        <5>1. (N + 1) - (n + 1) + i = N - n + i /\ N - n + i \in 1..N
          BY <1>3, <2>1, <4>1
        <5>2. QED
          BY <1>3, <2>1, <3>2, <4>1, <5>1
      <4>2. CASE i = n + 1
        <5>1. (N + 1) - (n + 1) + i = N + 1
          BY <1>3, <2>1, <4>2
        <5>2. QED
          BY <1>3, <3>2, <4>2, <5>1
      <4>3. QED
        BY <1>3, <4>1, <4>2
    <3>4. Len(cache_order') <= Len(recent')
      BY <1>3, <2>1, <3>2
    <3>5. QED
      BY <1>3, <1>7, <3>2, <3>3, <3>4 DEF RecentSuffix
  <2>3. CASE p \in Range(recent)
    <3>1. PICK j \in 1..N : recent[j] = p
      BY <2>3 DEF Range
    <3>2. /\ Len(recent') = N
          /\ \A i \in 1..N : recent'[i] =
                IF i < j THEN recent[i] ELSE IF i < N THEN recent[i + 1] ELSE recent[j]
      BY <1>1, <1>6, <3>1, MoveQueued
    <3>3. j <= N - n
      <4>1. SUFFICES ASSUME j > N - n PROVE FALSE
        BY <2>1, <3>1
      <4>2. j - (N - n) \in 1..n /\ N - n + (j - (N - n)) = j
        BY <1>3, <2>1, <3>1, <4>1
      <4>3. cache_order[j - (N - n)] = p
        BY <2>1, <3>1, <4>2
      <4>4. QED
        BY <1>5, <4>2, <4>3
    <3>4. n + 1 <= N
      BY <1>3, <2>1, <3>1, <3>3
    <3>5. ASSUME NEW i \in 1..(n + 1) PROVE cache_order'[i] = recent'[N - (n + 1) + i]
      <4>1. CASE i \in 1..n
        <5>1. /\ N - (n + 1) + i \in 1..N /\ ~(N - (n + 1) + i < j)
              /\ N - (n + 1) + i < N /\ (N - (n + 1) + i) + 1 = N - n + i
          BY <1>3, <2>1, <3>1, <3>3, <3>4, <4>1
        <5>2. recent'[N - (n + 1) + i] = recent[N - n + i]
          BY <3>2, <5>1
        <5>3. QED
          BY <1>3, <2>1, <4>1, <5>2
      <4>2. CASE i = n + 1
        <5>1. N - (n + 1) + i = N /\ N \in 1..N /\ ~(N < j)
          BY <1>3, <2>1, <3>1, <3>3, <3>4, <4>2
        <5>2. recent'[N] = p
          BY <3>1, <3>2, <5>1
        <5>3. QED
          BY <1>3, <4>2, <5>1, <5>2
      <4>3. QED
        BY <1>3, <4>1, <4>2
    <3>6. Len(cache_order') <= Len(recent')
      BY <1>3, <3>2, <3>4
    <3>7. QED
      BY <1>3, <1>7, <3>2, <3>5, <3>6 DEF RecentSuffix
  <2>4. QED
    BY <2>2, <2>3
<1>14. QED
  BY <1>8, <1>9, <1>10, <1>11, <1>12, <1>13

\* Steps that leave the cache, the decryptor and what is pending alone keep
\* the invariant when they keep the types and forget no parsed book.
LEMMA ReadersKeep ==
    ASSUME CacheInv, TypeOK', parsed \subseteq parsed',
           UNCHANGED <<cache, cache_order, current_cache_size, content_decryptor,
                       fetched, recent>>
    PROVE  CacheInv'
<1>1. /\ QueueMatchesCache' /\ OverLimitOnlyAlone' /\ PendingNotCached' /\ RecentSuffix'
  BY DEF CacheInv, QueueMatchesCache, OverLimitOnlyAlone, PendingNotCached, RecentSuffix
<1>2. SizeIsTotal'
  BY DEF CacheInv, SizeIsTotal, RunningTotals
<1>3. CacheCoherent'
  BY DEF CacheInv, CacheCoherent
<1>4. QED
  BY <1>1, <1>2, <1>3 DEF CacheInv

\* A miss that has read and decrypted its entry.
LEMMA MissKeeps ==
    ASSUME CacheInv, NEW use \in Uses, NEW b \in Books, NEW p \in Paths,
           ReadMiss(use, b, p)
    PROVE  CacheInv'
<1>1. PICK bytes \in Processed(b, p, content_decryptor) :
         fetched' = {[use |-> use, book |-> b, bytes |-> bytes]}
  BY DEF ReadMiss
<1>2. /\ b \in parsed /\ p \notin DOMAIN cache
      /\ UNCHANGED <<cache, cache_order, current_cache_size, content_decryptor,
                     nav_cache, parsed, reply, nav_reply, recent>>
  BY DEF ReadMiss, Wants
<1>3. bytes \in Bytes /\ bytes.path = p
  <2>1. content_decryptor \in Decryptors \cup {NoDecryptor}
    BY DEF CacheInv, TypeOK
  <2>2. QED
    BY <2>1, ProcessedBytes
<1>4. TypeOK'
  <2>1. fetched' \in SUBSET Fetches
    BY <1>1, <1>3 DEF Fetches
  <2>2. QED
    BY <1>2, <2>1 DEF CacheInv, TypeOK
<1>5. /\ QueueMatchesCache' /\ OverLimitOnlyAlone' /\ RecentSuffix'
  BY <1>2 DEF CacheInv, QueueMatchesCache, OverLimitOnlyAlone, RecentSuffix
<1>6. SizeIsTotal'
  BY <1>2 DEF CacheInv, SizeIsTotal, RunningTotals
<1>7. CacheCoherent' /\ PendingNotCached'
  BY <1>1, <1>2, <1>3 DEF CacheInv, CacheCoherent, PendingNotCached
<1>8. QED
  BY <1>4, <1>5, <1>6, <1>7 DEF CacheInv

\* An emptied cache, with nothing pending, satisfies every part.
LEMMA ClearKeeps ==
    ASSUME CacheInv, NEW d \in Decryptors \cup {NoDecryptor}, SetDecryptor(d)
    PROVE  CacheInv'
<1>1. /\ cache' = << >> /\ cache_order' = << >> /\ recent' = << >>
      /\ current_cache_size' = 0 /\ content_decryptor' = d /\ fetched' = {}
      /\ UNCHANGED <<nav_cache, parsed, reply, nav_reply>>
  BY DEF SetDecryptor, clear_resource_cache
<1>2. DOMAIN cache' = {} /\ Len(cache_order') = 0 /\ Len(recent') = 0
      /\ DOMAIN cache_order' = {} /\ DOMAIN recent' = {}
  BY <1>1
<1>3. TypeOK'
  <2>1. cache' \in [DOMAIN cache' -> Bytes]
    BY <1>1, <1>2
  <2>2. QED
    BY <1>1, <1>2, <2>1 DEF CacheInv, TypeOK
<1>4. QueueMatchesCache'
  BY <1>2 DEF QueueMatchesCache, IsInjective, Range
<1>5. SizeIsTotal'
  <2> DEFINE sum == [i \in 0..0 |-> 0]
  <2>1. Totals(0, LensOf(cache', cache_order'), 0, sum)
    BY DEF Totals
  <2>2. QED
    BY <1>1, <1>2, <2>1, NextTotals
<1>6. OverLimitOnlyAlone'
  BY <1>1, LimitsAssumption DEF OverLimitOnlyAlone
<1>7. CacheCoherent' /\ PendingNotCached'
  BY <1>1, <1>2 DEF CacheCoherent, PendingNotCached
<1>8. RecentSuffix'
  BY <1>2 DEF RecentSuffix, IsInjective
<1>9. QED
  BY <1>3, <1>4, <1>5, <1>6, <1>7, <1>8 DEF CacheInv

\* The invariant holds initially.
LEMMA CacheInvInit == Init => CacheInv
<1> SUFFICES ASSUME Init PROVE CacheInv
  OBVIOUS
<1>1. /\ cache = << >> /\ cache_order = << >> /\ recent = << >>
      /\ current_cache_size = 0 /\ content_decryptor = NoDecryptor
      /\ fetched = {} /\ nav_cache = {} /\ parsed = {} /\ reply = {} /\ nav_reply = {}
  BY DEF Init
<1>2. DOMAIN cache = {} /\ Len(cache_order) = 0 /\ Len(recent) = 0
      /\ DOMAIN cache_order = {} /\ DOMAIN recent = {}
  BY <1>1
<1>3. TypeOK
  <2>1. cache \in [DOMAIN cache -> Bytes]
    BY <1>1, <1>2
  <2>2. QED
    BY <1>1, <1>2, <2>1 DEF TypeOK
<1>4. QueueMatchesCache
  BY <1>2 DEF QueueMatchesCache, IsInjective, Range
<1>5. SizeIsTotal
  <2> DEFINE sum == [i \in 0..0 |-> 0]
  <2>1. sum \in [0..Len(cache_order) -> 0..current_cache_size] /\ RunningTotals(sum)
    BY <1>1, <1>2 DEF RunningTotals
  <2>2. QED
    BY <2>1 DEF SizeIsTotal
<1>6. OverLimitOnlyAlone
  BY <1>1, LimitsAssumption DEF OverLimitOnlyAlone
<1>7. CacheCoherent /\ PendingNotCached
  BY <1>1, <1>2 DEF CacheCoherent, PendingNotCached
<1>8. RecentSuffix
  BY <1>2 DEF RecentSuffix, IsInjective
<1>9. QED
  BY <1>3, <1>4, <1>5, <1>6, <1>7, <1>8 DEF CacheInv

\* Every step of the archive preserves the invariant.
LEMMA CacheInvNext == CacheInv /\ [Next]_vars => CacheInv'
<1> SUFFICES ASSUME CacheInv, [Next]_vars PROVE CacheInv'
  OBVIOUS
<1>1. ASSUME NEW use \in Uses, NEW b \in Books, NEW p \in Paths, ReadHit(use, b, p)
      PROVE  CacheInv'
  BY <1>1, HitKeeps
<1>2. ASSUME NEW use \in Uses, NEW b \in Books, NEW p \in Paths, ReadMiss(use, b, p)
      PROVE  CacheInv'
  BY <1>2, MissKeeps
<1>3. ASSUME NEW use \in Uses, NEW b \in Books, NEW p \in Paths, ReadBypass(use, b, p)
      PROVE  CacheInv'
  <2>1. PICK bytes \in Processed(b, p, content_decryptor) : Return(use, b, bytes)
    BY <1>3 DEF ReadBypass
  <2>2. bytes \in Bytes
    BY ProcessedBytes DEF CacheInv, TypeOK
  <2>3. UNCHANGED <<cache, cache_order, current_cache_size, content_decryptor,
                    fetched, parsed, recent>>
    BY <1>3 DEF ReadBypass
  <2>4. TypeOK'
    <3>1. /\ nav_cache' \in SUBSET NavDocs /\ reply' \in SUBSET Replies
          /\ nav_reply' \in SUBSET NavReplies
      BY <2>1, <2>2, ReturnTypes DEF CacheInv
    <3>2. QED
      BY <2>3, <3>1 DEF CacheInv, TypeOK
  <2>5. QED
    BY <2>3, <2>4, ReadersKeep
<1>4. ASSUME NEW use \in Uses, NEW b \in Books, NEW p \in Paths, ReadFailed(use, b, p)
      PROVE  CacheInv'
  <2>1. UNCHANGED <<cache, cache_order, current_cache_size, content_decryptor,
                    nav_cache, fetched, parsed, recent>>
    BY <1>4 DEF ReadFailed
  <2>2. reply' \in SUBSET Replies /\ nav_reply' \in SUBSET NavReplies
    <3>1. /\ [book |-> b, path |-> p, bytes |-> {}] \in Replies
          /\ [book |-> b, nav |-> {}] \in NavReplies
      BY DEF Replies, NavReplies
    <3>2. QED
      BY <1>4, <3>1 DEF ReadFailed, CacheInv, TypeOK
  <2>3. TypeOK'
    BY <2>1, <2>2 DEF CacheInv, TypeOK
  <2>4. QED
    BY <2>1, <2>3, ReadersKeep
<1>5. ASSUME NEW f \in fetched, EvictOldest(f) PROVE CacheInv'
  BY <1>5, EvictKeeps
<1>6. ASSUME NEW f \in fetched, InsertFetched(f) PROVE CacheInv'
  BY <1>6, InsertKeeps
<1>7. ASSUME NEW b \in Books, NavigationMemoized(b) PROVE CacheInv'
  <2>1. [book |-> b, nav |-> nav_cache] \in NavReplies
    BY DEF CacheInv, TypeOK, NavReplies
  <2>2. TypeOK'
    BY <1>7, <2>1 DEF NavigationMemoized, CacheInv, TypeOK
  <2>3. QED
    BY <1>7, <2>2, ReadersKeep DEF NavigationMemoized
<1>8. ASSUME NEW b \in Books, NavigationAbsent(b) PROVE CacheInv'
  <2> DEFINE nav == [book |-> b, bytes |-> {}]
  <2>1. nav \in NavDocs /\ [book |-> b, nav |-> {nav}] \in NavReplies
    BY DEF NavDocs, NavReplies
  <2>2. TypeOK'
    BY <1>8, <2>1 DEF NavigationAbsent, CacheInv, TypeOK
  <2>3. QED
    BY <1>8, <2>2, ReadersKeep DEF NavigationAbsent
<1>9. ASSUME NEW b \in Books, ParseRendition(b) PROVE CacheInv'
  <2>1. TypeOK'
    BY <1>9 DEF ParseRendition, CacheInv, TypeOK
  <2>2. QED
    BY <1>9, <2>1, ReadersKeep DEF ParseRendition
<1>10. ASSUME NEW d \in Decryptors \cup {NoDecryptor}, SetDecryptor(d) PROVE CacheInv'
  BY <1>10, ClearKeeps
<1>11. CASE UNCHANGED vars
  <2>1. TypeOK'
    BY <1>11 DEF vars, CacheInv, TypeOK
  <2>2. QED
    BY <1>11, <2>1, ReadersKeep DEF vars
<1>12. QED
  BY <1>1, <1>2, <1>3, <1>4, <1>5, <1>6, <1>7, <1>8, <1>9, <1>10, <1>11 DEF Next

-----------------------------------------------------------------------------
\* The inductive invariant holds in every reachable state.
THEOREM CacheInvariant == Spec => []CacheInv
<1>1. QED
  BY CacheInvInit, CacheInvNext, PTL DEF Spec

\* Every variable of the archive keeps its type; in particular the byte
\* counter, from which evictions subtract, never goes below zero.
THEOREM TypeCorrect == Spec => []TypeOK
<1>1. CacheInv => TypeOK
  BY DEF CacheInv
<1>2. QED
  BY <1>1, CacheInvariant, PTL

\* The map and the eviction queue always hold the same keys, each once.
THEOREM QueueMatches == Spec => []QueueMatchesCache
<1>1. CacheInv => QueueMatchesCache
  BY DEF CacheInv
<1>2. QED
  BY <1>1, CacheInvariant, PTL

\* The byte counter is always the total of what is cached.
THEOREM SizeCorrect == Spec => []SizeIsTotal
<1>1. CacheInv => SizeIsTotal
  BY DEF CacheInv
<1>2. QED
  BY <1>1, CacheInvariant, PTL

\* More than one entry is never cached beyond the limit.
THEOREM OverLimit == Spec => []OverLimitOnlyAlone
<1>1. CacheInv => OverLimitOnlyAlone
  BY DEF CacheInv
<1>2. QED
  BY <1>1, CacheInvariant, PTL

\* No decrypted bytes outlive the decryptor that made them.
THEOREM Coherent == Spec => []CacheCoherent
<1>1. CacheInv => CacheCoherent
  BY DEF CacheInv
<1>2. QED
  BY <1>1, CacheInvariant, PTL

\* Map and queue agree, hold what their types allow and only what the decryptor
\* in force could have given.
THEOREM CacheStaysConsistent == Spec => []CacheConsistent
<1>1. CacheInv => CacheConsistent
  BY DEF CacheInv, CacheConsistent
<1>2. QED
  BY <1>1, CacheInvariant, PTL

\* The counter is exact and keeps the cache within its limit, one entry aside.
THEOREM SizeStaysAccounted == Spec => []SizeAccounted
<1>1. CacheInv => SizeAccounted
  BY DEF CacheInv, SizeAccounted
<1>2. QED
  BY <1>1, CacheInvariant, PTL

\* Eviction is least-recently-used: the cache holds the end of the list of
\* distinct recent reads, in order.
THEOREM EvictsLeastRecent == Spec => []KeepsMostRecent
<1>1. ASSUME CacheInv PROVE KeepsMostRecent
  <2> DEFINE n == Len(cache_order)
             N == Len(recent)
             r == SubSeq(recent, N - n + 1, N)
  <2>1. /\ cache_order \in Seq(Paths) /\ recent \in Seq(Paths)
        /\ n \in Nat /\ N \in Nat /\ n <= N
        /\ \A i \in 1..n : cache_order[i] = recent[N - n + i]
    BY <1>1 DEF CacheInv, TypeOK, RecentSuffix
  <2>2. r \in Seq(Paths) /\ Len(r) = n /\ \A i \in 1..n : r[i] = recent[N - n + i]
    BY <2>1
  <2>3. r = cache_order
    BY <2>1, <2>2
  <2>4. QED
    BY <2>1, <2>3 DEF KeepsMostRecent
<1>2. QED
  BY <1>1, CacheInvariant, PTL

-----------------------------------------------------------------------------
\* With one identifier for every book, processing does not depend on the book.
LEMMA SameForEveryBook ==
    ASSUME OneIdentifier, NEW a \in Books, NEW b \in Books, NEW p, NEW d
    PROVE  Processed(a, p, d) = Processed(b, p, d)
<1>1. Identifier[a] = Identifier[b]
  BY DEF OneIdentifier
<1>2. QED
  BY <1>1 DEF Processed

\* A call that returns bytes which processing gives is a read of the reader
\* without a cache, or no step of it (when the caller is get_navigation).
LEMMA ReturnIsRead ==
    ASSUME NEW use \in Uses, NEW b \in Books, NEW p \in Paths, b \in parsed,
           NEW bytes \in Processed(b, p, content_decryptor), bytes.path = p,
           Return(use, b, bytes), content_decryptor' = content_decryptor,
           parsed' = parsed
    PROVE  Reader!Read(b, p) \/ reply' = reply
<1>1. CASE use = "read"
  <2>1. reply' = {[book |-> b, path |-> p, bytes |-> {bytes}]}
    BY <1>1 DEF Return
  <2>2. {bytes} \in {{x} : x \in Processed(b, p, content_decryptor)}
    OBVIOUS
  <2>3. Reader!Read(b, p)
    BY <2>1, <2>2 DEF Reader!Read
  <2>4. QED
    BY <2>3
<1>2. CASE use = "nav"
  BY <1>2 DEF Return
<1>3. QED
  BY <1>1, <1>2 DEF Uses

\* Every step of the archive is a step of the reader without a cache, or none.
LEMMA ReaderStep ==
    ASSUME OneIdentifier, CacheInv, [Next]_vars
    PROVE  [Reader!Next]_<<content_decryptor, parsed, reply>>
<1> DEFINE same == UNCHANGED <<content_decryptor, parsed, reply>>
<1>1. ASSUME NEW use \in Uses, NEW b \in Books, NEW p \in Paths, ReadHit(use, b, p)
      PROVE  Reader!Next \/ same
  <2>1. /\ b \in parsed /\ p \in DOMAIN cache /\ Return(use, b, cache[p])
        /\ content_decryptor' = content_decryptor /\ parsed' = parsed
    BY <1>1 DEF ReadHit, Wants
  <2>2. cache[p] \in Processed(b, p, content_decryptor) /\ cache[p].path = p
    <3>1. PICK a \in parsed : cache[p] \in Processed(a, p, content_decryptor)
      BY <2>1 DEF CacheInv, CacheCoherent
    <3>2. a \in Books
      BY DEF CacheInv, TypeOK
    <3>3. QED
      BY <2>1, <3>1, <3>2, SameForEveryBook DEF CacheInv, QueueMatchesCache
  <2>3. Reader!Read(b, p) \/ reply' = reply
    BY <2>1, <2>2, ReturnIsRead
  <2>4. QED
    BY <2>1, <2>3 DEF Reader!Next
<1>2. ASSUME NEW use \in Uses, NEW b \in Books, NEW p \in Paths, ReadMiss(use, b, p)
      PROVE  same
  BY <1>2 DEF ReadMiss
<1>3. ASSUME NEW use \in Uses, NEW b \in Books, NEW p \in Paths, ReadBypass(use, b, p)
      PROVE  Reader!Next \/ same
  <2>1. PICK bytes \in Processed(b, p, content_decryptor) : Return(use, b, bytes)
    BY <1>3 DEF ReadBypass
  <2>2. b \in parsed /\ content_decryptor' = content_decryptor /\ parsed' = parsed
    BY <1>3 DEF ReadBypass, Wants
  <2>3. bytes.path = p
    BY ProcessedBytes DEF CacheInv, TypeOK
  <2>4. Reader!Read(b, p) \/ reply' = reply
    BY <2>1, <2>2, <2>3, ReturnIsRead
  <2>5. QED
    BY <2>2, <2>4 DEF Reader!Next
<1>4. ASSUME NEW use \in Uses, NEW b \in Books, NEW p \in Paths, ReadFailed(use, b, p)
      PROVE  Reader!Next \/ same
  <2>1. b \in parsed /\ content_decryptor' = content_decryptor /\ parsed' = parsed
    BY <1>4 DEF ReadFailed, Wants
  <2>2. CASE use = "read"
    <3>1. Reader!Read(b, p)
      BY <1>4, <2>1, <2>2 DEF ReadFailed, Reader!Read
    <3>2. QED
      BY <3>1 DEF Reader!Next
  <2>3. CASE use = "nav"
    BY <1>4, <2>1, <2>3 DEF ReadFailed
  <2>4. QED
    BY <2>2, <2>3 DEF Uses
<1>5. ASSUME NEW f \in fetched, EvictOldest(f) PROVE same
  BY <1>5 DEF EvictOldest
<1>6. ASSUME NEW f \in fetched, InsertFetched(f) PROVE Reader!Next \/ same
  <2>1. /\ Return(f.use, f.book, f.bytes)
        /\ content_decryptor' = content_decryptor /\ parsed' = parsed
    BY <1>6 DEF InsertFetched
  <2>2. /\ f.use \in Uses /\ f.book \in Books /\ f.bytes.path \in Paths
        /\ f.book \in parsed
        /\ f.bytes \in Processed(f.book, f.bytes.path, content_decryptor)
    BY DEF CacheInv, TypeOK, Fetches, Bytes, CacheCoherent
  <2>3. Reader!Read(f.book, f.bytes.path) \/ reply' = reply
    BY <2>1, <2>2, ReturnIsRead
  <2>4. QED
    BY <2>1, <2>2, <2>3 DEF Reader!Next
<1>7. ASSUME NEW b \in Books, NavigationMemoized(b) \/ NavigationAbsent(b) PROVE same
  BY <1>7 DEF NavigationMemoized, NavigationAbsent
<1>8. ASSUME NEW b \in Books, ParseRendition(b) PROVE Reader!Next
  <2>1. Reader!Parse(b)
    BY <1>8 DEF ParseRendition, Reader!Parse
  <2>2. QED
    BY <2>1 DEF Reader!Next
<1>9. ASSUME NEW d \in Decryptors \cup {NoDecryptor}, SetDecryptor(d) PROVE Reader!Next
  <2>1. Reader!Install(d)
    BY <1>9 DEF SetDecryptor, Reader!Install
  <2>2. QED
    BY <2>1 DEF Reader!Next
<1>10. CASE UNCHANGED vars
  BY <1>10 DEF vars
<1>11. QED
  BY <1>1, <1>2, <1>3, <1>4, <1>5, <1>6, <1>7, <1>8, <1>9, <1>10 DEF Next

\* In a container whose books share one identifier the archive implements the
\* reader without a cache: hits, misses, evictions and bypasses cannot be told
\* apart by what reads return.
THEOREM ImplementsReader == OneIdentifier => (Spec => ReaderSpec)
<1> SUFFICES ASSUME OneIdentifier PROVE Spec => ReaderSpec
  OBVIOUS
<1>1. Init => Reader!Init
  BY DEF Init, Reader!Init
<1>2. CacheInv /\ [Next]_vars => [Reader!Next]_<<content_decryptor, parsed, reply>>
  BY ReaderStep
<1>3. QED
  BY <1>1, <1>2, CacheInvariant, PTL DEF Spec, ReaderSpec, Reader!Spec

-----------------------------------------------------------------------------
(***************************************************************************)
(* What a packaging counts.                                                 *)
(***************************************************************************)

Counters == {"considered", "inlined", "skipped_oversize", "missing", "skipped_type"}

\* Every path looked at is in one place: no stylesheet waits that is written
\* out already.
PackagingInv ==
    /\ packaging \in {"idle", "collect", "materialise", "done", "failed"}
    /\ packaging = "done" => DOMAIN html = DOMAIN chapter
    /\ IsFiniteSet(seen)
    /\ DOMAIN uri_map \subseteq seen /\ DOMAIN css_sources \subseteq seen
    /\ DOMAIN uri_map \cap DOMAIN css_sources = {}
    /\ stats \in [Counters -> Nat]
    /\ stats.considered = Cardinality(seen)
    /\ stats.inlined = Cardinality(DOMAIN uri_map)
    /\ stats.considered = stats.inlined + stats.skipped_oversize + stats.missing
                           + stats.skipped_type + Cardinality(DOMAIN css_sources)

-----------------------------------------------------------------------------
LEMMA InsertedDomain ==
    ASSUME NEW map, NEW key, NEW value
    PROVE  DOMAIN Insert(map, key, value) = DOMAIN map \cup {key}
BY DEF Insert

LEMMA RestrictedDomain ==
    ASSUME NEW map, NEW S
    PROVE  DOMAIN Restrict(map, S) = S
BY DEF Restrict

\* One path more is one more in the count.
LEMMA OneMore ==
    ASSUME NEW S, IsFiniteSet(S), NEW x, x \notin S
    PROVE  /\ IsFiniteSet(S \cup {x})
           /\ Cardinality(S \cup {x}) = Cardinality(S) + 1
           /\ Cardinality(S) \in Nat
BY FS_AddElement, FS_CardinalityType

LEMMA OneLess ==
    ASSUME NEW S, IsFiniteSet(S), NEW x \in S
    PROVE  /\ Cardinality(S \ {x}) = Cardinality(S) - 1
           /\ Cardinality(S) \in Nat
BY FS_RemoveElement, FS_CardinalityType

\* What a count leaves of the counters.
LEMMA Counted ==
    ASSUME stats \in [Counters -> Nat], NEW field \in Counters \ {"considered"}
    PROVE  /\ Count(field) \in [Counters -> Nat]
           /\ Count(field)["considered"] = stats["considered"] + 1
           /\ Count(field)[field] = stats[field] + 1
           /\ \A f \in Counters \ {"considered", field} : Count(field)[f] = stats[f]
BY DEF Count, Counters

LEMMA InitHolds == PackagingInit => PackagingInv
<1> SUFFICES ASSUME PackagingInit PROVE PackagingInv
  OBVIOUS
<1>1. DOMAIN uri_map = {} /\ DOMAIN css_sources = {} /\ seen = {}
      /\ packaging = "idle" /\ stats = NoStats
  BY DEF PackagingInit
<1>2. IsFiniteSet({}) /\ Cardinality({}) = 0
  BY FS_EmptySet
<1>3. stats \in [Counters -> Nat] /\ \A f \in Counters : stats[f] = 0
  BY <1>1 DEF NoStats, Counters
<1>4. QED
  BY <1>1, <1>2, <1>3 DEF PackagingInv, Counters

-----------------------------------------------------------------------------
\* A path is looked at for the first time: the five things that may happen.
LEMMA LoadKeeps == PackagingInv /\ LoadNext => PackagingInv'
<1> SUFFICES ASSUME PackagingInv, LoadNext PROVE PackagingInv'
  OBVIOUS
<1> DEFINE path == Last(pending)
<1>1. /\ packaging = "collect" /\ packaging' = packaging
      /\ path \notin seen /\ seen' = seen \cup {path}
      /\ UNCHANGED <<chapter, html>>
  BY DEF LoadNext, Enter, NoInput
<1>2. /\ IsFiniteSet(seen) /\ DOMAIN uri_map \subseteq seen /\ DOMAIN css_sources \subseteq seen
      /\ DOMAIN uri_map \cap DOMAIN css_sources = {}
      /\ stats \in [Counters -> Nat]
      /\ stats.considered = Cardinality(seen)
      /\ stats.inlined = Cardinality(DOMAIN uri_map)
      /\ stats.considered = stats.inlined + stats.skipped_oversize + stats.missing
                             + stats.skipped_type + Cardinality(DOMAIN css_sources)
  BY DEF PackagingInv
<1>3. PICK loaded :
         \/ /\ stats' = Count("missing")
            /\ UNCHANGED <<uri_map, css_sources>>
         \/ /\ stats' = Count("skipped_oversize")
            /\ UNCHANGED <<uri_map, css_sources>>
         \/ /\ stats' = [stats EXCEPT !.considered = @ + 1]
            /\ css_sources' = Insert(css_sources, path, loaded.entry)
            /\ UNCHANGED uri_map
         \/ /\ stats' = Count("inlined")
            /\ uri_map' = Insert(uri_map, path, Data(loaded.entry, loaded.type))
            /\ UNCHANGED css_sources
         \/ /\ stats' = Count("skipped_type")
            /\ UNCHANGED <<uri_map, css_sources>>
  BY DEF LoadNext
<1> HIDE DEF path
<1>4. /\ IsFiniteSet(seen') /\ Cardinality(seen') = Cardinality(seen) + 1
      /\ Cardinality(seen) \in Nat
  BY <1>1, <1>2, OneMore
<1>5. path \notin DOMAIN uri_map /\ path \notin DOMAIN css_sources
  BY <1>1, <1>2
<1>6. IsFiniteSet(DOMAIN uri_map) /\ IsFiniteSet(DOMAIN css_sources)
  BY <1>2, FS_Subset
<1>7. Cardinality(DOMAIN uri_map) \in Nat /\ Cardinality(DOMAIN css_sources) \in Nat
  BY <1>6, FS_CardinalityType
<1>8. CASE UNCHANGED <<uri_map, css_sources>>
           /\ \E field \in {"missing", "skipped_oversize", "skipped_type"} :
                 stats' = Count(field)
  <2>1. PICK field \in {"missing", "skipped_oversize", "skipped_type"} : stats' = Count(field)
    BY <1>8
  <2>2. /\ stats' \in [Counters -> Nat]
        /\ stats'["considered"] = stats["considered"] + 1
        /\ stats'[field] = stats[field] + 1
        /\ \A f \in Counters \ {"considered", field} : stats'[f] = stats[f]
    BY <1>2, <2>1, Counted DEF Counters
  <2>3. stats'.considered = stats'.inlined + stats'.skipped_oversize + stats'.missing
                             + stats'.skipped_type + Cardinality(DOMAIN css_sources)
        /\ stats'.inlined = stats.inlined
    BY <1>2, <1>7, <2>1, <2>2 DEF Counters
  <2>4. QED
    BY <1>1, <1>2, <1>4, <1>8, <2>2, <2>3 DEF PackagingInv
<1>9. CASE /\ stats' = [stats EXCEPT !.considered = @ + 1]
           /\ css_sources' = Insert(css_sources, path, loaded.entry)
           /\ UNCHANGED uri_map
  <2>1. DOMAIN css_sources' = DOMAIN css_sources \cup {path}
    BY <1>9, InsertedDomain
  <2>2. Cardinality(DOMAIN css_sources') = Cardinality(DOMAIN css_sources) + 1
    BY <1>5, <1>6, <2>1, OneMore
  <2>3. /\ stats' \in [Counters -> Nat]
        /\ stats'["considered"] = stats["considered"] + 1
        /\ \A f \in Counters \ {"considered"} : stats'[f] = stats[f]
    BY <1>2, <1>9 DEF Counters
  <2>4. stats'.considered = stats'.inlined + stats'.skipped_oversize + stats'.missing
                             + stats'.skipped_type + Cardinality(DOMAIN css_sources')
        /\ stats'.inlined = stats.inlined
    BY <1>2, <1>7, <2>2, <2>3 DEF Counters
  <2>5. QED
    BY <1>1, <1>2, <1>4, <1>5, <1>9, <2>1, <2>3, <2>4 DEF PackagingInv
<1>10. CASE /\ stats' = Count("inlined")
            /\ uri_map' = Insert(uri_map, path, Data(loaded.entry, loaded.type))
            /\ UNCHANGED css_sources
  <2>1. DOMAIN uri_map' = DOMAIN uri_map \cup {path}
    BY <1>10, InsertedDomain
  <2>2. Cardinality(DOMAIN uri_map') = Cardinality(DOMAIN uri_map) + 1
    BY <1>5, <1>6, <2>1, OneMore
  <2>3. /\ stats' \in [Counters -> Nat]
        /\ stats'["considered"] = stats["considered"] + 1
        /\ stats'["inlined"] = stats["inlined"] + 1
        /\ \A f \in Counters \ {"considered", "inlined"} : stats'[f] = stats[f]
    BY <1>2, <1>10, Counted DEF Counters
  <2>4. stats'.considered = stats'.inlined + stats'.skipped_oversize + stats'.missing
                             + stats'.skipped_type + Cardinality(DOMAIN css_sources)
    BY <1>2, <1>7, <2>3 DEF Counters
  <2>5. QED
    BY <1>1, <1>2, <1>4, <1>5, <1>10, <2>1, <2>2, <2>3, <2>4 DEF PackagingInv
<1>11. QED
  BY <1>3, <1>8, <1>9, <1>10

\* A stylesheet is written out: it changes places.
LEMMA MaterialiseKeeps == PackagingInv /\ Materialise => PackagingInv'
<1> SUFFICES ASSUME PackagingInv, Materialise PROVE PackagingInv'
  OBVIOUS
<1>1. /\ packaging = "materialise" /\ UNCHANGED <<packaging, seen, html, chapter>>
      /\ stats' = [stats EXCEPT !.inlined = @ + 1]
  BY DEF Materialise, NoInput
<1>2. PICK path \in DOMAIN css_sources :
         /\ uri_map' = Insert(uri_map, path, CssData(path, css_sources[path]))
         /\ css_sources' = Restrict(css_sources, DOMAIN css_sources \ {path})
  BY DEF Materialise
<1>3. /\ IsFiniteSet(seen) /\ DOMAIN uri_map \subseteq seen /\ DOMAIN css_sources \subseteq seen
      /\ DOMAIN uri_map \cap DOMAIN css_sources = {}
      /\ stats \in [Counters -> Nat]
      /\ stats.considered = Cardinality(seen)
      /\ stats.inlined = Cardinality(DOMAIN uri_map)
      /\ stats.considered = stats.inlined + stats.skipped_oversize + stats.missing
                             + stats.skipped_type + Cardinality(DOMAIN css_sources)
  BY DEF PackagingInv
<1>4. DOMAIN uri_map' = DOMAIN uri_map \cup {path}
  BY <1>2, InsertedDomain
<1>5. DOMAIN css_sources' = DOMAIN css_sources \ {path}
  BY <1>2, RestrictedDomain
<1>6. IsFiniteSet(DOMAIN uri_map) /\ IsFiniteSet(DOMAIN css_sources)
  BY <1>3, FS_Subset
<1>7. /\ Cardinality(DOMAIN uri_map') = Cardinality(DOMAIN uri_map) + 1
      /\ Cardinality(DOMAIN uri_map) \in Nat
  BY <1>2, <1>3, <1>4, <1>6, OneMore
<1>8. /\ Cardinality(DOMAIN css_sources') = Cardinality(DOMAIN css_sources) - 1
      /\ Cardinality(DOMAIN css_sources) \in Nat
  BY <1>2, <1>5, <1>6, OneLess
<1>9. /\ stats' \in [Counters -> Nat]
      /\ stats'["inlined"] = stats["inlined"] + 1
      /\ \A f \in Counters \ {"inlined"} : stats'[f] = stats[f]
  BY <1>1, <1>3 DEF Counters
<1>10. stats'.considered = stats'.inlined + stats'.skipped_oversize + stats'.missing
                            + stats'.skipped_type + Cardinality(DOMAIN css_sources')
       /\ stats'.considered = stats.considered
  BY <1>3, <1>8, <1>9 DEF Counters
<1>11. QED
  BY <1>1, <1>2, <1>3, <1>4, <1>5, <1>7, <1>9, <1>10 DEF PackagingInv

\* The other steps count nothing.
LEMMA OthersKeep ==
    ASSUME PackagingInv,
           \/ PackagingFails \/ LeaveResources \/ CollectRefs \/ SkipSeen \/ AllLoaded
           \/ Rewrite \/ UNCHANGED packaging_vars
    PROVE  PackagingInv'
<1>1. UNCHANGED <<seen, uri_map, css_sources, stats>>
  BY DEF PackagingFails, LeaveResources, CollectRefs, SkipSeen, AllLoaded, Rewrite, packaging_vars
<1>2. /\ packaging' \in {"idle", "collect", "materialise", "done", "failed"}
      /\ packaging' = "done" => DOMAIN html' = DOMAIN chapter'
  BY DEF PackagingFails, LeaveResources, CollectRefs, SkipSeen, AllLoaded, Rewrite, packaging_vars,
         NoInput, PackagingInv
<1>3. QED
  BY <1>1, <1>2 DEF PackagingInv

-----------------------------------------------------------------------------
\* The counters of a packaging add up, and every path looked at is counted once.
THEOREM CountersAddUp == PackagingSpec => []StatsAddUp
<1>1. PackagingInv => StatsAddUp
  BY DEF PackagingInv, StatsAddUp, PackagingTypeOK, Counters
<1>2. PackagingInv /\ [PackagingNext]_packaging_vars => PackagingInv'
  BY LoadKeeps, MaterialiseKeeps, OthersKeep DEF PackagingNext
<1>3. QED
  BY InitHolds, <1>1, <1>2, PTL DEF PackagingSpec

-----------------------------------------------------------------------------
(***************************************************************************)
(* What a packaging puts in: the references of a chapter, and those of the  *)
(* stylesheets it takes in, as far as they go.                              *)
(***************************************************************************)

\* What a sequence with one element more holds.
LEMMA AppendedRange ==
    ASSUME NEW S, NEW s \in Seq(S), NEW e \in S
    PROVE  Append(s, e) \in Seq(S) /\ Range(Append(s, e)) = Range(s) \cup {e}
<1>1. /\ Append(s, e) \in Seq(S) /\ Len(Append(s, e)) = Len(s) + 1
      /\ \A i \in 1..Len(s) : Append(s, e)[i] = s[i]
      /\ Append(s, e)[Len(s) + 1] = e
  BY AppendProperties
<1>2. Range(s) = {s[i] : i \in 1..Len(s)} /\ Len(s) \in Nat
  BY RangeEquality
<1>3. Range(Append(s, e)) = {Append(s, e)[i] : i \in 1..(Len(s) + 1)}
  BY <1>1, RangeEquality
<1>4. QED
  <2> DEFINE a == Append(s, e) n == Len(s)
  <2>1. n \in Nat /\ (\A i \in 1..n : a[i] = s[i]) /\ a[n + 1] = e
    BY <1>1, <1>2
  <2>2. Range(a) = {a[i] : i \in 1..(n + 1)} /\ Range(s) = {s[i] : i \in 1..n}
    BY <1>2, <1>3
  <2> HIDE DEF a, n
  <2>3. {a[i] : i \in 1..(n + 1)} = {s[i] : i \in 1..n} \cup {e}
    <3>1. ASSUME NEW i \in 1..(n + 1) PROVE a[i] \in {s[j] : j \in 1..n} \cup {e}
      <4>1. i \in 1..n \/ i = n + 1
        BY <2>1
      <4>2. QED
        BY <2>1, <4>1
    <3>2. ASSUME NEW i \in 1..n PROVE s[i] \in {a[j] : j \in 1..(n + 1)}
      BY <2>1
    <3>3. e \in {a[j] : j \in 1..(n + 1)}
      BY <2>1
    <3>4. QED
      BY <3>1, <3>2, <3>3
  <2>4. QED
    BY <1>1, <2>2, <2>3 DEF a

NamedAt(dir, pieces, places) ==
    {NormalizePath(dir, pieces[i].ref.path) : i \in places \cap DOMAIN pieces}

\* What is gathered from a sequence of pieces: the references at these places,
\* and no others.
LEMMA GatheredRefs ==
    ASSUME NEW dir, NEW pieces, pieces \in Seq(Range(pieces)), NEW places
    PROVE  /\ RefsAt(dir, pieces, places) \in Seq(Range(RefsAt(dir, pieces, places)))
           /\ Range(RefsAt(dir, pieces, places)) = NamedAt(dir, pieces, places)
<1> DEFINE m == Len(pieces)
           named(i) == NormalizePath(dir, pieces[i].ref.path)
           S == {named(i) : i \in 1..m}
           step == [n \in 1..m |-> [x \in Seq(S) |->
                       IF n \in places THEN Append(x, named(n)) ELSE x]]
           Upto(f) == [n \in 0..m |->
                         IF n = 0 THEN << >>
                         ELSE IF n \in places THEN Append(f[n - 1], named(n)) ELSE f[n - 1]]
           upto == CHOOSE f : f = Upto(f)
<1>1. m \in Nat /\ DOMAIN pieces = 1..m
  OBVIOUS
<1>2. step \in [1..m -> [Seq(S) -> Seq(S)]]
  <2>1. ASSUME NEW n \in 1..m, NEW x \in Seq(S)
        PROVE  (IF n \in places THEN Append(x, named(n)) ELSE x) \in Seq(S)
    <3>1. named(n) \in S
      OBVIOUS
    <3> HIDE DEF S, named
    <3>2. QED
      BY <3>1, AppendProperties
  <2> HIDE DEF S, named
  <2>2. QED
    BY <2>1
<1>3. PICK g \in [0..m -> Seq(S)] :
         g[0] = << >> /\ \A n \in 1..m : g[n] = step[n][g[n - 1]]
  <2>1. << >> \in Seq(S)
    OBVIOUS
  <2> DEFINE X == Seq(S)
  <2>2. step \in [1..m -> [X -> X]] /\ << >> \in X
    BY <1>2, <2>1
  <2> HIDE DEF step, m, X
  <2>3. \E g : IsRecursion(g, X, m, << >>, step)
    BY <1>1, <2>2, RecursionDefined
  <2>4. QED
    BY <2>3 DEF X, IsRecursion
<1>4. g = Upto(g)
  <2>1. ASSUME NEW n \in 0..m
        PROVE  g[n] = Upto(g)[n]
    <3>1. CASE n = 0
      BY <3>1, <1>3
    <3>2. CASE n # 0
      <4>1. n \in 1..m /\ n - 1 \in 0..m /\ g[n - 1] \in Seq(S)
        BY <3>2, <1>1
      <4> HIDE DEF S, named
      <4>2. step[n][g[n - 1]] = IF n \in places THEN Append(g[n - 1], named(n)) ELSE g[n - 1]
        BY <4>1
      <4>3. QED
        BY <3>2, <4>1, <4>2, <1>3
    <3>3. QED
      BY <3>1, <3>2
  <2>2. DOMAIN g = 0..m /\ DOMAIN Upto(g) = 0..m
    OBVIOUS
  <2>3. QED
    BY <2>1, <2>2
<1>5. upto = Upto(upto)
  <2> HIDE DEF Upto
  <2>1. QED
    BY <1>4
<1>11. \A f : f = Upto(f) =>
            /\ f[0] = << >>
            /\ \A n \in 1..m : f[n] = IF n \in places THEN Append(f[n - 1], named(n)) ELSE f[n - 1]
  <2> HIDE DEF named, m
  <2>1. SUFFICES ASSUME NEW f, f = Upto(f)
                 PROVE  /\ f[0] = << >>
                        /\ \A n \in 1..m :
                              f[n] = IF n \in places THEN Append(f[n - 1], named(n)) ELSE f[n - 1]
    OBVIOUS
  <2>2. f[0] = Upto(f)[0] /\ \A n \in 1..m : f[n] = Upto(f)[n]
    <3> HIDE DEF Upto
    <3>1. QED
      BY <2>1
  <2>3. ASSUME NEW n \in 1..m
        PROVE  f[n] = IF n \in places THEN Append(f[n - 1], named(n)) ELSE f[n - 1]
    <3>1. n \in 0..m /\ n # 0
      BY <1>1
    <3>2. QED
      BY <2>2, <3>1
  <2>4. f[0] = << >>
    BY <1>1, <2>2
  <2>5. QED
    BY <2>3, <2>4
<1>6. RefsAt(dir, pieces, places) = upto[m]
  BY DEF RefsAt
<1> DEFINE N == {n \in 0..m : /\ upto[n] \in Seq(S)
                              /\ Range(upto[n]) = {named(i) : i \in places \cap 1..n}}
<1> HIDE DEF upto
<1>7. 0 \in N
  <2>1. upto[0] = << >>
    BY <1>5, <1>11
  <2>2. Range(<< >>) = {} /\ {named(i) : i \in places \cap 1..0} = {}
    BY DEF Range
  <2>3. << >> \in Seq(S) /\ 0 \in 0..m
    BY <1>1
  <2> HIDE DEF S, named, m
  <2>4. QED
    BY <2>1, <2>2, <2>3
<1>8. ASSUME NEW n \in 0..(m - 1), n \in N
      PROVE  n + 1 \in N
  <2>1. n + 1 \in 1..m /\ n + 1 \in 0..m /\ (n + 1) - 1 = n
    BY <1>1
  <2>2. upto[n + 1] = IF n + 1 \in places THEN Append(upto[n], named(n + 1)) ELSE upto[n]
    <3> HIDE DEF named, Upto, m
    <3>1. QED
      BY <1>5, <1>11, <2>1
  <2>3. named(n + 1) \in S
    BY <2>1
  <2>4. 1..(n + 1) = (1..n) \cup {n + 1}
    BY <1>1
  <2> HIDE DEF S, named
  <2>5. CASE n + 1 \in places
    <3>1. /\ Append(upto[n], named(n + 1)) \in Seq(S)
          /\ Range(Append(upto[n], named(n + 1))) = Range(upto[n]) \cup {named(n + 1)}
      BY <1>8, <2>3, AppendedRange
    <3>2. {named(i) : i \in places \cap 1..(n + 1)} =
             {named(i) : i \in places \cap 1..n} \cup {named(n + 1)}
      BY <2>4, <2>5
    <3>3. QED
      BY <1>8, <2>1, <2>2, <2>5, <3>1, <3>2
  <2>6. CASE n + 1 \notin places
    <3>1. places \cap 1..(n + 1) = places \cap 1..n
      BY <2>4, <2>6
    <3>2. QED
      BY <1>8, <2>1, <2>2, <2>6, <3>1
  <2>7. QED
    BY <2>5, <2>6
<1>9. m \in N
  <2> HIDE DEF N
  <2>1. 0..m \subseteq N
    BY <1>1, <1>7, <1>8, BoundedInduction
  <2>2. QED
    BY <1>1, <2>1
<1>10. QED
  <2>1. upto[m] \in Seq(S) /\ Range(upto[m]) = {named(i) : i \in places \cap DOMAIN pieces}
    BY <1>1, <1>9
  <2> HIDE DEF S
  <2>2. upto[m] \in Seq(Range(upto[m]))
    BY <2>1, SeqOfRange
  <2>3. QED
    BY <1>6, <2>1, <2>2 DEF NamedAt

-----------------------------------------------------------------------------
TypesAmong(path, types) ==
    \A type \in DeclaredTypes(path) : ResolvedType(path, type) \in types

\* Looked at, or still to be.
Due == seen \cup Range(pending)

\* Nothing the chapter refers to is forgotten,
WorkInv ==
    /\ publication \in Publications /\ chapter \in Chapters
    /\ packaging \in {"idle", "collect", "materialise", "done", "failed"}
    /\ pending \in Seq(Range(pending))
    /\ packaging \in {"collect", "materialise"} =>
          \A i \in DOMAIN chapter :
             IsFound(chapter[i]) =>
                NormalizePath(ParentDir(chapter_path), chapter[i].ref.path) \in Due
    /\ packaging \in {"idle", "materialise"} => pending = << >>

\* nor anything a stylesheet that waits refers to.
SourcesInv ==
    \A path \in DOMAIN css_sources :
        LET entry == css_sources[path] IN
        /\ entry \in DOMAIN publication.content
        /\ \A i \in DOMAIN Tokens(entry) :
              AskedFor(Tokens(entry)[i]) =>
                 NormalizePath(ParentDir(path), Tokens(entry)[i].ref.path) \in Due

\* Whatever of it is to be inlined is at hand once it was looked at.
AtHand(path, entry) == path \in DOMAIN uri_map /\ uri_map[path].entry = entry
Waits(path, entry) == path \in DOMAIN css_sources /\ css_sources[path] = entry
LoadedInv ==
    \A path \in seen : \A entry \in EntryOfHref(path) :
        ~IsBig(entry) =>
            /\ TypesAmong(path, Inlineable) => AtHand(path, entry)
            /\ TypesAmong(path, Inlineable \cup {"css"}) =>
                  AtHand(path, entry) \/ Waits(path, entry)

\* What a token of a stylesheet at this path has to become.
TokenServed(path, token, nested) ==
    LET dir == ParentDir(path) IN
    /\ token.tok # "rule" /\ IsPlain(dir, token.ref)
       /\ ~IsBig(Named(dir, token.ref)) /\ HasType(dir, token.ref, Inlineable)
       => {d.entry : d \in nested} = {Named(dir, token.ref)}
    /\ token.ref.ext => nested = {}

\* A stylesheet written out has all it names in it.
WrittenInv ==
    \A path \in DOMAIN uri_map :
        LET data == uri_map[path] IN
        data.type = "css" =>
            /\ data.entry \in DOMAIN publication.content
            /\ data.nested = [i \in DOMAIN Tokens(data.entry) |-> data.nested[i]]
            /\ \A i \in DOMAIN Tokens(data.entry) :
                  TokenServed(path, Tokens(data.entry)[i], data.nested[i])

\* The tables grow one key at a time, and each is in one of them.
TablesInv ==
    /\ DOMAIN uri_map \subseteq seen /\ DOMAIN css_sources \subseteq seen
    /\ DOMAIN uri_map \cap DOMAIN css_sources = {}

ClosureInv ==
    /\ WorkInv /\ SourcesInv /\ LoadedInv /\ WrittenInv /\ TablesInv
    /\ ReferencesBecomeData /\ LinksPromoted

-----------------------------------------------------------------------------
\* What a stack holds is what its top is and what is left without it.
LEMMA FrontAndLast ==
    ASSUME NEW s, s \in Seq(Range(s)), s # << >>
    PROVE  /\ Front(s) \in Seq(Range(Front(s)))
           /\ Range(s) = Range(Front(s)) \cup {Last(s)}
<1> DEFINE n == Len(s)
<1>1. n \in Nat \ {0} /\ DOMAIN s = 1..n
  BY EmptySeq
<1>2. \A i \in 1..(n - 1) : s[i] \in Range(s)
  BY <1>1 DEF Range
<1>3. /\ Front(s) \in Seq(Range(s))
      /\ Len(Front(s)) = n - 1
      /\ \A i \in 1..(n - 1) : Front(s)[i] = s[i]
  <2>1. n - 1 \in Int /\ 1 \in Int
    BY <1>1
  <2>2. /\ SubSeq(s, 1, n - 1) \in Seq(Range(s))
        /\ Len(SubSeq(s, 1, n - 1)) = IF 1 <= n - 1 THEN n - 1 - 1 + 1 ELSE 0
        /\ \A i \in 1..(n - 1 - 1 + 1) : SubSeq(s, 1, n - 1)[i] = s[1 + i - 1]
    <3> HIDE DEF n
    <3>1. QED
      BY <1>2, <2>1, SubSeqProperties
  <2>3. Front(s) = SubSeq(s, 1, n - 1)
    BY DEF Front
  <2> DEFINE t == SubSeq(s, 1, n - 1)
  <2> HIDE DEF t
  <2>4. t \in Seq(Range(s)) /\ Len(t) = n - 1 /\ \A i \in 1..(n - 1) : t[i] = s[i]
    <3> HIDE DEF n
    <3>1. QED
      BY <1>1, <2>2 DEF t
  <2>5. QED
    BY <2>3, <2>4 DEF t
<1>4. Front(s) \in Seq(Range(Front(s)))
  BY <1>3, SeqOfRange
<1>5. Range(Front(s)) = {s[i] : i \in 1..(n - 1)}
  <2>1. Range(Front(s)) = {Front(s)[i] : i \in 1..(n - 1)}
    BY <1>3, RangeEquality
  <2>2. QED
    BY <1>3, <2>1
<1>6. Range(s) = {s[i] : i \in 1..n} /\ Last(s) = s[n]
  BY <1>1, RangeEquality DEF Last
<1>7. QED
  <2> HIDE DEF n
  <2>1. 1..n = (1..(n - 1)) \cup {n}
    BY <1>1
  <2>2. QED
    BY <1>4, <1>5, <1>6, <2>1

\* What two sequences hold together.
LEMMA JoinedRange ==
    ASSUME NEW s, NEW t, s \in Seq(Range(s)), t \in Seq(Range(t))
    PROVE  /\ s \o t \in Seq(Range(s \o t))
           /\ Range(s \o t) = Range(s) \cup Range(t)
<1> DEFINE S == Range(s) \cup Range(t)
<1>1. s \in Seq(S) /\ t \in Seq(S)
  BY SeqMonotonic
<1> HIDE DEF S
<1>2. s \o t \in Seq(S) /\ Range(s \o t) = Range(s) \cup Range(t)
  BY <1>1, ConcatProperties, RangeConcatenation
<1>3. QED
  BY <1>2, SeqOfRange

\* The entry of a name: the one that has it, or else one of the archive.
LEMMA EntryFound ==
    ASSUME publication \in Publications, NEW path
    PROVE  /\ ZipEntry(path) \subseteq DOMAIN publication.content
           /\ path \in Range(publication.entries) => ZipEntry(path) = {path}
           /\ \A d, e \in ZipEntry(path) : d = e
<1> DEFINE entries == publication.entries
           alike == {i \in DOMAIN entries : <<path, entries[i]>> \in Aliases}
           first == CHOOSE i \in alike : \A j \in alike : i <= j
<1>1. entries \in Seq(DOMAIN publication.content)
  BY PublicationsAssumption
<1>2. DOMAIN entries = 1..Len(entries) /\ Range(entries) \subseteq DOMAIN publication.content
  BY <1>1, RangeOfSeq
<1>3. ASSUME alike # {} PROVE entries[first] \in DOMAIN publication.content
  <2>1. alike \in SUBSET Nat
    BY <1>1, <1>2
  <2>2. \E i \in alike : \A j \in alike : i <= j
    <3> HIDE DEF alike
    <3>1. QED
      BY <1>3, <2>1, LeastNumber
  <2>3. first \in alike
    <3> HIDE DEF alike
    <3>1. QED
      BY <2>2
  <2>4. first \in DOMAIN entries
    BY <2>3
  <2> HIDE DEF first
  <2>5. QED
    BY <1>2, <2>4 DEF Range
<1>4. ZipEntry(path) = IF path \in Range(entries) THEN {path}
                       ELSE IF alike = {} THEN {} ELSE {entries[first]}
  BY DEF ZipEntry
<1> HIDE DEF entries, alike, first
<1>5. QED
  BY <1>2, <1>3, <1>4 DEF entries
\* What is loaded for a name that the archive has an entry for is that entry,
\* with a type some item of the manifest gives it.
LEMMA LoadedRight ==
    ASSUME publication \in Publications, NEW path, NEW loaded \in Loads(path)
    PROVE  /\ \A entry \in EntryOfHref(path) :
                 /\ loaded.entry = entry
                 /\ \A types : TypesAmong(path, types) => loaded.type \in types
           /\ loaded.type # "missing" => loaded.entry \in DOMAIN publication.content
<1> DEFINE items == MatchingItems(path)
           as(entry, type) == [entry |-> entry, type |-> ResolvedType(path, type)]
           missing == [entry |-> << >>, type |-> "missing"]
<1>1. \A p : /\ EntryOfHref(p) \subseteq DOMAIN publication.content
             /\ \A d, e \in EntryOfHref(p) : d = e
  BY EntryFound DEF EntryOfHref
<1>2. CASE EntryOfHref(path) # {}
  <2> DEFINE entry == CHOOSE e \in EntryOfHref(path) : TRUE
  <2>1. entry \in EntryOfHref(path)
    BY <1>2
  <2>2. Loads(path) = {as(entry, type) : type \in DeclaredTypes(path)}
    BY <1>2 DEF Loads
  <2> HIDE DEF entry
  <2>3. PICK type \in DeclaredTypes(path) : loaded = as(entry, type)
    BY <2>2
  <2>4. loaded.entry = entry /\ loaded.type = ResolvedType(path, type)
    BY <2>3
  <2>5. QED
    BY <1>1, <2>1, <2>4 DEF TypesAmong
<1>3. CASE EntryOfHref(path) = {}
  <2>1. loaded.type # "missing" => loaded.entry \in DOMAIN publication.content
    <3>1. CASE items = {}
      <4>1. Loads(path) = {missing}
        BY <1>3, <3>1 DEF Loads
      <4>2. QED
        BY <4>1
    <3>2. CASE items # {}
      <4>1. Loads(path) = UNION {IF EntryOfHref(m.href) = {} THEN {missing}
                                 ELSE {as(e, m.type) : e \in EntryOfHref(m.href)} : m \in items}
        BY <1>3, <3>2 DEF Loads
      <4>2. PICK m \in items : loaded \in IF EntryOfHref(m.href) = {} THEN {missing}
                                 ELSE {as(e, m.type) : e \in EntryOfHref(m.href)}
        BY <4>1
      <4>3. loaded = missing \/ \E e \in EntryOfHref(m.href) : loaded = as(e, m.type)
        BY <4>2
      <4>4. QED
        BY <1>1, <4>3
    <3>3. QED
      BY <3>1, <3>2
  <2>2. QED
    BY <1>3, <2>1
<1>4. QED
  BY <1>2, <1>3

\* The input of a call does not change, nor what depends on it alone.
LEMMA InputStays ==
    ASSUME NoInput
    PROVE  /\ \A path : EntryOfHref(path)' = EntryOfHref(path)
           /\ \A path, types : TypesAmong(path, types)' = TypesAmong(path, types)
           /\ \A entry : Tokens(entry)' = Tokens(entry) /\ IsBig(entry)' = IsBig(entry)
           /\ \A path, token, nested :
                 TokenServed(path, token, nested)' = TokenServed(path, token, nested)
<1>0. UNCHANGED publication
  BY DEF NoInput
<1>1. \A path : EntryOfHref(path)' = EntryOfHref(path)
  BY <1>0 DEF EntryOfHref, ZipEntry
<1>2. \A path : DeclaredTypes(path)' = DeclaredTypes(path)
  BY <1>0 DEF DeclaredTypes, MatchingItems
<1>3. \A entry : Tokens(entry)' = Tokens(entry) /\ IsBig(entry)' = IsBig(entry)
  BY <1>0 DEF Tokens, IsBig
<1>4. \A path, types : TypesAmong(path, types)' = TypesAmong(path, types)
  BY <1>2 DEF TypesAmong
<1>5. \A dir, ref : /\ Named(dir, ref)' = Named(dir, ref)
                    /\ IsPlain(dir, ref)' = IsPlain(dir, ref)
  BY <1>0 DEF Named, IsPlain
<1>6. \A dir, ref, types : HasType(dir, ref, types)' = HasType(dir, ref, types)
  BY <1>2 DEF HasType
<1>7. \A path, token, nested :
         TokenServed(path, token, nested)' = TokenServed(path, token, nested)
  BY <1>3, <1>5, <1>6 DEF TokenServed
<1>8. QED
  BY <1>1, <1>3, <1>4, <1>7

\* A table of sources that does not grow keeps its promise while nothing due is dropped.
LEMMA SourcesStay ==
    ASSUME SourcesInv, NoInput, Due \subseteq Due',
           DOMAIN css_sources' \subseteq DOMAIN css_sources,
           \A path \in DOMAIN css_sources' : css_sources'[path] = css_sources[path]
    PROVE  SourcesInv'
<1>1. publication' = publication
  BY DEF NoInput
<1>2. \A entry : Tokens(entry)' = Tokens(entry)
  BY InputStays
<1>3. QED
  BY <1>1, <1>2 DEF SourcesInv

\* A table only grows: what was right of it stays right.
LEMMA WrittenStays ==
    ASSUME WrittenInv, NoInput, NEW key, NEW value,
           key \notin DOMAIN uri_map, uri_map' = Insert(uri_map, key, value),
           value.type # "css"
    PROVE  WrittenInv'
<1>1. /\ DOMAIN uri_map' = DOMAIN uri_map \cup {key}
      /\ \A k \in DOMAIN uri_map : uri_map'[k] = uri_map[k]
      /\ uri_map'[key] = value
  BY DEF Insert
<1>2. publication' = publication
  BY DEF NoInput
<1>3. \A entry : Tokens(entry)' = Tokens(entry)
  BY InputStays
<1>4. \A path, token, nested :
         TokenServed(path, token, nested)' = TokenServed(path, token, nested)
  BY InputStays
<1>5. QED
  BY <1>1, <1>2, <1>3, <1>4 DEF WrittenInv

\* What was at hand stays there, and so only the path looked at matters.
LEMMA LoadedStays ==
    ASSUME LoadedInv, NoInput, NEW path, seen' = seen \cup {path},
           \A k, e : AtHand(k, e) => AtHand(k, e)',
           \A k, e : Waits(k, e) => Waits(k, e)' \/ AtHand(k, e)',
           \A entry \in EntryOfHref(path) :
              path \notin seen /\ ~IsBig(entry) =>
                 /\ TypesAmong(path, Inlineable) => AtHand(path, entry)'
                 /\ TypesAmong(path, Inlineable \cup {"css"}) =>
                       AtHand(path, entry)' \/ Waits(path, entry)'
    PROVE  LoadedInv'
<1>1. \A p : EntryOfHref(p)' = EntryOfHref(p)
  BY InputStays
<1>2. \A p, types : TypesAmong(p, types)' = TypesAmong(p, types)
  BY InputStays
<1>3. \A entry : IsBig(entry)' = IsBig(entry)
  BY InputStays
<1>4. (Inlineable \cup {"css"})' = Inlineable \cup {"css"} /\ Inlineable' = Inlineable
  BY DEF Inlineable
<1>5. SUFFICES ASSUME NEW p \in seen \cup {path}, NEW entry \in EntryOfHref(p), ~IsBig(entry)
               PROVE  /\ TypesAmong(p, Inlineable) => AtHand(p, entry)'
                      /\ TypesAmong(p, Inlineable \cup {"css"}) =>
                            AtHand(p, entry)' \/ Waits(p, entry)'
  BY <1>1, <1>2, <1>3, <1>4 DEF LoadedInv
<1>6. CASE p \in seen
  BY <1>5, <1>6 DEF LoadedInv
<1>7. CASE p = path /\ p \notin seen
  BY <1>5, <1>7
<1>8. QED
  BY <1>6, <1>7

\* A path looked at for the first time: the entry goes where its type and size send it.
LEMMA LoadServes ==
    ASSUME ClosureInv, LoadNext
    PROVE  ClosureInv'
<1> DEFINE front == Front(pending)
<1>0. PICK path : path = Last(pending)
  OBVIOUS
<1>1. /\ WorkInv /\ SourcesInv /\ LoadedInv /\ WrittenInv /\ TablesInv
      /\ publication \in Publications
      /\ packaging = "collect" /\ packaging' = "collect"
      /\ path \notin seen /\ seen' = seen \cup {path}
      /\ NoInput /\ UNCHANGED html
      /\ pending \in Seq(Range(pending)) /\ pending # << >>
  BY <1>0 DEF ClosureInv, WorkInv, LoadNext, Enter
<1>2. PICK loaded \in Loads(path) :
         \/ /\ loaded.type = "missing" \/ IsBig(loaded.entry)
               \/ loaded.type \notin Inlineable \cup {"css"}
            /\ pending' = front
            /\ UNCHANGED <<uri_map, css_sources>>
         \/ /\ loaded.type = "css" /\ ~IsBig(loaded.entry)
            /\ pending' = front \o CssRefs(path, loaded.entry)
            /\ css_sources' = Insert(css_sources, path, loaded.entry)
            /\ UNCHANGED uri_map
         \/ /\ loaded.type \in Inlineable /\ ~IsBig(loaded.entry)
            /\ pending' = front
            /\ uri_map' = Insert(uri_map, path, Data(loaded.entry, loaded.type))
            /\ UNCHANGED css_sources
  BY <1>0 DEF LoadNext
<1>3. /\ front \in Seq(Range(front))
      /\ Range(pending) = Range(front) \cup {path}
  BY <1>0, <1>1, FrontAndLast
<1>4. /\ \A entry \in EntryOfHref(path) :
            /\ loaded.entry = entry
            /\ \A types : TypesAmong(path, types) => loaded.type \in types
      /\ loaded.type # "missing" => loaded.entry \in DOMAIN publication.content
  BY <1>1, LoadedRight
<1> HIDE DEF front
<1>5. /\ "missing" \notin Inlineable \cup {"css"} /\ "css" \notin Inlineable
      /\ path \notin DOMAIN uri_map /\ path \notin DOMAIN css_sources
  BY <1>1 DEF Inlineable, TablesInv
<1>6. CASE /\ loaded.type = "missing" \/ IsBig(loaded.entry)
               \/ loaded.type \notin Inlineable \cup {"css"}
           /\ pending' = front
           /\ UNCHANGED <<uri_map, css_sources>>
  <2>1. Due \subseteq Due' /\ pending' \in Seq(Range(pending'))
    BY <1>1, <1>3, <1>6 DEF Due
  <2>2. SourcesInv'
    BY <1>1, <1>6, <2>1, SourcesStay
  <2>3. LoadedInv'
    <3>1. \A k, e : (AtHand(k, e)' <=> AtHand(k, e)) /\ (Waits(k, e)' <=> Waits(k, e))
      BY <1>6 DEF AtHand, Waits
    <3>2. \A entry \in EntryOfHref(path) :
             /\ IsBig(entry) \/ ~TypesAmong(path, Inlineable \cup {"css"})
             /\ IsBig(entry) \/ ~TypesAmong(path, Inlineable)
      BY <1>4, <1>5, <1>6
    <3>3. QED
      BY <1>1, <3>1, <3>2, LoadedStays
  <2>4. WrittenInv' /\ TablesInv'
    BY <1>1, <1>6, InputStays DEF WrittenInv, TablesInv, NoInput
  <2>5. QED
    BY <1>1, <2>1, <2>2, <2>3, <2>4
       DEF ClosureInv, WorkInv, NoInput, ReferencesBecomeData, LinksPromoted
<1>7. CASE /\ loaded.type = "css" /\ ~IsBig(loaded.entry)
           /\ pending' = front \o CssRefs(path, loaded.entry)
           /\ css_sources' = Insert(css_sources, path, loaded.entry)
           /\ UNCHANGED uri_map
  <2> DEFINE tokens == Tokens(loaded.entry)
             places == {i \in DOMAIN tokens : AskedFor(tokens[i])}
             refs == RefsAt(ParentDir(path), tokens, places)
  <2>1. loaded.entry \in DOMAIN publication.content /\ tokens \in Seq(Range(tokens))
    BY <1>1, <1>4, <1>7, PublicationsAssumption DEF Tokens
  <2>2. /\ refs \in Seq(Range(refs))
        /\ Range(refs) = {NormalizePath(ParentDir(path), tokens[i].ref.path) :
                             i \in places \cap DOMAIN tokens}
    <3>1. Range(refs) = NamedAt(ParentDir(path), tokens, places)
          /\ refs \in Seq(Range(refs))
      <4> HIDE DEF tokens, places
      <4>1. QED
        BY <2>1, GatheredRefs
    <3>2. QED
      BY <3>1 DEF NamedAt
  <2>3. CssRefs(path, loaded.entry) = refs
    BY DEF CssRefs
  <2> HIDE DEF refs
  <2>4. /\ pending' \in Seq(Range(pending'))
        /\ Range(pending') = Range(front) \cup Range(refs)
    BY <1>3, <1>7, <2>2, <2>3, JoinedRange
  <2>5. Due' = Due \cup Range(refs)
    BY <1>1, <1>3, <2>4 DEF Due
  <2>6. /\ DOMAIN css_sources' = DOMAIN css_sources \cup {path}
        /\ css_sources'[path] = loaded.entry
        /\ \A k \in DOMAIN css_sources : css_sources'[k] = css_sources[k]
    BY <1>5, <1>7 DEF Insert
  <2>7. \A i \in DOMAIN tokens :
           AskedFor(tokens[i]) => NormalizePath(ParentDir(path), tokens[i].ref.path) \in Due'
    BY <2>2, <2>5
  <2>8. SourcesInv'
    BY <1>1, <2>1, <2>5, <2>6, <2>7, InputStays, SMTT(30) DEF SourcesInv, NoInput
  <2>9. LoadedInv'
    <3>1. \A k, e : (AtHand(k, e) => AtHand(k, e)') /\ (Waits(k, e) => Waits(k, e)')
      BY <1>7, <2>6 DEF AtHand, Waits
    <3>2. \A entry \in EntryOfHref(path) :
             Waits(path, entry)' /\ ~TypesAmong(path, Inlineable)
      BY <1>4, <1>5, <1>7, <2>6 DEF Waits
    <3>3. QED
      BY <1>1, <3>1, <3>2, LoadedStays
  <2>10. WrittenInv' /\ TablesInv'
    BY <1>1, <1>5, <1>7, <2>6, InputStays DEF WrittenInv, TablesInv, NoInput
  <2>11. QED
    BY <1>1, <2>4, <2>5, <2>8, <2>9, <2>10
       DEF ClosureInv, WorkInv, NoInput, ReferencesBecomeData, LinksPromoted
<1>8. CASE /\ loaded.type \in Inlineable /\ ~IsBig(loaded.entry)
           /\ pending' = front
           /\ uri_map' = Insert(uri_map, path, Data(loaded.entry, loaded.type))
           /\ UNCHANGED css_sources
  <2>1. Due \subseteq Due' /\ pending' \in Seq(Range(pending'))
    BY <1>1, <1>3, <1>8 DEF Due
  <2>2. SourcesInv'
    BY <1>1, <1>8, <2>1, SourcesStay
  <2>3. /\ DOMAIN uri_map' = DOMAIN uri_map \cup {path}
        /\ uri_map'[path].entry = loaded.entry
        /\ \A k \in DOMAIN uri_map : uri_map'[k] = uri_map[k]
    BY <1>5, <1>8 DEF Insert, Data
  <2>4. LoadedInv'
    <3>1. \A k, e : (AtHand(k, e) => AtHand(k, e)') /\ (Waits(k, e) => Waits(k, e)')
      BY <1>8, <2>3 DEF AtHand, Waits
    <3>2. \A entry \in EntryOfHref(path) : AtHand(path, entry)'
      BY <1>4, <2>3 DEF AtHand
    <3>3. QED
      BY <1>1, <3>1, <3>2, LoadedStays
  <2>5. Data(loaded.entry, loaded.type).type # "css"
    BY <1>5, <1>8 DEF Data
  <2>6. WrittenInv'
    BY <1>1, <1>5, <1>8, <2>5, WrittenStays
  <2>7. TablesInv'
    BY <1>1, <1>5, <1>8, <2>3 DEF TablesInv
  <2>8. QED
    BY <1>1, <2>1, <2>2, <2>4, <2>6, <2>7
       DEF ClosureInv, WorkInv, NoInput, ReferencesBecomeData, LinksPromoted
<1>9. QED
  BY <1>2, <1>6, <1>7, <1>8

-----------------------------------------------------------------------------
\* A plain reference leads to the entry it names, and to a file.
LEMMA PlainEntry ==
    ASSUME publication \in Publications, NEW dir, NEW ref, IsPlain(dir, ref)
    PROVE  /\ EntryOfHref(NormalizePath(dir, ref.path)) = {Named(dir, ref)}
           /\ NormalizePath(dir, ref.path) # << >>
           /\ Named(dir, ref) \in DOMAIN publication.content
<1> DEFINE path == NormalizePath(dir, ref.path)
<1>1. /\ NormalizePath(publication.opf_dir, path) = Named(dir, ref)
      /\ Named(dir, ref) \in Range(publication.entries)
  BY DEF IsPlain
<1> HIDE DEF path
<1>2. EntryOfHref(path) = {Named(dir, ref)}
  BY <1>1, EntryFound DEF EntryOfHref
<1>3. path # << >>
  BY <1>1, PublicationsAssumption
<1>4. Named(dir, ref) \in DOMAIN publication.content
  BY <1>1, EntryFound
<1>5. QED
  BY <1>2, <1>3, <1>4 DEF path

\* Once everything is loaded, an image a stylesheet names is there to be put in.
LEMMA TokensServed ==
    ASSUME WorkInv, LoadedInv, packaging = "materialise",
           NEW path, NEW token,
           AskedFor(token) => NormalizePath(ParentDir(path), token.ref.path) \in Due
    PROVE  TokenServed(path, token, NestedData(path, token))
<1> DEFINE dir == ParentDir(path)
           abs == NormalizePath(dir, token.ref.path)
<1>1. /\ publication \in Publications
      /\ AskedFor(token) => abs \in seen
  BY DEF WorkInv, Due, Range
<1>2. NestedData(path, token) = IF AskedFor(token) /\ abs \in DOMAIN uri_map
                                THEN {uri_map[abs]} ELSE {}
  BY DEF NestedData
<1>3. token.ref.ext => NestedData(path, token) = {}
  BY <1>2 DEF AskedFor, IsCssLocal
<1>4. ASSUME token.tok # "rule", IsPlain(dir, token.ref), ~IsBig(Named(dir, token.ref)),
             HasType(dir, token.ref, Inlineable)
      PROVE  {d.entry : d \in NestedData(path, token)} = {Named(dir, token.ref)}
  <2>1. AskedFor(token)
    BY <1>4 DEF IsPlain, AskedFor, IsCssLocal
  <2>2. EntryOfHref(abs) = {Named(dir, token.ref)}
    BY <1>1, <1>4, PlainEntry
  <2>3. TypesAmong(abs, Inlineable)
    BY <1>4 DEF HasType, TypesAmong
  <2>4. AtHand(abs, Named(dir, token.ref))
    BY <1>1, <1>4, <2>1, <2>2, <2>3 DEF LoadedInv
  <2>5. QED
    BY <1>2, <2>1, <2>4 DEF AtHand
<1>5. QED
  BY <1>3, <1>4 DEF TokenServed

\* A stylesheet written out finds every file it names among the data.
LEMMA MaterialiseServes ==
    ASSUME ClosureInv, Materialise
    PROVE  ClosureInv'
<1>1. /\ WorkInv /\ SourcesInv /\ LoadedInv /\ WrittenInv /\ TablesInv
      /\ publication \in Publications
      /\ packaging = "materialise" /\ packaging' = "materialise"
      /\ NoInput /\ UNCHANGED <<pending, seen, html>>
  BY DEF ClosureInv, WorkInv, Materialise
<1>2. PICK path \in DOMAIN css_sources :
         /\ uri_map' = Insert(uri_map, path, CssData(path, css_sources[path]))
         /\ css_sources' = Restrict(css_sources, DOMAIN css_sources \ {path})
  BY DEF Materialise
<1>3. PICK entry : entry = css_sources[path]
  OBVIOUS
<1>4. /\ entry \in DOMAIN publication.content
      /\ \A i \in DOMAIN Tokens(entry) :
            AskedFor(Tokens(entry)[i]) =>
               NormalizePath(ParentDir(path), Tokens(entry)[i].ref.path) \in Due
  BY <1>1, <1>2, <1>3 DEF SourcesInv
<1>5. path \in seen /\ path \notin DOMAIN uri_map
  BY <1>1, <1>2 DEF TablesInv
<1>6. /\ DOMAIN uri_map' = DOMAIN uri_map \cup {path}
      /\ uri_map'[path] = CssData(path, entry)
      /\ \A k \in DOMAIN uri_map : uri_map'[k] = uri_map[k]
  BY <1>2, <1>3, <1>5 DEF Insert
<1>7. /\ DOMAIN css_sources' = DOMAIN css_sources \ {path}
      /\ \A k \in DOMAIN css_sources' : css_sources'[k] = css_sources[k]
  BY <1>2 DEF Restrict
<1>8. Due' = Due
  BY <1>1 DEF Due
<1>9. SourcesInv'
  BY <1>1, <1>7, <1>8, SourcesStay
<1>10. LoadedInv'
  <2>1. CssData(path, entry).entry = entry
    BY DEF CssData
  <2>2. \A k, e : AtHand(k, e) => AtHand(k, e)'
    BY <1>6 DEF AtHand
  <2>3. \A k, e : Waits(k, e) => Waits(k, e)' \/ AtHand(k, e)'
    BY <1>3, <1>6, <1>7, <2>1 DEF AtHand, Waits
  <2>4. seen' = seen \cup {path}
    BY <1>1, <1>5
  <2>5. QED
    BY <1>1, <1>5, <2>2, <2>3, <2>4, LoadedStays
<1>11. WrittenInv'
  <2> DEFINE data == CssData(path, entry)
  <2>1. /\ data.entry = entry
        /\ data.nested = [i \in DOMAIN Tokens(entry) |-> NestedData(path, Tokens(entry)[i])]
    BY DEF CssData
  <2>2. data.nested = [i \in DOMAIN Tokens(data.entry) |-> data.nested[i]]
    <3> HIDE DEF data
    <3>1. QED
      BY <2>1
  <2>3. \A i \in DOMAIN Tokens(entry) :
           TokenServed(path, Tokens(entry)[i], data.nested[i])
    <3> HIDE DEF data
    <3>1. \A i \in DOMAIN Tokens(entry) :
             TokenServed(path, Tokens(entry)[i], NestedData(path, Tokens(entry)[i]))
      BY <1>1, <1>4, TokensServed
    <3>2. QED
      BY <2>1, <3>1
  <2>4. UNCHANGED publication
    BY <1>1 DEF NoInput
  <2>5. \A e : Tokens(e)' = Tokens(e)
    BY <1>1, InputStays
  <2>6. \A p, token, nested : TokenServed(p, token, nested)' = TokenServed(p, token, nested)
    BY <1>1, InputStays
  <2>7. ASSUME NEW p \in DOMAIN uri_map', uri_map'[p].type = "css"
        PROVE  LET d == uri_map'[p] IN
               /\ d.entry \in DOMAIN publication.content
               /\ d.nested = [i \in DOMAIN Tokens(d.entry) |-> d.nested[i]]
               /\ \A i \in DOMAIN Tokens(d.entry) :
                     TokenServed(p, Tokens(d.entry)[i], d.nested[i])
    <3>1. CASE p = path
      <4>1. uri_map'[p] = data
        BY <1>6, <3>1
      <4> HIDE DEF data
      <4>2. QED
        BY <1>4, <2>1, <2>2, <2>3, <3>1, <4>1
    <3>2. CASE p # path
      <4>1. p \in DOMAIN uri_map /\ uri_map'[p] = uri_map[p]
        BY <1>6, <2>7, <3>2
      <4>2. QED
        BY <1>1, <2>7, <4>1 DEF WrittenInv
    <3>3. QED
      BY <3>1, <3>2
  <2>8. QED
    BY <2>4, <2>5, <2>6, <2>7 DEF WrittenInv
<1>12. TablesInv'
  BY <1>1, <1>5, <1>6, <1>7 DEF TablesInv
<1>13. QED
  BY <1>1, <1>8, <1>9, <1>10, <1>11, <1>12
     DEF ClosureInv, WorkInv, NoInput, ReferencesBecomeData, LinksPromoted

\* Nothing changes in the tables.
LEMMA TablesStay ==
    ASSUME SourcesInv, LoadedInv, WrittenInv, NoInput,
           UNCHANGED <<seen, uri_map, css_sources>>, Due \subseteq Due'
    PROVE  SourcesInv' /\ LoadedInv' /\ WrittenInv'
<1>1. UNCHANGED <<publication, chapter_path>>
  BY DEF NoInput
<1>2. SourcesInv'
  BY SourcesStay
<1>3. LoadedInv'
  <2>1. /\ \A p : EntryOfHref(p)' = EntryOfHref(p)
        /\ \A p, types : TypesAmong(p, types)' = TypesAmong(p, types)
        /\ \A e : IsBig(e)' = IsBig(e)
        /\ \A p, e : AtHand(p, e)' = AtHand(p, e) /\ Waits(p, e)' = Waits(p, e)
    BY InputStays DEF AtHand, Waits
  <2>2. Inlineable' = Inlineable
    BY DEF Inlineable
  <2>3. QED
    BY <2>1, <2>2 DEF LoadedInv
<1>4. WrittenInv'
  <2>1. /\ \A e : Tokens(e)' = Tokens(e)
        /\ \A p, t, n : TokenServed(p, t, n)' = TokenServed(p, t, n)
    BY InputStays
  <2>2. QED
    BY <1>1, <2>1 DEF WrittenInv
<1>5. QED
  BY <1>2, <1>3, <1>4

-----------------------------------------------------------------------------
\* What the rewriter makes of a reference that has to become data.
LEMMA PieceServed ==
    ASSUME WorkInv, LoadedInv, WrittenInv, packaging = "materialise",
           DOMAIN css_sources = {}, NEW i \in DOMAIN chapter,
           chapter[i].tag \in {"img", "srcset", "link", "style"},
           IsPlain(ParentDir(chapter_path), chapter[i].ref),
           ~IsBig(Named(ParentDir(chapter_path), chapter[i].ref)),
           HasType(ParentDir(chapter_path), chapter[i].ref, Inlineable \cup {"css"})
    PROVE  LET h == Promoted(chapter[i], RewrittenAs(chapter[i]))
               entry == Named(ParentDir(chapter_path), chapter[i].ref)
           IN \/ h.how = "dropped" /\ Tokens(entry) = << >>
              \/ {d.entry : d \in h.data} = {entry}
<1> DEFINE m == chapter[i]
           dir == ParentDir(chapter_path)
           abs == NormalizePath(dir, m.ref.path)
           entry == Named(dir, m.ref)
           data == uri_map[abs]
<1>1. /\ m.tag \in {"img", "srcset", "link", "style"} /\ IsPlain(dir, m.ref) /\ ~IsBig(entry)
      /\ ~m.ref.ext /\ m.ref.path # << >>
  BY DEF IsPlain
<1>2. IsFound(m) /\ IsVisited(m)
  BY <1>1 DEF IsFound, IsVisited, IsLocal, IsCssLocal, IsFragmentOnly, Collected
<1>3. publication \in Publications /\ pending = << >> /\ abs \in Due
  BY <1>2 DEF WorkInv
<1>4. abs \in seen
  BY <1>3 DEF Due, Range
<1>5. EntryOfHref(abs) = {entry} /\ abs # << >> /\ entry \in DOMAIN publication.content
  BY <1>1, <1>3, PlainEntry
<1>6. TypesAmong(abs, Inlineable \cup {"css"})
  BY DEF HasType, TypesAmong
<1>7. AtHand(abs, entry)
  <2>1. entry \in EntryOfHref(abs)
    BY <1>5
  <2> HIDE DEF abs, entry
  <2>2. AtHand(abs, entry) \/ Waits(abs, entry)
    BY <1>1, <1>4, <1>6, <2>1 DEF LoadedInv
  <2>3. QED
    BY <2>2 DEF Waits
<1>8. abs \in DOMAIN uri_map /\ data.entry = entry
  BY <1>7 DEF AtHand
<1> DEFINE behind == m.tag \in {"link", "a"} /\ m.ref.frag
<1>9. RewrittenAs(m) = [how |-> "data", data |-> {data}, frag |-> behind]
  BY <1>2, <1>5, <1>8 DEF RewrittenAs
<1> HIDE DEF m, data, entry, behind
<1>10. CASE m.tag = "link" /\ ~behind /\ data.type = "css" /\ data.nested = << >>
  <2>1. Promoted(m, RewrittenAs(m)) = [Kept EXCEPT !.how = "dropped"]
    BY <1>9, <1>10 DEF Promoted
  <2>0. Promoted(m, RewrittenAs(m)).how = "dropped"
    BY <2>1 DEF Kept
  <2>2. data.nested = [k \in DOMAIN Tokens(entry) |-> data.nested[k]]
    BY <1>8, <1>10 DEF WrittenInv, data
  <2>3. DOMAIN Tokens(entry) = {}
    BY <1>10, <2>2
  <2>4. Tokens(entry) \in Seq(Range(Tokens(entry)))
    BY <1>3, <1>5, PublicationsAssumption DEF Tokens
  <2>5. Tokens(entry) = << >>
    BY <2>3, <2>4
  <2>6. QED
    BY <2>0, <2>5 DEF m, entry
<1>11. CASE ~(m.tag = "link" /\ ~behind /\ data.type = "css" /\ data.nested = << >>)
  <2>1. Promoted(m, RewrittenAs(m)).data = {data}
    BY <1>9, <1>11 DEF Promoted
  <2>2. {d.entry : d \in {data}} = {entry}
    BY <1>8
  <2>3. QED
    BY <2>1, <2>2 DEF m, entry
<1>12. QED
  BY <1>10, <1>11

\* The chapter is written with all it refers to.
LEMMA RewriteServes ==
    ASSUME ClosureInv, Rewrite
    PROVE  ClosureInv'
<1>1. /\ WorkInv /\ SourcesInv /\ LoadedInv /\ WrittenInv /\ TablesInv
      /\ packaging = "materialise" /\ packaging' = "done" /\ DOMAIN css_sources = {}
      /\ NoInput /\ UNCHANGED <<pending, seen, uri_map, css_sources>>
      /\ html' = [i \in DOMAIN chapter |->
                    IF options.malformed /\ ~options.inject_cfi THEN Kept
                    ELSE Promoted(chapter[i], RewrittenAs(chapter[i]))]
      /\ UNCHANGED <<publication, chapter, chapter_path, options>>
  BY DEF ClosureInv, Rewrite, NoInput
<1>2. WorkInv' /\ TablesInv'
  BY <1>1 DEF WorkInv, TablesInv
<1>3. SourcesInv' /\ LoadedInv' /\ WrittenInv'
  BY <1>1, TablesStay DEF Due
<1>6. LinksPromoted'
  <2>1. SUFFICES ASSUME NEW i \in DOMAIN chapter, chapter[i].tag = "link",
                        NEW d \in html'[i].data, d.type = "css"
                 PROVE  html'[i].how = "data" <=> chapter[i].ref.frag
    BY <1>1 DEF LinksPromoted
  <2>2. ~(options.malformed /\ ~options.inject_cfi)
    BY <1>1, <2>1 DEF Kept
  <2> DEFINE r == RewrittenAs(chapter[i])
             h == html'[i]
  <2>3. h = Promoted(chapter[i], r)
    BY <1>1, <2>2
  <2>4. \/ r = Kept
        \/ r.how = "data" /\ (r.frag <=> chapter[i].ref.frag)
    BY <2>1 DEF RewrittenAs
  <2> HIDE DEF r, h
  <2>5. d \in h.data
    BY <2>1 DEF h
  <2>6. CASE r.frag
    <3>1. h = r
      BY <2>3, <2>6 DEF Promoted
    <3>2. r # Kept
      BY <2>6 DEF Kept
    <3>3. QED
      BY <2>4, <2>6, <3>1, <3>2 DEF h
  <2>7. CASE ~r.frag
    <3>1. CASE \E e \in r.data : e.type = "css"
      <4>1. ~\E e \in r.data : e.nested = << >>
        BY <2>1, <2>3, <2>5, <2>7, <3>1 DEF Promoted, Kept
      <4>2. h = [r EXCEPT !.how = "style"]
        BY <2>1, <2>3, <2>7, <3>1, <4>1 DEF Promoted
      <4>3. r # Kept
        BY <3>1 DEF Kept
      <4>4. h.how = "style"
        BY <4>2, <4>3 DEF r, RewrittenAs
      <4>5. QED
        BY <2>4, <2>7, <4>3, <4>4 DEF h
    <3>2. CASE ~\E e \in r.data : e.type = "css"
      <4>1. h = r
        BY <2>3, <3>2 DEF Promoted
      <4>2. QED
        BY <2>1, <2>5, <3>2, <4>1
    <3>3. QED
      BY <3>1, <3>2
  <2>8. QED
    BY <2>6, <2>7
<1>7. ReferencesBecomeData'
  <2> DEFINE dir == ParentDir(chapter_path)
  <2>1. /\ \A d, ref : Named(d, ref)' = Named(d, ref) /\ IsPlain(d, ref)' = IsPlain(d, ref)
        /\ \A d, ref, types : HasType(d, ref, types)' = HasType(d, ref, types)
        /\ \A e : IsBig(e)' = IsBig(e) /\ Tokens(e)' = Tokens(e)
        /\ (Inlineable \cup {"css"})' = Inlineable \cup {"css"}
    BY <1>1 DEF Named, IsPlain, HasType, DeclaredTypes, MatchingItems, IsBig, Tokens, Inlineable
  <2>2. ASSUME ~(options.malformed /\ ~options.inject_cfi),
               NEW i \in DOMAIN chapter,
               chapter[i].tag \in {"img", "srcset", "link", "style"},
               IsPlain(dir, chapter[i].ref), ~IsBig(Named(dir, chapter[i].ref)),
               HasType(dir, chapter[i].ref, Inlineable \cup {"css"})
        PROVE  \/ html'[i].how = "dropped" /\ Tokens(Named(dir, chapter[i].ref)) = << >>
               \/ {d.entry : d \in html'[i].data} = {Named(dir, chapter[i].ref)}
    <3>1. html'[i] = Promoted(chapter[i], RewrittenAs(chapter[i]))
      BY <1>1, <2>2
    <3>2. QED
      BY <1>1, <2>2, <3>1, PieceServed
  <2>3. QED
    BY <1>1, <2>1, <2>2 DEF ReferencesBecomeData
<1>8. QED
  BY <1>2, <1>3, <1>6, <1>7 DEF ClosureInv

\* What a chapter refers to is put on the stack.
LEMMA CollectServes ==
    ASSUME ClosureInv, CollectRefs
    PROVE  ClosureInv'
<1> DEFINE dir == ParentDir(chapter_path)
           places == {i \in DOMAIN chapter : IsFound(chapter[i])}
<1>1. /\ WorkInv /\ SourcesInv /\ LoadedInv /\ WrittenInv /\ TablesInv
      /\ packaging' = "collect"
      /\ pending' = RefsAt(dir, chapter, places)
      /\ NoInput /\ UNCHANGED <<seen, uri_map, css_sources, html>>
      /\ UNCHANGED <<publication, chapter, chapter_path, options>>
  BY DEF ClosureInv, CollectRefs, NoInput
<1>2. chapter \in Seq(Range(chapter)) /\ pending = << >> /\ packaging = "idle"
  BY ChaptersAssumption DEF ClosureInv, WorkInv, CollectRefs
<1>3. pending' \in Seq(Range(pending')) /\ Range(pending') = NamedAt(dir, chapter, places)
  <2> HIDE DEF dir, places
  <2>1. QED
    BY <1>1, <1>2, GatheredRefs
<1>4. Due \subseteq Due'
  BY <1>1, <1>2 DEF Due, Range
<1>5. SourcesInv' /\ LoadedInv' /\ WrittenInv' /\ TablesInv'
  BY <1>1, <1>4, TablesStay DEF TablesInv
<1>6. WorkInv'
  <2>1. \A i \in DOMAIN chapter :
           IsFound(chapter[i]) => NormalizePath(dir, chapter[i].ref.path) \in Due'
    BY <1>3 DEF NamedAt, Due
  <2>2. QED
    BY <1>1, <1>3, <2>1 DEF WorkInv
<1>7. QED
  BY <1>1, <1>5, <1>6 DEF ClosureInv, ReferencesBecomeData, LinksPromoted

\* The steps that look at nothing keep everything due.
LEMMA OthersServe ==
    ASSUME ClosureInv,
           PackagingFails \/ LeaveResources \/ SkipSeen \/ AllLoaded \/ UNCHANGED packaging_vars
    PROVE  ClosureInv'
<1>1. /\ WorkInv /\ SourcesInv /\ LoadedInv /\ WrittenInv /\ TablesInv
      /\ ReferencesBecomeData /\ LinksPromoted
      /\ NoInput /\ UNCHANGED <<seen, uri_map, css_sources>>
      /\ UNCHANGED <<publication, chapter, chapter_path, options>>
  BY DEF ClosureInv, PackagingFails, LeaveResources, SkipSeen, AllLoaded, packaging_vars, NoInput
<1>2. Due' = Due /\ pending' \in Seq(Range(pending'))
  <2>1. CASE SkipSeen
    <3>1. Last(pending) \in seen /\ pending' = Front(pending) /\ pending # << >>
      BY <2>1 DEF SkipSeen
    <3>2. QED
      BY <1>1, <3>1, FrontAndLast DEF Due, WorkInv
  <2>2. CASE UNCHANGED pending
    BY <1>1, <2>2 DEF Due, WorkInv
  <2>3. QED
    BY <2>1, <2>2 DEF PackagingFails, LeaveResources, AllLoaded, packaging_vars
<1>3. SourcesInv' /\ LoadedInv' /\ WrittenInv' /\ TablesInv'
  BY <1>1, <1>2, TablesStay DEF TablesInv
<1>4. WorkInv'
  BY <1>1, <1>2 DEF WorkInv, PackagingFails, LeaveResources, SkipSeen, AllLoaded, packaging_vars
<1>5. CASE PackagingFails \/ SkipSeen \/ AllLoaded
  <2>1. packaging' # "done"
    BY <1>5 DEF PackagingFails, SkipSeen, AllLoaded
  <2>2. QED
    BY <1>3, <1>4, <2>1 DEF ClosureInv, ReferencesBecomeData, LinksPromoted
<1>6. CASE LeaveResources
  <2>1. ~options.inline_resources /\ html' = [i \in DOMAIN chapter |-> Kept]
    BY <1>6 DEF LeaveResources
  <2>2. QED
    BY <1>1, <1>3, <1>4, <2>1 DEF ClosureInv, ReferencesBecomeData, LinksPromoted, Kept
<1>7. CASE UNCHANGED packaging_vars
  <2>1. LinksPromoted' /\ ReferencesBecomeData'
    BY <1>1, <1>7 DEF LinksPromoted, ReferencesBecomeData, packaging_vars,
       Named, IsPlain, HasType, DeclaredTypes, MatchingItems, IsBig, Tokens, Inlineable
  <2>2. QED
    BY <1>3, <1>4, <2>1 DEF ClosureInv
<1>8. QED
  BY <1>5, <1>6, <1>7

LEMMA ClosureInit == PackagingInit => ClosureInv
<1> SUFFICES ASSUME PackagingInit PROVE ClosureInv
  OBVIOUS
<1>1. /\ publication \in Publications /\ chapter \in Chapters
      /\ packaging = "idle" /\ pending = << >> /\ seen = {}
      /\ DOMAIN uri_map = {} /\ DOMAIN css_sources = {}
  BY DEF PackagingInit
<1>2. << >> \in Seq(Range(<< >>))
  OBVIOUS
<1>3. QED
  BY <1>1, <1>2 DEF ClosureInv, WorkInv, SourcesInv, LoadedInv, WrittenInv, TablesInv,
     ReferencesBecomeData, LinksPromoted

\* The inductive invariant of a packaging.
LEMMA ClosureHolds == PackagingSpec => []ClosureInv
<1>1. ClosureInv /\ [PackagingNext]_packaging_vars => ClosureInv'
  BY CollectServes, LoadServes, MaterialiseServes, RewriteServes, OthersServe DEF PackagingNext
<1>2. QED
  BY ClosureInit, <1>1, PTL DEF PackagingSpec

\* A chapter packaged as data has every reference to a file that can be inlined
\* replaced by that file and no other, however long the chain of stylesheets and
\* whatever refers to what (prepare_chapter_html_with_stats, collect_local_refs,
\* push_normalized_ref).
THEOREM ReferencesServed == PackagingSpec => []ReferencesBecomeData
<1>1. ClosureInv => ReferencesBecomeData
  BY DEF ClosureInv
<1>2. QED
  BY ClosureHolds, <1>1, PTL

\* Every stylesheet written out has in it the images and fonts it names that are
\* in the archive and not too large (not always the stylesheets it imports), and
\* of the links to a stylesheet that became data only those with a fragment stay
\* links (prepare_chapter_html_with_stats, promote_data_stylesheet_links).
THEOREM StylesServed == PackagingSpec => []StylesheetsPackaged
<1>1. ClosureInv => StylesheetsPackaged
  <2>1. SUFFICES ASSUME WrittenInv PROVE StylesheetsBecomeData
    BY DEF ClosureInv, StylesheetsPackaged
  <2>2. QED
    BY <2>1 DEF WrittenInv, TokenServed, StylesheetsBecomeData
<1>2. QED
  BY ClosureHolds, <1>1, PTL

-----------------------------------------------------------------------------
(***************************************************************************)
(* The rewriter of a stream.                                                *)
(***************************************************************************)

KeyByte == Nat \cup {Plain}
Byte == [pos : Nat, key : KeyByte]

\* The bytes of a stream before offset n, each with its own key byte.
Upto(n) ==
    [i \in 1..n |->
        [pos |-> i - 1,
         key |-> IF i <= ObfuscationLength THEN (i - 1) % KeyLength ELSE Plain]]

StreamType ==
    /\ source_length \in Nat
    /\ current_offset \in 0..source_length
    /\ streaming \in {"idle", "loop", "write", "end", "ok", "error"}
    /\ held \in Seq(Byte) /\ output \in Seq(Byte)
    /\ faults \in Seq({"read", "rewriter", "sink"})

\* What the rewriter was handed is the stream up to the offset reached.
ReceivedInv == received = Upto(current_offset)

\* Until the sink fails, what it took and what is held make up what was read.
OutputInv == write_error = {} => output \o held = received

\* The slot is filled when and only when the sink has failed.
FaultInv ==
    /\ write_error # {} <=> "sink" \in Range(faults)
    /\ streaming = "error" => faults # << >>

EndInv ==
    /\ streaming \in {"end", "ok"} => current_offset = source_length
    /\ streaming = "ok" => write_error = {} /\ held = << >>

StreamInv == StreamType /\ ReceivedInv /\ OutputInv /\ FaultInv /\ EndInv

-----------------------------------------------------------------------------
\* Sequences of the same length with the same elements are the same.
LEMMA SameSequence ==
    ASSUME NEW S, NEW s \in Seq(S), NEW t \in Seq(S), Len(s) = Len(t),
           \A i \in 1..Len(s) : s[i] = t[i]
    PROVE  s = t
OBVIOUS

\* A key byte is of the set whatever the position.
LEMMA UptoType ==
    ASSUME NEW n \in Nat
    PROVE  Upto(n) \in Seq(Byte) /\ Len(Upto(n)) = n
<1>1. ASSUME NEW i \in 1..n
      PROVE  [pos |-> i - 1,
              key |-> IF i <= ObfuscationLength THEN (i - 1) % KeyLength ELSE Plain] \in Byte
  <2>1. i - 1 \in Nat /\ (i - 1) % KeyLength \in Nat
    BY KeyAssumption
  <2>2. QED
    BY <2>1 DEF Byte, KeyByte
<1>2. QED
  BY <1>1 DEF Upto

\* Each read goes on where the one before stopped, and so does the key.
LEMMA ReadGoesOn ==
    ASSUME NEW offset \in Nat, NEW n \in Nat
    PROVE  /\ Deobfuscated(offset, n) \in Seq(Byte)
           /\ Upto(offset) \o Deobfuscated(offset, n) = Upto(offset + n)
<1> DEFINE d == Deobfuscated(offset, n)
<1>1. ASSUME NEW i \in 1..n
      PROVE  /\ d[i] = [pos |-> offset + i - 1,
                        key |-> IF offset + i <= ObfuscationLength
                                THEN (offset + i - 1) % KeyLength ELSE Plain]
             /\ d[i] \in Byte
  <2>1. offset + i - 1 \in Nat /\ (offset + i - 1) % KeyLength \in Nat
    BY KeyAssumption
  <2>2. offset + i - 1 < ObfuscationLength <=> offset + i <= ObfuscationLength
    BY KeyAssumption
  <2>3. d[i] = [pos |-> offset + i - 1,
                key |-> IF offset + i - 1 < ObfuscationLength
                        THEN (offset + i - 1) % KeyLength ELSE Plain]
    BY DEF Deobfuscated
  <2>4. QED
    BY <2>1, <2>2, <2>3 DEF Byte, KeyByte
<1>2. d \in Seq(Byte) /\ Len(d) = n
  <2>1. DOMAIN d = 1..n /\ d = [i \in 1..n |-> d[i]]
    BY DEF Deobfuscated
  <2> HIDE DEF d
  <2>2. d \in [1..n -> Byte]
    BY <1>1, <2>1
  <2>3. QED
    BY <2>2
<1>3. Upto(offset) \in Seq(Byte) /\ Len(Upto(offset)) = offset
  BY UptoType
<1>4. Upto(offset + n) \in Seq(Byte) /\ Len(Upto(offset + n)) = offset + n
  BY UptoType
<1>5. ASSUME NEW i \in 1..(offset + n)
      PROVE  (Upto(offset) \o d)[i] = Upto(offset + n)[i]
  <2> DEFINE u == Upto(offset)
  <2>1. CASE i <= offset
    <3>1. (u \o d)[i] = u[i]
      <4> HIDE DEF u, d
      <4>1. u \in Seq(Byte) /\ Len(u) = offset
        BY <1>3 DEF u
      <4>2. QED
        BY <1>2, <2>1, <4>1
    <3>2. i \in 1..offset
      BY <2>1
    <3>3. QED
      BY <3>1, <3>2 DEF Upto
  <2>2. CASE ~(i <= offset)
    <3>1. i - offset \in 1..n /\ offset + (i - offset) = i
      BY <2>2
    <3>2. (u \o d)[i] = d[i - offset]
      <4> HIDE DEF u, d
      <4>1. u \in Seq(Byte) /\ Len(u) = offset
        BY <1>3 DEF u
      <4>2. QED
        BY <1>2, <2>2, <4>1
    <3>3. d[i - offset] = Upto(offset + n)[i]
      <4> HIDE DEF d
      <4>1. QED
        BY <1>1, <3>1 DEF Upto
    <3>4. QED
      BY <3>2, <3>3
  <2>3. QED
    BY <2>1, <2>2
<1> HIDE DEF d
<1>6. Upto(offset) \o d \in Seq(Byte) /\ Len(Upto(offset) \o d) = offset + n
  BY <1>2, <1>3
<1>7. Upto(offset) \o d = Upto(offset + n)
  <2> DEFINE x == Upto(offset) \o d
             y == Upto(offset + n)
  <2>1. x \in Seq(Byte) /\ y \in Seq(Byte) /\ Len(x) = offset + n /\ Len(x) = Len(y)
    BY <1>4, <1>6
  <2>2. \A i \in 1..(offset + n) : x[i] = y[i]
    BY <1>5
  <2> HIDE DEF x, y
  <2>3. x = y
    BY <2>1, <2>2, SameSequence
  <2>4. QED
    BY <2>3 DEF x, y
<1>8. QED
  BY <1>2, <1>7 DEF d

\* A fault added is a fault there.
LEMMA FaultAdded ==
    ASSUME NEW S, NEW s \in Seq(S), NEW e \in S
    PROVE  /\ Append(s, e) \in Seq(S)
           /\ Append(s, e) # << >>
           /\ Range(Append(s, e)) = Range(s) \cup {e}
<1> DEFINE t == Append(s, e)
<1>1. t \in Seq(S) /\ Len(t) = Len(s) + 1 /\ t[Len(s) + 1] = e
      /\ \A i \in 1..Len(s) : t[i] = s[i]
  OBVIOUS
<1>2. DOMAIN t = 1..(Len(s) + 1) /\ DOMAIN s = 1..Len(s)
  BY <1>1
<1> HIDE DEF t
<1>3. Range(t) = Range(s) \cup {e}
  <2>1. Range(t) = {t[i] : i \in 1..(Len(s) + 1)} /\ Range(s) = {s[i] : i \in 1..Len(s)}
    BY <1>2 DEF Range
  <2>2. 1..(Len(s) + 1) = (1..Len(s)) \cup {Len(s) + 1}
    OBVIOUS
  <2>3. QED
    BY <1>1, <2>1, <2>2
<1>4. t # << >>
  BY <1>1
<1>5. QED
  BY <1>1, <1>3, <1>4 DEF t

\* The pieces of a sequence cut in two.
LEMMA CutInTwo ==
    ASSUME NEW S, NEW s \in Seq(S), NEW k \in 0..Len(s)
    PROVE  /\ SubSeq(s, 1, k) \in Seq(S) /\ Len(SubSeq(s, 1, k)) = k
           /\ SubSeq(s, k + 1, Len(s)) \in Seq(S)
           /\ SubSeq(s, 1, k) \o SubSeq(s, k + 1, Len(s)) = s
<1> DEFINE a == SubSeq(s, 1, k)
           b == SubSeq(s, k + 1, Len(s))
<1>1. a \in Seq(S) /\ Len(a) = k /\ \A i \in 1..k : a[i] = s[i]
  OBVIOUS
<1>2. b \in Seq(S) /\ Len(b) = Len(s) - k /\ \A i \in 1..(Len(s) - k) : b[i] = s[k + i]
  OBVIOUS
<1> HIDE DEF a, b
<1>3. a \o b \in Seq(S) /\ Len(a \o b) = Len(s)
  <2>1. \A x, y \in Seq(S) : x \o y \in Seq(S) /\ Len(x \o y) = Len(x) + Len(y)
    OBVIOUS
  <2>2. a \o b \in Seq(S) /\ Len(a \o b) = Len(a) + Len(b)
    BY <1>1, <1>2, <2>1
  <2>3. k + (Len(s) - k) = Len(s)
    OBVIOUS
  <2>4. QED
    BY <1>1, <1>2, <2>2, <2>3
<1>4. ASSUME NEW i \in 1..Len(s)
      PROVE  (a \o b)[i] = s[i]
  <2>1. CASE i <= k
    BY <1>1, <1>2, <2>1
  <2>2. CASE ~(i <= k)
    <3>1. i - k \in 1..(Len(s) - k) /\ k + (i - k) = i
      BY <2>2
    <3>2. (a \o b)[i] = b[i - k]
      BY <1>1, <1>2, <2>2
    <3>3. QED
      BY <1>2, <3>1, <3>2
  <2>3. QED
    BY <2>1, <2>2
<1>5. a \o b = s
  <2> DEFINE r == a \o b
  <2>1. r \in Seq(S) /\ Len(r) = Len(s) /\ \A i \in 1..Len(s) : r[i] = s[i]
    BY <1>3, <1>4
  <2> HIDE DEF r
  <2>2. r = s
    BY <2>1
  <2>3. QED
    BY <2>2 DEF r
<1>6. QED
  BY <1>1, <1>2, <1>5 DEF a, b

\* Concatenation is associative.
LEMMA Regroup ==
    ASSUME NEW S, NEW s \in Seq(S), NEW t \in Seq(S), NEW u \in Seq(S)
    PROVE  (s \o t) \o u = s \o (t \o u)
<1>1. (s \o t) \o u \in Seq(S) /\ Len((s \o t) \o u) = Len(s) + Len(t) + Len(u)
  OBVIOUS
<1>2. s \o (t \o u) \in Seq(S) /\ Len(s \o (t \o u)) = Len(s) + Len(t) + Len(u)
  OBVIOUS
<1>3. ASSUME NEW i \in 1..(Len(s) + Len(t) + Len(u))
      PROVE  ((s \o t) \o u)[i] = (s \o (t \o u))[i]
  OBVIOUS
<1>4. QED
  BY <1>1, <1>2, <1>3

LEMMA RegroupBytes ==
    \A s, t, u \in Seq(Byte) : (s \o t) \o u = s \o (t \o u)
<1> TAKE s, t, u \in Seq(Byte)
<1> QED
  BY Regroup

\* What precedes in a concatenation is a prefix of it.
LEMMA FirstIsPrefix ==
    ASSUME NEW S, NEW s \in Seq(S), NEW t \in Seq(S)
    PROVE  IsPrefix(s, s \o t)
<1>1. s \o t \in Seq(S) /\ Len(s \o t) = Len(s) + Len(t)
  OBVIOUS
<1>2. \A i \in 1..Len(s) : (s \o t)[i] = s[i]
  OBVIOUS
<1>3. SubSeq(s, 1, Len(s)) = s
  OBVIOUS
<1> DEFINE r == s \o t
<1> HIDE DEF r
<1>4. r \in Seq(S) /\ Len(s) <= Len(r) /\ \A i \in 1..Len(s) : r[i] = s[i]
  BY <1>1, <1>2 DEF r
<1>5. SubSeq(r, 1, Len(s)) = s
  <2>1. SubSeq(r, 1, Len(s)) \in Seq(S) /\ Len(SubSeq(r, 1, Len(s))) = Len(s)
    BY <1>4
  <2>2. \A i \in 1..Len(s) : SubSeq(r, 1, Len(s))[i] = s[i]
    BY <1>4
  <2>3. QED
    BY <2>1, <2>2
<1>6. QED
  BY <1>3, <1>4, <1>5 DEF r, IsPrefix

-----------------------------------------------------------------------------
LEMMA StreamStarts == StreamInit => StreamInv
<1> SUFFICES ASSUME StreamInit PROVE StreamInv
  OBVIOUS
<1> USE DEF StreamInit
<1>1. StreamType
  BY SourceLengthsAssumption DEF StreamType
<1>2. ReceivedInv
  <2>1. Upto(0) \in Seq(Byte) /\ Len(Upto(0)) = 0
    BY UptoType
  <2>2. QED
    BY <2>1 DEF ReceivedInv
<1>3. OutputInv
  BY DEF OutputInv
<1>4. FaultInv
  BY DEF FaultInv, Range
<1>5. QED
  BY <1>1, <1>2, <1>3, <1>4 DEF StreamInv, EndInv

\* The next bytes go to the rewriter.
LEMMA ReadChunkKeeps ==
    ASSUME StreamInv, ReadChunk
    PROVE  StreamInv'
<1> USE DEF StreamInv
<1>1. PICK n \in 1..BufferLength :
        /\ current_offset + n <= source_length
        /\ received' = received \o Deobfuscated(current_offset, n)
        /\ held' = held \o Deobfuscated(current_offset, n)
        /\ current_offset' = current_offset + n
  BY DEF ReadChunk
<1>2. n \in Nat /\ current_offset \in Nat
  BY <1>1 DEF StreamType
<1> DEFINE d == Deobfuscated(current_offset, n)
<1>3. d \in Seq(Byte) /\ Upto(current_offset) \o d = Upto(current_offset + n)
  BY <1>2, ReadGoesOn
<1> HIDE DEF d
<1>4. StreamType'
  <2>1. held' \in Seq(Byte)
    BY <1>1, <1>3 DEF StreamType, d
  <2>2. QED
    BY <1>1, <1>2, <2>1 DEF StreamType, ReadChunk
<1>5. ReceivedInv'
  BY <1>1, <1>3 DEF ReceivedInv, d
<1>6. OutputInv'
  <2>1. (output \o held) \o d = output \o (held \o d)
    <3>1. output \in Seq(Byte) /\ held \in Seq(Byte)
      BY DEF StreamType
    <3>2. QED
      BY <1>3, <3>1, RegroupBytes, Zenon
  <2>2. QED
    BY <1>1, <2>1 DEF OutputInv, ReadChunk, d
<1>7. FaultInv'
  BY DEF FaultInv, ReadChunk
<1>8. EndInv'
  BY DEF EndInv, ReadChunk
<1>9. QED
  BY <1>4, <1>5, <1>6, <1>7, <1>8

\* A piece is put out, whole or in part.
LEMMA PutOutKeeps ==
    ASSUME StreamInv, PutOut
    PROVE  StreamInv'
<1> USE DEF StreamInv
<1>1. PICK k \in 1..Len(held) : Put(k)
  BY DEF PutOut
<1>2. held \in Seq(Byte) /\ output \in Seq(Byte) /\ k \in 0..Len(held)
  BY <1>1 DEF StreamType
<1> DEFINE rest == SubSeq(held, k + 1, Len(held))
<1>3. /\ SubSeq(held, 1, k) \in Seq(Byte) /\ rest \in Seq(Byte)
      /\ SubSeq(held, 1, k) \o rest = held
  BY <1>2, CutInTwo
<1> HIDE DEF rest
<1>4. held' = rest
  BY <1>1 DEF Put, rest
<1>5. UNCHANGED <<source_length, current_offset, streaming, received>>
  BY DEF PutOut
<1>6. ReceivedInv'
  BY <1>5 DEF ReceivedInv
<1>7. CASE output' = output \o SubSeq(held, 1, k) /\ UNCHANGED <<write_error, faults>>
  <2>1. StreamType'
    BY <1>2, <1>3, <1>4, <1>5, <1>7 DEF StreamType
  <2>2. OutputInv'
    <3>1. (output \o SubSeq(held, 1, k)) \o rest = output \o (SubSeq(held, 1, k) \o rest)
      BY <1>2, <1>3, RegroupBytes, Zenon
    <3>2. QED
      BY <1>3, <1>4, <1>5, <1>7, <3>1 DEF OutputInv
  <2>3. FaultInv' /\ EndInv'
    BY <1>5, <1>7 DEF FaultInv, EndInv, PutOut
  <2>4. QED
    BY <1>6, <2>1, <2>2, <2>3
<1>8. CASE /\ \E n \in 0..(k - 1) : output' = output \o SubSeq(held, 1, n)
           /\ write_error' = {Len(faults)}
           /\ faults' = Append(faults, "sink")
  <2>1. output' \in Seq(Byte)
    <3>1. PICK n \in 0..(k - 1) : output' = output \o SubSeq(held, 1, n)
      BY <1>8
    <3>2. n \in 0..Len(held)
      BY <1>2
    <3>3. SubSeq(held, 1, n) \in Seq(Byte)
      BY <1>2, <3>2, CutInTwo
    <3>4. QED
      BY <1>2, <3>1, <3>3
  <2>2. /\ faults' \in Seq({"read", "rewriter", "sink"})
        /\ "sink" \in Range(faults') /\ faults' # << >>
    <3>1. faults \in Seq({"read", "rewriter", "sink"})
      BY DEF StreamType
    <3>2. /\ Append(faults, "sink") \in Seq({"read", "rewriter", "sink"})
          /\ Append(faults, "sink") # << >>
          /\ Range(Append(faults, "sink")) = Range(faults) \cup {"sink"}
      BY <3>1, FaultAdded
    <3>3. QED
      BY <1>8, <3>2
  <2>3. StreamType'
    BY <1>3, <1>4, <1>5, <2>1, <2>2 DEF StreamType
  <2>4. OutputInv' /\ FaultInv' /\ EndInv'
    BY <1>5, <1>8, <2>2 DEF OutputInv, FaultInv, EndInv, PutOut
  <2>5. QED
    BY <1>6, <2>3, <2>4
<1>9. QED
  BY <1>1, <1>7, <1>8 DEF Put

\* The source or the rewriter gives up.
LEMMA FailuresKeep ==
    ASSUME StreamInv, ReadFails \/ RewriterFails
    PROVE  StreamInv'
<1> USE DEF StreamInv
<1>1. PICK what \in {"read", "rewriter"} : faults' = Append(faults, what)
  BY DEF ReadFails, RewriterFails
<1>2. /\ faults' \in Seq({"read", "rewriter", "sink"}) /\ faults' # << >>
      /\ Range(faults') = Range(faults) \cup {what}
  <2>1. faults \in Seq({"read", "rewriter", "sink"}) /\ what \in {"read", "rewriter", "sink"}
    BY DEF StreamType
  <2>2. QED
    BY <1>1, <2>1, FaultAdded
<1>3. /\ streaming' = "error"
      /\ UNCHANGED <<source_length, current_offset, received, held, output, write_error>>
  BY DEF ReadFails, RewriterFails
<1>4. StreamType'
  BY <1>2, <1>3 DEF StreamType
<1>5. ReceivedInv' /\ OutputInv'
  BY <1>3 DEF ReceivedInv, OutputInv
<1>6. FaultInv' /\ EndInv'
  <2>1. "sink" \in Range(faults') <=> "sink" \in Range(faults)
    BY <1>2
  <2>2. QED
    BY <1>2, <1>3, <2>1 DEF FaultInv, EndInv
<1>7. QED
  BY <1>4, <1>5, <1>6

\* The loop goes round, sees the sink's failure or ends.
LEMMA ControlKeeps ==
    ASSUME StreamInv,
           StartStream \/ WriteReturns \/ EndOfSource \/ SinkErrorSeen \/ EndReturns
    PROVE  StreamInv'
<1> USE DEF StreamInv, StartStream, WriteReturns, EndOfSource, SinkErrorSeen, EndReturns
<1>1. UNCHANGED <<source_length, current_offset, received, held, output, write_error, faults>>
  OBVIOUS
<1>2. StreamType'
  BY <1>1 DEF StreamType
<1>3. ReceivedInv' /\ OutputInv'
  BY <1>1 DEF ReceivedInv, OutputInv
<1>4. write_error # {} => faults # << >>
  BY DEF FaultInv, Range
<1>5. FaultInv' /\ EndInv'
  BY <1>1, <1>4 DEF FaultInv, EndInv
<1>6. QED
  BY <1>2, <1>3, <1>5

\* The inductive invariant of rewrite_links_stream over DeobfuscatingReader:
\* what was read is the stream so far with its own key bytes, and until the
\* sink fails nothing of it is lost between rewriter and sink.
THEOREM StreamInvariant == StreamSpec => []StreamInv
<1>1. StreamInit => StreamInv
  BY StreamStarts
<1>2. StreamInv /\ [StreamNext]_stream_vars => StreamInv'
  <2> SUFFICES ASSUME StreamInv, [StreamNext]_stream_vars
               PROVE  StreamInv'
    OBVIOUS
  <2>1. CASE ReadChunk
    BY <2>1, ReadChunkKeeps
  <2>2. CASE PutOut
    BY <2>2, PutOutKeeps
  <2>3. CASE ReadFails \/ RewriterFails
    BY <2>3, FailuresKeep
  <2>4. CASE StartStream \/ WriteReturns \/ EndOfSource \/ SinkErrorSeen \/ EndReturns
    BY <2>4, ControlKeeps
  <2>5. CASE UNCHANGED stream_vars
    BY <2>5 DEF stream_vars, StreamInv, StreamType, ReceivedInv, OutputInv, FaultInv, EndInv
  <2>6. QED
    BY <2>1, <2>2, <2>3, <2>4, <2>5 DEF StreamNext
<1>3. QED
  BY <1>1, <1>2, PTL DEF StreamSpec

\* A call that reports success has put out every byte once, in order, with the
\* key byte of its own position (rewrite_links_stream, DeobfuscatingReader::read).
THEOREM SuccessComplete == StreamSpec => []SuccessIsComplete
<1>1. StreamInv => SuccessIsComplete
  <2> SUFFICES ASSUME StreamInv, streaming = "ok"
               PROVE  output = Upto(source_length)
    BY DEF SuccessIsComplete, Upto
  <2>1. output \in Seq(Byte) /\ held = << >> /\ output \o held = Upto(source_length)
    BY DEF StreamInv, StreamType, OutputInv, ReceivedInv, EndInv
  <2>2. output \o << >> = output
    BY <2>1
  <2>3. QED
    BY <2>1, <2>2
<1>2. QED
  BY <1>1, StreamInvariant, PTL

\* A failing call failed for a reason, and until the sink fails it has a prefix
\* of what was read (the early break and the three uses of `?`).
THEOREM FailureCaused == StreamSpec => []FailureHasACause
<1>1. StreamInv => FailureHasACause
  <2> SUFFICES ASSUME StreamInv PROVE FailureHasACause
    OBVIOUS
  <2>1. streaming = "error" => faults # << >>
    BY DEF StreamInv, FaultInv
  <2>2. "sink" \notin Range(faults) => IsPrefix(output, received)
    <3> SUFFICES ASSUME "sink" \notin Range(faults) PROVE IsPrefix(output, received)
      OBVIOUS
    <3>1. output \o held = received /\ output \in Seq(Byte) /\ held \in Seq(Byte)
      BY DEF StreamInv, StreamType, OutputInv, FaultInv
    <3>2. IsPrefix(output, output \o held)
      BY <3>1, FirstIsPrefix
    <3>3. QED
      BY <3>1, <3>2
  <2>3. QED
    BY <2>1, <2>2 DEF FailureHasACause
<1>2. QED
  BY <1>1, StreamInvariant, PTL

-----------------------------------------------------------------------------
(***************************************************************************)
(* The search of a book.                                                    *)
(***************************************************************************)

Hit == [spine_index : Nat, nth : Nat]

\* The hits of the n-th chapter, and all of them after n chapters.
HitsIn(n) ==
    LET item == readable.spine[n]
        count == IF item.loads /\ (item.linear \/ search_options.include_non_linear)
                 THEN Least(item.matches, MaxPer) ELSE 0
    IN [k \in 1..count |-> [spine_index |-> n - 1, nth |-> k]]
Parts == [n \in DOMAIN readable.spine |-> HitsIn(n)]
HitsAfter == CHOOSE f : IsRunning(f, Hit, Parts) /\ FlattenSeq(Parts) = f[Len(Parts)]

\* The first ones, up to the cap, of a sequence of hits.
IsCapped(some, all) ==
    /\ Len(some) = Least(MaxTotal, Len(all))
    /\ \A i \in 1..Len(some) : some[i] = all[i]

SearchInv ==
    /\ readable \in Readable /\ search_options \in SearchOptions
    /\ reading \in {"idle", "search", "found", "opened"}
    /\ spine_at \in 0..Len(readable.spine)
    /\ hits \in Seq(Hit)
    /\ IsCapped(hits, HitsAfter[spine_at])
    /\ reading = "found" /\ ~search_options.blank =>
          IsCapped(hits, HitsAfter[Len(readable.spine)])

-----------------------------------------------------------------------------
\* The caps are numbers.
LEMMA CapsAreNumbers ==
    ASSUME search_options \in SearchOptions
    PROVE  MaxPer \in Nat /\ MaxTotal \in Nat
BY SearchAssumption DEF MaxPer, MaxTotal

\* The lesser of two numbers.
LEMMA LeastOfTwo ==
    ASSUME NEW a \in Nat, NEW b \in Nat
    PROVE  /\ Least(a, b) \in Nat /\ Least(a, b) <= a /\ Least(a, b) <= b
           /\ Least(a, b) \in {a, b}
BY DEF Least

\* What all the hits are made of.
LEMMA PartsOfHits ==
    ASSUME readable \in Readable, search_options \in SearchOptions
    PROVE  /\ Parts \in Seq(Seq(Hit)) /\ Len(Parts) = Len(readable.spine)
           /\ Len(readable.spine) \in Nat
           /\ \A n \in 1..Len(readable.spine) : Parts[n] = HitsIn(n) /\ HitsIn(n) \in Seq(Hit)
<1> DEFINE spine == readable.spine
<1>1. /\ spine \in Seq(Range(spine))
      /\ \A item \in Range(spine) : item.matches \in Nat
  BY ReadableAssumption
<1>2. Len(spine) \in Nat /\ DOMAIN spine = 1..Len(spine)
  BY <1>1
<1>3. ASSUME NEW n \in 1..Len(spine) PROVE HitsIn(n) \in Seq(Hit)
  <2> DEFINE item == spine[n]
             count == IF item.loads /\ (item.linear \/ search_options.include_non_linear)
                      THEN Least(item.matches, MaxPer) ELSE 0
  <2>1. item.matches \in Nat
    BY <1>1, <1>2 DEF Range
  <2>2. count \in Nat
    BY <2>1, CapsAreNumbers, LeastOfTwo
  <2>3. HitsIn(n) = [k \in 1..count |-> [spine_index |-> n - 1, nth |-> k]]
    BY DEF HitsIn
  <2>4. \A k \in 1..count : [spine_index |-> n - 1, nth |-> k] \in Hit
    BY <1>2, <2>2 DEF Hit
  <2> HIDE DEF count
  <2>5. [k \in 1..count |-> [spine_index |-> n - 1, nth |-> k]] \in Seq(Hit)
    BY <2>2, <2>4
  <2>6. QED
    BY <2>3, <2>5
<1>4. Parts = [n \in 1..Len(spine) |-> HitsIn(n)]
  BY <1>2 DEF Parts
<1> HIDE DEF spine
<1>5. QED
  BY <1>2, <1>3, <1>4 DEF spine

\* The hits of one more chapter are added to those before.
LEMMA HitsAdded ==
    ASSUME readable \in Readable, search_options \in SearchOptions
    PROVE  /\ IsRunning(HitsAfter, Hit, Parts)
           /\ AllHits = HitsAfter[Len(readable.spine)]
           /\ HitsAfter \in [0..Len(readable.spine) -> Seq(Hit)]
           /\ HitsAfter[0] = << >>
           /\ \A n \in 1..Len(readable.spine) : HitsAfter[n] = HitsAfter[n - 1] \o HitsIn(n)
<1>1. /\ Parts \in Seq(Seq(Hit)) /\ Len(Parts) = Len(readable.spine)
      /\ \A n \in 1..Len(readable.spine) : Parts[n] = HitsIn(n)
  BY PartsOfHits
<1>2. IsRunning(HitsAfter, Hit, Parts) /\ FlattenSeq(Parts) = HitsAfter[Len(Parts)]
  <2>1. \E f : IsRunning(f, Hit, Parts) /\ FlattenSeq(Parts) = f[Len(Parts)]
    BY <1>1, Flattened
  <2>2. QED
    BY <2>1 DEF HitsAfter
<1>3. AllHits = FlattenSeq(Parts)
  BY DEF AllHits, Parts, HitsIn, Least
<1>4. QED
  BY <1>1, <1>2, <1>3 DEF IsRunning

\* What the later chapters add comes after.
LEMMA HitsGrow ==
    ASSUME readable \in Readable, search_options \in SearchOptions,
           NEW k \in 0..Len(readable.spine), NEW before, before = HitsAfter[k],
           NEW all, all = HitsAfter[Len(readable.spine)]
    PROVE  /\ before \in Seq(Hit) /\ all \in Seq(Hit)
           /\ Len(before) \in Nat /\ Len(all) \in Nat /\ Len(before) <= Len(all)
           /\ \A i \in 1..Len(before) : before[i] = all[i]
<1> DEFINE last == Len(Parts)
<1>1. /\ IsRunning(HitsAfter, Hit, Parts) /\ Parts \in Seq(Seq(Hit))
      /\ last = Len(readable.spine) /\ last \in Nat
  BY HitsAdded, PartsOfHits
<1>2. HitsAfter \in [0..last -> Seq(Hit)]
  BY <1>1, HitsAdded
<1>3. k \in 0..last /\ last \in 0..last
  BY <1>1
<1>4. Leads(HitsAfter[k], HitsAfter[last])
  BY <1>1, <1>3, RunningGrows
<1> HIDE DEF last
<1>5. before \in Seq(Hit) /\ all \in Seq(Hit)
  BY <1>1, <1>2, <1>3
<1>6. QED
  BY <1>1, <1>4, <1>5, LenProperties DEF Leads

-----------------------------------------------------------------------------
LEMMA SearchInit == ReadingInit => SearchInv
<1> SUFFICES ASSUME ReadingInit PROVE SearchInv
  OBVIOUS
<1>1. /\ readable \in Readable /\ search_options \in SearchOptions
      /\ reading = "idle" /\ spine_at = 0 /\ hits = << >>
  BY DEF ReadingInit
<1>2. HitsAfter[0] = << >> /\ Len(readable.spine) \in Nat
  BY <1>1, HitsAdded, PartsOfHits
<1>3. IsCapped(<< >>, << >>)
  BY <1>1, CapsAreNumbers DEF IsCapped, Least
<1>4. << >> \in Seq(Hit)
  OBVIOUS
<1>5. QED
  BY <1>1, <1>2, <1>3, <1>4 DEF SearchInv

\* What hangs on the book and the options alone does not change in a search.
LEMMA SearchInputStays ==
    ASSUME UNCHANGED <<readable, search_options>>
    PROVE  /\ HitsAfter' = HitsAfter
           /\ \A s, t : IsCapped(s, t)' = IsCapped(s, t)
<1>1. \A n : HitsIn(n)' = HitsIn(n)
  BY DEF HitsIn, MaxPer
<1>2. Parts' = Parts
  BY <1>1 DEF Parts
<1>3. HitsAfter' = HitsAfter
  BY <1>2 DEF HitsAfter, Hit
<1>4. \A s, t : IsCapped(s, t)' = IsCapped(s, t)
  BY DEF IsCapped, MaxTotal
<1>5. QED
  BY <1>3, <1>4

\* A chapter searched adds its hits, as many as the cap leaves room for.
LEMMA ChapterKeepsFirst ==
    ASSUME SearchInv, SearchChapter
    PROVE  SearchInv'
<1> DEFINE n == spine_at + 1
           item == readable.spine[n]
           before == HitsAfter[spine_at]
           after == HitsAfter[n]
           L == Len(hits)
<1>1. /\ readable \in Readable /\ search_options \in SearchOptions
      /\ reading = "search" /\ reading' = "search"
      /\ spine_at \in 0..Len(readable.spine) /\ spine_at < Len(readable.spine)
      /\ spine_at' = n
      /\ hits \in Seq(Hit) /\ IsCapped(hits, before)
      /\ UNCHANGED <<readable, search_options>>
      /\ Skips(item) \/ L < MaxTotal
      /\ hits' = IF Skips(item) \/ ~item.loads THEN hits
                 ELSE hits \o [k \in 1..Taken(item, L) |-> [spine_index |-> spine_at, nth |-> k]]
  BY DEF SearchInv, SearchChapter
<1>2. Len(readable.spine) \in Nat /\ n \in 1..Len(readable.spine) /\ n - 1 = spine_at
  BY <1>1, PartsOfHits
<1>3. /\ before \in Seq(Hit) /\ after = before \o HitsIn(n) /\ HitsIn(n) \in Seq(Hit)
  BY <1>1, <1>2, HitsAdded, PartsOfHits
<1>4. MaxTotal \in Nat /\ MaxPer \in Nat
  BY <1>1, CapsAreNumbers
<1>5. item.matches \in Nat
  <2>1. readable.spine \in Seq(Range(readable.spine))
    BY <1>1, ReadableAssumption
  <2>2. item \in Range(readable.spine)
    BY <1>2, <2>1 DEF Range
  <2>3. QED
    BY <1>1, <2>2, ReadableAssumption
<1> HIDE DEF before, after
<1>6. hits' \in Seq(Hit) /\ IsCapped(hits', after)
  <2>1. CASE Skips(item) \/ ~item.loads
    <3>1. HitsIn(n) = << >>
      <4>1. HitsIn(n) = [k \in 1..0 |-> [spine_index |-> n - 1, nth |-> k]]
        BY <2>1 DEF HitsIn, Skips
      <4>2. QED
        BY <4>1
    <3>2. after = before
      BY <1>3, <3>1, ConcatEmptySeq
    <3>3. QED
      BY <1>1, <2>1, <3>2
  <2>2. CASE ~(Skips(item) \/ ~item.loads)
    <3> DEFINE count == Least(item.matches, MaxPer)
               taken == Taken(item, L)
               Nth(c) == [k \in 1..c |-> [spine_index |-> spine_at, nth |-> k]]
    <3>1. L \in Nat /\ Len(before) \in Nat /\ L = Len(before) /\ L < MaxTotal
          /\ \A i \in 1..L : hits[i] = before[i]
      BY <1>1, <1>3, <1>4, <2>2 DEF IsCapped, Least
    <3>2. count \in Nat
      BY <1>4, <1>5, LeastOfTwo
    <3>3. taken = Least(count, MaxTotal - L) /\ taken \in Nat /\ taken <= count
      BY <1>4, <3>1, <3>2 DEF Taken, Least
    <3>4. HitsIn(n) = Nth(count)
      BY <1>2, <2>2 DEF HitsIn, Skips
    <3>5. hits' = hits \o Nth(taken)
      BY <1>1, <2>2
    <3>6. \A c \in Nat : /\ Nth(c) \in Seq(Hit) /\ Len(Nth(c)) = c
                         /\ \A k \in 1..c : Nth(c)[k] = [spine_index |-> spine_at, nth |-> k]
      <4>1. \A c \in Nat : \A k \in 1..c : [spine_index |-> spine_at, nth |-> k] \in Hit
        BY <1>1, <1>2 DEF Hit
      <4>2. QED
        BY <4>1
    <3> HIDE DEF count, taken, Nth
    <3>0. \A s, t \in Seq(Hit) :
             /\ s \o t \in Seq(Hit) /\ Len(s \o t) = Len(s) + Len(t)
             /\ \A i \in 1..(Len(s) + Len(t)) :
                   (s \o t)[i] = IF i <= Len(s) THEN s[i] ELSE t[i - Len(s)]
      BY ConcatProperties
    <3>7. /\ hits' \in Seq(Hit) /\ Len(hits') = L + taken
          /\ \A i \in 1..(L + taken) :
                hits'[i] = IF i <= L THEN hits[i] ELSE Nth(taken)[i - L]
      <4>1. Nth(taken) \in Seq(Hit) /\ Len(Nth(taken)) = taken
        BY <3>3, <3>6
      <4> DEFINE more == Nth(taken)
      <4> HIDE DEF more, L
      <4>2. /\ hits \o more \in Seq(Hit) /\ Len(hits \o more) = Len(hits) + Len(more)
            /\ \A i \in 1..(Len(hits) + Len(more)) :
                  (hits \o more)[i] = IF i <= Len(hits) THEN hits[i] ELSE more[i - Len(hits)]
        BY <1>1, <3>0, <4>1 DEF more
      <4>3. hits' = hits \o more /\ Len(more) = taken /\ Len(hits) = L
        BY <3>5, <4>1 DEF more, L
      <4>4. QED
        BY <4>2, <4>3 DEF more
    <3>8. /\ Len(after) = L + count
          /\ \A i \in 1..(L + count) :
                after[i] = IF i <= L THEN before[i] ELSE Nth(count)[i - L]
      <4>1. Nth(count) \in Seq(Hit) /\ Len(Nth(count)) = count
        BY <3>2, <3>6
      <4> DEFINE more == Nth(count)
      <4> HIDE DEF more, L
      <4>2. /\ Len(before \o more) = Len(before) + Len(more)
            /\ \A i \in 1..(Len(before) + Len(more)) :
                  (before \o more)[i] = IF i <= Len(before) THEN before[i]
                                        ELSE more[i - Len(before)]
        BY <1>3, <3>0, <4>1 DEF more
      <4>3. after = before \o more /\ Len(more) = count /\ Len(before) = L
        BY <1>3, <3>1, <3>4, <4>1 DEF more
      <4>4. QED
        BY <4>2, <4>3 DEF more
    <3>9. L + taken = Least(MaxTotal, L + count)
      <4>1. taken = IF count < MaxTotal - L THEN count ELSE MaxTotal - L
        BY <3>3 DEF Least
      <4>2. Least(MaxTotal, L + count) = IF MaxTotal < L + count THEN MaxTotal ELSE L + count
        BY DEF Least
      <4> HIDE DEF L
      <4>3. QED
        BY <1>4, <3>1, <3>2, <4>1, <4>2
    <3>10. ASSUME NEW i \in 1..(L + taken) PROVE hits'[i] = after[i]
      <4>1. i \in 1..(L + count)
        BY <3>1, <3>2, <3>3
      <4>2. CASE i <= L
        <5>1. i \in 1..L
          BY <3>1, <4>2
        <5>2. hits[i] = before[i]
          BY <3>1, <5>1
        <5>3. QED
          BY <3>7, <3>8, <4>1, <4>2, <5>2
      <4>3. CASE ~(i <= L)
        <5>1. i - L \in 1..taken /\ i - L \in 1..count
          BY <3>1, <3>2, <3>3, <4>3
        <5>2. Nth(taken)[i - L] = Nth(count)[i - L]
          BY <3>2, <3>3, <3>6, <5>1
        <5>3. QED
          BY <3>7, <3>8, <4>1, <4>3, <5>2
      <4>4. QED
        BY <4>2, <4>3
    <3>11. QED
      BY <3>7, <3>8, <3>9, <3>10 DEF IsCapped
  <2>3. QED
    BY <2>1, <2>2
<1>7. HitsAfter' = HitsAfter /\ \A s, t : IsCapped(s, t)' = IsCapped(s, t)
  BY <1>1, SearchInputStays
<1>8. IsCapped(hits, HitsAfter[spine_at])'
  <2>1. MaxTotal' = MaxTotal
    BY <1>1 DEF MaxTotal
  <2>2. QED
    BY <1>1, <1>6, <1>7, <2>1 DEF after, IsCapped
<1>9. QED
  BY <1>1, <1>2, <1>6, <1>8 DEF SearchInv

\* The search may end before the last chapter: then the cap is reached, and what
\* the chapters that were not read hold would have come after it.
LEMMA EndKeepsFirst ==
    ASSUME SearchInv, EndSearch
    PROVE  SearchInv'
<1> DEFINE last == Len(readable.spine)
           before == HitsAfter[spine_at]
           all == HitsAfter[last]
<1>1. /\ readable \in Readable /\ search_options \in SearchOptions
      /\ spine_at \in 0..last /\ hits \in Seq(Hit) /\ IsCapped(hits, before)
      /\ UNCHANGED <<readable, search_options, spine_at, hits>> /\ reading' = "found"
      /\ spine_at = last \/ Len(hits) >= MaxTotal
  BY DEF SearchInv, EndSearch
<1>2. MaxTotal \in Nat /\ last \in Nat
  BY <1>1, CapsAreNumbers, PartsOfHits
<1>4. /\ before \in Seq(Hit) /\ all \in Seq(Hit)
      /\ Len(before) \in Nat /\ Len(all) \in Nat /\ Len(before) <= Len(all)
      /\ \A i \in 1..Len(before) : before[i] = all[i]
  BY <1>1, HitsGrow
<1> HIDE DEF before, all, last
<1>6. IsCapped(hits, all)
  <2>1. CASE spine_at = last
    BY <1>1, <2>1 DEF before, all
  <2>2. CASE Len(hits) >= MaxTotal
    <3>1. Len(hits) = Least(MaxTotal, Len(before)) /\ \A i \in 1..Len(hits) : hits[i] = before[i]
      BY <1>1 DEF IsCapped
    <3>2. Len(hits) = MaxTotal /\ Len(hits) <= Len(before) /\ Len(hits) = Least(MaxTotal, Len(all))
      BY <1>2, <1>4, <2>2, <3>1 DEF Least
    <3>3. QED
      BY <1>2, <1>4, <3>1, <3>2 DEF IsCapped
  <2>3. QED
    BY <1>1, <2>1, <2>2
<1>7. HitsAfter' = HitsAfter /\ MaxTotal' = MaxTotal
  BY <1>1, SearchInputStays DEF MaxTotal
<1>8. QED
  BY <1>1, <1>6, <1>7 DEF SearchInv, IsCapped, before, all, last

\* The other steps find nothing.
LEMMA OthersKeepFirst ==
    ASSUME SearchInv, StartSearch \/ Open \/ UNCHANGED reading_vars
    PROVE  SearchInv'
<1>1. UNCHANGED <<readable, search_options, spine_at, hits>>
  BY DEF StartSearch, Open, reading_vars
<1>2. HitsAfter' = HitsAfter /\ MaxTotal' = MaxTotal
  BY <1>1, SearchInputStays DEF MaxTotal
<1>3. CASE StartSearch
  BY <1>1, <1>2, <1>3 DEF StartSearch, SearchInv, IsCapped
<1>4. CASE Open
  BY <1>1, <1>2, <1>4 DEF Open, SearchInv, IsCapped
<1>5. CASE UNCHANGED reading_vars
  BY <1>1, <1>2, <1>5 DEF reading_vars, SearchInv, IsCapped
<1>6. QED
  BY <1>3, <1>4, <1>5

\* Capped hits are a prefix of the hits they were taken from.
LEMMA CappedIsPrefix ==
    ASSUME search_options \in SearchOptions, hits \in Seq(Hit),
           NEW all \in Seq(Hit), NEW n \in Nat, n <= Len(all),
           Len(hits) <= n, \A i \in 1..Len(hits) : hits[i] = all[i]
    PROVE  IsPrefix(hits, all)
<1> DEFINE L == Len(hits)
<1>1. L \in Nat /\ L <= Len(all) /\ Len(all) \in Nat
  OBVIOUS
<1>2. /\ SubSeq(hits, 1, L) \in Seq(Hit) /\ Len(SubSeq(hits, 1, L)) = L
      /\ SubSeq(all, 1, L) \in Seq(Hit) /\ Len(SubSeq(all, 1, L)) = L
      /\ \A i \in 1..L : SubSeq(hits, 1, L)[i] = hits[i] /\ SubSeq(all, 1, L)[i] = all[i]
  BY <1>1
<1>3. SubSeq(hits, 1, L) = SubSeq(all, 1, L)
  <2> DEFINE s == SubSeq(hits, 1, L)
             t == SubSeq(all, 1, L)
  <2>1. s \in Seq(Hit) /\ t \in Seq(Hit) /\ Len(s) = Len(t) /\ \A i \in 1..Len(s) : s[i] = t[i]
    BY <1>1, <1>2
  <2> HIDE DEF s, t
  <2>2. s = t
    BY <2>1, SeqEqual
  <2>3. QED
    BY <2>2 DEF s, t
<1>4. QED
  BY <1>1, <1>3 DEF IsPrefix

\* A search that ends has the first hits of the book, in reading order and up to
\* the cap: no chapter is skipped and none counted twice (search_content).
THEOREM SearchFindsFirst == ReadingSpec => []FirstHitsFound
<1>1. SearchInv /\ [ReadingNext]_reading_vars => SearchInv'
  BY ChapterKeepsFirst, EndKeepsFirst, OthersKeepFirst DEF ReadingNext
<1>2. SearchInv => FirstHitsFound
  <2> SUFFICES ASSUME SearchInv PROVE FirstHitsFound
    OBVIOUS
  <2> DEFINE last == Len(readable.spine)
             before == HitsAfter[spine_at]
             all == HitsAfter[last]
  <2>1. /\ readable \in Readable /\ search_options \in SearchOptions
        /\ spine_at \in 0..last /\ hits \in Seq(Hit) /\ IsCapped(hits, before)
        /\ reading = "found" /\ ~search_options.blank => IsCapped(hits, all)
    BY DEF SearchInv
  <2>2. MaxTotal \in Nat /\ last \in Nat
    BY <2>1, CapsAreNumbers, PartsOfHits
  <2>3. AllHits = all
    BY <2>1, HitsAdded
  <2>4. /\ before \in Seq(Hit) /\ all \in Seq(Hit)
        /\ Len(before) \in Nat /\ Len(all) \in Nat /\ Len(before) <= Len(all)
        /\ \A i \in 1..Len(before) : before[i] = all[i]
    BY <2>1, HitsGrow
  <2> HIDE DEF before, all, last
  <2>6. /\ Len(hits) = Least(MaxTotal, Len(before))
        /\ \A i \in 1..Len(hits) : hits[i] = before[i]
    BY <2>1 DEF IsCapped
  <2>7. Len(hits) <= MaxTotal /\ Len(hits) <= Len(before)
    BY <2>2, <2>4, <2>6 DEF Least
  <2>8. IsPrefix(hits, all)
    <3>1. \A i \in 1..Len(hits) : hits[i] = all[i]
      BY <2>1, <2>4, <2>6, <2>7
    <3>2. QED
      BY <2>1, <2>4, <2>7, <3>1, CappedIsPrefix
  <2>9. reading = "found" /\ ~search_options.blank =>
           Len(hits) = IF Len(all) < MaxTotal THEN Len(all) ELSE MaxTotal
    BY <2>1, <2>2, <2>4 DEF IsCapped, Least
  <2>10. QED
    BY <2>3, <2>7, <2>8, <2>9 DEF FirstHitsFound
<1>3. QED
  BY SearchInit, <1>1, <1>2, PTL DEF ReadingSpec

-----------------------------------------------------------------------------
(***************************************************************************)
(* Where a book opens.                                                      *)
(***************************************************************************)

\* Where the book opens, of all candidates.
OpeningPlace ==
    LET found == {i \in DOMAIN Candidates : Candidates[i] # {}}
    IN IF found = {} THEN {0} ELSE Candidates[First(found)]

OpenInv ==
    /\ readable \in Readable
    /\ reading = "opened" => start = OpeningPlace

-----------------------------------------------------------------------------
\* The first of a set of places is its least.
LEMMA FirstIsLeast ==
    ASSUME NEW S \in SUBSET Nat, S # {}
    PROVE  First(S) \in S /\ \A j \in S : First(S) <= j
<1>1. \E i \in S : \A j \in S : i <= j
  BY LeastNumber
<1>2. QED
  BY <1>1 DEF First

\* A member that no other precedes is the first.
LEMMA FirstNamed ==
    ASSUME NEW S \in SUBSET Nat, NEW i \in S, \A j \in S : i <= j
    PROVE  First(S) = i
<1>1. First(S) \in S /\ First(S) <= i
  BY FirstIsLeast
<1>2. First(S) \in Nat /\ i \in Nat /\ i <= First(S)
  BY <1>1
<1>3. QED
  BY <1>1, <1>2

\* One segment ends with another.
LEMMA NamesEnd ==
    ASSUME NEW x, NEW y, x = y \/ <<x, y>> \in SegmentEndsWith
    PROVE  EndsWith(<<x>>, <<y>>)
<1>1. /\ <<y>> # << >> /\ Len(<<x>>) = 1 /\ Len(<<y>>) = 1
      /\ <<x>>[1] = x /\ <<y>>[1] = y
  OBVIOUS
<1> DEFINE p == <<x>>
           q == <<y>>
<1>2. /\ q # << >> /\ Len(q) = 1 /\ Len(p) = 1 /\ p[1] = x /\ q[1] = y
  BY <1>1
<1> HIDE DEF p, q
<1>3. Len(q) <= Len(p) /\ (Len(p) - Len(q)) + 1 = 1 /\ 2..Len(q) = {}
  BY <1>2
<1>4. EndsWith(p, q)
  BY <1>2, <1>3 DEF EndsWith
<1>5. QED
  BY <1>4 DEF p, q

\* Where a path ends with another, its file name ends with the other's.
LEMMA EndsShareNames ==
    ASSUME NEW S, NEW p \in Seq(S), NEW q \in Seq(S), p # << >>, q # << >>, EndsWith(p, q)
    PROVE  EndsWith(<<FileName(p)>>, <<FileName(q)>>)
<1>1. /\ Len(p) \in Nat /\ Len(q) \in Nat /\ Len(p) >= 1 /\ Len(q) >= 1
  BY LenProperties, EmptySeq
<1>2. FileName(p) = p[Len(p)] /\ FileName(q) = q[Len(q)]
  BY <1>1 DEF FileName, Last
<1>3. /\ Len(q) <= Len(p)
      /\ \A i \in 2..Len(q) : p[(Len(p) - Len(q)) + i] = q[i]
      /\ \/ p[(Len(p) - Len(q)) + 1] = q[1]
         \/ <<p[(Len(p) - Len(q)) + 1], q[1]>> \in SegmentEndsWith
  BY DEF EndsWith
<1>4. FileName(p) = FileName(q) \/ <<FileName(p), FileName(q)>> \in SegmentEndsWith
  <2>1. CASE Len(q) = 1
    <3>1. (Len(p) - Len(q)) + 1 = Len(p)
      BY <1>1, <2>1
    <3>2. QED
      BY <1>2, <1>3, <2>1, <3>1
  <2>2. CASE Len(q) # 1
    <3>1. \A m, n \in Nat : n >= 1 /\ n # 1 => n \in 2..n /\ (m - n) + n = m
      OBVIOUS
    <3>2. Len(q) \in 2..Len(q) /\ (Len(p) - Len(q)) + Len(q) = Len(p)
      BY <1>1, <2>2, <3>1
    <3>3. QED
      BY <1>2, <1>3, <3>2
  <2>3. QED
    BY <2>1, <2>2
<1>5. QED
  BY <1>4, NamesEnd

\* No other file is taken for the one a path names.
LEMMA OneFileNamed ==
    ASSUME NEW S, NEW p \in Seq(S), NEW q \in Seq(S), p # << >>, q # << >>,
           ~EndsWith(<<FileName(p)>>, <<FileName(q)>>),
           ~EndsWith(<<FileName(q)>>, <<FileName(p)>>)
    PROVE  ~SamePlace(p, q)
<1>1. ~EndsWith(p, q) /\ ~EndsWith(q, p)
  BY EndsShareNames
<1>2. FileName(p) # FileName(q)
  BY NamesEnd
<1>3. QED
  BY <1>1, <1>2 DEF SamePlace

\* A chapter is found by its path in the archive, which ends with its href.
LEMMA OwnPlace ==
    ASSUME NEW S, NEW href \in Seq(S), NEW path \in Seq(S), href # << >>, LiesAt(href, path)
    PROVE  SamePlace(href, path) /\ path # << >> /\ FileName(path) = FileName(href)
<1>1. Len(href) \in Nat /\ Len(path) \in Nat /\ Len(href) >= 1 /\ Len(href) <= Len(path)
  BY LenProperties, EmptySeq DEF LiesAt
<1>2. path # << >>
  BY <1>1, EmptySeq
<1>3. DOMAIN href = 1..Len(href) /\ Len(href) \in DOMAIN href
  BY <1>1, LenProperties
<1>4. (Len(path) - Len(href)) + Len(href) = Len(path)
  BY <1>1
<1>5. path[(Len(path) - Len(href)) + Len(href)] = href[Len(href)]
  BY <1>3 DEF LiesAt
<1>6. FileName(path) = FileName(href)
  BY <1>2, <1>4, <1>5 DEF FileName, Last
<1>7. QED
  BY <1>2, <1>6 DEF SamePlace

-----------------------------------------------------------------------------
\* The parts the list of candidates is joined from.
Marks == IF readable.nav_fails THEN << >>
         ELSE [i \in DOMAIN LandmarkRoles |->
                 FromReferences(readable.landmarks, LandmarkRoles[i])]
Guides == [i \in DOMAIN GuideTypes |-> FromReferences(readable.guide, GuideTypes[i])]
Body == {i \in DOMAIN readable.spine : readable.spine[i].linear /\ ~readable.spine[i].cover}
Bodies == <<IF Body = {} THEN {} ELSE {First(Body) - 1}>>

\* The candidates in the order the code tries them: landmarks, guide, body, first chapter.
LEMMA CandidatesJoined ==
    /\ Len(Marks) = (IF readable.nav_fails THEN 0 ELSE 4)
    /\ Len(Candidates) = Len(Marks) + 3 /\ DOMAIN Candidates = 1..(Len(Marks) + 3)
    /\ \A i \in 1..Len(Marks) : Candidates[i] = Marks[i]
    /\ \A i \in 1..2 : Candidates[Len(Marks) + i] = Guides[i]
    /\ Candidates[Len(Marks) + 3] = Bodies[1]
<1> DEFINE S == {FromReferences(readable.landmarks, LandmarkRoles[i]) : i \in 1..4}
                \cup {FromReferences(readable.guide, GuideTypes[i]) : i \in 1..2}
                \cup {Bodies[1]}
<1>1. Candidates = (Marks \o Guides) \o Bodies
  BY DEF Candidates, Marks, Guides, Bodies, Body
<1>2. Marks \in Seq(S) /\ Len(Marks) = IF readable.nav_fails THEN 0 ELSE 4
  <2>1. DOMAIN LandmarkRoles = 1..4
    BY DEF LandmarkRoles
  <2> DEFINE F(i) == FromReferences(readable.landmarks, LandmarkRoles[i])
  <2>2. \A i \in 1..4 : F(i) \in S
    OBVIOUS
  <2>3. Marks = IF readable.nav_fails THEN << >> ELSE [i \in 1..4 |-> F(i)]
    BY <2>1 DEF Marks
  <2> HIDE DEF F, S
  <2>4. QED
    BY <2>2, <2>3
<1>3. Guides \in Seq(S) /\ Len(Guides) = 2
  <2>1. DOMAIN GuideTypes = 1..2
    BY DEF GuideTypes
  <2> DEFINE F(i) == FromReferences(readable.guide, GuideTypes[i])
  <2>2. \A i \in 1..2 : F(i) \in S
    OBVIOUS
  <2>3. Guides = [i \in 1..2 |-> F(i)]
    BY <2>1 DEF Guides
  <2> HIDE DEF F, S
  <2>4. QED
    BY <2>2, <2>3
<1>4. Bodies \in Seq(S) /\ Len(Bodies) = 1
  <2>1. Bodies[1] \in S
    OBVIOUS
  <2>2. Bodies = <<Bodies[1]>>
    BY DEF Bodies
  <2> HIDE DEF S
  <2>3. \A x \in S : <<x>> \in Seq(S) /\ Len(<<x>>) = 1
    OBVIOUS
  <2>4. <<Bodies[1]>> \in Seq(S) /\ Len(<<Bodies[1]>>) = 1
    BY <2>1, <2>3
  <2>5. QED
    BY <2>2, <2>4
<1> HIDE DEF S
<1>5. \A s, t \in Seq(S) :
         /\ s \o t \in Seq(S) /\ Len(s \o t) = Len(s) + Len(t)
         /\ \A i \in 1..(Len(s) + Len(t)) :
               (s \o t)[i] = IF i <= Len(s) THEN s[i] ELSE t[i - Len(s)]
  BY ConcatProperties
<1> DEFINE L == Len(Marks)
           front == Marks \o Guides
<1>6. L \in Nat
  BY <1>2
<1> HIDE DEF L
<1>7. /\ front \in Seq(S) /\ Len(front) = L + 2
      /\ \A i \in 1..(L + 2) : front[i] = IF i <= L THEN Marks[i] ELSE Guides[i - L]
  <2>1. /\ front \in Seq(S) /\ Len(front) = Len(Marks) + Len(Guides)
        /\ \A i \in 1..(Len(Marks) + Len(Guides)) :
              front[i] = IF i <= Len(Marks) THEN Marks[i] ELSE Guides[i - Len(Marks)]
    BY <1>2, <1>3, <1>5
  <2> HIDE DEF front
  <2>2. Len(Marks) = L /\ Len(Guides) = 2
    BY <1>3 DEF L
  <2>3. QED
    BY <2>1, <2>2
<1> HIDE DEF front
<1>8. /\ Len(front \o Bodies) = L + 3 /\ front \o Bodies \in Seq(S)
      /\ \A i \in 1..(L + 3) :
            (front \o Bodies)[i] = IF i <= L + 2 THEN front[i] ELSE Bodies[i - (L + 2)]
  <2>1. /\ Len(front \o Bodies) = Len(front) + Len(Bodies) /\ front \o Bodies \in Seq(S)
        /\ \A i \in 1..(Len(front) + Len(Bodies)) :
              (front \o Bodies)[i] = IF i <= Len(front) THEN front[i] ELSE Bodies[i - Len(front)]
    BY <1>4, <1>5, <1>7
  <2>2. Len(front) = L + 2 /\ Len(Bodies) = 1 /\ (L + 2) + 1 = L + 3
    BY <1>4, <1>6, <1>7
  <2>3. QED
    BY <2>1, <2>2
<1>9. Candidates = front \o Bodies
  BY <1>1 DEF front
<1>10. /\ Len(Candidates) = L + 3 /\ DOMAIN Candidates = 1..(L + 3)
       /\ \A i \in 1..(L + 3) :
            Candidates[i] = IF i <= L + 2 THEN front[i] ELSE Bodies[i - (L + 2)]
  BY <1>6, <1>8, <1>9, LenProperties
<1>11. /\ \A i \in 1..L : Candidates[i] = Marks[i]
       /\ \A i \in 1..2 : Candidates[L + i] = Guides[i]
       /\ Candidates[L + 3] = Bodies[1]
  <2>1. \A i \in 1..L : Candidates[i] = Marks[i]
    BY <1>6, <1>7, <1>10
  <2>2. ASSUME NEW i \in 1..2 PROVE Candidates[L + i] = Guides[i]
    <3>1. L + i \in 1..(L + 2) /\ L + i \in 1..(L + 3) /\ ~(L + i <= L) /\ (L + i) - L = i
      BY <1>6
    <3>2. QED
      BY <1>7, <1>10, <3>1
  <2>3. L + 3 \in 1..(L + 3) /\ ~(L + 3 <= L + 2) /\ (L + 3) - (L + 2) = 1
    BY <1>6
  <2>4. QED
    BY <1>10, <2>1, <2>2, <2>3
<1>12. QED
  BY <1>2, <1>10, <1>11 DEF L

\* The first landmark named as the body matter leads to its own chapter.
LEMMA MarkFound ==
    ASSUME readable \in Readable,
           NEW i \in DOMAIN readable.landmarks,
           "bodymatter" \in readable.landmarks[i].roles,
           \A j \in DOMAIN readable.landmarks :
               "bodymatter" \in readable.landmarks[j].roles => i <= j,
           NEW k \in DOMAIN readable.spine, readable.spine[k].in_manifest,
           LiesAt(readable.spine[k].href, readable.landmarks[i].path),
           \A m, n \in DOMAIN readable.spine :
               /\ readable.spine[m].href # << >>
               /\ m # n => ~EndsWith(<<FileName(readable.spine[m].href)>>,
                                     <<FileName(readable.spine[n].href)>>)
    PROVE  FromReferences(readable.landmarks, "bodymatter") = {k - 1}
<1> DEFINE spine == readable.spine
           landmarks == readable.landmarks
           named == {j \in DOMAIN landmarks : "bodymatter" \in landmarks[j].roles}
           path == landmarks[i].path
           found == {j \in DOMAIN spine : spine[j].in_manifest /\ SamePlace(spine[j].href, path)}
<1>1. /\ spine \in Seq(Range(spine)) /\ landmarks \in Seq(Range(landmarks))
      /\ \A item \in Range(spine) : item.href \in Seq(Range(item.href))
      /\ \A e \in Range(landmarks) : e.path \in Seq(Range(e.path))
  BY ReadableAssumption
<1>2. DOMAIN spine \subseteq Nat /\ DOMAIN landmarks \subseteq Nat
  BY <1>1
<1>3. First(named) = i
  BY <1>2, FirstNamed
<1> DEFINE q == spine[k].href
<1>4. q \in Seq(Range(q)) /\ path \in Seq(Range(path)) /\ q # << >> /\ LiesAt(q, path)
  BY <1>1 DEF Range
<1>5. SamePlace(q, path) /\ path # << >> /\ FileName(path) = FileName(q)
  <2> DEFINE S == Range(path) \cup Range(q)
  <2>1. q \in Seq(S) /\ path \in Seq(S)
    BY <1>4
  <2> HIDE DEF S, q, path
  <2>2. QED
    BY <1>4, <2>1, OwnPlace
<1>6. found = {k}
  <2>1. k \in found
    BY <1>5
  <2>2. ASSUME NEW j \in DOMAIN spine, j # k PROVE ~SamePlace(spine[j].href, path)
    <3> DEFINE p == spine[j].href
               S == Range(p) \cup Range(path)
    <3>1. p \in Seq(Range(p))
      BY <1>1 DEF Range
    <3>2. p \in Seq(S) /\ path \in Seq(S)
      BY <1>4, <3>1
    <3>3. /\ ~EndsWith(<<FileName(p)>>, <<FileName(q)>>)
          /\ ~EndsWith(<<FileName(q)>>, <<FileName(p)>>) /\ p # << >>
      BY <2>2
    <3> HIDE DEF S, p, q, path
    <3>4. ~SamePlace(p, path)
      BY <1>5, <3>2, <3>3, OneFileNamed
    <3>5. QED
      BY <3>4 DEF p, path
  <2>3. QED
    BY <2>1, <2>2
<1>7. First(found) = k
  BY <1>2, <1>6, FirstNamed
<1>8. SpineIndexForHref(path) = {k - 1}
  BY <1>6, <1>7 DEF SpineIndexForHref
<1>9. named # {}
  OBVIOUS
<1>10. QED
  BY <1>3, <1>8, <1>9 DEF FromReferences

\* With a mark to follow, the first mark decides.
LEMMA OpensWhereMarked ==
    ASSUME readable \in Readable, ~readable.nav_fails, NEW k \in Int,
           FromReferences(readable.landmarks, "bodymatter") = {k - 1}
    PROVE  OpeningPlace = {k - 1}
<1> DEFINE found == {i \in DOMAIN Candidates : Candidates[i] # {}}
<1>1. Marks[1] = {k - 1} /\ Len(Marks) = 4
  BY CandidatesJoined DEF Marks, LandmarkRoles
<1>2. Candidates[1] = {k - 1} /\ DOMAIN Candidates = 1..7
  BY <1>1, CandidatesJoined
<1>3. found \in SUBSET Nat /\ 1 \in found /\ \A j \in found : 1 <= j
  BY <1>2
<1>4. First(found) = 1 /\ found # {}
  <2> HIDE DEF found
  <2>1. QED
    BY <1>3, FirstNamed
<1>5. QED
  BY <1>2, <1>4 DEF OpeningPlace

\* Without one, the first chapter that is the body of the text does.
LEMMA OpensAtFirstChapter ==
    ASSUME readable \in Readable, readable.landmarks = << >>, readable.guide = << >>,
           Body # {}
    PROVE  OpeningPlace = {First(Body) - 1} /\ First(Body) \in Body /\ First(Body) \in Nat
<1> DEFINE found == {i \in DOMAIN Candidates : Candidates[i] # {}}
           L == Len(Marks)
<1>1. First(Body) \in Body /\ First(Body) \in Nat
  <2>1. readable.spine \in Seq(Range(readable.spine))
    BY ReadableAssumption
  <2>2. Body \in SUBSET Nat
    BY <2>1 DEF Body
  <2>3. QED
    BY <2>2, FirstIsLeast
<1>2. \A role : FromReferences(<< >>, role) = {}
  BY DEF FromReferences
<1>3. (\A i \in 1..L : Marks[i] = {}) /\ (\A i \in 1..2 : Guides[i] = {})
  BY <1>2, CandidatesJoined DEF Marks, Guides, LandmarkRoles, GuideTypes
<1>4. L \in Nat
  BY CandidatesJoined
<1>5. DOMAIN Candidates = 1..(L + 3) /\ Candidates[L + 3] = {First(Body) - 1}
  BY CandidatesJoined DEF Bodies
<1>6. ASSUME NEW i \in 1..(L + 3), i # L + 3 PROVE Candidates[i] = {}
  <2>1. CASE i <= L
    BY <1>3, <1>4, <2>1, CandidatesJoined
  <2>2. CASE ~(i <= L)
    <3>1. i - L \in 1..2 /\ i = L + (i - L)
      BY <1>4, <1>6, <2>2
    <3>2. Candidates[L + (i - L)] = Guides[i - L]
      BY <3>1, CandidatesJoined
    <3>3. QED
      BY <1>3, <3>1, <3>2
  <2>3. QED
    BY <2>1, <2>2
<1> HIDE DEF L
<1>7. found = {L + 3} /\ L + 3 \in Nat
  <2>1. L + 3 \in 1..(L + 3) /\ L + 3 \in Nat
    BY <1>4
  <2>2. Candidates[L + 3] # {}
    BY <1>5
  <2>3. L + 3 \in found
    BY <1>5, <2>1, <2>2
  <2>4. ASSUME NEW i \in found PROVE i = L + 3
    <3>1. i \in 1..(L + 3) /\ Candidates[i] # {}
      BY <1>5
    <3>2. QED
      BY <1>6, <3>1
  <2> HIDE DEF found
  <2>5. QED
    BY <2>1, <2>3, <2>4
<1>8. First(found) = L + 3 /\ found # {}
  <2> HIDE DEF found
  <2>1. /\ found \in SUBSET Nat /\ L + 3 \in found /\ found # {}
        /\ \A j \in found : L + 3 <= j
    BY <1>7
  <2>2. QED
    BY <2>1, FirstNamed
<1>9. QED
  BY <1>1, <1>5, <1>8 DEF OpeningPlace

-----------------------------------------------------------------------------
\* The place depends on the book alone, and the book does not change.
LEMMA PlaceStays ==
    ASSUME UNCHANGED readable
    PROVE  OpeningPlace' = OpeningPlace
<1>1. \A path : SpineIndexForHref(path)' = SpineIndexForHref(path)
  BY DEF SpineIndexForHref
<1>2. \A role : /\ FromReferences(readable.landmarks, role)'
                       = FromReferences(readable.landmarks, role)
                /\ FromReferences(readable.guide, role)' = FromReferences(readable.guide, role)
  BY <1>1 DEF FromReferences
<1>3. Candidates' = Candidates
  BY <1>2 DEF Candidates
<1>4. QED
  BY <1>3 DEF OpeningPlace

\* A book opens where its author says the text begins, and never at its cover
\* (preferred_reading_start).
THEOREM OpensAtTheBody == ReadingSpec => []OpensAtBody
<1>1. ReadingInit => OpenInv
  BY DEF ReadingInit, OpenInv
<1>2. OpenInv /\ [ReadingNext]_reading_vars => OpenInv'
  <2> SUFFICES ASSUME OpenInv, [ReadingNext]_reading_vars PROVE OpenInv'
    OBVIOUS
  <2>1. UNCHANGED readable
    BY DEF ReadingNext, StartSearch, SearchChapter, EndSearch, Open, reading_vars
  <2>2. OpeningPlace' = OpeningPlace
    BY <2>1, PlaceStays
  <2>3. CASE StartSearch \/ SearchChapter \/ EndSearch
    BY <2>1, <2>3 DEF OpenInv, StartSearch, SearchChapter, EndSearch
  <2>4. CASE Open
    BY <2>1, <2>2, <2>4 DEF OpenInv, Open, OpeningPlace
  <2>5. CASE UNCHANGED reading_vars
    BY <2>1, <2>2, <2>5 DEF OpenInv, reading_vars
  <2>6. QED
    BY <2>3, <2>4, <2>5 DEF ReadingNext
<1>3. OpenInv => OpensAtBody
  <2> SUFFICES ASSUME OpenInv, reading = "opened" PROVE OpensAtBody
    BY DEF OpensAtBody
  <2> DEFINE spine == readable.spine
             at == CHOOSE i \in start : TRUE
  <2>1. readable \in Readable /\ start = OpeningPlace
    BY DEF OpenInv
  <2>2. \A x : start = {x} => at = x
    OBVIOUS
  <2>3. DOMAIN spine \subseteq Nat
    <3>1. spine \in Seq(Range(spine))
      BY <2>1, ReadableAssumption
    <3>2. QED
      BY <3>1
  <2>4. ASSUME NEW i \in DOMAIN readable.landmarks, NEW k \in DOMAIN spine,
               \A m, n \in DOMAIN spine :
                  /\ spine[m].href # << >>
                  /\ m # n => ~EndsWith(<<FileName(spine[m].href)>>, <<FileName(spine[n].href)>>),
               ~readable.nav_fails,
               "bodymatter" \in readable.landmarks[i].roles,
               \A j \in DOMAIN readable.landmarks :
                  "bodymatter" \in readable.landmarks[j].roles => i <= j,
               LiesAt(spine[k].href, readable.landmarks[i].path), spine[k].in_manifest
        PROVE  at = k - 1
    <3>1. FromReferences(readable.landmarks, "bodymatter") = {k - 1}
      BY <2>1, <2>4, MarkFound
    <3>2. QED
      BY <2>1, <2>2, <2>3, <2>4, <3>1, OpensWhereMarked
  <2>5. ASSUME readable.landmarks = << >>, readable.guide = << >>, NEW k \in DOMAIN spine,
               spine[k].linear, ~spine[k].cover
        PROVE  spine[at + 1].linear /\ ~spine[at + 1].cover
    <3>1. Body # {}
      BY <2>5 DEF Body
    <3>2. /\ OpeningPlace = {First(Body) - 1} /\ First(Body) \in Body /\ First(Body) \in Nat
      BY <2>1, <2>5, <3>1, OpensAtFirstChapter
    <3>3. at + 1 = First(Body)
      BY <2>1, <2>2, <3>2
    <3>4. QED
      BY <3>2, <3>3 DEF Body
  <2>6. QED
    BY <2>4, <2>5 DEF OpensAtBody
<1>4. QED
  BY <1>1, <1>2, <1>3, PTL DEF ReadingSpec
=============================================================================
