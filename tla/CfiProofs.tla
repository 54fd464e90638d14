----------------------------- MODULE CfiProofs ------------------------------
(***************************************************************************)
(* What is proved of CFIs by themselves, in two parts.                      *)
(*                                                                          *)
(* Order: the comparison operators are orders on every value of their       *)
(* types, and the parser, whatever text it is given, returns such a value   *)
(* or reports the text malformed, as long as the text does not hold NaN.    *)
(* Comparisons are lists of signs of which the first that is not 0 counts,  *)
(* so one lemma on such lists, Lexicographic, serves at every level.        *)
(*                                                                          *)
(* Reading back: a canonical CFI with ids that need no escape is parsed     *)
(* from what PrintCfi writes of it (CfiReadBack).  The scans of the parser  *)
(* are folds; each piece of the text is followed through them as a run from *)
(* one state of the scan to another, and runs are joined where pieces are.  *)
(***************************************************************************)
EXTENDS CfiParser, SequenceLemmas


Sign == {-1, 0, 1}

\* Three comparisons fit: of a with b, of b with c and of a with c.
Chained(ab, bc, ac) ==
    ab <= 0 /\ bc <= 0 => ac <= 0 /\ (ac = 0 <=> ab = 0 /\ bc = 0)

\* What the first difference of a list of comparisons is.
LEMMA FirstOfSigns ==
    ASSUME NEW n \in Nat, NEW u \in [1..n -> Sign]
    PROVE  \/ FirstDifference(u) = 0 /\ \A i \in 1..n : u[i] = 0
           \/ \E k \in 1..n : /\ u[k] # 0 /\ FirstDifference(u) = u[k]
                              /\ \A i \in 1..n : i < k => u[i] = 0
<1> DEFINE differs == {i \in 1..n : u[i] # 0}
<1>1. FirstDifference(u) = IF differs = {} THEN 0
                           ELSE u[CHOOSE i \in differs : \A j \in differs : i <= j]
  BY DEF FirstDifference
<1>2. CASE differs = {}
  BY <1>1, <1>2
<1>3. CASE differs # {}
  <2>1. differs \in SUBSET Nat
    OBVIOUS
  <2>2. \E i \in differs : \A j \in differs : i <= j
    <3> HIDE DEF differs
    <3>1. QED
      BY <1>3, <2>1, LeastNumber
  <2> DEFINE k == CHOOSE i \in differs : \A j \in differs : i <= j
  <2>3. k \in differs /\ \A j \in differs : k <= j
    BY <2>2
  <2>4. FirstDifference(u) = u[k]
    BY <1>1, <1>3
  <2> HIDE DEF k
  <2>5. \A i \in 1..n : i < k => u[i] = 0
    BY <2>3
  <2>6. QED
    BY <2>3, <2>4, <2>5
<1>4. QED
  BY <1>2, <1>3

\* The first difference is named by the differences before it.
LEMMA FirstSign ==
    ASSUME NEW n \in Nat, NEW u \in [1..n -> Sign], NEW k \in 1..n, u[k] # 0,
           \A i \in 1..n : i < k => u[i] = 0
    PROVE  FirstDifference(u) = u[k]
<1>1. CASE FirstDifference(u) = 0 /\ \A i \in 1..n : u[i] = 0
  BY <1>1
<1>2. ASSUME NEW m \in 1..n, u[m] # 0, FirstDifference(u) = u[m],
             \A i \in 1..n : i < m => u[i] = 0
      PROVE  FirstDifference(u) = u[k]
  <2>1. ~(k < m) /\ ~(m < k)
    BY <1>2
  <2>2. k = m
    BY <2>1
  <2>3. QED
    BY <1>2, <2>2
<1>3. QED
  BY <1>1, <1>2, FirstOfSigns

\* Where nothing differs, nothing is the first difference.
LEMMA NoDifference ==
    ASSUME NEW n \in Nat, NEW u \in [1..n -> Sign], \A i \in 1..n : u[i] = 0
    PROVE  FirstDifference(u) = 0
BY FirstOfSigns

\* A first difference is Less, Equal or Greater.
LEMMA FirstIsSign ==
    ASSUME NEW n \in Nat, NEW u \in [1..n -> Sign]
    PROVE  FirstDifference(u) \in Sign
BY FirstOfSigns DEF Sign

\* Swapping the arguments of each comparison swaps the answer.
LEMMA SwappedSigns ==
    ASSUME NEW n \in Nat, NEW u \in [1..n -> Sign], NEW v \in [1..n -> Sign],
           \A i \in 1..n : u[i] = -v[i]
    PROVE  FirstDifference(u) = -FirstDifference(v)
<1>1. CASE FirstDifference(v) = 0 /\ \A i \in 1..n : v[i] = 0
  <2>1. \A i \in 1..n : u[i] = 0
    BY <1>1
  <2>2. QED
    BY <1>1, <2>1, NoDifference
<1>2. ASSUME NEW k \in 1..n, v[k] # 0, FirstDifference(v) = v[k],
             \A i \in 1..n : i < k => v[i] = 0
      PROVE  FirstDifference(u) = -FirstDifference(v)
  <2>1. u[k] # 0 /\ u[k] = -v[k]
    BY <1>2 DEF Sign
  <2>2. \A i \in 1..n : i < k => u[i] = 0
    BY <1>2
  <2>3. FirstDifference(u) = u[k]
    BY <2>1, <2>2, FirstSign
  <2>4. QED
    BY <1>2, <2>1, <2>3
<1>3. QED
  BY <1>1, <1>2, FirstOfSigns

\* Comparisons that fit one by one fit as a whole: the order of words.
LEMMA Lexicographic ==
    ASSUME NEW n \in Nat, NEW u \in [1..n -> Sign], NEW v \in [1..n -> Sign],
           NEW w \in [1..n -> Sign], \A i \in 1..n : Chained(u[i], v[i], w[i])
    PROVE  Chained(FirstDifference(u), FirstDifference(v), FirstDifference(w))
<1> SUFFICES ASSUME FirstDifference(u) <= 0, FirstDifference(v) <= 0
             PROVE  /\ FirstDifference(w) <= 0
                    /\ FirstDifference(w) = 0
                          <=> FirstDifference(u) = 0 /\ FirstDifference(v) = 0
  BY DEF Chained
<1>1. CASE (\A i \in 1..n : u[i] = 0) /\ (\A i \in 1..n : v[i] = 0)
  <2>1. \A i \in 1..n : w[i] = 0
    BY <1>1 DEF Chained
  <2>2. QED
    BY <1>1, <2>1, NoDifference
<1>2. ASSUME NEW k \in 1..n, u[k] <= 0, v[k] <= 0, ~(u[k] = 0 /\ v[k] = 0),
             \A i \in 1..n : i < k => u[i] = 0 /\ v[i] = 0
      PROVE  FirstDifference(w) < 0
  <2>1. w[k] <= 0 /\ w[k] # 0
    BY <1>2 DEF Chained
  <2>2. \A i \in 1..n : i < k => w[i] = 0
    BY <1>2 DEF Chained
  <2>3. FirstDifference(w) = w[k]
    BY <2>1, <2>2, FirstSign
  <2>4. w[k] \in Sign
    OBVIOUS
  <2>5. QED
    BY <2>1, <2>3, <2>4 DEF Sign
<1>3. CASE ~(\A i \in 1..n : u[i] = 0) \/ ~(\A i \in 1..n : v[i] = 0)
  <2>1. \/ FirstDifference(u) = 0 /\ \A i \in 1..n : u[i] = 0
        \/ \E k \in 1..n : /\ u[k] # 0 /\ FirstDifference(u) = u[k]
                           /\ \A i \in 1..n : i < k => u[i] = 0
    BY FirstOfSigns
  <2>2. \/ FirstDifference(v) = 0 /\ \A i \in 1..n : v[i] = 0
        \/ \E k \in 1..n : /\ v[k] # 0 /\ FirstDifference(v) = v[k]
                           /\ \A i \in 1..n : i < k => v[i] = 0
    BY FirstOfSigns
  <2>3. FirstDifference(w) < 0
    <3>1. CASE \A i \in 1..n : u[i] = 0
      <4>1. PICK k \in 1..n : /\ v[k] # 0 /\ FirstDifference(v) = v[k]
                              /\ \A i \in 1..n : i < k => v[i] = 0
        BY <1>3, <2>2, <3>1
      <4>2. u[k] <= 0 /\ v[k] <= 0 /\ ~(u[k] = 0 /\ v[k] = 0)
            /\ \A i \in 1..n : i < k => u[i] = 0 /\ v[i] = 0
        BY <3>1, <4>1
      <4>3. QED
        BY <1>2, <4>2
    <3>2. CASE \A i \in 1..n : v[i] = 0
      <4>1. PICK k \in 1..n : /\ u[k] # 0 /\ FirstDifference(u) = u[k]
                              /\ \A i \in 1..n : i < k => u[i] = 0
        BY <1>3, <2>1, <3>2
      <4>2. u[k] <= 0 /\ v[k] <= 0 /\ ~(u[k] = 0 /\ v[k] = 0)
            /\ \A i \in 1..n : i < k => u[i] = 0 /\ v[i] = 0
        BY <3>2, <4>1
      <4>3. QED
        BY <1>2, <4>2
    <3>3. CASE ~(\A i \in 1..n : u[i] = 0) /\ ~(\A i \in 1..n : v[i] = 0)
      <4>1. PICK k \in 1..n : /\ u[k] # 0 /\ FirstDifference(u) = u[k]
                              /\ \A i \in 1..n : i < k => u[i] = 0
        BY <2>1, <3>3
      <4>2. PICK m \in 1..n : /\ v[m] # 0 /\ FirstDifference(v) = v[m]
                              /\ \A i \in 1..n : i < m => v[i] = 0
        BY <2>2, <3>3
      <4>3. CASE k <= m
        <5>1. v[k] <= 0
          <6>1. k = m \/ k < m
            BY <4>3
          <6>2. QED
            BY <4>2, <6>1
        <5>2. u[k] <= 0 /\ ~(u[k] = 0 /\ v[k] = 0)
              /\ \A i \in 1..n : i < k => u[i] = 0 /\ v[i] = 0
          BY <4>1, <4>2, <4>3
        <5>3. QED
          BY <1>2, <5>1, <5>2
      <4>4. CASE m < k
        <5>1. u[m] = 0 /\ v[m] <= 0 /\ v[m] # 0
          BY <4>1, <4>2, <4>4
        <5>2. \A i \in 1..n : i < m => u[i] = 0 /\ v[i] = 0
          BY <4>1, <4>2, <4>4
        <5>3. u[m] <= 0
          BY <5>1
        <5>4. QED
          BY <1>2, <5>1, <5>2, <5>3
      <4>5. QED
        BY <4>3, <4>4
    <3>4. QED
      BY <3>1, <3>2, <3>3
  <2>4. FirstDifference(w) \in Sign
    BY FirstIsSign
  <2>5. QED
    BY <1>3, <2>1, <2>2, <2>3, <2>4 DEF Sign
<1>4. QED
  BY <1>1, <1>3

-----------------------------------------------------------------------------
\* Numbers are totally ordered.
LEMMA NumbersCompare ==
    ASSUME NEW a \in Int, NEW b \in Int, NEW c \in Int
    PROVE  /\ Cmp(a, b) \in Sign /\ Cmp(a, b) = -Cmp(b, a)
           /\ Cmp(a, b) = 0 <=> a = b
           /\ Chained(Cmp(a, b), Cmp(b, c), Cmp(a, c))
BY DEF Cmp, Sign, Chained

-----------------------------------------------------------------------------
\* The types of the data model, for texts of these characters.
StepOf(chars) == [index : Nat, assertion : Seq(chars) \cup {Absent}]
Offset == Nat \cup {Absent}
\* Of floats, a number that is one.
PointOfSpace == [x : Nat, y : Nat]
PathOf(chars) ==
    [steps : Seq(StepOf(chars)), local : Seq(StepOf(chars)) \cup {Absent},
     offset : Offset, side : {Absent, "before", "after"},
     temporal : Offset, spatial : PointOfSpace \cup {Absent}]
CfiOf(chars) ==
    [kind : {"point", "range"}, parent : PathOf(chars), start : PathOf(chars), end : PathOf(chars)]

\* A list of steps as if it went on for ever, with steps before all others.
Padded(s, i) == IF i <= Len(s) THEN s[i].index ELSE -1

\* An element more.
LEMMA OneSignMore ==
    ASSUME NEW m \in Nat, NEW u \in [1..m -> Sign], NEW x \in Sign
    PROVE  /\ u \o <<x>> \in [1..(m + 1) -> Sign]
           /\ \A i \in 1..m : (u \o <<x>>)[i] = u[i]
           /\ (u \o <<x>>)[m + 1] = x
<1>1. u \in Seq(Sign) /\ Len(u) = m
  OBVIOUS
<1>2. <<x>> \in Seq(Sign) /\ Len(<<x>>) = 1 /\ <<x>>[1] = x
  OBVIOUS
<1>3. \A s, t \in Seq(Sign) :
         /\ s \o t \in Seq(Sign) /\ Len(s \o t) = Len(s) + Len(t)
         /\ \A i \in 1..(Len(s) + Len(t)) :
               (s \o t)[i] = IF i <= Len(s) THEN s[i] ELSE t[i - Len(s)]
  BY ConcatProperties
<1> DEFINE one == <<x>>
           w == u \o one
<1> HIDE DEF one
<1>4. /\ w \in Seq(Sign) /\ Len(w) = m + 1
      /\ \A i \in 1..(m + 1) : w[i] = IF i <= m THEN u[i] ELSE one[i - m]
  BY <1>1, <1>2, <1>3 DEF one
<1> HIDE DEF w
<1>5. w \in [1..(m + 1) -> Sign]
  BY <1>4
<1>6. w[m + 1] = one[1]
  BY <1>4
<1>7. QED
  BY <1>2, <1>4, <1>5, <1>6 DEF w, one

\* Of lists of steps, the longer comes later when the shorter begins it.
LEMMA StepsPadded ==
    ASSUME NEW chars, NEW s \in Seq(StepOf(chars)), NEW t \in Seq(StepOf(chars)),
           NEW n \in Nat, Len(s) <= n, Len(t) <= n
    PROVE  /\ [i \in 1..n |-> Cmp(Padded(s, i), Padded(t, i))] \in [1..n -> Sign]
           /\ CompareSteps(s, t) = FirstDifference([i \in 1..n |-> Cmp(Padded(s, i), Padded(t, i))])
<1> DEFINE m == IF Len(s) < Len(t) THEN Len(s) ELSE Len(t)
           u == [i \in 1..m |-> Cmp(s[i].index, t[i].index)]
           x == Cmp(Len(s), Len(t))
           v == u \o <<x>>
           p == [i \in 1..n |-> Cmp(Padded(s, i), Padded(t, i))]
<1>1. m \in Nat /\ Len(s) \in Nat /\ Len(t) \in Nat /\ m <= Len(s) /\ m <= Len(t)
  OBVIOUS
<1>2. \A i \in 1..m : s[i].index \in Nat /\ t[i].index \in Nat
  <2>1. \A i \in 1..m : s[i] \in StepOf(chars) /\ t[i] \in StepOf(chars)
    BY <1>1
  <2>2. QED
    BY <2>1 DEF StepOf
<1>3. \A i \in 1..n : Padded(s, i) \in Int /\ Padded(t, i) \in Int
  <2>1. \A i \in 1..n : i <= Len(s) => s[i] \in StepOf(chars)
    OBVIOUS
  <2>2. \A i \in 1..n : i <= Len(t) => t[i] \in StepOf(chars)
    OBVIOUS
  <2>3. QED
    BY <2>1, <2>2 DEF Padded, StepOf
<1>4. u \in [1..m -> Sign] /\ x \in Sign
  BY <1>1, <1>2, NumbersCompare
<1>5. p \in [1..n -> Sign]
  BY <1>3, NumbersCompare
<1>6. \A i \in 1..m : u[i] = p[i]
  BY <1>1 DEF Padded
<1>7. Len(s) # Len(t) => m + 1 \in 1..n /\ p[m + 1] = x /\ x # 0
  <2> SUFFICES ASSUME Len(s) # Len(t)
               PROVE  m + 1 \in 1..n /\ p[m + 1] = x /\ x # 0
    OBVIOUS
  <2>1. m + 1 \in 1..n
    BY <1>1
  <2>2. CASE Len(s) < Len(t)
    <3>1. Padded(s, m + 1) = -1 /\ Padded(t, m + 1) \in Nat
      <4>1. t[m + 1] \in StepOf(chars)
        BY <1>1, <2>2
      <4>2. QED
        BY <1>1, <2>2, <4>1 DEF Padded, StepOf
    <3>2. QED
      BY <1>1, <2>1, <2>2, <3>1 DEF Cmp
  <2>3. CASE Len(t) < Len(s)
    <3>1. Padded(t, m + 1) = -1 /\ Padded(s, m + 1) \in Nat
      <4>1. s[m + 1] \in StepOf(chars)
        BY <1>1, <2>3
      <4>2. QED
        BY <1>1, <2>3, <4>1 DEF Padded, StepOf
    <3>2. QED
      BY <1>1, <2>1, <2>3, <3>1 DEF Cmp
  <2>4. QED
    BY <1>1, <2>2, <2>3
<1>8. Len(s) = Len(t) => x = 0 /\ \A i \in 1..n : i > m => p[i] = 0
  BY <1>1 DEF Cmp, Padded
<1>9. CompareSteps(s, t) = FirstDifference(v)
  BY DEF CompareSteps
<1>10. /\ v \in [1..(m + 1) -> Sign] /\ v[m + 1] = x
       /\ \A i \in 1..m : v[i] = u[i]
  <2> HIDE DEF u, x, m
  <2>1. QED
    BY <1>1, <1>4, OneSignMore
<1> HIDE DEF u, x, m, v, p
<1>11. CASE \A i \in 1..n : p[i] = 0
  <2>1. x = 0
    BY <1>7, <1>8, <1>11
  <2>2. \A i \in 1..(m + 1) : v[i] = 0
    <3>1. \A i \in 1..m : i \in 1..n
      BY <1>1
    <3>2. \A i \in 1..(m + 1) : i \in 1..m \/ i = m + 1
      BY <1>1
    <3>3. QED
      BY <1>6, <1>10, <1>11, <2>1, <3>1, <3>2
  <2>3. FirstDifference(v) = 0
    BY <1>1, <1>10, <2>2, NoDifference
  <2>4. FirstDifference(p) = 0
    BY <1>5, <1>11, NoDifference
  <2>5. QED
    BY <1>5, <1>9, <2>3, <2>4 DEF p
<1>12. ASSUME NEW k \in 1..n, p[k] # 0, FirstDifference(p) = p[k],
              \A i \in 1..n : i < k => p[i] = 0
       PROVE  FirstDifference(v) = p[k]
  <2>1. CASE k <= m
    <3>1. k \in 1..(m + 1) /\ v[k] = p[k] /\ \A i \in 1..(m + 1) : i < k => i \in 1..m /\ i \in 1..n
      BY <1>1, <1>6, <1>10, <2>1
    <3>2. \A i \in 1..(m + 1) : i < k => v[i] = 0
      BY <1>6, <1>10, <1>12, <3>1
    <3>3. m + 1 \in Nat /\ v[k] # 0 /\ v \in [1..(m + 1) -> Sign]
      BY <1>1, <1>10, <1>12, <3>1
    <3>4. FirstDifference(v) = v[k]
      BY <3>1, <3>2, <3>3, FirstSign
    <3>5. QED
      BY <3>1, <3>4
  <2>2. CASE k > m
    <3>1. Len(s) # Len(t)
      BY <1>8, <1>12, <2>2
    <3>2. k = m + 1
      BY <1>1, <1>7, <1>12, <2>2, <3>1
    <3>3. v[k] = p[k] /\ p[k] # 0
      BY <1>7, <1>10, <1>12, <3>1, <3>2
    <3>4. \A i \in 1..(m + 1) : i < k => i \in 1..m /\ i \in 1..n
      BY <1>1, <3>2
    <3>5. \A i \in 1..(m + 1) : i < k => v[i] = 0
      BY <1>6, <1>10, <1>12, <3>4
    <3>6. k \in 1..(m + 1)
      BY <1>1, <3>2
    <3>7. m + 1 \in Nat /\ v[k] # 0 /\ v \in [1..(m + 1) -> Sign]
      BY <1>1, <1>10, <3>3
    <3>8. FirstDifference(v) = v[k]
      BY <3>5, <3>6, <3>7, FirstSign
    <3>9. QED
      BY <3>3, <3>8
  <2>3. QED
    BY <1>1, <2>1, <2>2
<1>13. QED
  <2>1. FirstDifference(v) = FirstDifference(p)
    BY <1>5, <1>9, <1>11, <1>12, FirstOfSigns, NoDifference DEF p
  <2>2. QED
    BY <1>5, <1>9, <2>1 DEF p

\* Lists of steps are ordered, and equal ones are level.
LEMMA StepsCompare ==
    ASSUME NEW chars, NEW s \in Seq(StepOf(chars)), NEW t \in Seq(StepOf(chars)),
           NEW r \in Seq(StepOf(chars))
    PROVE  /\ CompareSteps(s, t) \in Sign /\ CompareSteps(s, t) = -CompareSteps(t, s)
           /\ Chained(CompareSteps(s, t), CompareSteps(t, r), CompareSteps(s, r))
           /\ SameSteps(s, t) => CompareSteps(s, t) = 0
<1> DEFINE n == Len(s) + Len(t) + Len(r)
           P(a, b) == [i \in 1..n |-> Cmp(Padded(a, i), Padded(b, i))]
<1>1. n \in Nat /\ Len(s) <= n /\ Len(t) <= n /\ Len(r) <= n
  OBVIOUS
<1>2. \A a, b \in {s, t, r} : /\ P(a, b) \in [1..n -> Sign]
                              /\ CompareSteps(a, b) = FirstDifference(P(a, b))
  <2>1. TAKE a, b \in {s, t, r}
  <2>2. a \in Seq(StepOf(chars)) /\ b \in Seq(StepOf(chars)) /\ Len(a) <= n /\ Len(b) <= n
    BY <1>1
  <2> HIDE DEF n
  <2>3. QED
    BY <1>1, <2>2, StepsPadded
<1>3. \A i \in 1..n : Padded(s, i) \in Int /\ Padded(t, i) \in Int /\ Padded(r, i) \in Int
  <2>1. \A a \in Seq(StepOf(chars)) : \A i \in 1..n : Padded(a, i) \in Int
    <3>1. \A a \in Seq(StepOf(chars)) : \A i \in 1..n : i <= Len(a) => a[i] \in StepOf(chars)
      OBVIOUS
    <3>2. TAKE a \in Seq(StepOf(chars))
    <3>3. TAKE i \in 1..n
    <3>4. CASE i <= Len(a)
      <4>1. a[i] \in StepOf(chars)
        BY <3>1, <3>4
      <4>2. QED
        BY <3>4, <4>1 DEF Padded, StepOf
    <3>5. CASE ~(i <= Len(a))
      BY <3>5 DEF Padded
    <3>6. QED
      BY <3>4, <3>5
  <2>2. QED
    BY <2>1
<1>4. \A i \in 1..n : /\ P(s, t)[i] = -P(t, s)[i]
                      /\ Chained(P(s, t)[i], P(t, r)[i], P(s, r)[i])
  <2>1. TAKE i \in 1..n
  <2>2. /\ Cmp(Padded(s, i), Padded(t, i)) = -Cmp(Padded(t, i), Padded(s, i))
        /\ Chained(Cmp(Padded(s, i), Padded(t, i)), Cmp(Padded(t, i), Padded(r, i)),
                   Cmp(Padded(s, i), Padded(r, i)))
    BY <1>3, NumbersCompare
  <2>3. QED
    BY <2>2
<1>5. SameSteps(s, t) => \A i \in 1..n : P(s, t)[i] = 0
  <2> SUFFICES ASSUME SameSteps(s, t), NEW i \in 1..n PROVE P(s, t)[i] = 0
    OBVIOUS
  <2>1. Padded(s, i) = Padded(t, i)
    BY DEF SameSteps, Padded
  <2>2. QED
    BY <1>3, <2>1, NumbersCompare
<1> HIDE DEF n, P
<1>6. CompareSteps(s, t) \in Sign
  BY <1>1, <1>2, FirstIsSign
<1>7. CompareSteps(s, t) = -CompareSteps(t, s)
  <2>1. /\ P(s, t) \in [1..n -> Sign] /\ P(t, s) \in [1..n -> Sign]
        /\ \A i \in 1..n : P(s, t)[i] = -P(t, s)[i]
    BY <1>2, <1>4
  <2>2. FirstDifference(P(s, t)) = -FirstDifference(P(t, s))
    BY <1>1, <2>1, SwappedSigns
  <2>3. QED
    BY <1>2, <2>2
<1>8. Chained(CompareSteps(s, t), CompareSteps(t, r), CompareSteps(s, r))
  <2>1. /\ P(s, t) \in [1..n -> Sign] /\ P(t, r) \in [1..n -> Sign]
        /\ P(s, r) \in [1..n -> Sign]
        /\ \A i \in 1..n : Chained(P(s, t)[i], P(t, r)[i], P(s, r)[i])
    BY <1>2, <1>4
  <2>2. Chained(FirstDifference(P(s, t)), FirstDifference(P(t, r)), FirstDifference(P(s, r)))
    BY <1>1, <2>1, Lexicographic
  <2>3. QED
    BY <1>2, <2>2
<1>9. SameSteps(s, t) => CompareSteps(s, t) = 0
  BY <1>1, <1>2, <1>5, NoDifference
<1>10. QED
  BY <1>6, <1>7, <1>8, <1>9

\* An absent offset is one before all others.
Rank(offset) == IF offset = Absent THEN -1 ELSE offset

\* Offsets compare as their ranks.
LEMMA OffsetsCompare ==
    ASSUME NEW a \in Offset, NEW b \in Offset
    PROVE  CompareOffset(a, b) = Cmp(Rank(a), Rank(b)) /\ Rank(a) \in Int
BY AbsentAssumption DEF Offset, CompareOffset, Rank, Cmp

\* Points compare from top to bottom and from left to right, none before any.
LEMMA SpatialCompare ==
    ASSUME NEW a \in PointOfSpace \cup {Absent}, NEW b \in PointOfSpace \cup {Absent},
           NEW c \in PointOfSpace \cup {Absent}
    PROVE  /\ CompareSpatial(a, b) \in Sign /\ CompareSpatial(a, b) = -CompareSpatial(b, a)
           /\ Chained(CompareSpatial(a, b), CompareSpatial(b, c), CompareSpatial(a, c))
           /\ a = b => CompareSpatial(a, b) = 0
<1> DEFINE Y(p) == IF p = Absent THEN -1 ELSE p.y
           X(p) == IF p = Absent THEN -1 ELSE p.x
           u(p, q) == <<Cmp(Y(p), Y(q)), Cmp(X(p), X(q))>>
<1>1. \A p \in {a, b, c} : X(p) \in Int /\ Y(p) \in Int /\ (p # Absent => p \in PointOfSpace)
  BY DEF PointOfSpace
<1>2. \A p, q \in {a, b, c} : u(p, q) \in [1..2 -> Sign]
  BY <1>1, NumbersCompare
<1>3. \A p, q \in {a, b, c} : CompareSpatial(p, q) = FirstDifference(u(p, q))
  <2>1. TAKE p, q \in {a, b, c}
  <2>2. CASE p = Absent \/ q = Absent
    <3>1. CASE p = Absent /\ q = Absent
      <4>1. \A i \in 1..2 : u(p, q)[i] = 0
        BY <1>1, <3>1, NumbersCompare
      <4>2. FirstDifference(u(p, q)) = 0
        BY <1>2, <4>1, NoDifference
      <4>3. QED
        BY <3>1, <4>2 DEF CompareSpatial, Cmp
    <3>2. CASE ~(p = Absent /\ q = Absent)
      <4>1. u(p, q)[1] # 0 /\ CompareSpatial(p, q) = u(p, q)[1]
        BY <1>1, <2>2, <3>2 DEF CompareSpatial, Cmp, PointOfSpace
      <4>2. 1 \in 1..2 /\ \A i \in 1..2 : i < 1 => u(p, q)[i] = 0
        OBVIOUS
      <4>3. FirstDifference(u(p, q)) = u(p, q)[1]
        <5>1. 2 \in Nat /\ u(p, q) \in [1..2 -> Sign]
          BY <1>2
        <5> HIDE DEF u
        <5>2. QED
          BY <4>1, <4>2, <5>1, FirstSign
      <4>4. QED
        BY <4>1, <4>3
    <3>3. QED
      BY <3>1, <3>2
  <2>3. CASE p # Absent /\ q # Absent
    <3>1. p.x \in Nat /\ p.y \in Nat /\ q.x \in Nat /\ q.y \in Nat
      BY <1>1, <2>3 DEF PointOfSpace
    <3>2. CompareOffset(p.y, q.y) = Cmp(p.y, q.y) /\ CompareOffset(p.x, q.x) = Cmp(p.x, q.x)
      BY <3>1, AbsentAssumption DEF CompareOffset
    <3>3. QED
      BY <2>3, <3>2 DEF CompareSpatial
  <2>4. QED
    BY <2>2, <2>3
<1>4. \A i \in 1..2 : /\ u(a, b)[i] = -u(b, a)[i]
                      /\ Chained(u(a, b)[i], u(b, c)[i], u(a, c)[i])
                      /\ a = b => u(a, b)[i] = 0
  <2>1. /\ u(a, b)[1] = -u(b, a)[1] /\ Chained(u(a, b)[1], u(b, c)[1], u(a, c)[1])
        /\ a = b => u(a, b)[1] = 0
    BY <1>1, NumbersCompare
  <2>2. /\ u(a, b)[2] = -u(b, a)[2] /\ Chained(u(a, b)[2], u(b, c)[2], u(a, c)[2])
        /\ a = b => u(a, b)[2] = 0
    BY <1>1, NumbersCompare
  <2>3. \A i \in 1..2 : i = 1 \/ i = 2
    OBVIOUS
  <2> HIDE DEF u
  <2>4. QED
    BY <2>1, <2>2, <2>3
<1> HIDE DEF u
<1>5. CompareSpatial(a, b) \in Sign
  BY <1>2, <1>3, FirstIsSign
<1>6. CompareSpatial(a, b) = -CompareSpatial(b, a)
  <2>1. /\ 2 \in Nat /\ u(a, b) \in [1..2 -> Sign] /\ u(b, a) \in [1..2 -> Sign]
        /\ \A i \in 1..2 : u(a, b)[i] = -u(b, a)[i]
    BY <1>2, <1>4
  <2>2. FirstDifference(u(a, b)) = -FirstDifference(u(b, a))
    BY <2>1, SwappedSigns
  <2>3. QED
    BY <1>3, <2>2
<1>7. Chained(CompareSpatial(a, b), CompareSpatial(b, c), CompareSpatial(a, c))
  <2>1. /\ 2 \in Nat /\ u(a, b) \in [1..2 -> Sign] /\ u(b, c) \in [1..2 -> Sign]
        /\ u(a, c) \in [1..2 -> Sign]
        /\ \A i \in 1..2 : Chained(u(a, b)[i], u(b, c)[i], u(a, c)[i])
    BY <1>2, <1>4
  <2>2. Chained(FirstDifference(u(a, b)), FirstDifference(u(b, c)), FirstDifference(u(a, c)))
    BY <2>1, Lexicographic
  <2>3. QED
    BY <1>3, <2>2
<1>8. a = b => CompareSpatial(a, b) = 0
  BY <1>2, <1>3, <1>4, NoDifference
<1>9. QED
  BY <1>5, <1>6, <1>7, <1>8

\* The comparisons a path consists of, in their order.
PathSigns(a, b) ==
    <<CompareSteps(a.steps, b.steps), CompareSteps(LocalOf(a), LocalOf(b)),
      CompareOffset(a.offset, b.offset), CompareOffset(a.temporal, b.temporal),
      CompareSpatial(a.spatial, b.spatial)>>

\* Each of them is an order.
LEMMA PathPartsCompare ==
    ASSUME NEW chars, NEW a \in PathOf(chars), NEW b \in PathOf(chars), NEW c \in PathOf(chars)
    PROVE  /\ PathSigns(a, b) \in [1..5 -> Sign]
           /\ \A i \in 1..5 : /\ PathSigns(a, b)[i] = -PathSigns(b, a)[i]
                              /\ Chained(PathSigns(a, b)[i], PathSigns(b, c)[i], PathSigns(a, c)[i])
                              /\ EqPath(a, b) => PathSigns(a, b)[i] = 0
<1>1. \A p \in {a, b, c} :
         /\ p.steps \in Seq(StepOf(chars)) /\ LocalOf(p) \in Seq(StepOf(chars))
         /\ p.offset \in Offset /\ p.temporal \in Offset /\ p.spatial \in PointOfSpace \cup {Absent}
  BY DEF PathOf, LocalOf
<1> DEFINE Ordered(ab, ba, bc, ac) ==
             ab \in Sign /\ ab = -ba /\ Chained(ab, bc, ac) /\ (EqPath(a, b) => ab = 0)
<1>2. Ordered(CompareSteps(a.steps, b.steps), CompareSteps(b.steps, a.steps),
              CompareSteps(b.steps, c.steps), CompareSteps(a.steps, c.steps))
  <2>1. EqPath(a, b) => SameSteps(a.steps, b.steps)
    BY DEF EqPath
  <2>2. QED
    BY <1>1, <2>1, StepsCompare
<1>3. Ordered(CompareSteps(LocalOf(a), LocalOf(b)), CompareSteps(LocalOf(b), LocalOf(a)),
              CompareSteps(LocalOf(b), LocalOf(c)), CompareSteps(LocalOf(a), LocalOf(c)))
  <2>1. EqPath(a, b) => SameSteps(LocalOf(a), LocalOf(b))
    BY DEF EqPath
  <2>2. QED
    BY <1>1, <2>1, StepsCompare
<1>4. \A x, y, z \in Offset :
         /\ CompareOffset(x, y) \in Sign /\ CompareOffset(x, y) = -CompareOffset(y, x)
         /\ Chained(CompareOffset(x, y), CompareOffset(y, z), CompareOffset(x, z))
         /\ x = y => CompareOffset(x, y) = 0
  BY OffsetsCompare, NumbersCompare
<1>5. Ordered(CompareOffset(a.offset, b.offset), CompareOffset(b.offset, a.offset),
              CompareOffset(b.offset, c.offset), CompareOffset(a.offset, c.offset))
  <2>1. EqPath(a, b) => a.offset = b.offset
    BY DEF EqPath
  <2>2. QED
    BY <1>1, <1>4, <2>1
<1>6. Ordered(CompareOffset(a.temporal, b.temporal), CompareOffset(b.temporal, a.temporal),
              CompareOffset(b.temporal, c.temporal), CompareOffset(a.temporal, c.temporal))
  <2>1. EqPath(a, b) => a.temporal = b.temporal
    BY DEF EqPath, SameNumber
  <2>2. QED
    BY <1>1, <1>4, <2>1
<1>7. Ordered(CompareSpatial(a.spatial, b.spatial), CompareSpatial(b.spatial, a.spatial),
              CompareSpatial(b.spatial, c.spatial), CompareSpatial(a.spatial, c.spatial))
  <2>1. EqPath(a, b) => a.spatial = b.spatial
    <3> SUFFICES ASSUME EqPath(a, b) PROVE a.spatial = b.spatial
      OBVIOUS
    <3>1. CASE a.spatial = Absent \/ b.spatial = Absent
      BY <3>1 DEF EqPath
    <3>2. CASE a.spatial # Absent /\ b.spatial # Absent
      <4>1. a.spatial.x = b.spatial.x /\ a.spatial.y = b.spatial.y
        BY <3>2 DEF EqPath, SameNumber
      <4>2. a.spatial \in PointOfSpace /\ b.spatial \in PointOfSpace
        BY <1>1, <3>2
      <4>3. QED
        BY <4>1, <4>2 DEF PointOfSpace
    <3>3. QED
      BY <3>1, <3>2
  <2>2. QED
    BY <1>1, <2>1, SpatialCompare
<1>8. PathSigns(a, b) \in [1..5 -> Sign]
  BY <1>2, <1>3, <1>5, <1>6, <1>7 DEF PathSigns
<1>9. \A i \in 1..5 : i = 1 \/ i = 2 \/ i = 3 \/ i = 4 \/ i = 5
  OBVIOUS
<1>10. \A i \in 1..5 : Ordered(PathSigns(a, b)[i], PathSigns(b, a)[i],
                               PathSigns(b, c)[i], PathSigns(a, c)[i])
  <2> HIDE DEF Ordered
  <2>1. QED
    BY <1>2, <1>3, <1>5, <1>6, <1>7, <1>9 DEF PathSigns
<1>11. QED
  BY <1>8, <1>10

\* So paths are ordered, part by part.
LEMMA PathsCompare ==
    ASSUME NEW chars, NEW a \in PathOf(chars), NEW b \in PathOf(chars), NEW c \in PathOf(chars)
    PROVE  /\ ComparePath(a, b) \in Sign /\ ComparePath(a, b) = -ComparePath(b, a)
           /\ Chained(ComparePath(a, b), ComparePath(b, c), ComparePath(a, c))
           /\ EqPath(a, b) => ComparePath(a, b) = 0
<1>1. \A p, q \in {a, b, c} : ComparePath(p, q) = FirstDifference(PathSigns(p, q))
  BY DEF ComparePath, PathSigns
<1>2. \A p, q, r \in PathOf(chars) :
         /\ PathSigns(p, q) \in [1..5 -> Sign]
         /\ \A i \in 1..5 : /\ PathSigns(p, q)[i] = -PathSigns(q, p)[i]
                            /\ Chained(PathSigns(p, q)[i], PathSigns(q, r)[i], PathSigns(p, r)[i])
                            /\ EqPath(p, q) => PathSigns(p, q)[i] = 0
  BY PathPartsCompare
<1>3. 5 \in Nat
  OBVIOUS
<1> DEFINE ab == PathSigns(a, b)
           ba == PathSigns(b, a)
           bc == PathSigns(b, c)
           ac == PathSigns(a, c)
<1>4. /\ ab \in [1..5 -> Sign] /\ ba \in [1..5 -> Sign]
      /\ bc \in [1..5 -> Sign] /\ ac \in [1..5 -> Sign]
  BY <1>2
<1>5. \A i \in 1..5 : /\ ab[i] = -ba[i] /\ Chained(ab[i], bc[i], ac[i])
                      /\ EqPath(a, b) => ab[i] = 0
  BY <1>2
<1> HIDE DEF ab, ba, bc, ac
<1>6. /\ FirstDifference(ab) \in Sign /\ FirstDifference(ab) = -FirstDifference(ba)
  BY <1>3, <1>4, <1>5, FirstIsSign, SwappedSigns
<1>7. Chained(FirstDifference(ab), FirstDifference(bc), FirstDifference(ac))
  BY <1>3, <1>4, <1>5, Lexicographic
<1>8. EqPath(a, b) => FirstDifference(ab) = 0
  BY <1>3, <1>4, <1>5, NoDifference
<1>9. /\ ComparePath(a, b) = FirstDifference(ab) /\ ComparePath(b, a) = FirstDifference(ba)
      /\ ComparePath(b, c) = FirstDifference(bc) /\ ComparePath(a, c) = FirstDifference(ac)
  BY <1>1 DEF ab, ba, bc, ac
<1>10. QED
  BY <1>6, <1>7, <1>8, <1>9

\* CFIs are totally ordered, and equal ones are level.
LEMMA CfisCompare ==
    ASSUME NEW chars, NEW a \in CfiOf(chars), NEW b \in CfiOf(chars), NEW c \in CfiOf(chars)
    PROVE  /\ CompareCfi(a, b) \in Sign /\ CompareCfi(a, b) = -CompareCfi(b, a)
           /\ Chained(CompareCfi(a, b), CompareCfi(b, c), CompareCfi(a, c))
           /\ EqCfi(a, b) => CompareCfi(a, b) = 0
<1> DEFINE Signs(x, y) == <<ComparePath(x.parent, y.parent), ComparePath(x.start, y.start),
                            ComparePath(x.end, y.end)>>
           Kind(x) == IF x.kind = "point" THEN 0 ELSE 1
<1>1. \A x \in CfiOf(chars) : /\ x.kind \in {"point", "range"} /\ Kind(x) \in Int
                           /\ x.parent \in PathOf(chars) /\ x.start \in PathOf(chars)
                           /\ x.end \in PathOf(chars)
  BY DEF CfiOf
<1>2. \A p, q, r \in PathOf(chars) :
         /\ ComparePath(p, q) \in Sign /\ ComparePath(p, q) = -ComparePath(q, p)
         /\ Chained(ComparePath(p, q), ComparePath(q, r), ComparePath(p, r))
         /\ EqPath(p, q) => ComparePath(p, q) = 0
  BY PathsCompare
<1>3. \A x, y, z \in CfiOf(chars) :
         /\ Signs(x, y) \in [1..3 -> Sign]
         /\ \A i \in 1..3 : /\ Signs(x, y)[i] = -Signs(y, x)[i]
                            /\ Chained(Signs(x, y)[i], Signs(y, z)[i], Signs(x, z)[i])
  <2>1. TAKE x, y, z \in CfiOf(chars)
  <2>2. Signs(x, y) \in [1..3 -> Sign]
    BY <1>1, <1>2
  <2>3. \A i \in 1..3 : i = 1 \/ i = 2 \/ i = 3
    OBVIOUS
  <2>4. /\ Signs(x, y)[1] = -Signs(y, x)[1]
        /\ Chained(Signs(x, y)[1], Signs(y, z)[1], Signs(x, z)[1])
    BY <1>1, <1>2
  <2>5. /\ Signs(x, y)[2] = -Signs(y, x)[2]
        /\ Chained(Signs(x, y)[2], Signs(y, z)[2], Signs(x, z)[2])
    BY <1>1, <1>2
  <2>6. /\ Signs(x, y)[3] = -Signs(y, x)[3]
        /\ Chained(Signs(x, y)[3], Signs(y, z)[3], Signs(x, z)[3])
    BY <1>1, <1>2
  <2> HIDE DEF Signs
  <2>7. QED
    BY <2>2, <2>3, <2>4, <2>5, <2>6
<1>4. \A x, y, z \in CfiOf(chars) :
         /\ FirstDifference(Signs(x, y)) \in Sign
         /\ FirstDifference(Signs(x, y)) = -FirstDifference(Signs(y, x))
         /\ Chained(FirstDifference(Signs(x, y)), FirstDifference(Signs(y, z)),
                    FirstDifference(Signs(x, z)))
  <2>1. TAKE x, y, z \in CfiOf(chars)
  <2> DEFINE xy == Signs(x, y)
             yx == Signs(y, x)
             yz == Signs(y, z)
             xz == Signs(x, z)
  <2>2. /\ xy \in [1..3 -> Sign] /\ yx \in [1..3 -> Sign] /\ yz \in [1..3 -> Sign]
        /\ xz \in [1..3 -> Sign] /\ 3 \in Nat
        /\ \A i \in 1..3 : xy[i] = -yx[i] /\ Chained(xy[i], yz[i], xz[i])
    <3>1. /\ Signs(x, y) \in [1..3 -> Sign] /\ Signs(y, x) \in [1..3 -> Sign]
          /\ Signs(y, z) \in [1..3 -> Sign] /\ Signs(x, z) \in [1..3 -> Sign]
      BY <1>3
    <3>2. \A i \in 1..3 : /\ Signs(x, y)[i] = -Signs(y, x)[i]
                          /\ Chained(Signs(x, y)[i], Signs(y, z)[i], Signs(x, z)[i])
      BY <1>3
    <3> HIDE DEF Signs
    <3>3. QED
      BY <3>1, <3>2
  <2> HIDE DEF xy, yx, yz, xz, Signs
  <2>3. /\ FirstDifference(xy) \in Sign /\ FirstDifference(xy) = -FirstDifference(yx)
        /\ Chained(FirstDifference(xy), FirstDifference(yz), FirstDifference(xz))
    BY <2>2, FirstIsSign, SwappedSigns, Lexicographic
  <2>4. QED
    BY <2>3 DEF xy, yx, yz, xz
<1>5. \A x, y \in CfiOf(chars) :
         CompareCfi(x, y) = IF Kind(x) # Kind(y) THEN Cmp(Kind(x), Kind(y))
                            ELSE IF Kind(x) = 0 THEN ComparePath(x.parent, y.parent)
                            ELSE FirstDifference(Signs(x, y))
  BY <1>1 DEF CompareCfi, Cmp
<1>6. EqCfi(a, b) => CompareCfi(a, b) = 0
  <2> SUFFICES ASSUME EqCfi(a, b) PROVE CompareCfi(a, b) = 0
    OBVIOUS
  <2>1. /\ a.kind = b.kind /\ ComparePath(a.parent, b.parent) = 0
        /\ ComparePath(a.start, b.start) = 0 /\ ComparePath(a.end, b.end) = 0
    BY <1>1, <1>2 DEF EqCfi
  <2>2. \A i \in 1..3 : Signs(a, b)[i] = 0
    BY <2>1
  <2>3. Signs(a, b) \in [1..3 -> Sign] /\ 3 \in Nat
    BY <1>3
  <2>4. FirstDifference(Signs(a, b)) = 0
    <3> HIDE DEF Signs
    <3>1. QED
      BY <2>2, <2>3, NoDifference
  <2>5. QED
    BY <2>1, <2>4 DEF CompareCfi
<1> HIDE DEF Signs
<1>7. \A x, y \in CfiOf(chars) : CompareCfi(x, y) \in Sign /\ CompareCfi(x, y) = -CompareCfi(y, x)
  <2>1. TAKE x, y \in CfiOf(chars)
  <2>2. /\ Kind(x) \in Int /\ Kind(y) \in Int
        /\ ComparePath(x.parent, y.parent) \in Sign
        /\ ComparePath(x.parent, y.parent) = -ComparePath(y.parent, x.parent)
    BY <1>1, <1>2
  <2> HIDE DEF Kind
  <2>3. QED
    BY <1>4, <1>5, <2>2, NumbersCompare
<1>8. Chained(CompareCfi(a, b), CompareCfi(b, c), CompareCfi(a, c))
  <2>1. /\ Chained(ComparePath(a.parent, b.parent), ComparePath(b.parent, c.parent),
                   ComparePath(a.parent, c.parent))
        /\ Chained(FirstDifference(Signs(a, b)), FirstDifference(Signs(b, c)),
                   FirstDifference(Signs(a, c)))
    BY <1>1, <1>2, <1>4
  <2>2. Kind(a) \in {0, 1} /\ Kind(b) \in {0, 1} /\ Kind(c) \in {0, 1}
    OBVIOUS
  <2>3. CASE Kind(a) = Kind(b) /\ Kind(b) = Kind(c)
    <3> HIDE DEF Kind
    <3>1. QED
      BY <1>5, <2>1, <2>3
  <2>4. CASE ~(Kind(a) = Kind(b) /\ Kind(b) = Kind(c))
    <3>1. /\ Kind(a) # Kind(b) => CompareCfi(a, b) = Cmp(Kind(a), Kind(b))
          /\ Kind(b) # Kind(c) => CompareCfi(b, c) = Cmp(Kind(b), Kind(c))
          /\ Kind(a) # Kind(c) => CompareCfi(a, c) = Cmp(Kind(a), Kind(c))
      BY <1>5
    <3> HIDE DEF Kind
    <3>2. CompareCfi(a, b) <= 0 /\ CompareCfi(b, c) <= 0 => Kind(a) = 0 /\ Kind(c) = 1
      BY <2>2, <2>4, <3>1 DEF Cmp
    <3>3. Kind(a) = 0 /\ Kind(c) = 1 => CompareCfi(a, c) = -1
      BY <3>1 DEF Cmp
    <3>4. CompareCfi(a, b) # 0 \/ CompareCfi(b, c) # 0
      BY <2>2, <2>4, <3>1 DEF Cmp
    <3>5. QED
      BY <3>2, <3>3, <3>4 DEF Chained
  <2>5. QED
    BY <2>3, <2>4
<1>9. QED
  BY <1>6, <1>7, <1>8

-----------------------------------------------------------------------------
\* The digits of a number are a number.
LEMMA NumbersRead ==
    ASSUME NEW chars, NEW s \in Seq(chars)
    PROVE  ParseNat(s) \in Nat \cup {Malformed}
<1> SUFFICES ASSUME s # << >>, ToSet(s) \subseteq Digits
             PROVE  ParseNat(s) \in Nat
  BY DEF ParseNat
<1> DEFINE Value(d) == (CHOOSE i \in DOMAIN Digit : Digit[i] = d) - 1
           FoldTable(g) == g = [A \in SUBSET (DOMAIN s) |->
                             IF A = {} THEN 0 ELSE 10 * g[A \ {Max(A)}] + Value(s[Max(A)])]
           fold == CHOOSE g : FoldTable(g)
           n == Len(s)
<1>1. ParseNat(s) = fold[DOMAIN s]
  BY DEF ParseNat, FoldLeft, MapThenFoldSet
<1>2. n \in Nat /\ DOMAIN s = 1..n
  OBVIOUS
<1>3. \A i \in 1..n : Value(s[i]) \in Nat
  <2>1. TAKE i \in 1..n
  <2>2. s[i] \in Digits
    BY DEF ToSet
  <2>3. \E j \in DOMAIN Digit : Digit[j] = s[i]
    BY <2>2 DEF Digits
  <2>4. DOMAIN Digit = 1..10
    BY DEF Digit
  <2>5. QED
    BY <2>3, <2>4
<1> HIDE DEF Value, n
<1>4. PICK g \in [SUBSET (1..n) -> Nat] :
         /\ g[{}] = 0
         /\ \A A \in SUBSET (1..n) : A # {} =>
               g[A] = 10 * g[A \ {Max(A)}] + Value(s[Max(A)])
  <2> DEFINE step == [i \in 1..n |-> [x \in Nat |-> 10 * x + Value(s[i])]]
  <2>1. step \in [1..n -> [Nat -> Nat]]
    BY <1>3
  <2>2. PICK g : IsFold(g, Nat, n, 0, step)
    <3> HIDE DEF step
    <3>1. QED
      BY <1>2, <2>1, FoldDefined
  <2>3. ASSUME NEW A \in SUBSET (1..n), A # {}
        PROVE  g[A] = 10 * g[A \ {Max(A)}] + Value(s[Max(A)])
    <3>1. Max(A) \in 1..n
      BY <1>2, <2>3, MaxMember
    <3>2. g[A \ {Max(A)}] \in Nat
      <4>1. A \ {Max(A)} \in SUBSET (1..n)
        OBVIOUS
      <4>2. QED
        BY <2>2, <4>1 DEF IsFold
    <3>3. step[Max(A)][g[A \ {Max(A)}]] = 10 * g[A \ {Max(A)}] + Value(s[Max(A)])
      BY <3>1, <3>2
    <3>4. g[A] = step[Max(A)][g[A \ {Max(A)}]]
      BY <2>2, <2>3 DEF IsFold
    <3>5. QED
      BY <3>3, <3>4
  <2>4. QED
    BY <2>2, <2>3 DEF IsFold
<1>5. FoldTable(g)
  <2> DEFINE h == [A \in SUBSET (1..n) |->
                     IF A = {} THEN 0 ELSE 10 * g[A \ {Max(A)}] + Value(s[Max(A)])]
  <2>1. \A A \in SUBSET (1..n) : g[A] = h[A]
    BY <1>4
  <2>2. g = h
    <3> HIDE DEF h
    <3>1. h \in [SUBSET (1..n) -> Nat] \/ DOMAIN h = SUBSET (1..n)
      BY DEF h
    <3>2. g = [A \in SUBSET (1..n) |-> g[A]]
      BY <1>4
    <3>3. h = [A \in SUBSET (1..n) |-> h[A]]
      BY DEF h
    <3>4. QED
      BY <2>1, <3>2, <3>3
  <2>3. QED
    BY <1>2, <2>2
<1>6. FoldTable(fold)
  <2> HIDE DEF FoldTable
  <2>1. QED
    BY <1>5
<1> HIDE DEF fold
<1>7. \A A \in SUBSET (1..n) :
         fold[A] = IF A = {} THEN 0 ELSE 10 * fold[A \ {Max(A)}] + Value(s[Max(A)])
  BY <1>2, <1>6
<1> DEFINE N == {k \in 0..n : fold[1..k] \in Nat}
<1>8. 0 \in N
  <2>1. 1..0 = {} /\ {} \in SUBSET (1..n) /\ 0 \in 0..n
    BY <1>2
  <2>2. fold[{}] = 0
    BY <1>7, <2>1
  <2>3. QED
    BY <2>1, <2>2
<1>9. ASSUME NEW k \in 0..(n - 1), k \in N
      PROVE  k + 1 \in N
  <2>1. k + 1 \in 1..n /\ (k + 1) - 1 = k
    BY <1>2
  <2> DEFINE A == 1..(k + 1)
  <2>2. A \in SUBSET (1..n) /\ A # {} /\ Max(A) = k + 1 /\ A \ {Max(A)} = 1..k
    BY <1>2, <2>1, PrefixMax
  <2>3. fold[A] = 10 * fold[1..k] + Value(s[k + 1])
    <3> HIDE DEF A
    <3>1. fold[A] = 10 * fold[A \ {Max(A)}] + Value(s[Max(A)])
      BY <1>7, <2>2
    <3>2. QED
      BY <2>2, <3>1, Zenon
  <2>4. k + 1 \in 0..n /\ fold[1..k] \in Nat /\ Value(s[k + 1]) \in Nat
    BY <1>3, <1>9, <2>1
  <2>5. QED
    BY <2>3, <2>4
<1>10. n \in N
  <2>1. n \in 0..n
    BY <1>2
  <2> HIDE DEF N
  <2>2. QED
    BY <1>2, <1>8, <1>9, <2>1, BoundedInduction
<1>11. QED
  BY <1>1, <1>2, <1>10

-----------------------------------------------------------------------------
SplitState(chars) ==
    [parts : Seq(Seq(chars)), last : Seq(chars), depth : Nat, escaped : BOOLEAN]

\* A step of the range splitter keeps texts.
LEMMA SplitStepTyped ==
    ASSUME NEW chars, NEW acc \in SplitState(chars), NEW c \in chars
    PROVE  SplitStep(acc, c) \in SplitState(chars)
<1>1. Append(acc.last, c) \in Seq(chars) /\ Append(acc.parts, acc.last) \in Seq(Seq(chars))
  BY DEF SplitState
<1>2. KeepInPart(acc, c) \in SplitState(chars)
  BY <1>1 DEF SplitState, KeepInPart
<1>3. \A st \in SplitState(chars) :
         /\ [st EXCEPT !.escaped = FALSE] \in SplitState(chars)
         /\ [st EXCEPT !.escaped = TRUE] \in SplitState(chars)
  BY DEF SplitState
<1>4. \A st \in SplitState(chars) :
         /\ [st EXCEPT !.depth = @ + 1] \in SplitState(chars)
         /\ [st EXCEPT !.depth = IF @ = 0 THEN 0 ELSE @ - 1] \in SplitState(chars)
  <2>1. TAKE st \in SplitState(chars)
  <2>2. \A d \in Nat : [st EXCEPT !.depth = d] \in SplitState(chars)
    BY DEF SplitState
  <2>3. st.depth \in Nat
    BY DEF SplitState
  <2>4. st.depth + 1 \in Nat /\ (IF st.depth = 0 THEN 0 ELSE st.depth - 1) \in Nat
    BY <2>3
  <2>5. QED
    BY <2>2, <2>4
<1>5. [acc EXCEPT !.parts = Append(@, acc.last), !.last = << >>] \in SplitState(chars)
  <2>1. << >> \in Seq(chars)
    OBVIOUS
  <2>2. QED
    BY <1>1, <2>1 DEF SplitState
<1>6. QED
  BY <1>2, <1>3, <1>4, <1>5 DEF SplitStep

TerminusState == [found : Nat, at : Nat, escaped : BOOLEAN, inside : BOOLEAN]

\* The terminus scan moves on until it finds a mark, and then stays.
LEMMA TerminusStepTyped ==
    ASSUME NEW acc \in TerminusState, NEW c
    PROVE  /\ TerminusStep(acc, c) \in TerminusState
           /\ TerminusStep(acc, c).found \in {acc.found, acc.at}
           /\ acc.found # 0 => TerminusStep(acc, c).found = acc.found
           /\ acc.found = 0 => TerminusStep(acc, c).at = acc.at + 1
           /\ acc.found = 0 /\ TerminusStep(acc, c).found # 0 => c \in {":", "~", "@"}
<1> DEFINE next == [acc EXCEPT !.at = @ + 1]
<1>1. next \in TerminusState /\ next.at = acc.at + 1 /\ next.found = acc.found
  BY DEF TerminusState
<1>2. acc.at \in Nat
  BY DEF TerminusState
<1> DEFINE Follows(after) == /\ after \in TerminusState /\ after.at = acc.at + 1
                             /\ after.found = acc.found
<1> HIDE DEF next
<1>3. Follows([next EXCEPT !.escaped = FALSE]) /\ Follows([next EXCEPT !.escaped = TRUE])
  BY <1>1 DEF TerminusState
<1>4. Follows([next EXCEPT !.inside = FALSE]) /\ Follows([next EXCEPT !.inside = TRUE])
  BY <1>1 DEF TerminusState
<1>5. /\ [next EXCEPT !.found = acc.at] \in TerminusState
      /\ [next EXCEPT !.found = acc.at].at = acc.at + 1
      /\ [next EXCEPT !.found = acc.at].found = acc.at
  BY <1>1, <1>2 DEF TerminusState
<1>6. Follows(next)
  BY <1>1
<1>7. \/ acc.found # 0 /\ TerminusStep(acc, c) = acc
      \/ acc.found = 0 /\ Follows(TerminusStep(acc, c))
      \/ /\ acc.found = 0 /\ c \in {":", "~", "@"}
         /\ TerminusStep(acc, c) = [next EXCEPT !.found = acc.at]
  <2> HIDE DEF Follows
  <2>1. QED
    BY <1>3, <1>4, <1>6 DEF TerminusStep, next
<1>8. QED
  BY <1>5, <1>7

StepState(chars) ==
    [index : Seq(chars), assertion : Seq(chars), has : BOOLEAN, inside : BOOLEAN,
     escaped : BOOLEAN]
StepsState(chars) == [done : Seq(StepState(chars)), step : StepState(chars)]

\* A step of the step scan keeps texts.
LEMMA StepsStepTyped ==
    ASSUME NEW chars, NEW acc \in StepsState(chars), NEW c \in chars
    PROVE  StepsStep(acc, c) \in StepsState(chars)
<1>1. acc.step \in StepState(chars) /\ acc.done \in Seq(StepState(chars))
  BY DEF StepsState
<1>2. Finished(acc.done, acc.step) \in Seq(StepState(chars))
  BY <1>1 DEF Finished
<1>3. NoStep \in StepState(chars)
  BY DEF NoStep, StepState
<1>4. KeepInStep(acc.step, c) \in StepState(chars)
  <2>1. Append(acc.step.assertion, c) \in Seq(chars) /\ Append(acc.step.index, c) \in Seq(chars)
    BY <1>1 DEF StepState
  <2>2. [acc.step EXCEPT !.assertion = Append(@, c)] \in StepState(chars)
    BY <1>1, <2>1 DEF StepState
  <2>3. [acc.step EXCEPT !.index = Append(@, c)] \in StepState(chars)
    BY <1>1, <2>1 DEF StepState
  <2>4. QED
    BY <2>2, <2>3 DEF KeepInStep
<1>5. \A st \in StepState(chars) :
         /\ [st EXCEPT !.escaped = TRUE] \in StepState(chars)
         /\ [st EXCEPT !.escaped = FALSE] \in StepState(chars)
         /\ [st EXCEPT !.inside = TRUE] \in StepState(chars)
         /\ [st EXCEPT !.inside = FALSE, !.has = TRUE] \in StepState(chars)
  BY DEF StepState
<1>6. \A st \in StepState(chars) : [acc EXCEPT !.step = st] \in StepsState(chars)
  BY DEF StepsState
<1>7. [acc EXCEPT !.step = [KeepInStep(@, c) EXCEPT !.escaped = FALSE]] \in StepsState(chars)
  BY <1>4, <1>5, <1>6
<1>8. [acc EXCEPT !.step.escaped = TRUE] \in StepsState(chars)
  BY <1>1, <1>5, <1>6
<1>9. [done |-> Finished(acc.done, acc.step), step |-> NoStep] \in StepsState(chars)
  BY <1>2, <1>3 DEF StepsState
<1>10. [acc EXCEPT !.step.inside = TRUE] \in StepsState(chars)
  BY <1>1, <1>5, <1>6
<1>11. [acc EXCEPT !.step.inside = FALSE, !.step.has = TRUE] \in StepsState(chars)
  BY <1>1, <1>5, <1>6
<1>12. [acc EXCEPT !.step = KeepInStep(@, c)] \in StepsState(chars)
  BY <1>4, <1>6
<1>13. QED
  BY <1>7, <1>8, <1>9, <1>10, <1>11, <1>12 DEF StepsStep

\* What the step scan leaves is a list of steps as they stand in the text.
LEMMA StepsScannedTyped ==
    ASSUME NEW chars, NEW acc \in StepsState(chars)
    PROVE  StepsScanned(acc) \in Seq(StepState(chars))
<1>1. acc.step \in StepState(chars) /\ acc.done \in Seq(StepState(chars))
  BY DEF StepsState
<1>2. QED
  BY <1>1 DEF StepsScanned, Finished

\* The parts of a text between its commas are texts.
LEMMA SplitScanned ==
    ASSUME NEW chars, NEW s \in Seq(chars)
    PROVE  SplitTopLevel(s) \in Seq(Seq(chars))
<1> DEFINE n == Len(s)
           X == SplitState(chars)
           base == [parts |-> << >>, last |-> << >>, depth |-> 0, escaped |-> FALSE]
           FoldTable(g) == g = [A \in SUBSET (DOMAIN s) |->
                             IF A = {} THEN base ELSE SplitStep(g[A \ {Max(A)}], s[Max(A)])]
           fold == CHOOSE g : FoldTable(g)
<1>1. FoldLeft(SplitStep, [parts |-> << >>, last |-> << >>, depth |-> 0, escaped |-> FALSE], s)
        = fold[DOMAIN s]
  BY DEF FoldLeft, MapThenFoldSet
<1>2. n \in Nat /\ DOMAIN s = 1..n /\ \A i \in 1..n : s[i] \in chars
  OBVIOUS
<1>3. base \in X
  BY DEF SplitState
<1> HIDE DEF n, X, base
<1>4. \A x \in X : \A i \in 1..n : SplitStep(x, s[i]) \in X
  BY <1>2, SplitStepTyped DEF X
<1>5. \E g : FoldTable(g)
  <2> DEFINE step == [i \in 1..n |-> [x \in X |-> SplitStep(x, s[i])]]
  <2>1. step \in [1..n -> [X -> X]]
    BY <1>4
  <2>2. PICK g : IsFold(g, X, n, base, step)
    <3> HIDE DEF step
    <3>1. QED
      BY <1>2, <1>3, <2>1, FoldDefined
  <2>3. ASSUME NEW A \in SUBSET (1..n), A # {}
        PROVE  g[A] = SplitStep(g[A \ {Max(A)}], s[Max(A)])
    <3>1. Max(A) \in 1..n
      BY <1>2, <2>3, MaxMember
    <3>2. g[A \ {Max(A)}] \in X
      BY <2>2 DEF IsFold
    <3>3. step[Max(A)][g[A \ {Max(A)}]] = SplitStep(g[A \ {Max(A)}], s[Max(A)])
      BY <3>1, <3>2
    <3>4. g[A] = step[Max(A)][g[A \ {Max(A)}]]
      BY <2>2, <2>3 DEF IsFold
    <3>5. QED
      BY <3>3, <3>4
  <2>4. g = [A \in SUBSET (1..n) |-> g[A]] /\ g[{}] = base
    BY <2>2 DEF IsFold
  <2>5. FoldTable(g)
    <3> DEFINE h == [A \in SUBSET (1..n) |->
                       IF A = {} THEN base ELSE SplitStep(g[A \ {Max(A)}], s[Max(A)])]
    <3>1. \A A \in SUBSET (1..n) : g[A] = h[A]
      BY <2>3, <2>4
    <3>2. h = [A \in SUBSET (1..n) |-> h[A]]
      OBVIOUS
    <3>3. g = h
      <4> HIDE DEF h
      <4>1. QED
        BY <2>4, <3>1, <3>2
    <3>4. QED
      BY <1>2, <3>3
  <2> HIDE DEF FoldTable
  <2>6. QED
    BY <2>5
<1>6. FoldTable(fold)
  <2> HIDE DEF FoldTable
  <2>1. QED
    BY <1>5
<1> HIDE DEF fold
<1>7. \A A \in SUBSET (1..n) :
         fold[A] = IF A = {} THEN base ELSE SplitStep(fold[A \ {Max(A)}], s[Max(A)])
  BY <1>2, <1>6
<1> DEFINE Holds(k, acc) == acc \in X
           N == {k \in 0..n : Holds(k, fold[1..k])}
<1>8. 0 \in N
  <2>1. 1..0 = {} /\ {} \in SUBSET (1..n) /\ 0 \in 0..n
    BY <1>2
  <2>2. fold[{}] = base
    BY <1>7, <2>1
  <2>3. Holds(0, base)
    BY <1>3
  <2> HIDE DEF Holds
  <2>4. QED
    BY <2>1, <2>2, <2>3
<1>9. ASSUME NEW k \in 0..(n - 1), k \in N
      PROVE  k + 1 \in N
  <2>1. k + 1 \in 1..n /\ k + 1 \in 0..n
    BY <1>2
  <2> DEFINE A == 1..(k + 1)
  <2>2. A \in SUBSET (1..n) /\ A # {} /\ Max(A) = k + 1 /\ A \ {Max(A)} = 1..k
    BY <1>2, <2>1, PrefixMax
  <2>3. fold[A] = SplitStep(fold[1..k], s[k + 1])
    <3> HIDE DEF A
    <3>1. fold[A] = SplitStep(fold[A \ {Max(A)}], s[Max(A)])
      BY <1>7, <2>2
    <3>2. QED
      BY <2>2, <3>1, Zenon
  <2>4. Holds(k, fold[1..k])
    BY <1>9
  <2>5. Holds(k + 1, SplitStep(fold[1..k], s[k + 1]))
    BY <1>4, <2>1, <2>4
  <2> HIDE DEF Holds
  <2>6. QED
    BY <2>1, <2>3, <2>5
<1>10. n \in N
  <2>1. n \in 0..n
    BY <1>2
  <2> HIDE DEF N
  <2>2. QED
    BY <1>2, <1>8, <1>9, <2>1, BoundedInduction
<1>11. QED
  BY <1>1, <1>2, <1>10 DEF SplitTopLevel, AllParts, X, SplitState

\* The mark of the terminus, if there is one, stands in the text.
LEMMA TerminusFound ==
    ASSUME NEW chars, NEW s \in Seq(chars)
    PROVE  \/ TerminusAt(s) = 0
           \/ TerminusAt(s) \in 1..Len(s) /\ s[TerminusAt(s)] \in {":", "~", "@"}
<1> DEFINE n == Len(s)
           X == TerminusState
           base == [found |-> 0, at |-> 1, escaped |-> FALSE, inside |-> FALSE]
           FoldTable(g) == g = [A \in SUBSET (DOMAIN s) |->
                             IF A = {} THEN base ELSE TerminusStep(g[A \ {Max(A)}], s[Max(A)])]
           fold == CHOOSE g : FoldTable(g)
<1>1. FoldLeft(TerminusStep, [found |-> 0, at |-> 1, escaped |-> FALSE, inside |-> FALSE], s)
        = fold[DOMAIN s]
  BY DEF FoldLeft, MapThenFoldSet
<1>2. n \in Nat /\ DOMAIN s = 1..n /\ \A i \in 1..n : s[i] \in chars
  OBVIOUS
<1>3. base \in X
  BY DEF TerminusState
<1> HIDE DEF n, X, base
<1>4. \A x \in X : \A i \in 1..n : TerminusStep(x, s[i]) \in X
  BY <1>2, TerminusStepTyped DEF X
<1>5. \E g : FoldTable(g)
  <2> DEFINE step == [i \in 1..n |-> [x \in X |-> TerminusStep(x, s[i])]]
  <2>1. step \in [1..n -> [X -> X]]
    BY <1>4
  <2>2. PICK g : IsFold(g, X, n, base, step)
    <3> HIDE DEF step
    <3>1. QED
      BY <1>2, <1>3, <2>1, FoldDefined
  <2>3. ASSUME NEW A \in SUBSET (1..n), A # {}
        PROVE  g[A] = TerminusStep(g[A \ {Max(A)}], s[Max(A)])
    <3>1. Max(A) \in 1..n
      BY <1>2, <2>3, MaxMember
    <3>2. g[A \ {Max(A)}] \in X
      BY <2>2 DEF IsFold
    <3>3. step[Max(A)][g[A \ {Max(A)}]] = TerminusStep(g[A \ {Max(A)}], s[Max(A)])
      BY <3>1, <3>2
    <3>4. g[A] = step[Max(A)][g[A \ {Max(A)}]]
      BY <2>2, <2>3 DEF IsFold
    <3>5. QED
      BY <3>3, <3>4
  <2>4. g = [A \in SUBSET (1..n) |-> g[A]] /\ g[{}] = base
    BY <2>2 DEF IsFold
  <2>5. FoldTable(g)
    <3> DEFINE h == [A \in SUBSET (1..n) |->
                       IF A = {} THEN base ELSE TerminusStep(g[A \ {Max(A)}], s[Max(A)])]
    <3>1. \A A \in SUBSET (1..n) : g[A] = h[A]
      BY <2>3, <2>4
    <3>2. h = [A \in SUBSET (1..n) |-> h[A]]
      OBVIOUS
    <3>3. g = h
      <4> HIDE DEF h
      <4>1. QED
        BY <2>4, <3>1, <3>2
    <3>4. QED
      BY <1>2, <3>3
  <2> HIDE DEF FoldTable
  <2>6. QED
    BY <2>5
<1>6. FoldTable(fold)
  <2> HIDE DEF FoldTable
  <2>1. QED
    BY <1>5
<1> HIDE DEF fold
<1>7. \A A \in SUBSET (1..n) :
         fold[A] = IF A = {} THEN base ELSE TerminusStep(fold[A \ {Max(A)}], s[Max(A)])
  BY <1>2, <1>6
<1> DEFINE Holds(k, acc) ==
             /\ acc \in X
             /\ acc.found = 0 => acc.at = k + 1
             /\ acc.found # 0 => acc.found \in 1..n /\ s[acc.found] \in {":", "~", "@"}
           N == {k \in 0..n : Holds(k, fold[1..k])}
<1>8. 0 \in N
  <2>1. 1..0 = {} /\ {} \in SUBSET (1..n) /\ 0 \in 0..n
    BY <1>2
  <2>2. fold[{}] = base
    BY <1>7, <2>1
  <2>3. Holds(0, base)
    BY <1>3 DEF base
  <2> HIDE DEF Holds
  <2>4. QED
    BY <2>1, <2>2, <2>3
<1>9. ASSUME NEW k \in 0..(n - 1), k \in N
      PROVE  k + 1 \in N
  <2>1. k + 1 \in 1..n /\ k + 1 \in 0..n
    BY <1>2
  <2> DEFINE A == 1..(k + 1)
  <2>2. A \in SUBSET (1..n) /\ A # {} /\ Max(A) = k + 1 /\ A \ {Max(A)} = 1..k
    BY <1>2, <2>1, PrefixMax
  <2>3. fold[A] = TerminusStep(fold[1..k], s[k + 1])
    <3> HIDE DEF A
    <3>1. fold[A] = TerminusStep(fold[A \ {Max(A)}], s[Max(A)])
      BY <1>7, <2>2
    <3>2. QED
      BY <2>2, <3>1, Zenon
  <2>4. Holds(k, fold[1..k])
    BY <1>9
  <2>5. Holds(k + 1, TerminusStep(fold[1..k], s[k + 1]))
    <3> DEFINE acc == fold[1..k]
               after == TerminusStep(acc, s[k + 1])
    <3>1. acc \in TerminusState
      BY <2>4 DEF X
    <3>2. /\ after \in TerminusState /\ after.found \in {acc.found, acc.at}
          /\ acc.found # 0 => after.found = acc.found
          /\ acc.found = 0 => after.at = acc.at + 1
          /\ acc.found = 0 /\ after.found # 0 => s[k + 1] \in {":", "~", "@"}
      BY <3>1, TerminusStepTyped
    <3>3. Holds(k, acc)
      BY <2>4
    <3> HIDE DEF acc, after
    <3>4. after.found # 0 => after.found \in 1..n /\ s[after.found] \in {":", "~", "@"}
      <4>1. CASE acc.found = 0
        BY <2>1, <3>2, <3>3, <4>1
      <4>2. CASE acc.found # 0
        BY <3>2, <3>3, <4>2
      <4>3. QED
        BY <4>1, <4>2
    <3>5. after.found = 0 => after.at = (k + 1) + 1
      BY <2>1, <3>2, <3>3
    <3>6. Holds(k + 1, after)
      BY <3>2, <3>4, <3>5 DEF X
    <3>7. QED
      BY <3>6 DEF acc, after
  <2> HIDE DEF Holds
  <2>6. QED
    BY <2>1, <2>3, <2>5
<1>10. n \in N
  <2>1. n \in 0..n
    BY <1>2
  <2> HIDE DEF N
  <2>2. QED
    BY <1>2, <1>8, <1>9, <2>1, BoundedInduction
<1>11. QED
  BY <1>1, <1>2, <1>10 DEF TerminusAt

\* The steps the scan leaves are steps as they stand in the text.
LEMMA StepsTyped ==
    ASSUME NEW chars, NEW s \in Seq(chars)
    PROVE  StepsScanned(FoldLeft(StepsStep, [done |-> << >>, step |-> NoStep], s))
              \in Seq(StepState(chars))
<1> DEFINE n == Len(s)
           X == StepsState(chars)
           base == [done |-> << >>, step |-> NoStep]
           FoldTable(g) == g = [A \in SUBSET (DOMAIN s) |->
                             IF A = {} THEN base ELSE StepsStep(g[A \ {Max(A)}], s[Max(A)])]
           fold == CHOOSE g : FoldTable(g)
<1>1. FoldLeft(StepsStep, [done |-> << >>, step |-> NoStep], s) = fold[DOMAIN s]
  BY DEF FoldLeft, MapThenFoldSet
<1>2. n \in Nat /\ DOMAIN s = 1..n /\ \A i \in 1..n : s[i] \in chars
  OBVIOUS
<1>3. base \in X
  BY DEF StepsState, StepState, NoStep
<1> HIDE DEF n, X, base
<1>4. \A x \in X : \A i \in 1..n : StepsStep(x, s[i]) \in X
  BY <1>2, StepsStepTyped DEF X
<1>5. \E g : FoldTable(g)
  <2> DEFINE step == [i \in 1..n |-> [x \in X |-> StepsStep(x, s[i])]]
  <2>1. step \in [1..n -> [X -> X]]
    BY <1>4
  <2>2. PICK g : IsFold(g, X, n, base, step)
    <3> HIDE DEF step
    <3>1. QED
      BY <1>2, <1>3, <2>1, FoldDefined
  <2>3. ASSUME NEW A \in SUBSET (1..n), A # {}
        PROVE  g[A] = StepsStep(g[A \ {Max(A)}], s[Max(A)])
    <3>1. Max(A) \in 1..n
      BY <1>2, <2>3, MaxMember
    <3>2. g[A \ {Max(A)}] \in X
      BY <2>2 DEF IsFold
    <3>3. step[Max(A)][g[A \ {Max(A)}]] = StepsStep(g[A \ {Max(A)}], s[Max(A)])
      BY <3>1, <3>2
    <3>4. g[A] = step[Max(A)][g[A \ {Max(A)}]]
      BY <2>2, <2>3 DEF IsFold
    <3>5. QED
      BY <3>3, <3>4
  <2>4. g = [A \in SUBSET (1..n) |-> g[A]] /\ g[{}] = base
    BY <2>2 DEF IsFold
  <2>5. FoldTable(g)
    <3> DEFINE h == [A \in SUBSET (1..n) |->
                       IF A = {} THEN base ELSE StepsStep(g[A \ {Max(A)}], s[Max(A)])]
    <3>1. \A A \in SUBSET (1..n) : g[A] = h[A]
      BY <2>3, <2>4
    <3>2. h = [A \in SUBSET (1..n) |-> h[A]]
      OBVIOUS
    <3>3. g = h
      <4> HIDE DEF h
      <4>1. QED
        BY <2>4, <3>1, <3>2
    <3>4. QED
      BY <1>2, <3>3
  <2> HIDE DEF FoldTable
  <2>6. QED
    BY <2>5
<1>6. FoldTable(fold)
  <2> HIDE DEF FoldTable
  <2>1. QED
    BY <1>5
<1> HIDE DEF fold
<1>7. \A A \in SUBSET (1..n) :
         fold[A] = IF A = {} THEN base ELSE StepsStep(fold[A \ {Max(A)}], s[Max(A)])
  BY <1>2, <1>6
<1> DEFINE Holds(k, acc) == acc \in X
           N == {k \in 0..n : Holds(k, fold[1..k])}
<1>8. 0 \in N
  <2>1. 1..0 = {} /\ {} \in SUBSET (1..n) /\ 0 \in 0..n
    BY <1>2
  <2>2. fold[{}] = base
    BY <1>7, <2>1
  <2>3. Holds(0, base)
    BY <1>3
  <2> HIDE DEF Holds
  <2>4. QED
    BY <2>1, <2>2, <2>3
<1>9. ASSUME NEW k \in 0..(n - 1), k \in N
      PROVE  k + 1 \in N
  <2>1. k + 1 \in 1..n /\ k + 1 \in 0..n
    BY <1>2
  <2> DEFINE A == 1..(k + 1)
  <2>2. A \in SUBSET (1..n) /\ A # {} /\ Max(A) = k + 1 /\ A \ {Max(A)} = 1..k
    BY <1>2, <2>1, PrefixMax
  <2>3. fold[A] = StepsStep(fold[1..k], s[k + 1])
    <3> HIDE DEF A
    <3>1. fold[A] = StepsStep(fold[A \ {Max(A)}], s[Max(A)])
      BY <1>7, <2>2
    <3>2. QED
      BY <2>2, <3>1, Zenon
  <2>4. Holds(k, fold[1..k])
    BY <1>9
  <2>5. Holds(k + 1, StepsStep(fold[1..k], s[k + 1]))
    BY <1>4, <2>1, <2>4
  <2> HIDE DEF Holds
  <2>6. QED
    BY <2>1, <2>3, <2>5
<1>10. n \in N
  <2>1. n \in 0..n
    BY <1>2
  <2> HIDE DEF N
  <2>2. QED
    BY <1>2, <1>8, <1>9, <2>1, BoundedInduction
<1>11. QED
  BY <1>1, <1>2, <1>10, StepsScannedTyped DEF X

-----------------------------------------------------------------------------
\* Steps parsed have numbers for indices and texts for assertions.
LEMMA StepsParsed ==
    ASSUME NEW chars, NEW s \in Seq(chars)
    PROVE  ParseSteps(s) \in Seq(StepOf(chars)) \cup {Malformed}
<1> DEFINE body == IF s # << >> /\ s[1] = "/" THEN Tail(s) ELSE s
           scanned == StepsScanned(FoldLeft(StepsStep, [done |-> << >>, step |-> NoStep], body))
           read == StepsRead(scanned)
<1>1. body \in Seq(chars)
  OBVIOUS
<1>2. scanned \in Seq(StepState(chars))
  <2> HIDE DEF body
  <2>1. QED
    BY <1>1, StepsTyped
<1> HIDE DEF scanned
<1>3. \A i \in DOMAIN scanned :
         /\ ParseNat(scanned[i].index) \in Nat \cup {Malformed}
         /\ scanned[i].has => scanned[i].assertion \in Seq(chars)
  <2>1. TAKE i \in DOMAIN scanned
  <2>2. scanned[i] \in StepState(chars)
    BY <1>2
  <2>3. scanned[i].index \in Seq(chars) /\ scanned[i].assertion \in Seq(chars)
    BY <2>2 DEF StepState
  <2>4. QED
    BY <2>3, NumbersRead
<1>4. \A i \in DOMAIN scanned :
         /\ read[i].index \in Nat \cup {Malformed}
         /\ read[i].index # Malformed => read[i] \in StepOf(chars)
  BY <1>3 DEF StepsRead, Step, StepOf
<1>5. DOMAIN read = DOMAIN scanned /\ DOMAIN scanned = 1..Len(scanned) /\ Len(scanned) \in Nat
  BY <1>2 DEF StepsRead
<1>6. ParseSteps(s) = WellFormed(read)
  BY DEF ParseSteps, scanned
<1>7. (\A i \in DOMAIN read : read[i].index # Malformed) => read \in Seq(StepOf(chars))
  <2> SUFFICES ASSUME \A i \in DOMAIN read : read[i].index # Malformed
               PROVE  read \in Seq(StepOf(chars))
    OBVIOUS
  <2>1. \A i \in 1..Len(scanned) : read[i] \in StepOf(chars)
    BY <1>4, <1>5
  <2>2. read = [i \in 1..Len(scanned) |-> read[i]]
    BY <1>5 DEF StepsRead
  <2> HIDE DEF read
  <2>3. QED
    BY <1>5, <2>1, <2>2
<1> HIDE DEF read
<1>8. QED
  BY <1>6, <1>7 DEF WellFormed

\* Where a character stands first and last, and the text on either side.
LEMMA PlacesFound ==
    ASSUME NEW chars, NEW s \in Seq(chars), NEW c
    PROVE  FirstAt(s, c) \in 0..Len(s) /\ LastAt(s, c) \in 0..Len(s)
<1> DEFINE places == {i \in 1..Len(s) : s[i] = c}
<1>1. Len(s) \in Nat /\ places \in SUBSET (1..Len(s))
  OBVIOUS
<1>2. FirstAt(s, c) = IF places # {} THEN Min(places) ELSE 0
  BY DEF FirstAt, SelectInSeq
<1>3. LastAt(s, c) = IF places # {} THEN Max(places) ELSE 0
  BY DEF LastAt, SelectLastInSeq
<1> HIDE DEF places
<1>4. places # {} => Min(places) \in places
  <2> SUFFICES ASSUME places # {} PROVE Min(places) \in places
    OBVIOUS
  <2>1. places \in SUBSET Nat
    BY <1>1
  <2>2. \E i \in places : \A j \in places : i <= j
    BY <2>1, LeastNumber
  <2>3. QED
    BY <2>2 DEF Min
<1>5. places # {} => Max(places) \in places
  BY <1>1, MaxMember
<1>6. 0 \in 0..Len(s) /\ \A i \in places : i \in 0..Len(s)
  BY <1>1
<1>7. FirstAt(s, c) \in 0..Len(s)
  BY <1>2, <1>4, <1>6
<1>8. LastAt(s, c) \in 0..Len(s)
  BY <1>3, <1>5, <1>6
<1>9. QED
  BY <1>7, <1>8

\* The text before and behind a place.
LEMMA TextsParted ==
    ASSUME NEW chars, NEW s \in Seq(chars), NEW i \in 0..Len(s)
    PROVE  Before(s, i) \in Seq(chars) /\ Behind(s, i) \in Seq(chars)
<1>1. Len(s) \in Nat
  OBVIOUS
<1>2. CASE i = 0
  BY <1>2 DEF Before, Behind
<1>3. CASE i # 0
  <2>1. SubSeq(s, 1, i - 1) \in Seq(chars)
    <3>1. i - 1 \in 0..Len(s) /\ 1 \in 1..(Len(s) + 1)
      BY <1>1, <1>3
    <3>2. QED
      BY <3>1, SubSeqProperties
  <2>2. SubSeq(s, i + 1, Len(s)) \in Seq(chars)
    <3>1. Len(s) \in 0..Len(s) /\ i + 1 \in 1..(Len(s) + 1)
      BY <1>1, <1>3
    <3>2. QED
      BY <3>1, SubSeqProperties
  <2>3. QED
    BY <1>3, <2>1, <2>2 DEF Before, Behind
<1>4. QED
  BY <1>2, <1>3

-----------------------------------------------------------------------------
\* What a terminus holds, once read: parts may be malformed.
Terminus ==
    [offset : Offset \cup {Malformed}, side : {Absent, "before", "after"},
     temporal : Offset \cup {Malformed}, spatial : PointOfSpace \cup {Absent, Malformed}]

\* What a path of the parser has for a terminus: an offset, perhaps with a
\* side, or a time, a point or both.
Canonical(p) ==
    \/ p.temporal = Absent /\ p.spatial = Absent /\ (p.side # Absent => p.offset # Absent)
    \/ p.offset = Absent /\ p.side = Absent
Paths(chars) == {p \in PathOf(chars) : Canonical(p)}
\* A CFI as the parser makes them: a point has the same path three times.
CanonicalCfi(chars, c) ==
    /\ c \in CfiOf(chars) /\ Canonical(c.parent) /\ Canonical(c.start) /\ Canonical(c.end)
    /\ c.kind = "point" => c.start = c.parent /\ c.end = c.parent

\* A float that is not NaN is read as a number.
LEMMA FloatsRead ==
    ASSUME NEW chars, "NaN" \notin chars, NEW s \in Seq(chars)
    PROVE  ParseFloat(s) \in Nat \cup {Malformed}
<1>1. s # <<"NaN">>
  <2> SUFFICES ASSUME s = <<"NaN">> PROVE FALSE
    OBVIOUS
  <2>1. s[1] \in chars
    OBVIOUS
  <2>2. QED
    BY <2>1
<1>2. QED
  BY <1>1, NumbersRead DEF ParseFloat

\* A point is read as two numbers.
LEMMA SpatialRead ==
    ASSUME NEW chars, "NaN" \notin chars, NEW s \in Seq(chars)
    PROVE  ParseSpatial(s) \in PointOfSpace \cup {Malformed}
<1> DEFINE colon == FirstAt(s, ":")
<1>1. Before(s, colon) \in Seq(chars) /\ Behind(s, colon) \in Seq(chars)
  BY PlacesFound, TextsParted
<1>2. /\ ParseFloat(Before(s, colon)) \in Nat \cup {Malformed}
      /\ ParseFloat(Behind(s, colon)) \in Nat \cup {Malformed}
  BY <1>1, FloatsRead
<1>3. QED
  BY <1>2 DEF ParseSpatial, SpatialParted, SpatialPoint, PointOfSpace

\* A terminus is read as numbers and a side, those that go together.
LEMMA TerminusRead ==
    ASSUME NEW chars, "NaN" \notin chars, NEW rest \in Seq(chars), NEW mark \in {":", "~", "@"}
    PROVE  ParseTerminus(mark, rest) \in Terminus /\ Canonical(ParseTerminus(mark, rest))
<1>1. NoTerminus \in Terminus
  BY DEF NoTerminus, Terminus, Offset
<1>2. ASSUME NEW colon \in 0..Len(rest)
      PROVE  OffsetTerminus(rest, colon) \in Terminus
  <2>1. /\ ParseNat(Before(rest, colon)) \in Offset \cup {Malformed}
        /\ ParseNat(rest) \in Offset \cup {Malformed}
    BY <1>2, TextsParted, NumbersRead DEF Offset
  <2>2. CASE colon # 0 /\ Behind(rest, colon) \in {<<"before">>, <<"after">>}
    <3>1. Behind(rest, colon) = SubSeq(rest, colon + 1, Len(rest))
      BY <2>2 DEF Behind
    <3>2. Len(rest) \in Nat /\ Len(rest) \in 0..Len(rest) /\ colon + 1 \in 1..(Len(rest) + 1)
      BY <1>2
    <3>3. /\ Len(SubSeq(rest, colon + 1, Len(rest))) = (Len(rest) - (colon + 1)) + 1
          /\ \A i \in 1..((Len(rest) - (colon + 1)) + 1) :
                SubSeq(rest, colon + 1, Len(rest))[i] = rest[(colon + 1 + i) - 1]
      BY <3>2, SubSeqProperties
    <3>4. Len(SubSeq(rest, colon + 1, Len(rest))) = 1
      <4>1. \A b \in {<<"before">>, <<"after">>} : Len(b) = 1
        OBVIOUS
      <4>2. QED
        BY <2>2, <3>1, <4>1
    <3>5. Len(rest) = colon + 1 /\ SubSeq(rest, colon + 1, Len(rest))[1] = rest[Len(rest)]
      BY <1>2, <3>2, <3>3, <3>4
    <3>6. Last(rest) \in {"before", "after"}
      <4>1. \A b \in {<<"before">>, <<"after">>} : b[1] \in {"before", "after"}
        OBVIOUS
      <4>2. Behind(rest, colon)[1] \in {"before", "after"}
        BY <2>2, <4>1
      <4>3. QED
        BY <3>1, <3>5, <4>2 DEF Last
    <3>7. QED
      BY <1>1, <2>1, <2>2, <3>6 DEF OffsetTerminus, Terminus
  <2>3. CASE ~(colon # 0 /\ Behind(rest, colon) \in {<<"before">>, <<"after">>})
    BY <1>1, <2>1, <2>3 DEF OffsetTerminus, Terminus
  <2>4. QED
    BY <2>2, <2>3
<1>3. ASSUME NEW at \in 0..Len(rest)
      PROVE  TemporalTerminus(rest, at) \in Terminus
  <2>1. Before(rest, at) \in Seq(chars) /\ Behind(rest, at) \in Seq(chars)
    BY <1>3, TextsParted
  <2>2. /\ ParseFloat(Before(rest, at)) \in Offset \cup {Malformed}
        /\ ParseSpatial(Behind(rest, at)) \in PointOfSpace \cup {Malformed}
    BY <2>1, FloatsRead, SpatialRead DEF Offset
  <2>3. QED
    BY <1>1, <2>2 DEF TemporalTerminus, Terminus
<1>4. [NoTerminus EXCEPT !.spatial = ParseSpatial(rest)] \in Terminus
  BY <1>1, SpatialRead DEF Terminus
<1>5. LastAt(rest, ":") \in 0..Len(rest) /\ FirstAt(rest, "@") \in 0..Len(rest)
  BY PlacesFound
<1>6. /\ OffsetTerminus(rest, LastAt(rest, ":")) \in Terminus
      /\ TemporalTerminus(rest, FirstAt(rest, "@")) \in Terminus
  BY <1>2, <1>3, <1>5
<1>7. ParseTerminus(mark, rest) \in Terminus
  BY <1>4, <1>6 DEF ParseTerminus
<1>8. \A colon \in 0..Len(rest) : Canonical(OffsetTerminus(rest, colon))
  <2>1. \A text \in Seq(chars) : ParseNat(text) # Absent
    BY NumbersRead, AbsentAssumption, MalformedAssumption
  <2>2. TAKE colon \in 0..Len(rest)
  <2>3. ParseNat(Before(rest, colon)) # Absent
    BY <2>1, TextsParted
  <2>4. QED
    BY <2>3 DEF OffsetTerminus, Canonical, NoTerminus
<1>9. \A at : Canonical(TemporalTerminus(rest, at))
  BY DEF TemporalTerminus, Canonical, NoTerminus
<1>10. Canonical([NoTerminus EXCEPT !.spatial = ParseSpatial(rest)])
  BY DEF Canonical, NoTerminus
<1>11. Canonical(ParseTerminus(mark, rest))
  BY <1>5, <1>8, <1>9, <1>10 DEF ParseTerminus
<1>12. QED
  BY <1>7, <1>11

-----------------------------------------------------------------------------
\* Steps and terminus are read as a path.
LEMMA TerminalRead ==
    ASSUME NEW chars, "NaN" \notin chars, NEW s \in Seq(chars)
    PROVE  ParseTerminal(s) \in Paths(chars) \cup {Malformed}
<1> DEFINE mark == TerminusAt(s)
           steps == ParseSteps(Before(s, mark))
           end == IF mark = 0 THEN NoTerminus ELSE ParseTerminus(s[mark], Behind(s, mark))
<1>1. mark \in 0..Len(s) /\ (mark # 0 => s[mark] \in {":", "~", "@"})
  BY TerminusFound
<1> HIDE DEF mark
<1>2. Before(s, mark) \in Seq(chars) /\ Behind(s, mark) \in Seq(chars)
  BY <1>1, TextsParted
<1>3. steps \in Seq(StepOf(chars)) \cup {Malformed}
  BY <1>2, StepsParsed
<1>4. end \in Terminus /\ Canonical(end)
  <2>1. NoTerminus \in Terminus /\ Canonical(NoTerminus)
    BY DEF NoTerminus, Terminus, Offset, Canonical
  <2>2. mark # 0 => /\ ParseTerminus(s[mark], Behind(s, mark)) \in Terminus
                    /\ Canonical(ParseTerminus(s[mark], Behind(s, mark)))
    BY <1>1, <1>2, TerminusRead
  <2>3. QED
    BY <2>1, <2>2
<1>5. ParseTerminal(s) = PathWithTerminus(steps, end)
  BY DEF ParseTerminal, TerminalParted, mark
<1> HIDE DEF steps, end
<1>6. PathWithTerminus(steps, end) \in PathOf(chars) \cup {Malformed}
  BY <1>3, <1>4 DEF PathWithTerminus, Path, PathOf, Terminus
<1>7. PathWithTerminus(steps, end) = Malformed \/ Canonical(PathWithTerminus(steps, end))
  <2> DEFINE p == [Path(steps, Absent, end.offset) EXCEPT
                     !.side = end.side, !.temporal = end.temporal, !.spatial = end.spatial]
  <2>1. PathWithTerminus(steps, end) \in {Malformed, p}
    BY DEF PathWithTerminus
  <2>2. /\ p.offset = end.offset /\ p.side = end.side
        /\ p.temporal = end.temporal /\ p.spatial = end.spatial
    BY DEF Path
  <2> HIDE DEF p
  <2>3. Canonical(p)
    BY <1>4, <2>2 DEF Canonical
  <2>4. QED
    BY <2>1, <2>3
<1>8. QED
  BY <1>5, <1>6, <1>7 DEF Paths

\* So is a path with or without a local path.
LEMMA PathRead ==
    ASSUME NEW chars, "NaN" \notin chars, NEW s \in Seq(chars)
    PROVE  ParsePath(s) \in Paths(chars) \cup {Malformed}
<1> DEFINE bang == FirstAt(s, "!")
           count == IF bang = 0 THEN 1 ELSE IF FirstAt(Behind(s, bang), "!") = 0 THEN 2 ELSE 3
           Part(i) == ParseTerminal(IF i = 1 THEN Before(s, bang) ELSE Behind(s, bang))
           parts == [i \in 1..count |-> Part(i)]
<1>1. Before(s, bang) \in Seq(chars) /\ Behind(s, bang) \in Seq(chars)
  BY PlacesFound, TextsParted
<1>2. \A i \in 1..count : Part(i) \in Paths(chars) \cup {Malformed}
  BY <1>1, TerminalRead
<1>3. count \in {1, 2, 3}
  OBVIOUS
<1> HIDE DEF count, Part
<1>4. /\ Len(parts) = count
      /\ \A i \in 1..count : parts[i] \in Paths(chars) \cup {Malformed}
  BY <1>2, <1>3
<1>5. ParsePath(s) = PathParted(parts)
  BY DEF ParsePath, Part, count
<1> HIDE DEF parts
<1>6. \A base, rest \in Paths(chars) \cup {Malformed} :
         PathWithLocal(base, rest) \in Paths(chars) \cup {Malformed}
  BY DEF PathWithLocal, Paths, PathOf, Canonical
<1>7. CASE count = 1
  BY <1>4, <1>5, <1>7 DEF PathParted
<1>8. CASE count = 2
  <2>1. parts[1] \in Paths(chars) \cup {Malformed} /\ parts[2] \in Paths(chars) \cup {Malformed}
    BY <1>4, <1>8
  <2>2. PathParted(parts) = PathWithLocal(parts[1], parts[2])
    BY <1>4, <1>8 DEF PathParted
  <2>3. PathWithLocal(parts[1], parts[2]) \in Paths(chars) \cup {Malformed}
    BY <1>6, <2>1
  <2>4. QED
    BY <1>5, <2>2, <2>3
<1>9. CASE count = 3
  BY <1>4, <1>5, <1>9 DEF PathParted
<1>10. QED
  BY <1>3, <1>7, <1>8, <1>9

\* What the parser makes of a text without NaN is a CFI of numbers.
LEMMA CfiRead ==
    ASSUME NEW chars, "NaN" \notin chars, NEW text \in Seq(chars)
    PROVE  ParseCfi(text) = Malformed \/ CanonicalCfi(chars, ParseCfi(text))
<1> DEFINE Cfis == {c \in CfiOf(chars) : CanonicalCfi(chars, c)}
<1> SUFFICES ASSUME ~(Len(text) < 2)
             PROVE  CfiOfPaths(PathsOf(SplitTopLevel(SubSeq(text, 2, Len(text) - 1))))
                      \in Cfis \cup {Malformed}
  BY DEF ParseCfi
<1> DEFINE inner == SubSeq(text, 2, Len(text) - 1)
           parts == SplitTopLevel(inner)
           paths == PathsOf(parts)
<1>1. inner \in Seq(chars)
  <2>1. \A i \in 2..(Len(text) - 1) : text[i] \in chars
    OBVIOUS
  <2>2. QED
    BY <2>1, SubSeqProperties
<1> HIDE DEF inner
<1>2. parts \in Seq(Seq(chars))
  BY <1>1, SplitScanned
<1> HIDE DEF parts
<1>3. /\ Len(paths) = Len(parts) /\ DOMAIN paths = 1..Len(parts) /\ Len(parts) \in Nat
      /\ \A i \in 1..Len(parts) : paths[i] \in Paths(chars) \cup {Malformed}
  <2>1. DOMAIN parts = 1..Len(parts) /\ Len(parts) \in Nat
    BY <1>2
  <2>2. \A i \in 1..Len(parts) : parts[i] \in Seq(chars)
    BY <1>2
  <2>3. \A i \in 1..Len(parts) : ParsePath(parts[i]) \in Paths(chars) \cup {Malformed}
    BY <2>2, PathRead
  <2>4. QED
    BY <2>1, <2>3 DEF PathsOf
<1> HIDE DEF paths
<1>4. \A path \in Paths(chars) : Point(path) \in Cfis
  BY DEF Point, CfiOf, Paths, CanonicalCfi
<1>5. \A p, q, r \in Paths(chars) : RangeOf(p, q, r) \in Cfis
  BY DEF RangeOf, CfiOf, Paths, CanonicalCfi
<1> HIDE DEF Cfis
<1>6. CfiOfPaths(paths) \in Cfis \cup {Malformed}
  <2>1. CASE \E i \in DOMAIN paths : paths[i] = Malformed
    <3>1. Len(paths) = 1 => paths[1] = Malformed
      <4>1. PICK i \in DOMAIN paths : paths[i] = Malformed
        BY <2>1
      <4>2. i \in 1..Len(paths) /\ Len(paths) \in Nat
        BY <1>3
      <4>3. Len(paths) = 1 => i = 1
        BY <4>2
      <4>4. QED
        BY <4>1, <4>3
    <3>2. Len(paths) = 3 => \E i \in 1..3 : paths[i] = Malformed
      BY <1>3, <2>1
    <3>3. QED
      BY <2>1, <3>1, <3>2 DEF CfiOfPaths
  <2>2. CASE \A i \in DOMAIN paths : paths[i] # Malformed
    <3>1. \A i \in 1..Len(parts) : paths[i] \in Paths(chars)
      BY <1>3, <2>2
    <3>2. CASE Len(paths) = 1
      <4>1. paths[1] \in Paths(chars) /\ paths[1] # Malformed
        BY <1>3, <2>2, <3>1, <3>2
      <4>2. CfiOfPaths(paths) = Point(paths[1])
        BY <2>2, <3>2, <4>1 DEF CfiOfPaths
      <4>3. QED
        BY <1>4, <4>1, <4>2
    <3>3. CASE Len(paths) = 3
      <4>1. /\ paths[1] \in Paths(chars) /\ paths[2] \in Paths(chars)
            /\ paths[3] \in Paths(chars) /\ \A i \in 1..3 : paths[i] # Malformed
        BY <1>3, <2>2, <3>1, <3>3
      <4>2. CfiOfPaths(paths) = RangeOf(paths[1], paths[2], paths[3])
        BY <2>2, <3>3, <4>1 DEF CfiOfPaths
      <4>3. QED
        BY <1>5, <4>1, <4>2
    <3>4. CASE Len(paths) # 1 /\ Len(paths) # 3
      BY <2>2, <3>4 DEF CfiOfPaths
    <3>5. QED
      BY <3>2, <3>3, <3>4
  <2>3. QED
    BY <2>1, <2>2
<1>7. QED
  BY <1>6 DEF paths, parts, inner

-----------------------------------------------------------------------------
\* The characters a CFI is written with.
Digital == {"0", "1", "2", "3", "4", "5", "6", "7", "8", "9"}
Punctuation == {"epubcfi(", "/", "[", "]", "!", ":", ",", ")"}

-----------------------------------------------------------------------------
\* The digits are characters.
LEMMA DigitsWritten ==
    \A i \in 1..10 : Digit[i] \in Digital
<1>1. \A i \in 1..10 : \/ i = 1 \/ i = 2 \/ i = 3 \/ i = 4 \/ i = 5
                       \/ i = 6 \/ i = 7 \/ i = 8 \/ i = 9 \/ i = 10
  OBVIOUS
<1>2. /\ Digit[1] = "0" /\ Digit[2] = "1" /\ Digit[3] = "2" /\ Digit[4] = "3" /\ Digit[5] = "4"
      /\ Digit[6] = "5" /\ Digit[7] = "6" /\ Digit[8] = "7" /\ Digit[9] = "8" /\ Digit[10] = "9"
  BY DEF Digit
<1>3. QED
  BY <1>1, <1>2 DEF Digital

\* A number is written as the number without its last digit, and that digit.
LEMMA DecimalUnfolds ==
    \A n \in Nat : Decimal[n] = IF n < 10 THEN <<Digit[n + 1]>>
                                ELSE Append(Decimal[n \div 10], Digit[(n % 10) + 1])
<1> DEFINE X == Seq(Digital)
           Longer(n, x) == IF n < 10 THEN <<Digit[n + 1]>> ELSE Append(x, Digit[(n % 10) + 1])
           Writes(f) == f = [n \in Nat |-> IF n < 10 THEN <<Digit[n + 1]>>
                                           ELSE Append(f[n \div 10], Digit[(n % 10) + 1])]
           step == [n \in Nat |-> [x \in X |-> Longer(n, x)]]
           before == [n \in Nat |-> n \div 10]
<1>1. \A n \in Nat : (n < 10 => n + 1 \in 1..10) /\ (n % 10) + 1 \in 1..10
  OBVIOUS
<1>2. \A n \in Nat : \A x \in X : Longer(n, x) \in X
  <2>1. TAKE n \in Nat
  <2>2. TAKE x \in X
  <2>3. CASE n < 10
    <3>1. Digit[n + 1] \in Digital
      BY <1>1, <2>3, DigitsWritten
    <3> DEFINE d == Digit[n + 1]
    <3> HIDE DEF d
    <3>2. <<d>> \in Seq(Digital)
      BY <3>1 DEF d
    <3>3. QED
      BY <2>3, <3>2 DEF d
  <2>4. CASE ~(n < 10)
    <3>1. Digit[(n % 10) + 1] \in Digital
      BY <1>1, DigitsWritten
    <3> DEFINE d == Digit[(n % 10) + 1]
    <3> HIDE DEF d
    <3>2. Append(x, d) \in Seq(Digital)
      BY <3>1 DEF d
    <3>3. QED
      BY <2>4, <3>2 DEF d
  <2>5. QED
    BY <2>3, <2>4
<1>3. \A n \in Nat : n \div 10 \in Nat /\ (n # 0 => n \div 10 < n)
  OBVIOUS
<1>4. <<Digit[1]>> \in X
  <2> DEFINE d == Digit[1]
  <2>1. d \in Digital
    BY DigitsWritten
  <2> HIDE DEF d
  <2>2. <<d>> \in Seq(Digital)
    BY <2>1
  <2>3. QED
    BY <2>2 DEF d
<1> HIDE DEF X
<1>5. step \in [Nat -> [X -> X]]
  <2>1. \A n \in Nat : [x \in X |-> Longer(n, x)] \in [X -> X]
    <3> HIDE DEF Longer
    <3>1. QED
      BY <1>2
  <2> HIDE DEF Longer
  <2>2. QED
    BY <2>1
<1>6. before \in [Nat -> Nat] /\ \A n \in Nat \ {0} : before[n] < n
  BY <1>3
<1>7. PICK f \in [Nat -> X] :
         f[0] = <<Digit[1]>> /\ \A n \in Nat \ {0} : f[n] = step[n][f[before[n]]]
  <2> DEFINE base == <<Digit[1]>>
  <2>1. base \in X
    BY <1>4
  <2> HIDE DEF step, before, base
  <2>2. \E f : IsDescent(f, X, base, step, before)
    BY <1>5, <1>6, <2>1, DescentDefined
  <2>3. QED
    BY <2>2 DEF IsDescent, base
<1>8. \A n \in Nat : f[n] = IF n < 10 THEN <<Digit[n + 1]>>
                            ELSE Append(f[n \div 10], Digit[(n % 10) + 1])
  <2>1. TAKE n \in Nat
  <2>2. CASE n = 0
    BY <1>7, <2>2
  <2>3. CASE n # 0
    <3>1. f[n] = step[n][f[before[n]]]
      BY <1>7, <2>3
    <3>2. before[n] = n \div 10 /\ f[n \div 10] \in X
      BY <1>3, <1>7
    <3>3. step[n][f[n \div 10]] = Longer(n, f[n \div 10])
      <4> HIDE DEF Longer
      <4>1. QED
        BY <3>2
    <3>4. f[n] = Longer(n, f[n \div 10])
      BY <3>1, <3>2, <3>3
    <3>5. QED
      BY <3>4
  <2>4. QED
    BY <2>2, <2>3
<1>9. Writes(f)
  <2> DEFINE h == [n \in Nat |-> IF n < 10 THEN <<Digit[n + 1]>>
                                 ELSE Append(f[n \div 10], Digit[(n % 10) + 1])]
  <2>1. \A n \in Nat : f[n] = h[n]
    BY <1>8
  <2>2. h = [n \in Nat |-> h[n]]
    OBVIOUS
  <2>3. f = [n \in Nat |-> f[n]]
    BY <1>7
  <2>4. f = h
    <3> HIDE DEF h
    <3>1. QED
      BY <2>1, <2>2, <2>3
  <2>5. QED
    BY <2>4
<1>10. Writes(Decimal)
  <2>1. Decimal = CHOOSE g : Writes(g)
    BY DEF Decimal
  <2> HIDE DEF Writes
  <2>2. QED
    BY <1>9, <2>1
<1>11. QED
  BY <1>10

\* A number is written with digits.
LEMMA DecimalTyped ==
    ASSUME NEW chars, Digital \subseteq chars
    PROVE  \A n \in Nat : Decimal[n] \in Seq(chars) /\ Decimal[n] # << >>
<1> DEFINE X == Seq(chars) \ {<< >>}
           Longer(n, x) == IF n < 10 THEN <<Digit[n + 1]>> ELSE Append(x, Digit[(n % 10) + 1])
<1>1. \A n \in Nat : (n < 10 => n + 1 \in 1..10) /\ (n % 10) + 1 \in 1..10
  OBVIOUS
<1>2. \A n \in Nat : \A x \in X : Longer(n, x) \in X
  <2>1. TAKE n \in Nat
  <2>2. TAKE x \in X
  <2>3. CASE n < 10
    <3>1. Digit[n + 1] \in chars
      BY <1>1, <2>3, DigitsWritten
    <3> DEFINE d == Digit[n + 1]
    <3> HIDE DEF d
    <3>2. <<d>> \in Seq(chars)
      BY <3>1 DEF d
    <3>3. QED
      BY <2>3, <3>2 DEF d
  <2>4. CASE ~(n < 10)
    <3>1. Digit[(n % 10) + 1] \in chars
      BY <1>1, DigitsWritten
    <3> DEFINE d == Digit[(n % 10) + 1]
    <3> HIDE DEF d
    <3>2. Append(x, d) \in Seq(chars)
      BY <3>1 DEF d
    <3>3. QED
      BY <2>4, <3>2 DEF d
  <2>5. QED
    BY <2>3, <2>4
<1>3. \A n \in Nat : n \div 10 \in Nat /\ (n # 0 => n \div 10 < n)
  OBVIOUS
<1>4. <<Digit[1]>> \in X
  <2> DEFINE d == Digit[1]
  <2>1. d \in chars
    BY DigitsWritten
  <2> HIDE DEF d
  <2>2. <<d>> \in Seq(chars)
    BY <2>1
  <2>3. QED
    BY <2>2 DEF d
<1> HIDE DEF X
<1>11. \A n \in Nat : Decimal[n] = Longer(n, Decimal[n \div 10])
  BY DecimalUnfolds
<1> DEFINE wrong == {n \in Nat : Decimal[n] \notin X}
<1>12. SUFFICES ASSUME wrong # {} PROVE FALSE
  BY DEF X
<1>13. PICK n \in wrong : \A m \in wrong : n <= m
  <2>1. wrong \in SUBSET Nat
    OBVIOUS
  <2> HIDE DEF wrong
  <2>2. QED
    BY <1>12, <2>1, LeastNumber
<1>14. CASE n = 0
  <2>1. Decimal[0] = Longer(0, Decimal[0 \div 10])
    <3> HIDE DEF Longer
    <3>1. QED
      BY <1>11
  <2>2. \A x : Longer(0, x) = <<Digit[1]>>
    OBVIOUS
  <2>3. Decimal[0] \in X
    <3> HIDE DEF Longer
    <3>1. QED
      BY <1>4, <2>1, <2>2
  <2>4. QED
    BY <1>13, <1>14, <2>3
<1>15. CASE n # 0
  <2>1. n \in Nat /\ n \div 10 \in Nat /\ n \div 10 < n
    BY <1>3, <1>13, <1>15
  <2>2. Decimal[n \div 10] \in X
    BY <1>13, <2>1
  <2>3. Decimal[n] \in X
    <3> HIDE DEF Longer
    <3>1. QED
      BY <1>2, <1>11, <2>1, <2>2
  <2>4. QED
    BY <1>13, <2>3
<1>16. QED
  BY <1>14, <1>15

-----------------------------------------------------------------------------
\* Texts joined are texts.
LEMMA TextsJoined ==
    ASSUME NEW chars
    PROVE  /\ << >> \in Seq(chars)
           /\ \A s, t \in Seq(chars) : s \o t \in Seq(chars)
           /\ \A c \in chars : <<c>> \in Seq(chars)
<1>1. \A s, t \in Seq(chars) : s \o t \in Seq(chars)
  BY ConcatProperties
<1>2. QED
  BY <1>1

\* A step is written as a text.
LEMMA StepWritten ==
    ASSUME NEW chars, Digital \subseteq chars, {"/", "[", "]"} \subseteq chars,
           NEW index \in Nat, NEW assertion \in Seq(chars) \cup {Absent}
    PROVE  PrintStep(Step(index, assertion)) \in Seq(chars)
<1>1. /\ <<"/">> \in Seq(chars) /\ <<"[">> \in Seq(chars) /\ <<"]">> \in Seq(chars)
      /\ << >> \in Seq(chars) /\ Decimal[index] \in Seq(chars)
  BY TextsJoined, DecimalTyped
<1> DEFINE slash == <<"/">>
           open == <<"[">>
           close == <<"]">>
           inner == IF assertion = Absent THEN << >> ELSE (open \o assertion) \o close
<1>2. \A s, t \in Seq(chars) : s \o t \in Seq(chars)
  BY TextsJoined
<1>3. inner \in Seq(chars)
  <2> HIDE DEF open, close
  <2>1. open \in Seq(chars) /\ close \in Seq(chars)
    BY <1>1 DEF open, close
  <2>2. QED
    BY <1>1, <1>2, <2>1
<1>4. PrintStep(Step(index, assertion)) = (slash \o Decimal[index]) \o inner
  BY DEF PrintStep, Step
<1>5. slash \in Seq(chars)
  BY <1>1
<1> HIDE DEF slash, inner
<1>6. QED
  BY <1>1, <1>2, <1>3, <1>4, <1>5

\* An offset is written as a text.
LEMMA OffsetWritten ==
    ASSUME NEW chars, Digital \subseteq chars, ":" \in chars, NEW offset \in Offset
    PROVE  PrintOffset(offset) \in Seq(chars)
<1>1. <<":">> \in Seq(chars) /\ << >> \in Seq(chars)
  BY TextsJoined
<1>2. CASE offset = Absent
  BY <1>1, <1>2 DEF PrintOffset
<1>3. CASE offset # Absent
  <2> DEFINE colon == <<":">>
  <2>1. colon \in Seq(chars)
    BY <1>1
  <2>2. offset \in Nat /\ Decimal[offset] \in Seq(chars)
    BY <1>3, DecimalTyped DEF Offset
  <2>3. PrintOffset(offset) = colon \o Decimal[offset]
    BY <1>3 DEF PrintOffset
  <2> HIDE DEF colon
  <2>4. QED
    BY <2>1, <2>2, <2>3, TextsJoined
<1>4. QED
  BY <1>2, <1>3

\* Steps are written as a text.
LEMMA StepsWritten ==
    ASSUME NEW chars, Digital \subseteq chars, {"/", "[", "]"} \subseteq chars,
           NEW steps \in Seq(StepOf(chars))
    PROVE  PrintSteps(steps) \in Seq(chars)
<1> DEFINE parts == [i \in DOMAIN steps |-> PrintStep(steps[i])]
<1>1. \A i \in DOMAIN steps : PrintStep(steps[i]) \in Seq(chars)
  <2>1. TAKE i \in DOMAIN steps
  <2>2. steps[i] \in StepOf(chars)
    OBVIOUS
  <2>3. /\ steps[i].index \in Nat /\ steps[i].assertion \in Seq(chars) \cup {Absent}
        /\ steps[i] = Step(steps[i].index, steps[i].assertion)
    BY <2>2 DEF StepOf, Step
  <2>4. QED
    BY <2>3, StepWritten
<1>2. parts \in Seq(Seq(chars))
  <2>1. DOMAIN steps = 1..Len(steps) /\ Len(steps) \in Nat
    OBVIOUS
  <2>2. parts \in [1..Len(steps) -> Seq(chars)]
    BY <1>1, <2>1
  <2> HIDE DEF parts
  <2>3. QED
    BY <2>1, <2>2
<1>3. PrintSteps(steps) = FlattenSeq(parts)
  BY DEF PrintSteps
<1> HIDE DEF parts
<1>4. PICK f : IsRunning(f, chars, parts) /\ FlattenSeq(parts) = f[Len(parts)]
  BY <1>2, Flattened
<1>5. f[Len(parts)] \in Seq(chars)
  <2>1. Len(parts) \in 0..Len(parts)
    BY <1>2
  <2>2. QED
    BY <1>4, <2>1 DEF IsRunning
<1>6. QED
  BY <1>3, <1>4, <1>5

\* A text in its wrapping is a text.
LEMMA Wrapped ==
    ASSUME NEW chars, Punctuation \subseteq chars, NEW text \in Seq(chars)
    PROVE  Wrap(text) \in Seq(chars)
<1> DEFINE open == <<"epubcfi(">>
           close == <<")">>
<1>1. open \in Seq(chars) /\ close \in Seq(chars)
  BY TextsJoined DEF Punctuation
<1>2. Wrap(text) = (open \o text) \o close
  BY DEF Wrap
<1> HIDE DEF open, close
<1>3. open \o text \in Seq(chars)
  BY <1>1, TextsJoined
<1>4. QED
  BY <1>1, <1>2, <1>3, TextsJoined

\* What two lists have in common is no longer than either.
LEMMA CommonInBoth ==
    ASSUME NEW chars, NEW s \in Seq(StepOf(chars)), NEW t \in Seq(StepOf(chars))
    PROVE  CommonLen(s, t) \in 0..Len(s) /\ CommonLen(s, t) <= Len(t)
<1> DEFINE lengths == {n \in 0..Len(s) : n <= Len(t) /\ \A i \in 1..n : s[i].index = t[i].index}
<1>1. 0 \in lengths /\ Len(s) \in Nat /\ lengths \in SUBSET (0..Len(s))
  OBVIOUS
<1>2. CommonLen(s, t) = Max(lengths)
  BY DEF CommonLen
<1>3. \E n \in lengths : \A i \in lengths : n >= i
  <2> HIDE DEF lengths
  <2>1. QED
    BY <1>1, GreatestNumber
<1>4. Max(lengths) \in lengths
  <2> HIDE DEF lengths
  <2>1. QED
    BY <1>3 DEF Max
<1>5. QED
  BY <1>2, <1>4

\* What is written of two points is a text again.
LEMMA RangeWritten ==
    ASSUME NEW chars, Digital \subseteq chars, Punctuation \subseteq chars,
           NEW start \in CfiOf(chars), NEW end \in CfiOf(chars)
    PROVE  GenerateRange(start, end) \in Seq(chars) \cup {Absent}
<1> DEFINE p == start.parent
           q == end.parent
<1>1. \A path \in {p, q} :
         /\ path.steps \in Seq(StepOf(chars)) /\ LocalOf(path) \in Seq(StepOf(chars))
         /\ path.offset \in Offset
  BY DEF CfiOf, PathOf, LocalOf
<1> DEFINE base == CommonLen(p.steps, q.steps)
           local == CommonLen(LocalOf(p), LocalOf(q))
           sharedBase == PrintSteps(SubSeq(p.steps, 1, base))
           sharedLocal == PrintSteps(SubSeq(LocalOf(p), 1, local))
           bang == <<"!">>
           comma == <<",">>
           Half(x) == PrintSteps(After(LocalOf(x), local)) \o PrintOffset(x.offset)
           Full(x) == ((PrintSteps(After(x.steps, base)) \o bang)
                         \o PrintSteps(LocalOf(x))) \o PrintOffset(x.offset)
<1> HIDE DEF p, q
<1>2. base \in Nat /\ base <= Len(p.steps) /\ base <= Len(q.steps)
  <2>1. p.steps \in Seq(StepOf(chars)) /\ q.steps \in Seq(StepOf(chars))
    BY <1>1
  <2>2. base \in 0..Len(p.steps) /\ base <= Len(q.steps)
    BY <2>1, CommonInBoth
  <2>3. Len(p.steps) \in Nat
    BY <2>1
  <2> HIDE DEF base
  <2>4. QED
    BY <2>2, <2>3
<1>3. local \in Nat /\ local <= Len(LocalOf(p)) /\ local <= Len(LocalOf(q))
  BY <1>1, CommonInBoth
<1>4. bang \in Seq(chars) /\ comma \in Seq(chars)
  BY TextsJoined DEF Punctuation
<1> HIDE DEF base, local, bang, comma
<1>5. \A s \in Seq(StepOf(chars)) : \A n \in Nat : n <= Len(s) =>
         /\ SubSeq(s, 1, n) \in Seq(StepOf(chars))
         /\ After(s, n) \in Seq(StepOf(chars))
  <2>1. TAKE s \in Seq(StepOf(chars))
  <2>2. TAKE n \in Nat
  <2>3. HAVE n <= Len(s)
  <2>4. \A i \in 1..n : s[i] \in StepOf(chars)
    BY <2>3
  <2>5. \A i \in (n + 1)..Len(s) : s[i] \in StepOf(chars)
    OBVIOUS
  <2>6. SubSeq(s, 1, n) \in Seq(StepOf(chars))
    BY <2>4, SubSeqProperties
  <2>7. SubSeq(s, n + 1, Len(s)) \in Seq(StepOf(chars))
    BY <2>5, SubSeqProperties
  <2>8. QED
    BY <2>6, <2>7 DEF After
<1>6. sharedBase \in Seq(chars) /\ sharedLocal \in Seq(chars)
  BY <1>1, <1>2, <1>3, <1>5, StepsWritten DEF Punctuation
<1>7. \A x \in {p, q} :
         /\ PrintSteps(After(LocalOf(x), local)) \in Seq(chars)
         /\ PrintSteps(After(x.steps, base)) \in Seq(chars)
         /\ PrintSteps(LocalOf(x)) \in Seq(chars) /\ PrintOffset(x.offset) \in Seq(chars)
  BY <1>1, <1>2, <1>3, <1>5, StepsWritten, OffsetWritten DEF Punctuation
<1>8. \A s, t \in Seq(chars) : s \o t \in Seq(chars)
  BY TextsJoined
<1>9. \A x \in {p, q} : Half(x) \in Seq(chars) /\ Full(x) \in Seq(chars)
  BY <1>4, <1>7, <1>8
<1> HIDE DEF sharedBase, sharedLocal, Half, Full
<1> DEFINE within == (((((sharedBase \o bang) \o sharedLocal) \o comma) \o Half(p)) \o comma)
                       \o Half(q)
           across == (((sharedBase \o comma) \o Full(p)) \o comma) \o Full(q)
<1>10. within \in Seq(chars) /\ across \in Seq(chars)
  BY <1>4, <1>6, <1>8, <1>9
<1>11. GenerateRange(start, end) =
         IF start.kind # "point" \/ end.kind # "point" THEN Absent
         ELSE Wrap(IF base = Len(p.steps) /\ base = Len(q.steps) THEN within ELSE across)
  BY DEF GenerateRange, within, across, Half, Full, sharedBase, sharedLocal, bang, comma, p, q,
         base, local
<1> HIDE DEF within, across
<1>12. QED
  BY <1>10, <1>11, Wrapped

-----------------------------------------------------------------------------
\* The three scans of the parser, as runs over the characters of a text.

\* The steps of the scanners as functions of state and character.
SplitRead(chars) == [x \in SplitState(chars) |-> [c \in chars |-> SplitStep(x, c)]]
SplitBase == [parts |-> << >>, last |-> << >>, depth |-> 0, escaped |-> FALSE]
TerminusRun(chars) == [x \in TerminusState |-> [c \in chars |-> TerminusStep(x, c)]]
TerminusBase == [found |-> 0, at |-> 1, escaped |-> FALSE, inside |-> FALSE]
StepsRun(chars) == [x \in StepsState(chars) |-> [c \in chars |-> StepsStep(x, c)]]
StepsBase == [done |-> << >>, step |-> NoStep]
Value(d) == (CHOOSE i \in DOMAIN Digit : Digit[i] = d) - 1
DigitsRun == [x \in Nat |-> [d \in Digits |-> 10 * x + Value(d)]]

\* The range splitter ends where its scan does.
LEMMA SplitRuns ==
    ASSUME NEW chars, NEW s \in Seq(chars), NEW b,
           Runs(SplitState(chars), SplitRead(chars), SplitBase, s, b)
    PROVE  SplitTopLevel(s) = AllParts(b)
<1> DEFINE n == Len(s)
           X == SplitState(chars)
           step == SplitRead(chars)
           base == SplitBase
           Is(g) == g = [A \in SUBSET (DOMAIN s) |->
                           IF A = {} THEN base ELSE SplitStep(g[A \ {Max(A)}], s[Max(A)])]
           fold == CHOOSE g : Is(g)
<1>1. FoldLeft(SplitStep, [parts |-> << >>, last |-> << >>, depth |-> 0,
                        escaped |-> FALSE], s) = fold[DOMAIN s]
  BY DEF FoldLeft, MapThenFoldSet, SplitBase
<1>2. n \in Nat /\ DOMAIN s = 1..n /\ \A i \in 1..n : s[i] \in chars
  OBVIOUS
<1>3. base \in X
  BY RunEnds
<1>4. step \in [X -> [chars -> X]] /\ \A x \in X : \A c \in chars : step[x][c] = SplitStep(x, c)
  BY SplitStepTyped DEF SplitRead
<1> HIDE DEF X, base, step
<1>5. PICK g : g \in [SUBSET (1..n) -> X] /\ FoldsAs(g, X, step, base, s)
  <2>1. step \in [X -> [chars -> X]]
    BY <1>4
  <2>2. QED
    BY <1>3, <2>1, FoldMade
<1>6. \A A \in SUBSET (1..n) : A # {} => Max(A) \in 1..n /\ A \ {Max(A)} \in SUBSET (1..n)
  BY <1>2, MaxMember
<1>7. Is(g)
  <2> DEFINE h == [A \in SUBSET (1..n) |->
                     IF A = {} THEN base ELSE SplitStep(g[A \ {Max(A)}], s[Max(A)])]
  <2>1. ASSUME NEW A \in SUBSET (1..n) PROVE g[A] = h[A]
    <3>1. CASE A = {}
      BY <1>5, <3>1 DEF FoldsAs
    <3>2. CASE A # {}
      <4>1. g[A \ {Max(A)}] \in X /\ s[Max(A)] \in chars
        BY <1>2, <1>5, <1>6, <3>2
      <4>2. step[g[A \ {Max(A)}]][s[Max(A)]] = SplitStep(g[A \ {Max(A)}], s[Max(A)])
        BY <1>4, <4>1
      <4>3. QED
        BY <1>5, <3>2, <4>1, <4>2 DEF FoldsAs
    <3>3. QED
      BY <3>1, <3>2
  <2>2. h = [A \in SUBSET (1..n) |-> h[A]] /\ g = [A \in SUBSET (1..n) |-> g[A]]
    BY <1>5
  <2>3. g = h
    <3> HIDE DEF h
    <3>1. QED
      BY <2>1, <2>2
  <2>4. QED
    BY <1>2, <2>3
<1>8. Is(fold)
  <2> HIDE DEF Is
  <2>1. QED
    BY <1>7
<1> HIDE DEF fold
<1>9. \A A \in SUBSET (1..n) :
         fold[A] = IF A = {} THEN base ELSE SplitStep(fold[A \ {Max(A)}], s[Max(A)])
  BY <1>2, <1>8
<1>10. fold[{}] = base
  BY <1>9
<1>11. ASSUME NEW A \in SUBSET (1..n), A # {}, fold[A \ {Max(A)}] \in X
       PROVE  fold[A] = step[fold[A \ {Max(A)}]][s[Max(A)]]
  <2>1. s[Max(A)] \in chars
    BY <1>2, <1>6, <1>11
  <2>2. step[fold[A \ {Max(A)}]][s[Max(A)]] = SplitStep(fold[A \ {Max(A)}], s[Max(A)])
    BY <1>4, <1>11, <2>1
  <2>3. QED
    BY <1>9, <1>11, <2>2
<1>12. fold[1..n] = b
  <2> HIDE DEF Is
  <2>1. Runs(X, step, base, s, b)
    BY DEF X, step, base
  <2>2. FoldsAs(fold, X, step, base, s)
    BY <1>10, <1>11 DEF FoldsAs
  <2>3. QED
    BY <2>1, <2>2, FoldRuns
<1>13. QED
  BY <1>1, <1>2, <1>12 DEF SplitTopLevel

\* The terminus scan ends where its scan does.
LEMMA TerminusRuns ==
    ASSUME NEW chars, NEW s \in Seq(chars), NEW b,
           Runs(TerminusState, TerminusRun(chars), TerminusBase, s, b)
    PROVE  TerminusAt(s) = b.found
<1> DEFINE n == Len(s)
           X == TerminusState
           step == TerminusRun(chars)
           base == TerminusBase
           Is(g) == g = [A \in SUBSET (DOMAIN s) |->
                           IF A = {} THEN base ELSE TerminusStep(g[A \ {Max(A)}], s[Max(A)])]
           fold == CHOOSE g : Is(g)
<1>1. FoldLeft(TerminusStep, [found |-> 0, at |-> 1, escaped |-> FALSE, inside |-> FALSE], s) = fold[DOMAIN s]
  BY DEF FoldLeft, MapThenFoldSet, TerminusBase
<1>2. n \in Nat /\ DOMAIN s = 1..n /\ \A i \in 1..n : s[i] \in chars
  OBVIOUS
<1>3. base \in X
  BY RunEnds
<1>4. step \in [X -> [chars -> X]] /\ \A x \in X : \A c \in chars : step[x][c] = TerminusStep(x, c)
  BY TerminusStepTyped DEF TerminusRun
<1> HIDE DEF X, base, step
<1>5. PICK g : g \in [SUBSET (1..n) -> X] /\ FoldsAs(g, X, step, base, s)
  <2>1. step \in [X -> [chars -> X]]
    BY <1>4
  <2>2. QED
    BY <1>3, <2>1, FoldMade
<1>6. \A A \in SUBSET (1..n) : A # {} => Max(A) \in 1..n /\ A \ {Max(A)} \in SUBSET (1..n)
  BY <1>2, MaxMember
<1>7. Is(g)
  <2> DEFINE h == [A \in SUBSET (1..n) |->
                     IF A = {} THEN base ELSE TerminusStep(g[A \ {Max(A)}], s[Max(A)])]
  <2>1. ASSUME NEW A \in SUBSET (1..n) PROVE g[A] = h[A]
    <3>1. CASE A = {}
      BY <1>5, <3>1 DEF FoldsAs
    <3>2. CASE A # {}
      <4>1. g[A \ {Max(A)}] \in X /\ s[Max(A)] \in chars
        BY <1>2, <1>5, <1>6, <3>2
      <4>2. step[g[A \ {Max(A)}]][s[Max(A)]] = TerminusStep(g[A \ {Max(A)}], s[Max(A)])
        BY <1>4, <4>1
      <4>3. QED
        BY <1>5, <3>2, <4>1, <4>2 DEF FoldsAs
    <3>3. QED
      BY <3>1, <3>2
  <2>2. h = [A \in SUBSET (1..n) |-> h[A]] /\ g = [A \in SUBSET (1..n) |-> g[A]]
    BY <1>5
  <2>3. g = h
    <3> HIDE DEF h
    <3>1. QED
      BY <2>1, <2>2
  <2>4. QED
    BY <1>2, <2>3
<1>8. Is(fold)
  <2> HIDE DEF Is
  <2>1. QED
    BY <1>7
<1> HIDE DEF fold
<1>9. \A A \in SUBSET (1..n) :
         fold[A] = IF A = {} THEN base ELSE TerminusStep(fold[A \ {Max(A)}], s[Max(A)])
  BY <1>2, <1>8
<1>10. fold[{}] = base
  BY <1>9
<1>11. ASSUME NEW A \in SUBSET (1..n), A # {}, fold[A \ {Max(A)}] \in X
       PROVE  fold[A] = step[fold[A \ {Max(A)}]][s[Max(A)]]
  <2>1. s[Max(A)] \in chars
    BY <1>2, <1>6, <1>11
  <2>2. step[fold[A \ {Max(A)}]][s[Max(A)]] = TerminusStep(fold[A \ {Max(A)}], s[Max(A)])
    BY <1>4, <1>11, <2>1
  <2>3. QED
    BY <1>9, <1>11, <2>2
<1>12. fold[1..n] = b
  <2> HIDE DEF Is
  <2>1. Runs(X, step, base, s, b)
    BY DEF X, step, base
  <2>2. FoldsAs(fold, X, step, base, s)
    BY <1>10, <1>11 DEF FoldsAs
  <2>3. QED
    BY <2>1, <2>2, FoldRuns
<1>13. QED
  BY <1>1, <1>2, <1>12 DEF TerminusAt

\* The step scan ends where its scan does.
LEMMA StepsRuns ==
    ASSUME NEW chars, NEW s \in Seq(chars), NEW b,
           Runs(StepsState(chars), StepsRun(chars), StepsBase, s, b)
    PROVE  FoldLeft(StepsStep, [done |-> << >>, step |-> NoStep], s) = b
<1> DEFINE n == Len(s)
           X == StepsState(chars)
           step == StepsRun(chars)
           base == StepsBase
           Is(g) == g = [A \in SUBSET (DOMAIN s) |->
                           IF A = {} THEN base ELSE StepsStep(g[A \ {Max(A)}], s[Max(A)])]
           fold == CHOOSE g : Is(g)
<1>1. FoldLeft(StepsStep, [done |-> << >>, step |-> NoStep], s) = fold[DOMAIN s]
  BY DEF FoldLeft, MapThenFoldSet, StepsBase
<1>2. n \in Nat /\ DOMAIN s = 1..n /\ \A i \in 1..n : s[i] \in chars
  OBVIOUS
<1>3. base \in X
  BY RunEnds
<1>4. step \in [X -> [chars -> X]] /\ \A x \in X : \A c \in chars : step[x][c] = StepsStep(x, c)
  BY StepsStepTyped DEF StepsRun
<1> HIDE DEF X, base, step
<1>5. PICK g : g \in [SUBSET (1..n) -> X] /\ FoldsAs(g, X, step, base, s)
  <2>1. step \in [X -> [chars -> X]]
    BY <1>4
  <2>2. QED
    BY <1>3, <2>1, FoldMade
<1>6. \A A \in SUBSET (1..n) : A # {} => Max(A) \in 1..n /\ A \ {Max(A)} \in SUBSET (1..n)
  BY <1>2, MaxMember
<1>7. Is(g)
  <2> DEFINE h == [A \in SUBSET (1..n) |->
                     IF A = {} THEN base ELSE StepsStep(g[A \ {Max(A)}], s[Max(A)])]
  <2>1. ASSUME NEW A \in SUBSET (1..n) PROVE g[A] = h[A]
    <3>1. CASE A = {}
      BY <1>5, <3>1 DEF FoldsAs
    <3>2. CASE A # {}
      <4>1. g[A \ {Max(A)}] \in X /\ s[Max(A)] \in chars
        BY <1>2, <1>5, <1>6, <3>2
      <4>2. step[g[A \ {Max(A)}]][s[Max(A)]] = StepsStep(g[A \ {Max(A)}], s[Max(A)])
        BY <1>4, <4>1
      <4>3. QED
        BY <1>5, <3>2, <4>1, <4>2 DEF FoldsAs
    <3>3. QED
      BY <3>1, <3>2
  <2>2. h = [A \in SUBSET (1..n) |-> h[A]] /\ g = [A \in SUBSET (1..n) |-> g[A]]
    BY <1>5
  <2>3. g = h
    <3> HIDE DEF h
    <3>1. QED
      BY <2>1, <2>2
  <2>4. QED
    BY <1>2, <2>3
<1>8. Is(fold)
  <2> HIDE DEF Is
  <2>1. QED
    BY <1>7
<1> HIDE DEF fold
<1>9. \A A \in SUBSET (1..n) :
         fold[A] = IF A = {} THEN base ELSE StepsStep(fold[A \ {Max(A)}], s[Max(A)])
  BY <1>2, <1>8
<1>10. fold[{}] = base
  BY <1>9
<1>11. ASSUME NEW A \in SUBSET (1..n), A # {}, fold[A \ {Max(A)}] \in X
       PROVE  fold[A] = step[fold[A \ {Max(A)}]][s[Max(A)]]
  <2>1. s[Max(A)] \in chars
    BY <1>2, <1>6, <1>11
  <2>2. step[fold[A \ {Max(A)}]][s[Max(A)]] = StepsStep(fold[A \ {Max(A)}], s[Max(A)])
    BY <1>4, <1>11, <2>1
  <2>3. QED
    BY <1>9, <1>11, <2>2
<1>12. fold[1..n] = b
  <2> HIDE DEF Is
  <2>1. Runs(X, step, base, s, b)
    BY DEF X, step, base
  <2>2. FoldsAs(fold, X, step, base, s)
    BY <1>10, <1>11 DEF FoldsAs
  <2>3. QED
    BY <2>1, <2>2, FoldRuns
<1>13. QED
  BY <1>1, <1>2, <1>12

\* Digits are a number where their scan ends with it.
LEMMA DigitsRuns ==
    ASSUME NEW s \in Seq(Digits), s # << >>, NEW b,
           Runs(Nat, DigitsRun, 0, s, b)
    PROVE  ParseNat(s) = b
<1> DEFINE n == Len(s)
           X == Nat
           step == DigitsRun
           base == 0
           Is(g) == g = [A \in SUBSET (DOMAIN s) |->
                           IF A = {} THEN base ELSE 10 * g[A \ {Max(A)}] + Value(s[Max(A)])]
           fold == CHOOSE g : Is(g)
<1>1. ParseNat(s) = fold[DOMAIN s]
  <2>1. ToSet(s) \subseteq Digits
    BY DEF ToSet
  <2>2. QED
    BY <2>1 DEF ParseNat, FoldLeft, MapThenFoldSet, Value
<1>2. n \in Nat /\ DOMAIN s = 1..n /\ \A i \in 1..n : s[i] \in Digits
  OBVIOUS
<1>3. base \in X
  BY RunEnds
<1>4. step \in [X -> [Digits -> X]] /\ \A x \in X : \A c \in Digits : step[x][c] = 10 * x + Value(c)
  <2>1. ASSUME NEW d \in Digits PROVE Value(d) \in Nat
    <3>1. \E j \in DOMAIN Digit : Digit[j] = d
      BY DEF Digits
    <3>2. DOMAIN Digit = 1..10
      BY DEF Digit
    <3>3. QED
      BY <3>1, <3>2 DEF Value
  <2>2. \A x \in Nat : \A d \in Digits : 10 * x + Value(d) \in Nat
    BY <2>1
  <2>3. QED
    BY <2>2 DEF DigitsRun
<1> HIDE DEF X, base, step
<1>5. PICK g : g \in [SUBSET (1..n) -> X] /\ FoldsAs(g, X, step, base, s)
  <2>1. step \in [X -> [Digits -> X]]
    BY <1>4
  <2>2. QED
    BY <1>3, <2>1, FoldMade
<1>6. \A A \in SUBSET (1..n) : A # {} => Max(A) \in 1..n /\ A \ {Max(A)} \in SUBSET (1..n)
  BY <1>2, MaxMember
<1>7. Is(g)
  <2> DEFINE h == [A \in SUBSET (1..n) |->
                     IF A = {} THEN base ELSE 10 * g[A \ {Max(A)}] + Value(s[Max(A)])]
  <2>1. ASSUME NEW A \in SUBSET (1..n) PROVE g[A] = h[A]
    <3>1. CASE A = {}
      BY <1>5, <3>1 DEF FoldsAs
    <3>2. CASE A # {}
      <4>1. g[A \ {Max(A)}] \in X /\ s[Max(A)] \in Digits
        BY <1>2, <1>5, <1>6, <3>2
      <4>2. step[g[A \ {Max(A)}]][s[Max(A)]] = 10 * g[A \ {Max(A)}] + Value(s[Max(A)])
        BY <1>4, <4>1
      <4>3. QED
        BY <1>5, <3>2, <4>1, <4>2 DEF FoldsAs
    <3>3. QED
      BY <3>1, <3>2
  <2>2. h = [A \in SUBSET (1..n) |-> h[A]] /\ g = [A \in SUBSET (1..n) |-> g[A]]
    BY <1>5
  <2>3. g = h
    <3> HIDE DEF h
    <3>1. QED
      BY <2>1, <2>2
  <2>4. QED
    BY <1>2, <2>3
<1>8. Is(fold)
  <2> HIDE DEF Is
  <2>1. QED
    BY <1>7
<1> HIDE DEF fold
<1>9. \A A \in SUBSET (1..n) :
         fold[A] = IF A = {} THEN base ELSE 10 * fold[A \ {Max(A)}] + Value(s[Max(A)])
  BY <1>2, <1>8
<1>10. fold[{}] = base
  BY <1>9
<1>11. ASSUME NEW A \in SUBSET (1..n), A # {}, fold[A \ {Max(A)}] \in X
       PROVE  fold[A] = step[fold[A \ {Max(A)}]][s[Max(A)]]
  <2>1. s[Max(A)] \in Digits
    BY <1>2, <1>6, <1>11
  <2>2. step[fold[A \ {Max(A)}]][s[Max(A)]] = 10 * fold[A \ {Max(A)}] + Value(s[Max(A)])
    BY <1>4, <1>11, <2>1
  <2>3. QED
    BY <1>9, <1>11, <2>2
<1>12. fold[1..n] = b
  <2> HIDE DEF Is
  <2>1. Runs(X, step, base, s, b)
    BY DEF X, step, base
  <2>2. FoldsAs(fold, X, step, base, s)
    BY <1>10, <1>11 DEF FoldsAs
  <2>3. QED
    BY <2>1, <2>2, FoldRuns
<1>13. QED
  BY <1>1, <1>2, <1>12

\* The sign between the parts of a range.
Comma == ","

\* Texts in a row.
Parts(chars) == Seq(Seq(chars))

\* No character of a text is one of these.
Without(s, signs) == \A i \in 1..Len(s) : s[i] \notin signs

\* The range splitter with this much read.
Splitting(parts, last, depth) ==
    [parts |-> parts, last |-> last, depth |-> depth, escaped |-> FALSE]

\* These are states of the scan.
LEMMA SplittingTyped ==
    ASSUME NEW chars, NEW parts \in Parts(chars), NEW last \in Seq(chars), NEW depth \in Nat
    PROVE  Splitting(parts, last, depth) \in SplitState(chars)
BY DEF Splitting, SplitState, Parts

\* Any other character is added to the part; so is a comma in an assertion.
LEMMA SplitKeep ==
    ASSUME NEW chars, NEW parts, NEW last, NEW depth,
           Splitting(parts, last, depth) \in SplitState(chars), NEW c \in chars,
           c \notin {"^", "[", "]"}, c # Comma \/ depth # 0
    PROVE  SplitRead(chars)[Splitting(parts, last, depth)][c]
             = Splitting(parts, Append(last, c), depth)
<1>1. SplitRead(chars)[Splitting(parts, last, depth)][c]
        = SplitStep(Splitting(parts, last, depth), c)
  BY DEF SplitRead
<1>2. QED
  BY <1>1, Zenon DEF SplitStep, KeepInPart, Splitting, Comma

\* A bracket goes into an assertion or out of it; a comma outside ends a part.
LEMMA SplitSteps ==
    ASSUME NEW chars, NEW parts, NEW last, NEW depth,
           Splitting(parts, last, depth) \in SplitState(chars), NEW c \in chars
    PROVE  /\ c = "[" => SplitRead(chars)[Splitting(parts, last, depth)][c]
                           = Splitting(parts, Append(last, c), depth + 1)
           /\ c = "]" /\ depth # 0 =>
                SplitRead(chars)[Splitting(parts, last, depth)][c]
                  = Splitting(parts, Append(last, c), depth - 1)
           /\ c = Comma /\ depth = 0 =>
                SplitRead(chars)[Splitting(parts, last, depth)][c]
                  = Splitting(Append(parts, last), << >>, 0)
<1>1. SplitRead(chars)[Splitting(parts, last, depth)][c]
        = SplitStep(Splitting(parts, last, depth), c)
  BY DEF SplitRead
<1>2. QED
  BY <1>1, Zenon DEF SplitStep, KeepInPart, Splitting, Comma

\* Characters that part nothing are kept.
LEMMA SplitKeeps ==
    ASSUME NEW chars, NEW parts \in Parts(chars), NEW last \in Seq(chars), NEW depth \in Nat,
           NEW s \in Seq(chars),
           Without(s, {"^", "[", "]"}), Without(s, {Comma}) \/ depth # 0
    PROVE  Runs(SplitState(chars), SplitRead(chars), Splitting(parts, last, depth), s,
                Splitting(parts, last \o s, depth))
<1> DEFINE t == [k \in 0..Len(s) |-> Splitting(parts, last \o SubSeq(s, 1, k), depth)]
<1>1. Len(s) \in Nat /\ (\A i \in 1..Len(s) : s[i] \in chars)
      /\ \A k \in 1..Len(s) : k - 1 \in 0..Len(s) /\ k \in 0..Len(s)
  BY Characters
<1>2. \A k \in 0..Len(s) : last \o SubSeq(s, 1, k) \in Seq(chars)
  BY FrontGrows
<1>3. t \in [0..Len(s) -> SplitState(chars)]
  BY <1>2, SplittingTyped
<1>4. t[0] = Splitting(parts, last, depth) /\ t[Len(s)] = Splitting(parts, last \o s, depth)
  <2>1. 0 \in 0..Len(s) /\ Len(s) \in 0..Len(s)
    BY <1>1
  <2>2. last \o SubSeq(s, 1, 0) = last /\ SubSeq(s, 1, Len(s)) = s
    BY FrontGrows
  <2>3. QED
    BY <2>1, <2>2
<1>5. ASSUME NEW k \in 1..Len(s)
      PROVE  t[k] = SplitRead(chars)[t[k - 1]][s[k]]
  <2> DEFINE L == last \o SubSeq(s, 1, k - 1)
  <2>1. L \in Seq(chars)
    BY <1>1, <1>2
  <2>2. last \o SubSeq(s, 1, k) = Append(L, s[k])
    BY FrontGrows
  <2>3. t[k] = Splitting(parts, Append(L, s[k]), depth) /\ t[k - 1] = Splitting(parts, L, depth)
    BY <1>1, <2>2
  <2> HIDE DEF L, t
  <2>4. s[k] \in chars /\ s[k] \notin {"^", "[", "]"} /\ (s[k] # Comma \/ depth # 0)
    BY <1>1 DEF Without
  <2>5. Splitting(parts, L, depth) \in SplitState(chars)
    BY <2>1, SplittingTyped
  <2>6. SplitRead(chars)[Splitting(parts, L, depth)][s[k]]
          = Splitting(parts, Append(L, s[k]), depth)
    BY <2>4, <2>5, SplitKeep
  <2>7. QED
    BY <2>3, <2>6
<1> HIDE DEF t
<1>6. QED
  BY <1>3, <1>4, <1>5 DEF Runs, IsTrace

\* The terminus scan outside and inside of an assertion, and where it ends.
Outside(at) == [found |-> 0, at |-> at, escaped |-> FALSE, inside |-> FALSE]
Inside(at) == [found |-> 0, at |-> at, escaped |-> FALSE, inside |-> TRUE]
FoundAt(at) == [found |-> at, at |-> at + 1, escaped |-> FALSE, inside |-> FALSE]

\* These are states of the scan.
LEMMA SeekingTyped ==
    \A at \in Nat : /\ Outside(at) \in TerminusState /\ Inside(at) \in TerminusState
                    /\ FoundAt(at) \in TerminusState
BY DEF Outside, Inside, FoundAt, TerminusState

\* What each character does.
LEMMA TerminusPass ==
    ASSUME NEW chars, NEW at \in Nat, NEW c \in chars
    PROVE  /\ c \notin {"^", "[", "]", ":", "~", "@"} =>
                TerminusRun(chars)[Outside(at)][c] = Outside(at + 1)
           /\ c \notin {"^", "[", "]"} => TerminusRun(chars)[Inside(at)][c] = Inside(at + 1)
           /\ c = "[" => TerminusRun(chars)[Outside(at)][c] = Inside(at + 1)
           /\ c = "]" => TerminusRun(chars)[Inside(at)][c] = Outside(at + 1)
           /\ c \in {":", "~", "@"} => TerminusRun(chars)[Outside(at)][c] = FoundAt(at)
<1>1. /\ TerminusRun(chars)[Outside(at)][c] = TerminusStep(Outside(at), c)
      /\ TerminusRun(chars)[Inside(at)][c] = TerminusStep(Inside(at), c)
  BY SeekingTyped DEF TerminusRun
<1>2. c \notin {"^", "[", "]", ":", "~", "@"} => TerminusStep(Outside(at), c) = Outside(at + 1)
  BY DEF TerminusStep, Outside
<1>3. c \notin {"^", "[", "]"} => TerminusStep(Inside(at), c) = Inside(at + 1)
  BY DEF TerminusStep, Inside
<1>4. c = "[" => TerminusStep(Outside(at), c) = Inside(at + 1)
  BY DEF TerminusStep, Outside, Inside
<1>5. c = "]" => TerminusStep(Inside(at), c) = Outside(at + 1)
  BY DEF TerminusStep, Outside, Inside
<1>6. c \in {":", "~", "@"} => TerminusStep(Outside(at), c) = FoundAt(at)
  BY DEF TerminusStep, Outside, FoundAt
<1>7. QED
  BY <1>1, <1>2, <1>3, <1>4, <1>5, <1>6

\* Characters that mark nothing are passed.
LEMMA TerminusPasses ==
    ASSUME NEW chars, NEW at \in Nat, NEW s \in Seq(chars), Without(s, {"^", "[", "]", ":", "~", "@"})
    PROVE  Runs(TerminusState, TerminusRun(chars), Outside(at), s, Outside(at + Len(s)))
<1> DEFINE t == [k \in 0..Len(s) |-> Outside(at + k)]
<1>1. Len(s) \in Nat /\ (\A i \in 1..Len(s) : s[i] \in chars)
  BY Characters
<1>2. t \in [0..Len(s) -> TerminusState]
  BY <1>1, SeekingTyped
<1>3. t[0] = Outside(at) /\ t[Len(s)] = Outside(at + Len(s))
  BY <1>1
<1>4. ASSUME NEW k \in 1..Len(s)
      PROVE  t[k] = TerminusRun(chars)[t[k - 1]][s[k]]
  <2> DEFINE j == at + (k - 1)
  <2>1. j \in Nat /\ t[k] = Outside(j + 1) /\ t[k - 1] = Outside(j)
    <3>1. k - 1 \in 0..Len(s) /\ k \in 0..Len(s) /\ (at + (k - 1)) + 1 = at + k
          /\ at + (k - 1) \in Nat
      BY <1>1
    <3>2. QED
      BY <3>1
  <2>2. s[k] \in chars /\ s[k] \notin {"^", "[", "]", ":", "~", "@"}
    BY <1>1 DEF Without
  <2> HIDE DEF t, j
  <2>3. TerminusRun(chars)[Outside(j)][s[k]] = Outside(j + 1)
    BY <2>1, <2>2, TerminusPass
  <2>4. QED
    BY <2>1, <2>3
<1> HIDE DEF t
<1>5. QED
  BY <1>2, <1>3, <1>4 DEF Runs, IsTrace

\* So are all the characters of an assertion.
LEMMA AssertionPassed ==
    ASSUME NEW chars, NEW at \in Nat, NEW s \in Seq(chars), Without(s, {"^", "[", "]"})
    PROVE  Runs(TerminusState, TerminusRun(chars), Inside(at), s, Inside(at + Len(s)))
<1> DEFINE t == [k \in 0..Len(s) |-> Inside(at + k)]
<1>1. Len(s) \in Nat /\ (\A i \in 1..Len(s) : s[i] \in chars)
  BY Characters
<1>2. t \in [0..Len(s) -> TerminusState]
  BY <1>1, SeekingTyped
<1>3. t[0] = Inside(at) /\ t[Len(s)] = Inside(at + Len(s))
  BY <1>1
<1>4. ASSUME NEW k \in 1..Len(s)
      PROVE  t[k] = TerminusRun(chars)[t[k - 1]][s[k]]
  <2> DEFINE j == at + (k - 1)
  <2>1. j \in Nat /\ t[k] = Inside(j + 1) /\ t[k - 1] = Inside(j)
    <3>1. k - 1 \in 0..Len(s) /\ k \in 0..Len(s) /\ (at + (k - 1)) + 1 = at + k
          /\ at + (k - 1) \in Nat
      BY <1>1
    <3>2. QED
      BY <3>1
  <2>2. s[k] \in chars /\ s[k] \notin {"^", "[", "]"}
    BY <1>1 DEF Without
  <2> HIDE DEF t, j
  <2>3. TerminusRun(chars)[Inside(j)][s[k]] = Inside(j + 1)
    BY <2>1, <2>2, TerminusPass
  <2>4. QED
    BY <2>1, <2>3
<1> HIDE DEF t
<1>5. QED
  BY <1>2, <1>3, <1>4 DEF Runs, IsTrace

\* Once a mark is found the scan changes no more.
LEMMA TerminusStays ==
    ASSUME NEW chars, NEW at \in Nat \ {0}, NEW s \in Seq(chars)
    PROVE  Runs(TerminusState, TerminusRun(chars), FoundAt(at), s, FoundAt(at))
<1>1. FoundAt(at) \in TerminusState /\ FoundAt(at).found # 0
  BY SeekingTyped DEF FoundAt
<1>2. \A c \in chars : TerminusRun(chars)[FoundAt(at)][c] = FoundAt(at)
  BY <1>1 DEF TerminusRun, TerminusStep
<1>3. QED
  BY <1>1, <1>2, RunStays

\* The step scan in the index of a step, in its assertion, and behind it.
IndexRead(index) ==
    [index |-> index, assertion |-> << >>, has |-> FALSE, inside |-> FALSE, escaped |-> FALSE]
AssertionRead(index, assertion) ==
    [index |-> index, assertion |-> assertion, has |-> TRUE, inside |-> FALSE, escaped |-> FALSE]
InIndex(done, index) == [done |-> done, step |-> IndexRead(index)]
InAssertion(done, index, assertion) ==
    [done |-> done, step |-> [index |-> index, assertion |-> assertion, has |-> FALSE,
                              inside |-> TRUE, escaped |-> FALSE]]
PastAssertion(done, index, assertion) ==
    [done |-> done, step |-> AssertionRead(index, assertion)]
Dones(chars) == Seq(StepState(chars))

\* These are states of the scan.
LEMMA ScanningTyped ==
    ASSUME NEW chars, NEW done \in Dones(chars), NEW index \in Seq(chars),
           NEW assertion \in Seq(chars)
    PROVE  /\ InIndex(done, index) \in StepsState(chars)
           /\ InAssertion(done, index, assertion) \in StepsState(chars)
           /\ PastAssertion(done, index, assertion) \in StepsState(chars)
           /\ IndexRead(index) \in StepState(chars)
           /\ AssertionRead(index, assertion) \in StepState(chars)
<1>1. << >> \in Seq(chars)
  OBVIOUS
<1>2. QED
  BY <1>1 DEF InIndex, InAssertion, PastAssertion, StepsState, StepState, Dones,
              IndexRead, AssertionRead

\* What each character does.
LEMMA StepsPass ==
    ASSUME NEW chars, NEW done \in Dones(chars), NEW index \in Seq(chars),
           NEW assertion \in Seq(chars), NEW c \in chars
    PROVE  /\ c \notin {"^", "/", "["} =>
                StepsRun(chars)[InIndex(done, index)][c] = InIndex(done, Append(index, c))
           /\ c \notin {"^", "]"} =>
                StepsRun(chars)[InAssertion(done, index, assertion)][c]
                  = InAssertion(done, index, Append(assertion, c))
           /\ c = "[" => StepsRun(chars)[InIndex(done, index)][c] = InAssertion(done, index, << >>)
           /\ c = "]" => StepsRun(chars)[InAssertion(done, index, assertion)][c]
                           = PastAssertion(done, index, assertion)
           /\ c = "/" => StepsRun(chars)[InIndex(done, index)][c]
                           = InIndex(Finished(done, IndexRead(index)), << >>)
           /\ c = "/" => StepsRun(chars)[PastAssertion(done, index, assertion)][c]
                           = InIndex(Finished(done, AssertionRead(index, assertion)), << >>)
<1>1. /\ StepsRun(chars)[InIndex(done, index)][c] = StepsStep(InIndex(done, index), c)
      /\ StepsRun(chars)[InAssertion(done, index, assertion)][c]
           = StepsStep(InAssertion(done, index, assertion), c)
      /\ StepsRun(chars)[PastAssertion(done, index, assertion)][c]
           = StepsStep(PastAssertion(done, index, assertion), c)
  BY ScanningTyped DEF StepsRun
<1>2. c \notin {"^", "/", "["} =>
        StepsStep(InIndex(done, index), c) = InIndex(done, Append(index, c))
  BY DEF StepsStep, KeepInStep, InIndex, IndexRead
<1>3. c \notin {"^", "]"} =>
        StepsStep(InAssertion(done, index, assertion), c)
          = InAssertion(done, index, Append(assertion, c))
  BY DEF StepsStep, KeepInStep, InAssertion
<1>4. c = "[" => StepsStep(InIndex(done, index), c) = InAssertion(done, index, << >>)
  BY DEF StepsStep, InIndex, IndexRead, InAssertion
<1>5. c = "]" => StepsStep(InAssertion(done, index, assertion), c)
                   = PastAssertion(done, index, assertion)
  BY DEF StepsStep, PastAssertion, AssertionRead, InAssertion
<1>6. c = "/" => StepsStep(InIndex(done, index), c)
                   = InIndex(Finished(done, IndexRead(index)), << >>)
  BY DEF StepsStep, InIndex, IndexRead, NoStep
<1>7. c = "/" => StepsStep(PastAssertion(done, index, assertion), c)
                   = InIndex(Finished(done, AssertionRead(index, assertion)), << >>)
  BY DEF StepsStep, PastAssertion, AssertionRead, InIndex, IndexRead, NoStep
<1>8. QED
  BY <1>1, <1>2, <1>3, <1>4, <1>5, <1>6, <1>7

\* Digits are kept in the index.
LEMMA IndexKept ==
    ASSUME NEW chars, NEW done \in Dones(chars), NEW s \in Seq(chars),
           Without(s, {"^", "/", "["})
    PROVE  Runs(StepsState(chars), StepsRun(chars), InIndex(done, << >>), s, InIndex(done, s))
<1> DEFINE none == << >>
           t == [k \in 0..Len(s) |-> InIndex(done, none \o SubSeq(s, 1, k))]
<1>1. Len(s) \in Nat /\ (\A i \in 1..Len(s) : s[i] \in chars) /\ none \in Seq(chars)
      /\ \A k \in 1..Len(s) : k - 1 \in 0..Len(s) /\ k \in 0..Len(s)
  BY Characters
<1>2. /\ \A k \in 0..Len(s) : none \o SubSeq(s, 1, k) \in Seq(chars)
      /\ \A k \in 1..Len(s) : none \o SubSeq(s, 1, k) = Append(none \o SubSeq(s, 1, k - 1), s[k])
  <2> HIDE DEF none
  <2>1. none \in Seq(chars)
    BY <1>1
  <2>2. \A k \in 0..Len(s) : none \o SubSeq(s, 1, k) \in Seq(chars)
    BY <2>1, FrontGrows
  <2>3. \A k \in 1..Len(s) : none \o SubSeq(s, 1, k) = Append(none \o SubSeq(s, 1, k - 1), s[k])
    BY <2>1, FrontGrows
  <2>4. QED
    BY <2>2, <2>3
<1>3. t \in [0..Len(s) -> StepsState(chars)]
  <2> HIDE DEF none
  <2>1. QED
    BY <1>1, <1>2, ScanningTyped
<1>4. t[0] = InIndex(done, << >>) /\ t[Len(s)] = InIndex(done, s)
  <2>1. 0 \in 0..Len(s) /\ Len(s) \in 0..Len(s)
    BY <1>1
  <2>2. none \o SubSeq(s, 1, 0) = none /\ SubSeq(s, 1, Len(s)) = s
    BY <1>1, FrontGrows
  <2>3. none \o s = s
    BY ConcatEmptySeq
  <2>4. QED
    BY <2>1, <2>2, <2>3
<1>5. ASSUME NEW k \in 1..Len(s)
      PROVE  t[k] = StepsRun(chars)[t[k - 1]][s[k]]
  <2> DEFINE u == none \o SubSeq(s, 1, k - 1)
             c == s[k]
  <2>1. u \in Seq(chars)
    BY <1>1, <1>2
  <2>2. none \o SubSeq(s, 1, k) = Append(u, c)
    BY <1>2
  <2> HIDE DEF none
  <2>3. t[k] = InIndex(done, Append(u, c)) /\ t[k - 1] = InIndex(done, u)
    BY <1>1, <2>2
  <2>4. c \in chars /\ c \notin {"^", "/", "["}
    BY <1>1 DEF Without
  <2> HIDE DEF t, u, c
  <2>5. StepsRun(chars)[InIndex(done, u)][c] = InIndex(done, Append(u, c))
    BY <1>1, <2>1, <2>4, StepsPass
  <2>6. QED
    BY <2>3, <2>5 DEF c
<1> HIDE DEF t
<1>6. QED
  BY <1>3, <1>4, <1>5 DEF Runs, IsTrace

\* The characters of an assertion are kept in it.
LEMMA AssertionKept ==
    ASSUME NEW chars, NEW done \in Dones(chars), NEW index \in Seq(chars),
           NEW s \in Seq(chars),
           Without(s, {"^", "]"})
    PROVE  Runs(StepsState(chars), StepsRun(chars), InAssertion(done, index, << >>), s, InAssertion(done, index, s))
<1> DEFINE none == << >>
           t == [k \in 0..Len(s) |-> InAssertion(done, index, none \o SubSeq(s, 1, k))]
<1>1. Len(s) \in Nat /\ (\A i \in 1..Len(s) : s[i] \in chars) /\ none \in Seq(chars)
      /\ \A k \in 1..Len(s) : k - 1 \in 0..Len(s) /\ k \in 0..Len(s)
  BY Characters
<1>2. /\ \A k \in 0..Len(s) : none \o SubSeq(s, 1, k) \in Seq(chars)
      /\ \A k \in 1..Len(s) : none \o SubSeq(s, 1, k) = Append(none \o SubSeq(s, 1, k - 1), s[k])
  <2> HIDE DEF none
  <2>1. none \in Seq(chars)
    BY <1>1
  <2>2. \A k \in 0..Len(s) : none \o SubSeq(s, 1, k) \in Seq(chars)
    BY <2>1, FrontGrows
  <2>3. \A k \in 1..Len(s) : none \o SubSeq(s, 1, k) = Append(none \o SubSeq(s, 1, k - 1), s[k])
    BY <2>1, FrontGrows, SMTT(30)
  <2>4. QED
    BY <2>2, <2>3
<1>3. t \in [0..Len(s) -> StepsState(chars)]
  <2> HIDE DEF none
  <2>1. QED
    BY <1>1, <1>2, ScanningTyped
<1>4. t[0] = InAssertion(done, index, << >>) /\ t[Len(s)] = InAssertion(done, index, s)
  <2>1. 0 \in 0..Len(s) /\ Len(s) \in 0..Len(s)
    BY <1>1
  <2>2. none \o SubSeq(s, 1, 0) = none /\ SubSeq(s, 1, Len(s)) = s
    BY <1>1, FrontGrows
  <2>3. none \o s = s
    BY ConcatEmptySeq
  <2>4. QED
    BY <2>1, <2>2, <2>3
<1>5. ASSUME NEW k \in 1..Len(s)
      PROVE  t[k] = StepsRun(chars)[t[k - 1]][s[k]]
  <2> DEFINE u == none \o SubSeq(s, 1, k - 1)
             c == s[k]
  <2>1. u \in Seq(chars)
    BY <1>1, <1>2
  <2>2. none \o SubSeq(s, 1, k) = Append(u, c)
    BY <1>2
  <2> HIDE DEF none
  <2>3. t[k] = InAssertion(done, index, Append(u, c)) /\ t[k - 1] = InAssertion(done, index, u)
    BY <1>1, <2>2
  <2>4. c \in chars /\ c \notin {"^", "]"}
    BY <1>1 DEF Without
  <2> HIDE DEF t, u, c
  <2>5. StepsRun(chars)[InAssertion(done, index, u)][c] = InAssertion(done, index, Append(u, c))
    BY <1>1, <2>1, <2>4, StepsPass
  <2>6. QED
    BY <2>3, <2>5 DEF c
<1> HIDE DEF t
<1>6. QED
  BY <1>3, <1>4, <1>5 DEF Runs, IsTrace

-----------------------------------------------------------------------------
\* Numbers, and texts that scans pass over.

\* The digits are ten characters, each of which has its value.
LEMMA DigitValues ==
    /\ Digits = Digital /\ DOMAIN Digit = 1..10
    /\ \A i \in 1..10 : Digit[i] \in Digits /\ Value(Digit[i]) = i - 1
<1>1. DOMAIN Digit = 1..10
  BY DEF Digit
<1>2. /\ Digit[1] = "0" /\ Digit[2] = "1" /\ Digit[3] = "2" /\ Digit[4] = "3" /\ Digit[5] = "4"
      /\ Digit[6] = "5" /\ Digit[7] = "6" /\ Digit[8] = "7" /\ Digit[9] = "8" /\ Digit[10] = "9"
  BY DEF Digit
<1>3. \A i \in 1..10 : \A j \in 1..10 : Digit[i] = Digit[j] => i = j
  <2>1. TAKE i \in 1..10
  <2>2. i = 1 \/ i = 2 \/ i = 3 \/ i = 4 \/ i = 5 \/ i = 6 \/ i = 7 \/ i = 8 \/ i = 9 \/ i = 10
    OBVIOUS
  <2>3. TAKE j \in 1..10
  <2>4. j = 1 \/ j = 2 \/ j = 3 \/ j = 4 \/ j = 5 \/ j = 6 \/ j = 7 \/ j = 8 \/ j = 9 \/ j = 10
    OBVIOUS
  <2>5. QED
    BY <1>2, <2>2, <2>4
<1>4. \A i \in 1..10 : Digit[i] \in Digits
  BY <1>1 DEF Digits
<1>5. ASSUME NEW i \in 1..10 PROVE Value(Digit[i]) = i - 1
  <2> DEFINE place == CHOOSE j \in DOMAIN Digit : Digit[j] = Digit[i]
  <2>1. place \in 1..10 /\ Digit[place] = Digit[i]
    BY <1>1
  <2> HIDE DEF place
  <2>2. place = i
    BY <1>3, <2>1
  <2>3. Value(Digit[i]) = place - 1
    BY DEF Value, place
  <2>4. QED
    BY <2>2, <2>3
<1>6. Digits = Digital
  <2>1. \A d \in Digits : d \in Digital
    BY <1>1, DigitsWritten DEF Digits
  <2>2. \A d \in Digital : d \in Digits
    BY <1>2, <1>4 DEF Digital
  <2>3. QED
    BY <2>1, <2>2
<1>7. QED
  BY <1>1, <1>4, <1>5, <1>6

\* A number written is read again.
LEMMA DecimalRead ==
    \A n \in Nat : ParseNat(Decimal[n]) = n
<1> DEFINE Reads(n) == Runs(Nat, DigitsRun, 0, Decimal[n], n)
           wrong == {n \in Nat : ~Reads(n)}
<1>1. \A n \in Nat : Decimal[n] \in Seq(Digits) /\ Decimal[n] # << >>
  BY DecimalTyped, DigitValues
<1>2. \A n \in Nat : \A i \in 1..10 : DigitsRun[n][Digit[i]] = 10 * n + (i - 1)
  BY DigitValues DEF DigitsRun
<1>3. ASSUME NEW n \in Nat, n < 10
      PROVE  Reads(n)
  <2> DEFINE d == Digit[n + 1]
  <2>1. n + 1 \in 1..10 /\ 10 * 0 + ((n + 1) - 1) = n
    BY <1>3
  <2>2. d \in Digits /\ DigitsRun[0][d] = n
    BY <1>2, <2>1, DigitValues
  <2>3. Decimal[n] = <<d>>
    BY <1>3, DecimalUnfolds
  <2> HIDE DEF d
  <2>4. Runs(Nat, DigitsRun, 0, <<d>>, n)
    <3>1. DigitsRun[0][d] \in Nat
      BY <2>2
    <3>2. Runs(Nat, DigitsRun, 0, <<d>>, DigitsRun[0][d])
      BY <2>2, <3>1, RunOne
    <3>3. QED
      BY <2>2, <3>2
  <2>5. QED
    BY <2>3, <2>4
<1>4. ASSUME NEW n \in Nat, ~(n < 10), Reads(n \div 10)
      PROVE  Reads(n)
  <2> DEFINE d == Digit[(n % 10) + 1]
             m == n \div 10
  <2>1. (n % 10) + 1 \in 1..10 /\ m \in Nat /\ 10 * m + (((n % 10) + 1) - 1) = n
    OBVIOUS
  <2>2. d \in Digits /\ DigitsRun[m][d] = n
    <3>1. DigitsRun[m][d] = 10 * m + (((n % 10) + 1) - 1)
      BY <1>2, <2>1
    <3>2. QED
      BY <2>1, <3>1, DigitValues
  <2>3. Decimal[n] = Append(Decimal[m], d)
    BY <1>4, DecimalUnfolds
  <2>4. Runs(Nat, DigitsRun, 0, Decimal[m], m)
    BY <1>4
  <2> HIDE DEF d, m
  <2>5. Decimal[n] = Decimal[m] \o <<d>>
    BY <1>1, <2>1, <2>2, <2>3, AppendIsConcat
  <2>6. Runs(Nat, DigitsRun, m, <<d>>, n)
    <3>1. DigitsRun[m][d] \in Nat
      BY <2>2
    <3>2. Runs(Nat, DigitsRun, m, <<d>>, DigitsRun[m][d])
      BY <2>1, <2>2, <3>1, RunOne
    <3>3. QED
      BY <2>2, <3>2
  <2>7. <<d>> \in Seq(Digits) /\ Decimal[m] \in Seq(Digits)
    BY <1>1, <2>1, <2>2
  <2>8. Runs(Nat, DigitsRun, 0, Decimal[m] \o <<d>>, n)
    BY <2>4, <2>6, <2>7, RunJoin
  <2>9. QED
    BY <2>5, <2>8
<1>5. \A n \in Nat : Reads(n)
  <2>1. SUFFICES ASSUME wrong # {} PROVE FALSE
    OBVIOUS
  <2>2. PICK n \in wrong : \A m \in wrong : n <= m
    <3>1. wrong \in SUBSET Nat
      OBVIOUS
    <3> HIDE DEF wrong
    <3>2. QED
      BY <2>1, <3>1, LeastNumber
  <2>3. ~(n < 10) => n \div 10 \in Nat /\ n \div 10 < n
    OBVIOUS
  <2> HIDE DEF Reads
  <2>4. QED
    BY <1>3, <1>4, <2>2, <2>3
<1>6. ASSUME NEW n \in Nat PROVE ParseNat(Decimal[n]) = n
  <2> DEFINE s == Decimal[n]
  <2>1. s \in Seq(Digits) /\ s # << >> /\ Runs(Nat, DigitsRun, 0, s, n)
    BY <1>1, <1>5
  <2> HIDE DEF s
  <2>2. ParseNat(s) = n
    BY <2>1, DigitsRuns
  <2>3. QED
    BY <2>2 DEF s
<1>7. QED
  BY <1>6

\* The range splitter keeps such a text in one part; the terminus scan passes it.
Kept(chars, s) ==
    /\ s \in Seq(chars)
    /\ \A parts \in Parts(chars) : \A last \in Seq(chars) :
         Runs(SplitState(chars), SplitRead(chars), Splitting(parts, last, 0), s,
              Splitting(parts, last \o s, 0))
Passed(chars, s) ==
    /\ s \in Seq(chars)
    /\ \A at \in Nat : Runs(TerminusState, TerminusRun(chars), Outside(at), s,
                            Outside(at + Len(s)))

\* Characters that part nothing.
LEMMA PlainKept ==
    ASSUME NEW chars, NEW s \in Seq(chars)
    PROVE  /\ Without(s, {"^", "[", "]"}) /\ Without(s, {Comma}) => Kept(chars, s)
           /\ Without(s, {"^", "[", "]", ":", "~", "@"}) => Passed(chars, s)
<1>1. ASSUME Without(s, {"^", "[", "]"}), Without(s, {Comma})
      PROVE  Kept(chars, s)
  <2>1. ASSUME NEW parts \in Parts(chars), NEW last \in Seq(chars)
        PROVE  Runs(SplitState(chars), SplitRead(chars), Splitting(parts, last, 0), s,
                    Splitting(parts, last \o s, 0))
    <3>1. 0 \in Nat
      OBVIOUS
    <3>2. QED
      BY <1>1, <3>1, SplitKeeps
  <2>2. QED
    BY <2>1 DEF Kept
<1>2. ASSUME Without(s, {"^", "[", "]", ":", "~", "@"})
      PROVE  Passed(chars, s)
  BY <1>2, TerminusPasses DEF Passed
<1>3. QED
  BY <1>1, <1>2

\* Texts one after the other.
LEMMA JoinKept ==
    ASSUME NEW chars, NEW s, NEW u
    PROVE  /\ Kept(chars, s) /\ Kept(chars, u) => Kept(chars, s \o u)
           /\ Passed(chars, s) /\ Passed(chars, u) => Passed(chars, s \o u)
<1>1. ASSUME Kept(chars, s), Kept(chars, u)
      PROVE  Kept(chars, s \o u)
  <2>1. s \in Seq(chars) /\ u \in Seq(chars) /\ s \o u \in Seq(chars)
    BY <1>1, TextsJoined DEF Kept
  <2>2. ASSUME NEW parts \in Parts(chars), NEW last \in Seq(chars)
        PROVE  Runs(SplitState(chars), SplitRead(chars), Splitting(parts, last, 0), s \o u,
                    Splitting(parts, last \o (s \o u), 0))
    <3>1. Runs(SplitState(chars), SplitRead(chars), Splitting(parts, last, 0), s,
               Splitting(parts, last \o s, 0))
      BY <1>1 DEF Kept
    <3>2. last \o s \in Seq(chars)
      BY <2>1, TextsJoined
    <3>3. Runs(SplitState(chars), SplitRead(chars), Splitting(parts, last \o s, 0), u,
               Splitting(parts, (last \o s) \o u, 0))
      BY <1>1, <3>2 DEF Kept
    <3>4. (last \o s) \o u = last \o (s \o u)
      BY <2>1, ConcatAssociative
    <3>5. QED
      BY <2>1, <3>1, <3>3, <3>4, RunJoin
  <2>3. QED
    BY <2>1, <2>2 DEF Kept
<1>2. ASSUME Passed(chars, s), Passed(chars, u)
      PROVE  Passed(chars, s \o u)
  <2>1. s \in Seq(chars) /\ u \in Seq(chars) /\ s \o u \in Seq(chars)
    BY <1>2, TextsJoined DEF Passed
  <2>2. ASSUME NEW at \in Nat
        PROVE  Runs(TerminusState, TerminusRun(chars), Outside(at), s \o u,
                    Outside(at + Len(s \o u)))
    <3>1. Len(s) \in Nat /\ Len(u) \in Nat /\ Len(s \o u) = Len(s) + Len(u)
      BY <2>1, ConcatProperties, LenProperties
    <3>2. at + Len(s) \in Nat /\ (at + Len(s)) + Len(u) = at + Len(s \o u)
      BY <3>1
    <3>3. Runs(TerminusState, TerminusRun(chars), Outside(at), s, Outside(at + Len(s)))
      BY <1>2 DEF Passed
    <3>4. Runs(TerminusState, TerminusRun(chars), Outside(at + Len(s)), u,
               Outside((at + Len(s)) + Len(u)))
      BY <1>2, <3>2 DEF Passed
    <3>5. QED
      BY <2>1, <3>2, <3>3, <3>4, RunJoin
  <2>3. QED
    BY <2>1, <2>2 DEF Passed
<1>3. QED
  BY <1>1, <1>2

\* An assertion in its brackets.
LEMMA AssertionKeptWhole ==
    ASSUME NEW chars, {"[", "]"} \subseteq chars, NEW a \in Seq(chars), Without(a, {"^", "[", "]"})
    PROVE  Kept(chars, (<<"[">> \o a) \o <<"]">>) /\ Passed(chars, (<<"[">> \o a) \o <<"]">>)
<1> DEFINE open == "["
           close == "]"
           so == <<open>>
           sc == <<close>>
<1>1. open \in chars /\ close \in chars
  OBVIOUS
<1>2. so \in Seq(chars) /\ sc \in Seq(chars)
  BY <1>1, TextsJoined
<1>3. Len(so) = 1 /\ Len(sc) = 1
  OBVIOUS
<1>4. \A L \in Seq(chars) : Append(L, open) = L \o so /\ Append(L, close) = L \o sc
  BY <1>1, AppendIsConcat
<1> DEFINE front == so \o a
<1>5. front \in Seq(chars) /\ front \o sc \in Seq(chars)
  <2> HIDE DEF so, sc
  <2>1. QED
    BY <1>2, TextsJoined
<1>6. ASSUME NEW parts \in Parts(chars), NEW last \in Seq(chars)
      PROVE  Runs(SplitState(chars), SplitRead(chars), Splitting(parts, last, 0), front \o sc,
                  Splitting(parts, last \o (front \o sc), 0))
  <2>1. Splitting(parts, last, 0) \in SplitState(chars)
    BY SplittingTyped
  <2>2. SplitRead(chars)[Splitting(parts, last, 0)][open] = Splitting(parts, last \o so, 1)
    <3>1. SplitRead(chars)[Splitting(parts, last, 0)][open]
            = Splitting(parts, Append(last, open), 0 + 1)
      BY <1>1, <2>1, SplitSteps
    <3>2. 0 + 1 = 1
      OBVIOUS
    <3>3. QED
      BY <1>4, <3>1, <3>2
  <2> HIDE DEF open, close
  <2>3. last \o so \in Seq(chars) /\ (last \o so) \o a \in Seq(chars)
    <3> HIDE DEF so
    <3>1. QED
      BY <1>2, TextsJoined
  <2>4. Runs(SplitState(chars), SplitRead(chars), Splitting(parts, last, 0), so,
             Splitting(parts, last \o so, 1))
    <3>1. Splitting(parts, last \o so, 1) \in SplitState(chars)
      <4> HIDE DEF so
      <4>1. QED
        BY <2>3, SplittingTyped
    <3>2. QED
      BY <1>1, <2>1, <2>2, <3>1, RunOne
  <2>5. Runs(SplitState(chars), SplitRead(chars), Splitting(parts, last \o so, 1), a,
             Splitting(parts, (last \o so) \o a, 1))
    <3> HIDE DEF so
    <3>1. 1 \in Nat /\ 1 # 0
      OBVIOUS
    <3>2. QED
      BY <2>3, <3>1, SplitKeeps
  <2> DEFINE L == (last \o so) \o a
  <2>6. SplitRead(chars)[Splitting(parts, L, 1)][close] = Splitting(parts, L \o sc, 0)
    <3>1. Splitting(parts, L, 1) \in SplitState(chars)
      <4> HIDE DEF so
      <4>1. QED
        BY <2>3, SplittingTyped
    <3> HIDE DEF L
    <3>2. SplitRead(chars)[Splitting(parts, L, 1)][close]
            = Splitting(parts, Append(L, close), 1 - 1)
      <4>1. 1 # 0 /\ close = "]"
        BY DEF close
      <4>2. QED
        BY <1>1, <3>1, <4>1, SplitSteps
    <3>3. 1 - 1 = 0 /\ L \in Seq(chars)
      BY <2>3 DEF L
    <3>4. QED
      BY <1>4, <3>2, <3>3
  <2>7. Runs(SplitState(chars), SplitRead(chars), Splitting(parts, L, 1), sc,
             Splitting(parts, L \o sc, 0))
    <3>1. L \in Seq(chars)
      BY <2>3
    <3> HIDE DEF L
    <3>2. Splitting(parts, L, 1) \in SplitState(chars)
      BY <3>1, SplittingTyped
    <3>3. L \o sc \in Seq(chars)
      <4> HIDE DEF sc
      <4>1. QED
        BY <1>2, <3>1, TextsJoined
    <3>4. Splitting(parts, L \o sc, 0) \in SplitState(chars)
      <4> HIDE DEF sc
      <4>1. QED
        BY <3>3, SplittingTyped
    <3>5. QED
      BY <1>1, <2>6, <3>2, <3>4, RunOne
  <2> HIDE DEF so, sc
  <2>8. Runs(SplitState(chars), SplitRead(chars), Splitting(parts, last, 0), so \o a,
             Splitting(parts, L, 1))
    BY <1>2, <2>4, <2>5, RunJoin
  <2>9. Runs(SplitState(chars), SplitRead(chars), Splitting(parts, last, 0), (so \o a) \o sc,
             Splitting(parts, L \o sc, 0))
    <3> HIDE DEF L
    <3>1. QED
      BY <1>2, <1>5, <2>7, <2>8, RunJoin
  <2>10. L \o sc = last \o ((so \o a) \o sc)
    <3>1. (last \o so) \o a = last \o (so \o a)
      BY <1>2, ConcatAssociative, SMTT(30)
    <3>2. (last \o (so \o a)) \o sc = last \o ((so \o a) \o sc)
      <4> DEFINE v == so \o a
      <4>1. v \in Seq(chars)
        BY <1>2, TextsJoined
      <4> HIDE DEF v
      <4>2. sc \in Seq(chars) /\ last \in Seq(chars)
        BY <1>2
      <4>3. (last \o v) \o sc = last \o (v \o sc)
        BY <4>1, <4>2, ConcatAssociative
      <4>4. QED
        BY <4>3 DEF v
    <3>3. QED
      BY <3>1, <3>2, Zenon
  <2>11. QED
    BY <2>9, <2>10
<1>7. ASSUME NEW at \in Nat
      PROVE  Runs(TerminusState, TerminusRun(chars), Outside(at), front \o sc,
                  Outside(at + Len(front \o sc)))
  <2>1. TerminusRun(chars)[Outside(at)][open] = Inside(at + 1)
    BY <1>1, TerminusPass
  <2>2. Runs(TerminusState, TerminusRun(chars), Outside(at), so, Inside(at + 1))
    <3>1. Outside(at) \in TerminusState /\ Inside(at + 1) \in TerminusState
      BY SeekingTyped
    <3> HIDE DEF open
    <3>2. QED
      BY <1>1, <2>1, <3>1, RunOne
  <2>3. Len(a) \in Nat
    BY LenProperties
  <2>4. Runs(TerminusState, TerminusRun(chars), Inside(at + 1), a, Inside((at + 1) + Len(a)))
    <3>1. at + 1 \in Nat
      OBVIOUS
    <3>2. QED
      BY <3>1, AssertionPassed
  <2> DEFINE j == (at + 1) + Len(a)
  <2>5. j \in Nat /\ at + Len(front \o sc) = j + 1
    <3>1. Len(front) = 1 + Len(a)
      BY <1>2, <1>3, ConcatProperties
    <3> HIDE DEF front, so, sc
    <3>2. Len(front \o sc) = Len(front) + Len(sc)
      BY <1>2, <1>5, ConcatProperties
    <3>3. QED
      BY <1>3, <2>3, <3>1, <3>2
  <2> HIDE DEF j
  <2>6. TerminusRun(chars)[Inside(j)][close] = Outside(j + 1)
    BY <1>1, <2>5, TerminusPass
  <2>7. Runs(TerminusState, TerminusRun(chars), Inside(j), sc, Outside(j + 1))
    <3>1. Inside(j) \in TerminusState /\ Outside(j + 1) \in TerminusState
      BY <2>5, SeekingTyped
    <3> HIDE DEF close
    <3>2. QED
      BY <1>1, <2>6, <3>1, RunOne
  <2> HIDE DEF so, sc
  <2>8. Runs(TerminusState, TerminusRun(chars), Outside(at), front, Inside(j))
    BY <1>2, <2>2, <2>4, RunJoin DEF j
  <2> HIDE DEF front
  <2>9. Runs(TerminusState, TerminusRun(chars), Outside(at), front \o sc, Outside(j + 1))
    BY <1>2, <1>5, <2>7, <2>8, RunJoin
  <2>10. QED
    BY <2>5, <2>9
<1>8. QED
  BY <1>5, <1>6, <1>7 DEF Kept, Passed

\* The characters CFIs are written with, when these are the characters of ids.
Writing(ids) == ids \cup Digital \cup Punctuation \cup {"~", "@", "before", "after"}

\* Ids that need no escape, and None, which is no id.
Unescaped(ids) ==
    /\ \A c \in ids : c \notin {"!", "[", "]", "^", "NaN"}
    /\ Absent \notin Seq(ids)

\* All of them may be written.
LEMMA SignsWritten ==
    ASSUME NEW ids
    PROVE  /\ Digital \subseteq Writing(ids) /\ ids \subseteq Writing(ids)
           /\ {"epubcfi(", "/", "[", "]", "!", ":", ")", "~", "@", "before", "after"}
                \subseteq Writing(ids)
           /\ Comma \in Writing(ids) /\ Punctuation \subseteq Writing(ids)
BY Zenon DEF Writing, Punctuation, Comma

\* NaN is not.
LEMMA NoNaN ==
    ASSUME NEW ids, Unescaped(ids)
    PROVE  "NaN" \notin Writing(ids) /\ "^" \notin Writing(ids)
<1>1. "NaN" \notin ids /\ "^" \notin ids
  BY DEF Unescaped
<1>2. "NaN" \notin Digital /\ "^" \notin Digital
  BY DEF Digital
<1>3. "NaN" \notin Punctuation /\ "^" \notin Punctuation
  BY Zenon DEF Punctuation
<1>4. "NaN" \notin {"~", "@", "before", "after"} /\ "^" \notin {"~", "@", "before", "after"}
  OBVIOUS
<1>5. QED
  BY <1>1, <1>2, <1>3, <1>4 DEF Writing

\* A text of fewer characters is a text.
LEMMA FewerSigns ==
    ASSUME NEW A, NEW B, A \subseteq B
    PROVE  Seq(A) \subseteq Seq(B)
BY SeqMonotonic

\* A number holds digits only.
LEMMA DecimalPlain ==
    ASSUME NEW ids, NEW n \in Nat
    PROVE  /\ Decimal[n] \in Seq(Writing(ids)) /\ Decimal[n] # << >>
           /\ Without(Decimal[n], {"^", "/", "[", "]", ":", "~", "@", "!", "before", "after", "NaN"})
           /\ Without(Decimal[n], {Comma})
<1> DEFINE s == Decimal[n]
<1>1. s \in Seq(Digital) /\ s # << >> /\ s \in Seq(Writing(ids))
  BY DecimalTyped, SignsWritten
<1> HIDE DEF s
<1>2. \A i \in 1..Len(s) : s[i] \in Digital
  BY <1>1, Characters
<1>3. \A d \in Digital : d \notin {"^", "/", "[", "]", ":", "~", "@", "!", "before", "after", "NaN"}
  BY DEF Digital
<1>4. \A d \in Digital : d \notin {Comma}
  BY Zenon DEF Digital, Comma
<1>5. QED
  BY <1>1, <1>2, <1>3, <1>4 DEF Without, s

\* An assertion holds characters that need no escape.
LEMMA AssertionPlain ==
    ASSUME NEW ids, Unescaped(ids), NEW a \in Seq(ids)
    PROVE  a \in Seq(Writing(ids)) /\ Without(a, {"^", "[", "]"}) /\ Without(a, {"^", "]"})
           /\ Without(a, {"!"}) /\ a # Absent
<1>1. a \in Seq(Writing(ids))
  BY SignsWritten, FewerSigns
<1>2. \A i \in 1..Len(a) : a[i] \in ids
  BY Characters
<1>3. QED
  BY <1>1, <1>2 DEF Without, Unescaped

\* A single character.
LEMMA SinglePlain ==
    ASSUME NEW C, NEW c \in C, NEW signs, c \notin signs
    PROVE  <<c>> \in Seq(C) /\ Without(<<c>>, signs) /\ Len(<<c>>) = 1
<1>1. Len(<<c>>) = 1 /\ <<c>>[1] = c /\ 1..1 = {1}
  OBVIOUS
<1>2. QED
  BY <1>1 DEF Without

\* An empty text holds nothing.
LEMMA NothingPlain ==
    ASSUME NEW C, NEW signs
    PROVE  << >> \in Seq(C) /\ Without(<< >>, signs)
BY DEF Without

\* How a step is written.
Bracketed(a) == (<<"[">> \o a) \o <<"]">>
Inner(step) == IF step.assertion = Absent THEN << >> ELSE Bracketed(step.assertion)

\* A step as it is written.
LEMMA StepSpelled ==
    ASSUME NEW step
    PROVE  PrintStep(step) = (<<"/">> \o Decimal[step.index]) \o Inner(step)
BY DEF PrintStep, Inner, Bracketed

\* A step stays in its part of a range, and marks no terminus.
LEMMA StepKept ==
    ASSUME NEW ids, Unescaped(ids), NEW step \in StepOf(ids)
    PROVE  Kept(Writing(ids), PrintStep(step)) /\ Passed(Writing(ids), PrintStep(step))
<1> DEFINE C == Writing(ids)
           slash == <<"/">>
           n == step.index
           D == Decimal[n]
           inner == Inner(step)
<1>1. n \in Nat /\ step.assertion \in Seq(ids) \cup {Absent}
  BY DEF StepOf
<1>2. Kept(C, slash) /\ Passed(C, slash)
  <2>1. slash \in Seq(C) /\ Without(slash, {"^", "[", "]"}) /\ Without(slash, {Comma})
        /\ Without(slash, {"^", "[", "]", ":", "~", "@"})
    <3>1. "/" \in C
      BY SignsWritten
    <3>2. "/" \notin {Comma}
      BY Zenon DEF Comma
    <3>3. "/" \notin {"^", "[", "]"} /\ "/" \notin {"^", "[", "]", ":", "~", "@"}
      OBVIOUS
    <3> HIDE DEF C
    <3>4. QED
      BY <3>1, <3>2, <3>3, SinglePlain
  <2> HIDE DEF slash, C
  <2>2. QED
    BY <2>1, PlainKept
<1>3. Kept(C, D) /\ Passed(C, D)
  <2>1. D \in Seq(C) /\ Without(D, {"^", "[", "]"}) /\ Without(D, {Comma})
        /\ Without(D, {"^", "[", "]", ":", "~", "@"})
    BY <1>1, DecimalPlain DEF Without
  <2> HIDE DEF D, C
  <2>2. QED
    BY <2>1, PlainKept
<1>4. Kept(C, inner) /\ Passed(C, inner)
  <2>1. CASE step.assertion = Absent
    <3>1. inner = << >>
      BY <2>1 DEF Inner
    <3>2. << >> \in Seq(C) /\ Without(<< >>, {"^", "[", "]"}) /\ Without(<< >>, {Comma})
          /\ Without(<< >>, {"^", "[", "]", ":", "~", "@"})
      BY NothingPlain
    <3> HIDE DEF C
    <3>3. Kept(C, << >>) /\ Passed(C, << >>)
      BY <3>2, PlainKept
    <3>4. QED
      BY <3>1, <3>3
  <2>2. CASE step.assertion # Absent
    <3> DEFINE a == step.assertion
    <3>1. a \in Seq(C) /\ Without(a, {"^", "[", "]"}) /\ {"[", "]"} \subseteq C
      BY <1>1, <2>2, AssertionPlain, SignsWritten
    <3>2. inner = (<<"[">> \o a) \o <<"]">>
      BY <2>2 DEF Inner, Bracketed
    <3> HIDE DEF a, C, inner
    <3>3. QED
      BY <3>1, <3>2, AssertionKeptWhole
  <2>3. QED
    BY <2>1, <2>2
<1>5. PrintStep(step) = (slash \o D) \o inner
  BY StepSpelled
<1> HIDE DEF slash, D, inner, C
<1>6. Kept(C, slash \o D) /\ Passed(C, slash \o D)
  BY <1>2, <1>3, JoinKept
<1>7. Kept(C, (slash \o D) \o inner) /\ Passed(C, (slash \o D) \o inner)
  BY <1>4, <1>6, JoinKept
<1>8. QED
  BY <1>5, <1>7 DEF C

\* Many texts that stay in their part, one after the other.
LEMMA FlattenKept ==
    ASSUME NEW chars, NEW seqs \in Seq(Seq(chars)),
           \A i \in 1..Len(seqs) : Kept(chars, seqs[i]) /\ Passed(chars, seqs[i])
    PROVE  Kept(chars, FlattenSeq(seqs)) /\ Passed(chars, FlattenSeq(seqs))
<1> DEFINE n == Len(seqs)
<1>1. PICK f : IsRunning(f, chars, seqs) /\ FlattenSeq(seqs) = f[n]
  BY Flattened
<1>2. n \in Nat
  OBVIOUS
<1> DEFINE N == {k \in 0..n : Kept(chars, f[k]) /\ Passed(chars, f[k])}
<1>3. 0 \in N
  <2>1. f[0] = << >> /\ 0 \in 0..n
    BY <1>1, <1>2 DEF IsRunning
  <2>2. << >> \in Seq(chars) /\ Without(<< >>, {"^", "[", "]"}) /\ Without(<< >>, {Comma})
        /\ Without(<< >>, {"^", "[", "]", ":", "~", "@"})
    BY NothingPlain
  <2>3. Kept(chars, << >>) /\ Passed(chars, << >>)
    BY <2>2, PlainKept
  <2>4. QED
    BY <2>1, <2>3
<1>4. ASSUME NEW k \in 0..(n - 1), k \in N
      PROVE  k + 1 \in N
  <2>1. k + 1 \in 1..n /\ k + 1 \in 0..n /\ (k + 1) - 1 = k
    BY <1>2
  <2>2. f[k + 1] = f[k] \o seqs[k + 1]
    BY <1>1, <2>1 DEF IsRunning
  <2>3. Kept(chars, f[k]) /\ Passed(chars, f[k])
    BY <1>4
  <2>4. Kept(chars, f[k] \o seqs[k + 1]) /\ Passed(chars, f[k] \o seqs[k + 1])
    BY <2>1, <2>3, JoinKept
  <2>5. QED
    BY <2>1, <2>2, <2>4
<1>5. n \in N
  <2>1. n \in 0..n
    BY <1>2
  <2> HIDE DEF N
  <2>2. QED
    BY <1>2, <1>3, <1>4, <2>1, BoundedInduction
<1>6. QED
  BY <1>1, <1>5

\* How steps are written: a text for each, one after the other.
Printed(steps) == [i \in DOMAIN steps |-> PrintStep(steps[i])]

\* Steps are written one after the other.
LEMMA StepsSpelled ==
    ASSUME NEW ids, Unescaped(ids), NEW steps \in Seq(StepOf(ids))
    PROVE  /\ PrintSteps(steps) = FlattenSeq(Printed(steps))
           /\ Printed(steps) \in Seq(Seq(Writing(ids))) /\ Len(Printed(steps)) = Len(steps)
           /\ \A i \in 1..Len(steps) : Printed(steps)[i] = PrintStep(steps[i])
           /\ DOMAIN steps = 1..Len(steps) /\ Len(steps) \in Nat
           /\ \A i \in 1..Len(steps) : steps[i] \in StepOf(ids)
<1>1. DOMAIN steps = 1..Len(steps) /\ Len(steps) \in Nat
      /\ \A i \in 1..Len(steps) : steps[i] \in StepOf(ids)
  BY Characters
<1>2. \A i \in 1..Len(steps) : PrintStep(steps[i]) \in Seq(Writing(ids))
  BY <1>1, StepKept DEF Kept
<1>3. Printed(steps) \in [1..Len(steps) -> Seq(Writing(ids))]
  BY <1>1, <1>2 DEF Printed
<1>4. Printed(steps) \in Seq(Seq(Writing(ids))) /\ Len(Printed(steps)) = Len(steps)
  BY <1>1, <1>3
<1>5. \A i \in 1..Len(steps) : Printed(steps)[i] = PrintStep(steps[i])
  BY <1>1 DEF Printed
<1>6. PrintSteps(steps) = FlattenSeq(Printed(steps))
  BY DEF PrintSteps, Printed
<1>7. QED
  BY <1>1, <1>4, <1>5, <1>6

\* Steps stay in their part of a range, and mark no terminus.
LEMMA StepsKept ==
    ASSUME NEW ids, Unescaped(ids), NEW steps \in Seq(StepOf(ids))
    PROVE  Kept(Writing(ids), PrintSteps(steps)) /\ Passed(Writing(ids), PrintSteps(steps))
<1> DEFINE seqs == Printed(steps)
<1>1. seqs \in Seq(Seq(Writing(ids))) /\ PrintSteps(steps) = FlattenSeq(seqs)
  BY StepsSpelled
<1>2. \A i \in 1..Len(seqs) : Kept(Writing(ids), seqs[i]) /\ Passed(Writing(ids), seqs[i])
  BY StepsSpelled, StepKept
<1> HIDE DEF seqs
<1>3. QED
  BY <1>1, <1>2, FlattenKept

-----------------------------------------------------------------------------
\* Steps are read back.

\* A step as the scan leaves it.
ReadStep(step) ==
    IF step.assertion = Absent THEN IndexRead(Decimal[step.index])
    ELSE AssertionRead(Decimal[step.index], step.assertion)
ScannedTo(done, read) == [done |-> done, step |-> read]

\* What was read of a step is the step.
LEMMA ReadStepTyped ==
    ASSUME NEW ids, Unescaped(ids), NEW step \in StepOf(ids)
    PROVE  /\ ReadStep(step) \in StepState(Writing(ids))
           /\ \A done : Finished(done, ReadStep(step)) = Append(done, ReadStep(step))
           /\ Step(ParseNat(ReadStep(step).index),
                   IF ReadStep(step).has THEN ReadStep(step).assertion ELSE Absent) = step
           /\ ParseNat(ReadStep(step).index) \in Nat
<1> DEFINE C == Writing(ids)
           D == Decimal[step.index]
           a == step.assertion
<1>1. step.index \in Nat /\ a \in Seq(ids) \cup {Absent} /\ step = Step(step.index, a)
  BY DEF StepOf, Step
<1>2. D \in Seq(C) /\ D # << >> /\ ParseNat(D) = step.index
  BY <1>1, DecimalPlain, DecimalRead
<1>3. CASE a = Absent
  <2>1. ReadStep(step) = IndexRead(D)
    BY <1>3 DEF ReadStep
  <2>2. IndexRead(D) \in StepState(C)
    BY <1>2 DEF IndexRead, StepState
  <2>3. IndexRead(D).index = D /\ IndexRead(D).has = FALSE
    BY DEF IndexRead
  <2>4. \A done : Finished(done, IndexRead(D)) = Append(done, IndexRead(D))
    BY <1>2, <2>3 DEF Finished
  <2>5. QED
    BY <1>1, <1>2, <1>3, <2>1, <2>2, <2>3, <2>4
<1>4. CASE a # Absent
  <2>1. ReadStep(step) = AssertionRead(D, a)
    BY <1>4 DEF ReadStep
  <2>2. a \in Seq(C)
    BY <1>1, <1>4, AssertionPlain
  <2>3. AssertionRead(D, a) \in StepState(C)
    BY <1>2, <2>2 DEF AssertionRead, StepState
  <2>4. AssertionRead(D, a).index = D /\ AssertionRead(D, a).has = TRUE
        /\ AssertionRead(D, a).assertion = a
    BY DEF AssertionRead
  <2>5. \A done : Finished(done, AssertionRead(D, a)) = Append(done, AssertionRead(D, a))
    BY <1>2, <2>4 DEF Finished
  <2>6. QED
    BY <1>1, <1>2, <1>4, <2>1, <2>3, <2>4, <2>5
<1>5. QED
  BY <1>3, <1>4

\* One step scanned, from a state in which its "/" begins a new one.
LEMMA StepScanned ==
    ASSUME NEW ids, Unescaped(ids), NEW step \in StepOf(ids),
           NEW before \in StepsState(Writing(ids)), NEW done \in Dones(Writing(ids)),
           StepsRun(Writing(ids))[before]["/"] = InIndex(done, << >>)
    PROVE  Runs(StepsState(Writing(ids)), StepsRun(Writing(ids)), before, PrintStep(step),
                ScannedTo(done, ReadStep(step)))
<1> DEFINE C == Writing(ids)
           X == StepsState(C)
           R == StepsRun(C)
           sign == "/"
           slash == <<sign>>
           D == Decimal[step.index]
           a == step.assertion
           open == "["
           close == "]"
           none == << >>
<1>1. step.index \in Nat /\ a \in Seq(ids) \cup {Absent}
  BY DEF StepOf
<1>2. sign \in C /\ open \in C /\ close \in C /\ done \in Dones(C) /\ before \in X
  BY SignsWritten
<1>3. D \in Seq(C) /\ Without(D, {"^", "/", "["}) /\ none \in Seq(C)
  BY <1>1, DecimalPlain DEF Without
<1>4. slash \in Seq(C) /\ <<open>> \in Seq(C) /\ <<close>> \in Seq(C)
  BY <1>2, TextsJoined
<1>5. InIndex(done, none) \in X /\ InIndex(done, D) \in X
  <2> HIDE DEF D, C, none
  <2>1. QED
    BY <1>2, <1>3, ScanningTyped
<1>6. Runs(X, R, before, slash, InIndex(done, none))
  <2>1. R[before][sign] = InIndex(done, none)
    OBVIOUS
  <2> HIDE DEF R, X, sign, none, C
  <2>2. Runs(X, R, before, <<sign>>, R[before][sign])
    BY <1>2, <1>5, <2>1, RunOne
  <2>3. QED
    BY <2>1, <2>2
<1>7. Runs(X, R, InIndex(done, none), D, InIndex(done, D))
  <2> HIDE DEF C, D
  <2>1. QED
    BY <1>2, <1>3, IndexKept
<1> DEFINE front == slash \o D
<1>8. front \in Seq(C) /\ Runs(X, R, before, front, InIndex(done, D))
  <2> HIDE DEF C, D, slash, X, R, none
  <2>1. QED
    BY <1>3, <1>4, <1>6, <1>7, RunJoin, TextsJoined
<1>9. PrintStep(step) = front \o Inner(step)
  BY StepSpelled
<1>10. CASE a = Absent
  <2>1. Inner(step) = << >> /\ ScannedTo(done, ReadStep(step)) = InIndex(done, D)
    BY <1>10 DEF Inner, ReadStep, ScannedTo, InIndex
  <2> HIDE DEF front
  <2>2. front \o << >> = front
    BY <1>8, ConcatEmptySeq
  <2>3. QED
    BY <1>8, <1>9, <2>1, <2>2
<1>11. CASE a # Absent
  <2>1. a \in Seq(C) /\ Without(a, {"^", "]"})
    BY <1>1, <1>11, AssertionPlain
  <2>2. Inner(step) = (<<open>> \o a) \o <<close>>
        /\ ScannedTo(done, ReadStep(step)) = PastAssertion(done, D, a)
    BY <1>11 DEF Inner, Bracketed, ReadStep, ScannedTo, PastAssertion
  <2>3. InAssertion(done, D, none) \in X /\ PastAssertion(done, D, a) \in X
    <3> HIDE DEF D, C, none, a
    <3>1. QED
      BY <1>2, <1>3, <2>1, ScanningTyped
  <2>4. R[InIndex(done, D)][open] = InAssertion(done, D, none)
        /\ R[InAssertion(done, D, a)][close] = PastAssertion(done, D, a)
    <3> HIDE DEF D, C, a
    <3>1. QED
      BY <1>2, <1>3, <2>1, StepsPass
  <2>5. Runs(X, R, InIndex(done, D), <<open>>, InAssertion(done, D, none))
    <3> HIDE DEF D, C, a, X, R, open, none
    <3>1. Runs(X, R, InIndex(done, D), <<open>>, R[InIndex(done, D)][open])
      BY <1>2, <1>5, <2>3, <2>4, RunOne
    <3>2. QED
      BY <2>4, <3>1
  <2>6. Runs(X, R, InAssertion(done, D, none), a, InAssertion(done, D, a))
    <3> HIDE DEF D, C, a
    <3>1. QED
      BY <1>2, <1>3, <2>1, AssertionKept
  <2>7. Runs(X, R, InAssertion(done, D, a), <<close>>, PastAssertion(done, D, a))
    <3>1. InAssertion(done, D, a) \in X
      <4> HIDE DEF D, C, a
      <4>1. QED
        BY <1>2, <1>3, <2>1, ScanningTyped
    <3> HIDE DEF D, C, a, X, R, close, none
    <3>2. Runs(X, R, InAssertion(done, D, a), <<close>>, R[InAssertion(done, D, a)][close])
      BY <1>2, <2>3, <2>4, <3>1, RunOne
    <3>3. QED
      BY <2>4, <3>2
  <2> DEFINE so == <<open>>
             sc == <<close>>
  <2>8. so \in Seq(C) /\ sc \in Seq(C)
    BY <1>4
  <2> HIDE DEF D, C, a, X, R, so, sc, none, front
  <2>9. so \o a \in Seq(C) /\ Runs(X, R, InIndex(done, D), so \o a, InAssertion(done, D, a))
    BY <2>1, <2>5, <2>6, <2>8, RunJoin, TextsJoined DEF so
  <2>10. (so \o a) \o sc \in Seq(C)
         /\ Runs(X, R, InIndex(done, D), (so \o a) \o sc, PastAssertion(done, D, a))
    <3> DEFINE v == so \o a
    <3>1. v \in Seq(C) /\ Runs(X, R, InIndex(done, D), v, InAssertion(done, D, a))
      BY <2>9
    <3>2. Runs(X, R, InAssertion(done, D, a), sc, PastAssertion(done, D, a))
      BY <2>7 DEF sc
    <3> HIDE DEF v
    <3>3. v \o sc \in Seq(C) /\ Runs(X, R, InIndex(done, D), v \o sc, PastAssertion(done, D, a))
      BY <2>8, <3>1, <3>2, RunJoin, TextsJoined
    <3>4. QED
      BY <3>3 DEF v
  <2> DEFINE inner == (so \o a) \o sc
  <2>11. inner \in Seq(C) /\ Runs(X, R, InIndex(done, D), inner, PastAssertion(done, D, a))
         /\ inner = Inner(step)
    BY <2>2, <2>10 DEF so, sc
  <2> HIDE DEF inner
  <2>12. Runs(X, R, before, front \o inner, PastAssertion(done, D, a))
    BY <1>8, <2>11, RunJoin
  <2>13. QED
    BY <1>9, <2>2, <2>11, <2>12 DEF X, R, C
<1>12. QED
  BY <1>10, <1>11

\* A step scanned is finished by the "/" of the next.
LEMMA SlashAfter ==
    ASSUME NEW ids, Unescaped(ids), NEW step \in StepOf(ids), NEW done \in Dones(Writing(ids))
    PROVE  /\ ScannedTo(done, ReadStep(step)) \in StepsState(Writing(ids))
           /\ StepsRun(Writing(ids))[ScannedTo(done, ReadStep(step))]["/"]
                = InIndex(Append(done, ReadStep(step)), << >>)
           /\ StepsScanned(ScannedTo(done, ReadStep(step))) = Append(done, ReadStep(step))
<1> DEFINE C == Writing(ids)
           D == Decimal[step.index]
           a == step.assertion
           sign == "/"
<1>1. step.index \in Nat /\ a \in Seq(ids) \cup {Absent}
  BY DEF StepOf
<1>2. D \in Seq(C) /\ sign \in C /\ << >> \in Seq(C) /\ done \in Dones(C)
  BY <1>1, DecimalPlain, SignsWritten
<1>3. StepsScanned(ScannedTo(done, ReadStep(step))) = Append(done, ReadStep(step))
  BY ReadStepTyped DEF StepsScanned, ScannedTo
<1>4. CASE a = Absent
  <2>1. ReadStep(step) = IndexRead(D) /\ ScannedTo(done, ReadStep(step)) = InIndex(done, D)
    BY <1>4 DEF ReadStep, ScannedTo, InIndex
  <2>2. Finished(done, IndexRead(D)) = Append(done, ReadStep(step))
    BY <2>1, ReadStepTyped
  <2> HIDE DEF C, D
  <2>3. InIndex(done, D) \in StepsState(C)
    BY <1>2, ScanningTyped
  <2>4. StepsRun(C)[InIndex(done, D)]["/"] = InIndex(Finished(done, IndexRead(D)), << >>)
    BY <1>2, StepsPass
  <2>5. QED
    BY <1>3, <2>1, <2>2, <2>3, <2>4 DEF C
<1>5. CASE a # Absent
  <2>1. ReadStep(step) = AssertionRead(D, a)
        /\ ScannedTo(done, ReadStep(step)) = PastAssertion(done, D, a)
    BY <1>5 DEF ReadStep, ScannedTo, PastAssertion
  <2>2. Finished(done, AssertionRead(D, a)) = Append(done, ReadStep(step))
    BY <2>1, ReadStepTyped
  <2>3. a \in Seq(C)
    BY <1>1, <1>5, AssertionPlain
  <2> HIDE DEF C, D, a
  <2>4. PastAssertion(done, D, a) \in StepsState(C)
    BY <1>2, <2>3, ScanningTyped
  <2>5. StepsRun(C)[PastAssertion(done, D, a)]["/"]
          = InIndex(Finished(done, AssertionRead(D, a)), << >>)
    BY <1>2, <2>3, StepsPass
  <2>6. QED
    BY <1>3, <2>1, <2>2, <2>4, <2>5 DEF C
<1>6. QED
  BY <1>4, <1>5

\* Steps written are scanned one by one.
LEMMA StepsScannedAll ==
    ASSUME NEW ids, Unescaped(ids), NEW steps \in Seq(StepOf(ids))
    PROVE  \E b : /\ Runs(StepsState(Writing(ids)), StepsRun(Writing(ids)), StepsBase,
                          PrintSteps(steps), b)
                  /\ StepsScanned(b) = [i \in 1..Len(steps) |-> ReadStep(steps[i])]
<1> DEFINE C == Writing(ids)
           X == StepsState(C)
           R == StepsRun(C)
           n == Len(steps)
           g == [j \in 1..n |-> ReadStep(steps[j])]
           S == StepState(C)
           upto(i) == [j \in 1..i |-> g[j]]
           a == [i \in 0..n |-> IF i = 0 THEN StepsBase ELSE ScannedTo(upto(i - 1), g[i])]
           none == << >>
<1>1. n \in Nat /\ \A i \in 1..n : steps[i] \in StepOf(ids)
  BY StepsSpelled
<1>2. \A i \in 1..n : g[i] = ReadStep(steps[i]) /\ g[i] \in S
  BY <1>1, ReadStepTyped
<1> HIDE DEF g, S
<1>3. \A i \in 0..n : upto(i) \in Dones(C)
  <2>1. TAKE i \in 0..n
  <2>2. i \in Nat /\ \A j \in 1..i : j \in 1..n
    BY <1>1
  <2>3. [j \in 1..i |-> g[j]] \in Seq(S)
    BY <1>2, <2>2
  <2>4. QED
    BY <2>3 DEF Dones, S
<1>4. \A i \in 1..n : Append(upto(i - 1), g[i]) = upto(i)
  <2>1. TAKE i \in 1..n
  <2>2. i - 1 \in Nat /\ (i - 1) + 1 = i /\ \A j \in 1..i : g[j] \in S
    BY <1>1, <1>2
  <2> DEFINE k == i - 1
  <2>3. k \in Nat /\ k + 1 = i /\ \A j \in 1..(k + 1) : g[j] \in S
    BY <2>2
  <2> HIDE DEF k
  <2>4. Append([j \in 1..k |-> g[j]], g[k + 1]) = [j \in 1..(k + 1) |-> g[j]]
    BY <2>3, ListGrows
  <2>5. QED
    BY <2>3, <2>4 DEF k
<1> HIDE DEF C
<1>5. StepsBase \in X /\ R[StepsBase]["/"] = InIndex(none, none) /\ upto(0) = none
  <2>1. StepsBase = InIndex(none, none) /\ Finished(none, IndexRead(none)) = none
    BY DEF StepsBase, InIndex, IndexRead, NoStep, Finished
  <2>2. none \in Seq(C) /\ none \in Dones(C) /\ "/" \in C
    BY SignsWritten DEF Dones, C
  <2>3. upto(0) = none
    OBVIOUS
  <2> DEFINE sign == "/"
  <2> HIDE DEF none
  <2>4. InIndex(none, none) \in X
    BY <2>2, ScanningTyped
  <2>5. R[InIndex(none, none)][sign] = InIndex(Finished(none, IndexRead(none)), << >>)
    BY <2>2, StepsPass
  <2>6. QED
    BY <2>1, <2>3, <2>4, <2>5 DEF none
<1>6. \A i \in 0..n : a[i] \in X
      /\ (i < n => R[a[i]]["/"] = InIndex(upto(i), none))
  <2>1. TAKE i \in 0..n
  <2>2. CASE i = 0
    BY <1>5, <2>2
  <2>3. CASE i # 0
    <3>1. i \in 1..n /\ i - 1 \in 0..n
      BY <1>1, <2>3
    <3>2. a[i] = ScannedTo(upto(i - 1), ReadStep(steps[i])) /\ upto(i - 1) \in Dones(C)
          /\ Append(upto(i - 1), ReadStep(steps[i])) = upto(i)
      BY <1>2, <1>3, <1>4, <2>3, <3>1
    <3> DEFINE u == upto(i - 1)
               w == upto(i)
    <3>3. a[i] = ScannedTo(u, ReadStep(steps[i])) /\ u \in Dones(C)
          /\ Append(u, ReadStep(steps[i])) = w
      BY <3>2
    <3> HIDE DEF u, w, a, upto
    <3>4. /\ ScannedTo(u, ReadStep(steps[i])) \in X
          /\ R[ScannedTo(u, ReadStep(steps[i]))]["/"]
               = InIndex(Append(u, ReadStep(steps[i])), << >>)
      BY <1>1, <3>1, <3>3, SlashAfter DEF C
    <3>5. QED
      BY <3>3, <3>4 DEF w
  <2>4. QED
    BY <2>2, <2>3
<1>7. \A i \in 1..n : Runs(X, R, a[i - 1], PrintStep(steps[i]), a[i])
  <2>1. TAKE i \in 1..n
  <2>2. i - 1 \in 0..n /\ i - 1 < n
    BY <1>1
  <2>3. a[i] = ScannedTo(upto(i - 1), ReadStep(steps[i]))
    BY <1>1, <1>2
  <2> DEFINE before == a[i - 1]
             done == upto(i - 1)
  <2>4. before \in X /\ R[before]["/"] = InIndex(done, none) /\ done \in Dones(C)
    BY <1>3, <1>6, <2>2
  <2> HIDE DEF before, done, upto, a
  <2>5. Runs(X, R, before, PrintStep(steps[i]), ScannedTo(done, ReadStep(steps[i])))
    BY <1>1, <2>4, StepScanned DEF C
  <2>6. QED
    BY <2>3, <2>5 DEF before, done
<1> DEFINE seqs == Printed(steps)
<1>8. seqs \in Seq(Seq(C)) /\ Len(seqs) = n /\ PrintSteps(steps) = FlattenSeq(seqs)
      /\ \A i \in 1..n : seqs[i] = PrintStep(steps[i])
  BY StepsSpelled DEF C
<1>9. a[0] = StepsBase /\ a[0] \in X
  <2>1. 0 \in 0..n
    BY <1>1
  <2>2. a[0] = StepsBase
    BY <2>1
  <2>3. QED
    BY <1>5, <2>2
<1>10. StepsScanned(a[n]) = g
  <2>1. CASE n = 0
    <3>1. a[n] = StepsBase /\ g = none
      BY <2>1, <1>9 DEF g
    <3>2. StepsScanned(StepsBase) = none
      BY DEF StepsScanned, StepsBase, Finished, NoStep
    <3>3. QED
      BY <3>1, <3>2
  <2>2. CASE n # 0
    <3>1. n \in 1..n /\ n - 1 \in 0..n
      BY <1>1, <2>2
    <3>2. a[n] = ScannedTo(upto(n - 1), ReadStep(steps[n])) /\ upto(n - 1) \in Dones(C)
          /\ Append(upto(n - 1), ReadStep(steps[n])) = upto(n)
      BY <1>1, <1>2, <1>3, <1>4, <2>2, <3>1
    <3>3. upto(n) = g
      BY DEF g
    <3> DEFINE u == upto(n - 1)
    <3>4. a[n] = ScannedTo(u, ReadStep(steps[n])) /\ u \in Dones(C)
          /\ Append(u, ReadStep(steps[n])) = g
      BY <3>2, <3>3
    <3> HIDE DEF u, a, upto
    <3>5. StepsScanned(ScannedTo(u, ReadStep(steps[n]))) = Append(u, ReadStep(steps[n]))
      BY <1>1, <3>1, <3>4, SlashAfter DEF C
    <3>6. QED
      BY <3>4, <3>5
  <2>3. QED
    BY <2>1, <2>2
<1> HIDE DEF a, seqs
<1>11. Runs(X, R, a[0], FlattenSeq(seqs), a[n])
  <2>1. \A i \in 1..Len(seqs) : Runs(X, R, a[i - 1], seqs[i], a[i])
    BY <1>7, <1>8
  <2> HIDE DEF X, R
  <2>2. Runs(X, R, a[0], FlattenSeq(seqs), a[Len(seqs)])
    BY <1>8, <1>9, <2>1, RunChain
  <2>3. QED
    BY <1>8, <2>2
<1>12. QED
  BY <1>8, <1>9, <1>10, <1>11 DEF C, g

\* Steps written are read again.
LEMMA StepsReadBack ==
    ASSUME NEW ids, Unescaped(ids), NEW steps \in Seq(StepOf(ids))
    PROVE  ParseSteps(PrintSteps(steps)) = steps
<1> DEFINE C == Writing(ids)
           X == StepsState(C)
           R == StepsRun(C)
           s == PrintSteps(steps)
           read == [i \in 1..Len(steps) |-> ReadStep(steps[i])]
<1>1. PICK b : Runs(X, R, StepsBase, s, b) /\ StepsScanned(b) = read
  BY StepsScannedAll
<1>2. s \in Seq(C)
  BY StepsKept DEF Kept
<1> DEFINE u == IF s # << >> /\ s[1] = "/" THEN Tail(s) ELSE s
<1>3. u \in Seq(C) /\ Runs(X, R, StepsBase, u, b)
  <2>1. CASE s # << >> /\ s[1] = "/"
    <3>1. R[StepsBase]["/"] = StepsBase
      <4>1. StepsBase = InIndex(<< >>, << >>) /\ Finished(<< >>, IndexRead(<< >>)) = << >>
        BY DEF StepsBase, InIndex, IndexRead, NoStep, Finished
      <4> DEFINE none == << >>
                 sign == "/"
      <4>2. none \in Seq(C) /\ none \in Dones(C) /\ sign \in C
        BY SignsWritten DEF Dones
      <4> HIDE DEF none, C
      <4>3. R[InIndex(none, none)][sign] = InIndex(Finished(none, IndexRead(none)), << >>)
        BY <4>2, StepsPass
      <4>4. QED
        BY <4>1, <4>3 DEF none
    <3> HIDE DEF s, C, X, R
    <3>2. Tail(s) \in Seq(C)
      BY <1>2, <2>1, HeadTailProperties
    <3>3. Runs(X, R, R[StepsBase][s[1]], Tail(s), b)
      BY <1>1, <1>2, <2>1, RunTail
    <3>4. QED
      BY <2>1, <3>1, <3>2, <3>3
  <2>2. CASE ~(s # << >> /\ s[1] = "/")
    BY <1>1, <1>2, <2>2
  <2>3. QED
    BY <2>1, <2>2
<1>4. FoldLeft(StepsStep, [done |-> << >>, step |-> NoStep], u) = b
  <2> HIDE DEF u
  <2>1. QED
    BY <1>3, StepsRuns
<1>5. ParseSteps(s) = WellFormed(StepsRead(read))
  <2>1. ParseSteps(s) = WellFormed(StepsRead(StepsScanned(
                          FoldLeft(StepsStep, [done |-> << >>, step |-> NoStep], u))))
    BY DEF ParseSteps
  <2> HIDE DEF u, s, read
  <2>2. QED
    BY <1>1, <1>4, <2>1
<1>6. /\ DOMAIN steps = 1..Len(steps) /\ steps = [i \in 1..Len(steps) |-> steps[i]]
      /\ \A i \in 1..Len(steps) : steps[i] \in StepOf(ids)
  BY StepsSpelled
<1>7. \A i \in 1..Len(steps) :
        Step(ParseNat(read[i].index), IF read[i].has THEN read[i].assertion ELSE Absent) = steps[i]
  BY <1>6, ReadStepTyped
<1>8. StepsRead(read) = steps
  <2>1. DOMAIN read = 1..Len(steps)
    OBVIOUS
  <2> HIDE DEF read
  <2>2. StepsRead(read) = [i \in 1..Len(steps) |-> steps[i]]
    BY <1>7, <2>1 DEF StepsRead
  <2>3. QED
    BY <1>6, <2>2
<1>9. WellFormed(steps) = steps
  <2>1. \A i \in DOMAIN steps : steps[i].index # Malformed
    BY <1>6, MalformedAssumption DEF StepOf
  <2>2. QED
    BY <2>1 DEF WellFormed
<1>10. QED
  BY <1>5, <1>8, <1>9

-----------------------------------------------------------------------------
\* Termini are read back.

\* A text with a sign in it: the texts before and behind it.
LEMMA AroundSign ==
    ASSUME NEW C, NEW s \in Seq(C), NEW c \in C, NEW t \in Seq(C)
    PROVE  /\ (s \o <<c>>) \o t \in Seq(C) /\ Len((s \o <<c>>) \o t) = Len(s) + 1 + Len(t)
           /\ ((s \o <<c>>) \o t)[Len(s) + 1] = c
           /\ \A i \in 1..Len(s) : ((s \o <<c>>) \o t)[i] = s[i]
           /\ \A i \in 1..Len(t) : ((s \o <<c>>) \o t)[Len(s) + 1 + i] = t[i]
           /\ Before((s \o <<c>>) \o t, Len(s) + 1) = s
           /\ Behind((s \o <<c>>) \o t, Len(s) + 1) = t
<1> DEFINE u == (s \o <<c>>) \o t
           k == Len(s) + 1
<1>1. u \in Seq(C) /\ Len(u) = Len(s) + 1 + Len(t) /\ Len(s) \in Nat /\ Len(t) \in Nat
  OBVIOUS
<1>2. u[k] = c /\ (\A i \in 1..Len(s) : u[i] = s[i]) /\ \A i \in 1..Len(t) : u[k + i] = t[i]
  BY <1>1
<1> HIDE DEF u
<1>3. Before(u, k) = s
  <2>1. Before(u, k) = SubSeq(u, 1, Len(s))
    BY <1>1 DEF Before
  <2>2. SubSeq(u, 1, Len(s)) = [i \in 1..Len(s) |-> u[i]]
    BY <1>1
  <2>3. s = [i \in 1..Len(s) |-> s[i]]
    OBVIOUS
  <2>4. QED
    BY <1>2, <2>1, <2>2, <2>3
<1>4. Behind(u, k) = t
  <2>1. Behind(u, k) = SubSeq(u, k + 1, Len(u))
    BY <1>1 DEF Behind
  <2>2. SubSeq(u, k + 1, Len(u)) \in Seq(C) /\ Len(SubSeq(u, k + 1, Len(u))) = Len(t)
        /\ \A i \in 1..Len(t) : SubSeq(u, k + 1, Len(u))[i] = u[k + i]
    BY <1>1
  <2> DEFINE v == SubSeq(u, k + 1, Len(u))
  <2>3. v \in Seq(C) /\ Len(v) = Len(t) /\ \A i \in 1..Len(t) : v[i] = t[i]
    BY <1>2, <2>2
  <2> HIDE DEF v
  <2>4. v = [i \in 1..Len(v) |-> v[i]] /\ t = [i \in 1..Len(t) |-> t[i]]
    BY <2>3
  <2>5. QED
    BY <2>1, <2>3, <2>4 DEF v
<1>5. QED
  BY <1>1, <1>2, <1>3, <1>4 DEF u

\* A sign a text does not hold is nowhere in it.
LEMMA PlaceNone ==
    ASSUME NEW C, NEW s \in Seq(C), NEW c, Without(s, {c})
    PROVE  FirstAt(s, c) = 0 /\ LastAt(s, c) = 0 /\ Before(s, 0) = s
<1> DEFINE places == {i \in 1..Len(s) : s[i] = c}
<1>1. places = {}
  BY DEF Without
<1>2. FirstAt(s, c) = IF places # {} THEN Min(places) ELSE 0
  BY DEF FirstAt, SelectInSeq
<1>3. LastAt(s, c) = IF places # {} THEN Max(places) ELSE 0
  BY DEF LastAt, SelectLastInSeq
<1>4. QED
  BY <1>1, <1>2, <1>3 DEF Before

\* A sign's first place is behind a text that does not hold it.
LEMMA PlaceFirst ==
    ASSUME NEW C, NEW s \in Seq(C), NEW c \in C, NEW t \in Seq(C), Without(s, {c})
    PROVE  FirstAt((s \o <<c>>) \o t, c) = Len(s) + 1
<1> DEFINE u == (s \o <<c>>) \o t
           places == {i \in 1..Len(u) : u[i] = c}
           k == Len(s) + 1
<1>1. /\ Len(u) = Len(s) + 1 + Len(t) /\ u[k] = c /\ \A i \in 1..Len(s) : u[i] = s[i]
      /\ Len(s) \in Nat /\ Len(t) \in Nat
  BY AroundSign
<1>2. FirstAt(u, c) = IF places # {} THEN Min(places) ELSE 0
  BY DEF FirstAt, SelectInSeq
<1> HIDE DEF u
<1>3. k \in places /\ \A i \in places : k <= i
  BY <1>1 DEF Without
<1>4. \A j \in Int : (j \in places /\ \A i \in places : j <= i) => j = k
  BY <1>1, <1>3
<1>5. \A i \in places : i \in Int
  OBVIOUS
<1> HIDE DEF places
<1>6. Min(places) = k
  <2>1. k \in places /\ \A i \in places : k <= i
    BY <1>3
  <2>2. \A j \in places : (\A i \in places : j <= i) => j = k
    BY <1>4, <1>5
  <2> HIDE DEF k
  <2>3. QED
    BY <2>1, <2>2 DEF Min
<1>7. QED
  BY <1>2, <1>3, <1>6 DEF u

\* A sign's last place is before a text that does not hold it.
LEMMA PlaceLast ==
    ASSUME NEW C, NEW s \in Seq(C), NEW c \in C, NEW t \in Seq(C), Without(t, {c})
    PROVE  LastAt((s \o <<c>>) \o t, c) = Len(s) + 1
<1> DEFINE u == (s \o <<c>>) \o t
           places == {i \in 1..Len(u) : u[i] = c}
           k == Len(s) + 1
<1>1. /\ Len(u) = Len(s) + 1 + Len(t) /\ u[k] = c /\ \A i \in 1..Len(t) : u[k + i] = t[i]
      /\ Len(s) \in Nat /\ Len(t) \in Nat
  BY AroundSign
<1>2. LastAt(u, c) = IF places # {} THEN Max(places) ELSE 0
  BY DEF LastAt, SelectLastInSeq
<1> HIDE DEF u
<1>3. k \in places /\ \A i \in places : i <= k
  <2>1. ASSUME NEW i \in places, i > k
        PROVE  FALSE
    <3>1. i - k \in 1..Len(t) /\ u[k + (i - k)] = u[i]
      BY <1>1, <2>1
    <3>2. QED
      BY <1>1, <2>1, <3>1 DEF Without
  <2>2. QED
    BY <1>1, <2>1
<1>4. \A j \in Int : (j \in places /\ \A i \in places : j >= i) => j = k
  BY <1>1, <1>3
<1>5. \A i \in places : i \in Int
  OBVIOUS
<1> HIDE DEF places
<1>6. Max(places) = k
  <2>1. k \in places /\ \A i \in places : k >= i
    BY <1>1, <1>3, <1>5
  <2>2. \A j \in places : (\A i \in places : j >= i) => j = k
    BY <1>4, <1>5
  <2> HIDE DEF k
  <2>3. QED
    BY <2>1, <2>2 DEF Max
<1>7. QED
  BY <1>2, <1>3, <1>6 DEF u

\* A text that marks no terminus has none; behind it, a mark is the terminus.
LEMMA NoMark ==
    ASSUME NEW chars, NEW s, Passed(chars, s)
    PROVE  TerminusAt(s) = 0
<1>1. s \in Seq(chars) /\ Len(s) \in Nat
  BY DEF Passed
<1>2. Runs(TerminusState, TerminusRun(chars), Outside(1), s, Outside(1 + Len(s)))
  BY DEF Passed
<1>3. Runs(TerminusState, TerminusRun(chars), TerminusBase, s, Outside(1 + Len(s)))
  BY <1>2 DEF TerminusBase, Outside
<1>4. TerminusAt(s) = Outside(1 + Len(s)).found
  BY <1>1, <1>3, TerminusRuns
<1>5. QED
  BY <1>4 DEF Outside

\* The first mark after a text without one is where the terminus begins.
LEMMA MarkFound ==
    ASSUME NEW chars, NEW s, Passed(chars, s), NEW mark \in {":", "~", "@"}, mark \in chars,
           NEW rest \in Seq(chars)
    PROVE  TerminusAt((s \o <<mark>>) \o rest) = Len(s) + 1
<1> DEFINE X == TerminusState
           R == TerminusRun(chars)
           k == Len(s) + 1
<1>1. s \in Seq(chars) /\ Len(s) \in Nat
  BY DEF Passed
<1>2. Runs(X, R, Outside(1), s, Outside(1 + Len(s)))
  BY DEF Passed
<1>3. TerminusBase = Outside(1) /\ 1 + Len(s) = k /\ k \in Nat \ {0}
  BY <1>1 DEF TerminusBase, Outside
<1>4. R[Outside(k)][mark] = FoundAt(k)
  BY <1>3, TerminusPass
<1>5. Outside(k) \in X /\ FoundAt(k) \in X
  BY <1>3, SeekingTyped
<1>6. Runs(X, R, FoundAt(k), rest, FoundAt(k))
  BY <1>3, TerminusStays
<1> DEFINE one == <<mark>>
<1>7. one \in Seq(chars) /\ s \o one \in Seq(chars)
  BY <1>1
<1> HIDE DEF X, R, k
<1>8. Runs(X, R, Outside(k), one, FoundAt(k))
  BY <1>4, <1>5, RunOne
<1> HIDE DEF one
<1>9. Runs(X, R, TerminusBase, s, Outside(k))
  BY <1>2, <1>3
<1>10. Runs(X, R, TerminusBase, s \o one, FoundAt(k))
  BY <1>1, <1>7, <1>8, <1>9, RunJoin
<1>11. Runs(X, R, TerminusBase, (s \o one) \o rest, FoundAt(k))
  BY <1>6, <1>7, <1>10, RunJoin
<1>12. (s \o one) \o rest \in Seq(chars)
  BY <1>7
<1>13. TerminusAt((s \o one) \o rest) = FoundAt(k).found
  BY <1>11, <1>12, TerminusRuns DEF X, R
<1>14. QED
  BY <1>13 DEF FoundAt, one, k

\* Two texts without these signs, one after the other.
LEMMA JoinWithout ==
    ASSUME NEW C, NEW s \in Seq(C), NEW u \in Seq(C), NEW signs, Without(s, signs), Without(u, signs)
    PROVE  Without(s \o u, signs)
<1>1. Len(s \o u) = Len(s) + Len(u) /\ Len(s) \in Nat /\ Len(u) \in Nat
  OBVIOUS
<1>2. \A i \in 1..(Len(s) + Len(u)) :
        (s \o u)[i] = IF i <= Len(s) THEN s[i] ELSE u[i - Len(s)]
  BY ConcatProperties
<1>3. QED
  BY <1>1, <1>2 DEF Without

\* The terminus of a path.
TerminusOf(p) ==
    [offset |-> p.offset, side |-> p.side, temporal |-> p.temporal, spatial |-> p.spatial]

\* None and an error are none of the values they stand beside.
Apart(ids) ==
    /\ Absent \notin Seq(StepOf(ids)) \cup PointOfSpace \cup {"before", "after"}
    /\ Malformed \notin Seq(StepOf(ids)) \cup PointOfSpace \cup PathOf(ids) \cup CfiOf(ids)
    /\ \A p \in PathOf(ids) : \A i \in Nat : LocalOf(p) # << >> => ResolvePath(p, i) # Absent

\* A terminus as it is written: a mark, and the rest.
PointText(point) == (Decimal[point.x] \o <<":">>) \o Decimal[point.y]
EndMark(p) == IF p.offset # Absent THEN ":" ELSE IF p.temporal # Absent THEN "~" ELSE "@"
EndRest(p) ==
    IF p.offset # Absent
    THEN IF p.side = Absent THEN Decimal[p.offset] ELSE (Decimal[p.offset] \o <<":">>) \o <<p.side>>
    ELSE IF p.temporal # Absent
    THEN IF p.spatial = Absent THEN Decimal[p.temporal]
         ELSE (Decimal[p.temporal] \o <<"@">>) \o PointText(p.spatial)
    ELSE PointText(p.spatial)
Ended(p) == p.offset # Absent \/ p.temporal # Absent \/ p.spatial # Absent

\* The signs that matter to a scanner, but for those a terminus consists of.
Parting == {"^", "[", "]", "!"}
Plainly(ids, s) == s \in Seq(Writing(ids)) /\ Without(s, Parting) /\ Without(s, {Comma})

\* A number and a sign, plain.
LEMMA SignPlain ==
    ASSUME NEW ids
    PROVE  \A c \in {":", "~", "@", "before", "after"} : Plainly(ids, <<c>>)
<1> SUFFICES ASSUME NEW c \in {":", "~", "@", "before", "after"} PROVE Plainly(ids, <<c>>)
  OBVIOUS
<1>1. c \in Writing(ids)
  BY SignsWritten
<1>2. c \notin {Comma}
  BY Zenon DEF Comma
<1>3. c \notin Parting
  BY DEF Parting
<1>4. QED
  BY <1>1, <1>2, <1>3, SinglePlain DEF Plainly

\* Digits are nothing else.
LEMMA NumberPlain ==
    ASSUME NEW ids, NEW n \in Nat
    PROVE  Plainly(ids, Decimal[n])
<1>1. Without(Decimal[n], Parting)
  BY DecimalPlain DEF Without, Parting
<1>2. QED
  BY <1>1, DecimalPlain DEF Plainly

\* Plain texts may be joined.
LEMMA JoinPlain ==
    ASSUME NEW ids, NEW s, NEW u, Plainly(ids, s), Plainly(ids, u)
    PROVE  Plainly(ids, s \o u)
BY JoinWithout DEF Plainly

\* A point is written plainly and read again.
LEMMA SpatialReadBack ==
    ASSUME NEW ids, Apart(ids), NEW point \in PointOfSpace
    PROVE  ParseSpatial(PointText(point)) = point /\ Plainly(ids, PointText(point))
<1> DEFINE x == Decimal[point.x]
           y == Decimal[point.y]
<1>1. point.x \in Nat /\ point.y \in Nat /\ point = [x |-> point.x, y |-> point.y]
  BY DEF PointOfSpace
<1>2. /\ ParseNat(x) = point.x /\ ParseNat(y) = point.y
      /\ Plainly(ids, x) /\ Plainly(ids, y)
      /\ Without(x, {":"}) /\ Without(x, {"NaN"}) /\ Without(y, {"NaN"}) /\ x # << >> /\ y # << >>
  <2>1. Without(x, {":"}) /\ Without(x, {"NaN"}) /\ Without(y, {"NaN"})
    BY <1>1, DecimalPlain DEF Without
  <2>2. QED
    BY <1>1, <2>1, DecimalRead, NumberPlain, DecimalPlain
<1> HIDE DEF x, y
<1>3. x # <<"NaN">> /\ y # <<"NaN">>
  BY <1>2 DEF Without
<1>4. ParseFloat(x) = point.x /\ ParseFloat(y) = point.y
  BY <1>2, <1>3 DEF ParseFloat
<1> DEFINE C == Writing(ids)
           colon == ":"
           s == (x \o <<colon>>) \o y
<1>5. x \in Seq(C) /\ y \in Seq(C) /\ colon \in C
  BY <1>2, SignsWritten DEF Plainly
<1> HIDE DEF C
<1>6. FirstAt(s, colon) = Len(x) + 1
  BY <1>2, <1>5, PlaceFirst
<1>7. Before(s, Len(x) + 1) = x /\ Behind(s, Len(x) + 1) = y
  BY <1>5, AroundSign
<1>8. PointText(point) = s
  BY DEF PointText, x, y
<1>9. Plainly(ids, s)
  <2>1. Plainly(ids, <<colon>>)
    BY SignPlain
  <2>2. Plainly(ids, x \o <<colon>>)
    BY <1>2, <2>1, JoinPlain
  <2>3. QED
    BY <1>2, <2>2, JoinPlain
<1> HIDE DEF s
<1>10. ParseSpatial(s) = SpatialPoint(point.x, point.y)
  BY <1>4, <1>6, <1>7 DEF ParseSpatial, SpatialParted
<1>11. SpatialPoint(point.x, point.y) = point
  BY <1>1, MalformedAssumption DEF SpatialPoint
<1>12. QED
  BY <1>8, <1>9, <1>10, <1>11

\* Nothing of a number is a side.
LEMMA NumberAlone ==
    ASSUME NEW n \in Nat
    PROVE  OffsetTerminus(Decimal[n], LastAt(Decimal[n], ":")) = [NoTerminus EXCEPT !.offset = n]
<1>1. Decimal[n] \in Seq(Writing({})) /\ Without(Decimal[n], {":"})
  BY DecimalPlain DEF Without
<1>2. LastAt(Decimal[n], ":") = 0
  BY <1>1, PlaceNone
<1>3. QED
  BY <1>2, DecimalRead DEF OffsetTerminus

\* An offset with its side.
LEMMA NumberWithSide ==
    ASSUME NEW n \in Nat, NEW side \in {"before", "after"}
    PROVE  LET s == (Decimal[n] \o <<":">>) \o <<side>>
           IN OffsetTerminus(s, LastAt(s, ":"))
                = [NoTerminus EXCEPT !.offset = n, !.side = side]
<1> DEFINE C == Writing({})
           x == Decimal[n]
           colon == ":"
           y == <<side>>
           s == (x \o <<colon>>) \o y
<1>1. x \in Seq(C) /\ ParseNat(x) = n
  BY DecimalPlain, DecimalRead
<1>2. colon \in C /\ side \in C /\ y \in Seq(C) /\ Without(y, {colon}) /\ Len(y) = 1 /\ y[1] = side
  BY SignsWritten, SinglePlain
<1>3. y \in {<<"before">>, <<"after">>}
  OBVIOUS
<1> HIDE DEF C, x, y
<1>4. /\ LastAt(s, colon) = Len(x) + 1
      /\ Before(s, Len(x) + 1) = x /\ Behind(s, Len(x) + 1) = y
      /\ Len(s) = Len(x) + 1 + 1 /\ Len(x) \in Nat /\ s[Len(x) + 1 + 1] = side
  BY <1>1, <1>2, PlaceLast, AroundSign, Characters
<1>5. Last(s) = side
  BY <1>4 DEF Last
<1> HIDE DEF s
<1>6. OffsetTerminus(s, Len(x) + 1) = [NoTerminus EXCEPT !.offset = ParseNat(x), !.side = Last(s)]
  <2> DEFINE k == Len(x) + 1
             sides == {<<"before">>, <<"after">>}
  <2>1. k # 0 /\ Behind(s, k) \in sides /\ Before(s, k) = x
    BY <1>3, <1>4
  <2>2. OffsetTerminus(s, k) =
          IF k # 0 /\ Behind(s, k) \in sides
          THEN [NoTerminus EXCEPT !.offset = ParseNat(Before(s, k)), !.side = Last(s)]
          ELSE [NoTerminus EXCEPT !.offset = ParseNat(s)]
    BY DEF OffsetTerminus
  <2> HIDE DEF k, sides
  <2>3. OffsetTerminus(s, k) = [NoTerminus EXCEPT !.offset = ParseNat(x), !.side = Last(s)]
    BY <2>1, <2>2
  <2>4. QED
    BY <2>3 DEF k
<1>7. QED
  BY <1>1, <1>4, <1>5, <1>6 DEF x, y, s

\* A time, with a point or without.
LEMMA TimeReadBack ==
    ASSUME NEW ids, Apart(ids), NEW n \in Nat, NEW spatial \in PointOfSpace \cup {Absent}
    PROVE  LET s == IF spatial = Absent THEN Decimal[n]
                    ELSE (Decimal[n] \o <<"@">>) \o PointText(spatial)
           IN TemporalTerminus(s, FirstAt(s, "@"))
                = [NoTerminus EXCEPT !.temporal = n, !.spatial = spatial]
<1> DEFINE C == Writing(ids)
           x == Decimal[n]
           at == "@"
<1>1. x \in Seq(C) /\ ParseNat(x) = n /\ Without(x, {at}) /\ Without(x, {"NaN"}) /\ x # << >>
  BY DecimalPlain, DecimalRead DEF Without
<1>2. ParseFloat(x) = n
  <2> HIDE DEF x
  <2>1. x # <<"NaN">>
    BY <1>1 DEF Without
  <2>2. QED
    BY <1>1, <2>1 DEF ParseFloat
<1>3. CASE spatial = Absent
  <2>1. FirstAt(x, at) = 0 /\ Before(x, 0) = x
    <3> HIDE DEF x, C
    <3>1. QED
      BY <1>1, PlaceNone
  <2>2. TemporalTerminus(x, FirstAt(x, at))
          = [NoTerminus EXCEPT !.temporal = ParseFloat(x), !.spatial = Absent]
    BY <2>1 DEF TemporalTerminus
  <2>3. QED
    BY <1>2, <1>3, <2>2
<1>4. CASE spatial # Absent
  <2> DEFINE y == PointText(spatial)
             s == (x \o <<at>>) \o y
  <2>1. y \in Seq(C) /\ ParseSpatial(y) = spatial /\ at \in C
    BY <1>4, SpatialReadBack, SignsWritten DEF Plainly
  <2> HIDE DEF C, x, y
  <2>2. FirstAt(s, at) = Len(x) + 1 /\ Len(x) + 1 # 0
        /\ Before(s, Len(x) + 1) = x /\ Behind(s, Len(x) + 1) = y
    BY <1>1, <2>1, PlaceFirst, AroundSign, Characters
  <2> HIDE DEF s
  <2>3. TemporalTerminus(s, FirstAt(s, at))
          = [NoTerminus EXCEPT !.temporal = ParseFloat(x), !.spatial = ParseSpatial(y)]
    BY <2>2 DEF TemporalTerminus
  <2>4. QED
    BY <1>2, <1>4, <2>1, <2>3 DEF s, x, y
<1>5. QED
  BY <1>3, <1>4

\* A terminus with a time and a point.
LEMMA TimedTerminus ==
    ASSUME NEW t, NEW x
    PROVE  [NoTerminus EXCEPT !.temporal = t, !.spatial = x]
             = [offset |-> Absent, side |-> Absent, temporal |-> t, spatial |-> x]
<1>1. [[offset |-> Absent, side |-> Absent, temporal |-> Absent, spatial |-> Absent]
         EXCEPT !.temporal = t] = [offset |-> Absent, side |-> Absent, temporal |-> t, spatial |-> Absent]
  OBVIOUS
<1>2. [[offset |-> Absent, side |-> Absent, temporal |-> t, spatial |-> Absent]
         EXCEPT !.spatial = x] = [offset |-> Absent, side |-> Absent, temporal |-> t, spatial |-> x]
  OBVIOUS
<1>3. [NoTerminus EXCEPT !.temporal = t, !.spatial = x]
        = [[NoTerminus EXCEPT !.temporal = t] EXCEPT !.spatial = x]
  OBVIOUS
<1>4. QED
  BY <1>1, <1>2, <1>3 DEF NoTerminus

\* The terminus of a path is read back.
LEMMA TerminusReadBack ==
    ASSUME NEW ids, Apart(ids), NEW p \in PathOf(ids), Canonical(p), Ended(p)
    PROVE  /\ ParseTerminus(EndMark(p), EndRest(p)) = TerminusOf(p)
           /\ Plainly(ids, EndRest(p)) /\ EndMark(p) \in {":", "~", "@"}
<1>0. /\ p.offset \in Nat \cup {Absent} /\ p.side \in {Absent, "before", "after"}
      /\ p.temporal \in Nat \cup {Absent} /\ p.spatial \in PointOfSpace \cup {Absent}
  BY DEF PathOf, Offset
<1>1. CASE p.offset # Absent
  <2>1. p.temporal = Absent /\ p.spatial = Absent /\ p.offset \in Nat /\ EndMark(p) = ":"
    BY <1>0, <1>1 DEF Canonical, EndMark
  <2>2. CASE p.side = Absent
    <3>1. EndRest(p) = Decimal[p.offset]
      BY <1>1, <2>2 DEF EndRest
    <3>2. ParseTerminus(":", EndRest(p)) = [NoTerminus EXCEPT !.offset = p.offset]
      BY <2>1, <3>1, NumberAlone DEF ParseTerminus
    <3>3. Plainly(ids, EndRest(p))
      BY <2>1, <3>1, NumberPlain
    <3>4. QED
      BY <2>1, <2>2, <3>2, <3>3 DEF NoTerminus, TerminusOf
  <2>3. CASE p.side # Absent
    <3>1. EndRest(p) = (Decimal[p.offset] \o <<":">>) \o <<p.side>> /\ p.side \in {"before", "after"}
      BY <1>0, <1>1, <2>3 DEF EndRest
    <3>2. ParseTerminus(":", EndRest(p)) = [NoTerminus EXCEPT !.offset = p.offset, !.side = p.side]
      BY <2>1, <3>1, NumberWithSide DEF ParseTerminus
    <3>3. Plainly(ids, EndRest(p))
      <4>1. Plainly(ids, Decimal[p.offset]) /\ Plainly(ids, <<":">>) /\ Plainly(ids, <<p.side>>)
        BY <2>1, <3>1, NumberPlain, SignPlain
      <4>2. Plainly(ids, Decimal[p.offset] \o <<":">>)
        BY <4>1, JoinPlain
      <4>3. QED
        BY <3>1, <4>1, <4>2, JoinPlain
    <3>4. QED
      BY <2>1, <3>2, <3>3 DEF NoTerminus, TerminusOf
  <2>4. QED
    BY <2>2, <2>3
<1>2. CASE p.offset = Absent /\ p.temporal # Absent
  <2>1. p.side = Absent /\ p.temporal \in Nat /\ EndMark(p) = "~"
    BY <1>0, <1>2 DEF Canonical, EndMark
  <2>2. EndRest(p) = IF p.spatial = Absent THEN Decimal[p.temporal]
                     ELSE (Decimal[p.temporal] \o <<"@">>) \o PointText(p.spatial)
    BY <1>2 DEF EndRest
  <2>3. TemporalTerminus(EndRest(p), FirstAt(EndRest(p), "@"))
          = [NoTerminus EXCEPT !.temporal = p.temporal, !.spatial = p.spatial]
    BY <1>0, <2>1, <2>2, TimeReadBack
  <2>4. ParseTerminus("~", EndRest(p)) = TemporalTerminus(EndRest(p), FirstAt(EndRest(p), "@"))
    BY DEF ParseTerminus
  <2>5. [NoTerminus EXCEPT !.temporal = p.temporal, !.spatial = p.spatial] = TerminusOf(p)
    <3>1. [NoTerminus EXCEPT !.temporal = p.temporal, !.spatial = p.spatial]
            = [offset |-> Absent, side |-> Absent, temporal |-> p.temporal, spatial |-> p.spatial]
      BY TimedTerminus
    <3>2. QED
      BY <1>2, <2>1, <3>1 DEF TerminusOf
  <2>6. Plainly(ids, EndRest(p))
    <3>1. Plainly(ids, Decimal[p.temporal]) /\ Plainly(ids, <<"@">>)
      BY <2>1, NumberPlain, SignPlain
    <3>2. Plainly(ids, Decimal[p.temporal] \o <<"@">>)
      BY <3>1, JoinPlain
    <3>3. CASE p.spatial = Absent
      BY <2>2, <3>1, <3>3
    <3>4. CASE p.spatial # Absent
      <4>1. Plainly(ids, PointText(p.spatial))
        BY <1>0, <3>4, SpatialReadBack
      <4>2. QED
        BY <2>2, <3>2, <3>4, <4>1, JoinPlain
    <3>5. QED
      BY <3>3, <3>4
  <2>7. QED
    BY <2>1, <2>3, <2>4, <2>5, <2>6
<1>3. CASE p.offset = Absent /\ p.temporal = Absent
  <2>1. p.side = Absent /\ p.spatial \in PointOfSpace /\ EndMark(p) = "@"
        /\ EndRest(p) = PointText(p.spatial)
    BY <1>0, <1>3 DEF Canonical, EndMark, EndRest, Ended
  <2>2. ParseTerminus("@", EndRest(p)) = [NoTerminus EXCEPT !.spatial = p.spatial]
    BY <2>1, SpatialReadBack DEF ParseTerminus
  <2>3. Plainly(ids, EndRest(p))
    BY <2>1, SpatialReadBack
  <2>4. QED
    BY <1>3, <2>1, <2>2, <2>3 DEF NoTerminus, TerminusOf
<1>4. QED
  BY <1>1, <1>2, <1>3

\* A path as it is written: its steps, and its terminus.
EndText(p) == IF Ended(p) THEN <<EndMark(p)>> \o EndRest(p) ELSE << >>
Lead(p) ==
    PrintSteps(p.steps) \o (IF p.local = Absent THEN << >> ELSE <<"!">> \o PrintSteps(p.local))

\* A path is written as its steps and then its terminus.
LEMMA EndSpelled ==
    ASSUME NEW ids, Unescaped(ids), Apart(ids), NEW p \in PathOf(ids), Canonical(p)
    PROVE  PrintPath(p) = Lead(p) \o EndText(p) /\ Lead(p) \in Seq(Writing(ids))
           /\ Plainly(ids, EndText(p))
<1> DEFINE C == Writing(ids)
           L == Lead(p)
           PO == PrintOffset(p.offset)
           T == IF p.temporal = Absent THEN << >> ELSE <<"~">> \o Number(p.temporal)
           S == IF p.spatial = Absent THEN << >>
                ELSE <<"@">> \o Number(p.spatial.x) \o <<":">> \o Number(p.spatial.y)
           D == IF p.side = Absent THEN << >> ELSE <<":", p.side>>
           none == << >>
           E == EndText(p)
<1>0. /\ p.offset \in Nat \cup {Absent} /\ p.side \in {Absent, "before", "after"}
      /\ p.temporal \in Nat \cup {Absent} /\ p.spatial \in PointOfSpace \cup {Absent}
      /\ p.steps \in Seq(StepOf(ids)) /\ p.local \in Seq(StepOf(ids)) \cup {Absent}
  BY DEF PathOf, Offset
<1>1. L \in Seq(C)
  <2>1. "!" \in C /\ << >> \in Seq(C)
    BY SignsWritten
  <2>2. PrintSteps(p.steps) \in Seq(C)
    BY <1>0, StepsKept DEF Kept
  <2>3. p.local # Absent => PrintSteps(p.local) \in Seq(C)
    BY <1>0, StepsKept DEF Kept
  <2> HIDE DEF C
  <2>4. QED
    BY <2>1, <2>2, <2>3 DEF Lead
<1>2. \A n \in Nat : Decimal[n] \in Seq(C) /\ Number(n) = Decimal[n]
  BY DecimalPlain, AbsentAssumption DEF Number
<1>3. none \in Seq(C) /\ Plainly(ids, none) /\ \A c \in {":", "~", "@", "before", "after"} : c \in C
  BY SignsWritten DEF Plainly, Without
<1>4. Plainly(ids, E)
  <2>1. CASE Ended(p)
    <3>1. Plainly(ids, EndRest(p)) /\ Plainly(ids, <<EndMark(p)>>)
      BY <2>1, TerminusReadBack, SignPlain
    <3>2. QED
      BY <2>1, <3>1, JoinPlain DEF EndText
  <2>2. CASE ~Ended(p)
    BY <1>3, <2>2 DEF EndText
  <2>3. QED
    BY <2>1, <2>2
<1>5. PrintPath(p) = (((L \o PO) \o T) \o S) \o D
  BY DEF PrintPath, Lead
<1> HIDE DEF L, E
<1>6. CASE p.offset # Absent
  <2> DEFINE n == Decimal[p.offset]
             colon == <<":">>
  <2>1. T = none /\ S = none /\ PO = colon \o n /\ p.offset \in Nat
    BY <1>0, <1>6 DEF Canonical, PrintOffset
  <2>2. n \in Seq(C) /\ colon \in Seq(C) /\ colon \o n \in Seq(C)
    BY <1>2, <1>3, <2>1
  <2>3. CASE p.side = Absent
    <3>1. D = none /\ E = colon \o n
      BY <1>6, <2>3 DEF E, EndText, Ended, EndMark, EndRest
    <3> HIDE DEF T, S, PO, D, n, colon, C, none
    <3>2. (((L \o (colon \o n)) \o none) \o none) \o none = L \o (colon \o n)
      <4> DEFINE u == colon \o n
      <4>1. u \in Seq(C) /\ L \o u \in Seq(C)
        BY <1>1, <2>2
      <4> HIDE DEF u
      <4>2. (L \o u) \o none = L \o u
        BY <4>1, ConcatEmptySeq DEF none
      <4>3. QED
        BY <4>2 DEF u
    <3>3. QED
      BY <1>5, <1>1, <1>4, <2>1, <3>1, <3>2 DEF L, E, C
  <2>4. CASE p.side # Absent
    <3> DEFINE side == <<p.side>>
    <3>1. D = <<":", p.side>> /\ p.side \in C /\ E = colon \o ((n \o colon) \o side)
      BY <1>0, <1>3, <1>6, <2>4 DEF E, EndText, Ended, EndMark, EndRest
    <3>2. D = colon \o side /\ side \in Seq(C)
      BY <1>3, <3>1
    <3> HIDE DEF T, S, PO, D, n, colon, C, side, none
    <3>3. (((L \o (colon \o n)) \o none) \o none) \o (colon \o side)
            = L \o (colon \o ((n \o colon) \o side))
      <4> DEFINE u == colon \o n
                 v == colon \o side
      <4>1. u \in Seq(C) /\ v \in Seq(C) /\ L \o u \in Seq(C) /\ n \o colon \in Seq(C)
        BY <1>1, <2>2, <3>2
      <4>2. (n \o colon) \o side = n \o v
        BY <2>2, <3>2, TextsAssociate
      <4> HIDE DEF v
      <4>3. colon \o (n \o v) = u \o v
        BY <2>2, <4>1, TextsAssociate
      <4> HIDE DEF u
      <4>4. (L \o u) \o none = L \o u
        BY <4>1, ConcatEmptySeq DEF none
      <4>5. (L \o u) \o v = L \o (u \o v)
        BY <1>1, <4>1, TextsAssociate
      <4>6. QED
        BY <4>2, <4>3, <4>4, <4>5 DEF u, v
    <3>4. QED
      BY <1>5, <1>1, <1>4, <2>1, <3>1, <3>2, <3>3 DEF L, E, C
  <2>5. QED
    BY <2>3, <2>4
<1>7. CASE p.offset = Absent
  <2>1. PO = none
    BY <1>7 DEF PrintOffset
  <2>2. p.side = Absent /\ D = none
    BY <1>7 DEF Canonical
  <2> DEFINE point == PointText(p.spatial)
             at == <<"@">>
  <2>3. p.spatial # Absent => /\ S = at \o point
                              /\ point \in Seq(C) /\ at \in Seq(C)
    <3> SUFFICES ASSUME p.spatial # Absent
                 PROVE  S = at \o point /\ point \in Seq(C) /\ at \in Seq(C)
      OBVIOUS
    <3> DEFINE x == Decimal[p.spatial.x]
               y == Decimal[p.spatial.y]
               colon == <<":">>
    <3>1. p.spatial.x \in Nat /\ p.spatial.y \in Nat
      BY <1>0 DEF PointOfSpace
    <3>2. S = ((at \o x) \o colon) \o y /\ point = (x \o colon) \o y
      BY <1>2, <3>1 DEF PointText
    <3>3. x \in Seq(C) /\ y \in Seq(C) /\ colon \in Seq(C) /\ at \in Seq(C)
      BY <1>2, <1>3, <3>1
    <3> HIDE DEF x, y, colon, at, C, S, point
    <3>4. point \in Seq(C)
      BY <3>2, <3>3
    <3>5. ((at \o x) \o colon) \o y = at \o ((x \o colon) \o y)
      <4>1. (at \o x) \o colon = at \o (x \o colon)
        BY <3>3, TextsAssociate, SMTT(30)
      <4> DEFINE w == x \o colon
      <4>2. w \in Seq(C)
        BY <3>3
      <4> HIDE DEF w
      <4>3. (at \o w) \o y = at \o (w \o y)
        BY <3>3, <4>2, TextsAssociate, SMTT(30)
      <4>4. QED
        BY <4>1, <4>3 DEF w
    <3>6. QED
      BY <3>2, <3>3, <3>4, <3>5
  <2> DEFINE n == Decimal[p.temporal]
             tilde == <<"~">>
  <2>4. p.temporal # Absent => T = tilde \o n /\ n \in Seq(C) /\ tilde \in Seq(C)
    BY <1>0, <1>2, <1>3
  <2>5. E = IF p.temporal # Absent
            THEN tilde \o (IF p.spatial = Absent THEN n ELSE (n \o at) \o point)
            ELSE IF p.spatial # Absent THEN at \o point ELSE none
    BY <1>7 DEF E, EndText, Ended, EndMark, EndRest
  <2>6. (p.temporal = Absent => T = none) /\ (p.spatial = Absent => S = none)
    OBVIOUS
  <2>7. T \in Seq(C) /\ S \in Seq(C)
    <3> HIDE DEF T, S, n, tilde, C, point, at, none
    <3>1. T \in Seq(C)
      <4>1. p.temporal # Absent => tilde \o n \in Seq(C)
        BY <2>4
      <4>2. QED
        BY <1>3, <2>4, <2>6, <4>1
    <3>2. S \in Seq(C)
      <4>1. p.spatial # Absent => at \o point \in Seq(C)
        BY <2>3
      <4>2. QED
        BY <1>3, <2>3, <2>6, <4>1
    <3>3. QED
      BY <3>1, <3>2
  <2>8. E = T \o S
    <3> HIDE DEF T, S, n, tilde, C, point, at
    <3>1. CASE p.temporal = Absent
      <4>1. none \o S = S
        BY <2>7
      <4> HIDE DEF none
      <4>2. QED
        BY <2>3, <2>5, <2>6, <3>1, <4>1
    <3>2. CASE p.temporal # Absent /\ p.spatial = Absent
      <4>1. T \o none = T
        BY <2>7
      <4> HIDE DEF none
      <4>2. QED
        BY <2>4, <2>5, <2>6, <3>2, <4>1
    <3>3. CASE p.temporal # Absent /\ p.spatial # Absent
      <4>0. n \in Seq(C) /\ at \in Seq(C) /\ point \in Seq(C) /\ tilde \in Seq(C)
        BY <2>3, <2>4, <3>3
      <4>1. (n \o at) \o point = n \o (at \o point)
        BY <4>0, TextsAssociate, SMTT(30)
      <4> DEFINE v == at \o point
      <4>2. v \in Seq(C)
        BY <4>0
      <4> HIDE DEF v
      <4>3. tilde \o (n \o v) = (tilde \o n) \o v
        BY <4>0, <4>2, TextsAssociate, SMTT(30)
      <4>4. QED
        BY <2>3, <2>4, <2>5, <3>3, <4>1, <4>3 DEF v
    <3>4. QED
      BY <3>1, <3>2, <3>3
  <2> HIDE DEF T, S, PO, D, C
  <2>9. (((L \o none) \o T) \o S) \o none = L \o (T \o S)
    <3>1. L \o none = L
      BY <1>1
    <3>2. (L \o T) \o S = L \o (T \o S) /\ L \o (T \o S) \in Seq(C)
      BY <1>1, <2>7, TextsAssociate
    <3> DEFINE u == L \o (T \o S)
    <3>3. u \in Seq(C)
      BY <3>2
    <3> HIDE DEF u
    <3>4. u \o none = u
      BY <3>3
    <3> HIDE DEF none
    <3>5. QED
      BY <3>1, <3>2, <3>4 DEF u
  <2> HIDE DEF none
  <2>10. QED
    BY <1>1, <1>4, <1>5, <2>1, <2>2, <2>8, <2>9 DEF L, E, C
<1>8. QED
  BY <1>6, <1>7

\* The terminus of a path, read behind steps.
Ending(steps, p) ==
    [Path(steps, Absent, p.offset) EXCEPT
       !.side = p.side, !.temporal = p.temporal, !.spatial = p.spatial]

\* Steps with a terminus after them are read back.
LEMMA TerminalReadBack ==
    ASSUME NEW ids, Unescaped(ids), Apart(ids), NEW p \in PathOf(ids), Canonical(p),
           NEW steps \in Seq(StepOf(ids))
    PROVE  ParseTerminal(PrintSteps(steps) \o EndText(p)) = Ending(steps, p)
<1> DEFINE C == Writing(ids)
           a == PrintSteps(steps)
           end == TerminusOf(p)
<1>1. a \in Seq(C) /\ Passed(C, a) /\ ParseSteps(a) = steps /\ Len(a) \in Nat
  BY StepsKept, StepsReadBack DEF Passed
<1>2. steps # Malformed /\ p.offset # Malformed /\ p.temporal # Malformed /\ p.spatial # Malformed
  BY MalformedAssumption DEF Apart, PathOf, Offset
<1>3. PathWithTerminus(steps, end) = Ending(steps, p)
  BY <1>2 DEF PathWithTerminus, TerminusOf, Ending
<1> HIDE DEF C, a, end
<1>4. CASE ~Ended(p)
  <2>1. EndText(p) = << >>
    BY <1>4 DEF EndText
  <2>2. a \o << >> = a
    BY <1>1
  <2>3. TerminusAt(a) = 0
    BY <1>1, NoMark
  <2>4. end = NoTerminus
    BY <1>4 DEF end, TerminusOf, NoTerminus, Canonical, Ended
  <2>5. TerminalParted(a, 0) = PathWithTerminus(ParseSteps(a), NoTerminus)
    BY DEF TerminalParted, Before
  <2>6. QED
    BY <1>1, <1>3, <2>1, <2>2, <2>3, <2>4, <2>5 DEF ParseTerminal, a
<1>5. CASE Ended(p)
  <2> DEFINE mark == EndMark(p)
             one == <<mark>>
             rest == EndRest(p)
             s == (a \o one) \o rest
             k == Len(a) + 1
  <2>1. ParseTerminus(mark, rest) = end /\ rest \in Seq(C) /\ mark \in {":", "~", "@"} /\ mark \in C
    BY <1>5, TerminusReadBack, SignsWritten DEF Plainly, end, C
  <2> HIDE DEF mark, rest
  <2>2. /\ TerminusAt(s) = k /\ s[k] = mark /\ Before(s, k) = a /\ Behind(s, k) = rest /\ k # 0
    BY <1>1, <2>1, MarkFound, AroundSign
  <2>3. EndText(p) = one \o rest
    BY <1>5 DEF EndText, mark, rest
  <2>4. a \o (one \o rest) = s
    <3>1. one \in Seq(C)
      BY <2>1
    <3> HIDE DEF one
    <3>2. QED
      BY <1>1, <2>1, <3>1, TextsAssociate
  <2> HIDE DEF s, k, one
  <2>5. TerminalParted(s, k) = PathWithTerminus(ParseSteps(a), ParseTerminus(mark, rest))
    BY <2>2 DEF TerminalParted
  <2>6. QED
    BY <1>1, <1>3, <2>1, <2>2, <2>3, <2>4, <2>5 DEF ParseTerminal, a
<1>6. QED
  BY <1>4, <1>5

-----------------------------------------------------------------------------
\* Paths and CFIs are read back.

\* No "!" is written in steps.
LEMMA StepsNoBang ==
    ASSUME NEW ids, Unescaped(ids), NEW steps \in Seq(StepOf(ids))
    PROVE  Without(PrintSteps(steps), {"!"})
<1> DEFINE C == ids \cup Digital \cup {"/", "[", "]"}
           s == PrintSteps(steps)
<1>1. StepOf(ids) \subseteq StepOf(C)
  <2>1. ids \subseteq C
    OBVIOUS
  <2> HIDE DEF C
  <2>2. Seq(ids) \subseteq Seq(C)
    BY <2>1, FewerSigns
  <2>3. QED
    BY <2>2 DEF StepOf
<1>2. steps \in Seq(StepOf(C))
  <2> HIDE DEF C
  <2>1. QED
    BY <1>1, FewerSigns
<1>3. Digital \subseteq C /\ {"/", "[", "]"} \subseteq C
  OBVIOUS
<1>4. "!" \notin C
  BY DEF Unescaped, Digital
<1> HIDE DEF C
<1>5. s \in Seq(C)
  BY <1>2, <1>3, StepsWritten
<1> HIDE DEF s
<1>6. QED
  BY <1>4, <1>5, Characters DEF Without, s

\* The path with this terminus, part by part.
LEMMA EndingSpelled ==
    ASSUME NEW steps, NEW p
    PROVE  Ending(steps, p) =
             [steps |-> steps, local |-> Absent, offset |-> p.offset, side |-> p.side,
              temporal |-> p.temporal, spatial |-> p.spatial]
<1> DEFINE e(side, temporal, spatial) ==
             [steps |-> steps, local |-> Absent, offset |-> p.offset, side |-> side,
              temporal |-> temporal, spatial |-> spatial]
<1>1. Path(steps, Absent, p.offset) = e(Absent, Absent, Absent)
  BY DEF Path
<1>2. [e(Absent, Absent, Absent) EXCEPT !.side = p.side] = e(p.side, Absent, Absent)
  OBVIOUS
<1>3. [e(p.side, Absent, Absent) EXCEPT !.temporal = p.temporal] = e(p.side, p.temporal, Absent)
  OBVIOUS
<1>4. [e(p.side, p.temporal, Absent) EXCEPT !.spatial = p.spatial]
        = e(p.side, p.temporal, p.spatial)
  OBVIOUS
<1> HIDE DEF e
<1>5. Ending(steps, p) = [[[Path(steps, Absent, p.offset) EXCEPT !.side = p.side]
                              EXCEPT !.temporal = p.temporal] EXCEPT !.spatial = p.spatial]
  BY DEF Ending
<1>6. Ending(steps, p) = e(p.side, p.temporal, p.spatial)
  BY <1>1, <1>2, <1>3, <1>4, <1>5
<1>7. QED
  BY <1>6 DEF e

\* A path written is read again.
LEMMA PathReadBack ==
    ASSUME NEW ids, Unescaped(ids), Apart(ids), NEW p \in PathOf(ids), Canonical(p)
    PROVE  ParsePath(PrintPath(p)) = p
<1> DEFINE C == Writing(ids)
           a == PrintSteps(p.steps)
           end == EndText(p)
           bang == "!"
<1>0. p.steps \in Seq(StepOf(ids)) /\ p.local \in Seq(StepOf(ids)) \cup {Absent}
      /\ p # Malformed /\ Absent \notin Seq(StepOf(ids))
  BY DEF PathOf, Apart
<1>1. a \in Seq(C) /\ Without(a, {bang})
  BY <1>0, StepsKept, StepsNoBang DEF Kept
<1>2. end \in Seq(C) /\ Without(end, {bang}) /\ PrintPath(p) = Lead(p) \o end
  <2>1. Plainly(ids, end)
    BY EndSpelled
  <2>2. Without(end, {bang})
    BY <2>1 DEF Plainly, Without, Parting
  <2>3. QED
    BY <2>1, <2>2, EndSpelled DEF Plainly
<1>3. p = [steps |-> p.steps, local |-> p.local, offset |-> p.offset, side |-> p.side,
           temporal |-> p.temporal, spatial |-> p.spatial]
  BY DEF PathOf
<1>4. CASE p.local = Absent
  <2> DEFINE s == a \o end
  <2>1. PrintPath(p) = s
    <3>1. Lead(p) = a
      <4>1. a \o << >> = a
        BY <1>1
      <4>2. QED
        BY <1>4, <4>1 DEF Lead
    <3>2. QED
      BY <1>2, <3>1
  <2>2. ParseTerminal(s) = p
    <3>1. Ending(p.steps, p) = p
      BY <1>3, <1>4, EndingSpelled
    <3>2. QED
      BY <1>0, <3>1, TerminalReadBack
  <2> HIDE DEF a, end, C
  <2>3. s \in Seq(C) /\ Without(s, {bang})
    BY <1>1, <1>2, JoinWithout
  <2> HIDE DEF s
  <2>4. FirstAt(s, bang) = 0 /\ Before(s, 0) = s
    BY <2>3, PlaceNone
  <2> DEFINE parts == [i \in 1..1 |-> ParseTerminal(IF i = 1 THEN Before(s, 0) ELSE Behind(s, 0))]
  <2>5. ParsePath(s) = PathParted(parts)
    BY <2>4 DEF ParsePath
  <2>6. Len(parts) = 1 /\ parts[1] = p
    BY <2>2, <2>4
  <2> HIDE DEF parts
  <2>7. PathParted(parts) = p
    BY <2>6 DEF PathParted
  <2>8. QED
    BY <2>1, <2>5, <2>7
<1>5. CASE p.local # Absent
  <2> DEFINE b == PrintSteps(p.local)
             t == b \o end
             s == (a \o <<bang>>) \o t
             k == Len(a) + 1
  <2>1. p.local \in Seq(StepOf(ids))
    BY <1>0, <1>5
  <2>2. b \in Seq(C) /\ Without(b, {bang}) /\ bang \in C
    BY <2>1, StepsKept, StepsNoBang, SignsWritten DEF Kept
  <2>3. Lead(p) = a \o (<<bang>> \o b)
    BY <1>5 DEF Lead
  <2>4. ParseTerminal(t) = Ending(p.local, p)
    BY <2>1, TerminalReadBack
  <2>5. ParseTerminal(a) = Path(p.steps, Absent, Absent)
    <3> DEFINE none == Path(<< >>, Absent, Absent)
    <3>1. none \in PathOf(ids) /\ Canonical(none) /\ ~Ended(none)
      BY DEF none, PathOf, Path, Offset, Canonical, Ended
    <3> HIDE DEF none
    <3>2. ParseTerminal(PrintSteps(p.steps) \o EndText(none)) = Ending(p.steps, none)
      BY <1>0, <3>1, TerminalReadBack
    <3>3. EndText(none) = << >> /\ a \o << >> = a
      BY <1>1, <3>1 DEF EndText
    <3>4. Ending(p.steps, none) = Path(p.steps, Absent, Absent)
      BY EndingSpelled DEF Path, none
    <3>5. QED
      BY <3>2, <3>3, <3>4
  <2> HIDE DEF a, end, C, b, bang
  <2>6. t \in Seq(C) /\ Without(t, {bang})
    BY <1>2, <2>2, JoinWithout
  <2>7. PrintPath(p) = s
    <3> DEFINE one == <<bang>>
    <3>1. one \in Seq(C) /\ one \o b \in Seq(C) /\ a \o one \in Seq(C)
      BY <1>1, <2>2
    <3> HIDE DEF one
    <3>2. a \o (one \o b) = (a \o one) \o b
      BY <1>1, <2>2, <3>1, TextsAssociate
    <3>3. (a \o one) \o (b \o end) = ((a \o one) \o b) \o end
      <4> DEFINE v == a \o one
      <4>1. v \in Seq(C)
        BY <3>1
      <4> HIDE DEF v
      <4>2. v \o (b \o end) = (v \o b) \o end
        BY <1>2, <2>2, <4>1, TextsAssociate
      <4>3. QED
        BY <4>2 DEF v
    <3>4. QED
      BY <1>2, <2>3, <3>2, <3>3 DEF one
  <2> HIDE DEF t
  <2>8. FirstAt(s, bang) = k /\ Before(s, k) = a /\ Behind(s, k) = t /\ k # 0
    BY <1>1, <2>2, <2>6, PlaceFirst, AroundSign, Characters
  <2>9. FirstAt(t, bang) = 0
    BY <2>6, PlaceNone
  <2> HIDE DEF s, k
  <2> DEFINE parts == [i \in 1..2 |-> ParseTerminal(IF i = 1 THEN Before(s, k) ELSE Behind(s, k))]
  <2>10. ParsePath(s) = PathParted(parts)
    BY <2>8, <2>9 DEF ParsePath, bang
  <2>11. Len(parts) = 2 /\ parts[1] = Path(p.steps, Absent, Absent) /\ parts[2] = Ending(p.local, p)
    BY <2>4, <2>5, <2>8
  <2> HIDE DEF parts
  <2>12. PathParted(parts) = PathWithLocal(Path(p.steps, Absent, Absent), Ending(p.local, p))
    BY <2>11 DEF PathParted
  <2>13. PathWithLocal(Path(p.steps, Absent, Absent), Ending(p.local, p)) = p
    <3>1. /\ Path(p.steps, Absent, Absent) \in PathOf(ids)
          /\ Ending(p.local, p) \in PathOf(ids)
      BY <1>0, <2>1 DEF Path, Ending, PathOf, Offset
    <3>2. Path(p.steps, Absent, Absent) # Malformed /\ Ending(p.local, p) # Malformed
      BY <3>1 DEF Apart
    <3>3. PathWithLocal(Path(p.steps, Absent, Absent), Ending(p.local, p))
            = [Ending(p.local, p) EXCEPT !.steps = p.steps, !.local = p.local]
      BY <3>2 DEF PathWithLocal, Path, Ending
    <3>4. QED
      BY <1>3, <3>3 DEF Ending, Path
  <2>14. QED
    BY <2>7, <2>10, <2>12, <2>13
<1>6. QED
  BY <1>4, <1>5

\* A path written stays in its part of a range.
LEMMA PathKept ==
    ASSUME NEW ids, Unescaped(ids), Apart(ids), NEW p \in PathOf(ids), Canonical(p)
    PROVE  Kept(Writing(ids), PrintPath(p)) /\ PrintPath(p) \in Seq(Writing(ids))
<1> DEFINE C == Writing(ids)
           end == EndText(p)
<1>1. Plainly(ids, end) /\ PrintPath(p) = Lead(p) \o end
  BY EndSpelled
<1>2. Kept(C, end)
  <2>1. end \in Seq(C) /\ Without(end, {"^", "[", "]"}) /\ Without(end, {Comma})
    BY <1>1 DEF Plainly, Without, Parting
  <2> HIDE DEF end, C
  <2>2. QED
    BY <2>1, PlainKept
<1>3. Kept(C, PrintSteps(p.steps)) /\ (p.local # Absent => Kept(C, PrintSteps(p.local)))
  <2>1. p.steps \in Seq(StepOf(ids)) /\ p.local \in Seq(StepOf(ids)) \cup {Absent}
    BY DEF PathOf
  <2>2. QED
    BY <2>1, StepsKept
<1>4. Kept(C, <<"!">>) /\ Kept(C, << >>)
  <2>1. "!" \in C /\ "!" # Comma
    <3>1. "!" # Comma
      BY Zenon DEF Comma
    <3>2. QED
      BY <3>1, SignsWritten
  <2> DEFINE bang == <<"!">>
             none == << >>
  <2>2. bang \in Seq(C) /\ Without(bang, {"^", "[", "]"}) /\ Without(bang, {Comma})
    BY <2>1, SinglePlain
  <2>3. none \in Seq(C) /\ Without(none, {"^", "[", "]"}) /\ Without(none, {Comma})
    BY NothingPlain
  <2> HIDE DEF bang, none, C
  <2>4. Kept(C, bang) /\ Kept(C, none)
    BY <2>2, <2>3, PlainKept
  <2>5. QED
    BY <2>4 DEF bang, none
<1> HIDE DEF C, end
<1>5. Kept(C, Lead(p))
  <2>1. p.local # Absent => Kept(C, <<"!">> \o PrintSteps(p.local))
    BY <1>3, <1>4, JoinKept
  <2>2. QED
    BY <1>3, <1>4, <2>1, JoinKept DEF Lead
<1>6. Kept(C, Lead(p) \o end)
  BY <1>2, <1>5, JoinKept
<1>7. QED
  BY <1>1, <1>6 DEF Kept, C

\* The text in its wrapping is what the parser splits.
LEMMA Unwrapped ==
    ASSUME NEW ids, NEW text \in Seq(Writing(ids))
    PROVE  ParseCfi(Wrap(text)) = CfiOfPaths(PathsOf(SplitTopLevel(text)))
<1> DEFINE C == Writing(ids)
           a == <<"epubcfi(">>
           z == <<")">>
           w == (a \o text) \o z
           n == Len(text)
<1>1. a \in Seq(C) /\ z \in Seq(C) /\ a[1] = "epubcfi(" /\ z[1] = ")" /\ Len(a) = 1 /\ Len(z) = 1
      /\ text \in Seq(C) /\ n \in Nat
  BY SignsWritten
<1>2. Wrap(text) = w
  BY DEF Wrap
<1> HIDE DEF a, z, C
<1>3. /\ w \in Seq(C) /\ Len(w) = n + 2 /\ w[1] = "epubcfi(" /\ w[n + 2] = ")"
      /\ \A i \in 1..n : w[i + 1] = text[i]
  <2> DEFINE v == a \o text
  <2>1. v \in Seq(C) /\ Len(v) = n + 1 /\ v[1] = a[1] /\ \A i \in 1..n : v[i + 1] = text[i]
    <3>1. v \in Seq(C) /\ Len(v) = 1 + n
          /\ \A i \in 1..(1 + n) : v[i] = IF i <= 1 THEN a[i] ELSE text[i - 1]
      <4>1. a \in Seq(C) /\ text \in Seq(C) /\ Len(a) = 1
        BY <1>1
      <4>2. QED
        BY <4>1, ConcatProperties
    <3> HIDE DEF v
    <3>2. \A i \in 1..n : i + 1 \in 1..(1 + n) /\ ~(i + 1 <= 1) /\ (i + 1) - 1 = i
      BY <1>1
    <3>3. 1 \in 1..(1 + n) /\ 1 + n = n + 1
      BY <1>1
    <3>4. QED
      BY <3>1, <3>2, <3>3
  <2>2. w = v \o z
    BY DEF w
  <2> HIDE DEF v
  <2>3. w \in Seq(C) /\ Len(w) = n + 2 /\ w[n + 2] = z[1] /\ \A i \in 1..(n + 1) : w[i] = v[i]
    BY <1>1, <2>1, <2>2
  <2>4. \A i \in 1..n : i + 1 \in 1..(n + 1)
    BY <1>1
  <2>5. 1 \in 1..(n + 1)
    BY <1>1
  <2>6. QED
    BY <1>1, <2>1, <2>3, <2>4, <2>5
<1> HIDE DEF w
<1>4. Head(w) = "epubcfi(" /\ Last(w) = ")" /\ ~(Len(w) < 2)
  BY <1>1, <1>3 DEF Last
<1> DEFINE u == SubSeq(w, 2, Len(w) - 1)
<1>5. u = text
  <2>1. u \in Seq(C) /\ Len(u) = n /\ \A i \in 1..n : u[i] = w[i + 1]
    BY <1>1, <1>3
  <2>2. \A i \in 1..n : u[i] = text[i]
    BY <1>3, <2>1
  <2> HIDE DEF u
  <2>3. QED
    BY <1>1, <2>1, <2>2, SeqEqual
<1>6. ParseCfi(w) = CfiOfPaths(PathsOf(SplitTopLevel(u)))
  BY <1>4 DEF ParseCfi
<1>7. QED
  BY <1>2, <1>5, <1>6

\* A text that stays in its part is the only part.
LEMMA SplitOne ==
    ASSUME NEW C, NEW s, Kept(C, s)
    PROVE  SplitTopLevel(s) = <<s>>
<1> DEFINE none == << >>
           X == SplitState(C)
           R == SplitRead(C)
<1>1. s \in Seq(C) /\ none \in Parts(C) /\ none \in Seq(C)
  BY DEF Kept, Parts
<1>2. SplitBase = Splitting(none, none, 0) /\ none \o s = s
  BY <1>1 DEF SplitBase, Splitting
<1> HIDE DEF none
<1>3. Runs(X, R, SplitBase, s, Splitting(none, s, 0))
  BY <1>1, <1>2 DEF Kept
<1>4. SplitTopLevel(s) = AllParts(Splitting(none, s, 0))
  BY <1>1, <1>3, SplitRuns
<1>5. AllParts(Splitting(none, s, 0)) = Append(none, s)
  BY DEF AllParts, Splitting
<1>6. QED
  BY <1>4, <1>5 DEF none

\* Three of them with commas between are the three parts.
LEMMA SplitThree ==
    ASSUME NEW C, Comma \in C, NEW a, NEW b, NEW d, Kept(C, a), Kept(C, b), Kept(C, d)
    PROVE  SplitTopLevel((((a \o <<Comma>>) \o b) \o <<Comma>>) \o d) = <<a, b, d>>
<1> DEFINE none == << >>
           one == <<Comma>>
           X == SplitState(C)
           R == SplitRead(C)
           p1 == <<a>>
           p2 == <<a, b>>
           s2 == a \o one
           s3 == s2 \o b
           s4 == s3 \o one
           s5 == s4 \o d
<1>1. a \in Seq(C) /\ b \in Seq(C) /\ d \in Seq(C) /\ none \in Seq(C) /\ one \in Seq(C)
  BY DEF Kept
<1>2. none \in Parts(C) /\ p1 \in Parts(C) /\ p2 \in Parts(C)
      /\ Append(none, a) = p1 /\ Append(p1, b) = p2 /\ Append(p2, d) = <<a, b, d>>
  <2> DEFINE S == Seq(C)
  <2>1. a \in S /\ b \in S /\ d \in S
    BY <1>1
  <2> HIDE DEF S
  <2>2. none \in Seq(S) /\ p1 \in Seq(S) /\ p2 \in Seq(S)
    BY <2>1
  <2>3. Append(none, a) = p1
    OBVIOUS
  <2>4. /\ << >> \in Seq(S) /\ <<a>> \in Seq(S) /\ <<a, b>> \in Seq(S)
        /\ Append(<< >>, a) = <<a>> /\ Append(<<a>>, b) = <<a, b>>
        /\ Append(<<a, b>>, d) = <<a, b, d>>
    BY <2>1, InARow
  <2>5. Append(p1, b) = p2 /\ Append(p2, d) = <<a, b, d>>
    BY <2>4
  <2>6. QED
    BY <2>2, <2>3, <2>5 DEF Parts, S
<1>3. SplitBase = Splitting(none, none, 0) /\ none \o a = a /\ none \o b = b /\ none \o d = d
  BY <1>1 DEF SplitBase, Splitting
<1>4. 0 \in Nat
  OBVIOUS
<1>5. s2 \in Seq(C) /\ s3 \in Seq(C) /\ s4 \in Seq(C) /\ s5 \in Seq(C)
  <2> HIDE DEF one
  <2>1. QED
    BY <1>1
<1> HIDE DEF none, p1, p2
<1>6. Splitting(none, a, 0) \in X /\ Splitting(p1, b, 0) \in X /\ Splitting(p1, none, 0) \in X
      /\ Splitting(p2, none, 0) \in X
  BY <1>1, <1>2, <1>4, SplittingTyped
<1>7. Runs(X, R, SplitBase, a, Splitting(none, a, 0))
  BY <1>1, <1>2, <1>3 DEF Kept
<1>8. Runs(X, R, Splitting(p1, none, 0), b, Splitting(p1, b, 0))
  BY <1>1, <1>2, <1>3 DEF Kept
<1>9. Runs(X, R, Splitting(p2, none, 0), d, Splitting(p2, d, 0))
  BY <1>1, <1>2, <1>3 DEF Kept
<1>10. R[Splitting(none, a, 0)][Comma] = Splitting(p1, none, 0)
  <2>1. R[Splitting(none, a, 0)][Comma] = Splitting(Append(none, a), << >>, 0)
    BY <1>6, SplitSteps
  <2>2. QED
    BY <1>2, <2>1 DEF none
<1>11. R[Splitting(p1, b, 0)][Comma] = Splitting(p2, none, 0)
  <2>1. R[Splitting(p1, b, 0)][Comma] = Splitting(Append(p1, b), << >>, 0)
    BY <1>6, SplitSteps
  <2>2. QED
    BY <1>2, <2>1 DEF none
<1> HIDE DEF X, R
<1>12. Runs(X, R, Splitting(none, a, 0), one, Splitting(p1, none, 0))
       /\ Runs(X, R, Splitting(p1, b, 0), one, Splitting(p2, none, 0))
  BY <1>6, <1>10, <1>11, RunOne
<1> HIDE DEF one
<1>13. Runs(X, R, SplitBase, s2, Splitting(p1, none, 0))
  BY <1>1, <1>7, <1>12, RunJoin
<1> HIDE DEF s2
<1>14. Runs(X, R, SplitBase, s3, Splitting(p1, b, 0))
  BY <1>1, <1>5, <1>8, <1>13, RunJoin
<1> HIDE DEF s3
<1>15. Runs(X, R, SplitBase, s4, Splitting(p2, none, 0))
  BY <1>1, <1>5, <1>12, <1>14, RunJoin
<1> HIDE DEF s4
<1>16. Runs(X, R, SplitBase, s5, Splitting(p2, d, 0))
  BY <1>1, <1>5, <1>9, <1>15, RunJoin
<1> HIDE DEF s5
<1>17. SplitTopLevel(s5) = AllParts(Splitting(p2, d, 0))
  BY <1>5, <1>16, SplitRuns DEF X, R
<1>18. AllParts(Splitting(p2, d, 0)) = Append(p2, d)
  BY DEF AllParts, Splitting
<1>19. QED
  BY <1>2, <1>17, <1>18 DEF s5, s4, s3, s2, one

\* How a CFI is written.
Joint(a, b, d) == (((a \o <<Comma>>) \o b) \o <<Comma>>) \o d
CfiText(c) ==
    IF c.kind = "point" THEN PrintPath(c.parent)
    ELSE Joint(PrintPath(c.parent), PrintPath(c.start), PrintPath(c.end))

\* A CFI is its text in parentheses.
LEMMA CfiSpelled ==
    ASSUME NEW c
    PROVE  PrintCfi(c) = Wrap(CfiText(c))
BY Zenon DEF PrintCfi, CfiText, Joint, Comma

\* One path is a point.
LEMMA PointReadBack ==
    ASSUME NEW ids, Unescaped(ids), Apart(ids), NEW p \in PathOf(ids), Canonical(p)
    PROVE  ParseCfi(Wrap(PrintPath(p))) = Point(p)
<1> DEFINE s == PrintPath(p)
<1>1. Kept(Writing(ids), s) /\ s \in Seq(Writing(ids)) /\ ParsePath(s) = p /\ p # Malformed
  BY PathKept, PathReadBack DEF Apart
<1> HIDE DEF s
<1>2. ParseCfi(Wrap(s)) = CfiOfPaths(PathsOf(<<s>>))
  BY <1>1, Unwrapped, SplitOne
<1>3. Len(PathsOf(<<s>>)) = 1 /\ PathsOf(<<s>>)[1] = p /\ DOMAIN PathsOf(<<s>>) = {1}
  BY <1>1 DEF PathsOf
<1>4. CfiOfPaths(PathsOf(<<s>>)) = Point(p)
  BY <1>1, <1>3 DEF CfiOfPaths
<1>5. QED
  BY <1>2, <1>4 DEF s

\* Three paths are a range.
LEMMA RangeReadBack ==
    ASSUME NEW ids, Unescaped(ids), Apart(ids), NEW p \in PathOf(ids), NEW s \in PathOf(ids),
           NEW e \in PathOf(ids), Canonical(p), Canonical(s), Canonical(e)
    PROVE  ParseCfi(Wrap(Joint(PrintPath(p), PrintPath(s), PrintPath(e)))) = RangeOf(p, s, e)
<1> DEFINE C == Writing(ids)
           a == PrintPath(p)
           b == PrintPath(s)
           d == PrintPath(e)
           parts == <<a, b, d>>
           paths == PathsOf(parts)
<1>1. /\ Kept(C, a) /\ a \in Seq(C) /\ ParsePath(a) = p /\ p # Malformed
      /\ Kept(C, b) /\ b \in Seq(C) /\ ParsePath(b) = s /\ s # Malformed
      /\ Kept(C, d) /\ d \in Seq(C) /\ ParsePath(d) = e /\ e # Malformed
  BY PathKept, PathReadBack DEF Apart
<1>2. Comma \in C
  BY SignsWritten
<1> HIDE DEF C, a, b, d
<1>3. Joint(a, b, d) \in Seq(C) /\ SplitTopLevel(Joint(a, b, d)) = parts
  BY <1>1, <1>2, SplitThree DEF Joint
<1>4. ParseCfi(Wrap(Joint(a, b, d))) = CfiOfPaths(PathsOf(parts))
  BY <1>3, Unwrapped DEF C
<1>5. Len(paths) = 3 /\ DOMAIN paths = 1..3 /\ paths[1] = p /\ paths[2] = s /\ paths[3] = e
  BY <1>1 DEF PathsOf
<1> HIDE DEF paths
<1>6. \A i \in 1..3 : paths[i] # Malformed
  <2>1. \A i \in 1..3 : i = 1 \/ i = 2 \/ i = 3
    OBVIOUS
  <2>2. QED
    BY <1>1, <1>5, <2>1
<1>7. CfiOfPaths(paths) = RangeOf(paths[1], paths[2], paths[3])
  BY <1>5, <1>6 DEF CfiOfPaths
<1>8. QED
  BY <1>4, <1>5, <1>7 DEF paths, a, b, d

\* A CFI written is read again.
LEMMA CfiReadBack ==
    ASSUME NEW ids, Unescaped(ids), Apart(ids), NEW c, CanonicalCfi(ids, c)
    PROVE  ParseCfi(PrintCfi(c)) = c
<1>1. /\ c.kind \in {"point", "range"} /\ c.parent \in PathOf(ids) /\ c.start \in PathOf(ids)
      /\ c.end \in PathOf(ids)
      /\ c = [kind |-> c.kind, parent |-> c.parent, start |-> c.start, end |-> c.end]
  BY DEF CanonicalCfi, CfiOf
<1>2. Canonical(c.parent) /\ Canonical(c.start) /\ Canonical(c.end)
  BY DEF CanonicalCfi
<1>3. CASE c.kind = "point"
  <2>1. ParseCfi(PrintCfi(c)) = Point(c.parent)
    BY <1>1, <1>2, <1>3, CfiSpelled, PointReadBack DEF CfiText
  <2>2. c = Point(c.parent)
    BY <1>1, <1>3 DEF CanonicalCfi, Point
  <2>3. QED
    BY <2>1, <2>2
<1>4. CASE c.kind = "range"
  <2>1. ParseCfi(PrintCfi(c)) = RangeOf(c.parent, c.start, c.end)
    BY <1>1, <1>2, <1>4, CfiSpelled, RangeReadBack DEF CfiText
  <2>2. c = RangeOf(c.parent, c.start, c.end)
    BY <1>1, <1>4 DEF RangeOf
  <2>3. QED
    BY <2>1, <2>2
<1>5. QED
  BY <1>1, <1>3, <1>4
=============================================================================
