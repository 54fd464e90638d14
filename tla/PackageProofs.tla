--------------------------- MODULE PackageProofs ----------------------------
(***************************************************************************)
(* Proofs about PackageReading, for every set of packages.                  *)
(***************************************************************************)
EXTENDS PackageReading, SequenceLemmas

-----------------------------------------------------------------------------
(***************************************************************************)
(* The chain of overlays                                                    *)
(***************************************************************************)
\* The chapters of a book that have an overlay to be heard, and its href.
HasOverlay(bk, k) ==
    /\ bk.spine[k].linear /\ bk.spine[k].idref \in DOMAIN bk.manifest
    /\ bk.manifest[bk.spine[k].idref].media_overlay \in DOMAIN bk.manifest
OverlayOf(bk, k) == bk.manifest[bk.manifest[bk.spine[k].idref].media_overlay].href
ChaptersHeard(bk) == {k \in DOMAIN bk.spine : HasOverlay(bk, k)}

\* Of the first k items of a spine, those heard have places in the list: each
\* place is taken, by one of them, and in their order.
Placed(bk, k, hrefs, place) ==
    LET heard == {j \in ChaptersHeard(bk) : j <= k} IN
    /\ place \in [heard -> 1..Len(hrefs)]
    /\ \A j \in heard : hrefs[place[j]] = OverlayOf(bk, j)
    /\ \A i, j \in heard : i < j => place[i] < place[j]
    /\ \A p \in 1..Len(hrefs) : \E j \in heard : place[j] = p

\* One more item keeps that so.
LEMMA PlaceKept ==
    ASSUME NEW bk, NEW S, NEW H, bk.spine \in Seq(S), NEW k \in 1..Len(bk.spine),
           NEW hrefs \in Seq(H), NEW place, Placed(bk, k - 1, hrefs, place)
    PROVE  \E new : Placed(bk, k, HeardWith(bk, hrefs, bk.spine[k]), new)
<1> DEFINE heard == {j \in ChaptersHeard(bk) : j <= k - 1}
           more == {j \in ChaptersHeard(bk) : j <= k}
           n == Len(hrefs)
<1>1. k \in Nat /\ k \in DOMAIN bk.spine /\ n \in Nat
  OBVIOUS
<1>2. ChaptersHeard(bk) \in SUBSET Nat
  BY DEF ChaptersHeard
<1>3. /\ place \in [heard -> 1..n]
      /\ \A j \in heard : hrefs[place[j]] = OverlayOf(bk, j)
      /\ \A i, j \in heard : i < j => place[i] < place[j]
      /\ \A p \in 1..n : \E j \in heard : place[j] = p
  BY DEF Placed
<1>4. CASE HasOverlay(bk, k)
  <2> DEFINE longer == Append(hrefs, OverlayOf(bk, k))
             new == [j \in more |-> IF j = k THEN n + 1 ELSE place[j]]
  <2>1. HeardWith(bk, hrefs, bk.spine[k]) = longer
    BY <1>4 DEF HeardWith, HasOverlay, OverlayOf
  <2>2. k \in more /\ k \notin heard /\ more = heard \cup {k} /\ \A j \in heard : j < k
    BY <1>1, <1>2, <1>4 DEF ChaptersHeard
  <2>3. /\ Len(longer) = n + 1 /\ longer[n + 1] = OverlayOf(bk, k)
        /\ \A p \in 1..n : longer[p] = hrefs[p]
    OBVIOUS
  <2> HIDE DEF longer, heard, more, n
  <2>4. \A j \in heard : new[j] = place[j] /\ new[j] \in 1..n
    BY <1>3, <2>2
  <2>5. new[k] = n + 1
    BY <2>2
  <2>6. new \in [more -> 1..(n + 1)]
    <3>1. \A j \in more : new[j] \in 1..(n + 1)
      BY <1>1, <2>2, <2>4, <2>5
    <3>2. QED
      BY <3>1
  <2>7. \A j \in more : longer[new[j]] = OverlayOf(bk, j)
    <3> HIDE DEF new
    <3>1. \A j \in heard : longer[new[j]] = OverlayOf(bk, j)
      BY <1>3, <2>3, <2>4
    <3>2. longer[new[k]] = OverlayOf(bk, k)
      BY <2>3, <2>5
    <3>3. QED
      BY <2>2, <3>1, <3>2
  <2>8. \A i, j \in more : i < j => new[i] < new[j]
    <3> HIDE DEF new
    <3> SUFFICES ASSUME NEW i \in more, NEW j \in more, i < j PROVE new[i] < new[j]
      OBVIOUS
    <3>1. i \in heard
      BY <1>1, <1>2, <2>2 DEF more
    <3>2. CASE j \in heard
      BY <1>3, <2>4, <3>1, <3>2
    <3>3. CASE j = k
      BY <1>1, <2>4, <2>5, <3>1, <3>3
    <3>4. QED
      BY <2>2, <3>2, <3>3
  <2>9. \A p \in 1..(n + 1) : \E j \in more : new[j] = p
    <3> HIDE DEF new
    <3> SUFFICES ASSUME NEW p \in 1..(n + 1) PROVE \E j \in more : new[j] = p
      OBVIOUS
    <3>1. CASE p \in 1..n
      BY <1>3, <2>2, <2>4, <3>1
    <3>2. CASE p = n + 1
      BY <2>2, <2>5, <3>2
    <3>3. QED
      BY <1>1, <3>1, <3>2
  <2>10. Placed(bk, k, longer, new)
    <3> HIDE DEF new
    <3>1. QED
      BY <2>3, <2>6, <2>7, <2>8, <2>9 DEF Placed, more
  <2> HIDE DEF new
  <2>11. QED
    BY <2>1, <2>10
<1>5. CASE ~HasOverlay(bk, k)
  <2>1. HeardWith(bk, hrefs, bk.spine[k]) = hrefs
    BY <1>5 DEF HeardWith, HasOverlay
  <2>2. more = heard
    BY <1>1, <1>2, <1>5 DEF ChaptersHeard
  <2>3. Placed(bk, k, hrefs, place)
    BY <1>3, <2>2 DEF Placed
  <2>4. QED
    BY <2>1, <2>3
<1>6. QED
  BY <1>4, <1>5

\* The list of overlays has a place for every chapter heard.
LEMMA HrefsPlaced ==
    ASSUME NEW bk, NEW S, bk.spine \in Seq(S)
    PROVE  /\ OverlayHrefs(bk) \in Seq({OverlayOf(bk, k) : k \in DOMAIN bk.spine})
           /\ \E place : Placed(bk, Len(bk.spine), OverlayHrefs(bk), place)
<1> DEFINE s == bk.spine
           n == Len(s)
           H == {OverlayOf(bk, k) : k \in DOMAIN s}
           X == Seq(H)
           With0(x, item) == HeardWith(bk, x, item)
           FoldTable(g) == g = [A \in SUBSET (DOMAIN s) |->
                             IF A = {} THEN << >> ELSE With0(g[A \ {Max(A)}], s[Max(A)])]
           fold == CHOOSE g : FoldTable(g)
<1>1. OverlayHrefs(bk) = fold[DOMAIN s]
  BY DEF OverlayHrefs, FoldLeft, MapThenFoldSet
<1>2. n \in Nat /\ DOMAIN s = 1..n /\ \A i \in 1..n : s[i] \in S
  OBVIOUS
<1>3. << >> \in X
  OBVIOUS
<1>4. \A x \in X : \A i \in 1..n : With0(x, s[i]) \in X
  <2> SUFFICES ASSUME NEW x \in X, NEW i \in 1..n PROVE With0(x, s[i]) \in X
    OBVIOUS
  <2>1. CASE HasOverlay(bk, i)
    <3>1. With0(x, s[i]) = Append(x, OverlayOf(bk, i)) /\ OverlayOf(bk, i) \in H
      BY <1>2, <2>1 DEF HeardWith, HasOverlay, OverlayOf
    <3> HIDE DEF H, With0
    <3>2. QED
      BY <3>1
  <2>2. CASE ~HasOverlay(bk, i)
    BY <2>2 DEF HeardWith, HasOverlay
  <2>3. QED
    BY <2>1, <2>2
<1> HIDE DEF n, X, H, With0
<1>5. \E g : FoldTable(g)
  <2> DEFINE step == [i \in 1..n |-> [x \in X |-> With0(x, s[i])]]
  <2>1. step \in [1..n -> [X -> X]]
    BY <1>4
  <2>2. PICK g : IsFold(g, X, n, << >>, step)
    <3> HIDE DEF step
    <3>1. QED
      BY <1>2, <1>3, <2>1, FoldDefined
  <2>3. ASSUME NEW A \in SUBSET (1..n), A # {}
        PROVE  g[A] = With0(g[A \ {Max(A)}], s[Max(A)])
    <3>1. Max(A) \in 1..n
      BY <1>2, <2>3, MaxMember
    <3>2. g[A \ {Max(A)}] \in X
      BY <2>2 DEF IsFold
    <3>3. step[Max(A)][g[A \ {Max(A)}]] = With0(g[A \ {Max(A)}], s[Max(A)])
      BY <3>1, <3>2
    <3>4. g[A] = step[Max(A)][g[A \ {Max(A)}]]
      BY <2>2, <2>3 DEF IsFold
    <3>5. QED
      BY <3>3, <3>4
  <2>4. g = [A \in SUBSET (1..n) |-> g[A]] /\ g[{}] = << >>
    BY <2>2 DEF IsFold
  <2>5. FoldTable(g)
    <3> DEFINE h == [A \in SUBSET (1..n) |->
                       IF A = {} THEN << >> ELSE With0(g[A \ {Max(A)}], s[Max(A)])]
    <3>1. \A A \in SUBSET (1..n) : g[A] = h[A]
      BY <2>3, <2>4
    <3>2. h = [A \in SUBSET (1..n) |-> h[A]]
      OBVIOUS
    <3>3. g = h
      <4> HIDE DEF h
      <4>1. QED
        BY <2>4, <3>1, <3>2
    <3>4. QED
      BY <1>2, <3>3
  <2> HIDE DEF FoldTable
  <2>6. QED
    BY <2>5
<1>6. FoldTable(fold)
  <2> HIDE DEF FoldTable
  <2>1. QED
    BY <1>5
<1> HIDE DEF fold
<1>7. \A A \in SUBSET (1..n) :
         fold[A] = IF A = {} THEN << >> ELSE With0(fold[A \ {Max(A)}], s[Max(A)])
  BY <1>2, <1>6
<1> DEFINE Holds(k, x) == x \in X /\ \E place : Placed(bk, k, x, place)
           N == {k \in 0..n : Holds(k, fold[1..k])}
<1>8. 0 \in N
  <2>1. 1..0 = {} /\ {} \in SUBSET (1..n) /\ 0 \in 0..n
    BY <1>2
  <2>2. fold[{}] = << >>
    BY <1>7, <2>1
  <2>3. Placed(bk, 0, << >>, << >>)
    <3>1. {j \in ChaptersHeard(bk) : j <= 0} = {}
      BY <1>2 DEF ChaptersHeard
    <3>2. << >> \in [{} -> 1..Len(<< >>)] /\ 1..Len(<< >>) = {}
      OBVIOUS
    <3>3. QED
      BY <3>1, <3>2 DEF Placed
  <2>4. Holds(0, << >>)
    BY <1>3, <2>3
  <2> HIDE DEF Holds
  <2>5. QED
    BY <2>1, <2>2, <2>4
<1>9. ASSUME NEW k \in 0..(n - 1), k \in N
      PROVE  k + 1 \in N
  <2>1. k + 1 \in 1..n /\ k + 1 \in 0..n /\ k = (k + 1) - 1
    BY <1>2
  <2> DEFINE A == 1..(k + 1)
  <2>2. A \in SUBSET (1..n) /\ A # {} /\ Max(A) = k + 1 /\ A \ {Max(A)} = 1..k
    BY <1>2, <2>1, PrefixMax
  <2>3. fold[A] = With0(fold[1..k], s[k + 1])
    <3> HIDE DEF A
    <3>1. fold[A] = With0(fold[A \ {Max(A)}], s[Max(A)])
      BY <1>7, <2>2
    <3>2. QED
      BY <2>2, <3>1, Zenon
  <2>4. Holds(k, fold[1..k])
    BY <1>9
  <2>5. \E place : Placed(bk, k + 1, With0(fold[1..k], s[k + 1]), place)
    <3>1. PICK place : Placed(bk, (k + 1) - 1, fold[1..k], place)
      BY <2>1, <2>4
    <3>2. fold[1..k] \in Seq(H)
      BY <2>4 DEF X
    <3>3. QED
      BY <2>1, <3>1, <3>2, PlaceKept DEF With0, n
  <2>6. Holds(k + 1, With0(fold[1..k], s[k + 1]))
    BY <1>4, <2>1, <2>4, <2>5
  <2> HIDE DEF Holds
  <2>7. QED
    BY <2>1, <2>3, <2>6
<1>10. n \in N
  <2>1. n \in 0..n
    BY <1>2
  <2> HIDE DEF N
  <2>2. QED
    BY <1>2, <1>8, <1>9, <2>1, BoundedInduction
<1>11. QED
  BY <1>1, <1>2, <1>10 DEF X, H, n
\* Around a chapter heard in a book whose overlays differ: the overlays of the
\* chapters heard next before it and next after it.
LEMMA LinksFollow ==
    ASSUME NEW bk, NEW S, bk.spine \in Seq(S), NEW k \in ChaptersHeard(bk),
           \A i, j \in ChaptersHeard(bk) : OverlayOf(bk, i) = OverlayOf(bk, j) => i = j
    PROVE  LET before == {j \in ChaptersHeard(bk) : j < k}
               after == {j \in ChaptersHeard(bk) : j > k}
           IN OverlayLinks(bk, OverlayOf(bk, k))
                = [prev |-> IF before = {} THEN Absent ELSE OverlayOf(bk, Max(before)),
                   next |-> IF after = {} THEN Absent ELSE OverlayOf(bk, Min(after))]
<1> DEFINE heard == ChaptersHeard(bk)
           before == {j \in heard : j < k}
           after == {j \in heard : j > k}
           hrefs == OverlayHrefs(bk)
           n == Len(bk.spine)
           len == Len(hrefs)
           places == {i \in DOMAIN hrefs : hrefs[i] = OverlayOf(bk, k)}
           pos == CHOOSE i \in places : \A j \in places : i <= j
<1>1. heard \in SUBSET (1..n) /\ n \in Nat
  BY DEF ChaptersHeard
<1>2. PICK place : Placed(bk, n, hrefs, place)
  BY HrefsPlaced
<1>3. len \in Nat /\ DOMAIN hrefs = 1..len
  BY HrefsPlaced
<1>4. {j \in heard : j <= n} = heard
  BY <1>1
<1>5. /\ place \in [heard -> 1..len]
      /\ \A j \in heard : hrefs[place[j]] = OverlayOf(bk, j)
      /\ \A i, j \in heard : i < j => place[i] < place[j]
      /\ \A p \in 1..len : \E j \in heard : place[j] = p
  BY <1>2, <1>4 DEF Placed
<1>6. \A i, j \in heard : OverlayOf(bk, i) = OverlayOf(bk, j) => i = j
  OBVIOUS
<1>7. OverlayLinks(bk, OverlayOf(bk, k))
        = IF places = {} THEN [prev |-> Absent, next |-> Absent]
          ELSE [prev |-> IF pos > 1 THEN hrefs[pos - 1] ELSE Absent,
                next |-> IF pos < len THEN hrefs[pos + 1] ELSE Absent]
  BY DEF OverlayLinks
<1>8. k \in heard
  OBVIOUS
<1> HIDE DEF hrefs, heard, n, len
<1>9. places = {place[k]}
  <2>1. place[k] \in places
    BY <1>3, <1>5, <1>8
  <2>2. ASSUME NEW p \in places PROVE p = place[k]
    <3>1. p \in 1..len /\ hrefs[p] = OverlayOf(bk, k)
      BY <1>3
    <3>2. PICK j \in heard : place[j] = p
      BY <1>5, <3>1
    <3>3. OverlayOf(bk, j) = OverlayOf(bk, k)
      BY <1>5, <3>1, <3>2
    <3>4. QED
      BY <1>6, <1>8, <3>2, <3>3
  <2> HIDE DEF places
  <2>3. QED
    BY <2>1, <2>2
<1>10. place[k] \in 1..len /\ k \in 1..n
  BY <1>1, <1>5, <1>8
<1> HIDE DEF places
<1>11. pos = place[k]
  <2>1. \A j \in places : place[k] <= j
    BY <1>3, <1>9, <1>10
  <2>2. QED
    BY <1>9, <2>1
<1> HIDE DEF pos
<1>12. \A i, j \in heard : /\ i < j <=> place[i] < place[j]
                           /\ place[i] \in 1..len /\ i \in 1..n
  BY <1>1, <1>3, <1>5
<1>13. IF pos > 1 THEN before # {} /\ hrefs[pos - 1] = OverlayOf(bk, Max(before)) ELSE before = {}
  <2>1. CASE pos > 1
    <3>1. PICK j \in heard : place[j] = pos - 1
      BY <1>3, <1>5, <1>10, <1>11, <2>1
    <3>2. j \in before
      BY <1>3, <1>8, <1>10, <1>11, <1>12, <3>1
    <3>3. \A i \in before : j >= i
      <4> SUFFICES ASSUME NEW i \in before PROVE j >= i
        OBVIOUS
      <4>1. i \in heard /\ i < k /\ i \in 1..n /\ j \in 1..n
        BY <1>12, <3>1
      <4>2. place[i] < pos /\ place[i] \in 1..len
        BY <1>8, <1>11, <1>12, <4>1
      <4>3. ~(place[j] < place[i])
        BY <1>3, <1>10, <1>11, <3>1, <4>2
      <4>4. ~(j < i)
        BY <1>12, <3>1, <4>1, <4>3
      <4>5. QED
        BY <1>1, <4>1, <4>4
    <3>4. before \in SUBSET (1..n)
      BY <1>1
    <3>5. Max(before) \in before /\ \A i \in before : Max(before) >= i
      BY <1>1, <3>2, <3>4, MaxMember
    <3> HIDE DEF before
    <3>6. Max(before) = j
      <4>1. Max(before) \in 1..n /\ j \in 1..n
        BY <3>2, <3>4, <3>5
      <4>2. j >= Max(before)
        BY <3>3, <3>5
      <4>3. Max(before) >= j
        BY <3>2, <3>5
      <4>4. QED
        BY <1>1, <4>1, <4>2, <4>3
    <3>7. QED
      BY <1>5, <2>1, <3>1, <3>2, <3>6
  <2>2. CASE ~(pos > 1)
    <3>1. \A i \in before : place[i] < pos /\ place[i] \in 1..len
      BY <1>8, <1>11, <1>12
    <3>2. before = {}
      BY <1>3, <1>10, <1>11, <2>2, <3>1
    <3>3. QED
      BY <2>2, <3>2
  <2>3. QED
    BY <2>1, <2>2
<1>14. IF pos < len THEN after # {} /\ hrefs[pos + 1] = OverlayOf(bk, Min(after)) ELSE after = {}
  <2>1. CASE pos < len
    <3>1. PICK j \in heard : place[j] = pos + 1
      BY <1>3, <1>5, <1>10, <1>11, <2>1
    <3>2. j \in after
      BY <1>1, <1>3, <1>8, <1>10, <1>11, <1>12, <3>1
    <3>3. \A i \in after : j <= i
      <4> SUFFICES ASSUME NEW i \in after PROVE j <= i
        OBVIOUS
      <4>1. i \in heard /\ k < i /\ i \in 1..n /\ j \in 1..n
        BY <1>10, <1>12, <3>1
      <4>2. pos < place[i] /\ place[i] \in 1..len
        BY <1>8, <1>11, <1>12, <4>1
      <4>3. ~(place[i] < place[j])
        BY <1>3, <1>10, <1>11, <3>1, <4>2
      <4>4. ~(i < j)
        BY <1>12, <3>1, <4>1, <4>3
      <4>5. QED
        BY <1>1, <4>1, <4>4
    <3>4. after \in SUBSET (1..n)
      BY <1>1
    <3>5. Min(after) \in after /\ \A i \in after : Min(after) <= i
      BY <3>2, <3>3 DEF Min
    <3> HIDE DEF after
    <3>6. Min(after) = j
      <4>1. Min(after) \in 1..n /\ j \in 1..n
        BY <3>2, <3>4, <3>5
      <4>2. j <= Min(after)
        BY <3>3, <3>5
      <4>3. Min(after) <= j
        BY <3>2, <3>5
      <4>4. QED
        BY <1>1, <4>1, <4>2, <4>3
    <3>7. QED
      BY <1>5, <2>1, <3>1, <3>2, <3>6
  <2>2. CASE ~(pos < len)
    <3>1. \A i \in after : pos < place[i] /\ place[i] \in 1..len
      BY <1>1, <1>8, <1>10, <1>11, <1>12
    <3>2. after = {}
      BY <1>3, <1>10, <1>11, <2>2, <3>1
    <3>3. QED
      BY <2>2, <3>2
  <2>3. QED
    BY <2>1, <2>2
<1>15. places # {}
  BY <1>9
<1> HIDE DEF before, after
<1>16. OverlayLinks(bk, OverlayOf(bk, k))
         = [prev |-> IF before = {} THEN Absent ELSE OverlayOf(bk, Max(before)),
            next |-> IF after = {} THEN Absent ELSE OverlayOf(bk, Min(after))]
  <2>1. (IF pos > 1 THEN hrefs[pos - 1] ELSE Absent)
          = IF before = {} THEN Absent ELSE OverlayOf(bk, Max(before))
    BY <1>13
  <2>2. (IF pos < len THEN hrefs[pos + 1] ELSE Absent)
          = IF after = {} THEN Absent ELSE OverlayOf(bk, Min(after))
    BY <1>14
  <2>3. QED
    BY <1>7, <1>15, <2>1, <2>2
<1>17. QED
  BY <1>16 DEF before, after, heard
-----------------------------------------------------------------------------
(***************************************************************************)
(* Steps                                                                    *)
(***************************************************************************)
Stages == {"container", "opf", "encryption", "nav", "ncx", "overlay", "smil", "done", "failed"}

\* What the steps of each document do to the reader.
LEMMA ContainerStep ==
    ASSUME ReadOpf, ContainerNext
    PROVE  /\ stage = "container" /\ stage' \in {"container", "opf", "failed"}
           /\ stage' = "opf" => at' = 1
           /\ UNCHANGED <<package, opf, book, encVars, navVars, smilVars>>
<1> USE DEF ReadOpf, Sees, SeesOther, Reading, AtEof, Malformed, Missing, Advance, GoTo, opfVars
<1>1. CASE Rootfile
  BY <1>1 DEF Rootfile
<1>2. CASE ContainerOther
  BY <1>2 DEF ContainerOther
<1>3. CASE ContainerRead
  BY <1>3 DEF ContainerRead
<1>4. CASE ContainerFails
  BY <1>4 DEF ContainerFails
<1>5. QED
  BY <1>1, <1>2, <1>3, <1>4 DEF ContainerNext

LEMMA NavigationStep ==
    ASSUME GetNavigation
    PROVE  /\ stage \in {"nav", "ncx"} /\ stage' \in {"nav", "ncx", "overlay", "failed"}
           /\ UNCHANGED <<package, opfVars, encVars, smilVars>>
<1> USE DEF GetNavigation, NcxStart, NcxEnd, Sees, SeesOther, Reading, AtEof, Malformed,
            Advance, GoTo
<1>1. CASE StartPageList
  BY <1>1 DEF StartPageList
<1>2. CASE StartPageTarget
  BY <1>2 DEF StartPageTarget
<1>3. CASE StartNavPoint
  BY <1>3 DEF StartNavPoint
<1>4. CASE StartText
  BY <1>4 DEF StartText
<1>5. CASE Content
  BY <1>5 DEF Content
<1>6. CASE Label
  BY <1>6 DEF Label
<1>7. CASE EndText
  BY <1>7 DEF EndText
<1>8. CASE EndPageList
  BY <1>8 DEF EndPageList
<1>9. CASE EndPageTarget
  BY <1>9 DEF EndPageTarget
<1>10. CASE EndNavPoint
  BY <1>10 DEF EndNavPoint
<1>11. CASE NcxOther
  BY <1>11 DEF NcxOther
<1>12. CASE NcxRead
  BY <1>12 DEF NcxRead
<1>13. CASE NcxFails
  BY <1>13 DEF NcxFails
<1>14. CASE LoadNavigation(NavItems # {}, book.toc_id \in DOMAIN book.manifest)
  <2> DEFINE item == NavItems # {}
             other == book.toc_id \in DOMAIN book.manifest
  <2>1. LoadNav(item) \/ LoadNcx(item, other) \/ NoNavigation(item, other)
    BY <1>14 DEF LoadNavigation
  <2> HIDE DEF item, other
  <2>2. QED
    BY <2>1 DEF LoadNav, LoadNcx, NoNavigation
<1>15. QED
  BY <1>1, <1>2, <1>3, <1>4, <1>5, <1>6, <1>7, <1>8, <1>9, <1>10, <1>11, <1>12, <1>13, <1>14
     DEF GetNavigation, NcxNext

LEMMA OverlayStep ==
    ASSUME ReadOverlay
    PROVE  /\ stage \in {"overlay", "smil"} /\ stage' \in {"overlay", "smil", "done", "failed"}
           /\ UNCHANGED <<package, opfVars, encVars, navVars>>
<1> USE DEF ReadOverlay, SmilStart, SmilEnd, SmilTag, Sees, SeesOther, Reading, AtEof, Malformed,
            Missing, Advance, GoTo
<1>1. CASE StartBody
  BY <1>1 DEF StartBody
<1>2. CASE StartSeq
  BY <1>2 DEF StartSeq
<1>3. CASE StartPar
  BY <1>3 DEF StartPar
<1>4. CASE ParText
  BY <1>4 DEF ParText
<1>5. CASE ParAudio
  BY <1>5 DEF ParAudio
<1>6. CASE EndBody
  BY <1>6 DEF EndBody
<1>7. CASE EndPar
  BY <1>7 DEF EndPar
<1>8. CASE EndSeq
  BY <1>8 DEF EndSeq
<1>9. CASE SmilOther
  BY <1>9 DEF SmilOther
<1>10. CASE SmilRead
  BY <1>10 DEF SmilRead
<1>11. CASE SmilFails
  BY <1>11 DEF SmilFails
<1>12. CASE \E id \in DOMAIN book.manifest \cup {Absent} : GetMediaOverlay(book, id)
  <2>1. PICK id \in DOMAIN book.manifest \cup {Absent} : GetMediaOverlay(book, id)
    BY <1>12
  <2>2. QED
    BY <2>1 DEF GetMediaOverlay
<1>13. QED
  BY <1>1, <1>2, <1>3, <1>4, <1>5, <1>6, <1>7, <1>8, <1>9, <1>10, <1>11, <1>12
     DEF ReadOverlay, SmilNext

LEMMA EncryptionStep ==
    ASSUME ReadEncryption
    PROVE  /\ stage = "encryption" /\ stage' \in {"encryption", "nav"}
           /\ UNCHANGED <<package, opfVars, navVars, smilVars>>
<1> USE DEF ReadEncryption, EncTag, Sees, SeesOther, Reading, AtEof, Missing, Advance, GoTo
<1>1. CASE EncryptionMethod
  BY <1>1 DEF EncryptionMethod
<1>2. CASE CipherReference
  BY <1>2 DEF CipherReference
<1>3. CASE Compression
  BY <1>3 DEF Compression
<1>4. CASE EncOther
  BY <1>4 DEF EncOther
<1>5. CASE EndEncryptedData
  BY <1>5 DEF EndEncryptedData
<1>6. CASE EncryptionRead
  BY <1>6 DEF EncryptionRead
<1>7. QED
  BY <1>1, <1>2, <1>3, <1>4, <1>5, <1>6 DEF ReadEncryption, EncryptionNext
LEMMA OpfStep ==
    ASSUME ReadOpf, OpfNext
    PROVE  /\ stage = "opf" /\ UNCHANGED <<package, encVars, navVars, smilVars>>
           /\ \/ stage' = "opf" /\ at' = at + 1 /\ Reading("opf") /\ Event.ev # "bad"
              \/ stage' = "failed" /\ UNCHANGED opfVars
              \/ OpfRead
<1> USE DEF ReadOpf, OpfStart, OpfEmpty, Texts, Sees, SeesOther, Reading, AtEof, Malformed,
            Missing, Advance, GoTo
<1>1. CASE StartMetadata
  BY <1>1 DEF StartMetadata
<1>2. CASE StartPackage
  BY <1>2 DEF StartPackage
<1>3. CASE StartSpine
  BY <1>3 DEF StartSpine
<1>4. CASE StartTitle
  BY <1>4 DEF StartTitle
<1>5. CASE StartAgent
  BY <1>5 DEF StartAgent
<1>6. CASE StartIdentifier
  BY <1>6 DEF StartIdentifier
<1>7. CASE StartDate
  BY <1>7 DEF StartDate
<1>8. CASE StartSimple
  BY <1>8 DEF StartSimple
<1>9. CASE StartRefiningMeta
  BY <1>9 DEF StartRefiningMeta
<1>10. CASE StartGlobalMeta
  BY <1>10 DEF StartGlobalMeta
<1>11. CASE StartNamedMeta
  BY <1>11 DEF StartNamedMeta
<1>12. CASE StartOther
  BY <1>12 DEF StartOther
<1>13. CASE TitleText
  BY <1>13 DEF TitleText
<1>14. CASE CreatorText
  BY <1>14 DEF CreatorText
<1>15. CASE IdentifierText
  BY <1>15 DEF IdentifierText
<1>16. CASE SimpleText
  BY <1>16 DEF SimpleText
<1>17. CASE RefinesText
  BY <1>17 DEF RefinesText
<1>18. CASE GlobalA11yText
  BY <1>18 DEF GlobalA11yText
<1>19. CASE GlobalText
  BY <1>19 DEF GlobalText
<1>20. CASE StrayText
  BY <1>20 DEF StrayText
<1>21. CASE TextIgnored
  BY <1>21 DEF TextIgnored
<1>22. CASE OpfEnd
  BY <1>22 DEF OpfEnd
<1>23. CASE EmptyMeta
  BY <1>23 DEF EmptyMeta
<1>24. CASE EmptyItem
  BY <1>24 DEF EmptyItem
<1>25. CASE EmptyItemref
  BY <1>25 DEF EmptyItemref
<1>26. CASE EmptyReference
  BY <1>26 DEF EmptyReference
<1>27. CASE EmptyOther
  BY <1>27 DEF EmptyOther
<1>28. CASE OpfRead
  BY <1>28 DEF OpfRead
<1>29. CASE OpfFails
  BY <1>29 DEF OpfFails
<1>30. QED
  BY <1>1, <1>2, <1>3, <1>4, <1>5, <1>6, <1>7, <1>8, <1>9, <1>10, <1>11, <1>12,
     <1>13, <1>14, <1>15, <1>16, <1>17, <1>18, <1>19, <1>20, <1>21, <1>22, <1>23, <1>24,
     <1>25, <1>26, <1>27, <1>28, <1>29
     DEF OpfNext, OpfStartNext, OpfTextNext

\* A book has its fields, and its spine is a sequence.
BookShape ==
    /\ book = [field \in DOMAIN EmptyBook |-> book[field]]
    /\ \E S : book.spine \in Seq(S)

LEMMA BookShapeKept ==
    ASSUME BookShape, ReadOpf, OpfNext
    PROVE  BookShape'
<1> DEFINE IsBook(b) == b = [field \in DOMAIN EmptyBook |-> b[field]]
<1>1. PICK S : book.spine \in Seq(S)
  BY DEF BookShape
<1>2. IsBook(book) /\ DOMAIN book = DOMAIN EmptyBook
  BY DEF BookShape
<1>3. DOMAIN EmptyBook = {"title", "subtitle", "sort_as", "creators", "languages", "texts",
        "subjects", "cover_id", "toc_id", "rtl", "fixed", "identifier", "alt_identifiers",
        "belongs_to", "media_overlays", "accessibility", "manifest", "spine", "guide"}
  BY DEF EmptyBook
<1>4. ASSUME IsBook(book'), book'.spine = book.spine PROVE BookShape'
  BY <1>1, <1>4 DEF BookShape
<1>5. ASSUME book' = book PROVE BookShape'
  BY <1>5 DEF BookShape
<1> USE DEF Becomes, opfVars
<1>6. CASE StartMetadata
  BY <1>2, <1>3, <1>4, <1>5, <1>6 DEF StartMetadata
<1>7. CASE StartPackage
  BY <1>2, <1>3, <1>4, <1>5, <1>7 DEF StartPackage
<1>8. CASE StartSpine
  BY <1>2, <1>3, <1>4, <1>5, <1>8 DEF StartSpine
<1>9. CASE StartTitle
  BY <1>2, <1>3, <1>4, <1>5, <1>9 DEF StartTitle
<1>10. CASE StartAgent
  BY <1>2, <1>3, <1>4, <1>5, <1>10 DEF StartAgent
<1>11. CASE StartIdentifier
  BY <1>2, <1>3, <1>4, <1>5, <1>11 DEF StartIdentifier
<1>12. CASE StartDate
  BY <1>2, <1>3, <1>4, <1>5, <1>12 DEF StartDate
<1>13. CASE StartSimple
  BY <1>2, <1>3, <1>4, <1>5, <1>13 DEF StartSimple
<1>14. CASE StartRefiningMeta
  BY <1>2, <1>3, <1>4, <1>5, <1>14 DEF StartRefiningMeta
<1>15. CASE StartGlobalMeta
  BY <1>2, <1>3, <1>4, <1>5, <1>15 DEF StartGlobalMeta
<1>16. CASE StartNamedMeta
  BY <1>2, <1>3, <1>4, <1>5, <1>16 DEF StartNamedMeta
<1>17. CASE StartOther
  BY <1>2, <1>3, <1>4, <1>5, <1>17 DEF StartOther
<1>18. CASE TitleText
  BY <1>2, <1>3, <1>4, <1>5, <1>18 DEF TitleText
<1>19. CASE CreatorText
  BY <1>2, <1>3, <1>4, <1>5, <1>19 DEF CreatorText
<1>20. CASE IdentifierText
  BY <1>2, <1>3, <1>4, <1>5, <1>20 DEF IdentifierText
<1>21. CASE SimpleText
  BY <1>2, <1>3, <1>4, <1>5, <1>21 DEF SimpleText
<1>22. CASE RefinesText
  BY <1>2, <1>3, <1>4, <1>5, <1>22 DEF RefinesText
<1>23. CASE GlobalA11yText
  BY <1>2, <1>3, <1>4, <1>5, <1>23 DEF GlobalA11yText
<1>24. CASE GlobalText
  BY <1>2, <1>3, <1>4, <1>5, <1>24 DEF GlobalText
<1>25. CASE StrayText
  BY <1>2, <1>3, <1>4, <1>5, <1>25 DEF StrayText
<1>26. CASE TextIgnored
  BY <1>2, <1>3, <1>4, <1>5, <1>26 DEF TextIgnored
<1>27. CASE OpfEnd
  BY <1>2, <1>3, <1>4, <1>5, <1>27 DEF OpfEnd
<1>28. CASE EmptyMeta
  BY <1>2, <1>3, <1>4, <1>5, <1>28 DEF EmptyMeta
<1>29. CASE EmptyItem
  BY <1>2, <1>3, <1>4, <1>5, <1>29 DEF EmptyItem
<1>30. CASE EmptyItemref
  <2>1. CASE book'.spine = book.spine
    BY <1>2, <1>3, <1>4, <1>30, <2>1 DEF EmptyItemref
  <2>2. CASE \E x : book'.spine = Append(book.spine, x)
    <3>1. PICK x : book'.spine = Append(book.spine, x)
      BY <2>2
    <3>2. book'.spine \in Seq(S \cup {x})
      <4>1. book.spine \in Seq(S \cup {x}) /\ x \in S \cup {x}
        BY <1>1
      <4>2. QED
        BY <3>1, <4>1
    <3>3. IsBook(book')
      BY <1>2, <1>3, <1>30 DEF EmptyItemref
    <3>4. QED
      BY <3>2, <3>3 DEF BookShape
  <2>3. QED
    BY <1>2, <1>3, <1>30, <2>1, <2>2 DEF EmptyItemref
<1>31. CASE EmptyReference
  BY <1>2, <1>3, <1>4, <1>5, <1>31 DEF EmptyReference
<1>32. CASE EmptyOther
  BY <1>2, <1>3, <1>4, <1>5, <1>32 DEF EmptyOther
<1>33. CASE OpfFails
  BY <1>2, <1>3, <1>4, <1>5, <1>33 DEF OpfFails
<1>34. CASE OpfRead
  BY <1>2, <1>3, <1>4, <1>34 DEF OpfRead
<1>35. QED
  BY <1>6, <1>7, <1>8, <1>9, <1>10, <1>11, <1>12, <1>13, <1>14, <1>15, <1>16, <1>17,
     <1>18, <1>19, <1>20, <1>21, <1>22, <1>23, <1>24, <1>25, <1>26, <1>27, <1>28, <1>29,
     <1>30, <1>31, <1>32, <1>33, <1>34
     DEF OpfNext, OpfStartNext, OpfTextNext
LEMMA BookShapeInvariant == Spec => []BookShape
<1>1. Init => BookShape
  <2> SUFFICES ASSUME Init PROVE BookShape
    OBVIOUS
  <2>1. book = EmptyBook /\ book.spine = << >>
    BY DEF Init, EmptyBook
  <2>2. book.spine \in Seq({})
    BY <2>1
  <2>3. book = [field \in DOMAIN EmptyBook |-> book[field]]
    BY <2>1 DEF EmptyBook
  <2>4. QED
    BY <2>2, <2>3 DEF BookShape
<1>2. BookShape /\ [Next]_vars => BookShape'
  <2> SUFFICES ASSUME BookShape, [Next]_vars PROVE BookShape'
    OBVIOUS
  <2>1. ASSUME book' = book PROVE BookShape'
    BY <2>1 DEF BookShape
  <2>2. CASE ReadOpf
    <3>1. CASE ContainerNext
      BY <2>1, <2>2, <3>1, ContainerStep
    <3>2. CASE OpfNext
      BY <2>2, <3>2, BookShapeKept
    <3>3. QED
      BY <2>2, <3>1, <3>2 DEF ReadOpf
  <2>3. CASE ReadEncryption
    BY <2>1, <2>3, EncryptionStep DEF opfVars
  <2>4. CASE GetNavigation
    BY <2>1, <2>4, NavigationStep DEF opfVars
  <2>5. CASE ReadOverlay
    BY <2>1, <2>5, OverlayStep DEF opfVars
  <2>6. CASE UNCHANGED vars
    BY <2>1, <2>6 DEF vars, opfVars
  <2>7. QED
    BY <2>2, <2>3, <2>4, <2>5, <2>6 DEF Next
<1>3. QED
  BY <1>1, <1>2, PTL DEF Spec

\* Following `next` from overlay to overlay, a player hears every linear chapter
\* that has one, in reading order, and `prev` leads back.
THEOREM PlaybackFollows == Spec => []PlaybackChain
<1>1. BookShape => PlaybackChain
  <2> SUFFICES ASSUME BookShape, BookRead PROVE PlaybackChain
    BY DEF PlaybackChain
  <2>1. PICK S : book.spine \in Seq(S)
    BY DEF BookShape
  <2>2. ChaptersHeard(book) =
           {k \in DOMAIN book.spine :
              /\ book.spine[k].linear /\ book.spine[k].idref \in DOMAIN book.manifest
              /\ book.manifest[book.spine[k].idref].media_overlay \in DOMAIN book.manifest}
    BY DEF ChaptersHeard, HasOverlay
  <2>3. ASSUME NEW k \in ChaptersHeard(book),
               \A i, j \in ChaptersHeard(book) : OverlayOf(book, i) = OverlayOf(book, j) => i = j
        PROVE  LET before == {j \in ChaptersHeard(book) : j < k}
                   after == {j \in ChaptersHeard(book) : j > k}
               IN OverlayLinks(book, OverlayOf(book, k))
                    = [prev |-> IF before = {} THEN Absent ELSE OverlayOf(book, Max(before)),
                       next |-> IF after = {} THEN Absent ELSE OverlayOf(book, Min(after))]
    BY <2>1, <2>3, LinksFollow
  <2>4. QED
    BY <2>2, <2>3, Zenon DEF PlaybackChain, OverlayOf
<1>2. QED
  BY <1>1, BookShapeInvariant, PTL
-----------------------------------------------------------------------------
(***************************************************************************)
(* Encryption                                                               *)
(***************************************************************************)
\* The parts of an entry stand in an entry, and entries not in each other.
EntriesApart(doc) ==
    \A j \in DOMAIN doc :
      /\ doc[j].ev \in {"start", "empty"}
           /\ doc[j].name \in {"EncryptionMethod", "CipherReference", "Compression"}
         => \E i \in DOMAIN doc : Opened(doc, i, j)
      /\ EntryTag(doc, j, "start") => \A i \in DOMAIN doc : ~Opened(doc, i, j)

\* What is said of an entry, between two events.
Said0(doc, i, j) == [algorithm |-> AlgorithmIn(doc, i, j), original_length |-> LengthIn(doc, i, j),
                     uri |-> PathIn(doc, i, j)]
Info(doc, i, j) == [algorithm |-> OrElse(AlgorithmIn(doc, i, j), "Unknown"),
                    original_length |-> LengthIn(doc, i, j)]
\* The entries that are complete, and useful, before event n.
UsefulBefore(doc, n) ==
    {p \in (1..n - 1) \X (1..n - 1) :
       Opened(doc, p[1], p[2]) /\ EntryTag(doc, p[2], "end") /\ Useful(doc, p[1], p[2])}

\* The map holds the entries of a set, and nothing else.
Holds(map, doc, entries) ==
    /\ DOMAIN map = {PathIn(doc, p[1], p[2]) : p \in entries}
    /\ \A uri \in DOMAIN map :
         \E p \in entries : /\ PathIn(doc, p[1], p[2]) = uri
                            /\ map[uri] = Info(doc, p[1], p[2])

\* In the middle of encryption.xml: what is collected was said in the entry
\* that is open, and every entry before is in the map.
EncReading(doc, n, e, map) ==
    /\ n \in 1..Len(doc) + 1
    /\ \A j \in 1..n - 1 : doc[j].ev # "bad"
    /\ \A i \in 1..n - 1 : Opened(doc, i, n) => e = Said0(doc, i, n - 1)
    /\ (\A i \in 1..n - 1 : ~Opened(doc, i, n)) => e = EmptyEnc
    /\ Holds(map, doc, UsefulBefore(doc, n))
EncInv ==
    LET doc == package["encryption"] IN
    /\ package \in Packages
    /\ stage \in Stages
    /\ stage \in {"container", "opf"} => enc = EmptyEnc /\ encryptions = << >>
    /\ stage = "encryption" /\ doc # Absent => EncReading(doc, at, enc, encryptions)
    /\ EncryptionOwn

\* The last word of one more event.
LEMMA LastWordMore ==
    ASSUME NEW doc, NEW i \in Nat, NEW n \in Nat, i <= n, i > 0, NEW name, NEW key
    PROVE  LastWord(doc, i, n, name, key)
             = IF /\ doc[n].ev \in {"start", "empty"} /\ doc[n].name = name
                  /\ Lookup(doc[n].attr, key) # Absent
               THEN doc[n].attr[key]
               ELSE LastWord(doc, i, n - 1, name, key)
<1> DEFINE Says(j) == /\ doc[j].ev \in {"start", "empty"} /\ doc[j].name = name
                      /\ Lookup(doc[j].attr, key) # Absent
           now == {j \in i..n : Says(j)}
           then == {j \in i..n - 1 : Says(j)}
<1>1. LastWord(doc, i, n, name, key) = IF now = {} THEN Absent ELSE doc[Max(now)].attr[key]
  BY DEF LastWord
<1>2. LastWord(doc, i, n - 1, name, key) = IF then = {} THEN Absent ELSE doc[Max(then)].attr[key]
  BY DEF LastWord
<1>3. n \in i..n /\ i..n = (i..n - 1) \cup {n}
  OBVIOUS
<1> HIDE DEF Says
<1>4. CASE Says(n)
  <2>1. n \in now /\ \A j \in now : n >= j
    BY <1>4
  <2>2. \E m \in now : \A j \in now : m >= j
    BY <2>1
  <2>3. Max(now) \in now /\ \A j \in now : Max(now) >= j
    BY <2>2 DEF Max
  <2>4. Max(now) = n
    <3>1. Max(now) \in i..n /\ Max(now) >= n
      BY <2>1, <2>3
    <3>2. QED
      BY <3>1
  <2>5. QED
    BY <1>1, <1>4, <2>1, <2>4 DEF Says
<1>5. CASE ~Says(n)
  <2>1. now = then
    BY <1>3, <1>5
  <2>2. QED
    BY <1>1, <1>2, <1>5, <2>1 DEF Says
<1>6. QED
  BY <1>4, <1>5

\* An event that says nothing of an entry.
LEMMA NothingSaid ==
    ASSUME NEW doc, NEW i \in Nat, NEW n \in Nat, i <= n, i > 0,
           ~(/\ doc[n].ev \in {"start", "empty"}
             /\ doc[n].name \in {"EncryptionMethod", "CipherReference", "Compression"})
    PROVE  Said0(doc, i, n) = Said0(doc, i, n - 1)
<1>1. /\ LastWord(doc, i, n, "CipherReference", "URI") = LastWord(doc, i, n - 1, "CipherReference", "URI")
      /\ LastWord(doc, i, n, "EncryptionMethod", "Algorithm")
           = LastWord(doc, i, n - 1, "EncryptionMethod", "Algorithm")
      /\ LastWord(doc, i, n, "Compression", "OriginalLength")
           = LastWord(doc, i, n - 1, "Compression", "OriginalLength")
  BY LastWordMore
<1>2. QED
  BY <1>1 DEF Said0, PathIn, AlgorithmIn, LengthIn

\* Where an entry begins nothing has been said of it.
LEMMA SaidAtStart ==
    ASSUME NEW doc, NEW i \in Nat
    PROVE  Said0(doc, i, i - 1) = EmptyEnc
<1>1. \A name, key : LastWord(doc, i, i - 1, name, key) = Absent
  <2> SUFFICES ASSUME NEW name, NEW key PROVE LastWord(doc, i, i - 1, name, key) = Absent
    OBVIOUS
  <2>1. i..i - 1 = {}
    OBVIOUS
  <2>2. QED
    BY <2>1 DEF LastWord
<1>2. Lookup(LengthOf, Absent) = Absent
  BY LengthAssumption DEF Lookup
<1>3. QED
  BY <1>1, <1>2 DEF Said0, EmptyEnc, PathIn, AlgorithmIn, LengthIn

\* One more event: the entry that is open stays so unless the event is a tag of
\* entries.
LEMMA OpenedMore ==
    ASSUME NEW doc, NEW n \in Nat \ {0}, NEW i \in 1..n
    PROVE  /\ i = n => (Opened(doc, i, n + 1) <=> EntryTag(doc, n, "start"))
           /\ i # n => (Opened(doc, i, n + 1) <=>
                          Opened(doc, i, n) /\ ~EntryTag(doc, n, "start") /\ ~EntryTag(doc, n, "end"))
<1>1. CASE i = n
  <2>1. n + 1..n + 1 - 1 = {} /\ n < n + 1
    OBVIOUS
  <2>2. QED
    BY <1>1, <2>1 DEF Opened
<1>2. CASE i # n
  <2>1. i < n /\ i < n + 1 /\ i + 1..n + 1 - 1 = (i + 1..n - 1) \cup {n}
    BY <1>2
  <2>2. QED
    BY <1>2, <2>1 DEF Opened
<1>3. QED
  BY <1>1, <1>2

\* Only one entry is open at a time.
LEMMA OneOpened ==
    ASSUME NEW doc, NEW n \in Nat, NEW i \in 1..n, NEW j \in 1..n,
           Opened(doc, i, n), Opened(doc, j, n)
    PROVE  i = j
<1>1. ASSUME NEW k \in 1..n, NEW l \in 1..n, Opened(doc, k, n), Opened(doc, l, n) PROVE ~(k < l)
  <2> SUFFICES ASSUME k < l PROVE FALSE
    OBVIOUS
  <2>1. l < n /\ l \in k + 1..n - 1
    BY <1>1 DEF Opened
  <2>2. QED
    BY <1>1, <2>1 DEF Opened
<1>2. ~(i < j) /\ ~(j < i)
  BY <1>1
<1>3. QED
  BY <1>2
\* Before the end of an entry there are the entries there were before; after it
\* the one that was open, too.
LEMMA UsefulMore ==
    ASSUME NEW doc, NEW n \in Nat \ {0}
    PROVE  UsefulBefore(doc, n + 1) =
             UsefulBefore(doc, n) \cup
               {p \in (1..n) \X {n} : /\ Opened(doc, p[1], n) /\ EntryTag(doc, n, "end")
                                     /\ Useful(doc, p[1], n)}
<1> DEFINE Entry0(p) == /\ Opened(doc, p[1], p[2]) /\ EntryTag(doc, p[2], "end")
                        /\ Useful(doc, p[1], p[2])
           new == {p \in (1..n) \X {n} : Entry0(p)}
<1>1. new = {p \in (1..n) \X {n} : /\ Opened(doc, p[1], n) /\ EntryTag(doc, n, "end")
                                   /\ Useful(doc, p[1], n)}
  OBVIOUS
<1>2. n + 1 - 1 = n /\ 1..n = (1..n - 1) \cup {n}
  OBVIOUS
<1>3. \A p \in (1..n) \X (1..n) : Entry0(p) => p[1] < p[2]
  BY DEF Opened
<1>4. \A p \in (1..n) \X (1..n) : Entry0(p) =>
         p \in (1..n - 1) \X (1..n - 1) \/ p \in (1..n) \X {n}
  <2> SUFFICES ASSUME NEW p \in (1..n) \X (1..n), Entry0(p), p \notin (1..n) \X {n}
               PROVE  p \in (1..n - 1) \X (1..n - 1)
    OBVIOUS
  <2>1. p[2] \in 1..n - 1
    BY <1>2
  <2>2. p[1] \in 1..n - 1
    BY <1>2, <1>3, <2>1
  <2>3. QED
    BY <2>1, <2>2
<1>5. UsefulBefore(doc, n + 1) = {p \in (1..n) \X (1..n) : Entry0(p)}
  BY <1>2 DEF UsefulBefore
<1>6. UsefulBefore(doc, n) = {p \in (1..n - 1) \X (1..n - 1) : Entry0(p)}
  BY DEF UsefulBefore
<1>7. \A p : p \in (1..n - 1) \X (1..n - 1) \/ p \in (1..n) \X {n} => p \in (1..n) \X (1..n)
  BY <1>2
<1> HIDE DEF Entry0
<1>8. QED
  BY <1>1, <1>4, <1>5, <1>6, <1>7

\* An entry inserted into the map of a set.
LEMMA HoldsMore ==
    ASSUME NEW map, NEW doc, NEW entries, Holds(map, doc, entries), NEW p
    PROVE  Holds(With(map, PathIn(doc, p[1], p[2]), Info(doc, p[1], p[2])), doc, entries \cup {p})
<1> DEFINE path(q) == PathIn(doc, q[1], q[2])
           info(q) == Info(doc, q[1], q[2])
           new == With(map, path(p), info(p))
           more == entries \cup {p}
<1>1. DOMAIN new = DOMAIN map \cup {path(p)}
  BY DEF With
<1>2. \A k \in DOMAIN new : new[k] = IF k = path(p) THEN info(p) ELSE map[k]
  BY DEF With
<1>3. /\ DOMAIN map = {path(q) : q \in entries}
      /\ \A k \in DOMAIN map : \E q \in entries : path(q) = k /\ map[k] = info(q)
  BY DEF Holds
<1> HIDE DEF path, info, new
<1>4. DOMAIN new = {path(q) : q \in more}
  BY <1>1, <1>3
<1>5. \A k \in DOMAIN new : \E q \in more : path(q) = k /\ new[k] = info(q)
  <2> SUFFICES ASSUME NEW k \in DOMAIN new PROVE \E q \in more : path(q) = k /\ new[k] = info(q)
    OBVIOUS
  <2>1. CASE k = path(p)
    BY <1>2, <2>1
  <2>2. CASE k # path(p)
    BY <1>1, <1>2, <1>3, <2>2
  <2>3. QED
    BY <2>1, <2>2
<1>6. QED
  BY <1>4, <1>5 DEF Holds, path, info, new

\* While the events of an entry are read.
LEMMA EncReadOn ==
    ASSUME NEW doc, NEW S, doc \in Seq(S), EntriesApart(doc), NEW n \in 1..Len(doc),
           EncReading(doc, n, enc, encryptions), doc[n].ev # "bad", encryptions' = encryptions,
           ~EntryTag(doc, n, "end"),
           \A i \in 1..n : Opened(doc, i, n + 1) /\ i # n =>
              (enc = Said0(doc, i, n - 1) => enc' = Said0(doc, i, n)),
           \/ /\ doc[n].ev \in {"start", "empty"}
              /\ doc[n].name \in {"EncryptionMethod", "CipherReference", "Compression"}
           \/ enc' = enc
    PROVE  EncReading(doc, n + 1, enc', encryptions')
<1>1. n \in Nat \ {0} /\ n \in DOMAIN doc /\ Len(doc) \in Nat /\ n + 1 - 1 = n
        /\ 1..n = (1..n - 1) \cup {n} /\ n + 1 \in 1..Len(doc) + 1
  OBVIOUS
<1>2. \A j \in 1..n : doc[j].ev # "bad"
  BY <1>1 DEF EncReading
<1>3. \A i \in 1..n : Opened(doc, i, n + 1) => enc' = Said0(doc, i, n)
  <2> SUFFICES ASSUME NEW i \in 1..n, Opened(doc, i, n + 1) PROVE enc' = Said0(doc, i, n)
    OBVIOUS
  <2>1. CASE i = n
    <3>1. EntryTag(doc, n, "start")
      BY <1>1, <2>1, OpenedMore
    <3>2. \A k \in DOMAIN doc : ~Opened(doc, k, n)
      BY <1>1, <3>1 DEF EntriesApart
    <3>3. enc = EmptyEnc
      BY <1>1, <3>2 DEF EncReading
    <3>4. enc' = enc
      BY <3>1 DEF EntryTag
    <3>5. Said0(doc, n, n) = Said0(doc, n, n - 1)
      <4>1. doc[n].name = "EncryptedData"
        BY <3>1 DEF EntryTag
      <4>2. QED
        BY <1>1, <4>1, NothingSaid
    <3>6. QED
      BY <1>1, <2>1, <3>3, <3>4, <3>5, SaidAtStart
  <2>2. CASE i # n
    <3>1. i \in 1..n - 1 /\ Opened(doc, i, n)
      BY <1>1, <2>2, OpenedMore
    <3>2. enc = Said0(doc, i, n - 1)
      BY <3>1 DEF EncReading
    <3>3. QED
      BY <2>2, <3>2
  <2>3. QED
    BY <2>1, <2>2
<1>4. (\A i \in 1..n : ~Opened(doc, i, n + 1)) => enc' = EmptyEnc
  <2> SUFFICES ASSUME \A i \in 1..n : ~Opened(doc, i, n + 1) PROVE enc' = EmptyEnc
    OBVIOUS
  <2>1. ~EntryTag(doc, n, "start")
    BY <1>1, OpenedMore
  <2>2. \A i \in 1..n - 1 : ~Opened(doc, i, n)
    BY <1>1, <2>1, OpenedMore
  <2>3. enc = EmptyEnc
    BY <2>2 DEF EncReading
  <2>4. ~(/\ doc[n].ev \in {"start", "empty"}
          /\ doc[n].name \in {"EncryptionMethod", "CipherReference", "Compression"})
    <3> SUFFICES ASSUME doc[n].ev \in {"start", "empty"},
                        doc[n].name \in {"EncryptionMethod", "CipherReference", "Compression"}
                 PROVE  FALSE
      OBVIOUS
    <3>1. PICK i \in DOMAIN doc : Opened(doc, i, n)
      BY <1>1 DEF EntriesApart
    <3>2. i \in 1..n - 1
      BY <1>1, <3>1 DEF Opened
    <3>3. QED
      BY <2>2, <3>1, <3>2
  <2>5. QED
    BY <2>3, <2>4
<1>5. UsefulBefore(doc, n + 1) = UsefulBefore(doc, n)
  <2> DEFINE new == {p \in (1..n) \X {n} : /\ Opened(doc, p[1], n) /\ EntryTag(doc, n, "end")
                                         /\ Useful(doc, p[1], n)}
  <2>1. UsefulBefore(doc, n + 1) = UsefulBefore(doc, n) \cup new
    BY <1>1, UsefulMore
  <2>2. new = {}
    OBVIOUS
  <2> HIDE DEF new
  <2>3. QED
    BY <2>1, <2>2
<1>6. Holds(encryptions', doc, UsefulBefore(doc, n + 1))
  BY <1>5 DEF EncReading
<1>7. QED
  BY <1>1, <1>2, <1>3, <1>4, <1>6 DEF EncReading
\* An entry ends.
LEMMA EncEnds ==
    ASSUME NEW doc, NEW S, doc \in Seq(S), NEW n \in 1..Len(doc),
           EncReading(doc, n, enc, encryptions), doc[n].ev # "bad", EntryTag(doc, n, "end"),
           encryptions' = Committed, enc' = EmptyEnc
    PROVE  EncReading(doc, n + 1, enc', encryptions')
<1>1. n \in Nat \ {0} /\ n \in DOMAIN doc /\ Len(doc) \in Nat /\ n + 1 - 1 = n
        /\ 1..n = (1..n - 1) \cup {n} /\ n + 1 \in 1..Len(doc) + 1
  OBVIOUS
<1>2. \A j \in 1..n : doc[j].ev # "bad"
  BY <1>1 DEF EncReading
<1>3. \A i \in 1..n : ~Opened(doc, i, n + 1)
  <2>1. ~EntryTag(doc, n, "start")
    BY DEF EntryTag
  <2>2. QED
    BY <1>1, <2>1, OpenedMore
<1> DEFINE new == {p \in (1..n) \X {n} : /\ Opened(doc, p[1], n) /\ EntryTag(doc, n, "end")
                                       /\ Useful(doc, p[1], n)}
<1>4. UsefulBefore(doc, n + 1) = UsefulBefore(doc, n) \cup new
  BY <1>1, UsefulMore
<1>5. Holds(encryptions, doc, UsefulBefore(doc, n))
  BY DEF EncReading
<1>6. Holds(Committed, doc, UsefulBefore(doc, n) \cup new)
  <2>1. CASE \A i \in 1..n - 1 : ~Opened(doc, i, n)
    <3>1. Committed = encryptions
      BY <2>1 DEF EncReading, EmptyEnc, Committed
    <3>2. new = {}
      <4>1. \A i \in 1..n : ~Opened(doc, i, n)
        BY <1>1, <2>1 DEF Opened
      <4>2. QED
        BY <4>1
    <3> HIDE DEF new
    <3>3. UsefulBefore(doc, n) \cup new = UsefulBefore(doc, n)
      BY <3>2
    <3>4. QED
      BY <1>5, <3>1, <3>3
  <2>2. ASSUME NEW i \in 1..n - 1, Opened(doc, i, n) PROVE Holds(Committed, doc, UsefulBefore(doc, n) \cup new)
    <3>1. enc = Said0(doc, i, n - 1)
      BY <2>2 DEF EncReading
    <3>2. Said0(doc, i, n) = Said0(doc, i, n - 1)
      <4>1. doc[n].name = "EncryptedData" /\ i \in Nat /\ i > 0 /\ i <= n
        BY <1>1, <2>2 DEF EntryTag
      <4>2. QED
        BY <1>1, <4>1, NothingSaid
    <3>3. /\ enc.uri = PathIn(doc, i, n) /\ enc.algorithm = AlgorithmIn(doc, i, n)
          /\ enc.original_length = LengthIn(doc, i, n)
      BY <3>1, <3>2 DEF Said0
    <3>4. \A p \in new : p = <<i, n>>
      <4> SUFFICES ASSUME NEW p \in new PROVE p = <<i, n>>
        OBVIOUS
      <4>1. p[1] \in 1..n /\ Opened(doc, p[1], n) /\ p = <<p[1], n>>
        OBVIOUS
      <4>2. p[1] = i
        BY <1>1, <2>2, <4>1, OneOpened
      <4>3. QED
        BY <4>1, <4>2
    <3>5. <<i, n>> \in new <=> Useful(doc, i, n)
      BY <1>1, <2>2
    <3> HIDE DEF new
    <3>6. CASE Useful(doc, i, n)
      <4>1. new = {<<i, n>>}
        BY <3>4, <3>5, <3>6
      <4>2. Committed = With(encryptions, PathIn(doc, i, n), Info(doc, i, n))
        BY <3>3, <3>6 DEF Useful, Committed, Info, OrElse
      <4> DEFINE p == <<i, n>>
      <4>3. p[1] = i /\ p[2] = n
        OBVIOUS
      <4>4. Committed = With(encryptions, PathIn(doc, p[1], p[2]), Info(doc, p[1], p[2]))
        BY <4>2, <4>3
      <4>5. new = {p}
        BY <4>1
      <4> HIDE DEF p
      <4>6. QED
        BY <1>5, <4>4, <4>5, HoldsMore
    <3>7. CASE ~Useful(doc, i, n)
      <4>1. UsefulBefore(doc, n) \cup new = UsefulBefore(doc, n)
        BY <3>4, <3>5, <3>7
      <4>2. Committed = encryptions
        BY <3>3, <3>7 DEF Useful, Committed
      <4>3. QED
        BY <1>5, <4>1, <4>2
    <3>8. QED
      BY <3>6, <3>7
  <2>3. QED
    BY <2>1, <2>2
<1>7. Holds(encryptions', doc, UsefulBefore(doc, n + 1))
  BY <1>4, <1>6
<1>8. QED
  BY <1>1, <1>2, <1>3, <1>7 DEF EncReading

\* One event of encryption.xml.
LEMMA EncStep ==
    ASSUME NEW doc, NEW S, doc \in Seq(S), EntriesApart(doc), package["encryption"] = doc,
           doc # Absent, stage = "encryption", EncReading(doc, at, enc, encryptions), EncryptionNext
    PROVE  \/ stage' = "encryption" /\ EncReading(doc, at', enc', encryptions')
           \/ stage' = "nav" /\ UNCHANGED encVars /\ EntriesOf(doc) =
                {p \in (1..at - 1) \X (1..at - 1) : Opened(doc, p[1], p[2]) /\ EntryTag(doc, p[2], "end")}
<1>1. at \in Nat \ {0} /\ Len(doc) \in Nat /\ DOMAIN doc = 1..Len(doc) /\ at \in 1..Len(doc) + 1
  BY DEF EncReading
<1> USE DEF Sees, SeesOther, EncTag, Advance, encVars
<1>2. ASSUME Reading("encryption"), Event.ev # "bad"
      PROVE  at \in 1..Len(doc) /\ Event = doc[at] /\ doc[at].ev # "bad"
  BY <1>1, <1>2 DEF Reading, Event
<1>3. ASSUME NEW name \in {"EncryptionMethod", "CipherReference", "Compression"},
             EncTag({name}), Advance, UNCHANGED encryptions,
             \A i \in 1..at : enc = Said0(doc, i, at - 1) => enc' = Said0(doc, i, at)
      PROVE  stage' = "encryption" /\ EncReading(doc, at', enc', encryptions')
  <2>1. at \in 1..Len(doc) /\ Event = doc[at] /\ doc[at].ev # "bad"
    BY <1>2, <1>3
  <2>2. doc[at].ev \in {"start", "empty"} /\ doc[at].name = name
    BY <1>3, <2>1
  <2>3. ~EntryTag(doc, at, "end")
    BY <2>2 DEF EntryTag
  <2>4. EncReading(doc, at + 1, enc', encryptions')
    BY <1>3, <2>1, <2>2, <2>3, EncReadOn
  <2>5. QED
    BY <1>3, <2>4
<1>4. ASSUME NEW i \in 1..at, Reading("encryption"), Event.ev # "bad"
      PROVE  \A name, key : LastWord(doc, i, at, name, key)
               = IF /\ Event.ev \in {"start", "empty"} /\ Event.name = name /\ Attr(key) # Absent
                 THEN Attr(key) ELSE LastWord(doc, i, at - 1, name, key)
  <2> SUFFICES ASSUME NEW name, NEW key
               PROVE  LastWord(doc, i, at, name, key)
               = IF /\ Event.ev \in {"start", "empty"} /\ Event.name = name /\ Attr(key) # Absent
                 THEN Attr(key) ELSE LastWord(doc, i, at - 1, name, key)
    OBVIOUS
  <2>1. Event = doc[at] /\ i \in Nat /\ i > 0 /\ i <= at
    BY <1>1, <1>2, <1>4
  <2>2. Attr(key) = Lookup(doc[at].attr, key) /\ (Attr(key) # Absent => Attr(key) = doc[at].attr[key])
    BY <2>1 DEF Attr, Lookup
  <2>3. LastWord(doc, i, at, name, key)
             = IF /\ doc[at].ev \in {"start", "empty"} /\ doc[at].name = name
                  /\ Lookup(doc[at].attr, key) # Absent
               THEN doc[at].attr[key] ELSE LastWord(doc, i, at - 1, name, key)
    BY <1>1, <2>1, LastWordMore
  <2>4. QED
    BY <2>1, <2>2, <2>3
<1>5. CASE EncryptionMethod
  <2>1. EncTag({"EncryptionMethod"}) /\ Advance /\ UNCHANGED encryptions
          /\ Reading("encryption") /\ Event.ev # "bad" /\ Event.ev \in {"start", "empty"}
          /\ Event.name = "EncryptionMethod"
    BY <1>5 DEF EncryptionMethod
  <2>2. ASSUME NEW i \in 1..at, enc = Said0(doc, i, at - 1) PROVE enc' = Said0(doc, i, at)
    <3>1. enc = [algorithm |-> AlgorithmIn(doc, i, at - 1), original_length |-> LengthIn(doc, i, at - 1),
                 uri |-> PathIn(doc, i, at - 1)]
      BY <2>2 DEF Said0
    <3>2. PathIn(doc, i, at) = PathIn(doc, i, at - 1) /\ LengthIn(doc, i, at) = LengthIn(doc, i, at - 1)
      BY <1>4, <2>1 DEF PathIn, LengthIn
    <3>3. AlgorithmIn(doc, i, at) = IF Attr("Algorithm") = Absent THEN AlgorithmIn(doc, i, at - 1)
                                    ELSE AlgorithmOfUri(Attr("Algorithm"))
      BY <1>4, <2>1 DEF AlgorithmIn
    <3>4. QED
      BY <1>5, <3>1, <3>2, <3>3 DEF EncryptionMethod, Said0
  <2>3. QED
    BY <1>3, <2>1, <2>2
<1>6. CASE CipherReference
  <2>1. EncTag({"CipherReference"}) /\ Advance /\ UNCHANGED encryptions
          /\ Reading("encryption") /\ Event.ev # "bad" /\ Event.ev \in {"start", "empty"}
          /\ Event.name = "CipherReference"
    BY <1>6 DEF CipherReference
  <2>2. ASSUME NEW i \in 1..at, enc = Said0(doc, i, at - 1) PROVE enc' = Said0(doc, i, at)
    <3>1. enc = [algorithm |-> AlgorithmIn(doc, i, at - 1), original_length |-> LengthIn(doc, i, at - 1),
                 uri |-> PathIn(doc, i, at - 1)]
      BY <2>2 DEF Said0
    <3>2. AlgorithmIn(doc, i, at) = AlgorithmIn(doc, i, at - 1)
            /\ LengthIn(doc, i, at) = LengthIn(doc, i, at - 1)
      BY <1>4, <2>1 DEF AlgorithmIn, LengthIn
    <3>3. PathIn(doc, i, at) = IF Attr("URI") = Absent THEN PathIn(doc, i, at - 1) ELSE Attr("URI")
      BY <1>4, <2>1 DEF PathIn
    <3>4. QED
      BY <1>6, <3>1, <3>2, <3>3 DEF CipherReference, Said0
  <2>3. QED
    BY <1>3, <2>1, <2>2
<1>7. CASE Compression
  <2>1. EncTag({"Compression"}) /\ Advance /\ UNCHANGED encryptions
          /\ Reading("encryption") /\ Event.ev # "bad" /\ Event.ev \in {"start", "empty"}
          /\ Event.name = "Compression"
    BY <1>7 DEF Compression
  <2>2. ASSUME NEW i \in 1..at, enc = Said0(doc, i, at - 1) PROVE enc' = Said0(doc, i, at)
    <3>1. enc = [algorithm |-> AlgorithmIn(doc, i, at - 1), original_length |-> LengthIn(doc, i, at - 1),
                 uri |-> PathIn(doc, i, at - 1)]
      BY <2>2 DEF Said0
    <3>2. AlgorithmIn(doc, i, at) = AlgorithmIn(doc, i, at - 1)
            /\ PathIn(doc, i, at) = PathIn(doc, i, at - 1)
      BY <1>4, <2>1 DEF AlgorithmIn, PathIn
    <3>3. LengthIn(doc, i, at) = IF Attr("OriginalLength") = Absent THEN LengthIn(doc, i, at - 1)
                                 ELSE Lookup(LengthOf, Attr("OriginalLength"))
      BY <1>4, <2>1 DEF LengthIn
    <3>4. QED
      BY <1>7, <3>1, <3>2, <3>3 DEF Compression, Said0
  <2>3. QED
    BY <1>3, <2>1, <2>2
<1>8. CASE EncOther
  <2>1. Reading("encryption") /\ Event.ev # "bad" /\ Advance /\ UNCHANGED encVars
    BY <1>8 DEF EncOther
  <2>2. at \in 1..Len(doc) /\ Event = doc[at] /\ doc[at].ev # "bad"
    BY <1>2, <2>1
  <2>3. ~EntryTag(doc, at, "end")
    BY <1>8, <2>2 DEF EncOther, EntryTag
  <2>4. ~(/\ doc[at].ev \in {"start", "empty"}
          /\ doc[at].name \in {"EncryptionMethod", "CipherReference", "Compression"})
    BY <1>8, <2>2 DEF EncOther
  <2>5. \A i \in 1..at : Said0(doc, i, at) = Said0(doc, i, at - 1)
    BY <1>1, <2>4, NothingSaid
  <2>6. enc' = enc /\ encryptions' = encryptions
    BY <2>1
  <2>7. \A i \in 1..at : Opened(doc, i, at + 1) /\ i # at =>
           (enc = Said0(doc, i, at - 1) => enc' = Said0(doc, i, at))
    BY <2>5, <2>6
  <2>8. EncReading(doc, at + 1, enc', encryptions')
    BY <2>2, <2>3, <2>6, <2>7, EncReadOn
  <2>9. QED
    BY <2>1, <2>8
<1>9. CASE EndEncryptedData
  <2>1. Reading("encryption") /\ Event.ev = "end" /\ Event.name = "EncryptedData" /\ Advance
          /\ encryptions' = Committed /\ enc' = EmptyEnc
    BY <1>9 DEF EndEncryptedData
  <2>2. at \in 1..Len(doc) /\ Event = doc[at] /\ doc[at].ev # "bad"
    BY <1>2, <2>1
  <2>3. EntryTag(doc, at, "end")
    BY <2>1, <2>2 DEF EntryTag
  <2>4. EncReading(doc, at + 1, enc', encryptions')
    BY <2>1, <2>2, <2>3, EncEnds
  <2>5. QED
    BY <2>1, <2>4
<1>10. CASE EncryptionRead
  <2>1. stage' = "nav" /\ UNCHANGED encVars
    BY <1>10 DEF EncryptionRead, GoTo
  <2>2. at = Len(doc) + 1 \/ (at \in 1..Len(doc) /\ doc[at].ev = "bad")
    BY <1>1, <1>10 DEF EncryptionRead, AtEof, Missing, Reading, Event
  <2>3. Sound(doc) = 1..at - 1
    <3>1. \A j \in 1..at - 1 : doc[j].ev # "bad"
      BY DEF EncReading
    <3>2. \A i \in 1..at - 1 : i \in DOMAIN doc /\ 1..i \subseteq 1..at - 1
      BY <1>1
    <3>3. \A i \in DOMAIN doc : i >= at => at \in 1..i /\ at \in 1..Len(doc)
      BY <1>1
    <3>4. \A i \in DOMAIN doc : i >= at \/ i \in 1..at - 1
      BY <1>1
    <3>5. \A i \in DOMAIN doc : i >= at => doc[at].ev = "bad"
      BY <1>1, <2>2, <3>3
    <3>6. QED
      BY <3>1, <3>2, <3>3, <3>4, <3>5 DEF Sound
  <2>4. QED
    BY <2>1, <2>3 DEF EntriesOf
<1>11. QED
  BY <1>5, <1>6, <1>7, <1>8, <1>9, <1>10 DEF EncryptionNext
\* A fresh start of encryption.xml.
LEMMA EncStarts ==
    ASSUME NEW doc, NEW S, doc \in Seq(S)
    PROVE  EncReading(doc, 1, EmptyEnc, << >>)
<1>1. 1..1 - 1 = {} /\ 1 \in 1..Len(doc) + 1
  OBVIOUS
<1>2. UsefulBefore(doc, 1) = {}
  BY <1>1 DEF UsefulBefore
<1>3. Holds(<< >>, doc, {})
  BY DEF Holds
<1>4. QED
  BY <1>1, <1>2, <1>3 DEF EncReading

LEMMA EncInvInit ==
    ASSUME Init
    PROVE  EncInv
BY DEF Init, EncInv, Stages, EncryptionOwn

LEMMA EncInvStep ==
    ASSUME \A p \in Packages : p["encryption"] # Absent => EntriesApart(p["encryption"]),
           EncInv, [Next]_vars
    PROVE  EncInv'
<1> DEFINE doc == package["encryption"]
           final == {"nav", "ncx", "overlay", "smil", "done"}
<1>1. doc = Absent \/ (EntriesApart(doc) /\ \E S : doc \in Seq(S))
  BY PackagesAssumption DEF EncInv
<1>2. /\ package \in Packages /\ stage \in Stages
      /\ stage \in {"container", "opf"} => enc = EmptyEnc /\ encryptions = << >>
      /\ stage = "encryption" /\ doc # Absent => EncReading(doc, at, enc, encryptions)
      /\ EncryptionOwn
  BY DEF EncInv
\* Where encryption.xml is not read.
<1>3. ASSUME UNCHANGED <<package, encVars>>, stage' \in Stages,
             stage' \in {"container", "opf"} => stage \in {"container", "opf"},
             stage' = "encryption" => (stage = "encryption" /\ at' = at) \/ (stage = "opf" /\ at' = 1),
             stage' \in final => stage \in final
      PROVE  EncInv'
  <2>1. package' = package /\ enc' = enc /\ encryptions' = encryptions /\ doc' = doc
    BY <1>3 DEF encVars
  <2>2. EncryptionOwn'
    BY <1>2, <1>3, <2>1 DEF EncryptionOwn
  <2>3. stage' = "encryption" /\ doc # Absent => EncReading(doc, at', enc, encryptions)
    BY <1>1, <1>2, <1>3, EncStarts
  <2>4. stage' \in {"container", "opf"} => enc = EmptyEnc /\ encryptions = << >>
    BY <1>2, <1>3
  <2>5. QED
    BY <1>2, <1>3, <2>1, <2>2, <2>3, <2>4 DEF EncInv
<1>4. CASE ReadOpf
  <2>1. CASE ContainerNext
    BY <1>2, <1>3, <1>4, <2>1, ContainerStep DEF Stages, encVars
  <2>2. CASE OpfNext
    <3>1. stage = "opf" /\ UNCHANGED <<package, encVars>>
      BY <1>4, <2>2, OpfStep DEF encVars
    <3>2. \/ stage' \in {"opf", "failed"}
          \/ stage' = "encryption" /\ at' = 1
      BY <1>4, <2>2, OpfStep DEF OpfRead, GoTo
    <3>3. QED
      BY <1>3, <3>1, <3>2 DEF Stages
  <2>3. QED
    BY <1>4, <2>1, <2>2 DEF ReadOpf
<1>5. CASE GetNavigation
  BY <1>2, <1>3, <1>5, NavigationStep DEF Stages, encVars
<1>6. CASE ReadOverlay
  BY <1>2, <1>3, <1>6, OverlayStep DEF Stages, encVars
<1>7. CASE UNCHANGED vars
  BY <1>2, <1>3, <1>7 DEF vars, reader, encVars
<1>8. CASE ReadEncryption
  <2>1. /\ stage = "encryption" /\ stage' \in {"encryption", "nav"} /\ package' = package
        /\ EncryptionNext
    BY <1>8, EncryptionStep DEF ReadEncryption
  <2>2. stage' \in Stages /\ stage' \notin {"container", "opf"}
    BY <2>1 DEF Stages
  <2>3. CASE doc = Absent
    BY <1>2, <2>1, <2>2, <2>3 DEF EncInv, EncryptionOwn
  <2>4. CASE doc # Absent
    <3>1. PICK S : doc \in Seq(S)
      BY <1>1, <2>4
    <3>2. EntriesApart(doc) /\ EncReading(doc, at, enc, encryptions)
      BY <1>1, <1>2, <2>1, <2>4
    <3> DEFINE before == {p \in (1..at - 1) \X (1..at - 1) :
                            Opened(doc, p[1], p[2]) /\ EntryTag(doc, p[2], "end")}
    <3>3. \/ stage' = "encryption" /\ EncReading(doc, at', enc', encryptions')
          \/ stage' = "nav" /\ UNCHANGED encVars /\ EntriesOf(doc) = before
      BY <2>1, <2>4, <3>1, <3>2, EncStep
    <3>4. CASE stage' = "encryption"
      BY <1>2, <2>1, <2>2, <3>3, <3>4 DEF EncInv, EncryptionOwn
    <3>5. CASE stage' = "nav"
      <4>1. UNCHANGED encVars /\ EntriesOf(doc) = before
        BY <3>3, <3>5
      <4>2. {p \in EntriesOf(doc) : Useful(doc, p[1], p[2])} = UsefulBefore(doc, at)
        BY <4>1 DEF UsefulBefore
      <4>3. Holds(encryptions, doc, UsefulBefore(doc, at))
        BY <3>2 DEF EncReading
      <4>4. encryptions' = encryptions /\ doc' = doc
        BY <2>1, <4>1 DEF encVars
      <4>5. EncryptionOwn'
        <5> DEFINE useful == {p \in EntriesOf(doc) : Useful(doc, p[1], p[2])}
        <5>1. Holds(encryptions', doc, useful) /\ doc' = doc
          BY <4>2, <4>3, <4>4
        <5> HIDE DEF useful
        <5>2. /\ DOMAIN encryptions' = {PathIn(doc, p[1], p[2]) : p \in useful}
              /\ \A uri \in DOMAIN encryptions' :
                   \E p \in useful : /\ PathIn(doc, p[1], p[2]) = uri
                                    /\ encryptions'[uri] = Info(doc, p[1], p[2])
          BY <5>1 DEF Holds
        <5> USE DEF useful
        <5>3. QED
          BY <5>1, <5>2, ZenonT(60) DEF EncryptionOwn, Info
      <4>6. QED
        BY <1>2, <2>1, <2>2, <3>5, <4>5 DEF EncInv
    <3>6. QED
      BY <2>1, <3>4, <3>5
  <2>5. QED
    BY <2>3, <2>4
<1>9. QED
  BY <1>4, <1>5, <1>6, <1>7, <1>8 DEF Next

\* Every resource named in encryption.xml gets the algorithm and the length of
\* an entry of its own, and no useful entry is lost, if entries are not nested
\* and hold all that is said of a resource.
THEOREM EncryptionKept ==
    ASSUME \A p \in Packages : p["encryption"] # Absent => EntriesApart(p["encryption"])
    PROVE  Spec => []EncryptionOwn
<1>1. Init => EncInv
  BY EncInvInit
<1>2. EncInv /\ [Next]_vars => EncInv'
  BY EncInvStep
<1>3. EncInv => EncryptionOwn
  BY DEF EncInv
<1>4. QED
  BY <1>1, <1>2, <1>3, PTL DEF Spec

-----------------------------------------------------------------------------
(***************************************************************************)
(* The package document                                                     *)
(***************************************************************************)
\* The ranks of a finite set of positions count it through, in its order.
LEMMA RankCounts ==
    ASSUME NEW S \in SUBSET Nat, IsFiniteSet(S)
    PROVE  /\ Cardinality(S) \in Nat
           /\ \A i \in S : Rank(S, i) \in 1..Cardinality(S)
           /\ \A i, j \in S : i < j => Rank(S, i) < Rank(S, j)
           /\ \A p \in 1..Cardinality(S) : \E i \in S : Rank(S, i) = p
<1> DEFINE n == Cardinality(S)
           Upto(i) == {j \in S : j <= i}
           rank == [i \in S |-> Rank(S, i)]
<1>1. n \in Nat
  BY FS_CardinalityType
<1>2. ASSUME NEW i \in S PROVE Rank(S, i) \in 1..n
  <2>1. IsFiniteSet(Upto(i)) /\ Cardinality(Upto(i)) <= n
    BY FS_Subset
  <2>2. Cardinality(Upto(i)) \in Nat
    BY <2>1, FS_CardinalityType
  <2>3. Cardinality(Upto(i)) # 0
    <3>1. i \in Upto(i)
      OBVIOUS
    <3>2. QED
      BY <2>1, <3>1, FS_EmptySet
  <2>4. QED
    BY <1>1, <2>1, <2>2, <2>3 DEF Rank
<1>3. ASSUME NEW i \in S, NEW j \in S, i < j PROVE Rank(S, i) < Rank(S, j)
  <2>1. IsFiniteSet(Upto(j))
    BY FS_Subset
  <2>2. Upto(i) \in SUBSET Upto(j) /\ Upto(i) # Upto(j)
    <3>1. j \in Upto(j) /\ j \notin Upto(i)
      BY <1>3
    <3>2. Upto(i) \subseteq Upto(j)
      <4>1. i \in Nat /\ j \in Nat
        OBVIOUS
      <4>2. \A k \in S : k \in Nat /\ (k <= i => k <= j)
        BY <1>3, <4>1
      <4>3. QED
        BY <4>2
    <3>3. QED
      BY <3>1, <3>2
  <2>3. Cardinality(Upto(i)) <= Cardinality(Upto(j)) /\ Cardinality(Upto(i)) # Cardinality(Upto(j))
    BY <2>1, <2>2, FS_Subset
  <2>4. Rank(S, i) <= Rank(S, j) /\ Rank(S, i) # Rank(S, j)
    BY <2>3 DEF Rank
  <2>5. Rank(S, i) \in Nat /\ Rank(S, j) \in Nat
    BY <1>1, <1>2
  <2>6. QED
    BY <2>4, <2>5
<1>4. rank \in Injection(S, 1..n)
  <2>1. rank \in [S -> 1..n]
    BY <1>2
  <2>2. ASSUME NEW i \in S, NEW j \in S, rank[i] = rank[j] PROVE i = j
    <3>1. ~(i < j) /\ ~(j < i)
      BY <1>1, <1>2, <1>3, <2>2
    <3>2. QED
      BY <3>1
  <2>3. QED
    BY <2>1, <2>2 DEF Injection, IsInjective
<1>5. IsFiniteSet(1..n) /\ Cardinality(1..n) = n
  BY <1>1, FS_Interval
<1>6. rank \in Surjection(S, 1..n)
  BY <1>4, <1>5, FS_Injection
<1>7. ASSUME NEW p \in 1..n PROVE \E i \in S : Rank(S, i) = p
  BY <1>6 DEF Surjection
<1>8. QED
  BY <1>1, <1>2, <1>3, <1>7

\* A list holds what a function says of the positions of a set, in their order.
Listed(list, S, f) ==
    /\ \E V : list \in Seq(V)
    /\ S \in SUBSET Nat /\ IsFiniteSet(S)
    /\ Len(list) = Cardinality(S)
    /\ \A i \in S : list[Rank(S, i)] = f[i]

LEMMA ListedNone ==
    ASSUME NEW f
    PROVE  Listed(<< >>, {}, f)
<1>1. << >> \in Seq({}) /\ Len(<< >>) = 0
  OBVIOUS
<1>2. IsFiniteSet({}) /\ Cardinality({}) = 0
  BY FS_EmptySet
<1>3. QED
  BY <1>1, <1>2 DEF Listed

\* One more at the end.
LEMMA RankMore ==
    ASSUME NEW S \in SUBSET Nat, IsFiniteSet(S), NEW n \in Nat, \A i \in S : i < n
    PROVE  /\ IsFiniteSet(S \cup {n}) /\ Cardinality(S \cup {n}) = Cardinality(S) + 1
           /\ Rank(S \cup {n}, n) = Cardinality(S) + 1
           /\ \A i \in S : Rank(S \cup {n}, i) = Rank(S, i)
<1> DEFINE more == S \cup {n}
<1>1. n \notin S
  OBVIOUS
<1>2. IsFiniteSet(more) /\ Cardinality(more) = Cardinality(S) + 1
  BY <1>1, FS_AddElement
<1>3. ASSUME NEW i \in S PROVE Rank(more, i) = Rank(S, i)
  <2>1. {j \in more : j <= i} = {j \in S : j <= i}
    BY <1>1
  <2>2. QED
    BY <2>1 DEF Rank
<1>4. Rank(more, n) = Cardinality(S) + 1
  <2>1. \A j \in more : j <= n
    OBVIOUS
  <2> HIDE DEF more
  <2>2. {j \in more : j <= n} = more
    BY <2>1
  <2>3. QED
    BY <1>2, <2>2 DEF Rank
<1>5. QED
  BY <1>2, <1>3, <1>4

LEMMA ListedMore ==
    ASSUME NEW list, NEW S, NEW f, Listed(list, S, f), NEW n \in Nat, \A i \in S : i < n
    PROVE  Listed(Append(list, f[n]), S \cup {n}, f)
<1> DEFINE longer == Append(list, f[n])
           more == S \cup {n}
<1>1. PICK V : list \in Seq(V)
  BY DEF Listed
<1>2. S \in SUBSET Nat /\ IsFiniteSet(S) /\ Len(list) = Cardinality(S)
        /\ \A i \in S : list[Rank(S, i)] = f[i]
  BY DEF Listed
<1>3. /\ IsFiniteSet(more) /\ more \in SUBSET Nat /\ Cardinality(more) = Cardinality(S) + 1
      /\ Rank(more, n) = Cardinality(S) + 1 /\ \A i \in S : Rank(more, i) = Rank(S, i)
  BY <1>2, RankMore
<1>4. longer \in Seq(V \cup {f[n]}) /\ Len(longer) = Len(list) + 1 /\ longer[Len(list) + 1] = f[n]
        /\ \A p \in 1..Len(list) : longer[p] = list[p]
  <2>1. list \in Seq(V \cup {f[n]})
    BY <1>1
  <2>2. QED
    BY <2>1
<1>5. \A i \in S : Rank(S, i) \in 1..Len(list)
  BY <1>2, RankCounts
<1> HIDE DEF longer
<1>6. \A i \in more : longer[Rank(more, i)] = f[i]
  BY <1>2, <1>3, <1>4, <1>5
<1> HIDE DEF more
<1>7. Listed(longer, more, f)
  <2>1. \E V0 : longer \in Seq(V0)
    BY <1>4
  <2>2. Len(longer) = Cardinality(more)
    BY <1>2, <1>3, <1>4
  <2>3. QED
    BY <1>3, <1>6, <2>1, <2>2 DEF Listed
<1>8. QED
  BY <1>7 DEF longer, more

\* Q holds the places, among the positions of S, of those in P.
PlacesOf(S, P, Q) ==
    /\ S \in SUBSET Nat /\ IsFiniteSet(S) /\ P \in SUBSET S /\ Q \in SUBSET (1..Cardinality(S))
    /\ \A i \in S : Rank(S, i) \in Q <=> i \in P

\* The first of the places of some positions is the place of the first of them.
LEMMA FirstListed ==
    ASSUME NEW S, NEW P, NEW Q, PlacesOf(S, P, Q)
    PROVE  /\ P = {} <=> Q = {}
           /\ P # {} => First(P) \in P /\ First(Q) \in Q /\ First(Q) = Rank(S, First(P))
<1>0. /\ S \in SUBSET Nat /\ IsFiniteSet(S) /\ P \in SUBSET S /\ Q \in SUBSET (1..Cardinality(S))
      /\ \A i \in S : Rank(S, i) \in Q <=> i \in P
  BY DEF PlacesOf
<1> USE <1>0
<1>1. /\ Cardinality(S) \in Nat
      /\ \A i \in S : Rank(S, i) \in 1..Cardinality(S)
      /\ \A i, j \in S : i < j => Rank(S, i) < Rank(S, j)
      /\ \A p \in 1..Cardinality(S) : \E i \in S : Rank(S, i) = p
  BY RankCounts
<1>2. \A q \in Q : \E i \in P : Rank(S, i) = q
  BY <1>1
<1> DEFINE n == Cardinality(S)
<1>n. /\ \A q \in 1..n : q \in Nat
      /\ \A i \in S : i \in Nat
      /\ \A i, j \in S : i <= j => i < j \/ i = j
  BY <1>1
<1>3. P = {} <=> Q = {}
  BY <1>2
<1>4. ASSUME P # {} PROVE First(P) \in P /\ First(Q) \in Q /\ First(Q) = Rank(S, First(P))
  <2>1. \E i \in P : \A j \in P : i <= j
    BY <1>4, LeastNumber
  <2>2. First(P) \in P /\ \A j \in P : First(P) <= j
    BY <2>1 DEF First
  <2> DEFINE r == Rank(S, First(P))
  <2>3. r \in Q
    BY <2>2
  <2>4. \A q \in Q : r <= q
    <3> SUFFICES ASSUME NEW q \in Q PROVE r <= q
      OBVIOUS
    <3>1. PICK i \in P : Rank(S, i) = q
      BY <1>2
    <3>2. First(P) = i \/ First(P) < i
      BY <1>n, <2>2
    <3>3. r = q \/ r < q
      BY <1>1, <2>2, <3>1, <3>2
    <3>4. r \in Nat /\ q \in Nat
      BY <1>n, <2>3
    <3>5. QED
      BY <3>3, <3>4
  <2>5. First(Q) \in Q /\ \A q \in Q : First(Q) <= q
    <3>1. \E i \in Q : \A j \in Q : i <= j
      BY <2>3, <2>4
    <3>2. QED
      BY <3>1 DEF First
  <2>6. First(Q) = r
    <3>1. First(Q) <= r /\ r <= First(Q) /\ r \in Nat /\ First(Q) \in Nat
      BY <1>n, <2>3, <2>4, <2>5
    <3>2. QED
      BY <3>1
  <2>7. QED
    BY <2>2, <2>5, <2>6
<1>5. QED
  BY <1>3, <1>4

-----------------------------------------------------------------------------
\* What the refinements collected say of an id.
RefinedIn(refs, id, property) ==
    IF id \in DOMAIN refs THEN Lookup(refs[id], property) ELSE Absent

\* A refinement stored is found, and hides no other one.
LEMMA StoredIds ==
    ASSUME NEW refs, NEW id, NEW property, NEW value, NEW i
    PROVE  i \in DOMAIN StoreRefinement(refs, id, property, value) <=> i \in DOMAIN refs \/ i = id
BY DEF StoreRefinement, With
LEMMA Stored ==
    ASSUME NEW refs, NEW id, NEW property, NEW value, NEW i, NEW q
    PROVE  RefinedIn(StoreRefinement(refs, id, property, value), i, q) =
             IF i = id /\ q = property THEN value ELSE RefinedIn(refs, i, q)
<1> DEFINE new == StoreRefinement(refs, id, property, value)
           old == IF id \in DOMAIN refs THEN refs[id] ELSE << >>
           inner == With(old, property, value)
<1>1. /\ DOMAIN inner = DOMAIN old \cup {property} /\ inner[property] = value
      /\ \A p \in DOMAIN old : p # property => inner[p] = old[p]
  BY DEF With
<1>2. id \notin DOMAIN refs => DOMAIN old = {}
  OBVIOUS
<1>3. Lookup(inner, q) = IF q = property THEN value ELSE RefinedIn(refs, id, q)
  BY <1>1, <1>2 DEF Lookup, RefinedIn
<1> HIDE DEF inner
<1>4. /\ DOMAIN new = DOMAIN refs \cup {id} /\ new[id] = inner
      /\ \A p \in DOMAIN refs : p # id => new[p] = refs[p]
  BY DEF StoreRefinement, With, inner
<1> HIDE DEF new, old
<1>5. RefinedIn(new, i, q) = IF i = id /\ q = property THEN value ELSE RefinedIn(refs, i, q)
  BY <1>3, <1>4 DEF RefinedIn
<1>6. QED
  BY <1>5 DEF new

\* The state that an event leaves the parser in.
StateOf(e) ==
    LET Key(k) == Lookup(e.attr, k) IN
    IF e.ev # "start" THEN NoOpfState
    ELSE IF e.name = "title"
    THEN OpfState(IF Key("title-type") = "subtitle" THEN "Subtitle" ELSE "Title")
    ELSE IF e.name \in {"creator", "contributor"}
    THEN [OpfState("Creator") EXCEPT !.id = Key("id")]
    ELSE IF e.name = "identifier"
    THEN [OpfState("Identifier") EXCEPT !.id = Key("id"), !.scheme = Key("scheme")]
    ELSE IF e.name = "date"
    THEN OpfState(IF Key("event") = "modification" THEN "modified" ELSE "date")
    ELSE IF e.name \in SimpleNames THEN OpfState(e.name)
    ELSE IF e.name = "meta" /\ Key("property") # Absent /\ Key("refines") # Absent
    THEN [OpfState("MetaRefines") EXCEPT !.ref_id = Key("refines"), !.property = Key("property"),
                                         !.id = Key("id")]
    ELSE IF e.name = "meta" /\ Key("property") # Absent
    THEN [OpfState("MetaGlobal") EXCEPT !.property = Key("property"), !.id = Key("id")]
    ELSE NoOpfState
Refining(e) == /\ e.name = "meta" /\ Lookup(e.attr, "property") # Absent
               /\ Lookup(e.attr, "refines") # Absent
Global(e) == /\ e.name = "meta" /\ Lookup(e.attr, "property") # Absent
             /\ Lookup(e.attr, "refines") = Absent

\* Which state belongs to which element.
LEMMA StateKinds ==
    ASSUME NEW e
    PROVE  /\ StateOf(e).kind \in {"Title", "Subtitle"} <=> e.ev = "start" /\ e.name = "title"
           /\ StateOf(e).kind = "Subtitle" =>  Lookup(e.attr, "title-type") = "subtitle"
           /\ StateOf(e).kind = "Title" =>  Lookup(e.attr, "title-type") # "subtitle"
           /\ StateOf(e).kind = "Creator" <=> e.ev = "start" /\ e.name \in {"creator", "contributor"}
           /\ StateOf(e).kind = "Identifier" <=> e.ev = "start" /\ e.name = "identifier"
           /\ StateOf(e).kind = "MetaRefines" <=> e.ev = "start" /\ Refining(e)
           /\ StateOf(e).kind = "MetaGlobal" <=> e.ev = "start" /\ Global(e)
           /\ StateOf(e).kind = "None" => StateOf(e) = NoOpfState
           /\ StateOf(e).kind \in {"Creator", "Identifier", "MetaRefines", "MetaGlobal"} =>
                StateOf(e).id = Lookup(e.attr, "id")
           /\ StateOf(e).kind = "Identifier" => StateOf(e).scheme = Lookup(e.attr, "scheme")
           /\ StateOf(e).kind \in {"MetaRefines", "MetaGlobal"} =>
                /\ StateOf(e).property = Lookup(e.attr, "property")
                /\ StateOf(e).ref_id = Lookup(e.attr, "refines")
<1> USE DEF StateOf, OpfState, NoOpfState, SimpleNames, Refining, Global
<1>1. CASE e.ev # "start"
  BY <1>1
<1>2. CASE e.ev = "start" /\ e.name = "title"
  BY <1>2
<1>3. CASE e.ev = "start" /\ e.name \in {"creator", "contributor"}
  BY <1>3
<1>4. CASE e.ev = "start" /\ e.name = "identifier"
  BY <1>4
<1>5. CASE e.ev = "start" /\ e.name = "date"
  BY <1>5
<1>6. CASE e.ev = "start" /\ e.name \in SimpleNames
  BY <1>6
<1>7. CASE e.ev = "start" /\ Refining(e)
  BY <1>7
<1>8. CASE e.ev = "start" /\ Global(e)
  BY <1>8
<1>9. CASE /\ e.ev = "start" /\ ~Refining(e) /\ ~Global(e)
           /\ e.name \notin {"title", "creator", "contributor", "identifier", "date"} \cup SimpleNames
  BY <1>9
<1>10. QED
  BY <1>1, <1>2, <1>3, <1>4, <1>5, <1>6, <1>7, <1>8, <1>9

\* The locals and the book have their fields.
IsOpf(o) == o = [field \in DOMAIN EmptyOpf |-> o[field]] /\ o.in_metadata \in BOOLEAN
IsBook(b) == b = [field \in DOMAIN EmptyBook |-> b[field]]
\* What is collected from texts only.
Collected(o, b) == <<o.raw_titles, o.creator_id_to_idx, o.pending_collections, o.mo_meta,
                     o.raw_a11y, o.raw_identifiers, b.creators, b.media_overlays>>

\* What a start tag does, whatever the element.
LEMMA StartEffect ==
    ASSUME IsOpf(opf), IsBook(book), opf.state = NoOpfState, OpfStartNext
    PROVE  /\ Event.ev = "start" /\ Reading("opf") /\ Advance /\ IsOpf(opf') /\ IsBook(book')
           /\ opf'.state = StateOf(Event)
           /\ opf'.in_metadata <=> opf.in_metadata \/ Event.name = "metadata"
           /\ Event.name = "title" => opf'.title_id = Lookup(Event.attr, "id")
           /\ opf'.unique_id_ref =
                IF Event.name = "package" /\ Lookup(Event.attr, "unique-identifier") # Absent
                THEN Lookup(Event.attr, "unique-identifier") ELSE opf.unique_id_ref
           /\ opf'.refinements =
                IF /\ Refining(Event) /\ Lookup(Event.attr, "scheme") # Absent
                   /\ Lookup(Event.attr, "property").local = "identifier-type"
                THEN StoreRefinement(opf.refinements, Lookup(Event.attr, "refines"),
                                     "identifier-type-scheme", Lookup(Event.attr, "scheme"))
                ELSE opf.refinements
           /\ Collected(opf, book)' = Collected(opf, book)
<1> USE DEF IsOpf, IsBook, EmptyOpf, EmptyBook, OpfStart, Sees, SeesOther, Attr, Lookup, Becomes,
            StateOf, Refining, Collected, SimpleNames, opfVars
<1>1. CASE StartMetadata
  BY <1>1 DEF StartMetadata
<1>2. CASE StartPackage
  BY <1>2 DEF StartPackage
<1>3. CASE StartSpine
  BY <1>3 DEF StartSpine
<1>4. CASE StartTitle
  BY <1>4 DEF StartTitle
<1>5. CASE StartAgent
  BY <1>5 DEF StartAgent
<1>6. CASE StartIdentifier
  BY <1>6 DEF StartIdentifier
<1>7. CASE StartDate
  BY <1>7 DEF StartDate
<1>8. CASE StartSimple
  BY <1>8 DEF StartSimple
<1>9. CASE StartRefiningMeta
  BY <1>9 DEF StartRefiningMeta
<1>10. CASE StartGlobalMeta
  BY <1>10 DEF StartGlobalMeta
<1>11. CASE StartNamedMeta
  BY <1>11 DEF StartNamedMeta
<1>12. CASE StartOther
  BY <1>12 DEF StartOther
<1>13. QED
  BY <1>1, <1>2, <1>3, <1>4, <1>5, <1>6, <1>7, <1>8, <1>9, <1>10, <1>11, <1>12 DEF OpfStartNext

\* What a piece of text does, by the state it finds.
OverlayKnown(o) == o.mo_meta = Absent \/ "durations" \in DOMAIN o.mo_meta
LEMMA TextEffect ==
    ASSUME IsOpf(opf), IsBook(book), OverlayKnown(opf), OpfTextNext,
           NEW e, opf.state = StateOf(e), 
           Event.ev = "text" /\ opf.state # NoOpfState => opf.in_metadata,
           Event.ev = "ref" => opf.state = NoOpfState
    PROVE  LET s == opf.state IN
           /\ Event.ev \in {"text", "ref"} /\ Reading("opf") /\ Advance
           /\ s # NoOpfState => Event.ev = "text"
           /\ IsOpf(opf') /\ IsBook(book') /\ OverlayKnown(opf')
           /\ opf'.state = NoOpfState /\ opf'.in_metadata = opf.in_metadata
           /\ opf'.unique_id_ref = opf.unique_id_ref /\ book'.media_overlays = book.media_overlays
           /\ opf'.raw_titles =
                IF s.kind \in {"Title", "Subtitle"}
                THEN Append(opf.raw_titles, [id |-> opf.title_id, text |-> Text,
                                             epub2_subtitle |-> s.kind = "Subtitle"])
                ELSE opf.raw_titles
           /\ opf'.raw_identifiers =
                IF s.kind = "Identifier"
                THEN Append(opf.raw_identifiers, [id |-> s.id, scheme |-> s.scheme, value |-> Text])
                ELSE opf.raw_identifiers
           /\ book'.creators =
                IF s.kind = "Creator"
                THEN Append(book.creators, [name |-> Text, role |-> Absent, file_as |-> Absent])
                ELSE book.creators
           /\ opf'.creator_id_to_idx =
                IF s.kind = "Creator" /\ s.id # Absent
                THEN With(opf.creator_id_to_idx, s.id, Len(book.creators) + 1)
                ELSE opf.creator_id_to_idx
           /\ opf'.refinements =
                IF s.kind = "MetaRefines" /\ ~IsA11y(s.property)
                THEN StoreRefinement(opf.refinements, s.ref_id, s.property.local, Text)
                ELSE opf.refinements
           /\ opf'.raw_a11y =
                IF s.kind \in {"MetaRefines", "MetaGlobal"} /\ IsA11y(s.property)
                THEN Append(opf.raw_a11y, [property |-> s.property.local, value |-> Text,
                                           id |-> s.id, refines |-> s.ref_id])
                ELSE opf.raw_a11y
           /\ opf'.pending_collections =
                IF /\ s.kind = "MetaGlobal" /\ ~IsA11y(s.property) /\ s.id # Absent
                   /\ s.property.local = "belongs-to-collection"
                THEN Append(opf.pending_collections, <<s.id, Text>>)
                ELSE opf.pending_collections
<1>1. /\ opf.state.kind = "None" => opf.state = NoOpfState
      /\ opf.state.kind = "MetaGlobal" => opf.state.ref_id = Absent
  BY StateKinds DEF Global
<1>2. NoOpfState.kind = "None"
  BY DEF NoOpfState, OpfState
<1> USE DEF IsOpf, IsBook, OverlayKnown, EmptyOpf, EmptyBook, Texts, Spend
<1>3. CASE TitleText
  BY <1>1, <1>2, <1>3 DEF TitleText
<1>4. CASE CreatorText
  BY <1>1, <1>2, <1>4 DEF CreatorText
<1>5. CASE IdentifierText
  BY <1>1, <1>2, <1>5 DEF IdentifierText
<1>6. CASE SimpleText
  BY <1>1, <1>2, <1>6 DEF SimpleText
<1>7. CASE RefinesText
  BY <1>1, <1>2, <1>7 DEF RefinesText, A11yMeta
<1>8. CASE GlobalA11yText
  BY <1>1, <1>2, <1>8 DEF GlobalA11yText, A11yMeta
<1>9. CASE GlobalText
  <2> DEFINE p == opf.state.property.local
  <2> USE <1>1, <1>2, <1>9 DEF GlobalText, OverlayMeta, NoOverlayMeta
  <2>1. CASE p = "belongs-to-collection"
    BY <2>1
  <2>2. CASE p = "media:duration"
    BY <2>2
  <2>3. CASE p = "media:narrator"
    BY <2>3
  <2>4. CASE p = "media:active-class"
    BY <2>4
  <2>5. CASE p = "media:playback-active-class"
    BY <2>5
  <2>6. CASE p \notin {"belongs-to-collection", "media:duration", "media:narrator",
                      "media:active-class", "media:playback-active-class"}
    BY <2>6
  <2>7. QED
    BY <2>1, <2>2, <2>3, <2>4, <2>5, <2>6
<1>10. CASE StrayText
  BY <1>1, <1>2, <1>10 DEF StrayText
<1>11. CASE TextIgnored
  BY <1>1, <1>2, <1>11 DEF TextIgnored, opfVars
<1>12. QED
  BY <1>3, <1>4, <1>5, <1>6, <1>7, <1>8, <1>9, <1>10, <1>11 DEF OpfTextNext

LEMMA EmptyEffect ==
    ASSUME IsBook(book), EmptyMeta \/ EmptyItem \/ EmptyItemref \/ EmptyReference \/ EmptyOther
    PROVE  /\ Event.ev = "empty" /\ Reading("opf") /\ Advance /\ opf' = opf /\ IsBook(book')
           /\ book'.creators = book.creators /\ book'.media_overlays = book.media_overlays
<1> USE DEF IsBook, EmptyBook, OpfEmpty, Sees, SeesOther, opfVars
<1>1. CASE EmptyMeta
  BY <1>1 DEF EmptyMeta
<1>2. CASE EmptyItem
  BY <1>2 DEF EmptyItem
<1>3. CASE EmptyItemref
  BY <1>3 DEF EmptyItemref
<1>4. CASE EmptyReference
  BY <1>4 DEF EmptyReference
<1>5. CASE EmptyOther
  BY <1>5 DEF EmptyOther
<1>6. QED
  BY <1>1, <1>2, <1>3, <1>4, <1>5

\* The metadata element is open before event n.
InMetadata(doc, n) ==
    \E m \in 1..n - 1 :
      /\ doc[m].ev = "start" /\ doc[m].name = "metadata"
      /\ \A k \in m + 1 .. n - 1 : ~(doc[k].ev = "end" /\ doc[k].name = "metadata")
\* What the parser collects stands in the metadata, each with its text first,
\* ids of creators are their own, and the name that the parser files schemes
\* under is not used.
MetadataRegular(doc) ==
    /\ \A i \in DOMAIN doc : StateOf(doc[i]) # NoOpfState =>
         /\ InMetadata(doc, i)
         /\ i < Len(doc) => doc[i + 1].ev \in {"text", "end", "bad"}
    /\ \A i, j \in DOMAIN doc :
         /\ StateOf(doc[i]).kind = "Creator" /\ StateOf(doc[j]).kind = "Creator"
         /\ StateOf(doc[i]).id # Absent /\ StateOf(doc[i]).id = StateOf(doc[j]).id
         => i = j
    /\ \A i \in DOMAIN doc :
         doc[i].ev = "start" /\ Refining(doc[i]) =>
            Lookup(doc[i].attr, "property").local # "identifier-type-scheme"

\* Where the parser is before event n.
OpfNow(doc, n, o, b) ==
    /\ n \in 1..Len(doc) + 1
    /\ \A j \in 1..n - 1 : doc[j].ev # "bad"
    /\ IsOpf(o) /\ IsBook(b) /\ OverlayKnown(o) /\ b.media_overlays = Absent
    /\ o.state = IF n = 1 THEN NoOpfState ELSE StateOf(doc[n - 1])
    /\ o.in_metadata <=> InMetadata(doc, n)
    /\ n > 1 /\ doc[n - 1].ev = "start" /\ doc[n - 1].name = "title" =>
          o.title_id = Lookup(doc[n - 1].attr, "id")

\* The metadata is open after an event, if it was opened or not closed by it.
LEMMA InMetadataMore ==
    ASSUME NEW doc, NEW n \in Nat \ {0}
    PROVE  InMetadata(doc, n + 1) <=>
             \/ doc[n].ev = "start" /\ doc[n].name = "metadata"
             \/ InMetadata(doc, n) /\ ~(doc[n].ev = "end" /\ doc[n].name = "metadata")
<1>1. 1..(n + 1) - 1 = (1..n - 1) \cup {n} /\ n \notin 1..n - 1
  OBVIOUS
<1>2. \A m \in 1..n - 1 : m + 1 .. (n + 1) - 1 = (m + 1 .. n - 1) \cup {n}
  OBVIOUS
<1>3. n + 1 .. (n + 1) - 1 = {}
  OBVIOUS
<1> DEFINE Opens(m) == doc[m].ev = "start" /\ doc[m].name = "metadata"
           Closes(k) == doc[k].ev = "end" /\ doc[k].name = "metadata"
           Since(m, k) == Opens(m) /\ \A i \in m + 1 .. k - 1 : ~Closes(i)
<1>4. Since(n, n + 1) <=> Opens(n)
  BY <1>3
<1>5. \A m \in 1..n - 1 : Since(m, n + 1) <=> Since(m, n) /\ ~Closes(n)
  BY <1>2
<1>6. /\ InMetadata(doc, n + 1) <=> \E m \in 1..(n + 1) - 1 : Since(m, n + 1)
      /\ InMetadata(doc, n) <=> \E m \in 1..n - 1 : Since(m, n)
  BY DEF InMetadata
<1> HIDE DEF Since
<1>7. QED
  BY <1>1, <1>4, <1>5, <1>6

\* Event n is the text of an element.
TextOf(doc, n, names) ==
    /\ n > 1 /\ doc[n].ev = "text"
    /\ doc[n - 1].ev = "start" /\ doc[n - 1].name \in names
PropertyIs(doc, i, local) == At(doc, i, "property").local = local
Collects(doc, i) ==
    /\ Global(doc[i]) /\ At(doc, i, "id") # Absent
    /\ PropertyIs(doc, i, "belongs-to-collection")
GivesScheme(doc, i) ==
    /\ doc[i].ev = "start" /\ Refining(doc[i]) /\ At(doc, i, "scheme") # Absent
    /\ PropertyIs(doc, i, "identifier-type")
Accessible(doc, i) == At(doc, i, "property") # Absent /\ IsA11y(At(doc, i, "property"))
Designates(doc, i) ==
    doc[i].ev = "start" /\ doc[i].name = "package" /\ At(doc, i, "unique-identifier") # Absent

\* What event n adds to what is collected.
Collecting(doc, n) ==
    LET i == n - 1
        text == doc[n].text
    IN
    /\ opf'.unique_id_ref = IF Designates(doc, n) THEN At(doc, n, "unique-identifier")
                            ELSE opf.unique_id_ref
    /\ opf'.raw_titles =
         IF TextOf(doc, n, {"title"})
         THEN Append(opf.raw_titles,
                     [id |-> At(doc, i, "id"), text |-> text,
                      epub2_subtitle |-> At(doc, i, "title-type") = "subtitle"])
         ELSE opf.raw_titles
    /\ opf'.raw_identifiers =
         IF TextOf(doc, n, {"identifier"})
         THEN Append(opf.raw_identifiers,
                     [id |-> At(doc, i, "id"), scheme |-> At(doc, i, "scheme"), value |-> text])
         ELSE opf.raw_identifiers
    /\ book'.creators =
         IF TextOf(doc, n, {"creator", "contributor"})
         THEN Append(book.creators, [name |-> text, role |-> Absent, file_as |-> Absent])
         ELSE book.creators
    /\ opf'.creator_id_to_idx =
         IF TextOf(doc, n, {"creator", "contributor"}) /\ At(doc, i, "id") # Absent
         THEN With(opf.creator_id_to_idx, At(doc, i, "id"), Len(book.creators) + 1)
         ELSE opf.creator_id_to_idx
    /\ opf'.raw_a11y =
         IF TextOf(doc, n, {"meta"}) /\ Accessible(doc, i)
         THEN Append(opf.raw_a11y, [property |-> At(doc, i, "property").local, value |-> text,
                                    id |-> At(doc, i, "id"), refines |-> At(doc, i, "refines")])
         ELSE opf.raw_a11y
    /\ opf'.pending_collections =
         IF TextOf(doc, n, {"meta"}) /\ Collects(doc, i)
         THEN Append(opf.pending_collections, <<At(doc, i, "id"), text>>)
         ELSE opf.pending_collections
    /\ opf'.refinements =
         IF TextOf(doc, n, {"meta"}) /\ Refining(doc[i]) /\ ~IsA11y(At(doc, i, "property"))
         THEN StoreRefinement(opf.refinements, At(doc, i, "refines"),
                              At(doc, i, "property").local, text)
         ELSE IF GivesScheme(doc, n)
         THEN StoreRefinement(opf.refinements, At(doc, n, "refines"),
                              "identifier-type-scheme", At(doc, n, "scheme"))
         ELSE opf.refinements

LEMMA OpfAdvance ==
    ASSUME NEW doc, NEW S, doc \in Seq(S), package["opf"] = doc, MetadataRegular(doc),
           stage = "opf", OpfNow(doc, at, opf, book), ReadOpf, OpfNext, stage' = "opf"
    PROVE  /\ at \in 1..Len(doc) /\ at' = at + 1 /\ OpfNow(doc, at + 1, opf', book')
           /\ Collecting(doc, at)
<1> DEFINE n == at
           prev == IF n = 1 THEN [ev |-> "end"] ELSE doc[n - 1]
<1>1. /\ at' = n + 1 /\ Event = doc[n] /\ doc[n].ev # "bad" /\ n \in 1..Len(doc)
      /\ n \in Nat \ {0} /\ Len(doc) \in Nat
  <2>1. at' = at + 1 /\ Reading("opf") /\ Event.ev # "bad"
    BY OpfStep DEF OpfRead, GoTo
  <2>2. QED
    BY <2>1 DEF Reading, Event, OpfNow
<1>2. /\ IsOpf(opf) /\ IsBook(book) /\ OverlayKnown(opf) /\ book.media_overlays = Absent
      /\ \A j \in 1..n : doc[j].ev # "bad"
  BY <1>1 DEF OpfNow
<1>3. opf.state = StateOf(prev)
  BY DEF OpfNow, StateOf
<1>4. opf.state # NoOpfState =>
        /\ n > 1 /\ prev = doc[n - 1] /\ n - 1 \in DOMAIN doc /\ prev.ev = "start"
        /\ doc[n].ev \in {"text", "end"} /\ opf.in_metadata
  <2> SUFFICES ASSUME opf.state # NoOpfState
               PROVE  /\ n > 1 /\ prev = doc[n - 1] /\ n - 1 \in DOMAIN doc /\ prev.ev = "start"
                      /\ doc[n].ev \in {"text", "end"} /\ opf.in_metadata
    OBVIOUS
  <2>1. n > 1 /\ n - 1 \in 1..Len(doc) /\ n - 1 < Len(doc) /\ (n - 1) + 1 = n
    BY <1>1 DEF OpfNow
  <2>2. prev = doc[n - 1] /\ prev.ev = "start"
    BY <1>3, <2>1 DEF StateOf
  <2>3. /\ InMetadata(doc, n - 1)
        /\ doc[(n - 1) + 1].ev \in {"text", "end", "bad"}
    BY <1>3, <2>1, <2>2 DEF MetadataRegular
  <2>4. InMetadata(doc, (n - 1) + 1)
    BY <2>1, <2>2, <2>3, InMetadataMore
  <2>5. QED
    BY <1>1, <2>1, <2>2, <2>3, <2>4 DEF OpfNow
<1>5. /\ InMetadata(doc, n + 1) <=>
             \/ doc[n].ev = "start" /\ doc[n].name = "metadata"
             \/ opf.in_metadata /\ ~(doc[n].ev = "end" /\ doc[n].name = "metadata")
      /\ n + 1 \in 1..Len(doc) + 1 /\ n + 1 # 1 /\ (n + 1) - 1 = n
  <2>1. opf.in_metadata <=> InMetadata(doc, n)
    BY DEF OpfNow
  <2>2. InMetadata(doc, n + 1) <=>
             \/ doc[n].ev = "start" /\ doc[n].name = "metadata"
             \/ InMetadata(doc, n) /\ ~(doc[n].ev = "end" /\ doc[n].name = "metadata")
    BY <1>1, InMetadataMore
  <2>3. n + 1 \in 1..Len(doc) + 1 /\ n + 1 # 1 /\ (n + 1) - 1 = n
    BY <1>1
  <2>4. QED
    BY <2>1, <2>2, <2>3
<1>6. \A names : TextOf(doc, n, names) <=>
                   doc[n].ev = "text" /\ prev.ev = "start" /\ prev.name \in names
  BY <1>1 DEF TextOf
<1>7. prev.ev = "start" => n > 1 /\ prev = doc[n - 1]
  BY <1>1
<1> HIDE DEF prev, n
<1>8. CASE OpfStartNext
  <2>1. Event.ev = "start"
    BY <1>8 DEF OpfStartNext, StartMetadata, StartPackage, StartSpine, StartTitle, StartAgent,
       StartIdentifier, StartDate, StartSimple, StartRefiningMeta, StartGlobalMeta,
       StartNamedMeta, StartOther, OpfStart, Sees, SeesOther
  <2>2. opf.state = NoOpfState
    BY <1>1, <1>4, <2>1
  <2>3. /\ IsOpf(opf') /\ IsBook(book') /\ opf'.state = StateOf(doc[n])
        /\ opf'.in_metadata <=> opf.in_metadata \/ doc[n].name = "metadata"
        /\ doc[n].name = "title" => opf'.title_id = Lookup(doc[n].attr, "id")
        /\ opf'.unique_id_ref = IF Designates(doc, n) THEN At(doc, n, "unique-identifier")
                                ELSE opf.unique_id_ref
        /\ opf'.refinements =
              IF GivesScheme(doc, n)
              THEN StoreRefinement(opf.refinements, At(doc, n, "refines"),
                                   "identifier-type-scheme", At(doc, n, "scheme"))
              ELSE opf.refinements
        /\ Collected(opf, book)' = Collected(opf, book)
    BY <1>1, <1>2, <1>8, <2>1, <2>2, StartEffect DEF Designates, GivesScheme, At, PropertyIs
  <2>4. OpfNow(doc, n + 1, opf', book')
    BY <1>2, <1>5, <2>1, <1>1, <2>3 DEF OpfNow, OverlayKnown, Collected
  <2>5. \A names : ~TextOf(doc, n, names)
    BY <1>1, <1>6, <2>1
  <2>6. Collecting(doc, n)
    BY <2>3, <2>5 DEF Collecting, Collected
  <2>7. QED
    BY <1>1, <2>4, <2>6 DEF n
<1>9. CASE EmptyMeta \/ EmptyItem \/ EmptyItemref \/ EmptyReference \/ EmptyOther
  <2>1. /\ doc[n].ev = "empty" /\ opf' = opf /\ IsBook(book')
        /\ book'.creators = book.creators /\ book'.media_overlays = book.media_overlays
    BY <1>1, <1>2, <1>9, EmptyEffect
  <2>2. opf'.state = StateOf(doc[n])
    BY <1>4, <2>1 DEF StateOf
  <2>3. OpfNow(doc, n + 1, opf', book')
    BY <1>2, <1>5, <2>1, <2>2 DEF OpfNow
  <2>4. Collecting(doc, n)
    BY <1>6, <2>1 DEF Collecting, Designates, GivesScheme
  <2>5. QED
    BY <1>1, <2>3, <2>4 DEF n
<1>10. CASE OpfEnd
  <2>1. /\ doc[n].ev = "end" /\ book' = book
        /\ opf' = [opf EXCEPT !.state = NoOpfState,
                              !.in_metadata = @ /\ doc[n].name # "metadata"]
    BY <1>1, <1>10 DEF OpfEnd
  <2>2. /\ IsOpf(opf') /\ opf'.state = StateOf(doc[n])
        /\ opf'.in_metadata <=> opf.in_metadata /\ doc[n].name # "metadata"
        /\ opf'.unique_id_ref = opf.unique_id_ref /\ opf'.refinements = opf.refinements
        /\ Collected(opf, book)' = Collected(opf, book)
    BY <1>2, <2>1 DEF IsOpf, EmptyOpf, StateOf, Collected
  <2>3. OpfNow(doc, n + 1, opf', book')
    BY <1>2, <1>5, <2>1, <2>2 DEF OpfNow, OverlayKnown, Collected
  <2>4. Collecting(doc, n)
    BY <1>6, <2>1, <2>2 DEF Collecting, Designates, GivesScheme, Collected
  <2>5. QED
    BY <1>1, <2>3, <2>4 DEF n
<1>11. CASE OpfTextNext
  <2>1. OpfTextNext /\ (Event.ev = "text" /\ opf.state # NoOpfState => opf.in_metadata)
          /\ (Event.ev = "ref" => opf.state = NoOpfState)
    BY <1>1, <1>4, <1>11
  <2> DEFINE s == opf.state
             text == doc[n].text
  <2>2. /\ doc[n].ev \in {"text", "ref"}
        /\ s # NoOpfState => doc[n].ev = "text"
        /\ IsOpf(opf') /\ IsBook(book') /\ OverlayKnown(opf')
        /\ opf'.state = NoOpfState /\ opf'.in_metadata = opf.in_metadata
        /\ opf'.unique_id_ref = opf.unique_id_ref /\ book'.media_overlays = book.media_overlays
    BY <1>1, <1>2, <1>3, <2>1, TextEffect
  <2>3. /\ opf'.raw_titles =
                IF s.kind \in {"Title", "Subtitle"}
                THEN Append(opf.raw_titles, [id |-> opf.title_id, text |-> text,
                                             epub2_subtitle |-> s.kind = "Subtitle"])
                ELSE opf.raw_titles
        /\ opf'.raw_identifiers =
                IF s.kind = "Identifier"
                THEN Append(opf.raw_identifiers, [id |-> s.id, scheme |-> s.scheme, value |-> text])
                ELSE opf.raw_identifiers
        /\ book'.creators =
                IF s.kind = "Creator"
                THEN Append(book.creators, [name |-> text, role |-> Absent, file_as |-> Absent])
                ELSE book.creators
        /\ opf'.creator_id_to_idx =
                IF s.kind = "Creator" /\ s.id # Absent
                THEN With(opf.creator_id_to_idx, s.id, Len(book.creators) + 1)
                ELSE opf.creator_id_to_idx
        /\ opf'.refinements =
                IF s.kind = "MetaRefines" /\ ~IsA11y(s.property)
                THEN StoreRefinement(opf.refinements, s.ref_id, s.property.local, text)
                ELSE opf.refinements
        /\ opf'.raw_a11y =
                IF s.kind \in {"MetaRefines", "MetaGlobal"} /\ IsA11y(s.property)
                THEN Append(opf.raw_a11y, [property |-> s.property.local, value |-> text,
                                           id |-> s.id, refines |-> s.ref_id])
                ELSE opf.raw_a11y
        /\ opf'.pending_collections =
                IF /\ s.kind = "MetaGlobal" /\ ~IsA11y(s.property) /\ s.id # Absent
                   /\ s.property.local = "belongs-to-collection"
                THEN Append(opf.pending_collections, <<s.id, text>>)
                ELSE opf.pending_collections
    BY <1>1, <1>2, <1>3, <2>1, TextEffect DEF Text
  <2>4. opf'.state = StateOf(doc[n])
    BY <2>2 DEF StateOf
  <2>5. OpfNow(doc, n + 1, opf', book')
    BY <1>2, <1>5, <2>2, <2>4 DEF OpfNow
  <2>6. s = StateOf(prev) /\ (s = NoOpfState \/ doc[n].ev = "text")
    BY <1>3, <2>2
  <2>7. NoOpfState.kind = "None"
    BY DEF NoOpfState, OpfState
  <2>8. /\ s.kind \in {"Title", "Subtitle"} <=> TextOf(doc, n, {"title"})
        /\ s.kind \in {"Title", "Subtitle"} =>
             /\ s.kind = "Subtitle" <=> At(doc, n - 1, "title-type") = "subtitle"
             /\ opf.title_id = At(doc, n - 1, "id")
    <3>1. s.kind \in {"Title", "Subtitle"} <=> prev.ev = "start" /\ prev.name = "title"
      BY <2>6, <1>3, StateKinds
    <3>2. s.kind \in {"Title", "Subtitle"} => 
            (s.kind = "Subtitle" <=> Lookup(prev.attr, "title-type") = "subtitle")
      BY <2>6, <1>3, StateKinds
    <3>3. QED
      BY <1>6, <1>7, <2>6, <2>7, <3>1, <3>2 DEF At, OpfNow, n
  <2>9. /\ s.kind = "Identifier" <=> TextOf(doc, n, {"identifier"})
        /\ s.kind = "Identifier" => s.id = At(doc, n - 1, "id") /\ s.scheme = At(doc, n - 1, "scheme")
    <3>1. /\ s.kind = "Identifier" <=> prev.ev = "start" /\ prev.name = "identifier"
          /\ s.kind = "Identifier" => s.id = Lookup(prev.attr, "id") /\ s.scheme = Lookup(prev.attr, "scheme")
      BY <1>3, StateKinds
    <3>2. QED
      BY <1>6, <1>7, <2>6, <2>7, <3>1 DEF At
  <2>10. /\ s.kind = "Creator" <=> TextOf(doc, n, {"creator", "contributor"})
         /\ s.kind = "Creator" => s.id = At(doc, n - 1, "id")
    <3>1. /\ s.kind = "Creator" <=> prev.ev = "start" /\ prev.name \in {"creator", "contributor"}
          /\ s.kind = "Creator" => s.id = Lookup(prev.attr, "id")
      BY <1>3, StateKinds
    <3>2. QED
      BY <1>6, <1>7, <2>6, <2>7, <3>1 DEF At
  <2>11. /\ s.kind = "MetaRefines" <=> TextOf(doc, n, {"meta"}) /\ Refining(doc[n - 1])
         /\ s.kind = "MetaGlobal" <=> TextOf(doc, n, {"meta"}) /\ Global(doc[n - 1])
         /\ s.kind \in {"MetaRefines", "MetaGlobal"} =>
              /\ s.id = At(doc, n - 1, "id") /\ s.property = At(doc, n - 1, "property")
              /\ s.ref_id = At(doc, n - 1, "refines")
    <3>1. /\ s.kind = "MetaRefines" <=> prev.ev = "start" /\ Refining(prev)
          /\ s.kind = "MetaGlobal" <=> prev.ev = "start" /\ Global(prev)
          /\ s.kind \in {"MetaRefines", "MetaGlobal"} =>
               /\ s.id = Lookup(prev.attr, "id") /\ s.property = Lookup(prev.attr, "property")
               /\ s.ref_id = Lookup(prev.attr, "refines")
      BY <1>3, StateKinds
    <3>2. Refining(prev) \/ Global(prev) => prev.name = "meta"
      BY DEF Refining, Global
    <3>3. QED
      BY <1>6, <1>7, <2>6, <2>7, <3>1, <3>2 DEF At
  <2>12. ~GivesScheme(doc, n) /\ ~Designates(doc, n)
    BY <2>2 DEF GivesScheme, Designates
  <2>13. TextOf(doc, n, {"meta"}) /\ Accessible(doc, n - 1)
           <=> s.kind \in {"MetaRefines", "MetaGlobal"} /\ IsA11y(s.property)
    <3>1. TextOf(doc, n, {"meta"}) =>
            (Refining(doc[n - 1]) \/ Global(doc[n - 1]) <=> At(doc, n - 1, "property") # Absent)
      BY DEF TextOf, Refining, Global, At
    <3>2. QED
      BY <2>11, <3>1 DEF Accessible
  <2>14. TextOf(doc, n, {"meta"}) /\ Collects(doc, n - 1)
           <=> /\ s.kind = "MetaGlobal" /\ ~IsA11y(s.property) /\ s.id # Absent
               /\ s.property.local = "belongs-to-collection"
    <3>1. s.property.local = "belongs-to-collection" => ~IsA11y(s.property)
      BY DEF IsA11y, A11yNames
    <3>2. QED
      BY <2>11, <3>1 DEF Collects, PropertyIs
  <2> HIDE DEF s, text
  <2>15. Collecting(doc, n)
    <3>1. opf'.raw_titles =
            IF TextOf(doc, n, {"title"})
            THEN Append(opf.raw_titles,
                        [id |-> At(doc, n - 1, "id"), text |-> text,
                         epub2_subtitle |-> At(doc, n - 1, "title-type") = "subtitle"])
            ELSE opf.raw_titles
      BY <2>3, <2>8
    <3>2. opf'.raw_identifiers =
            IF TextOf(doc, n, {"identifier"})
            THEN Append(opf.raw_identifiers,
                        [id |-> At(doc, n - 1, "id"), scheme |-> At(doc, n - 1, "scheme"), value |-> text])
            ELSE opf.raw_identifiers
      BY <2>3, <2>9
    <3>3. /\ book'.creators =
                IF TextOf(doc, n, {"creator", "contributor"})
                THEN Append(book.creators, [name |-> text, role |-> Absent, file_as |-> Absent])
                ELSE book.creators
          /\ opf'.creator_id_to_idx =
                IF TextOf(doc, n, {"creator", "contributor"}) /\ At(doc, n - 1, "id") # Absent
                THEN With(opf.creator_id_to_idx, At(doc, n - 1, "id"), Len(book.creators) + 1)
                ELSE opf.creator_id_to_idx
      BY <2>3, <2>10
    <3>4. opf'.raw_a11y =
            IF TextOf(doc, n, {"meta"}) /\ Accessible(doc, n - 1)
            THEN Append(opf.raw_a11y, [property |-> At(doc, n - 1, "property").local, value |-> text,
                                       id |-> At(doc, n - 1, "id"), refines |-> At(doc, n - 1, "refines")])
            ELSE opf.raw_a11y
      BY <2>3, <2>11, <2>13
    <3>5. opf'.pending_collections =
            IF TextOf(doc, n, {"meta"}) /\ Collects(doc, n - 1)
            THEN Append(opf.pending_collections, <<At(doc, n - 1, "id"), text>>)
            ELSE opf.pending_collections
      BY <2>3, <2>11, <2>14
    <3>6. opf'.refinements =
            IF TextOf(doc, n, {"meta"}) /\ Refining(doc[n - 1]) /\ ~IsA11y(At(doc, n - 1, "property"))
            THEN StoreRefinement(opf.refinements, At(doc, n - 1, "refines"),
                                 At(doc, n - 1, "property").local, text)
            ELSE opf.refinements
      BY <2>3, <2>11
    <3>7. QED
      BY <2>2, <2>12, <3>1, <3>2, <3>3, <3>4, <3>5, <3>6 DEF Collecting, text
  <2>16. QED
    BY <1>1, <2>5, <2>15 DEF n
<1>12. CASE OpfRead \/ OpfFails
  <2>1. stage' # "opf"
    BY <1>12 DEF OpfRead, OpfFails, Malformed, Missing, GoTo
  <2>2. QED
    BY <2>1
<1>13. QED
  BY <1>8, <1>9, <1>10, <1>11, <1>12 DEF OpfNext

-----------------------------------------------------------------------------
\* The elements that have been read to the end of their text before event n.
ReadBefore(doc, n, names) ==
    {i \in 1..n - 2 : /\ doc[i].ev = "start" /\ doc[i].name \in names
                     /\ doc[i + 1].ev = "text"}
Agents == {"creator", "contributor"}
ClaimsBefore(doc, n) == {i \in ReadBefore(doc, n, {"meta"}) : Accessible(doc, i)}
SeriesBefore(doc, n) == {i \in ReadBefore(doc, n, {"meta"}) : Collects(doc, i)}

\* What is listed of them.
TitleOf(doc) ==
    [i \in DOMAIN doc |-> [id |-> At(doc, i, "id"), text |-> doc[i + 1].text,
                          epub2_subtitle |-> At(doc, i, "title-type") = "subtitle"]]
IdentifierOf(doc) ==
    [i \in DOMAIN doc |-> [id |-> At(doc, i, "id"), scheme |-> At(doc, i, "scheme"),
                          value |-> doc[i + 1].text]]
AgentOf(doc) ==
    [i \in DOMAIN doc |-> [name |-> doc[i + 1].text, role |-> Absent, file_as |-> Absent]]
ClaimOf(doc) ==
    [i \in DOMAIN doc |-> [property |-> At(doc, i, "property").local, value |-> doc[i + 1].text,
                          id |-> At(doc, i, "id"), refines |-> At(doc, i, "refines")]]
SeriesOf(doc) == [i \in DOMAIN doc |-> <<At(doc, i, "id"), doc[i + 1].text>>]

\* The last word of some metas, and of some start tags.
SaidBefore(doc, n, id, local) ==
    LET said == {i \in ReadBefore(doc, n, {"meta"}) :
                   /\ At(doc, i, "property") # Absent /\ PropertyIs(doc, i, local)
                   /\ At(doc, i, "refines") = id}
    IN IF said = {} THEN Absent ELSE doc[Max(said) + 1].text
LastKey(doc, S, k) == IF S = {} THEN Absent ELSE At(doc, Max(S), k)
SchemesBefore(doc, n, id) == {j \in 1..n - 1 : GivesScheme(doc, j) /\ At(doc, j, "refines") = id}
PointersBefore(doc, n) == {j \in 1..n - 1 : Designates(doc, j)}

ListsHold(doc, n, o, b) ==
    /\ Listed(o.raw_titles, ReadBefore(doc, n, {"title"}), TitleOf(doc))
    /\ Listed(o.raw_identifiers, ReadBefore(doc, n, {"identifier"}), IdentifierOf(doc))
    /\ Listed(b.creators, ReadBefore(doc, n, Agents), AgentOf(doc))
    /\ Listed(o.raw_a11y, ClaimsBefore(doc, n), ClaimOf(doc))
    /\ Listed(o.pending_collections, SeriesBefore(doc, n), SeriesOf(doc))
CreatorsKnown(doc, n, o) ==
    LET agents == ReadBefore(doc, n, Agents) IN
    /\ \A i \in agents : At(doc, i, "id") # Absent =>
         /\ At(doc, i, "id") \in DOMAIN o.creator_id_to_idx
         /\ o.creator_id_to_idx[At(doc, i, "id")] = Rank(agents, i)
    /\ \A id \in DOMAIN o.creator_id_to_idx :
         id # Absent /\ \E i \in agents : At(doc, i, "id") = id
WordsKept(doc, n, o) ==
    /\ o.unique_id_ref = LastKey(doc, PointersBefore(doc, n), "unique-identifier")
    /\ Absent \notin DOMAIN o.refinements
    /\ \A id, local :
         id # Absent /\ local \notin A11yNames \cup {"identifier-type-scheme"} =>
            RefinedIn(o.refinements, id, local) = SaidBefore(doc, n, id, local)
    /\ \A id : id # Absent =>
         RefinedIn(o.refinements, id, "identifier-type-scheme")
           = LastKey(doc, SchemesBefore(doc, n, id), "scheme")

\* One more event.
LEMMA ReadMore ==
    ASSUME NEW doc, NEW S, doc \in Seq(S), NEW n \in 1..Len(doc), NEW names
    PROVE  /\ ReadBefore(doc, n + 1, names)
                = ReadBefore(doc, n, names) \cup (IF TextOf(doc, n, names) THEN {n - 1} ELSE {})
           /\ ReadBefore(doc, n, names) \in SUBSET DOMAIN doc
           /\ \A i \in ReadBefore(doc, n, names) : i < n - 1 /\ i \in 1..n - 2
           /\ TextOf(doc, n, names) => n - 1 \in DOMAIN doc /\ (n - 1) + 1 = n /\ n - 2 \in Nat
<1>1. n \in Nat \ {0} /\ Len(doc) \in Nat /\ n <= Len(doc) /\ DOMAIN doc = 1..Len(doc)
  OBVIOUS
<1>2. ReadBefore(doc, n, names) \in SUBSET (1..n - 2)
  BY DEF ReadBefore
<1>3. ASSUME n = 1 PROVE ReadBefore(doc, n + 1, names) = {} /\ ~TextOf(doc, n, names)
  BY <1>3 DEF ReadBefore, TextOf
<1>4. ASSUME n > 1
      PROVE  ReadBefore(doc, n + 1, names)
               = ReadBefore(doc, n, names) \cup (IF TextOf(doc, n, names) THEN {n - 1} ELSE {})
  <2>1. (n + 1) - 2 = n - 1 /\ (n - 1) + 1 = n /\ 1..n - 1 = (1..n - 2) \cup {n - 1}
    BY <1>1, <1>4
  <2>2. ReadBefore(doc, n + 1, names) =
          {i \in (1..n - 2) \cup {n - 1} : /\ doc[i].ev = "start" /\ doc[i].name \in names
                                          /\ doc[i + 1].ev = "text"}
    BY <2>1 DEF ReadBefore
  <2>3. TextOf(doc, n, names) <=> /\ doc[n - 1].ev = "start" /\ doc[n - 1].name \in names
                                  /\ doc[(n - 1) + 1].ev = "text"
    BY <1>4, <2>1 DEF TextOf
  <2>4. QED
    BY <2>2, <2>3 DEF ReadBefore
<1>5. ASSUME n = 1 PROVE ReadBefore(doc, n, names) = {}
  BY <1>2, <1>5
<1>6. /\ ReadBefore(doc, n, names) \in SUBSET DOMAIN doc
      /\ \A i \in ReadBefore(doc, n, names) : i < n - 1 /\ i \in 1..n - 2
  BY <1>1, <1>2
<1>7. TextOf(doc, n, names) => n - 1 \in DOMAIN doc /\ (n - 1) + 1 = n /\ n - 2 \in Nat
  BY <1>1 DEF TextOf
<1>8. n = 1 \/ n > 1
  BY <1>1
<1>9. QED
  BY <1>3, <1>4, <1>5, <1>6, <1>7, <1>8

\* Whoever is read, the lists go on.
LEMMA ListsGoOn ==
    ASSUME NEW doc, NEW S, doc \in Seq(S), NEW n \in 1..Len(doc), ListsHold(doc, n, opf, book),
           Collecting(doc, n)
    PROVE  ListsHold(doc, n + 1, opf', book')
<1>1. n - 1 \in Nat
  OBVIOUS
<1>2. /\ \A i \in DOMAIN doc : i + 1 = n =>
           /\ TitleOf(doc)[i] = [id |-> At(doc, i, "id"), text |-> doc[n].text,
                                epub2_subtitle |-> At(doc, i, "title-type") = "subtitle"]
           /\ IdentifierOf(doc)[i] = [id |-> At(doc, i, "id"), scheme |-> At(doc, i, "scheme"),
                                     value |-> doc[n].text]
           /\ AgentOf(doc)[i] = [name |-> doc[n].text, role |-> Absent, file_as |-> Absent]
           /\ ClaimOf(doc)[i] = [property |-> At(doc, i, "property").local, value |-> doc[n].text,
                                id |-> At(doc, i, "id"), refines |-> At(doc, i, "refines")]
           /\ SeriesOf(doc)[i] = <<At(doc, i, "id"), doc[n].text>>
  BY DEF TitleOf, IdentifierOf, AgentOf, ClaimOf, SeriesOf
<1>3. \A names : TextOf(doc, n, names) => n - 1 \in DOMAIN doc /\ (n - 1) + 1 = n
  BY ReadMore
<1>4. Listed(opf'.raw_titles, ReadBefore(doc, n + 1, {"title"}), TitleOf(doc))
  <2> DEFINE taken == TextOf(doc, n, {"title"})
             before == ReadBefore(doc, n, {"title"})
             after == ReadBefore(doc, n + 1, {"title"})
             item == TitleOf(doc)[n - 1]
  <2>1. opf'.raw_titles = IF taken THEN Append(opf.raw_titles, item) ELSE opf.raw_titles
    BY <1>2, <1>3 DEF Collecting
  <2>2. after = before \cup (IF taken THEN {n - 1} ELSE {})
    BY ReadMore
  <2>3. \A j \in before : j < n - 1
    BY ReadMore
  <2>4. Listed(opf.raw_titles, before, TitleOf(doc))
    BY DEF ListsHold
  <2> HIDE DEF taken, before, after
  <2>5. Listed(Append(opf.raw_titles, item), before \cup {n - 1}, TitleOf(doc))
    BY <1>1, <2>3, <2>4, ListedMore
  <2>6. Listed(opf'.raw_titles, after, TitleOf(doc))
    BY <2>1, <2>2, <2>4, <2>5
  <2>7. QED
    BY <2>6 DEF after
<1>5. Listed(opf'.raw_identifiers, ReadBefore(doc, n + 1, {"identifier"}), IdentifierOf(doc))
  <2> DEFINE taken == TextOf(doc, n, {"identifier"})
             before == ReadBefore(doc, n, {"identifier"})
             after == ReadBefore(doc, n + 1, {"identifier"})
             item == IdentifierOf(doc)[n - 1]
  <2>1. opf'.raw_identifiers = IF taken THEN Append(opf.raw_identifiers, item) ELSE opf.raw_identifiers
    BY <1>2, <1>3 DEF Collecting
  <2>2. after = before \cup (IF taken THEN {n - 1} ELSE {})
    BY ReadMore
  <2>3. \A j \in before : j < n - 1
    BY ReadMore
  <2>4. Listed(opf.raw_identifiers, before, IdentifierOf(doc))
    BY DEF ListsHold
  <2> HIDE DEF taken, before, after
  <2>5. Listed(Append(opf.raw_identifiers, item), before \cup {n - 1}, IdentifierOf(doc))
    BY <1>1, <2>3, <2>4, ListedMore
  <2>6. Listed(opf'.raw_identifiers, after, IdentifierOf(doc))
    BY <2>1, <2>2, <2>4, <2>5
  <2>7. QED
    BY <2>6 DEF after
<1>6. Listed(book'.creators, ReadBefore(doc, n + 1, Agents), AgentOf(doc))
  <2> DEFINE taken == TextOf(doc, n, Agents)
             before == ReadBefore(doc, n, Agents)
             after == ReadBefore(doc, n + 1, Agents)
             item == AgentOf(doc)[n - 1]
  <2>1. book'.creators = IF taken THEN Append(book.creators, item) ELSE book.creators
    BY <1>2, <1>3 DEF Collecting, Agents
  <2>2. after = before \cup (IF taken THEN {n - 1} ELSE {})
    BY ReadMore
  <2>3. \A j \in before : j < n - 1
    BY ReadMore
  <2>4. Listed(book.creators, before, AgentOf(doc))
    BY DEF ListsHold
  <2> HIDE DEF taken, before, after
  <2>5. Listed(Append(book.creators, item), before \cup {n - 1}, AgentOf(doc))
    BY <1>1, <2>3, <2>4, ListedMore
  <2>6. Listed(book'.creators, after, AgentOf(doc))
    BY <2>1, <2>2, <2>4, <2>5
  <2>7. QED
    BY <2>6 DEF after
<1>7. Listed(opf'.raw_a11y, ClaimsBefore(doc, n + 1), ClaimOf(doc))
  <2> DEFINE taken == TextOf(doc, n, {"meta"}) /\ Accessible(doc, n - 1)
             before == ClaimsBefore(doc, n)
             after == ClaimsBefore(doc, n + 1)
             item == ClaimOf(doc)[n - 1]
  <2>1. opf'.raw_a11y = IF taken THEN Append(opf.raw_a11y, item) ELSE opf.raw_a11y
    BY <1>2, <1>3 DEF Collecting
  <2>2. after = before \cup (IF taken THEN {n - 1} ELSE {})
    BY ReadMore DEF ClaimsBefore
  <2>3. \A j \in before : j < n - 1
    BY ReadMore DEF ClaimsBefore
  <2>4. Listed(opf.raw_a11y, before, ClaimOf(doc))
    BY DEF ListsHold
  <2> HIDE DEF taken, before, after
  <2>5. Listed(Append(opf.raw_a11y, item), before \cup {n - 1}, ClaimOf(doc))
    BY <1>1, <2>3, <2>4, ListedMore
  <2>6. Listed(opf'.raw_a11y, after, ClaimOf(doc))
    BY <2>1, <2>2, <2>4, <2>5
  <2>7. QED
    BY <2>6 DEF after
<1>8. Listed(opf'.pending_collections, SeriesBefore(doc, n + 1), SeriesOf(doc))
  <2> DEFINE taken == TextOf(doc, n, {"meta"}) /\ Collects(doc, n - 1)
             before == SeriesBefore(doc, n)
             after == SeriesBefore(doc, n + 1)
             item == SeriesOf(doc)[n - 1]
  <2>1. opf'.pending_collections = IF taken THEN Append(opf.pending_collections, item) ELSE opf.pending_collections
    BY <1>2, <1>3 DEF Collecting
  <2>2. after = before \cup (IF taken THEN {n - 1} ELSE {})
    BY ReadMore DEF SeriesBefore
  <2>3. \A j \in before : j < n - 1
    BY ReadMore DEF SeriesBefore
  <2>4. Listed(opf.pending_collections, before, SeriesOf(doc))
    BY DEF ListsHold
  <2> HIDE DEF taken, before, after
  <2>5. Listed(Append(opf.pending_collections, item), before \cup {n - 1}, SeriesOf(doc))
    BY <1>1, <2>3, <2>4, ListedMore
  <2>6. Listed(opf'.pending_collections, after, SeriesOf(doc))
    BY <2>1, <2>2, <2>4, <2>5
  <2>7. QED
    BY <2>6 DEF after
<1>9. QED
  BY <1>4, <1>5, <1>6, <1>7, <1>8 DEF ListsHold

LEMMA CreatorsGoOn ==
    ASSUME NEW doc, NEW S, doc \in Seq(S), NEW n \in 1..Len(doc), MetadataRegular(doc),
           ListsHold(doc, n, opf, book), CreatorsKnown(doc, n, opf), Collecting(doc, n)
    PROVE  CreatorsKnown(doc, n + 1, opf')
<1> DEFINE agents == ReadBefore(doc, n, Agents)
           after == ReadBefore(doc, n + 1, Agents)
           taken == TextOf(doc, n, Agents)
           known == opf.creator_id_to_idx
           id == At(doc, n - 1, "id")
<1>1. /\ after = agents \cup (IF taken THEN {n - 1} ELSE {})
      /\ \A i \in agents : i < n - 1 /\ i \in DOMAIN doc
      /\ taken => n - 1 \in DOMAIN doc /\ n - 1 \in Nat
  BY ReadMore
<1>2. /\ opf'.creator_id_to_idx = IF taken /\ id # Absent THEN With(known, id, Len(book.creators) + 1)
                                   ELSE known
  BY DEF Collecting, Agents
<1>3. /\ \A i \in agents : At(doc, i, "id") # Absent =>
           At(doc, i, "id") \in DOMAIN known /\ known[At(doc, i, "id")] = Rank(agents, i)
      /\ \A x \in DOMAIN known : x # Absent /\ \E i \in agents : At(doc, i, "id") = x
  BY DEF CreatorsKnown
<1>4. agents \in SUBSET Nat /\ IsFiniteSet(agents) /\ Len(book.creators) = Cardinality(agents)
  BY DEF ListsHold, Listed
<1>5. CASE ~taken
  BY <1>1, <1>2, <1>3, <1>5 DEF CreatorsKnown
<1>6. CASE taken
  <2>1. /\ Rank(after, n - 1) = Len(book.creators) + 1
        /\ \A i \in agents : Rank(after, i) = Rank(agents, i)
    BY <1>1, <1>4, <1>6, RankMore
  <2>2. \A i \in agents : id # Absent => At(doc, i, "id") # id
    <3> SUFFICES ASSUME NEW i \in agents, id # Absent, At(doc, i, "id") = id PROVE FALSE
      OBVIOUS
    <3>1. /\ StateOf(doc[i]).kind = "Creator" /\ StateOf(doc[i]).id = id
          /\ StateOf(doc[n - 1]).kind = "Creator" /\ StateOf(doc[n - 1]).id = id
      BY <1>6, StateKinds DEF ReadBefore, TextOf, Agents, At
    <3>2. i = n - 1
      BY <1>1, <1>6, <3>1 DEF MetadataRegular
    <3>3. QED
      BY <1>1, <3>2
  <2>3. after = agents \cup {n - 1}
    BY <1>1, <1>6
  <2>4. CASE id = Absent
    BY <1>2, <1>3, <2>1, <2>3, <2>4 DEF CreatorsKnown
  <2>5. CASE id # Absent
    <3> DEFINE new == With(known, id, Len(book.creators) + 1)
    <3>1. /\ DOMAIN new = DOMAIN known \cup {id} /\ new[id] = Len(book.creators) + 1
          /\ \A x \in DOMAIN known : x # id => new[x] = known[x]
      BY DEF With
    <3>2. opf'.creator_id_to_idx = new
      BY <1>2, <1>6, <2>5
    <3> HIDE DEF new, known, agents, after
    <3>3. \A i \in after : At(doc, i, "id") # Absent =>
            At(doc, i, "id") \in DOMAIN new /\ new[At(doc, i, "id")] = Rank(after, i)
      BY <1>3, <2>1, <2>2, <2>3, <2>5, <3>1
    <3>4. \A x \in DOMAIN new : x # Absent /\ \E i \in after : At(doc, i, "id") = x
      BY <1>3, <2>3, <2>5, <3>1
    <3>5. QED
      BY <3>2, <3>3, <3>4 DEF CreatorsKnown, after
  <2>6. QED
    BY <2>4, <2>5
<1>7. QED
  BY <1>5, <1>6

\* The last word of a set that grows at its end.
LEMMA LastMore ==
    ASSUME NEW m \in Nat, NEW M \in SUBSET (1..m)
    PROVE  Max(M \cup {m + 1}) = m + 1
<1>1. M \cup {m + 1} \in SUBSET (1..(m + 1)) /\ m + 1 \in M \cup {m + 1}
  OBVIOUS
<1>2. QED
  BY <1>1, NewMax

LEMMA WordsGoOn ==
    ASSUME NEW doc, NEW S, doc \in Seq(S), NEW n \in 1..Len(doc), MetadataRegular(doc),
           WordsKept(doc, n, opf), Collecting(doc, n)
    PROVE  WordsKept(doc, n + 1, opf')
<1> DEFINE Spoken(k, id, local) == {i \in ReadBefore(doc, k, {"meta"}) :
                   /\ At(doc, i, "property") # Absent /\ PropertyIs(doc, i, local)
                   /\ At(doc, i, "refines") = id}
           read == TextOf(doc, n, {"meta"})
           i0 == n - 1
           text == doc[n].text
           here == read /\ Refining(doc[i0]) /\ ~IsA11y(At(doc, i0, "property"))
           given == GivesScheme(doc, n)
           refs == opf.refinements
           Plain(local) == local \notin A11yNames \cup {"identifier-type-scheme"}
<1>1. /\ n \in Nat \ {0} /\ n - 1 \in Nat /\ 1..(n + 1) - 1 = (1..n - 1) \cup {n} /\ (n - 1) + 1 = n
      /\ n \in DOMAIN doc
  OBVIOUS
<1>2. /\ ReadBefore(doc, n + 1, {"meta"}) = ReadBefore(doc, n, {"meta"}) \cup (IF read THEN {i0} ELSE {})
      /\ \A i \in ReadBefore(doc, n, {"meta"}) : i \in 1..n - 2
      /\ read => i0 \in DOMAIN doc /\ i0 + 1 = n /\ n - 2 \in Nat /\ (n - 2) + 1 = i0
  <2>1. read => n > 1
    BY DEF TextOf
  <2>2. QED
    BY <1>1, <2>1, ReadMore
<1>3. opf'.unique_id_ref = LastKey(doc, PointersBefore(doc, n + 1), "unique-identifier")
  <2>1. PointersBefore(doc, n + 1) = PointersBefore(doc, n) \cup (IF Designates(doc, n) THEN {n} ELSE {})
    BY <1>1 DEF PointersBefore
  <2>2. CASE Designates(doc, n)
    <3>1. PointersBefore(doc, n) \in SUBSET (1..n - 1)
      BY DEF PointersBefore
    <3>2. Max(PointersBefore(doc, n + 1)) = n
      BY <1>1, <2>1, <2>2, <3>1, LastMore
    <3>3. QED
      BY <2>1, <2>2, <3>2 DEF LastKey, Collecting
  <2>3. CASE ~Designates(doc, n)
    BY <2>1, <2>3 DEF WordsKept, Collecting
  <2>4. QED
    BY <2>2, <2>3
<1>4. opf'.refinements =
         IF here THEN StoreRefinement(refs, At(doc, i0, "refines"), At(doc, i0, "property").local, text)
         ELSE IF given
         THEN StoreRefinement(refs, At(doc, n, "refines"), "identifier-type-scheme", At(doc, n, "scheme"))
         ELSE refs
  BY DEF Collecting
<1>5. /\ Absent \notin DOMAIN refs
      /\ \A id, local : id # Absent /\ Plain(local) => RefinedIn(refs, id, local) = SaidBefore(doc, n, id, local)
      /\ \A id : id # Absent => RefinedIn(refs, id, "identifier-type-scheme")
                                 = LastKey(doc, SchemesBefore(doc, n, id), "scheme")
  BY DEF WordsKept
<1>6. here => ~given
  BY DEF TextOf, GivesScheme
<1>7. /\ here => At(doc, i0, "refines") # Absent
                   /\ At(doc, i0, "property").local # "identifier-type-scheme"
      /\ given => At(doc, n, "refines") # Absent
  <2>1. here => At(doc, i0, "property").local # "identifier-type-scheme"
    BY <1>2 DEF MetadataRegular, TextOf, At
  <2>2. QED
    BY <2>1 DEF GivesScheme, Refining, At
<1> HIDE DEF here, given, refs, text
<1>8. Absent \notin DOMAIN opf'.refinements
  <2>1. CASE here
    BY <1>4, <1>5, <1>7, <2>1, StoredIds
  <2>2. CASE ~here /\ given
    BY <1>4, <1>5, <1>7, <2>2, StoredIds
  <2>3. CASE ~here /\ ~given
    BY <1>4, <1>5, <2>3
  <2>4. QED
    BY <2>1, <2>2, <2>3
<1>9. ASSUME NEW id, NEW local, id # Absent, Plain(local)
      PROVE  RefinedIn(opf'.refinements, id, local) = SaidBefore(doc, n + 1, id, local)
  <2> DEFINE new == here /\ At(doc, i0, "refines") = id /\ At(doc, i0, "property").local = local
  <2>1. RefinedIn(opf'.refinements, id, local) = IF new THEN text ELSE RefinedIn(refs, id, local)
    BY <1>4, <1>9, Stored
  <2> USE DEF here
  <2>2. new <=> /\ read /\ At(doc, i0, "property") # Absent /\ PropertyIs(doc, i0, local)
                /\ At(doc, i0, "refines") = id
    <3>1. PropertyIs(doc, i0, local) => ~IsA11y(At(doc, i0, "property"))
      BY <1>9 DEF PropertyIs, IsA11y
    <3>2. read /\ At(doc, i0, "property") # Absent /\ At(doc, i0, "refines") = id => Refining(doc[i0])
      BY <1>9 DEF TextOf, Refining, At
    <3>3. Refining(doc[i0]) => At(doc, i0, "property") # Absent
      BY DEF Refining, At
    <3>4. QED
      BY <3>1, <3>2, <3>3 DEF PropertyIs
  <2>3. Spoken(n + 1, id, local) = Spoken(n, id, local) \cup (IF new THEN {i0} ELSE {})
    BY <1>2, <2>2
  <2>4. Spoken(n, id, local) \in SUBSET (1..n - 2)
    BY <1>2
  <2>5. /\ SaidBefore(doc, n, id, local)
              = IF Spoken(n, id, local) = {} THEN Absent ELSE doc[Max(Spoken(n, id, local)) + 1].text
        /\ SaidBefore(doc, n + 1, id, local)
              = IF Spoken(n + 1, id, local) = {} THEN Absent ELSE doc[Max(Spoken(n + 1, id, local)) + 1].text
    BY DEF SaidBefore
  <2> HIDE DEF Spoken
  <2>6. CASE new
    <3>1. Max(Spoken(n, id, local) \cup {(n - 2) + 1}) = (n - 2) + 1
      BY <1>2, <2>4, <2>6, LastMore
    <3>2. Max(Spoken(n + 1, id, local)) = i0 /\ Spoken(n + 1, id, local) # {} /\ i0 + 1 = n
      BY <1>2, <2>3, <2>6, <3>1
    <3>3. QED
      BY <2>1, <2>5, <2>6, <3>2 DEF text
  <2>7. CASE ~new
    BY <1>5, <1>9, <2>1, <2>3, <2>5, <2>7
  <2>8. QED
    BY <2>6, <2>7
<1>10. ASSUME NEW id, id # Absent
       PROVE  RefinedIn(opf'.refinements, id, "identifier-type-scheme")
                = LastKey(doc, SchemesBefore(doc, n + 1, id), "scheme")
  <2> DEFINE new == given /\ At(doc, n, "refines") = id
  <2>1. RefinedIn(opf'.refinements, id, "identifier-type-scheme")
          = IF new THEN At(doc, n, "scheme") ELSE RefinedIn(refs, id, "identifier-type-scheme")
    BY <1>4, <1>6, <1>7, <1>10, Stored
  <2>2. SchemesBefore(doc, n + 1, id) = SchemesBefore(doc, n, id) \cup (IF new THEN {n} ELSE {})
    BY <1>1 DEF SchemesBefore, given
  <2>3. SchemesBefore(doc, n, id) \in SUBSET (1..n - 1)
    BY DEF SchemesBefore
  <2> HIDE DEF new
  <2>4. CASE new
    <3>1. Max(SchemesBefore(doc, n + 1, id)) = n
      BY <1>1, <2>2, <2>3, <2>4, LastMore
    <3>2. QED
      BY <2>1, <2>2, <2>4, <3>1 DEF LastKey
  <2>5. CASE ~new
    BY <1>5, <1>10, <2>1, <2>2, <2>5
  <2>6. QED
    BY <2>4, <2>5
<1>11. QED
  BY <1>3, <1>8, <1>9, <1>10 DEF WordsKept

-----------------------------------------------------------------------------
\* The items of a list and the positions they come from.
LEMMA ListedPlaces ==
    ASSUME NEW list, NEW S, NEW f, Listed(list, S, f)
    PROVE  /\ S \in SUBSET Nat /\ IsFiniteSet(S) /\ Cardinality(S) \in Nat
           /\ Len(list) = Cardinality(S) /\ DOMAIN list = 1..Cardinality(S)
           /\ \A i \in S : Rank(S, i) \in DOMAIN list /\ list[Rank(S, i)] = f[i]
           /\ \A i, j \in S : Rank(S, i) = Rank(S, j) => i = j
           /\ \A p \in DOMAIN list : \E i \in S : Rank(S, i) = p
<1>1. PICK V : list \in Seq(V)
  BY DEF Listed
<1>2. S \in SUBSET Nat /\ IsFiniteSet(S) /\ Len(list) = Cardinality(S)
        /\ \A i \in S : list[Rank(S, i)] = f[i]
  BY DEF Listed
<1>3. /\ Cardinality(S) \in Nat
      /\ \A i \in S : Rank(S, i) \in 1..Cardinality(S)
      /\ \A i, j \in S : i < j => Rank(S, i) < Rank(S, j)
      /\ \A p \in 1..Cardinality(S) : \E i \in S : Rank(S, i) = p
  BY <1>2, RankCounts
<1>4. DOMAIN list = 1..Cardinality(S)
  BY <1>1, <1>2
<1>5. ASSUME NEW i \in S, NEW j \in S, Rank(S, i) = Rank(S, j) PROVE i = j
  <2>1. Rank(S, i) \in Nat /\ i \in Nat /\ j \in Nat
    BY <1>2, <1>3
  <2>2. ~(i < j) /\ ~(j < i)
    BY <1>3, <1>5, <2>1
  <2>3. QED
    BY <2>1, <2>2
<1>6. QED
  BY <1>2, <1>3, <1>4, <1>5

\* The document has been read: what was gathered of all of it.
ClaimsOf(doc) == {i \in Elements(doc, {"meta"}) : Accessible(doc, i)}
SeriesIn(doc) == {i \in Elements(doc, {"meta"}) : Collects(doc, i)}
Schemes(doc, id) == {j \in DOMAIN doc : GivesScheme(doc, j) /\ At(doc, j, "refines") = id}
Pointers(doc) == {j \in DOMAIN doc : Designates(doc, j)}
AllListed(doc, o, b) ==
    /\ Listed(o.raw_titles, Elements(doc, {"title"}), TitleOf(doc))
    /\ Listed(o.raw_identifiers, Elements(doc, {"identifier"}), IdentifierOf(doc))
    /\ Listed(b.creators, Elements(doc, Agents), AgentOf(doc))
    /\ Listed(o.raw_a11y, ClaimsOf(doc), ClaimOf(doc))
    /\ Listed(o.pending_collections, SeriesIn(doc), SeriesOf(doc))
AllKnown(doc, o) ==
    LET agents == Elements(doc, Agents) IN
    /\ \A i \in agents : At(doc, i, "id") # Absent =>
         /\ At(doc, i, "id") \in DOMAIN o.creator_id_to_idx
         /\ o.creator_id_to_idx[At(doc, i, "id")] = Rank(agents, i)
    /\ \A id \in DOMAIN o.creator_id_to_idx :
         id # Absent /\ \E i \in agents : At(doc, i, "id") = id
PlainWord(local) == local \notin A11yNames \cup {"identifier-type-scheme"}
AllKept(doc, o) ==
    /\ o.unique_id_ref = LastKey(doc, Pointers(doc), "unique-identifier")
    /\ Absent \notin DOMAIN o.refinements
    /\ \A id, local : PlainWord(local) => RefinedIn(o.refinements, id, local) = Said(doc, id, local)
    /\ \A id : id # Absent =>
         RefinedIn(o.refinements, id, "identifier-type-scheme")
           = LastKey(doc, Schemes(doc, id), "scheme")

LEMMA ReadAll ==
    ASSUME NEW doc, NEW S, doc \in Seq(S), NEW o, NEW b,
           ListsHold(doc, Len(doc) + 1, o, b), CreatorsKnown(doc, Len(doc) + 1, o),
           WordsKept(doc, Len(doc) + 1, o)
    PROVE  AllListed(doc, o, b) /\ AllKnown(doc, o) /\ AllKept(doc, o)
<1> DEFINE n == Len(doc) + 1
<1>1. Len(doc) \in Nat /\ DOMAIN doc = 1..Len(doc) /\ 1..n - 1 = DOMAIN doc
  OBVIOUS
<1>2. ASSUME NEW names PROVE ReadBefore(doc, n, names) = Elements(doc, names)
  <2>1. \A i \in 1..n - 2 : i \in DOMAIN doc /\ i < Len(doc)
    BY <1>1
  <2>2. \A i \in DOMAIN doc : i < Len(doc) => i \in 1..n - 2
    BY <1>1
  <2>3. QED
    BY <2>1, <2>2 DEF ReadBefore, Elements
<1> HIDE DEF n
<1>3. ClaimsBefore(doc, n) = ClaimsOf(doc) /\ SeriesBefore(doc, n) = SeriesIn(doc)
  BY <1>2 DEF ClaimsBefore, ClaimsOf, SeriesBefore, SeriesIn
<1>4. AllListed(doc, o, b)
  BY <1>2, <1>3 DEF ListsHold, AllListed, n
<1>5. AllKnown(doc, o)
  BY <1>2 DEF CreatorsKnown, AllKnown, n
<1>6. ASSUME NEW id, NEW local, PlainWord(local)
      PROVE  RefinedIn(o.refinements, id, local) = Said(doc, id, local)
  <2>1. CASE id = Absent
    BY <2>1 DEF WordsKept, RefinedIn, Said
  <2>2. CASE id # Absent
    <3>1. RefinedIn(o.refinements, id, local) = SaidBefore(doc, n, id, local)
      BY <1>6, <2>2 DEF WordsKept, PlainWord, n
    <3> DEFINE before == {i \in ReadBefore(doc, n, {"meta"}) :
                   /\ At(doc, i, "property") # Absent /\ PropertyIs(doc, i, local)
                   /\ At(doc, i, "refines") = id}
               said == {i \in Metas(doc, local) : At(doc, i, "refines") = id}
    <3>2. before = said
      BY <1>2 DEF Metas, PropertyIs, At
    <3>3. SaidBefore(doc, n, id, local) = IF before = {} THEN Absent ELSE doc[Max(before) + 1].text
      BY DEF SaidBefore
    <3>4. Said(doc, id, local) = IF said = {} THEN Absent ELSE doc[Max(said) + 1].text
      BY <2>2 DEF Said, TextAt
    <3> HIDE DEF before, said
    <3>5. QED
      BY <3>1, <3>2, <3>3, <3>4
  <2>3. QED
    BY <2>1, <2>2
<1>7. PointersBefore(doc, n) = Pointers(doc) /\ \A id : SchemesBefore(doc, n, id) = Schemes(doc, id)
  BY <1>1 DEF PointersBefore, Pointers, SchemesBefore, Schemes, n
<1>8. AllKept(doc, o)
  BY <1>6, <1>7 DEF WordsKept, AllKept, n
<1>9. QED
  BY <1>4, <1>5, <1>8

\* What the second pass makes of it.
LEMMA BookAtEnd ==
    ASSUME IsBook(book), OpfRead
    PROVE  /\ book'.creators = [i \in DOMAIN book.creators |-> RefineCreator(i, book.creators[i])]
           /\ MainTitle # 0 =>
                /\ book'.title = opf.raw_titles[MainTitle].text
                /\ book'.sort_as = Refined(opf.raw_titles[MainTitle].id, "file-as")
           /\ Subtitle # 0 => book'.subtitle = opf.raw_titles[Subtitle].text
           /\ book'.belongs_to = [i \in DOMAIN opf.pending_collections |->
                                     Collection(opf.pending_collections[i])]
           /\ book'.media_overlays = IF opf.mo_meta = Absent THEN book.media_overlays
                                     ELSE [opf.mo_meta EXCEPT !.durations = Durations]
           /\ book'.accessibility = Accessibility
           /\ opf.raw_identifiers # << >> =>
                /\ book'.identifier = opf.raw_identifiers[Primary].value
                /\ book'.alt_identifiers = AltIdentifiers
BY DEF OpfRead, IsBook, EmptyBook

\* The main title and the subtitle.
TypeOfTitle(doc, i) == IF At(doc, i, "title-type") = "subtitle" THEN "subtitle"
                       ELSE SaidOf(doc, i, "title-type")
LEMMA TitlesKnown ==
    ASSUME NEW doc, NEW S, doc \in Seq(S), AllListed(doc, opf, book), AllKept(doc, opf),
           NEW i \in Elements(doc, {"title"})
    PROVE  LET raw == opf.raw_titles[Rank(Elements(doc, {"title"}), i)] IN
           /\ raw.text = TextAt(doc, i) /\ TitleType(raw) = TypeOfTitle(doc, i)
           /\ Refined(raw.id, "file-as") = SaidOf(doc, i, "file-as")
           /\ Refined(raw.id, "display-seq") = SaidOf(doc, i, "display-seq")
<1> DEFINE raw == opf.raw_titles[Rank(Elements(doc, {"title"}), i)]
<1>1. raw = TitleOf(doc)[i]
  BY ListedPlaces DEF AllListed
<1>2. i \in DOMAIN doc
  BY DEF Elements
<1>3. raw.id = At(doc, i, "id") /\ raw.text = TextAt(doc, i)
        /\ raw.epub2_subtitle = (At(doc, i, "title-type") = "subtitle")
  <2>1. TitleOf(doc)[i] = [id |-> At(doc, i, "id"), text |-> TextAt(doc, i),
                           epub2_subtitle |-> At(doc, i, "title-type") = "subtitle"]
    BY <1>2 DEF TitleOf, At, TextAt
  <2>2. QED
    BY <1>1, <2>1
<1> HIDE DEF raw
<1>4. ASSUME NEW local \in {"title-type", "file-as", "display-seq"}
      PROVE  Refined(raw.id, local) = SaidOf(doc, i, local)
  <2>1. PlainWord(local)
    BY DEF PlainWord, A11yNames
  <2>2. RefinedIn(opf.refinements, raw.id, local) = Said(doc, raw.id, local)
    BY <2>1 DEF AllKept
  <2>3. QED
    BY <1>3, <2>2 DEF Refined, RefinedIn, SaidOf
<1>5. TitleType(raw) = TypeOfTitle(doc, i)
  BY <1>3, <1>4 DEF TitleType, TypeOfTitle
<1>6. QED
  BY <1>3, <1>4, <1>5 DEF raw

LEMMA TitlesEnd ==
    ASSUME NEW doc, NEW S, doc \in Seq(S), AllListed(doc, opf, book), AllKept(doc, opf),
           IsBook(book), OpfRead
    PROVE  TitlesDeclared(doc, book')
<1> DEFINE titles == Elements(doc, {"title"})
           raws == opf.raw_titles
           r(i) == Rank(titles, i)
           OfType(t) == {i \in titles : TypeOfTitle(doc, i) = t}
           Typed(t) == {p \in DOMAIN raws : TitleType(raws[p]) = t}
<1>1. /\ titles \in SUBSET Nat /\ IsFiniteSet(titles) /\ DOMAIN raws = 1..Cardinality(titles)
      /\ \A i \in titles : r(i) \in DOMAIN raws
      /\ \A p \in DOMAIN raws : \E i \in titles : r(i) = p
  BY ListedPlaces DEF AllListed
<1>2. ASSUME NEW i \in titles
      PROVE  /\ raws[r(i)].text = TextAt(doc, i) /\ TitleType(raws[r(i)]) = TypeOfTitle(doc, i)
             /\ Refined(raws[r(i)].id, "file-as") = SaidOf(doc, i, "file-as")
             /\ Refined(raws[r(i)].id, "display-seq") = SaidOf(doc, i, "display-seq")
  BY TitlesKnown
<1>3. \A t : \A i \in titles : r(i) \in Typed(t) <=> i \in OfType(t)
  BY <1>1, <1>2
<1> DEFINE mains == OfType("main")
           subs == OfType("subtitle")
           rest == titles \ subs
           chosen == IF mains # {} THEN mains ELSE rest
           places == IF Typed("main") # {} THEN Typed("main") ELSE DOMAIN raws \ Typed("subtitle")
<1>4. MainTitle = IF places # {} THEN First(places) ELSE 0
  BY DEF MainTitle
<1>5. /\ mains \in SUBSET titles /\ Typed("main") \in SUBSET (1..Cardinality(titles))
      /\ rest \in SUBSET titles
      /\ DOMAIN raws \ Typed("subtitle") \in SUBSET (1..Cardinality(titles))
      /\ \A i \in titles : r(i) \in Typed("main") <=> i \in mains
      /\ \A i \in titles : r(i) \in DOMAIN raws \ Typed("subtitle") <=> i \in rest
  BY <1>1, <1>3
<1> HIDE DEF titles, OfType, Typed
<1>6. mains = {} <=> Typed("main") = {}
  <2>1. PlacesOf(titles, mains, Typed("main"))
    BY <1>1, <1>5 DEF PlacesOf
  <2>2. QED
    BY <2>1, FirstListed
<1>7. /\ chosen \in SUBSET titles /\ places \in SUBSET (1..Cardinality(titles))
      /\ \A i \in titles : r(i) \in places <=> i \in chosen
  BY <1>5, <1>6
<1>p. PlacesOf(titles, chosen, places)
  BY <1>1, <1>7 DEF PlacesOf
<1>8. chosen # {} <=> mains \cup rest # {}
  OBVIOUS
<1>9. chosen # {} => /\ First(chosen) \in titles /\ MainTitle = r(First(chosen)) /\ MainTitle # 0
  <2> SUFFICES ASSUME chosen # {}
               PROVE  First(chosen) \in titles /\ MainTitle = r(First(chosen)) /\ MainTitle # 0
    OBVIOUS
  <2> HIDE DEF chosen, places
  <2>1. places # {} /\ First(chosen) \in chosen /\ First(places) \in places
          /\ First(places) = Rank(titles, First(chosen))
    BY <1>p, FirstListed
  <2>2. \A p \in places : p # 0
    BY <1>7
  <2>3. QED
    BY <1>4, <1>7, <2>1, <2>2
<1>10. chosen # {} =>
         /\ book'.title = TextAt(doc, First(chosen))
         /\ book'.sort_as = SaidOf(doc, First(chosen), "file-as")
  BY <1>2, <1>9, BookAtEnd
<1>11. ASSUME subs # {}
       PROVE  \E i \in subs : /\ book'.subtitle = TextAt(doc, i)
                  /\ LET SeqAt(k) == Lookup(NumberOf, SaidOf(doc, k, "display-seq")) IN
                     SeqAt(i) # Absent => \A j \in subs : SeqAt(j) # Absent => SeqAt(i) <= SeqAt(j)
  <2> DEFINE P == Typed("subtitle")
             Seq0(p) == DisplaySeq(raws[p])
             SeqAt(k) == Lookup(NumberOf, SaidOf(doc, k, "display-seq"))
             least == {p \in P : \A q \in P : Seq0(p) <= Seq0(q)}
  <2>1. \A p \in P : Seq0(p) \in Nat
    BY NumbersAssumption DEF DisplaySeq, MaxDisplaySeq
  <2>2. \A i \in subs : r(i) \in P
    BY <1>3 DEF OfType
  <2>3. P \in SUBSET Nat /\ P # {} /\ \A p \in P : p # 0
    BY <1>1, <1>11, <2>2 DEF Typed
  <2>4. least # {}
    <3> DEFINE values == {Seq0(p) : p \in P}
    <3>1. values \in SUBSET Nat /\ values # {}
      BY <2>1, <2>3
    <3>2. PICK v \in values : \A w \in values : v <= w
      BY <3>1, LeastNumber
    <3>3. QED
      BY <3>2
  <2>5. least \in SUBSET Nat
    BY <2>3
  <2>6. First(least) \in least
    <3> HIDE DEF least
    <3>1. \E p \in least : \A q \in least : p <= q
      BY <2>4, <2>5, LeastNumber
    <3>2. QED
      BY <3>1 DEF First
  <2>7. Subtitle = First(least)
    BY <2>3 DEF Subtitle, Typed
  <2>8. PICK i \in titles : r(i) = First(least)
    BY <1>1, <2>6 DEF Typed
  <2>9. i \in subs
    BY <1>3, <2>6, <2>8
  <2>10. \A q \in P : Seq0(r(i)) <= Seq0(q)
    BY <2>6, <2>8
  <2>11. book'.subtitle = TextAt(doc, i)
    BY <1>2, <2>3, <2>6, <2>7, <2>8, BookAtEnd
  <2>12. ASSUME NEW k \in titles, SeqAt(k) # Absent PROVE Seq0(r(k)) = SeqAt(k)
    BY <1>2, <2>12 DEF Lookup, DisplaySeq
  <2>13. \A j \in subs : j \in titles
    BY DEF OfType
  <2> HIDE DEF Seq0, P, least
  <2>14. SeqAt(i) # Absent => \A j \in subs : SeqAt(j) # Absent => SeqAt(i) <= SeqAt(j)
    BY <2>2, <2>8, <2>10, <2>12, <2>13
  <2>15. QED
    BY <2>9, <2>11, <2>14
<1>12. QED
  BY <1>8, <1>10, <1>11 DEF TitlesDeclared, OfType, titles, TypeOfTitle

-----------------------------------------------------------------------------
\* The identifier and the others.
LEMMA RankLess ==
    ASSUME NEW S \in SUBSET Nat, IsFiniteSet(S), NEW n \in S
    PROVE  /\ IsFiniteSet(S \ {n}) /\ Cardinality(S \ {n}) = Cardinality(S) - 1
           /\ \A i \in S \ {n} :
                Rank(S \ {n}, i) = IF i < n THEN Rank(S, i) ELSE Rank(S, i) - 1
<1> DEFINE less == S \ {n}
<1>1. IsFiniteSet(less) /\ Cardinality(less) = Cardinality(S) - 1
  BY FS_RemoveElement
<1>2. ASSUME NEW i \in less, i < n PROVE Rank(less, i) = Rank(S, i)
  <2>1. {j \in less : j <= i} = {j \in S : j <= i}
    BY <1>2
  <2>2. QED
    BY <2>1 DEF Rank
<1>3. ASSUME NEW i \in less, ~(i < n) PROVE Rank(less, i) = Rank(S, i) - 1
  <2> DEFINE upto == {j \in S : j <= i}
  <2>1. n \in upto
    BY <1>3
  <2>2. IsFiniteSet(upto)
    BY FS_Subset
  <2>3. {j \in less : j <= i} = upto \ {n}
    OBVIOUS
  <2> HIDE DEF upto
  <2>4. Cardinality(upto \ {n}) = Cardinality(upto) - 1
    BY <2>1, <2>2, FS_RemoveElement
  <2>5. QED
    BY <2>3, <2>4 DEF Rank, upto
<1>4. QED
  BY <1>1, <1>2, <1>3

\* A sequence without one of its items.
Without(s, p) == SubSeq(s, 1, p - 1) \o SubSeq(s, p + 1, Len(s))
LEMMA OneLess ==
    ASSUME NEW V, NEW s \in Seq(V), NEW p \in 1..Len(s)
    PROVE  /\ Len(Without(s, p)) = Len(s) - 1
           /\ \A q \in 1..Len(s) : /\ q < p => Without(s, p)[q] = s[q]
                                   /\ q > p => Without(s, p)[q - 1] = s[q]
<1> DEFINE a == SubSeq(s, 1, p - 1)
           b == SubSeq(s, p + 1, Len(s))
           t == a \o b
<1>1. /\ a \in Seq(V) /\ Len(a) = p - 1
      /\ \A q \in 1..p - 1 : a[q] = s[q]
  OBVIOUS
<1>2. /\ b \in Seq(V) /\ Len(b) = Len(s) - p
      /\ \A q \in 1..Len(s) - p : b[q] = s[q + p]
  OBVIOUS
<1> HIDE DEF a, b
<1>3. Len(t) = Len(s) - 1
  BY <1>1, <1>2
<1>4. ASSUME NEW q \in 1..Len(s), q < p PROVE t[q] = s[q]
  BY <1>1, <1>2, <1>4
<1>5. ASSUME NEW q \in 1..Len(s), q > p PROVE t[q - 1] = s[q]
  <2>1. q - p \in 1..Len(s) - p /\ (q - p) + p = q /\ (q - 1) - (p - 1) = q - p
    <3>1. p \in Nat /\ q \in Nat /\ Len(s) \in Nat /\ q <= Len(s)
      OBVIOUS
    <3>2. QED
      BY <1>5, <3>1
  <2>2. t[q - 1] = b[q - p]
    BY <1>1, <1>2, <1>5, <2>1
  <2>3. QED
    BY <1>2, <2>1, <2>2
<1>6. QED
  BY <1>3, <1>4, <1>5 DEF a, b, Without

LEMMA SchemesKnown ==
    ASSUME NEW doc, NEW S, doc \in Seq(S), AllListed(doc, opf, book), AllKept(doc, opf),
           NEW i \in Elements(doc, {"identifier"})
    PROVE  LET raw == opf.raw_identifiers[Rank(Elements(doc, {"identifier"}), i)] IN
           /\ raw.value = TextAt(doc, i) /\ raw.id = At(doc, i, "id")
           /\ SchemeOf(raw) = SchemeAt(doc, i)
<1> DEFINE raw == opf.raw_identifiers[Rank(Elements(doc, {"identifier"}), i)]
           id == At(doc, i, "id")
           own == At(doc, i, "scheme")
           given == {j \in DOMAIN doc :
                    /\ doc[j].ev = "start" /\ doc[j].name = "meta"
                    /\ At(doc, j, "property") # Absent
                    /\ At(doc, j, "property").local = "identifier-type"
                    /\ At(doc, j, "refines") = id /\ At(doc, j, "scheme") # Absent}
<1>1. raw = IdentifierOf(doc)[i]
  BY ListedPlaces DEF AllListed
<1>2. raw = [id |-> id, scheme |-> own, value |-> TextAt(doc, i)]
  <2>1. i \in DOMAIN doc
    BY DEF Elements
  <2>2. QED
    BY <1>1, <2>1 DEF IdentifierOf, At, TextAt
<1>3. raw.value = TextAt(doc, i) /\ raw.id = id /\ raw.scheme = own
  BY <1>2
<1>4. SchemeAt(doc, i) = IF own # Absent THEN own
                         ELSE IF id # Absent /\ given # {} THEN At(doc, Max(given), "scheme")
                         ELSE SaidOf(doc, i, "identifier-type")
  BY DEF SchemeAt
<1>5. Refined(id, "identifier-type") = SaidOf(doc, i, "identifier-type")
  <2>1. PlainWord("identifier-type")
    BY DEF PlainWord, A11yNames
  <2>2. RefinedIn(opf.refinements, id, "identifier-type") = Said(doc, id, "identifier-type")
    BY <2>1 DEF AllKept
  <2>3. QED
    BY <2>2 DEF Refined, RefinedIn, SaidOf
<1>6. id = Absent => Refined(id, "identifier-type-scheme") = Absent
  BY DEF AllKept, Refined
<1>7. id # Absent => given = Schemes(doc, id)
  BY DEF Schemes, GivesScheme, Refining, At, PropertyIs
<1>8. id # Absent => Refined(id, "identifier-type-scheme") = LastKey(doc, Schemes(doc, id), "scheme")
  BY DEF AllKept, Refined, RefinedIn
<1>9. given # {} => At(doc, Max(given), "scheme") # Absent
  <2>1. given \in SUBSET (1..Len(doc)) /\ Len(doc) \in Nat
    OBVIOUS
  <2>2. given # {} => Max(given) \in given
    <3> HIDE DEF given
    <3>1. QED
      BY <2>1, MaxMember
  <2>3. QED
    BY <2>2
<1> HIDE DEF given, raw, id, own
<1>10. SchemeOf(raw) = SchemeAt(doc, i)
  BY <1>3, <1>4, <1>5, <1>6, <1>7, <1>8, <1>9 DEF SchemeOf, OrElse, LastKey, At
<1>11. QED
  BY <1>3, <1>10 DEF raw, id

LEMMA IdentifierEnd ==
    ASSUME NEW doc, NEW S, doc \in Seq(S), AllListed(doc, opf, book), AllKept(doc, opf),
           IsBook(book), OpfRead
    PROVE  IdentifierDesignated(doc, book')
<1> DEFINE ids == Elements(doc, {"identifier"})
           raws == opf.raw_identifiers
           count == Cardinality(ids)
           r(i) == Rank(ids, i)
           ref == opf.unique_id_ref
           named == {i \in ids : At(doc, i, "id") = ref /\ ref # Absent}
           designated == {p \in DOMAIN raws : raws[p].id = ref /\ ref # Absent}
           chosen == IF named # {} THEN named ELSE ids
           places == IF designated # {} THEN designated ELSE 1..count
           primary == First(chosen)
           others == ids \ {primary}
<1>1. /\ ids \in SUBSET Nat /\ IsFiniteSet(ids) /\ count \in Nat
      /\ Len(raws) = count /\ DOMAIN raws = 1..count
      /\ \A i \in ids : r(i) \in DOMAIN raws
  BY ListedPlaces DEF AllListed
<1>2. ASSUME NEW i \in ids
      PROVE  raws[r(i)].value = TextAt(doc, i) /\ raws[r(i)].id = At(doc, i, "id")
               /\ SchemeOf(raws[r(i)]) = SchemeAt(doc, i)
  BY SchemesKnown
<1>3. ref = IF Pointers(doc) = {} THEN Absent ELSE At(doc, Max(Pointers(doc)), "unique-identifier")
  BY DEF AllKept, LastKey, At
<1>4. named = {i \in ids : /\ Pointers(doc) # {} /\ At(doc, i, "id") # Absent
                           /\ At(doc, i, "id") = At(doc, Max(Pointers(doc)), "unique-identifier")}
  <2> HIDE DEF ids
  <2>1. QED
    BY <1>3
<1>5. Pointers(doc) = {i \in DOMAIN doc : /\ doc[i].ev = "start" /\ doc[i].name = "package"
                                          /\ At(doc, i, "unique-identifier") # Absent}
  BY DEF Pointers, Designates, At
<1> HIDE DEF ids, ref
<1>6. /\ designated \in SUBSET (1..count) /\ named \in SUBSET ids
      /\ \A i \in ids : r(i) \in designated <=> i \in named
      /\ \A i \in ids : r(i) \in 1..count <=> i \in ids
  BY <1>1, <1>2
<1>7. named = {} <=> designated = {}
  <2> HIDE DEF named, designated
  <2>1. PlacesOf(ids, named, designated)
    BY <1>1, <1>6 DEF PlacesOf
  <2>2. QED
    BY <2>1, FirstListed
<1>8. /\ chosen \in SUBSET ids /\ places \in SUBSET (1..count)
      /\ \A i \in ids : r(i) \in places <=> i \in chosen
  BY <1>6, <1>7
<1>9. ASSUME ids # {}
      PROVE  /\ primary \in ids /\ Primary = r(primary) /\ Primary \in 1..count
  <2>1. chosen # {}
    BY <1>9
  <2>2. places # {} /\ primary \in ids /\ First(places) \in places /\ First(places) = r(primary)
    <3> HIDE DEF chosen, places
    <3>1. First(chosen) \in chosen /\ First(places) \in places
            /\ First(places) = Rank(ids, First(chosen))
      <4>1. PlacesOf(ids, chosen, places)
        BY <1>1, <1>8 DEF PlacesOf
      <4>2. QED
        BY <2>1, <4>1, FirstListed
    <3>2. QED
      BY <1>8, <3>1
  <2>3. designated = {} => First(places) = 1
    <3> SUFFICES ASSUME designated = {} PROVE First(places) = 1
      OBVIOUS
    <3>1. places = 1..count /\ 1 \in 1..count
      BY <1>1, <2>2
    <3>2. \A p \in 1..count : 1 <= p
      BY <1>1
    <3>3. First(places) \in places /\ \A p \in places : First(places) <= p
      BY <3>1, <3>2 DEF First
    <3> HIDE DEF places
    <3>4. First(places) \in Nat /\ First(places) >= 1 /\ First(places) <= 1
      BY <1>1, <3>1, <3>3
    <3>5. QED
      BY <3>4
  <2>4. Primary = IF designated = {} THEN 1 ELSE First(designated)
    BY DEF Primary, ref
  <2>5. QED
    BY <1>8, <2>2, <2>3, <2>4
<1>10. ASSUME ids # {}
       PROVE  /\ book'.identifier = TextAt(doc, primary)
              /\ Len(book'.alt_identifiers) = Cardinality(others)
              /\ \A i \in others : book'.alt_identifiers[Rank(others, i)] =
                                      [value |-> TextAt(doc, i), scheme |-> SchemeAt(doc, i)]
  <2> DEFINE alt == [p \in DOMAIN raws |-> [value |-> raws[p].value, scheme |-> SchemeOf(raws[p])]]
             Range0 == {alt[p] : p \in DOMAIN raws}
             t == Without(alt, Primary)
  <2>1. raws # << >>
    BY <1>1, <1>9, <1>10
  <2>2. alt \in Seq(Range0) /\ Len(alt) = count
    BY <1>1
  <2>3. book'.identifier = raws[Primary].value /\ book'.alt_identifiers = t
    BY <2>1, BookAtEnd DEF AltIdentifiers, Without
  <2> HIDE DEF Range0
  <2>4. ASSUME NEW i \in ids
        PROVE  alt[r(i)] = [value |-> TextAt(doc, i), scheme |-> SchemeAt(doc, i)]
    BY <1>1, <1>2
  <2> HIDE DEF alt
  <2>5. /\ Len(t) = count - 1
        /\ \A q \in 1..count : /\ q < Primary => t[q] = alt[q]
                               /\ q > Primary => t[q - 1] = alt[q]
    <3>1. Primary \in 1..Len(alt)
      BY <1>9, <1>10, <2>2
    <3>2. QED
      BY <2>2, <3>1, OneLess
  <2> HIDE DEF t, others, primary
  <2>6. primary \in ids
    BY <1>9, <1>10
  <2>7. /\ Cardinality(others) = count - 1
        /\ \A i \in others : Rank(others, i) = IF i < primary THEN r(i) ELSE r(i) - 1
    BY <1>1, <2>6, RankLess DEF others
  <2>8. \A i, j \in ids : i < j => r(i) < r(j)
    BY <1>1, RankCounts
  <2>9. ASSUME NEW i \in others PROVE t[Rank(others, i)] = alt[r(i)] /\ i \in ids
    <3>1. i \in ids /\ i \in Nat /\ primary \in Nat /\ i # primary
      BY <1>1, <2>6 DEF others
    <3>2. r(i) \in 1..count /\ Primary = r(primary)
      BY <1>1, <1>9, <1>10, <3>1
    <3>3. CASE i < primary
      BY <2>5, <2>6, <2>7, <2>8, <2>9, <3>1, <3>2, <3>3
    <3>4. CASE primary < i
      <4>1. r(i) > Primary
        BY <1>1, <2>6, <2>8, <3>1, <3>2, <3>4
      <4>2. Rank(others, i) = r(i) - 1
        BY <2>7, <2>9, <3>1, <3>4
      <4>3. QED
        BY <2>5, <3>1, <3>2, <4>1, <4>2
    <3>5. QED
      BY <3>1, <3>3, <3>4
  <2>10. book'.identifier = TextAt(doc, primary)
    BY <1>2, <1>9, <1>10, <2>3 DEF primary
  <2>11. QED
    BY <2>3, <2>4, <2>5, <2>7, <2>9, <2>10
<1>11. IdentifierDesignated(doc, book') <=>
         (ids # {} =>
            /\ book'.identifier = TextAt(doc, primary)
            /\ Len(book'.alt_identifiers) = Cardinality(others)
            /\ \A i \in others : book'.alt_identifiers[Rank(others, i)] =
                                    [value |-> TextAt(doc, i), scheme |-> SchemeAt(doc, i)])
  BY <1>4, <1>5 DEF IdentifierDesignated, ids
<1>12. QED
  BY <1>10, <1>11

-----------------------------------------------------------------------------
\* Creators, collections and overlays.
LEMMA CreatorRefined ==
    ASSUME NEW doc, NEW S, doc \in Seq(S), AllListed(doc, opf, book), AllKept(doc, opf),
           AllKnown(doc, opf), NEW i \in Elements(doc, Agents)
    PROVE  LET r == Rank(Elements(doc, Agents), i) IN
           RefineCreator(r, book.creators[r]) =
             [name |-> TextAt(doc, i), role |-> SaidOf(doc, i, "role"),
              file_as |-> SaidOf(doc, i, "file-as")]
<1> DEFINE agents == Elements(doc, Agents)
           r == Rank(agents, i)
           id == At(doc, i, "id")
           creator == [name |-> TextAt(doc, i), role |-> Absent, file_as |-> Absent]
<1>1. book.creators[r] = creator
  <2>1. book.creators[r] = AgentOf(doc)[i]
    BY ListedPlaces DEF AllListed
  <2>2. i \in DOMAIN doc
    BY DEF Elements
  <2>3. QED
    BY <2>1, <2>2 DEF AgentOf, TextAt
<1>2. /\ \A k \in agents : At(doc, k, "id") # Absent =>
           /\ At(doc, k, "id") \in DOMAIN opf.creator_id_to_idx
           /\ opf.creator_id_to_idx[At(doc, k, "id")] = Rank(agents, k)
      /\ \A x \in DOMAIN opf.creator_id_to_idx :
           x # Absent /\ \E k \in agents : At(doc, k, "id") = x
  BY DEF AllKnown, At
<1>3. \A k \in agents : Rank(agents, k) = r => k = i
  BY ListedPlaces DEF AllListed
<1> HIDE DEF agents, r
<1>4. CreatorIds(r) = IF id = Absent THEN {} ELSE {id}
  <2>1. ASSUME NEW x \in CreatorIds(r) PROVE x = id /\ id # Absent
    BY <1>2, <1>3 DEF CreatorIds
  <2>2. i \in agents
    BY DEF agents
  <2>3. id # Absent => id \in CreatorIds(r)
    BY <1>2, <2>2 DEF CreatorIds, r
  <2>4. QED
    BY <2>1, <2>3
<1>5. PlainWord("role") /\ PlainWord("file-as")
  BY DEF PlainWord, A11yNames
<1>6. Refined(id, "role") = SaidOf(doc, i, "role") /\ Refined(id, "file-as") = SaidOf(doc, i, "file-as")
  <2>1. RefinedIn(opf.refinements, id, "role") = Said(doc, id, "role")
    BY <1>5 DEF AllKept
  <2>2. RefinedIn(opf.refinements, id, "file-as") = Said(doc, id, "file-as")
    BY <1>5 DEF AllKept
  <2>3. QED
    BY <2>1, <2>2 DEF Refined, RefinedIn, SaidOf
<1>7. RefineCreator(r, creator) =
             [name |-> TextAt(doc, i), role |-> SaidOf(doc, i, "role"),
              file_as |-> SaidOf(doc, i, "file-as")]
  <2>1. CASE id = Absent
    <3>1. SaidOf(doc, i, "role") = Absent /\ SaidOf(doc, i, "file-as") = Absent
      BY <2>1 DEF SaidOf, Said
    <3>2. QED
      BY <1>4, <2>1, <3>1 DEF RefineCreator
  <2>2. CASE id # Absent
    <3>1. CreatorIds(r) = {id} /\ (CHOOSE x \in CreatorIds(r) : TRUE) = id
      BY <1>4, <2>2
    <3>2. RefineCreator(r, creator) =
             [creator EXCEPT !.role = OrElse(Refined(id, "role"), @),
                             !.file_as = OrElse(Refined(id, "file-as"), @)]
      BY <3>1 DEF RefineCreator
    <3>3. QED
      BY <1>6, <3>2 DEF OrElse
  <2>3. QED
    BY <2>1, <2>2
<1>8. QED
  BY <1>1, <1>7 DEF agents, r

LEMMA SeriesKnown ==
    ASSUME NEW doc, NEW S, doc \in Seq(S), AllListed(doc, opf, book), AllKept(doc, opf),
           NEW i \in SeriesIn(doc)
    PROVE  Collection(opf.pending_collections[Rank(SeriesIn(doc), i)]) =
             [name |-> TextAt(doc, i),
              collection_type |-> OrElse(SaidOf(doc, i, "collection-type"), "series"),
              position |-> Lookup(NumberOf, SaidOf(doc, i, "group-position"))]
<1> DEFINE id == At(doc, i, "id")
<1>1. opf.pending_collections[Rank(SeriesIn(doc), i)] = <<id, TextAt(doc, i)>>
  <2>1. opf.pending_collections[Rank(SeriesIn(doc), i)] = SeriesOf(doc)[i]
    BY ListedPlaces DEF AllListed
  <2>2. i \in DOMAIN doc
    BY DEF SeriesIn, Elements
  <2>3. QED
    BY <2>1, <2>2 DEF SeriesOf, At, TextAt
<1>2. ASSUME NEW local \in {"collection-type", "group-position"}
      PROVE  Refined(id, local) = SaidOf(doc, i, local)
  <2>1. PlainWord(local)
    BY DEF PlainWord, A11yNames
  <2>2. RefinedIn(opf.refinements, id, local) = Said(doc, id, local)
    BY <2>1 DEF AllKept
  <2>3. QED
    BY <2>2 DEF Refined, RefinedIn, SaidOf
<1> HIDE DEF id
<1>3. Collection(<<id, TextAt(doc, i)>>) =
             [name |-> TextAt(doc, i),
              collection_type |-> OrElse(SaidOf(doc, i, "collection-type"), "series"),
              position |-> Lookup(NumberOf, SaidOf(doc, i, "group-position"))]
  BY <1>2 DEF Collection, Lookup
<1>4. QED
  BY <1>1, <1>3

LEMMA DurationsKnown ==
    ASSUME NEW doc, NEW S, doc \in Seq(S), AllKept(doc, opf)
    PROVE  LET timed == {At(doc, i, "refines") : i \in Metas(doc, "media:duration")} \ {Absent} IN
           Durations = [id \in {x \in timed : Said(doc, x, "media:duration") \in DOMAIN ClockOf}
                          |-> ClockOf[Said(doc, id, "media:duration")]]
<1> DEFINE timed == {At(doc, i, "refines") : i \in Metas(doc, "media:duration")} \ {Absent}
           refs == opf.refinements
           word(x) == Said(doc, x, "media:duration")
<1>1. \A x : Refined(x, "media:duration") = word(x)
  <2>1. PlainWord("media:duration")
    BY DEF PlainWord, A11yNames
  <2>2. \A x : RefinedIn(refs, x, "media:duration") = word(x)
    BY <2>1 DEF AllKept
  <2>3. QED
    BY <2>2 DEF Refined, RefinedIn
<1>2. \A x : word(x) # Absent => x \in timed
  BY DEF Said
<1>3. \A x : word(x) # Absent => x \in DOMAIN refs
  BY <1>1 DEF Refined
<1>4. {x \in DOMAIN refs : Refined(x, "media:duration") \in DOMAIN ClockOf}
         = {x \in timed : word(x) \in DOMAIN ClockOf}
  <2> HIDE DEF timed, word
  <2>1. QED
    BY <1>1, <1>2, <1>3, ClocksAssumption
<1>5. QED
  <2> HIDE DEF timed, word
  <2>1. Durations = [id \in {x \in timed : word(x) \in DOMAIN ClockOf} |-> ClockOf[word(id)]]
    BY <1>1, <1>4 DEF Durations
  <2>2. QED
    BY <2>1 DEF timed, word

LEMMA RefinementsEnd ==
    ASSUME NEW doc, NEW S, doc \in Seq(S), AllListed(doc, opf, book), AllKept(doc, opf),
           AllKnown(doc, opf), IsBook(book), book.media_overlays = Absent, OverlayKnown(opf), OpfRead
    PROVE  RefinementsReachTheirTargets(doc, book')
<1> DEFINE agents == Elements(doc, Agents)
           series == {i \in Metas(doc, "belongs-to-collection") :
                        At(doc, i, "id") # Absent /\ At(doc, i, "refines") = Absent}
           timed == {At(doc, i, "refines") : i \in Metas(doc, "media:duration")} \ {Absent}
<1>1. /\ DOMAIN book.creators = 1..Cardinality(agents) /\ Cardinality(agents) \in Nat
      /\ \A i \in agents : Rank(agents, i) \in 1..Cardinality(agents)
  BY ListedPlaces DEF AllListed
<1>2. book'.creators = [p \in 1..Cardinality(agents) |-> RefineCreator(p, book.creators[p])]
  BY <1>1, BookAtEnd
<1>3. Len(book'.creators) = Cardinality(agents)
  BY <1>1, <1>2
<1>4. \A i \in agents : book'.creators[Rank(agents, i)] =
            [name |-> TextAt(doc, i), role |-> SaidOf(doc, i, "role"),
             file_as |-> SaidOf(doc, i, "file-as")]
  BY <1>1, <1>2, CreatorRefined
<1>5. series = SeriesIn(doc)
  BY DEF Metas, SeriesIn, Collects, Global, PropertyIs, At, Elements
<1>6. /\ DOMAIN opf.pending_collections = 1..Cardinality(series) /\ Cardinality(series) \in Nat
      /\ \A i \in series : Rank(series, i) \in 1..Cardinality(series)
  <2>1. /\ DOMAIN opf.pending_collections = 1..Cardinality(SeriesIn(doc))
        /\ Cardinality(SeriesIn(doc)) \in Nat
        /\ \A i \in SeriesIn(doc) : Rank(SeriesIn(doc), i) \in 1..Cardinality(SeriesIn(doc))
    BY ListedPlaces DEF AllListed
  <2> HIDE DEF series
  <2>2. QED
    BY <1>5, <2>1
<1>7. book'.belongs_to =
        [p \in 1..Cardinality(series) |-> Collection(opf.pending_collections[p])]
  BY <1>6, BookAtEnd
<1>8. Len(book'.belongs_to) = Cardinality(series)
  BY <1>6, <1>7
<1>9. \A i \in series : book'.belongs_to[Rank(series, i)] =
            [name |-> TextAt(doc, i),
             collection_type |-> OrElse(SaidOf(doc, i, "collection-type"), "series"),
             position |-> Lookup(NumberOf, SaidOf(doc, i, "group-position"))]
  BY <1>5, <1>6, <1>7, SeriesKnown
<1>10. book'.media_overlays # Absent =>
              book'.media_overlays.durations =
                [id \in {x \in timed : Said(doc, x, "media:duration") \in DOMAIN ClockOf}
                   |-> ClockOf[Said(doc, id, "media:duration")]]
  <2>1. book'.media_overlays # Absent =>
          book'.media_overlays = [opf.mo_meta EXCEPT !.durations = Durations] /\ opf.mo_meta # Absent
    BY BookAtEnd
  <2>2. book'.media_overlays # Absent => book'.media_overlays.durations = Durations
    BY <2>1 DEF OverlayKnown
  <2>3. QED
    BY <2>2, DurationsKnown
<1>11. agents = Elements(doc, {"creator", "contributor"})
  BY DEF Agents
<1> HIDE DEF agents, series, timed
<1>12. QED
  BY <1>3, <1>4, <1>8, <1>9, <1>10, <1>11 DEF RefinementsReachTheirTargets, series, timed

\* The certifier and what it names.
LEMMA ClaimsKnown ==
    ASSUME NEW doc, NEW S, doc \in Seq(S), AllListed(doc, opf, book), NEW i \in ClaimsOf(doc)
    PROVE  LET p == Rank(ClaimsOf(doc), i) IN
           /\ p \in DOMAIN opf.raw_a11y
           /\ opf.raw_a11y[p].property = At(doc, i, "property").local
           /\ opf.raw_a11y[p].value = TextAt(doc, i)
           /\ opf.raw_a11y[p].id = At(doc, i, "id")
           /\ opf.raw_a11y[p].refines = At(doc, i, "refines")
<1> DEFINE p == Rank(ClaimsOf(doc), i)
<1>1. p \in DOMAIN opf.raw_a11y /\ opf.raw_a11y[p] = ClaimOf(doc)[i]
  BY ListedPlaces DEF AllListed
<1>2. i \in DOMAIN doc
  BY DEF ClaimsOf, Elements
<1>3. QED
  BY <1>1, <1>2 DEF ClaimOf, At, TextAt

\* The claims of a name, by position and by place.
LEMMA ClaimsOfName ==
    ASSUME NEW doc, NEW S, doc \in Seq(S), AllListed(doc, opf, book), NEW name \in A11yNames
    PROVE  /\ Claims(doc, name) \in SUBSET ClaimsOf(doc)
           /\ \A i \in ClaimsOf(doc) :
                opf.raw_a11y[Rank(ClaimsOf(doc), i)].property = name <=> i \in Claims(doc, name)
<1>1. Claims(doc, name) = {i \in ClaimsOf(doc) : At(doc, i, "property").local = name}
  <2>1. ASSUME NEW i \in Claims(doc, name)
        PROVE  i \in ClaimsOf(doc) /\ At(doc, i, "property").local = name
    BY DEF Claims, Metas, ClaimsOf, Accessible, IsA11y, At
  <2>2. ASSUME NEW i \in ClaimsOf(doc), At(doc, i, "property").local = name
        PROVE  i \in Claims(doc, name)
    BY <2>2 DEF Claims, Metas, ClaimsOf, Accessible, IsA11y, At
  <2>3. QED
    BY <2>1, <2>2
<1>2. QED
  BY <1>1, ClaimsKnown

LEMMA LinkKnown ==
    ASSUME NEW doc, NEW S, doc \in Seq(S), AllListed(doc, opf, book),
           NEW i \in ClaimsOf(doc), NEW name \in A11yNames
    PROVE  Linked(At(doc, i, "id"), name) = ClaimFor(doc, i, name)
<1> DEFINE all == ClaimsOf(doc)
           id == At(doc, i, "id")
           its == {c \in Claims(doc, name) : id # Absent /\ At(doc, c, "refines") = id}
           found == {p \in DOMAIN opf.raw_a11y :
                       opf.raw_a11y[p].property = name /\ opf.raw_a11y[p].refines = id}
<1>1. all \in SUBSET Nat /\ IsFiniteSet(all) /\ DOMAIN opf.raw_a11y = 1..Cardinality(all)
  BY ListedPlaces DEF AllListed
<1>2. Linked(id, name) = IF id = Absent \/ found = {} THEN Absent ELSE opf.raw_a11y[First(found)].value
  BY DEF Linked
<1>3. ClaimFor(doc, i, name) = IF its = {} THEN Absent ELSE TextAt(doc, First(its))
  BY DEF ClaimFor
<1>4. CASE id = Absent
  BY <1>2, <1>3, <1>4
<1>5. CASE id # Absent
  <2>1. /\ its \in SUBSET all /\ found \in SUBSET (1..Cardinality(all))
        /\ \A c \in all : Rank(all, c) \in found <=> c \in its
    <3>1. its \in SUBSET all
      BY ClaimsOfName
    <3>2. ASSUME NEW c \in all PROVE Rank(all, c) \in found <=> c \in its
      BY <1>5, ClaimsKnown, ClaimsOfName
    <3>3. found \in SUBSET (1..Cardinality(all))
      BY <1>1
    <3>4. QED
      BY <3>1, <3>2, <3>3
  <2> HIDE DEF all, its, found
  <2>2. PlacesOf(all, its, found)
    BY <1>1, <2>1 DEF PlacesOf
  <2>3. /\ its = {} <=> found = {}
        /\ its # {} => First(its) \in its /\ First(found) = Rank(all, First(its))
    BY <2>2, FirstListed
  <2>4. its # {} => opf.raw_a11y[First(found)].value = TextAt(doc, First(its))
    BY <2>1, <2>3, ClaimsKnown DEF all
  <2>5. QED
    BY <1>2, <1>3, <1>5, <2>3, <2>4
<1>6. QED
  BY <1>4, <1>5

LEMMA CertificationEnd ==
    ASSUME NEW doc, NEW S, doc \in Seq(S), AllListed(doc, opf, book), IsBook(book), OpfRead
    PROVE  CertificationLinked(doc, book')
<1> DEFINE all == ClaimsOf(doc)
           raws == opf.raw_a11y
           able == {i \in Claims(doc, "certifiedBy") :
                      \/ At(doc, i, "refines") = Absent
                      \/ \E k \in Claims(doc, "conformsTo") : At(doc, k, "id") = At(doc, i, "refines")}
<1>1. /\ all \in SUBSET Nat /\ IsFiniteSet(all) /\ DOMAIN raws = 1..Cardinality(all)
      /\ \A i \in all : Rank(all, i) \in DOMAIN raws
      /\ \A p \in DOMAIN raws : \E i \in all : Rank(all, i) = p
  BY ListedPlaces DEF AllListed
<1>2. {"certifiedBy", "conformsTo", "certifierCredential", "certifierReport"} \subseteq A11yNames
  BY DEF A11yNames
<1>3. ConformsToIds = {At(doc, k, "id") : k \in Claims(doc, "conformsTo")} \ {Absent}
  <2> DEFINE conf == {p \in DOMAIN raws : raws[p].property = "conformsTo"}
  <2>1. \A p \in conf : \E k \in Claims(doc, "conformsTo") : raws[p].id = At(doc, k, "id")
    <3> SUFFICES ASSUME NEW p \in conf
                 PROVE  \E k \in Claims(doc, "conformsTo") : raws[p].id = At(doc, k, "id")
      OBVIOUS
    <3>1. PICK k \in all : Rank(all, k) = p
      BY <1>1
    <3>2. k \in Claims(doc, "conformsTo") /\ raws[p].id = At(doc, k, "id")
      BY <1>2, <3>1, ClaimsOfName, ClaimsKnown
    <3>3. QED
      BY <3>2
  <2>2. \A k \in Claims(doc, "conformsTo") : \E p \in conf : raws[p].id = At(doc, k, "id")
    <3> SUFFICES ASSUME NEW k \in Claims(doc, "conformsTo")
                 PROVE  \E p \in conf : raws[p].id = At(doc, k, "id")
      OBVIOUS
    <3>1. k \in all
      BY <1>2, ClaimsOfName
    <3>2. Rank(all, k) \in conf /\ raws[Rank(all, k)].id = At(doc, k, "id")
      BY <1>2, <3>1, ClaimsOfName, ClaimsKnown
    <3>3. QED
      BY <3>2
  <2>3. ConformsToIds = {raws[p].id : p \in conf} \ {Absent}
    BY DEF ConformsToIds
  <2> HIDE DEF conf
  <2>4. QED
    BY <2>1, <2>2, <2>3
<1>4. /\ able \in SUBSET all /\ CertifiedBy \in SUBSET (1..Cardinality(all))
      /\ \A i \in all : Rank(all, i) \in CertifiedBy <=> i \in able
  <2>1. able \in SUBSET all
    BY <1>2, ClaimsOfName
  <2>2. CertifiedBy \in SUBSET (1..Cardinality(all))
    BY <1>1 DEF CertifiedBy
  <2>3. ASSUME NEW i \in all PROVE Rank(all, i) \in CertifiedBy <=> i \in able
    <3> DEFINE p == Rank(all, i)
    <3>1. /\ p \in DOMAIN raws /\ raws[p].refines = At(doc, i, "refines")
          /\ raws[p].property = "certifiedBy" <=> i \in Claims(doc, "certifiedBy")
      BY <1>2, ClaimsKnown, ClaimsOfName
    <3> HIDE DEF p
    <3>2. p \in CertifiedBy <=> /\ i \in Claims(doc, "certifiedBy")
                                /\ At(doc, i, "refines") \in ConformsToIds \cup {Absent}
      BY <3>1 DEF CertifiedBy
    <3>3. QED
      BY <1>3, <3>2 DEF p
  <2>4. QED
    BY <2>1, <2>2, <2>3
<1> HIDE DEF able, all
<1>p. PlacesOf(all, able, CertifiedBy)
  BY <1>1, <1>4 DEF PlacesOf
<1>5. able = {} <=> CertifiedBy = {}
  BY <1>p, FirstListed
<1>6. able # {} => First(able) \in able /\ First(CertifiedBy) = Rank(all, First(able))
  BY <1>p, FirstListed
<1>7. able = {} => Certification = Absent
  BY <1>5 DEF Certification
<1>8. ASSUME able # {}
      PROVE  \E i \in able :
               Certification = [certified_by |-> TextAt(doc, i),
                                credential |-> ClaimFor(doc, i, "certifierCredential"),
                                report |-> ClaimFor(doc, i, "certifierReport")]
  <2> DEFINE i == First(able)
             cb == raws[First(CertifiedBy)]
  <2>1. i \in able /\ i \in all /\ cb = raws[Rank(all, i)]
    BY <1>4, <1>6, <1>8
  <2>2. cb.value = TextAt(doc, i) /\ cb.id = At(doc, i, "id")
    BY <2>1, ClaimsKnown DEF all
  <2>3. /\ Linked(At(doc, i, "id"), "certifierCredential") = ClaimFor(doc, i, "certifierCredential")
        /\ Linked(At(doc, i, "id"), "certifierReport") = ClaimFor(doc, i, "certifierReport")
    BY <1>2, <2>1, LinkKnown DEF all
  <2>4. Certification = [certified_by |-> cb.value,
                         credential |-> Linked(cb.id, "certifierCredential"),
                         report |-> Linked(cb.id, "certifierReport")]
    BY <1>5, <1>8 DEF Certification
  <2> HIDE DEF i, cb
  <2>5. QED
    BY <2>1, <2>2, <2>3, <2>4
<1>9. book'.accessibility # Absent => book'.accessibility.certification = Certification
  BY BookAtEnd DEF Accessibility
<1>10. QED
  BY <1>7, <1>8, <1>9 DEF CertificationLinked, able

-----------------------------------------------------------------------------
\* The package document is being read, or the book has been handed out.
Gathered(doc, n, o, b) ==
    OpfNow(doc, n, o, b) /\ ListsHold(doc, n, o, b) /\ CreatorsKnown(doc, n, o) /\ WordsKept(doc, n, o)
OpfInv ==
    /\ package \in Packages /\ stage \in Stages
    /\ stage = "container" => opf = EmptyOpf /\ book = EmptyBook
    /\ stage = "opf" /\ package["opf"] # Absent => Gathered(package["opf"], at, opf, book)
    /\ TitlesAsDeclared /\ RefinementsHold /\ IdentifierAsDesignated

LEMMA NothingGathered ==
    ASSUME NEW doc, NEW S, doc \in Seq(S)
    PROVE  Gathered(doc, 1, EmptyOpf, EmptyBook)
<1>1. \A names : ReadBefore(doc, 1, names) = {}
  BY DEF ReadBefore
<1>2. ClaimsBefore(doc, 1) = {} /\ SeriesBefore(doc, 1) = {}
  BY <1>1 DEF ClaimsBefore, SeriesBefore
<1>3. 1..1 - 1 = {} /\ 1 \in 1..Len(doc) + 1
  OBVIOUS
<1>4. ~InMetadata(doc, 1)
  BY <1>3 DEF InMetadata
<1>5. OpfNow(doc, 1, EmptyOpf, EmptyBook)
  <2>1. IsOpf(EmptyOpf) /\ IsBook(EmptyBook) /\ OverlayKnown(EmptyOpf)
    BY DEF IsOpf, IsBook, OverlayKnown, EmptyOpf, EmptyBook
  <2>2. EmptyBook.media_overlays = Absent /\ EmptyOpf.state = NoOpfState
          /\ EmptyOpf.in_metadata = FALSE
    BY DEF EmptyOpf, EmptyBook
  <2>3. QED
    BY <1>3, <1>4, <2>1, <2>2 DEF OpfNow
<1>6. ListsHold(doc, 1, EmptyOpf, EmptyBook)
  <2>1. /\ EmptyOpf.raw_titles = << >> /\ EmptyOpf.raw_identifiers = << >>
        /\ EmptyBook.creators = << >> /\ EmptyOpf.raw_a11y = << >>
        /\ EmptyOpf.pending_collections = << >>
    BY DEF EmptyOpf, EmptyBook
  <2>2. QED
    BY <1>1, <1>2, <2>1, ListedNone DEF ListsHold
<1>7. CreatorsKnown(doc, 1, EmptyOpf)
  <2>1. DOMAIN EmptyOpf.creator_id_to_idx = {}
    BY DEF EmptyOpf
  <2>2. QED
    BY <1>1, <2>1 DEF CreatorsKnown
<1>8. WordsKept(doc, 1, EmptyOpf)
  <2>1. DOMAIN EmptyOpf.refinements = {} /\ EmptyOpf.unique_id_ref = Absent
    BY DEF EmptyOpf
  <2>2. \A id, local : RefinedIn(EmptyOpf.refinements, id, local) = Absent
    BY <2>1 DEF RefinedIn
  <2>3. \A id, local : SaidBefore(doc, 1, id, local) = Absent
    BY <1>1 DEF SaidBefore
  <2>4. PointersBefore(doc, 1) = {} /\ \A id : SchemesBefore(doc, 1, id) = {}
    BY <1>3 DEF PointersBefore, SchemesBefore
  <2>5. LastKey(doc, PointersBefore(doc, 1), "unique-identifier") = Absent
          /\ \A id : LastKey(doc, SchemesBefore(doc, 1, id), "scheme") = Absent
    BY <2>4 DEF LastKey
  <2>6. QED
    BY <2>1, <2>2, <2>3, <2>5 DEF WordsKept
<1>9. QED
  BY <1>5, <1>6, <1>7, <1>8 DEF Gathered

LEMMA OpfInvInit ==
    ASSUME Init
    PROVE  OpfInv
BY DEF Init, OpfInv, Stages, BookRead, TitlesAsDeclared, RefinementsHold, IdentifierAsDesignated

LEMMA OpfInvStep ==
    ASSUME \A p \in Packages : p["opf"] # Absent => MetadataRegular(p["opf"]),
           OpfInv, [Next]_vars
    PROVE  OpfInv'
<1> DEFINE doc == package["opf"]
           final == {"encryption", "nav", "ncx", "overlay", "smil", "done"}
<1>1. doc = Absent \/ (MetadataRegular(doc) /\ \E S : doc \in Seq(S))
  BY PackagesAssumption DEF OpfInv
<1>2. /\ package \in Packages /\ stage \in Stages
      /\ stage = "container" => opf = EmptyOpf /\ book = EmptyBook
      /\ stage = "opf" /\ doc # Absent => Gathered(doc, at, opf, book)
      /\ stage \in final => /\ TitlesDeclared(doc, book) /\ IdentifierDesignated(doc, book)
                            /\ RefinementsReachTheirTargets(doc, book)
                            /\ CertificationLinked(doc, book)
  BY DEF OpfInv, BookRead, TitlesAsDeclared, RefinementsHold, IdentifierAsDesignated
<1>3. ASSUME package' = package, stage' \in Stages,
             stage' = "container" => opf' = EmptyOpf /\ book' = EmptyBook,
             stage' = "opf" /\ doc # Absent => Gathered(doc, at', opf', book'),
             stage' \in final => /\ TitlesDeclared(doc, book') /\ IdentifierDesignated(doc, book')
                                 /\ RefinementsReachTheirTargets(doc, book')
                                 /\ CertificationLinked(doc, book')
      PROVE  OpfInv'
  <2>1. doc' = doc
    BY <1>3
  <2>2. TitlesAsDeclared' /\ RefinementsHold' /\ IdentifierAsDesignated'
    BY <1>3, <2>1 DEF BookRead, TitlesAsDeclared, RefinementsHold, IdentifierAsDesignated
  <2>3. (stage = "opf" /\ package["opf"] # Absent => Gathered(package["opf"], at, opf, book))'
    BY <1>3, <2>1
  <2>4. QED
    BY <1>2, <1>3, <2>2, <2>3 DEF OpfInv
\* Where the package document is not read.
<1>4. ASSUME UNCHANGED <<package, opf, book>>, stage' \in Stages,
             stage' = "container" => stage = "container",
             stage' = "opf" => (stage = "opf" /\ at' = at) \/ (stage = "container" /\ at' = 1),
             stage' \in final => stage \in final
      PROVE  OpfInv'
  <2>1. stage' = "opf" /\ doc # Absent => Gathered(doc, at', opf', book')
    BY <1>1, <1>2, <1>4, NothingGathered
  <2>2. QED
    BY <1>2, <1>3, <1>4, <2>1
<1>5. CASE ReadOpf
  <2>1. CASE ContainerNext
    BY <1>2, <1>4, <1>5, <2>1, ContainerStep DEF Stages
  <2>2. CASE OpfNext
    <3>1. /\ stage = "opf" /\ package' = package
          /\ \/ stage' = "opf" /\ at' = at + 1 /\ Reading("opf")
             \/ stage' = "failed" /\ UNCHANGED opfVars
             \/ OpfRead
      BY <1>5, <2>2, OpfStep
    <3>2. CASE stage' = "opf" /\ Reading("opf")
      <4>1. PICK S : doc \in Seq(S)
        BY <1>1, <3>2 DEF Reading
      <4>2. MetadataRegular(doc) /\ Gathered(doc, at, opf, book)
        BY <1>1, <1>2, <3>1, <3>2 DEF Reading
      <4>3. /\ at \in 1..Len(doc) /\ at' = at + 1 /\ OpfNow(doc, at + 1, opf', book')
            /\ Collecting(doc, at)
        BY <1>5, <2>2, <3>1, <3>2, <4>1, <4>2, OpfAdvance DEF Gathered
      <4>4. ListsHold(doc, at + 1, opf', book')
        BY <4>1, <4>2, <4>3, ListsGoOn DEF Gathered
      <4>5. CreatorsKnown(doc, at + 1, opf')
        BY <4>1, <4>2, <4>3, CreatorsGoOn DEF Gathered
      <4>6. WordsKept(doc, at + 1, opf')
        BY <4>1, <4>2, <4>3, WordsGoOn DEF Gathered
      <4>7. Gathered(doc, at', opf', book')
        BY <4>3, <4>4, <4>5, <4>6 DEF Gathered
      <4>8. QED
        BY <1>3, <3>1, <3>2, <4>7 DEF Stages
    <3>3. CASE stage' = "failed"
      BY <1>3, <3>1, <3>3 DEF Stages
    <3>4. CASE OpfRead
      <4>1. doc # Absent /\ at > Len(doc) /\ stage' = "encryption"
        BY <3>4 DEF OpfRead, AtEof, GoTo
      <4>2. PICK S : doc \in Seq(S)
        BY <1>1, <4>1
      <4>3. Gathered(doc, at, opf, book)
        BY <1>2, <3>1, <4>1
      <4>4. at = Len(doc) + 1
        <5>1. at \in 1..Len(doc) + 1 /\ Len(doc) \in Nat
          BY <4>2, <4>3 DEF Gathered, OpfNow
        <5>2. QED
          BY <4>1, <5>1
      <4>5. AllListed(doc, opf, book) /\ AllKnown(doc, opf) /\ AllKept(doc, opf)
        BY <4>2, <4>3, <4>4, ReadAll DEF Gathered
      <4>6. IsBook(book) /\ book.media_overlays = Absent /\ OverlayKnown(opf)
        BY <4>3 DEF Gathered, OpfNow
      <4>7. /\ TitlesDeclared(doc, book') /\ IdentifierDesignated(doc, book')
            /\ RefinementsReachTheirTargets(doc, book') /\ CertificationLinked(doc, book')
        BY <3>4, <4>2, <4>5, <4>6, TitlesEnd, IdentifierEnd, RefinementsEnd, CertificationEnd
      <4>8. QED
        BY <1>3, <3>1, <4>1, <4>7 DEF Stages
    <3>5. QED
      BY <3>1, <3>2, <3>3, <3>4
  <2>3. QED
    BY <1>5, <2>1, <2>2 DEF ReadOpf
<1>6. CASE ReadEncryption
  BY <1>2, <1>4, <1>6, EncryptionStep DEF Stages, opfVars
<1>7. CASE GetNavigation
  BY <1>2, <1>4, <1>7, NavigationStep DEF Stages, opfVars
<1>8. CASE ReadOverlay
  BY <1>2, <1>4, <1>8, OverlayStep DEF Stages, opfVars
<1>9. CASE UNCHANGED vars
  BY <1>2, <1>4, <1>9 DEF vars, reader, opfVars
<1>10. QED
  BY <1>5, <1>6, <1>7, <1>8, <1>9 DEF Next

LEMMA OpfInvariant ==
    ASSUME \A p \in Packages : p["opf"] # Absent => MetadataRegular(p["opf"])
    PROVE  Spec => []OpfInv
<1>1. Init => OpfInv
  BY OpfInvInit
<1>2. OpfInv /\ [Next]_vars => OpfInv'
  BY OpfInvStep
<1>3. QED
  BY <1>1, <1>2, PTL DEF Spec

\* The title is the one declared main, with its own sort name, and the subtitle
\* the declared one of lowest display-seq, wherever the metas that say so stand.
THEOREM TitlesRead ==
    ASSUME \A p \in Packages : p["opf"] # Absent => MetadataRegular(p["opf"])
    PROVE  Spec => []TitlesAsDeclared
<1>1. OpfInv => TitlesAsDeclared
  BY DEF OpfInv
<1>2. QED
  BY <1>1, OpfInvariant, PTL

\* Every creator, collection, overlay and certifier gets what refines it and
\* nothing that refines another, in the order of the document.
THEOREM RefinementsReach ==
    ASSUME \A p \in Packages : p["opf"] # Absent => MetadataRegular(p["opf"])
    PROVE  Spec => []RefinementsHold
<1>1. OpfInv => RefinementsHold
  BY DEF OpfInv
<1>2. QED
  BY <1>1, OpfInvariant, PTL

\* The identifier is the designated one, and all others are kept in order with
\* the scheme that was given to each.
THEOREM IdentifierRead ==
    ASSUME \A p \in Packages : p["opf"] # Absent => MetadataRegular(p["opf"])
    PROVE  Spec => []IdentifierAsDesignated
<1>1. OpfInv => IdentifierAsDesignated
  BY DEF OpfInv
<1>2. QED
  BY <1>1, OpfInvariant, PTL

-----------------------------------------------------------------------------
(***************************************************************************)
(* Nesting                                                                  *)
(***************************************************************************)
\* The values of f at the positions of S, in the order of the document.
InOrder(S, f) == [p \in 1..Cardinality(S) |-> f[CHOOSE i \in S : Rank(S, i) = p]]

LEMMA InOrderListed ==
    ASSUME NEW list, NEW S, NEW f, Listed(list, S, f)
    PROVE  list = InOrder(S, f)
<1> DEFINE at0(p) == CHOOSE i \in S : Rank(S, i) = p
<1>1. /\ Len(list) = Cardinality(S) /\ DOMAIN list = 1..Cardinality(S)
      /\ \A i \in S : list[Rank(S, i)] = f[i]
      /\ \A p \in DOMAIN list : \E i \in S : Rank(S, i) = p
  BY ListedPlaces
<1>2. \A p \in 1..Cardinality(S) : list[p] = f[at0(p)]
  <2>1. TAKE p \in 1..Cardinality(S)
  <2>2. at0(p) \in S /\ Rank(S, at0(p)) = p
    BY <1>1
  <2>3. QED
    BY <1>1, <2>2
<1>3. \E V : list \in Seq(V)
  BY DEF Listed
<1>4. list = [p \in DOMAIN list |-> list[p]]
  BY <1>3
<1> HIDE DEF at0
<1>5. list = [p \in 1..Cardinality(S) |-> f[at0(p)]]
  BY <1>1, <1>2, <1>4
<1>6. QED
  BY <1>5 DEF InOrder, at0

LEMMA InOrderIs ==
    ASSUME NEW S \in SUBSET Nat, IsFiniteSet(S), NEW f
    PROVE  Listed(InOrder(S, f), S, f)
<1> DEFINE at0(p) == CHOOSE i \in S : Rank(S, i) = p
           list == [p \in 1..Cardinality(S) |-> f[at0(p)]]
<1>1. /\ Cardinality(S) \in Nat
      /\ \A i \in S : Rank(S, i) \in 1..Cardinality(S)
      /\ \A i, j \in S : i < j => Rank(S, i) < Rank(S, j)
      /\ \A p \in 1..Cardinality(S) : \E i \in S : Rank(S, i) = p
  BY RankCounts
<1>2. \A i \in S : at0(Rank(S, i)) = i
  <2>1. TAKE i \in S
  <2>2. at0(Rank(S, i)) \in S /\ Rank(S, at0(Rank(S, i))) = Rank(S, i)
    OBVIOUS
  <2>3. \A j \in S : j \in Nat /\ Rank(S, j) \in Nat
    BY <1>1
  <2> DEFINE j == at0(Rank(S, i))
  <2>4. j \in S /\ Rank(S, j) = Rank(S, i)
    BY <2>2
  <2> HIDE DEF j
  <2>5. j = i
    BY <1>1, <2>3, <2>4
  <2>6. QED
    BY <2>5 DEF j
<1>3. /\ \E V : list \in Seq(V)
      /\ Len(list) = Cardinality(S)
  <2> DEFINE k == Cardinality(S)
             V0 == {f[at0(p)] : p \in 1..k}
  <2>1. k \in Nat /\ \A p \in 1..k : f[at0(p)] \in V0
    BY <1>1
  <2> HIDE DEF V0, k, at0
  <2>2. [p \in 1..k |-> f[at0(p)]] \in Seq(V0) /\ Len([p \in 1..k |-> f[at0(p)]]) = k
    BY <2>1
  <2>3. QED
    BY <2>2 DEF k, at0
<1>4. \A i \in S : list[Rank(S, i)] = f[i]
  BY <1>1, <1>2
<1>5. Listed(list, S, f)
  BY <1>3, <1>4 DEF Listed
<1>6. QED
  BY <1>5 DEF InOrder

\* Nothing; one more, above the others; and what is equal.
LEMMA InOrderMore ==
    ASSUME NEW S \in SUBSET Nat, IsFiniteSet(S), NEW f
    PROVE  /\ InOrder({}, f) = << >>
           /\ \E V : InOrder(S, f) \in Seq(V)
           /\ Len(InOrder(S, f)) = Cardinality(S)
           /\ \A n \in Nat : (\A i \in S : i < n) =>
                InOrder(S \cup {n}, f) = Append(InOrder(S, f), f[n])
           /\ \A g : (\A i \in S : f[i] = g[i]) => InOrder(S, f) = InOrder(S, g)
<1>1. InOrder({}, f) = << >>
  BY ListedNone, InOrderListed
<1>2. Listed(InOrder(S, f), S, f)
  BY InOrderIs
<1>3. ASSUME NEW n \in Nat, \A i \in S : i < n
      PROVE  InOrder(S \cup {n}, f) = Append(InOrder(S, f), f[n])
  <2>1. Listed(Append(InOrder(S, f), f[n]), S \cup {n}, f)
    BY <1>2, <1>3, ListedMore
  <2>2. QED
    BY <2>1, InOrderListed
<1>4. ASSUME NEW g, \A i \in S : f[i] = g[i]
      PROVE  InOrder(S, f) = InOrder(S, g)
  <2>1. Listed(InOrder(S, f), S, g)
    BY <1>2, <1>4 DEF Listed
  <2>2. QED
    BY <2>1, InOrderListed
<1>5. (\E V : InOrder(S, f) \in Seq(V)) /\ Len(InOrder(S, f)) = Cardinality(S)
  BY <1>2 DEF Listed
<1>6. QED
  BY <1>1, <1>3, <1>4, <1>5

\* One more position, above the others.
Below(S, n) == S \in SUBSET Nat /\ IsFiniteSet(S) /\ n \in Nat /\ \A i \in S : i < n
Plus(S, n) == S \cup {n}

\* A stack with another top.
TopSet(stack, v) == [stack EXCEPT ![Len(stack)] = v]

\* A stack in order: what is on top of it, and what is left without that.
LEMMA OnTop ==
    ASSUME NEW S, NEW n, Below(S, n), NEW f, NEW stack, stack = InOrder(Plus(S, n), f)
    PROVE  /\ stack # << >> /\ Len(stack) = Cardinality(S) + 1 /\ Cardinality(S) \in Nat
           /\ stack[Len(stack)] = f[n] /\ Top(stack) = f[n]
<1> DEFINE front == InOrder(S, f)
<1>0. S \in SUBSET Nat /\ IsFiniteSet(S) /\ n \in Nat /\ \A i \in S : i < n
  BY DEF Below
<1>1. stack = Append(front, f[n]) /\ Len(front) = Cardinality(S)
  BY <1>0, InOrderMore DEF Plus
<1>2. PICK V : front \in Seq(V)
  BY <1>0, InOrderMore
<1>3. Cardinality(S) \in Nat
  BY <1>0, FS_CardinalityType
<1> HIDE DEF front
<1> DEFINE W == V \cup {f[n]}
<1>4. front \in Seq(W) /\ f[n] \in W
  BY <1>2
<1> HIDE DEF W
<1>5. /\ stack \in Seq(W) /\ Len(stack) = Len(front) + 1 /\ stack[Len(front) + 1] = f[n]
      /\ \A i \in 1..Len(front) : stack[i] = front[i]
  <2> DEFINE e == f[n]
  <2>1. e \in W /\ stack = Append(front, e)
    BY <1>1, <1>4
  <2> HIDE DEF e
  <2>2. Append(front, e) \in Seq(W) /\ Len(Append(front, e)) = Len(front) + 1
        /\ Append(front, e)[Len(front) + 1] = e
        /\ \A i \in 1..Len(front) : Append(front, e)[i] = front[i]
    BY <1>4, <2>1, Appended
  <2>3. QED
    BY <2>1, <2>2 DEF e
<1>7. stack # << >> /\ stack[Len(stack)] = f[n]
  BY <1>1, <1>3, <1>5
<1>8. QED
  BY <1>1, <1>3, <1>5, <1>7 DEF front, Top

LEMMA OnTopRest ==
    ASSUME NEW S, NEW n, Below(S, n), NEW f, NEW stack, stack = InOrder(Plus(S, n), f)
    PROVE  Pop(stack) = InOrder(S, f)
<1> DEFINE front == InOrder(S, f)
<1>0. S \in SUBSET Nat /\ IsFiniteSet(S) /\ n \in Nat /\ \A i \in S : i < n
  BY DEF Below
<1>1. stack = Append(front, f[n]) /\ Len(front) = Cardinality(S)
  BY <1>0, InOrderMore DEF Plus
<1>2. PICK V : front \in Seq(V)
  BY <1>0, InOrderMore
<1>3. Cardinality(S) \in Nat
  BY <1>0, FS_CardinalityType
<1> HIDE DEF front
<1> DEFINE W == V \cup {f[n]}
<1>4. front \in Seq(W) /\ f[n] \in W
  BY <1>2
<1> HIDE DEF W
<1>5. /\ stack \in Seq(W) /\ Len(stack) = Len(front) + 1 /\ stack[Len(front) + 1] = f[n]
      /\ \A i \in 1..Len(front) : stack[i] = front[i]
  <2> DEFINE e == f[n]
  <2>1. e \in W /\ stack = Append(front, e)
    BY <1>1, <1>4
  <2> HIDE DEF e
  <2>2. Append(front, e) \in Seq(W) /\ Len(Append(front, e)) = Len(front) + 1
        /\ Append(front, e)[Len(front) + 1] = e
        /\ \A i \in 1..Len(front) : Append(front, e)[i] = front[i]
    BY <1>4, <2>1, Appended
  <2>3. QED
    BY <2>1, <2>2 DEF e
<1>6. SubSeq(stack, 1, Len(stack) - 1) = front
  <2> DEFINE k == Len(front)
             rest == SubSeq(stack, 1, k)
  <2>1. k \in Nat /\ Len(stack) - 1 = k /\ k <= Len(stack)
    BY <1>1, <1>3, <1>5
  <2>2. rest \in Seq(W) /\ Len(rest) = k /\ \A i \in 1..k : rest[i] = stack[i]
    BY <1>5, <2>1
  <2> HIDE DEF rest
  <2>3. rest = front
    <3>1. \A i \in 1..k : rest[i] = front[i]
      BY <1>5, <2>2
    <3>2. rest \in Seq(W) /\ front \in Seq(W) /\ Len(rest) = k /\ Len(front) = k
      BY <1>4, <2>2
    <3> HIDE DEF k
    <3>3. QED
      BY <3>1, <3>2, SeqEqual
  <2>4. QED
    BY <2>1, <2>3 DEF rest
<1>7. QED
  BY <1>6 DEF front, Pop

LEMMA OnTopRetop ==
    ASSUME NEW S, NEW n, Below(S, n), NEW f, NEW stack, stack = InOrder(Plus(S, n), f), NEW v
    PROVE  Retop(stack, v) = Append(InOrder(S, f), v)
<1>1. Pop(stack) = InOrder(S, f)
  BY OnTopRest
<1>2. QED
  BY <1>1 DEF Retop

LEMMA OnTopSet ==
    ASSUME NEW S, NEW n, Below(S, n), NEW f, NEW stack, stack = InOrder(Plus(S, n), f), NEW v
    PROVE  TopSet(stack, v) = Append(InOrder(S, f), v)
<1> DEFINE front == InOrder(S, f)
<1>0. S \in SUBSET Nat /\ IsFiniteSet(S) /\ n \in Nat /\ \A i \in S : i < n
  BY DEF Below
<1>1. stack = Append(front, f[n]) /\ Len(front) = Cardinality(S)
  BY <1>0, InOrderMore DEF Plus
<1>2. PICK V : front \in Seq(V)
  BY <1>0, InOrderMore
<1>3. Cardinality(S) \in Nat
  BY <1>0, FS_CardinalityType
<1>6. SubSeq(stack, 1, Len(stack) - 1) = front
  BY OnTopRest DEF Pop
<1> HIDE DEF front
<1> DEFINE W == V \cup {f[n]}
<1>4. front \in Seq(W) /\ f[n] \in W
  BY <1>2
<1> HIDE DEF W
<1>5. /\ stack \in Seq(W) /\ Len(stack) = Len(front) + 1 /\ stack[Len(front) + 1] = f[n]
      /\ \A i \in 1..Len(front) : stack[i] = front[i]
  <2> DEFINE e == f[n]
  <2>1. e \in W /\ stack = Append(front, e)
    BY <1>1, <1>4
  <2> HIDE DEF e
  <2>2. Append(front, e) \in Seq(W) /\ Len(Append(front, e)) = Len(front) + 1
        /\ Append(front, e)[Len(front) + 1] = e
        /\ \A i \in 1..Len(front) : Append(front, e)[i] = front[i]
    BY <1>4, <2>1, Appended
  <2>3. QED
    BY <2>1, <2>2 DEF e
<1>8. TopSet(stack, v) = Append(front, v)
  <2> DEFINE X == W \cup {v}
             one == TopSet(stack, v)
             two == Append(front, v)
  <2>2. front \in Seq(X) /\ v \in X /\ stack \in Seq(X)
    BY <1>4, <1>5
  <2>3. one \in Seq(X) /\ Len(one) = Len(stack) /\ one[Len(stack)] = v
        /\ \A i \in 1..(Len(stack) - 1) : one[i] = stack[i]
    BY <1>5, <2>2 DEF TopSet
  <2>4. two \in Seq(X) /\ Len(two) = Len(front) + 1 /\ two[Len(front) + 1] = v
        /\ \A i \in 1..Len(front) : two[i] = front[i]
    BY <2>2, Appended
  <2> HIDE DEF one, two, X
  <2>5. one = two
    <3>1. Len(one) = Len(two) /\ Len(front) \in Nat
      BY <1>1, <1>3, <1>5, <2>3, <2>4
    <3>2. \A i \in 1..Len(two) : one[i] = two[i]
      <4>1. TAKE i \in 1..Len(two)
      <4>2. CASE i = Len(front) + 1
        BY <1>5, <2>3, <2>4, <4>2
      <4>3. CASE i \in 1..Len(front)
        <5>1. i \in 1..(Len(stack) - 1)
          BY <1>5, <3>1, <4>3
        <5>2. QED
          BY <1>5, <2>3, <2>4, <4>3, <5>1
      <4>4. QED
        BY <2>4, <3>1, <4>2, <4>3
    <3>3. one \in Seq(X) /\ two \in Seq(X)
      BY <2>3, <2>4
    <3>4. QED
      BY <3>1, <3>2, <3>3
  <2>6. QED
    BY <2>5 DEF one, two
<1>9. QED
  BY <1>8 DEF front

\* One more in order, above the others.
LEMMA OneMore ==
    ASSUME NEW S, NEW n, Below(S, n), NEW f
    PROVE  InOrder(Plus(S, n), f) = Append(InOrder(S, f), f[n])
BY InOrderMore DEF Below, Plus

LEMMA SameInOrder ==
    ASSUME NEW S, NEW n, Below(S, n), NEW f, NEW g, \A i \in S : f[i] = g[i]
    PROVE  InOrder(S, f) = InOrder(S, g)
BY InOrderMore DEF Below

-----------------------------------------------------------------------------
\* The elements that are open before event n: begun by a tag of B, and closed
\* by no tag of E, if `closes` says what those close.
OpenAt(B, E, closes, n) == {i \in B : i < n /\ \A e \in E : e < n => closes[e] # i}
\* The elements begun since the last end, where one that begins replaces one
\* that is open.
BegunAt(B, E, n) == {i \in B : i < n /\ \A e \in E : ~(i < e /\ e < n)}
Innermost(S) == IF S = {} THEN 0 ELSE Max(S)
Around(B, E, closes) == [n \in Nat |-> Innermost(OpenAt(B, E, closes, n))]
Latest(B, E) == [n \in Nat |-> Innermost(BegunAt(B, E, n))]

\* Of the positions of S before n, those in the element i; the last thing that
\* is said there; and the children of i, by the positions where they are complete.
Own(S, around, i, n) == {l \in S : l < n /\ around[l] = i}
LastSaid(S, around, said, i, n, default) ==
    LET own == Own(S, around, i, n) IN IF own = {} THEN default ELSE said[Max(own)]
Children(C, around, i, n) == {c \in C : c < n /\ around[c + 1] = i}

LEMMA InnermostIs ==
    ASSUME NEW n \in Nat, NEW S \in SUBSET (1..n)
    PROVE  /\ Innermost(S) \in 0..n
           /\ S = {} <=> Innermost(S) = 0
           /\ S # {} => Innermost(S) \in S /\ \A i \in S : i <= Innermost(S)
           /\ IsFiniteSet(S)
<1>1. IsFiniteSet(S)
  <2>1. 1 \in Int /\ n \in Int /\ IsFiniteSet(1..n)
    BY FS_Interval
  <2>2. QED
    BY <2>1, FS_Subset
<1>2. CASE S = {}
  BY <1>1, <1>2 DEF Innermost
<1>3. CASE S # {}
  <2>1. Max(S) \in S /\ \A i \in S : Max(S) >= i
    BY <1>3, MaxMember
  <2>2. Innermost(S) = Max(S)
    BY <1>3, Zenon DEF Innermost
  <2> DEFINE top == Max(S)
  <2>3. top \in S /\ \A i \in S : top >= i
    BY <2>1
  <2> HIDE DEF top
  <2>4. top \in 0..n /\ top # 0 /\ \A i \in S : i <= top
    BY <2>3
  <2>5. QED
    BY <1>1, <1>3, <2>2, <2>3, <2>4 DEF top
<1>4. QED
  BY <1>2, <1>3

LEMMA OpenBelow ==
    ASSUME NEW m \in Nat, NEW B \in SUBSET (1..m), NEW E, NEW closes, NEW n \in 1..m + 1
    PROVE  /\ OpenAt(B, E, closes, n) \in SUBSET (1..n - 1) /\ n - 1 \in Nat
           /\ Around(B, E, closes)[n] = Innermost(OpenAt(B, E, closes, n))
           /\ Around(B, E, closes)[n] \in 0..n - 1
           /\ IsFiniteSet(OpenAt(B, E, closes, n))
<1>1. OpenAt(B, E, closes, n) \in SUBSET (1..n - 1)
  <2>1. \A i \in B : i < n => i \in 1..n - 1
    OBVIOUS
  <2>2. QED
    BY <2>1 DEF OpenAt
<1>2. Around(B, E, closes)[n] = Innermost(OpenAt(B, E, closes, n)) /\ n - 1 \in Nat
  BY DEF Around
<1>3. QED
  BY <1>1, <1>2, InnermostIs

LEMMA BegunBelow ==
    ASSUME NEW m \in Nat, NEW B \in SUBSET (1..m), NEW E, NEW n \in 1..m + 1
    PROVE  /\ BegunAt(B, E, n) \in SUBSET (1..n - 1) /\ n - 1 \in Nat
           /\ Latest(B, E)[n] = Innermost(BegunAt(B, E, n))
           /\ Latest(B, E)[n] \in 0..n - 1
<1>1. BegunAt(B, E, n) \in SUBSET (1..n - 1)
  <2>1. \A i \in B : i < n => i \in 1..n - 1
    OBVIOUS
  <2>2. QED
    BY <2>1 DEF BegunAt
<1>2. Latest(B, E)[n] = Innermost(BegunAt(B, E, n)) /\ n - 1 \in Nat
  BY DEF Latest
<1>3. QED
  BY <1>1, <1>2, InnermostIs

\* Every end tag closes the innermost open element, if any.
Closing(B, E, closes) == \A e \in E : closes[e] = Around(B, E, closes)[e]

\* Before the first event nothing is open; one more event.
LEMMA OpenMore ==
    ASSUME NEW m \in Nat, NEW B \in SUBSET (1..m), NEW E \in SUBSET (1..m), B \cap E = {},
           NEW closes, Closing(B, E, closes), NEW n \in 1..m
    PROVE  LET open(k) == OpenAt(B, E, closes, k) IN
           /\ n \in B => open(n + 1) = open(n) \cup {n}
           /\ n \notin B \cup E => open(n + 1) = open(n)
           /\ n \in E /\ open(n) = {} => open(n + 1) = {} /\ closes[n] = 0
           /\ n \in E /\ open(n) # {} =>
                /\ closes[n] \in open(n) /\ closes[n] # 0 /\ closes[n] < n
                /\ open(n) = open(n + 1) \cup {closes[n]}
                /\ \A i \in open(n + 1) : i < closes[n]
<1> DEFINE open(k) == OpenAt(B, E, closes, k)
<1>1. /\ open(n) \in SUBSET (1..n - 1) /\ open(n + 1) \in SUBSET (1..n)
      /\ \A e \in E : closes[e] = Innermost(open(e)) /\ closes[e] < e
  <2>1. \A k \in 1..m + 1 : open(k) \in SUBSET (1..k - 1) /\ Around(B, E, closes)[k] = Innermost(open(k))
                             /\ Around(B, E, closes)[k] \in 0..k - 1
    BY OpenBelow
  <2>2. open(n) \in SUBSET (1..n - 1) /\ open(n + 1) \in SUBSET (1..n)
    <3>1. n \in 1..m + 1 /\ n + 1 \in 1..m + 1 /\ (n + 1) - 1 = n
      OBVIOUS
    <3> HIDE DEF open
    <3>2. QED
      BY <2>1, <3>1
  <2>3. ASSUME NEW e \in E PROVE closes[e] = Innermost(open(e)) /\ closes[e] < e
    <3>1. e \in 1..m + 1 /\ closes[e] = Around(B, E, closes)[e]
      BY DEF Closing
    <3> HIDE DEF open
    <3>2. QED
      BY <2>1, <3>1
  <2>4. QED
    BY <2>2, <2>3
<1>2. ASSUME n \in B PROVE open(n + 1) = open(n) \cup {n}
  <2>1. \A e \in E : e < n + 1 => e < n /\ closes[e] # n
    BY <1>1, <1>2
  <2>2. n \in open(n + 1)
    BY <1>2, <2>1 DEF OpenAt
  <2>3. \A i \in B : i # n => (i \in open(n + 1) <=> i \in open(n))
    BY <2>1 DEF OpenAt
  <2>4. QED
    BY <2>2, <2>3 DEF OpenAt
<1>3. ASSUME n \notin B, n \notin E PROVE open(n + 1) = open(n)
  <2>1. \A i \in B \cup E : i < n + 1 <=> i < n
    BY <1>3
  <2>2. QED
    BY <2>1 DEF OpenAt
<1>4. ASSUME n \in E PROVE open(n + 1) = open(n) \ {closes[n]}
  <2>1. n \notin B
    BY <1>4
  <2>2. \A i \in B : i < n + 1 <=> i < n
    BY <2>1
  <2>3. \A i : (\A e \in E : e < n + 1 => closes[e] # i) <=> (closes[n] # i /\ \A e \in E : e < n => closes[e] # i)
    BY <1>4
  <2>4. QED
    BY <2>2, <2>3 DEF OpenAt
<1>5. ASSUME n \in E, open(n) = {} PROVE open(n + 1) = {} /\ closes[n] = 0
  BY <1>1, <1>4, <1>5 DEF Innermost
<1>6. ASSUME n \in E, open(n) # {}
      PROVE  /\ closes[n] \in open(n) /\ closes[n] # 0 /\ closes[n] < n
             /\ open(n) = open(n + 1) \cup {closes[n]}
             /\ \A i \in open(n + 1) : i < closes[n]
  <2>1. closes[n] \in open(n) /\ \A i \in open(n) : i <= closes[n]
    <3>1. n - 1 \in Nat
      OBVIOUS
    <3>2. closes[n] = Innermost(open(n))
      BY <1>1, <1>6
    <3> HIDE DEF open
    <3>3. QED
      BY <1>1, <1>6, <3>1, <3>2, InnermostIs
  <2>2. open(n + 1) = open(n) \ {closes[n]}
    BY <1>4, <1>6
  <2> HIDE DEF open
  <2>3. QED
    BY <1>1, <1>6, <2>1, <2>2
<1>7. QED
  BY <1>2, <1>3, <1>5, <1>6

LEMMA BegunMore ==
    ASSUME NEW m \in Nat, NEW B \in SUBSET (1..m), NEW E \in SUBSET (1..m), B \cap E = {}, NEW n \in 1..m
    PROVE  /\ n \in B => Latest(B, E)[n + 1] = n
           /\ n \in E => Latest(B, E)[n + 1] = 0
           /\ n \notin B \cup E => Latest(B, E)[n + 1] = Latest(B, E)[n]
<1>1. /\ Latest(B, E)[n + 1] = Innermost(BegunAt(B, E, n + 1)) /\ BegunAt(B, E, n + 1) \in SUBSET (1..n)
      /\ Latest(B, E)[n] = Innermost(BegunAt(B, E, n))
  <2>1. n \in 1..m + 1 /\ n + 1 \in 1..m + 1 /\ (n + 1) - 1 = n
    OBVIOUS
  <2>2. QED
    BY <2>1, BegunBelow
<1>2. ASSUME n \in B PROVE Latest(B, E)[n + 1] = n
  <2>1. n \in BegunAt(B, E, n + 1)
    BY <1>2 DEF BegunAt
  <2>2. Innermost(BegunAt(B, E, n + 1)) \in 1..n /\ n <= Innermost(BegunAt(B, E, n + 1))
    BY <1>1, <2>1, InnermostIs
  <2>3. QED
    BY <1>1, <2>2
<1>3. ASSUME n \in E PROVE Latest(B, E)[n + 1] = 0
  <2>1. BegunAt(B, E, n + 1) = {}
    <3>1. \A i \in B : i < n + 1 => i < n /\ n < n + 1
      BY <1>3
    <3>2. \A i \in B : ~(i < n + 1 /\ \A e \in E : ~(i < e /\ e < n + 1))
      BY <1>3, <3>1
    <3>3. QED
      BY <3>2 DEF BegunAt
  <2>2. QED
    BY <1>1, <2>1 DEF Innermost
<1>4. ASSUME n \notin B \cup E PROVE BegunAt(B, E, n + 1) = BegunAt(B, E, n)
  <2>1. \A i \in B \cup E : i < n + 1 <=> i < n
    BY <1>4
  <2>2. QED
    BY <2>1 DEF BegunAt
<1>5. QED
  BY <1>1, <1>2, <1>3, <1>4

\* What is said in an element, one event later; nothing at its start.
LEMMA SaidMore ==
    ASSUME NEW m \in Nat, NEW S \in SUBSET (1..m), NEW around, NEW n \in 1..m, NEW said, NEW default
    PROVE  /\ n \in S => LastSaid(S, around, said, around[n], n + 1, default) = said[n]
           /\ \A i : n \notin S \/ around[n] # i =>
                LastSaid(S, around, said, i, n + 1, default) = LastSaid(S, around, said, i, n, default)
           /\ (\A l \in S : around[l] < l) => LastSaid(S, around, said, n, n + 1, default) = default
<1>1. ASSUME n \in S PROVE LastSaid(S, around, said, around[n], n + 1, default) = said[n]
  <2> DEFINE own == Own(S, around, around[n], n + 1)
  <2>1. n \in own /\ own \in SUBSET (1..n) /\ n \in Nat
    <3>1. n < n + 1 /\ n \in Nat /\ \A l \in S : l < n + 1 => l \in 1..n
      OBVIOUS
    <3>2. QED
      BY <1>1, <3>1 DEF Own
  <2> HIDE DEF own
  <2>2. Max(own) \in own /\ \A i \in own : Max(own) >= i
    BY <2>1, MaxMember
  <2> DEFINE top == Max(own)
  <2>5. top \in 1..n /\ top >= n
    BY <2>1, <2>2
  <2>3. Max(own) = n
    <3> HIDE DEF top
    <3>1. top = n
      BY <2>1, <2>5
    <3>2. QED
      BY <3>1 DEF top
  <2>4. QED
    BY <2>1, <2>3 DEF LastSaid, own
<1>2. ASSUME NEW i, n \notin S \/ around[n] # i
      PROVE  LastSaid(S, around, said, i, n + 1, default) = LastSaid(S, around, said, i, n, default)
  <2>1. Own(S, around, i, n + 1) = Own(S, around, i, n)
    <3>1. \A l \in S : l < n + 1 <=> l < n \/ l = n
      OBVIOUS
    <3>2. QED
      BY <1>2, <3>1 DEF Own
  <2>2. QED
    BY <2>1 DEF LastSaid
<1>3. ASSUME \A l \in S : around[l] < l
      PROVE  LastSaid(S, around, said, n, n + 1, default) = default
  <2>1. Own(S, around, n, n + 1) = {}
    <3>1. \A l \in S : l < n + 1 => around[l] # n
      <4>1. TAKE l \in S
      <4>2. HAVE l < n + 1
      <4>3. l \in Nat /\ n \in Nat /\ around[l] < l
        BY <1>3
      <4>4. QED
        BY <4>2, <4>3
    <3>2. QED
      BY <3>1 DEF Own
  <2>2. QED
    BY <2>1 DEF LastSaid
<1>4. QED
  BY <1>1, <1>2, <1>3

LEMMA ChildrenMore ==
    ASSUME NEW m \in Nat, NEW C \in SUBSET (1..m), NEW around, NEW n \in 1..m
    PROVE  /\ n \in C => /\ Children(C, around, around[n + 1], n + 1)
                              = Children(C, around, around[n + 1], n) \cup {n}
                         /\ \A c \in Children(C, around, around[n + 1], n) : c < n
           /\ \A i : n \notin C \/ around[n + 1] # i =>
                Children(C, around, i, n + 1) = Children(C, around, i, n)
           /\ n \notin C /\ (\A c \in C : around[c + 1] < c + 1) => Children(C, around, n, n + 1) = {}
           /\ \A i : Children(C, around, i, 1) = {}
           /\ \A i, k : Children(C, around, i, k) \in SUBSET Nat /\ IsFiniteSet(Children(C, around, i, k))
<1>1. \A l \in C : l \in 1..m /\ l < n + 1 <=> l < n \/ l = n
  OBVIOUS
<1>2. \A i, k : Children(C, around, i, k) \in SUBSET Nat /\ IsFiniteSet(Children(C, around, i, k))
  <2>1. TAKE i, k
  <2>2. Children(C, around, i, k) \in SUBSET (1..m)
    BY DEF Children
  <2>3. QED
    BY <2>2, InnermostIs
<1>3. \A i : Children(C, around, i, 1) = {}
  <2>1. \A c \in C : ~(c < 1)
    OBVIOUS
  <2>2. QED
    BY <2>1 DEF Children
<1>4. ASSUME n \in C
      PROVE  /\ Children(C, around, around[n + 1], n + 1) = Children(C, around, around[n + 1], n) \cup {n}
             /\ \A c \in Children(C, around, around[n + 1], n) : c < n
  BY <1>1, <1>4 DEF Children
<1>5. ASSUME NEW i, n \notin C \/ around[n + 1] # i
      PROVE  Children(C, around, i, n + 1) = Children(C, around, i, n)
  BY <1>1, <1>5 DEF Children
<1>6. ASSUME n \notin C, \A c \in C : around[c + 1] < c + 1
      PROVE  Children(C, around, n, n + 1) = {}
  <2>1. \A c \in C : c < n + 1 => c < n
    BY <1>1, <1>6
  <2>2. \A c \in C : c < n => around[c + 1] # n
    BY <1>6
  <2>3. QED
    BY <2>1, <2>2 DEF Children
<1>7. QED
  BY <1>2, <1>3, <1>4, <1>5, <1>6

LEMMA ChildrenPlus ==
    ASSUME NEW m \in Nat, NEW C \in SUBSET (1..m), NEW around, NEW n \in 1..m, n \in C,
           NEW i, around[n + 1] = i
    PROVE  /\ Children(C, around, i, n + 1) = Plus(Children(C, around, i, n), n)
           /\ Below(Children(C, around, i, n), n)
BY ChildrenMore DEF Plus, Below

LEMMA ChildrenSame ==
    ASSUME NEW m \in Nat, NEW C \in SUBSET (1..m), NEW around, NEW n \in 1..m, NEW i,
           n \notin C \/ around[n + 1] # i
    PROVE  Children(C, around, i, n + 1) = Children(C, around, i, n)
<1>1. \A l \in C : l < n + 1 <=> l < n \/ l = n
  OBVIOUS
<1>2. QED
  BY <1>1 DEF Children

LEMMA ChildrenNone ==
    ASSUME NEW m \in Nat, NEW C \in SUBSET (1..m), NEW around, NEW n \in 1..m,
           n \notin C, \A c \in C : around[c + 1] < c + 1
    PROVE  Children(C, around, n, n + 1) = {}
BY ChildrenMore

LEMMA ChildrenPlaces ==
    ASSUME NEW m \in Nat, NEW C \in SUBSET (1..m), NEW around, NEW i, NEW k
    PROVE  Children(C, around, i, k) \in SUBSET Nat /\ IsFiniteSet(Children(C, around, i, k))
<1>1. Children(C, around, i, k) \in SUBSET (1..m)
  BY DEF Children
<1>2. QED
  BY <1>1, InnermostIs

\* A region that a tag begins and a tag of the same name ends.
TagAt(doc, i, ev, name) == doc[i].ev = ev /\ doc[i].name = name
Within(doc, name, n) ==
    \E i \in 1..n - 1 : /\ TagAt(doc, i, "start", name)
                        /\ \A j \in i + 1..n - 1 : ~TagAt(doc, j, "end", name)

LEMMA WithinMore ==
    ASSUME NEW doc, NEW name, NEW n \in Nat \ {0}
    PROVE  /\ ~Within(doc, name, 1)
           /\ TagAt(doc, n, "start", name) => Within(doc, name, n + 1)
           /\ TagAt(doc, n, "end", name) => ~Within(doc, name, n + 1)
           /\ ~TagAt(doc, n, "start", name) /\ ~TagAt(doc, n, "end", name) =>
                (Within(doc, name, n + 1) <=> Within(doc, name, n))
<1>1. ~Within(doc, name, 1)
  BY DEF Within
<1>2. ASSUME TagAt(doc, n, "start", name) PROVE Within(doc, name, n + 1)
  <2>1. n \in 1..(n + 1) - 1 /\ n + 1..(n + 1) - 1 = {}
    OBVIOUS
  <2>2. QED
    BY <1>2, <2>1 DEF Within
<1>3. ASSUME TagAt(doc, n, "end", name) PROVE ~Within(doc, name, n + 1)
  <2> SUFFICES ASSUME NEW i \in 1..(n + 1) - 1, TagAt(doc, i, "start", name),
                      \A j \in i + 1..(n + 1) - 1 : ~TagAt(doc, j, "end", name)
               PROVE  FALSE
    BY DEF Within
  <2>1. i # n
    <3>1. ~(doc[n].ev = "start" /\ doc[n].ev = "end")
      OBVIOUS
    <3>2. QED
      BY <1>3, <3>1 DEF TagAt
  <2>2. n \in i + 1..(n + 1) - 1
    BY <2>1
  <2>3. QED
    BY <1>3, <2>2
<1>4. ASSUME ~TagAt(doc, n, "start", name), ~TagAt(doc, n, "end", name)
      PROVE  Within(doc, name, n + 1) <=> Within(doc, name, n)
  <2>1. ASSUME Within(doc, name, n) PROVE Within(doc, name, n + 1)
    <3>1. PICK i \in 1..n - 1 : /\ TagAt(doc, i, "start", name)
                                /\ \A j \in i + 1..n - 1 : ~TagAt(doc, j, "end", name)
      BY <2>1 DEF Within
    <3>2. \A j \in i + 1..(n + 1) - 1 : j \in i + 1..n - 1 \/ j = n
      BY <3>1
    <3>3. i \in 1..(n + 1) - 1
      OBVIOUS
    <3>4. QED
      BY <1>4, <3>1, <3>2, <3>3 DEF Within
  <2>2. ASSUME Within(doc, name, n + 1) PROVE Within(doc, name, n)
    <3>1. PICK i \in 1..(n + 1) - 1 : /\ TagAt(doc, i, "start", name)
                                      /\ \A j \in i + 1..(n + 1) - 1 : ~TagAt(doc, j, "end", name)
      BY <2>2 DEF Within
    <3>2. i # n
      BY <1>4, <3>1
    <3>3. i \in 1..n - 1 /\ \A j \in i + 1..n - 1 : j \in i + 1..(n + 1) - 1
      BY <3>2
    <3>4. QED
      BY <3>1, <3>3 DEF Within
  <2>3. QED
    BY <2>1, <2>2
<1>5. QED
  BY <1>1, <1>2, <1>3, <1>4

\* A stack in order whose top changes.
LEMMA TopAnew ==
    ASSUME NEW S, NEW n, Below(S, n), NEW f, NEW stack, stack = InOrder(Plus(S, n), f), NEW g, \A i \in S : f[i] = g[i]
    PROVE  Retop(stack, g[n]) = InOrder(Plus(S, n), g)
<1>1. InOrder(S, f) = InOrder(S, g)
  BY SameInOrder
<1>2. InOrder(Plus(S, n), g) = Append(InOrder(S, g), g[n])
  BY OneMore
<1>3. Retop(stack, g[n]) = Append(InOrder(S, f), g[n])
  BY OnTopRetop
<1>4. QED
  BY <1>1, <1>2, <1>3

LEMMA TopSetAnew ==
    ASSUME NEW S, NEW n, Below(S, n), NEW f, NEW stack, stack = InOrder(Plus(S, n), f), NEW g, \A i \in S : f[i] = g[i]
    PROVE  TopSet(stack, g[n]) = InOrder(Plus(S, n), g)
<1>1. InOrder(S, f) = InOrder(S, g)
  BY SameInOrder
<1>2. InOrder(Plus(S, n), g) = Append(InOrder(S, g), g[n])
  BY OneMore
<1>3. TopSet(stack, g[n]) = Append(InOrder(S, f), g[n])
  BY OnTopSet
<1>4. QED
  BY <1>1, <1>2, <1>3

\* A frame gets one more child.
FrameOf(t, c) == [text_ref |-> t, children |-> c]
LEMMA FrameGains ==
    ASSUME NEW frame, NEW t, NEW c, NEW object, frame = [text_ref |-> t, children |-> c]
    PROVE  [frame EXCEPT !.children = Append(@, object)]
             = [text_ref |-> t, children |-> Append(c, object)]
OBVIOUS

\* The top gets one more child.
LEMMA TopGains ==
    ASSUME NEW S, NEW n, Below(S, n), NEW f, NEW stack, stack = InOrder(Plus(S, n), f), NEW g, \A i \in S : f[i] = g[i],
           NEW t, NEW c, NEW object, f[n] = FrameOf(t, c), g[n] = FrameOf(t, Append(c, object))
    PROVE  AddChild(stack, object) = InOrder(Plus(S, n), g)
<1>1. TopSet(stack, g[n]) = InOrder(Plus(S, n), g)
  BY TopSetAnew
<1>2. stack[Len(stack)] = f[n]
  BY OnTop
<1> DEFINE l == Len(stack)
           top == stack[l]
<1>3. AddChild(stack, object) = [stack EXCEPT ![l] = [top EXCEPT !.children = Append(@, object)]]
  BY DEF AddChild
<1>4. top = [text_ref |-> t, children |-> c]
  BY <1>2 DEF FrameOf
<1> HIDE DEF top, l
<1>5. [top EXCEPT !.children = Append(@, object)] = FrameOf(t, Append(c, object))
  BY <1>4, FrameGains DEF FrameOf
<1>6. AddChild(stack, object) = [stack EXCEPT ![l] = g[n]]
  BY <1>3, <1>5
<1>7. QED
  BY <1>1, <1>6 DEF TopSet, l

-----------------------------------------------------------------------------
(***************************************************************************)
(* Overlays                                                                 *)
(***************************************************************************)
\* Absent is neither a record nor a tuple.
AbsentIsPlain == \A S, f : Absent # [x \in S |-> f[x]]

\* The sequences and the pars of an overlay, which stand in its body, and what
\* a par says of its text and its clip.
TagsAt(doc, evs, name) == {i \in DOMAIN doc : doc[i].ev \in evs /\ doc[i].name = name}
InBody(doc, i) == Within(doc, "body", i)
SeqStarts(doc) == {i \in TagsAt(doc, {"start"}, "seq") : InBody(doc, i)}
SeqEnds(doc) == TagsAt(doc, {"end"}, "seq")
ParStarts(doc) == {i \in TagsAt(doc, {"start"}, "par") : InBody(doc, i)}
ParEnds(doc) == TagsAt(doc, {"end"}, "par")
InPar(doc) == Latest(ParStarts(doc), ParEnds(doc))
InSeq(doc, closes) == Around(SeqStarts(doc), SeqEnds(doc), closes)
Audios(doc) == TagsAt(doc, {"start", "empty"}, "audio")
WithSrc(doc, S) == {i \in S : At(doc, i, "src") # Absent}
TextTags(doc) == WithSrc(doc, TagsAt(doc, {"start", "empty"}, "text"))
Values(doc, key) == [i \in DOMAIN doc |-> At(doc, i, key)]
TextIn(doc, i, n) == LastSaid(TextTags(doc), InPar(doc), Values(doc, "src"), i, n, "")
\* The clip times are those of the last <audio>, with or without a src.
ClipIn(doc, i, n) ==
    LET Last0(S, key) == LastSaid(S, InPar(doc), Values(doc, key), i, n, Absent)
        src == Last0(WithSrc(doc, Audios(doc)), "src")
    IN IF src = Absent THEN Absent
       ELSE <<src, Last0(Audios(doc), "clipBegin"), Last0(Audios(doc), "clipEnd")>>
TextRefAt(doc, i) == IF i = 0 \/ At(doc, i, "textref") = Absent THEN "" ELSE At(doc, i, "textref")

\* Where sequences, and pars that say anything, are complete.
SeqsComplete(doc, closes) == {e \in SeqEnds(doc) : closes[e] # 0}
ParsComplete(doc) ==
    {e \in ParEnds(doc) : LET i == InPar(doc)[e]
                          IN i # 0 /\ (TextIn(doc, i, e) # "" \/ ClipIn(doc, i, e) # Absent)}
SyncEnds(doc, closes) == SeqsComplete(doc, closes) \cup ParsComplete(doc)
InSequence(doc, closes, object, i, n) ==
    InOrder(Children(SyncEnds(doc, closes), InSeq(doc, closes), i, n), object)

\* The sync points of a document: an end tag closes the innermost sequence, if
\* any; a sequence holds the objects that were complete in it, a par its text
\* and its clip.
SyncObjects(doc, closes, object) ==
    /\ Closing(SeqStarts(doc), SeqEnds(doc), closes)
    /\ \A e \in SeqsComplete(doc, closes) :
         object[e] = SmilObject(TextRefAt(doc, closes[e]), Absent,
                                InSequence(doc, closes, object, closes[e], e))
    /\ \A e \in ParsComplete(doc) :
         object[e] = SmilObject(TextIn(doc, InPar(doc)[e], e), ClipIn(doc, InPar(doc)[e], e), << >>)

\* While an overlay is read.
SeqFrames(doc, closes, object, n) ==
    [i \in {0} \cup DOMAIN doc |->
       [text_ref |-> TextRefAt(doc, i), children |-> InSequence(doc, closes, object, i, n)]]
OpenSeqs(doc, closes, n) == {0} \cup OpenAt(SeqStarts(doc), SeqEnds(doc), closes, n)
ParNow(doc, n) ==
    IF InPar(doc)[n] = 0 THEN Absent
    ELSE [text_ref |-> TextIn(doc, InPar(doc)[n], n), audio |-> ClipIn(doc, InPar(doc)[n], n)]
SmilNow(doc, closes, object, n, sm) ==
    /\ n \in 1..Len(doc) + 1
    /\ sm = [stack |-> sm.stack, in_body |-> sm.in_body, cur_par |-> sm.cur_par]
    /\ sm.stack = InOrder(OpenSeqs(doc, closes, n), SeqFrames(doc, closes, object, n))
    /\ sm.in_body \in BOOLEAN /\ (sm.in_body <=> InBody(doc, n))
    /\ sm.cur_par = ParNow(doc, n)

LEMMA SyncPlaces ==
    ASSUME NEW doc, NEW V, doc \in Seq(V), NEW closes
    PROVE  /\ Len(doc) \in Nat /\ DOMAIN doc = 1..Len(doc)
           /\ SeqStarts(doc) \in SUBSET (1..Len(doc)) /\ SeqEnds(doc) \in SUBSET (1..Len(doc))
           /\ ParStarts(doc) \in SUBSET (1..Len(doc)) /\ ParEnds(doc) \in SUBSET (1..Len(doc))
           /\ Audios(doc) \in SUBSET (1..Len(doc)) /\ TextTags(doc) \in SUBSET (1..Len(doc))
           /\ WithSrc(doc, Audios(doc)) \in SUBSET (1..Len(doc))
           /\ SyncEnds(doc, closes) \in SUBSET (1..Len(doc))
           /\ SeqStarts(doc) \cap SeqEnds(doc) = {} /\ ParStarts(doc) \cap ParEnds(doc) = {}
           /\ SeqsComplete(doc, closes) \subseteq SeqEnds(doc) /\ ParsComplete(doc) \subseteq ParEnds(doc)
           /\ SeqEnds(doc) \cap ParEnds(doc) = {} /\ SeqStarts(doc) \cap SyncEnds(doc, closes) = {}
<1>1. Len(doc) \in Nat /\ DOMAIN doc = 1..Len(doc)
  OBVIOUS
<1>2. \A evs, name : TagsAt(doc, evs, name) \in SUBSET (1..Len(doc))
  BY <1>1 DEF TagsAt
<1>3. /\ SeqStarts(doc) \in SUBSET (1..Len(doc)) /\ SeqEnds(doc) \in SUBSET (1..Len(doc))
      /\ ParStarts(doc) \in SUBSET (1..Len(doc)) /\ ParEnds(doc) \in SUBSET (1..Len(doc))
      /\ Audios(doc) \in SUBSET (1..Len(doc)) /\ TextTags(doc) \in SUBSET (1..Len(doc))
      /\ WithSrc(doc, Audios(doc)) \in SUBSET (1..Len(doc))
  BY <1>2 DEF SeqStarts, SeqEnds, ParStarts, ParEnds, Audios, TextTags, WithSrc
<1>4. /\ SeqsComplete(doc, closes) \subseteq SeqEnds(doc) /\ ParsComplete(doc) \subseteq ParEnds(doc)
  BY DEF SeqsComplete, ParsComplete
<1>5. /\ \A i \in SeqStarts(doc) \cup ParStarts(doc) : doc[i].ev = "start"
      /\ \A i \in SeqEnds(doc) \cup ParEnds(doc) : doc[i].ev = "end"
      /\ \A i \in SeqEnds(doc) : doc[i].name = "seq"
      /\ \A i \in ParEnds(doc) : doc[i].name = "par"
  BY DEF SeqStarts, SeqEnds, ParStarts, ParEnds, TagsAt
<1>6. /\ SeqStarts(doc) \cap SeqEnds(doc) = {} /\ ParStarts(doc) \cap ParEnds(doc) = {}
      /\ SeqEnds(doc) \cap ParEnds(doc) = {}
  BY <1>5
<1>7. SeqStarts(doc) \cap SyncEnds(doc, closes) = {}
  BY <1>4, <1>5 DEF SyncEnds
<1>8. QED
  BY <1>1, <1>3, <1>4, <1>6, <1>7 DEF SyncEnds

\* The open sequences, after one more event.
LEMMA SeqsMore ==
    ASSUME NEW doc, NEW V, doc \in Seq(V), NEW closes, NEW object, SyncObjects(doc, closes, object),
           NEW n \in 1..Len(doc), NEW stack,
           stack = InOrder(OpenSeqs(doc, closes, n), SeqFrames(doc, closes, object, n))
    PROVE  LET next == InOrder(OpenSeqs(doc, closes, n + 1), SeqFrames(doc, closes, object, n + 1)) IN
           /\ n \notin SeqStarts(doc) \cup SyncEnds(doc, closes) => next = stack
           /\ n \in SeqStarts(doc) => next = Append(stack, SeqFrame(TextRefAt(doc, n)))
           /\ n \in ParsComplete(doc) =>
                next = AddChild(stack, SmilObject(TextIn(doc, InPar(doc)[n], n),
                                                  ClipIn(doc, InPar(doc)[n], n), << >>))
           /\ Len(stack) \in Nat /\ Len(stack) > 0
           /\ n \in SeqEnds(doc) => (Len(stack) > 1 <=> n \in SeqsComplete(doc, closes))
           /\ n \in SeqsComplete(doc, closes) =>
                next = AddChild(SubSeq(stack, 1, Len(stack) - 1),
                                SmilObject(stack[Len(stack)].text_ref, Absent, stack[Len(stack)].children))
<1> DEFINE B == SeqStarts(doc)
           E == SeqEnds(doc)
           C == SyncEnds(doc, closes)
           m == Len(doc)
           ar == InSeq(doc, closes)
           open(k) == OpenAt(B, E, closes, k)
           S(k) == OpenSeqs(doc, closes, k)
           F(k) == SeqFrames(doc, closes, object, k)
           inside(i, k) == Children(C, ar, i, k)
<1>1. /\ m \in Nat /\ DOMAIN doc = 1..m /\ B \in SUBSET (1..m) /\ E \in SUBSET (1..m) /\ B \cap E = {}
      /\ C \in SUBSET (1..m) /\ B \cap C = {} /\ n \in 1..m + 1 /\ n + 1 \in 1..m + 1 /\ n \in 1..m
      /\ C = SeqsComplete(doc, closes) \cup ParsComplete(doc)
      /\ SeqsComplete(doc, closes) \subseteq E /\ \A e \in ParsComplete(doc) : e \notin E
  <2>1. n \in 1..m + 1 /\ n + 1 \in 1..m + 1 /\ m \in Nat
    OBVIOUS
  <2>2. QED
    BY <2>1, SyncPlaces DEF SyncEnds
<1>2. Closing(B, E, closes) /\ ar = Around(B, E, closes)
  BY DEF SyncObjects, InSeq
<1>3. /\ n \in B => open(n + 1) = open(n) \cup {n}
      /\ n \notin B \cup E => open(n + 1) = open(n)
      /\ n \in E /\ open(n) = {} => open(n + 1) = {} /\ closes[n] = 0
      /\ n \in E /\ open(n) # {} =>
           /\ closes[n] \in open(n) /\ closes[n] # 0 /\ closes[n] < n
           /\ open(n) = open(n + 1) \cup {closes[n]}
           /\ \A i \in open(n + 1) : i < closes[n]
  <2>1. /\ m \in Nat /\ B \in SUBSET (1..m) /\ E \in SUBSET (1..m) /\ B \cap E = {}
        /\ Closing(B, E, closes) /\ n \in 1..m
    BY <1>1, <1>2
  <2> HIDE DEF B, E, m
  <2>2. QED
    BY <2>1, OpenMore
<1>4. \A k \in 1..m + 1 : /\ open(k) \in SUBSET (1..k - 1) /\ IsFiniteSet(open(k))
                          /\ ar[k] = Innermost(open(k)) /\ ar[k] \in 0..k - 1
                          /\ S(k) = {0} \cup open(k)
  <2>1. TAKE k \in 1..m + 1
  <2>2. S(k) = {0} \cup open(k)
    BY DEF OpenSeqs
  <2>3. m \in Nat /\ B \in SUBSET (1..m) /\ k \in 1..m + 1
    BY <1>1
  <2> HIDE DEF B, E, m, ar, open
  <2>4. /\ OpenAt(B, E, closes, k) \in SUBSET (1..k - 1) /\ IsFiniteSet(OpenAt(B, E, closes, k))
        /\ Around(B, E, closes)[k] = Innermost(OpenAt(B, E, closes, k))
        /\ Around(B, E, closes)[k] \in 0..k - 1
    BY <2>3, OpenBelow
  <2> USE DEF open
  <2>5. QED
    BY <1>2, <2>2, <2>4
<1>5. /\ n \in C => Below(inside(ar[n + 1], n), n) /\ inside(ar[n + 1], n + 1) = Plus(inside(ar[n + 1], n), n)
      /\ \A i : n \notin C \/ ar[n + 1] # i => inside(i, n + 1) = inside(i, n)
      /\ n \notin C => inside(n, n + 1) = {}
      /\ \A i, k : inside(i, k) \in SUBSET Nat /\ IsFiniteSet(inside(i, k))
  <2>1. \A c \in C : ar[c + 1] < c + 1
    <3>1. TAKE c \in C
    <3>2. c + 1 \in 1..m + 1 /\ c \in Nat
      BY <1>1
    <3>3. ar[c + 1] \in 0..(c + 1) - 1
      BY <1>4, <3>2
    <3>4. QED
      BY <3>2, <3>3
  <2>2. m \in Nat /\ C \in SUBSET (1..m) /\ n \in 1..m
    BY <1>1
  <2> HIDE DEF C, ar, m, inside
  <2>3. ASSUME n \in C
        PROVE  Below(inside(ar[n + 1], n), n) /\ inside(ar[n + 1], n + 1) = Plus(inside(ar[n + 1], n), n)
    BY <2>2, <2>3, ChildrenPlus DEF inside
  <2>4. ASSUME NEW i, n \notin C \/ ar[n + 1] # i
        PROVE  inside(i, n + 1) = inside(i, n)
    BY <2>2, <2>4, ChildrenSame DEF inside
  <2>5. ASSUME n \notin C PROVE inside(n, n + 1) = {}
    BY <2>1, <2>2, <2>5, ChildrenNone DEF inside
  <2>6. ASSUME NEW i, NEW k PROVE inside(i, k) \in SUBSET Nat /\ IsFiniteSet(inside(i, k))
    BY <2>2, ChildrenPlaces DEF inside
  <2>7. QED
    BY <2>3, <2>4, <2>5, <2>6
<1>6. \A k : \A i \in {0} \cup 1..m :
         F(k)[i] = [text_ref |-> TextRefAt(doc, i), children |-> InOrder(inside(i, k), object)]
  BY <1>1 DEF SeqFrames, InSequence
<1>7. \A k \in 1..m + 1 : S(k) \in SUBSET (0..m) /\ S(k) # {} /\ S(k) \in SUBSET Nat /\ IsFiniteSet(S(k))
  <2>1. TAKE k \in 1..m + 1
  <2>2. IsFiniteSet({0} \cup open(k))
    BY <1>4, FS_AddElement
  <2>3. \A i \in open(k) : i \in 0..m
    BY <1>1, <1>4
  <2>4. S(k) = {0} \cup open(k) /\ 0 \in 0..m
    BY <1>1, <1>4
  <2> HIDE DEF S, open, m
  <2>5. QED
    BY <1>1, <2>2, <2>3, <2>4
<1> HIDE DEF B, E, C, m, ar, open, S, F, inside
<1>8. stack = InOrder(S(n), F(n))
  BY DEF S, F
<1> DEFINE next == InOrder(S(n + 1), F(n + 1))
\* What is on top of it.
<1>9. \A k \in 1..m + 1 : /\ ar[k] \in S(k) /\ S(k) = (S(k) \ {ar[k]}) \cup {ar[k]}
                          /\ \A i \in S(k) \ {ar[k]} : i < ar[k]
                          /\ S(k) \ {ar[k]} \in SUBSET Nat /\ IsFiniteSet(S(k) \ {ar[k]})
  <2>1. TAKE k \in 1..m + 1
  <2>2. k - 1 \in Nat /\ open(k) \in SUBSET (1..k - 1)
    BY <1>1, <1>4
  <2>3. /\ open(k) = {} <=> ar[k] = 0
        /\ open(k) # {} => ar[k] \in open(k) /\ \A i \in open(k) : i <= ar[k]
    BY <1>4, <2>2, InnermostIs
  <2>4. ar[k] \in S(k) /\ \A i \in S(k) \ {ar[k]} : i < ar[k]
    <3>1. S(k) = {0} \cup open(k) /\ ar[k] \in Nat
      BY <1>4, <2>2
    <3>2. CASE open(k) = {}
      BY <2>3, <3>1, <3>2
    <3>3. CASE open(k) # {}
      <4>1. ar[k] \in open(k) /\ ar[k] > 0 /\ \A i \in open(k) : i <= ar[k] /\ i \in Nat
        BY <2>2, <2>3, <3>1, <3>3
      <4>2. QED
        BY <3>1, <4>1
    <3>4. QED
      BY <3>2, <3>3
  <2>5. S(k) \in SUBSET Nat /\ IsFiniteSet(S(k))
    BY <1>7
  <2>6. IsFiniteSet(S(k) \ {ar[k]})
    BY <2>5, FS_Subset
  <2>7. QED
    BY <2>4, <2>5, <2>6
<1>10. Len(stack) = Cardinality(S(n)) /\ Len(stack) \in Nat /\ Len(stack) > 0
  <2>1. Len(stack) = Cardinality(S(n)) /\ IsFiniteSet(S(n)) /\ S(n) # {}
    BY <1>1, <1>7, <1>8, InOrderMore
  <2>2. QED
    BY <2>1, FS_CardinalityType, FS_EmptySet
\* The frames that are left as they are.
<1>11. \A i \in S(n) : n \notin C \/ ar[n + 1] # i => F(n + 1)[i] = F(n)[i]
  <2>1. TAKE i \in S(n)
  <2>2. HAVE n \notin C \/ ar[n + 1] # i
  <2>3. inside(i, n + 1) = inside(i, n) /\ i \in {0} \cup 1..m
    BY <1>1, <1>5, <1>7, <2>2
  <2>4. QED
    BY <1>6, <2>3
<1>12. ASSUME n \notin B, n \notin C PROVE next = stack
  <2>1. S(n + 1) = S(n)
    <3>1. CASE n \notin E
      BY <1>1, <1>3, <1>4, <1>12, <3>1
    <3>2. CASE n \in E
      <4>1. closes[n] = 0
        BY <1>1, <1>12, <3>2 DEF SeqsComplete, E
      <4>2. QED
        BY <1>1, <1>3, <1>4, <3>2, <4>1
    <3>3. QED
      BY <3>1, <3>2
  <2>2. \A i \in S(n) : F(n)[i] = F(n + 1)[i]
    BY <1>11, <1>12
  <2>3. InOrder(S(n), F(n)) = InOrder(S(n), F(n + 1))
    BY <1>1, <1>7, <2>2, InOrderMore
  <2>4. QED
    BY <1>8, <2>1, <2>3
<1>13. ASSUME n \in B PROVE next = Append(stack, SeqFrame(TextRefAt(doc, n)))
  <2>1. S(n + 1) = S(n) \cup {n} /\ n \notin C /\ \A i \in S(n) : i < n
    BY <1>1, <1>3, <1>4, <1>13
  <2>2. \A i \in S(n) : F(n)[i] = F(n + 1)[i]
    BY <1>11, <2>1
  <2>3. F(n + 1)[n] = SeqFrame(TextRefAt(doc, n))
    <3>1. InOrder({}, object) = << >>
      BY <1>5, InOrderMore
    <3>2. n \in {0} \cup 1..m /\ inside(n, n + 1) = {}
      BY <1>1, <1>5, <1>13
    <3>3. F(n + 1)[n] = [text_ref |-> TextRefAt(doc, n), children |-> InOrder(inside(n, n + 1), object)]
      BY <1>6, <3>2
    <3>4. QED
      BY <3>1, <3>2, <3>3 DEF SeqFrame
  <2>4. InOrder(S(n), F(n)) = InOrder(S(n), F(n + 1))
    BY <1>1, <1>7, <2>2, InOrderMore
  <2>5. InOrder(S(n) \cup {n}, F(n + 1)) = Append(InOrder(S(n), F(n + 1)), F(n + 1)[n])
    <3>1. n \in Nat
      OBVIOUS
    <3>2. S(n) \in SUBSET Nat /\ IsFiniteSet(S(n)) /\ \A i \in S(n) : i < n
      BY <1>1, <1>7, <2>1
    <3>3. Below(S(n), n)
      BY <3>1, <3>2 DEF Below
    <3>4. QED
      BY <3>3, OneMore DEF Plus
  <2>6. QED
    BY <1>8, <2>1, <2>3, <2>4, <2>5
\* One more child on top of what is left.
<1>14. ASSUME n \in C PROVE next = AddChild(InOrder(S(n + 1), F(n)), object[n]) /\ S(n + 1) \subseteq S(n)
  <2> DEFINE k == ar[n + 1]
             rest == S(n + 1) \ {k}
             low == InOrder(S(n + 1), F(n))
  <2>1. /\ k \in S(n + 1) /\ S(n + 1) = rest \cup {k} /\ \A i \in rest : i < k
        /\ rest \in SUBSET Nat /\ IsFiniteSet(rest) /\ k \in Nat
    BY <1>1, <1>7, <1>9
  <2>2. S(n + 1) \subseteq S(n)
    BY <1>1, <1>3, <1>4, <1>14
  <2>3. \A i \in rest : F(n)[i] = F(n + 1)[i]
    BY <1>11, <2>2
  <2> DEFINE t == TextRefAt(doc, k)
             c == InOrder(inside(k, n), object)
             o == object[n]
  <2>4. F(n)[k] = [text_ref |-> t, children |-> c] /\ F(n + 1)[k] = [text_ref |-> t, children |-> Append(c, o)]
    <3>1. k \in {0} \cup 1..m
      BY <1>1, <1>7, <2>1
    <3>2. Below(inside(k, n), n) /\ inside(k, n + 1) = Plus(inside(k, n), n)
      BY <1>5, <1>14
    <3>3. InOrder(inside(k, n + 1), object) = Append(c, o)
      BY <3>2, OneMore
    <3>4. QED
      BY <1>6, <3>1, <3>3
  <2> HIDE DEF k, rest, low, t, c, o
  <2>5. low = InOrder(Plus(rest, k), F(n)) /\ Below(rest, k)
    BY <2>1 DEF low, Plus, Below
  <2> DEFINE f == F(n)
             g == F(n + 1)
  <2>6. /\ low = InOrder(Plus(rest, k), f) /\ Below(rest, k) /\ \A i \in rest : f[i] = g[i]
        /\ f[k] = FrameOf(t, c) /\ g[k] = FrameOf(t, Append(c, o))
    BY <2>3, <2>4, <2>5 DEF FrameOf
  <2> HIDE DEF f, g
  <2>7. AddChild(low, o) = InOrder(Plus(rest, k), g)
    BY <2>6, TopGains
  <2>9. next = AddChild(low, object[n])
    BY <2>1, <2>7 DEF g, o, Plus
  <2>10. QED
    BY <2>2, <2>9 DEF low
<1>15. ASSUME n \in ParsComplete(doc)
       PROVE  next = AddChild(stack, SmilObject(TextIn(doc, InPar(doc)[n], n),
                                                ClipIn(doc, InPar(doc)[n], n), << >>))
  <2>1. n \in C /\ n \notin E /\ n \notin B
    BY <1>1, <1>15
  <2>2. S(n + 1) = S(n)
    BY <1>1, <1>3, <1>4, <2>1
  <2>3. object[n] = SmilObject(TextIn(doc, InPar(doc)[n], n), ClipIn(doc, InPar(doc)[n], n), << >>)
    BY <1>15 DEF SyncObjects
  <2>4. next = AddChild(InOrder(S(n + 1), F(n)), object[n])
    BY <1>14, <2>1
  <2>5. QED
    BY <1>8, <2>2, <2>3, <2>4
<1>16. ASSUME n \in E PROVE Len(stack) > 1 <=> n \in SeqsComplete(doc, closes)
  <2>1. n \in SeqsComplete(doc, closes) <=> closes[n] # 0
    BY <1>16 DEF SeqsComplete, E
  <2>2. CASE open(n) = {}
    <3>1. S(n) = {0} /\ closes[n] = 0
      BY <1>1, <1>3, <1>4, <1>16, <2>2
    <3>2. Cardinality(S(n)) = 1
      BY <3>1, FS_Singleton
    <3>3. QED
      BY <1>10, <2>1, <3>1, <3>2
  <2>3. CASE open(n) # {}
    <3>1. closes[n] # 0 /\ closes[n] \in open(n) /\ 0 \in S(n) /\ closes[n] \in S(n)
      BY <1>1, <1>3, <1>4, <1>16, <2>3
    <3>2. Cardinality(S(n)) # 1
      <4>1. IsFiniteSet(S(n))
        BY <1>1, <1>7
      <4>2. ASSUME Cardinality(S(n)) = 1 PROVE FALSE
        <5>1. \E x : S(n) = {x}
          BY <4>1, <4>2, FS_Singleton
        <5>2. QED
          BY <3>1, <5>1
      <4>3. QED
        BY <4>2
    <3>3. QED
      BY <1>10, <2>1, <3>1, <3>2
  <2>4. QED
    BY <2>2, <2>3
<1>17. ASSUME n \in SeqsComplete(doc, closes)
       PROVE  next = AddChild(SubSeq(stack, 1, Len(stack) - 1),
                              SmilObject(stack[Len(stack)].text_ref, Absent, stack[Len(stack)].children))
  <2> DEFINE k == closes[n]
  <2>1. n \in E /\ n \in C /\ k # 0
    BY <1>1, <1>17 DEF SeqsComplete
  <2>2. k \in open(n) /\ open(n) = open(n + 1) \cup {k} /\ \A i \in open(n + 1) : i < k
    BY <1>3, <2>1
  <2>3. S(n) = S(n + 1) \cup {k} /\ k \in 1..m /\ \A i \in S(n + 1) : i < k
    <3>1. S(n) = {0} \cup open(n) /\ S(n + 1) = {0} \cup open(n + 1) /\ open(n) \in SUBSET (1..n - 1)
      BY <1>1, <1>4
    <3>2. k \in 1..n - 1
      BY <2>2, <3>1
    <3>3. k \in 1..m /\ 0 < k
      BY <1>1, <3>2
    <3> HIDE DEF k
    <3>4. QED
      BY <2>2, <3>1, <3>3
  <2>4. S(n + 1) \in SUBSET Nat /\ IsFiniteSet(S(n + 1)) /\ k \in Nat
    BY <1>1, <1>7, <2>3
  <2> HIDE DEF k
  <2>5. stack[Len(stack)] = F(n)[k] /\ SubSeq(stack, 1, Len(stack) - 1) = InOrder(S(n + 1), F(n))
    <3> DEFINE f == F(n)
               rest == S(n + 1)
    <3>1. stack = InOrder(Plus(rest, k), f)
      BY <1>8, <2>3 DEF Plus
    <3>2. Below(rest, k)
      BY <2>3, <2>4 DEF Below
    <3> HIDE DEF f, rest
    <3>3. stack[Len(stack)] = f[k]
      BY <3>1, <3>2, OnTop
    <3>4. Pop(stack) = InOrder(rest, f)
      BY <3>1, <3>2, OnTopRest
    <3>5. QED
      BY <3>3, <3>4 DEF f, rest, Pop
  <2>6. F(n)[k] = [text_ref |-> TextRefAt(doc, k), children |-> InOrder(inside(k, n), object)]
    BY <1>6, <2>3
  <2>7. object[n] = SmilObject(TextRefAt(doc, k), Absent, InOrder(inside(k, n), object))
    BY <1>17 DEF SyncObjects, InSequence, k, inside, C, ar
  <2>8. object[n] = SmilObject(stack[Len(stack)].text_ref, Absent, stack[Len(stack)].children)
    BY <2>5, <2>6, <2>7
  <2>9. next = AddChild(InOrder(S(n + 1), F(n)), object[n])
    BY <1>14, <2>1
  <2>10. QED
    BY <2>5, <2>8, <2>9
<1>18. QED
  <2>1. n \notin B \cup C => n \notin B /\ n \notin C
    OBVIOUS
  <2> USE DEF B, E, C, S, F
  <2>2. QED
    BY <1>10, <1>12, <1>13, <1>15, <1>16, <1>17, <2>1

\* What is said in an element, one event later.
Gives(f, n, v) == f[n] = v
Steps(m, S, n) == m \in Nat /\ S \in SUBSET (1..m) /\ n \in 1..m
LEMMA SaidNew ==
    ASSUME NEW m, NEW S, NEW n, Steps(m, S, n), NEW around, NEW said, NEW default,
           n \in S, NEW i, Gives(around, n, i), NEW v, Gives(said, n, v), NEW k, k = n + 1
    PROVE  LastSaid(S, around, said, i, k, default) = v
BY SaidMore DEF Steps, Gives

LEMMA SaidSame ==
    ASSUME NEW m, NEW S, NEW n, Steps(m, S, n), NEW around, NEW said, NEW default,
           NEW i, n \notin S, NEW k, k = n + 1
    PROVE  LastSaid(S, around, said, i, k, default) = LastSaid(S, around, said, i, n, default)
<1>1. Own(S, around, i, k) = Own(S, around, i, n)
  <2>1. \A l \in S : l < n + 1 <=> l < n \/ l = n
    BY DEF Steps
  <2>2. QED
    BY <2>1 DEF Own
<1>2. QED
  BY <1>1 DEF LastSaid

LEMMA SaidNone ==
    ASSUME NEW m \in Nat, NEW S \in SUBSET (1..m), NEW around, NEW n \in 1..m, NEW said, NEW default,
           \A l \in S : around[l] < l
    PROVE  LastSaid(S, around, said, n, n + 1, default) = default
BY SaidMore

\* A par, one more event later.
ParOf(t, a) == [text_ref |-> t, audio |-> a]
LEMMA ParsApart ==
    ASSUME NEW t, NEW a, NEW u, NEW b
    PROVE  ParOf(t, a) = ParOf(u, b) <=> t = u /\ a = b
BY DEF ParOf

LEMMA NotPlain ==
    ASSUME AbsentIsPlain
    PROVE  /\ \A t, a : Absent # ParOf(t, a)
           /\ \A x, y, z : Absent # <<x, y, z>>
<1>1. ASSUME NEW t, NEW a PROVE Absent # ParOf(t, a)
  <2> DEFINE r == ParOf(t, a)
  <2>1. r = [x \in {"text_ref", "audio"} |-> r[x]]
    BY DEF ParOf
  <2>2. QED
    BY <2>1 DEF AbsentIsPlain
<1>2. ASSUME NEW x, NEW y, NEW z PROVE Absent # <<x, y, z>>
  <2> DEFINE r == <<x, y, z>>
  <2>1. r = [i \in 1..3 |-> r[i]]
    OBVIOUS
  <2>2. QED
    BY <2>1 DEF AbsentIsPlain
<1>3. QED
  BY <1>1, <1>2

\* Where a par begins, and ends.
LEMMA ParOpens ==
    ASSUME NEW doc, NEW V, doc \in Seq(V), NEW n \in 1..Len(doc)
    PROVE  /\ n \in ParStarts(doc) => ParNow(doc, n + 1) = EmptyPar
           /\ n \in ParEnds(doc) => ParNow(doc, n + 1) = Absent
           /\ ParNow(doc, 1) = Absent
           /\ n \notin ParStarts(doc) \cup ParEnds(doc) => InPar(doc)[n + 1] = InPar(doc)[n]
<1> DEFINE m == Len(doc)
           B == ParStarts(doc)
           E == ParEnds(doc)
           around == InPar(doc)
<1>1. /\ m \in Nat /\ DOMAIN doc = 1..m /\ B \in SUBSET (1..m) /\ E \in SUBSET (1..m) /\ B \cap E = {}
      /\ Audios(doc) \in SUBSET (1..m) /\ TextTags(doc) \in SUBSET (1..m)
      /\ WithSrc(doc, Audios(doc)) \in SUBSET (1..m)
  BY SyncPlaces
<1>2. around = Latest(B, E)
  BY DEF InPar
<1> HIDE DEF m, B, E, around
<1>3. /\ n \in B => Latest(B, E)[n + 1] = n
      /\ n \in E => Latest(B, E)[n + 1] = 0
      /\ n \notin B \cup E => Latest(B, E)[n + 1] = Latest(B, E)[n]
  <2>1. n \in 1..m
    BY DEF m
  <2>2. QED
    BY <1>1, <2>1, BegunMore
<1>4. \A k \in 1..m + 1 : around[k] \in 0..k - 1
  <2>1. TAKE k \in 1..m + 1
  <2>2. Latest(B, E)[k] \in 0..k - 1
    BY <1>1, BegunBelow
  <2>3. QED
    BY <1>2, <2>2
<1>5. ASSUME n \in B PROVE ParNow(doc, n + 1) = EmptyPar
  <2>1. around[n + 1] = n /\ n # 0
    BY <1>2, <1>3, <1>5
  <2>2. ASSUME NEW S \in SUBSET (1..m), NEW said, NEW default
        PROVE  LastSaid(S, around, said, n, n + 1, default) = default
    <3>1. \A l \in S : around[l] < l
      <4>1. TAKE l \in S
      <4>2. l \in 1..m + 1 /\ l \in Nat
        BY <1>1
      <4>3. around[l] \in 0..l - 1
        BY <1>4, <4>2
      <4>4. QED
        BY <4>2, <4>3
    <3>2. n \in 1..m
      BY DEF m
    <3>3. QED
      BY <1>1, <3>1, <3>2, SaidNone
  <2>3. TextIn(doc, n, n + 1) = ""
    BY <1>1, <2>2 DEF TextIn, around
  <2>4. ClipIn(doc, n, n + 1) = Absent
    <3>1. LastSaid(WithSrc(doc, Audios(doc)), InPar(doc), Values(doc, "src"), n, n + 1, Absent) = Absent
      BY <1>1, <2>2 DEF around
    <3>2. QED
      BY <3>1 DEF ClipIn
  <2>5. QED
    BY <2>1, <2>3, <2>4 DEF ParNow, EmptyPar, around
<1>6. ASSUME n \in E PROVE ParNow(doc, n + 1) = Absent
  BY <1>2, <1>3, <1>6 DEF ParNow, around
<1>7. ParNow(doc, 1) = Absent
  <2>1. 1 \in 1..m + 1
    BY <1>1
  <2>2. around[1] \in 0..1 - 1
    BY <1>4, <2>1
  <2>3. around[1] = 0
    BY <2>2
  <2>4. QED
    BY <2>3 DEF ParNow, around
<1>8. QED
  BY <1>2, <1>3, <1>5, <1>6, <1>7 DEF B, E, around

\* What is said in it.
\* What is said in it.
NoText == ""
LEMMA ParText0 ==
    ASSUME NEW doc, NEW V, doc \in Seq(V), NEW n \in 1..Len(doc), NEW i, InPar(doc)[n] = i
    PROVE  TextIn(doc, i, n + 1) = IF n \in TextTags(doc) THEN At(doc, n, "src") ELSE TextIn(doc, i, n)
<1> DEFINE m == Len(doc)
           S == TextTags(doc)
           around == InPar(doc)
           said == Values(doc, "src")
<1>1. n \in DOMAIN doc /\ Steps(m, S, n)
  BY SyncPlaces DEF Steps
<1>2. Gives(said, n, At(doc, n, "src"))
  BY <1>1 DEF Values, Gives
<1>3. \A k : TextIn(doc, i, k) = LastSaid(S, around, said, i, k, NoText)
  BY Zenon DEF TextIn, NoText
<1>4. Gives(around, n, i)
  BY DEF Gives
<1> HIDE DEF m, S, around, said
<1>5. CASE n \in S
  <2>1. \A k : k = n + 1 => LastSaid(S, around, said, i, k, NoText) = At(doc, n, "src")
    BY <1>1, <1>2, <1>4, <1>5, SaidNew
  <2>2. QED
    BY <1>3, <1>5, <2>1 DEF S
<1>6. CASE n \notin S
  <2>1. \A k : k = n + 1 => LastSaid(S, around, said, i, k, NoText) = LastSaid(S, around, said, i, n, NoText)
    BY <1>1, <1>6, SaidSame
  <2>2. QED
    BY <1>3, <1>6, <2>1 DEF S
<1>7. QED
  BY <1>5, <1>6

LEMMA ParClip ==
    ASSUME AbsentIsPlain,
           NEW doc, NEW V, doc \in Seq(V), NEW n \in 1..Len(doc), NEW i, InPar(doc)[n] = i,
           NEW clip, clip = ClipIn(doc, i, n)
    PROVE  /\ n \in WithSrc(doc, Audios(doc)) =>
                ClipIn(doc, i, n + 1) = <<At(doc, n, "src"), At(doc, n, "clipBegin"), At(doc, n, "clipEnd")>>
           /\ n \notin Audios(doc) => ClipIn(doc, i, n + 1) = clip
           /\ n \notin WithSrc(doc, Audios(doc)) /\ clip = Absent => ClipIn(doc, i, n + 1) = Absent
           /\ n \in Audios(doc) /\ n \notin WithSrc(doc, Audios(doc)) /\ clip # Absent =>
                ClipIn(doc, i, n + 1) = <<clip[1], At(doc, n, "clipBegin"), At(doc, n, "clipEnd")>>
<1> DEFINE m == Len(doc)
           A == Audios(doc)
           S == WithSrc(doc, Audios(doc))
           around == InPar(doc)
           Src(k) == LastSaid(S, around, Values(doc, "src"), i, k, Absent)
           Begin(k) == LastSaid(A, around, Values(doc, "clipBegin"), i, k, Absent)
           End0(k) == LastSaid(A, around, Values(doc, "clipEnd"), i, k, Absent)
<1>1. n \in DOMAIN doc /\ Steps(m, A, n) /\ Steps(m, S, n)
  BY SyncPlaces DEF Steps
<1>2. S \subseteq A /\ \A l \in S : At(doc, l, "src") # Absent
  BY DEF WithSrc
<1>3. \A key : Gives(Values(doc, key), n, At(doc, n, key))
  BY <1>1 DEF Values, Gives
<1>4. \A k : ClipIn(doc, i, k) = IF Src(k) = Absent THEN Absent ELSE <<Src(k), Begin(k), End0(k)>>
  BY DEF ClipIn
<1>5. Gives(around, n, i)
  BY DEF Gives
<1> HIDE DEF m, A, S, around
<1> DEFINE k == n + 1
<1>6. n \in S => Src(k) = At(doc, n, "src")
  BY <1>1, <1>3, <1>5, SaidNew
<1>7. n \notin S => Src(k) = Src(n)
  BY <1>1, SaidSame
<1>8. n \in A => Begin(k) = At(doc, n, "clipBegin") /\ End0(k) = At(doc, n, "clipEnd")
  BY <1>1, <1>3, <1>5, SaidNew
<1>9. n \notin A => Begin(k) = Begin(n) /\ End0(k) = End0(n)
  BY <1>1, SaidSame
<1> HIDE DEF Src, Begin, End0
<1>10. clip = IF Src(n) = Absent THEN Absent ELSE <<Src(n), Begin(n), End0(n)>>
  BY <1>4
<1>11. \A x, y, z : Absent # <<x, y, z>>
  BY NotPlain
<1>12. ASSUME n \in S
       PROVE  ClipIn(doc, i, n + 1) = <<At(doc, n, "src"), At(doc, n, "clipBegin"), At(doc, n, "clipEnd")>>
  <2>1. Src(n + 1) # Absent /\ Src(n + 1) = At(doc, n, "src")
    BY <1>2, <1>6, <1>12
  <2>2. QED
    BY <1>2, <1>4, <1>8, <1>12, <2>1
<1>13. ASSUME n \notin A PROVE ClipIn(doc, i, n + 1) = clip
  BY <1>2, <1>4, <1>7, <1>9, <1>10, <1>13
<1>14. ASSUME n \notin S, clip = Absent PROVE ClipIn(doc, i, n + 1) = Absent
  <2>1. Src(n) = Absent
    BY <1>10, <1>11, <1>14
  <2>2. QED
    BY <1>4, <1>7, <1>14, <2>1
<1>15. ASSUME n \in A, n \notin S, clip # Absent
       PROVE  ClipIn(doc, i, n + 1) = <<clip[1], At(doc, n, "clipBegin"), At(doc, n, "clipEnd")>>
  <2>1. Src(n) # Absent /\ clip = <<Src(n), Begin(n), End0(n)>>
    BY <1>10, <1>15
  <2>2. clip[1] = Src(n) /\ Src(n + 1) = Src(n)
    BY <1>7, <1>15, <2>1
  <2>3. QED
    BY <1>4, <1>8, <1>15, <2>1, <2>2
<1>16. QED
  BY <1>12, <1>13, <1>14, <1>15 DEF A, S

\* A par says something where it is complete.
LEMMA ParEnded ==
    ASSUME AbsentIsPlain,
           NEW doc, NEW V, doc \in Seq(V), NEW n \in 1..Len(doc), n \in ParEnds(doc),
           NEW par, par = ParNow(doc, n)
    PROVE  /\ n \in ParsComplete(doc) <=> ~(par = Absent \/ par = EmptyPar)
           /\ n \in ParsComplete(doc) =>
                par.text_ref = TextIn(doc, InPar(doc)[n], n) /\ par.audio = ClipIn(doc, InPar(doc)[n], n)
<1> DEFINE i == InPar(doc)[n]
           t == TextIn(doc, i, n)
           a == ClipIn(doc, i, n)
<1>1. n \in ParsComplete(doc) <=> i # 0 /\ (t # NoText \/ a # Absent)
  BY Zenon DEF ParsComplete, NoText
<1>2. par = IF i = 0 THEN Absent ELSE ParOf(t, a)
  BY DEF ParNow, ParOf
<1>3. EmptyPar = ParOf(NoText, Absent)
  BY Zenon DEF EmptyPar, ParOf, NoText
<1> HIDE DEF i, t, a
<1>4. Absent # ParOf(t, a) /\ (ParOf(t, a) = ParOf(NoText, Absent) <=> t = NoText /\ a = Absent)
  <2>1. Absent # ParOf(t, a)
    BY NotPlain
  <2>2. QED
    BY <2>1, ParsApart
<1>5. ParOf(t, a).text_ref = t /\ ParOf(t, a).audio = a
  BY DEF ParOf
<1>6. QED
  BY <1>1, <1>2, <1>3, <1>4, <1>5 DEF i, t, a

\* What an event of an overlay is.
LEMMA SyncKinds ==
    ASSUME NEW doc, NEW V, doc \in Seq(V), NEW n \in 1..Len(doc)
    PROVE  /\ n \in SeqStarts(doc) <=> doc[n].ev = "start" /\ doc[n].name = "seq" /\ InBody(doc, n)
           /\ n \in SeqEnds(doc) <=> doc[n].ev = "end" /\ doc[n].name = "seq"
           /\ n \in ParStarts(doc) <=> doc[n].ev = "start" /\ doc[n].name = "par" /\ InBody(doc, n)
           /\ n \in ParEnds(doc) <=> doc[n].ev = "end" /\ doc[n].name = "par"
           /\ n \in Audios(doc) <=> doc[n].ev \in {"start", "empty"} /\ doc[n].name = "audio"
           /\ n \in TextTags(doc) <=>
                doc[n].ev \in {"start", "empty"} /\ doc[n].name = "text" /\ At(doc, n, "src") # Absent
           /\ n \in WithSrc(doc, Audios(doc)) <=> n \in Audios(doc) /\ At(doc, n, "src") # Absent
<1>1. n \in DOMAIN doc
  OBVIOUS
<1>2. \A evs, name : n \in TagsAt(doc, evs, name) <=> doc[n].ev \in evs /\ doc[n].name = name
  BY <1>1 DEF TagsAt
<1>3. n \in WithSrc(doc, Audios(doc)) <=> n \in Audios(doc) /\ At(doc, n, "src") # Absent
  BY DEF WithSrc
<1>4. n \in TextTags(doc) <=>
        n \in TagsAt(doc, {"start", "empty"}, "text") /\ At(doc, n, "src") # Absent
  BY DEF TextTags, WithSrc
<1>5. QED
  BY <1>2, <1>3, <1>4 DEF SeqStarts, SeqEnds, ParStarts, ParEnds, Audios

\* The par that is read, one event later.
LEMMA ParSays ==
    ASSUME AbsentIsPlain,
           NEW doc, NEW V, doc \in Seq(V), NEW n \in 1..Len(doc), n \notin ParStarts(doc) \cup ParEnds(doc),
           NEW par, par = ParNow(doc, n)
    PROVE  /\ n \notin TextTags(doc) /\ n \notin Audios(doc) => ParNow(doc, n + 1) = par
           /\ par = Absent => ParNow(doc, n + 1) = Absent
           /\ par # Absent /\ n \in TextTags(doc) /\ n \notin Audios(doc) =>
                ParNow(doc, n + 1) = [par EXCEPT !.text_ref = At(doc, n, "src")]
           /\ par # Absent /\ n \notin TextTags(doc) /\ n \in Audios(doc) =>
                ParNow(doc, n + 1) =
                  [par EXCEPT !.audio =
                     IF At(doc, n, "src") # Absent
                     THEN <<At(doc, n, "src"), At(doc, n, "clipBegin"), At(doc, n, "clipEnd")>>
                     ELSE IF @ = Absent THEN Absent
                     ELSE <<@[1], At(doc, n, "clipBegin"), At(doc, n, "clipEnd")>>]
<1> DEFINE i == InPar(doc)[n]
           t == TextIn(doc, i, n)
           a == ClipIn(doc, i, n)
           u == TextIn(doc, i, n + 1)
           b == ClipIn(doc, i, n + 1)
           src == At(doc, n, "src")
           heard == <<src, At(doc, n, "clipBegin"), At(doc, n, "clipEnd")>>
           again == <<a[1], At(doc, n, "clipBegin"), At(doc, n, "clipEnd")>>
<1>1. InPar(doc)[n + 1] = i
  BY ParOpens
<1>2. par = (IF i = 0 THEN Absent ELSE [text_ref |-> t, audio |-> a])
      /\ ParNow(doc, n + 1) = IF i = 0 THEN Absent ELSE [text_ref |-> u, audio |-> b]
  BY <1>1 DEF ParNow
<1>3. u = IF n \in TextTags(doc) THEN src ELSE t
  BY ParText0
<1>4. /\ n \in WithSrc(doc, Audios(doc)) => b = heard
      /\ n \notin Audios(doc) => b = a
      /\ n \notin WithSrc(doc, Audios(doc)) /\ a = Absent => b = Absent
      /\ n \in Audios(doc) /\ n \notin WithSrc(doc, Audios(doc)) /\ a # Absent => b = again
  BY ParClip
<1>5. n \in WithSrc(doc, Audios(doc)) <=> n \in Audios(doc) /\ src # Absent
  BY SyncKinds
<1>6. i # 0 => par # Absent
  <2>1. ParOf(t, a) # Absent
    BY NotPlain
  <2>2. QED
    BY <1>2, <2>1 DEF ParOf
<1> HIDE DEF i, t, a, u, b, src, heard, again
<1>7. ASSUME n \notin TextTags(doc), n \notin Audios(doc) PROVE ParNow(doc, n + 1) = par
  BY <1>2, <1>3, <1>4, <1>7
<1>8. ASSUME par = Absent PROVE ParNow(doc, n + 1) = Absent
  BY <1>2, <1>6, <1>8
<1>9. ASSUME par # Absent, n \in TextTags(doc), n \notin Audios(doc)
      PROVE  ParNow(doc, n + 1) = [par EXCEPT !.text_ref = src]
  <2>1. par = [text_ref |-> t, audio |-> a] /\ u = src /\ b = a /\ i # 0
    BY <1>2, <1>3, <1>4, <1>9
  <2>2. QED
    BY <1>2, <2>1
<1>10. ASSUME par # Absent, n \notin TextTags(doc), n \in Audios(doc)
       PROVE  ParNow(doc, n + 1) =
                [par EXCEPT !.audio =
                     IF src # Absent THEN heard
                     ELSE IF @ = Absent THEN Absent
                     ELSE <<@[1], At(doc, n, "clipBegin"), At(doc, n, "clipEnd")>>]
  <2>1. par = [text_ref |-> t, audio |-> a] /\ u = t /\ i # 0
    BY <1>2, <1>3, <1>10
  <2>2. b = IF src # Absent THEN heard ELSE IF a = Absent THEN Absent ELSE again
    BY <1>4, <1>5, <1>10
  <2>3. par.audio = a
    BY <2>1
  <2> DEFINE new == IF src # Absent THEN heard ELSE IF a = Absent THEN Absent ELSE again
  <2>4. ParNow(doc, n + 1) = [par EXCEPT !.audio = new]
    <3>1. b = new /\ ParNow(doc, n + 1) = [text_ref |-> u, audio |-> b]
      BY <1>2, <2>1, <2>2
    <3> HIDE DEF new
    <3>2. QED
      BY <2>1, <3>1
  <2>5. QED
    BY <2>3, <2>4 DEF again
<1>11. QED
  BY <1>7, <1>8, <1>9, <1>10 DEF src, heard

\* Every event that is read keeps it.
SmilReads ==
    \/ StartBody \/ StartSeq \/ StartPar \/ ParText \/ ParAudio
    \/ EndBody \/ EndPar \/ EndSeq \/ SmilOther
LEMMA SmilAdvance ==
    ASSUME AbsentIsPlain,
           NEW doc, NEW V, doc \in Seq(V), doc = package["smil"], NEW closes, NEW object,
           SyncObjects(doc, closes, object), SmilNow(doc, closes, object, at, smil), SmilReads
    PROVE  at' = at + 1 /\ overlay' = overlay /\ SmilNow(doc, closes, object, at', smil')
<1> DEFINE n == at
           next == InOrder(OpenSeqs(doc, closes, n + 1), SeqFrames(doc, closes, object, n + 1))
           par == ParNow(doc, n)
           later == ParNow(doc, n + 1)
<1> USE DEF SmilStart, SmilEnd, SmilTag, Sees, SeesOther, Reading, Advance
<1>1. /\ stage = "smil" /\ at' = at + 1 /\ at <= Len(doc) /\ Event = doc[n]
      /\ overlay' = overlay
  BY DEF SmilReads, StartBody, StartSeq, StartPar, ParText, ParAudio, EndBody, EndPar, EndSeq,
         SmilOther, Event, smilVars
<1>2. /\ n \in 1..Len(doc) + 1
      /\ smil = [stack |-> smil.stack, in_body |-> smil.in_body, cur_par |-> smil.cur_par]
      /\ smil.stack = InOrder(OpenSeqs(doc, closes, n), SeqFrames(doc, closes, object, n))
      /\ smil.in_body \in BOOLEAN /\ (smil.in_body <=> InBody(doc, n))
      /\ smil.cur_par = par
  BY DEF SmilNow
<1>3. Len(doc) \in Nat /\ n \in 1..Len(doc) /\ n + 1 \in 1..Len(doc) + 1 /\ n \in Nat \ {0}
  BY <1>1, <1>2
\* What must be so after it.
<1> DEFINE Kept(stack, in_body, cur_par) ==
             /\ stack = next
             /\ in_body \in BOOLEAN /\ (in_body <=> InBody(doc, n + 1))
             /\ cur_par = later
<1>4. ASSUME NEW stack, NEW in_body, NEW cur_par, Kept(stack, in_body, cur_par),
             smil' = [stack |-> stack, in_body |-> in_body, cur_par |-> cur_par]
      PROVE  SmilNow(doc, closes, object, at', smil')
  <2> DEFINE new == smil'
  <2>1. new = [stack |-> stack, in_body |-> in_body, cur_par |-> cur_par]
    BY <1>4
  <2> HIDE DEF new
  <2>2. new = [stack |-> new.stack, in_body |-> new.in_body, cur_par |-> new.cur_par]
        /\ new.stack = stack /\ new.in_body = in_body /\ new.cur_par = cur_par
    BY <2>1
  <2>3. SmilNow(doc, closes, object, n + 1, new)
    BY <1>3, <1>4, <2>2 DEF SmilNow
  <2>4. QED
    BY <1>1, <2>3 DEF new
<1>5. /\ n \in SeqStarts(doc) <=> doc[n].ev = "start" /\ doc[n].name = "seq" /\ InBody(doc, n)
      /\ n \in SeqEnds(doc) <=> doc[n].ev = "end" /\ doc[n].name = "seq"
      /\ n \in ParStarts(doc) <=> doc[n].ev = "start" /\ doc[n].name = "par" /\ InBody(doc, n)
      /\ n \in ParEnds(doc) <=> doc[n].ev = "end" /\ doc[n].name = "par"
      /\ n \in Audios(doc) <=> doc[n].ev \in {"start", "empty"} /\ doc[n].name = "audio"
      /\ n \in TextTags(doc) <=>
           doc[n].ev \in {"start", "empty"} /\ doc[n].name = "text" /\ At(doc, n, "src") # Absent
  BY <1>3, SyncKinds
<1>6. \A key : Attr(key) = At(doc, n, key)
  BY <1>1 DEF Attr, At, Lookup
\* The region, the sequences and the par, by the event.
<1>7. /\ doc[n].ev = "start" /\ doc[n].name = "body" => InBody(doc, n + 1)
      /\ doc[n].ev = "end" /\ doc[n].name = "body" => ~InBody(doc, n + 1)
      /\ ~(doc[n].ev \in {"start", "end"} /\ doc[n].name = "body") =>
           (InBody(doc, n + 1) <=> InBody(doc, n))
  BY <1>3, WithinMore DEF InBody, TagAt
<1> DEFINE stack == smil.stack
<1>8. /\ n \notin SeqStarts(doc) \cup SyncEnds(doc, closes) => next = stack
      /\ n \in SeqStarts(doc) => next = Append(stack, SeqFrame(TextRefAt(doc, n)))
      /\ n \in ParsComplete(doc) =>
           next = AddChild(stack, SmilObject(TextIn(doc, InPar(doc)[n], n),
                                             ClipIn(doc, InPar(doc)[n], n), << >>))
      /\ n \in SeqEnds(doc) => (Len(stack) > 1 <=> n \in SeqsComplete(doc, closes))
      /\ n \in SeqsComplete(doc, closes) =>
           next = AddChild(SubSeq(stack, 1, Len(stack) - 1),
                           SmilObject(stack[Len(stack)].text_ref, Absent, stack[Len(stack)].children))
  BY <1>2, <1>3, SeqsMore
<1>9. n \in SyncEnds(doc, closes) =>
        \/ n \in SeqsComplete(doc, closes) /\ n \in SeqEnds(doc)
        \/ n \in ParsComplete(doc) /\ n \in ParEnds(doc)
  BY DEF SyncEnds, SeqsComplete, ParsComplete
<1>10. /\ n \in ParStarts(doc) => later = EmptyPar
       /\ n \in ParEnds(doc) => later = Absent
  BY <1>3, ParOpens
<1>11. n \notin ParStarts(doc) \cup ParEnds(doc) =>
       /\ n \notin TextTags(doc) /\ n \notin Audios(doc) => later = par
       /\ par = Absent => later = Absent
       /\ par # Absent /\ n \in TextTags(doc) /\ n \notin Audios(doc) =>
            later = [par EXCEPT !.text_ref = At(doc, n, "src")]
       /\ par # Absent /\ n \notin TextTags(doc) /\ n \in Audios(doc) =>
            later =
              [par EXCEPT !.audio =
                 IF At(doc, n, "src") # Absent
                 THEN <<At(doc, n, "src"), At(doc, n, "clipBegin"), At(doc, n, "clipEnd")>>
                 ELSE IF @ = Absent THEN Absent
                 ELSE <<@[1], At(doc, n, "clipBegin"), At(doc, n, "clipEnd")>>]
  BY <1>3, ParSays
<1>12. n \in ParEnds(doc) =>
       /\ n \in ParsComplete(doc) <=> ~(par = Absent \/ par = EmptyPar)
       /\ n \in ParsComplete(doc) =>
            par.text_ref = TextIn(doc, InPar(doc)[n], n) /\ par.audio = ClipIn(doc, InPar(doc)[n], n)
  BY <1>3, ParEnded
<1> HIDE DEF next, par, later, stack, n
<1>13. /\ Len(stack) = Depth /\ smil.stack = stack /\ smil.cur_par = par
       /\ (smil.in_body <=> InBody(doc, n)) /\ smil.in_body \in BOOLEAN
  BY <1>2 DEF stack, Depth
<1> DEFINE Rec(x, y, z) == [stack |-> x, in_body |-> y, cur_par |-> z]
<1>14. smil = Rec(stack, smil.in_body, par)
  BY <1>2, <1>13
<1>15. CASE StartBody
  <2>1. doc[n].ev = "start" /\ doc[n].name = "body" /\ smil' = [smil EXCEPT !.in_body = TRUE]
    BY <1>1, <1>15 DEF StartBody
  <2>2. smil' = Rec(stack, TRUE, par)
    <3> DEFINE yes == TRUE
    <3>1. smil' = [smil EXCEPT !.in_body = yes]
      BY <2>1
    <3> HIDE DEF yes
    <3>2. smil' = Rec(stack, yes, par)
      BY <1>14, <3>1
    <3>3. QED
      BY <3>2 DEF yes
  <2>3. Kept(stack, TRUE, par)
    BY <1>5, <1>7, <1>8, <1>9, <1>11, <2>1
  <2> HIDE DEF Kept
  <2>4. QED
    BY <1>1, <1>4, <2>2, <2>3
<1>16. CASE StartSeq
  <2> DEFINE longer == Append(stack, SeqFrame(TextRefAt(doc, n)))
  <2>1. /\ doc[n].ev = "start" /\ doc[n].name = "seq" /\ smil.in_body
        /\ smil' = [smil EXCEPT !.stack =
                      Append(@, SeqFrame(IF Attr("textref") = Absent THEN "" ELSE Attr("textref")))]
    BY <1>1, <1>16 DEF StartSeq
  <2>2. SeqFrame(IF Attr("textref") = Absent THEN "" ELSE Attr("textref")) = SeqFrame(TextRefAt(doc, n))
    <3>1. n # 0
      BY <1>3
    <3>2. QED
      BY <1>6, <3>1, Zenon DEF TextRefAt
  <2>3. smil' = Rec(longer, smil.in_body, par)
    <3> DEFINE frame == SeqFrame(IF Attr("textref") = Absent THEN "" ELSE Attr("textref"))
    <3>1. smil' = [smil EXCEPT !.stack = Append(@, frame)] /\ longer = Append(stack, frame)
      BY <2>1, <2>2, Zenon
    <3> HIDE DEF frame, longer
    <3>2. smil' = [smil EXCEPT !.stack = longer]
      BY <1>13, <3>1
    <3>3. QED
      BY <1>14, <3>2
  <2>4. Kept(longer, smil.in_body, par)
    BY <1>5, <1>7, <1>8, <1>11, <1>13, <2>1
  <2> HIDE DEF Kept, longer
  <2>5. QED
    BY <1>1, <1>4, <2>3, <2>4
<1>17. CASE StartPar
  <2>1. /\ doc[n].ev = "start" /\ doc[n].name = "par" /\ smil.in_body
        /\ smil' = [smil EXCEPT !.cur_par = EmptyPar]
    BY <1>1, <1>17 DEF StartPar
  <2>2. smil' = Rec(stack, smil.in_body, EmptyPar)
    <3>1. smil' = [smil EXCEPT !.cur_par = EmptyPar]
      BY <2>1
    <3>2. QED
      BY <1>14, <3>1
  <2>3. Kept(stack, smil.in_body, EmptyPar)
    BY <1>5, <1>7, <1>8, <1>9, <1>10, <1>13, <2>1
  <2> HIDE DEF Kept
  <2>4. QED
    BY <1>1, <1>4, <2>2, <2>3
<1>18. CASE ParText
  <2>1. /\ doc[n].ev \in {"start", "empty"} /\ doc[n].name = "text"
        /\ smil' = IF par = Absent \/ At(doc, n, "src") = Absent THEN smil
                   ELSE [smil EXCEPT !.cur_par.text_ref = At(doc, n, "src")]
    BY <1>1, <1>6, <1>13, <1>18 DEF ParText
  <2>2. n \notin ParStarts(doc) \cup ParEnds(doc) /\ n \notin Audios(doc)
        /\ n \notin SeqStarts(doc) \cup SyncEnds(doc, closes)
        /\ ~(doc[n].ev \in {"start", "end"} /\ doc[n].name = "body")
    BY <1>5, <1>9, <2>1
  <2>3. smil' = Rec(stack, smil.in_body, later)
    <3>1. CASE par = Absent \/ At(doc, n, "src") = Absent
      <4>1. later = par
        BY <1>5, <1>11, <2>2, <3>1
      <4>2. QED
        BY <1>14, <2>1, <3>1, <4>1
    <3>2. CASE ~(par = Absent \/ At(doc, n, "src") = Absent)
      <4> DEFINE src == At(doc, n, "src")
      <4>1. later = [par EXCEPT !.text_ref = src]
        BY <1>5, <1>11, <2>1, <2>2, <3>2
      <4>2. smil' = [smil EXCEPT !.cur_par.text_ref = src]
        BY <2>1, <3>2
      <4> HIDE DEF src
      <4>3. QED
        BY <1>13, <1>14, <4>1, <4>2
    <3>3. QED
      BY <3>1, <3>2
  <2>4. Kept(stack, smil.in_body, later)
    BY <1>7, <1>8, <1>13, <2>2
  <2> HIDE DEF Kept
  <2>5. QED
    BY <1>1, <1>4, <2>3, <2>4
<1>19. CASE ParAudio
  <2>1. /\ doc[n].ev \in {"start", "empty"} /\ doc[n].name = "audio"
        /\ smil' = IF par = Absent THEN smil
                   ELSE [smil EXCEPT !.cur_par.audio =
                           IF At(doc, n, "src") # Absent
                           THEN <<At(doc, n, "src"), At(doc, n, "clipBegin"), At(doc, n, "clipEnd")>>
                           ELSE IF @ = Absent THEN Absent
                           ELSE <<@[1], At(doc, n, "clipBegin"), At(doc, n, "clipEnd")>>]
    BY <1>1, <1>6, <1>13, <1>19 DEF ParAudio
  <2>2. n \notin ParStarts(doc) \cup ParEnds(doc) /\ n \notin TextTags(doc) /\ n \in Audios(doc)
        /\ n \notin SeqStarts(doc) \cup SyncEnds(doc, closes)
        /\ ~(doc[n].ev \in {"start", "end"} /\ doc[n].name = "body")
    BY <1>5, <1>9, <2>1
  <2>3. smil' = Rec(stack, smil.in_body, later)
    <3>1. CASE par = Absent
      BY <1>11, <1>14, <2>1, <2>2, <3>1
    <3>2. CASE par # Absent
      <4> DEFINE a == par.audio
                 clip == IF At(doc, n, "src") # Absent
                         THEN <<At(doc, n, "src"), At(doc, n, "clipBegin"), At(doc, n, "clipEnd")>>
                         ELSE IF a = Absent THEN Absent
                         ELSE <<a[1], At(doc, n, "clipBegin"), At(doc, n, "clipEnd")>>
      <4>1. later = [par EXCEPT !.audio = clip]
        BY <1>11, <2>2, <3>2
      <4>2. smil' = [smil EXCEPT !.cur_par.audio = clip]
        BY <1>13, <2>1, <3>2
      <4> HIDE DEF clip
      <4>3. QED
        BY <1>13, <1>14, <4>1, <4>2
    <3>3. QED
      BY <3>1, <3>2
  <2>4. Kept(stack, smil.in_body, later)
    BY <1>7, <1>8, <1>13, <2>2
  <2> HIDE DEF Kept
  <2>5. QED
    BY <1>1, <1>4, <2>3, <2>4
<1>20. CASE EndBody
  <2>1. doc[n].ev = "end" /\ doc[n].name = "body" /\ smil' = [smil EXCEPT !.in_body = FALSE]
    BY <1>1, <1>20 DEF EndBody
  <2>2. smil' = Rec(stack, FALSE, par)
    <3> DEFINE no == FALSE
    <3>1. smil' = [smil EXCEPT !.in_body = no]
      BY <2>1
    <3> HIDE DEF no
    <3>2. smil' = Rec(stack, no, par)
      BY <1>14, <3>1
    <3>3. QED
      BY <3>2 DEF no
  <2>3. Kept(stack, FALSE, par)
    BY <1>5, <1>7, <1>8, <1>9, <1>11, <2>1
  <2> HIDE DEF Kept
  <2>4. QED
    BY <1>1, <1>4, <2>2, <2>3
<1>21. CASE EndPar
  <2> DEFINE new == IF par = Absent \/ par = EmptyPar THEN stack
                    ELSE AddChild(stack, SmilObject(par.text_ref, par.audio, << >>))
  <2>1. /\ doc[n].ev = "end" /\ doc[n].name = "par"
        /\ smil' = [smil EXCEPT !.cur_par = Absent, !.stack = new]
    BY <1>1, <1>13, <1>21 DEF EndPar
  <2>2. n \in ParEnds(doc) /\ n \notin SeqStarts(doc) /\ n \notin SeqEnds(doc)
        /\ ~(doc[n].ev \in {"start", "end"} /\ doc[n].name = "body")
    BY <1>5, <2>1
  <2>3. new = next
    BY <1>8, <1>9, <1>12, <2>2
  <2> HIDE DEF new
  <2>4. smil' = Rec(new, smil.in_body, Absent)
    BY <1>14, <2>1
  <2>5. Kept(new, smil.in_body, Absent)
    BY <1>7, <1>10, <1>13, <2>2, <2>3
  <2> HIDE DEF Kept
  <2>6. QED
    BY <1>1, <1>4, <2>4, <2>5
<1>22. CASE EndSeq
  <2> DEFINE new == AddChild(SubSeq(stack, 1, Len(stack) - 1),
                             SmilObject(stack[Len(stack)].text_ref, Absent, stack[Len(stack)].children))
  <2>1. /\ doc[n].ev = "end" /\ doc[n].name = "seq" /\ Len(stack) > 1
        /\ smil' = [smil EXCEPT !.stack = new]
    BY <1>1, <1>13, <1>22 DEF EndSeq
  <2>2. n \in SeqEnds(doc) /\ n \notin ParStarts(doc) \cup ParEnds(doc)
        /\ n \notin TextTags(doc) /\ n \notin Audios(doc)
        /\ ~(doc[n].ev \in {"start", "end"} /\ doc[n].name = "body")
    BY <1>5, <2>1
  <2>3. new = next
    BY <1>8, <2>1, <2>2
  <2> HIDE DEF new
  <2>4. smil' = Rec(new, smil.in_body, par)
    BY <1>14, <2>1
  <2>5. Kept(new, smil.in_body, par)
    BY <1>7, <1>11, <1>13, <2>2, <2>3
  <2> HIDE DEF Kept
  <2>6. QED
    BY <1>1, <1>4, <2>4, <2>5
<1>23. CASE SmilOther
  <2>1. smil' = smil
    BY <1>23 DEF SmilOther, smilVars
  <2>2. /\ ~(doc[n].ev \in {"start", "end"} /\ doc[n].name = "body")
        /\ n \notin SeqStarts(doc) /\ n \notin ParStarts(doc) \cup ParEnds(doc)
        /\ n \notin TextTags(doc) /\ n \notin Audios(doc)
        /\ n \in SeqEnds(doc) => ~(Len(stack) > 1)
    <3> DEFINE ev == doc[n].ev
               name == doc[n].name
    <3>1. \/ ev = "start" /\ name \notin {"body", "seq", "par", "text", "audio"}
          \/ ev = "start" /\ name \in {"seq", "par"} /\ ~InBody(doc, n)
          \/ ev = "empty" /\ name \notin {"text", "audio"}
          \/ ev = "end" /\ name \notin {"body", "seq", "par"}
          \/ ev = "end" /\ name = "seq" /\ Len(stack) = 1
          \/ ev \in {"text", "ref"}
      BY <1>1, <1>13, <1>23 DEF SmilOther
    <3>2. /\ n \in SeqStarts(doc) <=> ev = "start" /\ name = "seq" /\ InBody(doc, n)
          /\ n \in SeqEnds(doc) <=> ev = "end" /\ name = "seq"
          /\ n \in ParStarts(doc) <=> ev = "start" /\ name = "par" /\ InBody(doc, n)
          /\ n \in ParEnds(doc) <=> ev = "end" /\ name = "par"
          /\ n \in Audios(doc) <=> ev \in {"start", "empty"} /\ name = "audio"
          /\ n \in TextTags(doc) => ev \in {"start", "empty"} /\ name = "text"
      BY <1>5
    <3> HIDE DEF ev, name
    <3>3. ~(ev \in {"start", "end"} /\ name = "body")
      BY <3>1
    <3>4. n \notin SeqStarts(doc) /\ n \notin ParStarts(doc) /\ n \notin ParEnds(doc)
      BY <3>1, <3>2
    <3>5. n \notin TextTags(doc) /\ n \notin Audios(doc)
      BY <3>1, <3>2
    <3>6. n \in SeqEnds(doc) => ~(Len(stack) > 1)
      <4>1. HAVE n \in SeqEnds(doc)
      <4>2. ev = "end" /\ name = "seq"
        BY <3>2, <4>1
      <4>3. Len(stack) = 1
        BY <3>1, <4>2
      <4>4. QED
        BY <4>3
    <3>7. QED
      BY <3>3, <3>4, <3>5, <3>6 DEF ev, name
  <2>3. smil' = Rec(stack, smil.in_body, par)
    BY <1>14, <2>1
  <2>4. Kept(stack, smil.in_body, par)
    BY <1>7, <1>8, <1>9, <1>11, <1>13, <2>2
  <2> HIDE DEF Kept
  <2>5. QED
    BY <1>1, <1>4, <2>3, <2>4
<1>24. QED
  BY <1>1, <1>15, <1>16, <1>17, <1>18, <1>19, <1>20, <1>21, <1>22, <1>23 DEF SmilReads

\* Before the first event.
LEMMA SmilStarts ==
    ASSUME AbsentIsPlain, NEW doc, NEW V, doc \in Seq(V), NEW closes, NEW object
    PROVE  SmilNow(doc, closes, object, 1, EmptySmil)
<1> DEFINE B == SeqStarts(doc)
           E == SeqEnds(doc)
           F == SeqFrames(doc, closes, object, 1)
           stack == <<SeqFrame(NoText)>>
<1>1. Len(doc) \in Nat /\ B \in SUBSET (1..Len(doc)) /\ SyncEnds(doc, closes) \in SUBSET (1..Len(doc))
  BY SyncPlaces
<1>2. OpenAt(B, E, closes, 1) = {}
  <2>1. \A i \in B : ~(i < 1)
    BY <1>1
  <2>2. QED
    BY <2>1 DEF OpenAt
<1>3. OpenSeqs(doc, closes, 1) = Plus({}, 0)
  BY <1>2 DEF OpenSeqs, Plus
<1>4. F[0] = SeqFrame(NoText)
  <2>1. Children(SyncEnds(doc, closes), InSeq(doc, closes), 0, 1) = {}
    <3>1. \A c \in SyncEnds(doc, closes) : ~(c < 1)
      BY <1>1
    <3>2. QED
      BY <3>1 DEF Children
  <2>2. IsFiniteSet({})
    BY FS_EmptySet
  <2>3. InSequence(doc, closes, object, 0, 1) = << >>
    BY <2>1, <2>2, InOrderMore DEF InSequence
  <2>4. TextRefAt(doc, 0) = NoText
    BY Zenon DEF TextRefAt, NoText
  <2>5. F[0] = [text_ref |-> TextRefAt(doc, 0), children |-> InSequence(doc, closes, object, 0, 1)]
    BY DEF SeqFrames
  <2>6. QED
    BY <2>3, <2>4, <2>5 DEF SeqFrame
<1>5. InOrder(Plus({}, 0), F) = Append(<< >>, F[0])
  <2>1. IsFiniteSet({})
    BY FS_EmptySet
  <2>2. Below({}, 0)
    BY <2>1 DEF Below
  <2>3. InOrder({}, F) = << >>
    BY <2>1, InOrderMore
  <2> HIDE DEF F
  <2>4. QED
    BY <2>2, <2>3, OneMore
<1>6. stack = InOrder(OpenSeqs(doc, closes, 1), F)
  BY <1>3, <1>4, <1>5
<1>7. EmptySmil = [stack |-> stack, in_body |-> FALSE, cur_par |-> Absent]
  BY Zenon DEF EmptySmil, NoText
<1>8. ~InBody(doc, 1)
  BY DEF InBody, Within
<1>9. ParNow(doc, 1) = Absent
  <2>1. CASE Len(doc) = 0
    <3>1. ParStarts(doc) = {}
      <4>1. ParStarts(doc) \in SUBSET (1..Len(doc))
        BY SyncPlaces
      <4>2. 1..0 = {}
        OBVIOUS
      <4>3. QED
        BY <2>1, <4>1, <4>2
    <3>2. InPar(doc)[1] = 0
      BY <3>1 DEF InPar, Latest, BegunAt, Innermost
    <3>3. QED
      BY <3>2 DEF ParNow
  <2>2. CASE Len(doc) # 0
    <3>1. 1 \in 1..Len(doc)
      BY <1>1, <2>2
    <3>2. QED
      BY <3>1, ParOpens
  <2>3. QED
    BY <2>1, <2>2
<1> HIDE DEF stack, F
<1> DEFINE sm == EmptySmil
<1>10. sm.stack = stack /\ sm.in_body = FALSE /\ sm.cur_par = Absent
       /\ sm = [stack |-> sm.stack, in_body |-> sm.in_body, cur_par |-> sm.cur_par]
  BY <1>7
<1> HIDE DEF sm
<1>11. 1 \in 1..Len(doc) + 1
  BY <1>1
<1>12. SmilNow(doc, closes, object, 1, sm)
  BY <1>6, <1>8, <1>9, <1>10, <1>11 DEF SmilNow, F
<1>13. QED
  BY <1>12 DEF sm

\* After the last event: what is at the bottom of the stack.
LEMMA SmilEnds ==
    ASSUME NEW doc, NEW V, doc \in Seq(V), NEW closes, NEW object, NEW n, n = Len(doc) + 1, NEW sm,
           SmilNow(doc, closes, object, n, sm)
    PROVE  sm.stack[1].children = InSequence(doc, closes, object, 0, n)
<1> DEFINE S == OpenSeqs(doc, closes, n)
           F == SeqFrames(doc, closes, object, n)
           m == Len(doc)
<1>1. /\ m \in Nat /\ SeqStarts(doc) \in SUBSET (1..m)
  BY SyncPlaces
<1>2. \A i \in S : i \in 0..m
  BY <1>1 DEF OpenSeqs, OpenAt
<1>3. IsFiniteSet(S) /\ 0 \in S /\ S \in SUBSET Nat
  <2>1. 0 \in Int /\ m \in Int
    BY <1>1
  <2>2. IsFiniteSet(0..m)
    BY <2>1, FS_Interval
  <2>3. S \in SUBSET (0..m)
    BY <1>2
  <2>4. IsFiniteSet(S)
    BY <2>2, <2>3, FS_Subset
  <2>5. 0 \in S
    BY DEF OpenSeqs
  <2>6. QED
    BY <1>2, <2>4, <2>5
<1> HIDE DEF S, F
<1>4. Listed(InOrder(S, F), S, F)
  BY <1>3, InOrderIs
<1>5. InOrder(S, F)[Rank(S, 0)] = F[0]
  BY <1>3, <1>4, ListedPlaces
<1>6. Rank(S, 0) = 1
  <2>1. {j \in S : j <= 0} = {0}
    <3>1. \A j \in S : j \in Nat
      BY <1>3
    <3>2. \A j \in S : j <= 0 <=> j = 0
      BY <3>1
    <3>3. QED
      BY <1>3, <3>2
  <2>2. QED
    BY <2>1, FS_Singleton DEF Rank
<1>7. sm.stack = InOrder(S, F)
  BY DEF SmilNow, S, F
<1>8. F[0] = [text_ref |-> TextRefAt(doc, 0), children |-> InSequence(doc, closes, object, 0, n)]
  BY DEF F, SeqFrames
<1>9. QED
  BY <1>5, <1>6, <1>7, <1>8

-----------------------------------------------------------------------------
SoundBefore(doc, n) == \A i \in 1..n - 1 : doc[i].ev # "bad"
SmilInv ==
    LET doc == package["smil"] IN
    /\ package \in Packages /\ stage \in Stages
    /\ stage \notin {"smil", "done", "failed"} => smil = EmptySmil
    /\ stage = "smil" /\ doc # Absent =>
         /\ at \in 1..Len(doc) + 1 /\ SoundBefore(doc, at)
         /\ \A closes, object : SyncObjects(doc, closes, object) => SmilNow(doc, closes, object, at, smil)
    /\ stage # "done" => overlay = Absent
    /\ overlay # Absent =>
         /\ doc # Absent /\ SoundBefore(doc, Len(doc) + 1)
         /\ \A closes, object : SyncObjects(doc, closes, object) =>
              overlay = InSequence(doc, closes, object, 0, Len(doc) + 1)

LEMMA SmilInvInit ==
    ASSUME Init
    PROVE  SmilInv
BY DEF Init, SmilInv, Stages

LEMMA SmilInvStep ==
    ASSUME AbsentIsPlain, SmilInv, [Next]_vars
    PROVE  SmilInv'
<1> DEFINE doc == package["smil"]
<1>1. doc = Absent \/ \E V : doc \in Seq(V)
  BY PackagesAssumption DEF SmilInv
<1>2. /\ package \in Packages /\ stage \in Stages
      /\ stage \notin {"smil", "done", "failed"} => smil = EmptySmil
      /\ stage = "smil" /\ doc # Absent =>
           /\ at \in 1..Len(doc) + 1 /\ SoundBefore(doc, at)
           /\ \A closes, object : SyncObjects(doc, closes, object) => SmilNow(doc, closes, object, at, smil)
      /\ stage # "done" => overlay = Absent
      /\ overlay # Absent =>
           /\ doc # Absent /\ SoundBefore(doc, Len(doc) + 1)
           /\ \A closes, object : SyncObjects(doc, closes, object) =>
                overlay = InSequence(doc, closes, object, 0, Len(doc) + 1)
  BY DEF SmilInv
\* Where no overlay is read.
<1>3. ASSUME UNCHANGED <<package, smilVars>>, stage' \in Stages, stage' = stage \/ stage # "done",
             stage' \notin {"smil", "done", "failed"} => stage \notin {"smil", "done", "failed"},
             stage' = "smil" => (stage = "smil" /\ at' = at) \/ (stage = "overlay" /\ at' = 1)
      PROVE  SmilInv'
  <2>1. package' = package /\ smil' = smil /\ overlay' = overlay /\ doc' = doc
    BY <1>3 DEF smilVars
  <2>2. ASSUME stage' = "smil", doc # Absent
        PROVE  /\ at' \in 1..Len(doc) + 1 /\ SoundBefore(doc, at')
               /\ \A closes, object : SyncObjects(doc, closes, object) => SmilNow(doc, closes, object, at', smil)
    <3>1. CASE stage = "smil" /\ at' = at
      BY <1>2, <2>2, <3>1
    <3>2. CASE stage = "overlay" /\ at' = 1
      <4>1. PICK V : doc \in Seq(V)
        BY <1>1, <2>2
      <4>2. 1 \in 1..Len(doc) + 1 /\ 1..(1 - 1) = {}
        BY <4>1
      <4>3. smil = EmptySmil
        BY <1>2, <3>2
      <4>4. ASSUME NEW closes, NEW object PROVE SmilNow(doc, closes, object, 1, EmptySmil)
        BY <4>1, SmilStarts
      <4>5. SoundBefore(doc, 1)
        BY <4>2 DEF SoundBefore
      <4>6. QED
        BY <3>2, <4>2, <4>3, <4>4, <4>5
    <3>3. QED
      BY <1>3, <2>2, <3>1, <3>2
  <2>3. stage' # "done" => overlay = Absent
    BY <1>2, <1>3
  <2>4. stage' \notin {"smil", "done", "failed"} => smil = EmptySmil
    BY <1>2, <1>3
  <2>5. QED
    BY <1>2, <1>3, <2>1, <2>2, <2>3, <2>4 DEF SmilInv
<1>4. CASE ReadOpf
  <2>1. CASE ContainerNext
    BY <1>3, <1>4, <2>1, ContainerStep DEF Stages
  <2>2. CASE OpfNext
    <3>1. stage = "opf" /\ UNCHANGED <<package, smilVars>>
      BY <1>4, <2>2, OpfStep
    <3>2. stage' \in {"opf", "failed", "encryption"}
      BY <1>4, <2>2, OpfStep DEF OpfRead, GoTo
    <3>3. QED
      BY <1>3, <3>1, <3>2 DEF Stages
  <2>3. QED
    BY <1>4, <2>1, <2>2 DEF ReadOpf
<1>5. CASE GetNavigation
  BY <1>3, <1>5, NavigationStep DEF Stages
<1>6. CASE ReadEncryption
  BY <1>3, <1>6, EncryptionStep DEF Stages
<1>7. CASE UNCHANGED vars
  BY <1>2, <1>3, <1>7 DEF vars, reader, smilVars
<1>8. CASE ReadOverlay
  <2>1. CASE \E id \in DOMAIN book.manifest \cup {Absent} : GetMediaOverlay(book, id)
    <3>1. PICK id \in DOMAIN book.manifest \cup {Absent} : GetMediaOverlay(book, id)
      BY <2>1
    <3>2. /\ stage = "overlay" /\ stage' \in {"done", "smil", "failed"} /\ at' = 1
          /\ UNCHANGED <<package, smilVars>>
      BY <3>1 DEF GetMediaOverlay, GoTo
    <3>3. QED
      BY <1>3, <3>2 DEF Stages
  <2>2. CASE SmilFails
    <3>1. stage = "smil" /\ stage' = "failed" /\ UNCHANGED <<package, smilVars>>
      BY <2>2 DEF SmilFails, Malformed, Missing, Reading, GoTo
    <3>2. QED
      BY <1>3, <3>1 DEF Stages
  <2>3. CASE SmilRead
    <3>1. /\ stage = "smil" /\ doc # Absent /\ at > Len(doc) /\ package' = package
          /\ stage' = "done" /\ overlay' = smil.stack[1].children /\ smil' = smil
      BY <2>3 DEF SmilRead, AtEof, GoTo
    <3>2. PICK V : doc \in Seq(V)
      BY <1>1, <3>1
    <3>3. at \in 1..Len(doc) + 1 /\ SoundBefore(doc, at) /\ at = Len(doc) + 1
      <4>1. at \in 1..Len(doc) + 1 /\ SoundBefore(doc, at)
        BY <1>2, <3>1
      <4>2. QED
        BY <3>1, <3>2, <4>1
    <3>4. ASSUME NEW closes, NEW object, SyncObjects(doc, closes, object)
          PROVE  overlay' = InSequence(doc, closes, object, 0, Len(doc) + 1)
      <4>1. SmilNow(doc, closes, object, at, smil)
        BY <1>2, <3>1, <3>4
      <4>2. smil.stack[1].children = InSequence(doc, closes, object, 0, at)
        BY <3>2, <3>3, <4>1, SmilEnds
      <4>3. QED
        BY <3>1, <3>3, <4>2
    <3>5. doc' = doc /\ SoundBefore(doc, Len(doc) + 1)
      BY <3>1, <3>3
    <3>6. QED
      BY <1>2, <3>1, <3>4, <3>5 DEF SmilInv, Stages
  <2>4. CASE SmilReads
    <3> USE DEF SmilStart, SmilEnd, SmilTag, Sees, SeesOther, Reading, Advance
    <3>1. /\ stage = "smil" /\ doc # Absent /\ at <= Len(doc) /\ package' = package /\ stage' = stage
          /\ at' = at + 1 /\ overlay' = overlay /\ doc[at].ev # "bad"
      <4>1. /\ stage = "smil" /\ package[stage] # Absent /\ at <= Len(package[stage])
            /\ package' = package /\ stage' = stage
            /\ at' = at + 1 /\ overlay' = overlay
            /\ Event.ev \in {"start", "empty", "end", "text", "ref"}
        BY <2>4 DEF SmilReads, StartBody, StartSeq, StartPar, ParText, ParAudio, EndBody, EndPar, EndSeq,
             SmilOther, smilVars
      <4>2. QED
        BY <4>1 DEF Event
    <3>2. PICK V : doc \in Seq(V)
      BY <1>1, <3>1
    <3>3. at \in 1..Len(doc) + 1 /\ SoundBefore(doc, at) /\ overlay = Absent
      BY <1>2, <3>1
    <3>4. at' \in 1..Len(doc) + 1 /\ SoundBefore(doc, at')
      <4>1. Len(doc) \in Nat /\ at \in 1..Len(doc)
        BY <3>1, <3>2, <3>3
      <4>2. \A i \in 1..(at + 1) - 1 : i \in 1..at - 1 \/ i = at
        BY <4>1
      <4>3. QED
        BY <3>1, <3>3, <4>1, <4>2 DEF SoundBefore
    <3>5. ASSUME NEW closes, NEW object, SyncObjects(doc, closes, object)
          PROVE  SmilNow(doc, closes, object, at', smil')
      <4>1. SmilNow(doc, closes, object, at, smil)
        BY <1>2, <3>1, <3>5
      <4>2. QED
        BY <2>4, <3>2, <3>5, <4>1, SmilAdvance
    <3>6. doc' = doc /\ overlay' = Absent
      BY <3>1, <3>3
    <3>7. QED
      BY <1>2, <3>1, <3>4, <3>5, <3>6 DEF SmilInv, Stages
  <2>5. QED
    BY <1>8, <2>1, <2>2, <2>3, <2>4 DEF ReadOverlay, SmilNext, SmilReads
<1>9. QED
  BY <1>4, <1>5, <1>6, <1>7, <1>8 DEF Next

\* The sync points of a package that are complete in its overlay.
SyncWith(p, closes, object) ==
    /\ SyncObjects(p["smil"], closes, object)
    /\ p["sync"] = InSequence(p["smil"], closes, object, 0, Len(p["smil"]) + 1)
SyncWritten(p) ==
    (\A i \in DOMAIN p["smil"] : p["smil"][i].ev # "bad") => \E closes, object : SyncWith(p, closes, object)

LEMMA SyncKept ==
    ASSUME \A p \in Packages : p["smil"] # Absent => SyncWritten(p), SmilInv
    PROVE  OverlaySync
<1> SUFFICES ASSUME overlay # Absent PROVE overlay = package["sync"]
  BY DEF OverlaySync
<1> DEFINE doc == package["smil"]
<1>1. /\ package \in Packages /\ doc # Absent /\ SoundBefore(doc, Len(doc) + 1)
      /\ \A closes, object : SyncObjects(doc, closes, object) =>
           overlay = InSequence(doc, closes, object, 0, Len(doc) + 1)
  BY DEF SmilInv
<1>2. PICK V : doc \in Seq(V)
  BY <1>1, PackagesAssumption
<1>3. \A i \in DOMAIN doc : doc[i].ev # "bad"
  <2>1. \A i \in DOMAIN doc : i \in 1..(Len(doc) + 1) - 1
    BY <1>2
  <2>2. QED
    BY <1>1, <2>1 DEF SoundBefore
<1>4. QED
  BY <1>1, <1>3 DEF SyncWritten, SyncWith

\* The sync points of an overlay that was read are those of its document
\* (OverlaySync): parse_smil hands over what the sequences and the pars of a
\* well-formed document nest, however deep, in their order, whatever texts,
\* clips and stray end tags stand between them.
THEOREM SyncRead ==
    ASSUME AbsentIsPlain, \A p \in Packages : p["smil"] # Absent => SyncWritten(p)
    PROVE  Spec => []OverlaySync
<1>1. Init => SmilInv
  BY SmilInvInit
<1>2. SmilInv /\ [Next]_vars => SmilInv'
  BY SmilInvStep
<1>3. SmilInv => OverlaySync
  BY SyncKept
<1>4. QED
  BY <1>1, <1>2, <1>3, PTL DEF Spec

-----------------------------------------------------------------------------
(***************************************************************************)
(* NCX                                                                      *)
(***************************************************************************)
\* The points and the page targets of an NCX, and what is said of them: labels
\* are the texts in a <text>, targets the sources of a <content>.  A page list
\* is a region of its own.
OnPages(doc, S) == {i \in S : Within(doc, "pageList", i)}
OffPages(doc, S) == {i \in S : ~Within(doc, "pageList", i)}
PointStarts(doc) == OffPages(doc, TagsAt(doc, {"start"}, "navPoint"))
PointEnds(doc) == OffPages(doc, TagsAt(doc, {"end"}, "navPoint"))
PageStarts(doc) == OnPages(doc, TagsAt(doc, {"start"}, "pageTarget"))
PageEnds(doc) == OnPages(doc, TagsAt(doc, {"end"}, "pageTarget"))
InPoint(doc, closes) == Around(PointStarts(doc), PointEnds(doc), closes)
InPage(doc) == Latest(PageStarts(doc), PageEnds(doc))
Labels(doc) == {i \in DOMAIN doc : doc[i].ev = "text" /\ Within(doc, "text", i)}
Targets(doc) == WithSrc(doc, TagsAt(doc, {"empty"}, "content"))
TextsOf(doc) == [i \in DOMAIN doc |-> doc[i].text]

\* A point or a page, with what is said of it before event n.
EntryOf(doc, labels, targets, around, i, n, children) ==
    Entry(LastSaid(labels, around, TextsOf(doc), i, n, NoText),
          LastSaid(targets, around, Values(doc, "src"), i, n, NoText), children)
PointEntry(doc, closes, i, n, children) ==
    EntryOf(doc, OffPages(doc, Labels(doc)), OffPages(doc, Targets(doc)), InPoint(doc, closes), i, n, children)
PageEntry(doc, i, n) ==
    EntryOf(doc, OnPages(doc, Labels(doc)), OnPages(doc, Targets(doc)), InPage(doc), i, n, << >>)

\* Where points, and pages with a label and a target, are complete.
PointsComplete(doc, closes) == {e \in PointEnds(doc) : closes[e] # 0}
PagesComplete(doc) ==
    {e \in PageEnds(doc) : LET i == InPage(doc)[e]
                           IN /\ i # 0
                              /\ PageEntry(doc, i, e).title # NoText /\ PageEntry(doc, i, e).href # NoText}
Nested(doc, closes, entry, i, n) ==
    InOrder(Children(PointsComplete(doc, closes), InPoint(doc, closes), i, n), entry)
PagesBefore(doc, entry, n) == InOrder({e \in PagesComplete(doc) : e < n}, entry)

\* The entries of a document: an end tag closes the innermost point, if any; a
\* point holds the entries that were complete in it.
NcxEntries(doc, closes, entry) ==
    /\ Closing(PointStarts(doc), PointEnds(doc), closes)
    /\ \A e \in PointsComplete(doc, closes) :
         entry[e] = PointEntry(doc, closes, closes[e], e, Nested(doc, closes, entry, closes[e], e))
    /\ \A e \in PagesComplete(doc) : entry[e] = PageEntry(doc, InPage(doc)[e], e)

\* While an NCX is read.
PointFrames(doc, closes, entry, n) ==
    [i \in DOMAIN doc |-> PointEntry(doc, closes, i, n, Nested(doc, closes, entry, i, n))]
OpenPoints(doc, closes, n) == OpenAt(PointStarts(doc), PointEnds(doc), closes, n)
PageNow(doc, n) == IF InPage(doc)[n] = 0 THEN Absent ELSE PageEntry(doc, InPage(doc)[n], n)
NcxNow(doc, closes, entry, n, nc, nv) ==
    /\ n \in 1..Len(doc) + 1
    /\ nc = [stack |-> nc.stack, in_page_list |-> nc.in_page_list, in_text |-> nc.in_text,
             page_target |-> nc.page_target]
    /\ nc.stack = InOrder(OpenPoints(doc, closes, n), PointFrames(doc, closes, entry, n))
    /\ nc.in_page_list \in BOOLEAN /\ (nc.in_page_list <=> Within(doc, "pageList", n))
    /\ nc.in_text \in BOOLEAN /\ (nc.in_text <=> Within(doc, "text", n))
    /\ nc.page_target = PageNow(doc, n)
    /\ nv = [toc |-> Nested(doc, closes, entry, 0, n), page_list |-> PagesBefore(doc, entry, n),
             landmarks |-> << >>]

LEMMA NcxPlaces ==
    ASSUME NEW doc, NEW V, doc \in Seq(V), NEW closes
    PROVE  /\ Len(doc) \in Nat /\ DOMAIN doc = 1..Len(doc)
           /\ PointStarts(doc) \in SUBSET (1..Len(doc)) /\ PointEnds(doc) \in SUBSET (1..Len(doc))
           /\ PageStarts(doc) \in SUBSET (1..Len(doc)) /\ PageEnds(doc) \in SUBSET (1..Len(doc))
           /\ Labels(doc) \in SUBSET (1..Len(doc)) /\ Targets(doc) \in SUBSET (1..Len(doc))
           /\ PointsComplete(doc, closes) \in SUBSET (1..Len(doc)) /\ PagesComplete(doc) \in SUBSET (1..Len(doc))
           /\ PointStarts(doc) \cap PointEnds(doc) = {} /\ PageStarts(doc) \cap PageEnds(doc) = {}
           /\ PointsComplete(doc, closes) \subseteq PointEnds(doc) /\ PagesComplete(doc) \subseteq PageEnds(doc)
           /\ Labels(doc) \cap (PointStarts(doc) \cup PointEnds(doc) \cup PageStarts(doc) \cup PageEnds(doc)) = {}
           /\ Targets(doc) \cap (PointStarts(doc) \cup PointEnds(doc) \cup PageStarts(doc) \cup PageEnds(doc)) = {}
           /\ Labels(doc) \cap Targets(doc) = {}
<1>1. Len(doc) \in Nat /\ DOMAIN doc = 1..Len(doc)
  OBVIOUS
<1>2. \A evs, name : TagsAt(doc, evs, name) \in SUBSET (1..Len(doc))
  BY <1>1 DEF TagsAt
<1>3. /\ PointStarts(doc) \in SUBSET (1..Len(doc)) /\ PointEnds(doc) \in SUBSET (1..Len(doc))
      /\ PageStarts(doc) \in SUBSET (1..Len(doc)) /\ PageEnds(doc) \in SUBSET (1..Len(doc))
      /\ Targets(doc) \in SUBSET (1..Len(doc))
  BY <1>2 DEF PointStarts, PointEnds, PageStarts, PageEnds, Targets, WithSrc, OnPages, OffPages
<1>4. Labels(doc) \in SUBSET (1..Len(doc))
  BY <1>1 DEF Labels
<1>5. PointsComplete(doc, closes) \subseteq PointEnds(doc) /\ PagesComplete(doc) \subseteq PageEnds(doc)
  BY DEF PointsComplete, PagesComplete
<1>6. /\ \A i \in PointStarts(doc) \cup PageStarts(doc) : doc[i].ev = "start"
      /\ \A i \in PointEnds(doc) \cup PageEnds(doc) : doc[i].ev = "end"
      /\ \A i \in Labels(doc) : doc[i].ev = "text"
      /\ \A i \in Targets(doc) : doc[i].ev = "empty"
  BY DEF PointStarts, PointEnds, PageStarts, PageEnds, TagsAt, Labels, Targets, WithSrc, OnPages, OffPages
<1>7. /\ PointStarts(doc) \cap PointEnds(doc) = {} /\ PageStarts(doc) \cap PageEnds(doc) = {}
      /\ Labels(doc) \cap (PointStarts(doc) \cup PointEnds(doc) \cup PageStarts(doc) \cup PageEnds(doc)) = {}
      /\ Targets(doc) \cap (PointStarts(doc) \cup PointEnds(doc) \cup PageStarts(doc) \cup PageEnds(doc)) = {}
      /\ Labels(doc) \cap Targets(doc) = {}
  BY <1>6
<1>8. QED
  BY <1>1, <1>3, <1>4, <1>5, <1>7

\* What is said elsewhere.
LEMMA SaidElse ==
    ASSUME NEW m, NEW S, NEW n, Steps(m, S, n), NEW around, NEW said, NEW default,
           NEW i, NEW j, Gives(around, n, j), j # i, NEW k, k = n + 1
    PROVE  LastSaid(S, around, said, i, k, default) = LastSaid(S, around, said, i, n, default)
<1>1. Own(S, around, i, k) = Own(S, around, i, n)
  <2>1. \A l \in S : l < n + 1 <=> l < n \/ l = n
    BY DEF Steps
  <2>2. QED
    BY <2>1 DEF Own, Gives
<1>2. QED
  BY <1>1 DEF LastSaid

\* Nothing is said at the start of an element.
LEMMA SaidFirst ==
    ASSUME NEW m, NEW S, NEW n, Steps(m, S, n), NEW around, NEW said, NEW default,
           \A l \in S : around[l] < l, NEW k, k = n + 1
    PROVE  LastSaid(S, around, said, n, k, default) = default
BY SaidNone DEF Steps

\* An entry, one event later.
Part(S, T) == S \in SUBSET T
LEMMA EntryMore ==
    ASSUME NEW doc, NEW V, doc \in Seq(V), NEW n \in 1..Len(doc), NEW labels, NEW targets, NEW around,
           Part(labels, Labels(doc)), Part(targets, Targets(doc)), NEW i, NEW c, NEW k, k = n + 1
    PROVE  LET now == EntryOf(doc, labels, targets, around, i, n, c)
               later == EntryOf(doc, labels, targets, around, i, k, c) IN
           /\ (n \notin labels /\ n \notin targets) \/ around[n] # i => later = now
           /\ n \in labels /\ around[n] = i => later = Entry(doc[n].text, now.href, c)
           /\ n \in targets /\ around[n] = i => later = Entry(now.title, At(doc, n, "src"), c)
           /\ i = n /\ (\A l \in labels \cup targets : around[l] < l) =>
                later = Entry(NoText, NoText, c)
<1> DEFINE m == Len(doc)
           T(j) == LastSaid(labels, around, TextsOf(doc), i, j, NoText)
           H(j) == LastSaid(targets, around, Values(doc, "src"), i, j, NoText)
           a == around[n]
<1>1. Steps(m, labels, n) /\ Steps(m, targets, n) /\ n \in DOMAIN doc /\ labels \cap targets = {}
  BY NcxPlaces DEF Steps, Part
<1>2. Gives(TextsOf(doc), n, doc[n].text) /\ Gives(Values(doc, "src"), n, At(doc, n, "src"))
  BY <1>1 DEF Gives, TextsOf, Values
<1>3. Gives(around, n, a)
  BY DEF Gives
<1>4. \A j : EntryOf(doc, labels, targets, around, i, j, c) = Entry(T(j), H(j), c)
  BY DEF EntryOf
<1> HIDE DEF a, m
<1>5. n \notin labels \/ a # i => T(k) = T(n)
  BY <1>1, <1>3, SaidSame, SaidElse
<1>6. n \notin targets \/ a # i => H(k) = H(n)
  BY <1>1, <1>3, SaidSame, SaidElse
<1>7. n \in labels /\ a = i => T(k) = doc[n].text
  BY <1>1, <1>2, <1>3, SaidNew
<1>8. n \in targets /\ a = i => H(k) = At(doc, n, "src")
  BY <1>1, <1>2, <1>3, SaidNew
<1>9. ASSUME i = n, \A l \in labels \cup targets : around[l] < l
      PROVE  T(k) = NoText /\ H(k) = NoText
  <2>1. LastSaid(labels, around, TextsOf(doc), n, k, NoText) = NoText
    BY <1>1, <1>9, SaidFirst
  <2>2. LastSaid(targets, around, Values(doc, "src"), n, k, NoText) = NoText
    BY <1>1, <1>9, SaidFirst
  <2>3. QED
    BY <1>9, <2>1, <2>2
<1> HIDE DEF T, H
<1>10. Entry(T(n), H(n), c).title = T(n) /\ Entry(T(n), H(n), c).href = H(n)
  BY DEF Entry
<1>11. ~(n \in labels /\ n \in targets)
  BY <1>1
<1> USE DEF a
<1>12. (n \notin labels /\ n \notin targets) \/ around[n] # i => T(k) = T(n) /\ H(k) = H(n)
  BY <1>5, <1>6
<1>13. n \in labels /\ around[n] = i => T(k) = doc[n].text /\ H(k) = H(n)
  BY <1>6, <1>7, <1>11
<1>14. n \in targets /\ around[n] = i => H(k) = At(doc, n, "src") /\ T(k) = T(n)
  BY <1>5, <1>8, <1>11
<1>15. QED
  BY <1>4, <1>9, <1>10, <1>12, <1>13, <1>14

\* An entry that gets a title, a target, a child.
Titled(e, v) == [e EXCEPT !.title = v]
Targeted(e, v) == [e EXCEPT !.href = v]
Parent(e, child) == [e EXCEPT !.children = Append(@, child)]
LEMMA EntryGains ==
    ASSUME NEW t, NEW h, NEW c, NEW e, e = Entry(t, h, c)
    PROVE  /\ e.title = t /\ e.href = h /\ e.children = c
           /\ \A v : Titled(e, v) = Entry(v, h, c) /\ Targeted(e, v) = Entry(t, v, c)
           /\ \A v : Parent(e, v) = Entry(t, h, Append(c, v))
<1>1. e = [title |-> t, href |-> h, children |-> c]
  BY DEF Entry
<1>2. ASSUME NEW v
      PROVE  Titled(e, v) = Entry(v, h, c) /\ Targeted(e, v) = Entry(t, v, c)
  BY <1>1 DEF Titled, Targeted, Entry
<1>3. ASSUME NEW v PROVE Parent(e, v) = Entry(t, h, Append(c, v))
  <2> DEFINE more == Append(c, v)
  <2>1. e.children = c
    BY <1>1
  <2>2. Parent(e, v) = [e EXCEPT !.children = more]
    BY <2>1 DEF Parent
  <2> HIDE DEF more
  <2>3. [e EXCEPT !.children = more] = Entry(t, h, more)
    BY <1>1 DEF Entry
  <2>4. QED
    BY <2>2, <2>3 DEF more
<1>4. QED
  BY <1>1, <1>2, <1>3

\* A stack that is empty or not.
LEMMA StackEmpty ==
    ASSUME NEW n \in Nat, NEW S \in SUBSET (1..n), NEW f
    PROVE  InOrder(S, f) = << >> <=> S = {}
<1>1. IsFiniteSet(S)
  BY InnermostIs
<1>2. InOrder({}, f) = << >>
  BY InOrderMore, FS_EmptySet
<1>3. ASSUME S # {} PROVE InOrder(S, f) # << >>
  <2>1. Len(InOrder(S, f)) = Cardinality(S) /\ Cardinality(S) # 0 /\ Cardinality(S) \in Nat
    <3>1. S \in SUBSET Nat
      OBVIOUS
    <3>2. QED
      BY <1>1, <1>3, <3>1, InOrderMore, FS_EmptySet, FS_CardinalityType
  <2>2. Len(<< >>) = 0
    OBVIOUS
  <2>3. QED
    BY <2>1, <2>2
<1>4. QED
  BY <1>2, <1>3

\* The open points and the contents, after one more event.
LEMMA PointsMore ==
    ASSUME NEW doc, NEW V, doc \in Seq(V), NEW closes, NEW entry, NcxEntries(doc, closes, entry),
           NEW n \in 1..Len(doc), NEW stack,
           stack = InOrder(OpenPoints(doc, closes, n), PointFrames(doc, closes, entry, n)),
           NEW toc, toc = Nested(doc, closes, entry, 0, n)
    PROVE  LET next == InOrder(OpenPoints(doc, closes, n + 1), PointFrames(doc, closes, entry, n + 1))
               more == Nested(doc, closes, entry, 0, n + 1)
               labels == OffPages(doc, Labels(doc))
               targets == OffPages(doc, Targets(doc)) IN
           /\ n \notin PointEnds(doc) \/ stack = << >> => more = toc
           /\ n \in PointStarts(doc) => next = Append(stack, Entry(NoText, NoText, << >>))
           /\ n \notin PointStarts(doc) \cup PointEnds(doc) \cup labels \cup targets => next = stack
           /\ n \notin PointStarts(doc) /\ stack = << >> => next = stack
           /\ stack # << >> /\ n \in labels => next = Retop(stack, Titled(Top(stack), doc[n].text))
           /\ stack # << >> /\ n \in targets => next = Retop(stack, Targeted(Top(stack), At(doc, n, "src")))
           /\ n \in PointEnds(doc) /\ stack # << >> =>
                IF Pop(stack) = << >> THEN next = Pop(stack) /\ more = Append(toc, Top(stack))
                ELSE next = Retop(Pop(stack), Parent(Top(Pop(stack)), Top(stack))) /\ more = toc
<1> DEFINE B == PointStarts(doc)
           E == PointEnds(doc)
           C == PointsComplete(doc, closes)
           m == Len(doc)
           ar == InPoint(doc, closes)
           labels == OffPages(doc, Labels(doc))
           targets == OffPages(doc, Targets(doc))
           open(k) == OpenAt(B, E, closes, k)
           F(k) == PointFrames(doc, closes, entry, k)
           inside(i, k) == Children(C, ar, i, k)
           Of(i, k, c) == EntryOf(doc, labels, targets, ar, i, k, c)
           next == InOrder(open(n + 1), F(n + 1))
           more == InOrder(inside(0, n + 1), entry)
<1>1. /\ m \in Nat /\ DOMAIN doc = 1..m /\ B \in SUBSET (1..m) /\ E \in SUBSET (1..m) /\ B \cap E = {}
      /\ C \in SUBSET (1..m) /\ C \subseteq E /\ n \in 1..m + 1 /\ n + 1 \in 1..m + 1 /\ n \in 1..m
      /\ labels \in SUBSET Labels(doc) /\ targets \in SUBSET Targets(doc)
      /\ labels \in SUBSET (1..m) /\ targets \in SUBSET (1..m)
      /\ labels \cap (B \cup E) = {} /\ targets \cap (B \cup E) = {} /\ labels \cap targets = {}
      /\ n - 1 \in Nat
  <2>1. n \in 1..m + 1 /\ n + 1 \in 1..m + 1 /\ n - 1 \in Nat /\ m \in Nat
    OBVIOUS
  <2>2. labels \in SUBSET Labels(doc) /\ targets \in SUBSET Targets(doc)
    BY DEF OffPages
  <2>3. /\ m \in Nat /\ DOMAIN doc = 1..m /\ B \in SUBSET (1..m) /\ E \in SUBSET (1..m) /\ B \cap E = {}
        /\ C \in SUBSET (1..m) /\ C \subseteq E
        /\ Labels(doc) \in SUBSET (1..m) /\ Targets(doc) \in SUBSET (1..m)
        /\ Labels(doc) \cap (B \cup E) = {} /\ Targets(doc) \cap (B \cup E) = {}
        /\ Labels(doc) \cap Targets(doc) = {}
    BY NcxPlaces
  <2> HIDE DEF labels, targets, B, E, C, m
  <2>4. labels \cap (B \cup E) = {} /\ targets \cap (B \cup E) = {} /\ labels \cap targets = {}
    BY <2>2, <2>3
  <2>5. labels \in SUBSET (1..m) /\ targets \in SUBSET (1..m)
    BY <2>2, <2>3
  <2>6. n \in 1..m
    BY DEF m
  <2>7. QED
    BY <2>1, <2>2, <2>3, <2>4, <2>5, <2>6
<1>2. Closing(B, E, closes) /\ ar = Around(B, E, closes)
  BY DEF NcxEntries, InPoint
<1>3. /\ n \in B => open(n + 1) = open(n) \cup {n}
      /\ n \notin B \cup E => open(n + 1) = open(n)
      /\ n \in E /\ open(n) = {} => open(n + 1) = {} /\ closes[n] = 0
      /\ n \in E /\ open(n) # {} =>
           /\ closes[n] \in open(n) /\ closes[n] # 0 /\ closes[n] < n
           /\ open(n) = open(n + 1) \cup {closes[n]}
           /\ \A i \in open(n + 1) : i < closes[n]
  <2>1. /\ m \in Nat /\ B \in SUBSET (1..m) /\ E \in SUBSET (1..m) /\ B \cap E = {}
        /\ Closing(B, E, closes) /\ n \in 1..m
    BY <1>1, <1>2
  <2> HIDE DEF B, E, m
  <2>2. QED
    BY <2>1, OpenMore
<1>4. \A k \in 1..m + 1 : /\ open(k) \in SUBSET (1..k - 1) /\ IsFiniteSet(open(k)) /\ k - 1 \in Nat
                          /\ ar[k] = Innermost(open(k)) /\ ar[k] \in 0..k - 1
  <2>1. TAKE k \in 1..m + 1
  <2>3. m \in Nat /\ B \in SUBSET (1..m) /\ k \in 1..m + 1
    BY <1>1
  <2> HIDE DEF B, E, m, ar, open
  <2>4. /\ OpenAt(B, E, closes, k) \in SUBSET (1..k - 1) /\ IsFiniteSet(OpenAt(B, E, closes, k))
        /\ Around(B, E, closes)[k] = Innermost(OpenAt(B, E, closes, k))
        /\ Around(B, E, closes)[k] \in 0..k - 1 /\ k - 1 \in Nat
    BY <2>3, OpenBelow
  <2> USE DEF open
  <2>5. QED
    BY <1>2, <2>4
<1>5. /\ n \in C => Below(inside(ar[n + 1], n), n) /\ inside(ar[n + 1], n + 1) = Plus(inside(ar[n + 1], n), n)
      /\ \A i : n \notin C \/ ar[n + 1] # i => inside(i, n + 1) = inside(i, n)
      /\ n \notin C => inside(n, n + 1) = {}
      /\ \A i, k : inside(i, k) \in SUBSET Nat /\ IsFiniteSet(inside(i, k))
  <2>1. \A c \in C : ar[c + 1] < c + 1
    <3>1. TAKE c \in C
    <3>2. c + 1 \in 1..m + 1 /\ c \in Nat
      BY <1>1
    <3>3. ar[c + 1] \in 0..(c + 1) - 1
      BY <1>4, <3>2
    <3>4. QED
      BY <3>2, <3>3
  <2>2. m \in Nat /\ C \in SUBSET (1..m) /\ n \in 1..m
    BY <1>1
  <2> HIDE DEF C, ar, m, inside
  <2>3. ASSUME n \in C
        PROVE  Below(inside(ar[n + 1], n), n) /\ inside(ar[n + 1], n + 1) = Plus(inside(ar[n + 1], n), n)
    BY <2>2, <2>3, ChildrenPlus DEF inside
  <2>4. ASSUME NEW i, n \notin C \/ ar[n + 1] # i
        PROVE  inside(i, n + 1) = inside(i, n)
    BY <2>2, <2>4, ChildrenSame DEF inside
  <2>5. ASSUME n \notin C PROVE inside(n, n + 1) = {}
    BY <2>1, <2>2, <2>5, ChildrenNone DEF inside
  <2>6. ASSUME NEW i, NEW k PROVE inside(i, k) \in SUBSET Nat /\ IsFiniteSet(inside(i, k))
    BY <2>2, ChildrenPlaces DEF inside
  <2>7. QED
    BY <2>3, <2>4, <2>5, <2>6
<1>6. \A k : \A i \in 1..m : F(k)[i] = Of(i, k, InOrder(inside(i, k), entry))
  BY <1>1 DEF PointFrames, PointEntry, Nested
<1>7. \A l \in labels \cup targets : ar[l] < l
  <2>1. TAKE l \in labels \cup targets
  <2>2. l \in 1..m + 1 /\ l \in Nat
    BY <1>1
  <2> HIDE DEF m, labels, targets, ar
  <2>3. ar[l] \in 0..l - 1
    BY <1>4, <2>2
  <2>4. QED
    BY <2>2, <2>3
\* What is said in a point.
<1>8. \A i, c :
        /\ (n \notin labels /\ n \notin targets) \/ ar[n] # i => Of(i, n + 1, c) = Of(i, n, c)
        /\ n \in labels /\ ar[n] = i => Of(i, n + 1, c) = Entry(doc[n].text, Of(i, n, c).href, c)
        /\ n \in targets /\ ar[n] = i => Of(i, n + 1, c) = Entry(Of(i, n, c).title, At(doc, n, "src"), c)
        /\ i = n => Of(i, n + 1, c) = Entry(NoText, NoText, c)
  <2>1. TAKE i, c
  <2>2. Part(labels, Labels(doc)) /\ Part(targets, Targets(doc))
    BY <1>1 DEF Part
  <2>3. n \in 1..Len(doc)
    OBVIOUS
  <2> DEFINE now == EntryOf(doc, labels, targets, ar, i, n, c)
             later == EntryOf(doc, labels, targets, ar, i, n + 1, c)
  <2> HIDE DEF labels, targets, ar, m
  <2>4. /\ (n \notin labels /\ n \notin targets) \/ ar[n] # i => later = now
        /\ n \in labels /\ ar[n] = i => later = Entry(doc[n].text, now.href, c)
        /\ n \in targets /\ ar[n] = i => later = Entry(now.title, At(doc, n, "src"), c)
        /\ i = n /\ (\A l \in labels \cup targets : ar[l] < l) =>
             later = Entry(NoText, NoText, c)
    BY <2>2, <2>3, EntryMore
  <2>5. QED
    BY <1>7, <2>4
<1>9. \A i, k, c : Of(i, k, c) = Entry(Of(i, k, c).title, Of(i, k, c).href, c)
  BY DEF EntryOf, Entry
<1> HIDE DEF B, E, C, m, ar, labels, targets, open, F, inside, Of
<1>10. stack = InOrder(open(n), F(n)) /\ toc = InOrder(inside(0, n), entry)
  BY DEF open, F, inside, OpenPoints, Nested, B, E, C, ar
<1>11. stack = << >> <=> open(n) = {}
  BY <1>1, <1>4, <1>10, StackEmpty
\* What stays.
<1>12. \A i \in 1..m : (n \notin C \/ ar[n + 1] # i) /\ ((n \notin labels /\ n \notin targets) \/ ar[n] # i) =>
         F(n + 1)[i] = F(n)[i]
  <2>1. TAKE i \in 1..m
  <2>2. HAVE (n \notin C \/ ar[n + 1] # i) /\ ((n \notin labels /\ n \notin targets) \/ ar[n] # i)
  <2>3. inside(i, n + 1) = inside(i, n)
    BY <1>5, <2>2
  <2>4. QED
    BY <1>6, <1>8, <2>2, <2>3
<1>13. \A k \in 1..m + 1 : \A i \in open(k) : i \in 1..m /\ i \in Nat
  <2>1. TAKE k \in 1..m + 1
  <2>2. open(k) \in SUBSET (1..k - 1)
    BY <1>4
  <2>3. k - 1 <= m /\ m \in Nat
    BY <1>1
  <2>4. QED
    BY <2>2, <2>3
<1>14. ASSUME n \notin E \/ stack = << >> PROVE more = toc
  <2>1. n \notin C
    <3>1. CASE n \notin E
      BY <1>1, <3>1
    <3>2. CASE n \in E /\ stack = << >>
      <4>1. closes[n] = 0
        BY <1>3, <1>11, <3>2
      <4>2. QED
        BY <4>1 DEF C, PointsComplete
    <3>3. QED
      BY <1>14, <3>1, <3>2
  <2>2. inside(0, n + 1) = inside(0, n)
    BY <1>5, <2>1
  <2>3. QED
    BY <1>10, <2>2
<1>15. ASSUME n \in B PROVE next = Append(stack, Entry(NoText, NoText, << >>))
  <2>1. n \notin E /\ n \notin C /\ n \notin labels /\ n \notin targets
    BY <1>1, <1>15
  <2>2. Below(open(n), n) /\ open(n + 1) = Plus(open(n), n)
    <3>1. open(n) \in SUBSET (1..n - 1) /\ IsFiniteSet(open(n))
      BY <1>1, <1>4
    <3>2. \A i \in open(n) : i < n /\ i \in Nat
      BY <1>1, <3>1
    <3>3. n \in Nat
      BY <1>1
    <3>4. QED
      BY <1>3, <1>15, <3>1, <3>2, <3>3 DEF Below, Plus
  <2>3. \A i \in open(n) : F(n)[i] = F(n + 1)[i]
    BY <1>1, <1>12, <1>13, <2>1
  <2>4. InOrder(open(n), F(n)) = InOrder(open(n), F(n + 1))
    BY <2>2, <2>3, SameInOrder
  <2>5. next = Append(InOrder(open(n), F(n + 1)), F(n + 1)[n])
    BY <2>2, OneMore
  <2>6. F(n + 1)[n] = Entry(NoText, NoText, << >>)
    <3>1. inside(n, n + 1) = {} /\ InOrder({}, entry) = << >>
      BY <1>5, <2>1, InOrderMore
    <3>2. F(n + 1)[n] = Of(n, n + 1, << >>)
      BY <1>1, <1>6, <3>1
    <3>3. QED
      BY <1>8, <3>2
  <2>7. QED
    BY <1>10, <2>4, <2>5, <2>6
<1>16. ASSUME n \notin B, stack = << >> PROVE next = stack
  <2>1. open(n + 1) = {} /\ open(n) = {}
    BY <1>1, <1>3, <1>11, <1>16
  <2>2. InOrder({}, F(n + 1)) = << >>
    BY FS_EmptySet, InOrderMore
  <2>3. QED
    BY <1>16, <2>1, <2>2
<1>17. ASSUME n \notin B, n \notin E, n \notin labels, n \notin targets PROVE next = stack
  <2>1. open(n + 1) = open(n) /\ n \notin C
    BY <1>1, <1>3, <1>17
  <2>2. \A i \in open(n) : F(n)[i] = F(n + 1)[i]
    BY <1>1, <1>12, <1>13, <1>17, <2>1
  <2>3. open(n) \in SUBSET Nat /\ IsFiniteSet(open(n))
    BY <1>1, <1>4, <1>13
  <2>4. InOrder(open(n), F(n)) = InOrder(open(n), F(n + 1))
    BY <2>2, <2>3, InOrderMore
  <2>5. QED
    BY <1>10, <2>1, <2>4
\* The innermost point of some, above the others.
<1>18. ASSUME NEW k \in 1..m + 1, open(k) # {}
       PROVE  /\ ar[k] \in open(k) /\ Below(open(k) \ {ar[k]}, ar[k])
              /\ open(k) = Plus(open(k) \ {ar[k]}, ar[k])
  <2>1. k - 1 \in Nat /\ open(k) \in SUBSET (1..k - 1) /\ IsFiniteSet(open(k))
    BY <1>4
  <2>2. ar[k] \in open(k) /\ \A i \in open(k) : i <= ar[k]
    BY <1>4, <1>18, <2>1, InnermostIs, SMTT(30)
  <2>3. IsFiniteSet(open(k) \ {ar[k]})
    BY <2>1, FS_Subset
  <2>4. \A i \in open(k) : i \in Nat
    BY <1>13
  <2>5. \A i \in open(k) \ {ar[k]} : i < ar[k]
    BY <2>2, <2>4
  <2>6. QED
    BY <2>2, <2>3, <2>4, <2>5 DEF Below, Plus
<1>19. ASSUME stack # << >>, n \in labels \/ n \in targets
       PROVE  /\ next = Retop(stack, F(n + 1)[ar[n]]) /\ Top(stack) = F(n)[ar[n]] /\ ar[n] \in 1..m
              /\ inside(ar[n], n + 1) = inside(ar[n], n)
  <2> DEFINE top == ar[n]
             rest == open(n) \ {top}
  <2>1. n \notin B /\ n \notin E /\ n \notin C /\ open(n) # {}
    BY <1>1, <1>11, <1>19
  <2>2. top \in open(n) /\ Below(rest, top) /\ open(n) = Plus(rest, top)
    BY <1>1, <1>18, <2>1
  <2>3. open(n + 1) = open(n)
    BY <1>3, <2>1
  <2>4. top \in 1..m
    BY <1>1, <1>13, <2>2
  <2>5. \A i \in rest : F(n)[i] = F(n + 1)[i]
    BY <1>1, <1>12, <1>13, <2>1
  <2>6. stack = InOrder(Plus(rest, top), F(n))
    BY <1>10, <2>2
  <2>7. next = InOrder(Plus(rest, top), F(n + 1))
    BY <2>2, <2>3
  <2>8. inside(top, n + 1) = inside(top, n)
    BY <1>5, <2>1
  <2> DEFINE f == F(n)
             g == F(n + 1)
  <2> HIDE DEF rest, top, next, f, g
  <2>9. Retop(stack, g[top]) = InOrder(Plus(rest, top), g)
    BY <2>2, <2>5, <2>6, TopAnew DEF f, g
  <2>10. Top(stack) = f[top]
    BY <2>2, <2>6, OnTop DEF f
  <2>11. QED
    BY <2>4, <2>7, <2>8, <2>9, <2>10 DEF top, f, g
<1>20. ASSUME stack # << >>, n \in labels PROVE next = Retop(stack, Titled(Top(stack), doc[n].text))
  <2> DEFINE c == InOrder(inside(ar[n], n), entry)
             e == F(n)[ar[n]]
  <2>1. F(n)[ar[n]] = Of(ar[n], n, c) /\ F(n + 1)[ar[n]] = Of(ar[n], n + 1, c)
    BY <1>6, <1>19, <1>20
  <2> HIDE DEF c
  <2>2. F(n + 1)[ar[n]] = Entry(doc[n].text, Of(ar[n], n, c).href, c)
    BY <1>8, <1>20, <2>1
  <2>3. e = Entry(Of(ar[n], n, c).title, Of(ar[n], n, c).href, c)
    BY <1>9, <2>1
  <2> HIDE DEF e
  <2>4. Titled(e, doc[n].text) = Entry(doc[n].text, Of(ar[n], n, c).href, c)
    BY <2>3, EntryGains
  <2>5. QED
    BY <1>19, <1>20, <2>2, <2>4 DEF e
<1>21. ASSUME stack # << >>, n \in targets
       PROVE  next = Retop(stack, Targeted(Top(stack), At(doc, n, "src")))
  <2> DEFINE c == InOrder(inside(ar[n], n), entry)
             e == F(n)[ar[n]]
  <2>1. F(n)[ar[n]] = Of(ar[n], n, c) /\ F(n + 1)[ar[n]] = Of(ar[n], n + 1, c)
    BY <1>6, <1>19, <1>21
  <2> HIDE DEF c
  <2>2. F(n + 1)[ar[n]] = Entry(Of(ar[n], n, c).title, At(doc, n, "src"), c)
    BY <1>8, <1>21, <2>1
  <2>3. e = Entry(Of(ar[n], n, c).title, Of(ar[n], n, c).href, c)
    BY <1>9, <2>1
  <2> HIDE DEF e
  <2>4. Targeted(e, At(doc, n, "src")) = Entry(Of(ar[n], n, c).title, At(doc, n, "src"), c)
    BY <2>3, EntryGains
  <2>5. QED
    BY <1>19, <1>21, <2>2, <2>4 DEF e
\* A point that is complete goes to the one around it, or to the contents.
<1>22. ASSUME n \in E, stack # << >>
       PROVE  IF Pop(stack) = << >> THEN next = Pop(stack) /\ more = Append(toc, Top(stack))
              ELSE next = Retop(Pop(stack), Parent(Top(Pop(stack)), Top(stack))) /\ more = toc
  <2> DEFINE k == closes[n]
             up == ar[n + 1]
             low == InOrder(open(n + 1), F(n))
  <2>1. /\ open(n) # {} /\ k \in open(n) /\ k # 0 /\ open(n) = open(n + 1) \cup {k}
        /\ \A i \in open(n + 1) : i < k
    BY <1>3, <1>11, <1>22
  <2>2. n \in C /\ n \notin labels /\ n \notin targets
    <3>1. n \in C
      BY <1>22, <2>1 DEF C, PointsComplete, E
    <3>2. QED
      BY <1>1, <1>22, <3>1
  <2>3. Below(open(n + 1), k) /\ open(n) = Plus(open(n + 1), k) /\ k \in 1..m
    <3>1. k \in 1..m /\ k \in Nat
      BY <1>1, <1>13, <2>1
    <3>2. open(n + 1) \in SUBSET Nat /\ IsFiniteSet(open(n + 1))
      BY <1>1, <1>4, <1>13
    <3>3. QED
      BY <2>1, <3>1, <3>2 DEF Below, Plus
  <2> HIDE DEF k, up, low, next, more
  <2> DEFINE f == F(n)
  <2>4. stack = InOrder(Plus(open(n + 1), k), f)
    BY <1>10, <2>3
  <2>5. Top(stack) = f[k] /\ Pop(stack) = low
    <3> HIDE DEF f
    <3>1. Top(stack) = f[k]
      BY <2>3, <2>4, OnTop
    <3>2. Pop(stack) = InOrder(open(n + 1), f)
      BY <2>3, <2>4, OnTopRest
    <3>3. QED
      BY <3>1, <3>2 DEF low, f
  <2>6. entry[n] = Top(stack)
    <3>1. entry[n] = PointEntry(doc, closes, k, n, Nested(doc, closes, entry, k, n))
      BY <2>2 DEF NcxEntries, C, k
    <3>2. F(n)[k] = PointEntry(doc, closes, k, n, Nested(doc, closes, entry, k, n))
      BY <1>1, <2>3 DEF F, PointFrames
    <3>3. QED
      BY <2>5, <3>1, <3>2
  <2>7. /\ Below(inside(up, n), n) /\ inside(up, n + 1) = Plus(inside(up, n), n)
        /\ \A i : up # i => inside(i, n + 1) = inside(i, n)
    BY <1>5, <2>2 DEF up
  <2>8. InOrder(inside(up, n + 1), entry) = Append(InOrder(inside(up, n), entry), Top(stack))
    <3>1. InOrder(Plus(inside(up, n), n), entry) = Append(InOrder(inside(up, n), entry), entry[n])
      BY <2>7, OneMore
    <3>2. QED
      BY <2>6, <2>7, <3>1
  <2>9. CASE open(n + 1) = {}
    <3>1. up = 0
      <4>1. n + 1 \in 1..m + 1
        BY <1>1
      <4>2. QED
        BY <1>4, <2>9, <4>1 DEF up, Innermost
    <3>2. low = << >> /\ next = << >>
      BY <2>9, FS_EmptySet, InOrderMore DEF low, next
    <3>3. more = Append(toc, Top(stack))
      BY <1>10, <2>8, <3>1 DEF more
    <3>4. QED
      BY <2>5, <3>2, <3>3
  <2>10. CASE open(n + 1) # {}
    <3> DEFINE rest == open(n + 1) \ {up}
    <3>1. up \in open(n + 1) /\ Below(rest, up) /\ open(n + 1) = Plus(rest, up)
      BY <1>1, <1>18, <2>10 DEF up
    <3>2. up \in 1..m /\ up # 0
      <4>1. up \in 1..m
        BY <1>1, <1>13, <3>1
      <4>2. QED
        BY <1>1, <4>1
    <3>3. more = toc
      BY <1>10, <2>7, <3>2 DEF more
    <3>4. low # << >>
      BY <1>1, <1>4, <2>10, StackEmpty DEF low
    <3>5. \A i \in rest : F(n)[i] = F(n + 1)[i]
      BY <1>1, <1>12, <1>13, <2>2 DEF up
    <3> DEFINE c == InOrder(inside(up, n), entry)
               o == Top(stack)
               g == F(n + 1)
               e == f[up]
    <3>6. f[up] = Of(up, n, c) /\ g[up] = Of(up, n + 1, Append(c, o))
      BY <1>6, <2>8, <3>2
    <3> HIDE DEF c, o
    <3>7. Of(up, n + 1, Append(c, o)) = Of(up, n, Append(c, o))
      BY <1>8, <2>2
    <3>8. Of(up, n, Append(c, o)) = Entry(Of(up, n, c).title, Of(up, n, c).href, Append(c, o))
      BY <1>9 DEF Of, EntryOf, Entry
    <3>9. f[up] = Entry(Of(up, n, c).title, Of(up, n, c).href, c)
      BY <1>9, <3>6
    <3> HIDE DEF e, g, f, rest
    <3>10. Parent(e, o) = g[up]
      <4>1. e = Entry(Of(up, n, c).title, Of(up, n, c).href, c)
        BY <3>9 DEF e
      <4>2. Parent(e, o) = Entry(Of(up, n, c).title, Of(up, n, c).href, Append(c, o))
        BY <4>1, EntryGains
      <4>3. QED
        BY <3>6, <3>7, <3>8, <4>2
    <3>11. low = InOrder(Plus(rest, up), f) /\ next = InOrder(Plus(rest, up), g)
      BY <3>1 DEF low, next, f, g
    <3>12. Top(low) = e
      BY <3>1, <3>11, OnTop DEF e
    <3>13. Retop(low, g[up]) = InOrder(Plus(rest, up), g)
      BY <3>1, <3>5, <3>11, TopAnew DEF f, g
    <3>14. next = Retop(Pop(stack), Parent(Top(Pop(stack)), Top(stack)))
      BY <2>5, <3>10, <3>11, <3>12, <3>13 DEF o
    <3>15. QED
      BY <2>5, <3>3, <3>4, <3>14
  <2>11. QED
    BY <2>9, <2>10
<1>23. /\ n \notin B \cup E \cup labels \cup targets =>
            n \notin B /\ n \notin E /\ n \notin labels /\ n \notin targets
  OBVIOUS
<1>24. QED
  <2>1. next = InOrder(OpenPoints(doc, closes, n + 1), PointFrames(doc, closes, entry, n + 1))
    BY DEF next, open, F, OpenPoints, B, E
  <2>2. more = Nested(doc, closes, entry, 0, n + 1)
    BY DEF more, inside, Nested, C, ar
  <2> HIDE DEF next, more
  <2> USE DEF B, E, labels, targets
  <2>3. QED
    BY <1>14, <1>15, <1>16, <1>17, <1>20, <1>21, <1>22, <1>23, <2>1, <2>2

LEMMA NoEntry ==
    ASSUME AbsentIsPlain
    PROVE  \A t, h, c : Absent # Entry(t, h, c)
<1>1. ASSUME NEW t, NEW h, NEW c PROVE Absent # Entry(t, h, c)
  <2> DEFINE e == Entry(t, h, c)
  <2>1. e = [x \in {"title", "href", "children"} |-> e[x]]
    BY DEF Entry
  <2>2. QED
    BY <2>1 DEF AbsentIsPlain
<1>2. QED
  BY <1>1

\* The page that is read, one event later.
LEMMA PageMore ==
    ASSUME AbsentIsPlain, NEW doc, NEW V, doc \in Seq(V), NEW n \in 1..Len(doc), NEW page, page = PageNow(doc, n)
    PROVE  LET later == PageNow(doc, n + 1)
               labels == OnPages(doc, Labels(doc))
               targets == OnPages(doc, Targets(doc))
               other == n \notin PageStarts(doc) \cup PageEnds(doc) IN
           /\ n \in PageStarts(doc) => later = Entry(NoText, NoText, << >>)
           /\ n \in PageEnds(doc) => later = Absent
           /\ other /\ page = Absent => later = Absent
           /\ other /\ n \notin labels /\ n \notin targets => later = page
           /\ page # Absent /\ n \in labels => later = Titled(page, doc[n].text)
           /\ page # Absent /\ n \in targets => later = Targeted(page, At(doc, n, "src"))
<1> DEFINE m == Len(doc)
           B == PageStarts(doc)
           E == PageEnds(doc)
           ar == InPage(doc)
           labels == OnPages(doc, Labels(doc))
           targets == OnPages(doc, Targets(doc))
           Of(i, k) == EntryOf(doc, labels, targets, ar, i, k, << >>)
           later == PageNow(doc, n + 1)
           i == ar[n]
<1>1. /\ m \in Nat /\ DOMAIN doc = 1..m /\ B \in SUBSET (1..m) /\ E \in SUBSET (1..m) /\ B \cap E = {}
      /\ n \in 1..m + 1 /\ n + 1 \in 1..m + 1 /\ n \in 1..m
      /\ labels \in SUBSET Labels(doc) /\ targets \in SUBSET Targets(doc)
      /\ labels \in SUBSET (1..m) /\ targets \in SUBSET (1..m)
      /\ labels \cap (B \cup E) = {} /\ targets \cap (B \cup E) = {} /\ labels \cap targets = {}
  <2>1. n \in 1..m + 1 /\ n + 1 \in 1..m + 1 /\ m \in Nat
    OBVIOUS
  <2>2. labels \in SUBSET Labels(doc) /\ targets \in SUBSET Targets(doc)
    BY DEF OnPages
  <2>3. /\ m \in Nat /\ DOMAIN doc = 1..m /\ B \in SUBSET (1..m) /\ E \in SUBSET (1..m) /\ B \cap E = {}
        /\ Labels(doc) \in SUBSET (1..m) /\ Targets(doc) \in SUBSET (1..m)
        /\ Labels(doc) \cap (B \cup E) = {} /\ Targets(doc) \cap (B \cup E) = {}
        /\ Labels(doc) \cap Targets(doc) = {}
    BY NcxPlaces
  <2> HIDE DEF labels, targets, B, E, m
  <2>4. labels \cap (B \cup E) = {} /\ targets \cap (B \cup E) = {} /\ labels \cap targets = {}
    BY <2>2, <2>3
  <2>5. labels \in SUBSET (1..m) /\ targets \in SUBSET (1..m)
    BY <2>2, <2>3
  <2>6. n \in 1..m
    BY DEF m
  <2>7. QED
    BY <2>1, <2>2, <2>3, <2>4, <2>5, <2>6
<1>2. /\ n \in B => ar[n + 1] = n
      /\ n \in E => ar[n + 1] = 0
      /\ n \notin B \cup E => ar[n + 1] = i
  <2>1. ar = Latest(B, E)
    BY DEF InPage
  <2> HIDE DEF m, B, E, ar
  <2>2. /\ n \in B => Latest(B, E)[n + 1] = n
        /\ n \in E => Latest(B, E)[n + 1] = 0
        /\ n \notin B \cup E => Latest(B, E)[n + 1] = Latest(B, E)[n]
    BY <1>1, BegunMore
  <2>3. QED
    BY <2>1, <2>2
<1>3. \A l \in labels \cup targets : ar[l] < l
  <2>1. TAKE l \in labels \cup targets
  <2>2. l \in 1..m + 1 /\ l \in Nat
    BY <1>1
  <2>3. ar = Latest(B, E)
    BY DEF InPage
  <2> HIDE DEF m, B, E, ar, labels, targets
  <2>4. Latest(B, E)[l] \in 0..l - 1
    BY <1>1, <2>2, BegunBelow
  <2>5. QED
    BY <2>2, <2>3, <2>4
<1>4. /\ page = IF i = 0 THEN Absent ELSE Of(i, n)
      /\ later = IF ar[n + 1] = 0 THEN Absent ELSE Of(ar[n + 1], n + 1)
  BY DEF PageNow, PageEntry
<1>5. /\ \A j : n \notin labels /\ n \notin targets => Of(j, n + 1) = Of(j, n)
      /\ \A j : n \in labels /\ i = j => Of(j, n + 1) = Entry(doc[n].text, Of(j, n).href, << >>)
      /\ \A j : n \in targets /\ i = j => Of(j, n + 1) = Entry(Of(j, n).title, At(doc, n, "src"), << >>)
      /\ Of(n, n + 1) = Entry(NoText, NoText, << >>)
  <2>1. ASSUME NEW j
        PROVE  /\ n \notin labels /\ n \notin targets => Of(j, n + 1) = Of(j, n)
               /\ n \in labels /\ i = j => Of(j, n + 1) = Entry(doc[n].text, Of(j, n).href, << >>)
               /\ n \in targets /\ i = j => Of(j, n + 1) = Entry(Of(j, n).title, At(doc, n, "src"), << >>)
               /\ j = n => Of(j, n + 1) = Entry(NoText, NoText, << >>)
    <3>1. Part(labels, Labels(doc)) /\ Part(targets, Targets(doc))
      BY <1>1 DEF Part
    <3>2. n \in 1..Len(doc)
      OBVIOUS
    <3> DEFINE c == << >>
    <3> DEFINE now0 == EntryOf(doc, labels, targets, ar, j, n, c)
               later0 == EntryOf(doc, labels, targets, ar, j, n + 1, c)
    <3> HIDE DEF labels, targets, ar, m, c
    <3>4. /\ (n \notin labels /\ n \notin targets) \/ ar[n] # j => later0 = now0
          /\ n \in labels /\ ar[n] = j => later0 = Entry(doc[n].text, now0.href, c)
          /\ n \in targets /\ ar[n] = j => later0 = Entry(now0.title, At(doc, n, "src"), c)
          /\ j = n /\ (\A l \in labels \cup targets : ar[l] < l) =>
               later0 = Entry(NoText, NoText, c)
      BY <3>1, <3>2, EntryMore
    <3>5. QED
      BY <1>3, <3>4 DEF c
  <2>2. QED
    BY <2>1
<1>6. \A j, k : Of(j, k) = Entry(Of(j, k).title, Of(j, k).href, << >>)
  BY DEF EntryOf, Entry
<1>7. \A j, k : Of(j, k) # Absent
  BY <1>6, NoEntry
<1> HIDE DEF Of, later, i, labels, targets, ar, B, E, m
<1>8. ASSUME n \in B PROVE later = Entry(NoText, NoText, << >>)
  <2>1. ar[n + 1] = n /\ n # 0
    BY <1>1, <1>2, <1>8
  <2>2. QED
    BY <1>4, <1>5, <2>1
<1>9. ASSUME n \in E PROVE later = Absent
  BY <1>2, <1>4, <1>9
<1>10. ASSUME n \notin B \cup E, page = Absent PROVE later = Absent
  BY <1>2, <1>4, <1>7, <1>10
<1>11. ASSUME n \notin B \cup E, n \notin labels, n \notin targets PROVE later = page
  BY <1>2, <1>4, <1>5, <1>11
<1>12. ASSUME page # Absent, n \in labels PROVE later = Titled(page, doc[n].text)
  <2>1. n \notin B \cup E /\ i # 0
    BY <1>1, <1>4, <1>12
  <2>2. later = Of(i, n + 1) /\ page = Of(i, n)
    BY <1>2, <1>4, <2>1
  <2>3. later = Entry(doc[n].text, page.href, << >>)
    BY <1>5, <1>12, <2>2
  <2>4. page = Entry(page.title, page.href, << >>)
    BY <1>6, <2>2
  <2>5. \A v : Titled(page, v) = Entry(v, page.href, << >>)
    BY <2>4, EntryGains
  <2>6. QED
    BY <2>3, <2>5
<1>13. ASSUME page # Absent, n \in targets PROVE later = Targeted(page, At(doc, n, "src"))
  <2>1. n \notin B \cup E /\ i # 0
    BY <1>1, <1>4, <1>13
  <2>2. later = Of(i, n + 1) /\ page = Of(i, n)
    BY <1>2, <1>4, <2>1
  <2>3. later = Entry(page.title, At(doc, n, "src"), << >>)
    BY <1>5, <1>13, <2>2
  <2>4. page = Entry(page.title, page.href, << >>)
    BY <1>6, <2>2
  <2>5. \A v : Targeted(page, v) = Entry(page.title, v, << >>)
    BY <2>4, EntryGains
  <2>6. QED
    BY <2>3, <2>5
<1> USE DEF B, E, labels, targets, later
<1>14. QED
  BY <1>8, <1>9, <1>10, <1>11, <1>12, <1>13

\* The pages that are complete, after one more event.
LEMMA PagesMore ==
    ASSUME AbsentIsPlain, NEW doc, NEW V, doc \in Seq(V), NEW closes, NEW entry, NcxEntries(doc, closes, entry),
           NEW n \in 1..Len(doc), NEW page, page = PageNow(doc, n), NEW pages, pages = PagesBefore(doc, entry, n)
    PROVE  LET more == PagesBefore(doc, entry, n + 1)
               whole == page # Absent /\ page.title # NoText /\ page.href # NoText IN
           /\ n \notin PageEnds(doc) => more = pages
           /\ n \in PageEnds(doc) /\ ~whole => more = pages
           /\ n \in PageEnds(doc) /\ whole => more = Append(pages, Entry(page.title, page.href, << >>))
<1> DEFINE m == Len(doc)
           C == PagesComplete(doc)
           more == PagesBefore(doc, entry, n + 1)
           S(k) == {e \in C : e < k}
           i == InPage(doc)[n]
<1>1. m \in Nat /\ C \in SUBSET (1..m) /\ C \subseteq PageEnds(doc) /\ n \in 1..m
  BY NcxPlaces
<1>2. more = InOrder(S(n + 1), entry) /\ pages = InOrder(S(n), entry)
  BY DEF PagesBefore
<1>3. page = IF i = 0 THEN Absent ELSE PageEntry(doc, i, n)
  BY DEF PageNow
<1>4. \A j, k : PageEntry(doc, j, k) = Entry(PageEntry(doc, j, k).title, PageEntry(doc, j, k).href, << >>)
  BY DEF PageEntry, EntryOf, Entry
<1>5. n \in C <=> /\ n \in PageEnds(doc) /\ i # 0
                  /\ PageEntry(doc, i, n).title # NoText /\ PageEntry(doc, i, n).href # NoText
  BY DEF PagesComplete
<1>6. n \in C => entry[n] = PageEntry(doc, i, n)
  BY DEF NcxEntries
<1>7. i # 0 => page # Absent
  BY <1>3, <1>4, NoEntry
<1> DEFINE whole == page # Absent /\ page.title # NoText /\ page.href # NoText
<1> HIDE DEF i, C, more, m
<1>8. n \in C <=> n \in PageEnds(doc) /\ whole
  BY <1>3, <1>5, <1>7
<1>9. n \in C => entry[n] = Entry(page.title, page.href, << >>)
  BY <1>3, <1>4, <1>5, <1>6
<1>10. ASSUME n \notin C PROVE more = pages
  <2>1. \A e \in C : e < n + 1 <=> e < n
    BY <1>1, <1>10
  <2>2. S(n + 1) = S(n)
    BY <2>1
  <2>3. QED
    BY <1>2, <2>2
<1>11. ASSUME n \in C PROVE more = Append(pages, entry[n])
  <2>1. S(n + 1) = Plus(S(n), n)
    <3>1. \A e \in C : e < n + 1 <=> e < n \/ e = n
      BY <1>1
    <3>2. QED
      BY <1>11, <3>1 DEF Plus
  <2>2. Below(S(n), n)
    <3>1. S(n) \in SUBSET (1..m)
      BY <1>1
    <3>2. 1 \in Int /\ m \in Int
      BY <1>1
    <3>3. IsFiniteSet(1..m)
      BY <3>2, FS_Interval
    <3>4. IsFiniteSet(S(n))
      BY <3>1, <3>3, FS_Subset
    <3>5. \A e \in S(n) : e \in Nat /\ e < n
      BY <1>1
    <3>6. n \in Nat
      BY <1>1
    <3>7. S(n) \in SUBSET Nat
      BY <3>5
    <3> HIDE DEF S
    <3>8. QED
      BY <3>4, <3>5, <3>6, <3>7 DEF Below
  <2> HIDE DEF S
  <2>3. InOrder(Plus(S(n), n), entry) = Append(InOrder(S(n), entry), entry[n])
    BY <2>2, OneMore
  <2>4. QED
    BY <1>2, <2>1, <2>3
<1> USE DEF more
<1>12. n \in PageEnds(doc) /\ whole => more = Append(pages, Entry(page.title, page.href, << >>))
  BY <1>8, <1>9, <1>11
<1>13. n \notin PageEnds(doc) => more = pages
  BY <1>8, <1>10
<1>14. n \in PageEnds(doc) /\ ~whole => more = pages
  BY <1>8, <1>10
<1>15. QED
  BY <1>12, <1>13, <1>14

\* What an event of an NCX is.
LEMMA NcxKinds ==
    ASSUME NEW doc, NEW V, doc \in Seq(V), NEW n \in 1..Len(doc)
    PROVE  /\ n \in PointStarts(doc) <=>
                doc[n].ev = "start" /\ doc[n].name = "navPoint" /\ ~Within(doc, "pageList", n)
           /\ n \in PointEnds(doc) <=>
                doc[n].ev = "end" /\ doc[n].name = "navPoint" /\ ~Within(doc, "pageList", n)
           /\ n \in PageStarts(doc) <=>
                doc[n].ev = "start" /\ doc[n].name = "pageTarget" /\ Within(doc, "pageList", n)
           /\ n \in PageEnds(doc) <=>
                doc[n].ev = "end" /\ doc[n].name = "pageTarget" /\ Within(doc, "pageList", n)
           /\ n \in Labels(doc) <=> doc[n].ev = "text" /\ Within(doc, "text", n)
           /\ n \in Targets(doc) <=>
                doc[n].ev = "empty" /\ doc[n].name = "content" /\ At(doc, n, "src") # Absent
           /\ n \in OnPages(doc, Labels(doc)) <=> n \in Labels(doc) /\ Within(doc, "pageList", n)
           /\ n \in OffPages(doc, Labels(doc)) <=> n \in Labels(doc) /\ ~Within(doc, "pageList", n)
           /\ n \in OnPages(doc, Targets(doc)) <=> n \in Targets(doc) /\ Within(doc, "pageList", n)
           /\ n \in OffPages(doc, Targets(doc)) <=> n \in Targets(doc) /\ ~Within(doc, "pageList", n)
<1>1. n \in DOMAIN doc
  OBVIOUS
<1>2. \A evs, name : n \in TagsAt(doc, evs, name) <=> doc[n].ev \in evs /\ doc[n].name = name
  BY <1>1 DEF TagsAt
<1>3. \A S : /\ n \in OnPages(doc, S) <=> n \in S /\ Within(doc, "pageList", n)
             /\ n \in OffPages(doc, S) <=> n \in S /\ ~Within(doc, "pageList", n)
  BY DEF OnPages, OffPages
<1>4. n \in Labels(doc) <=> doc[n].ev = "text" /\ Within(doc, "text", n)
  BY <1>1 DEF Labels
<1>5. n \in Targets(doc) <=> n \in TagsAt(doc, {"empty"}, "content") /\ At(doc, n, "src") # Absent
  BY DEF Targets, WithSrc
<1>6. n \in Targets(doc) <=>
        doc[n].ev = "empty" /\ doc[n].name = "content" /\ At(doc, n, "src") # Absent
  BY <1>2, <1>5
<1>7. /\ n \in PointStarts(doc) <=>
           doc[n].ev = "start" /\ doc[n].name = "navPoint" /\ ~Within(doc, "pageList", n)
      /\ n \in PointEnds(doc) <=>
           doc[n].ev = "end" /\ doc[n].name = "navPoint" /\ ~Within(doc, "pageList", n)
  BY <1>2, <1>3 DEF PointStarts, PointEnds
<1>8. /\ n \in PageStarts(doc) <=>
           doc[n].ev = "start" /\ doc[n].name = "pageTarget" /\ Within(doc, "pageList", n)
      /\ n \in PageEnds(doc) <=>
           doc[n].ev = "end" /\ doc[n].name = "pageTarget" /\ Within(doc, "pageList", n)
  BY <1>2, <1>3 DEF PageStarts, PageEnds
<1>9. QED
  BY <1>3, <1>4, <1>6, <1>7, <1>8

\* Every event that is read keeps it.
NcxReads ==
    \/ StartPageList \/ StartPageTarget \/ StartNavPoint \/ StartText \/ Content \/ Label
    \/ EndText \/ EndPageList \/ EndPageTarget \/ EndNavPoint \/ NcxOther
LEMMA NcxAdvance ==
    ASSUME AbsentIsPlain,
           NEW doc, NEW V, doc \in Seq(V), doc = package["ncx"], NEW closes, NEW entry,
           NcxEntries(doc, closes, entry), NcxNow(doc, closes, entry, at, ncx, nav), NcxReads
    PROVE  at' = at + 1 /\ NcxNow(doc, closes, entry, at', ncx', nav')
<1> DEFINE n == at
           next == InOrder(OpenPoints(doc, closes, n + 1), PointFrames(doc, closes, entry, n + 1))
           more == Nested(doc, closes, entry, 0, n + 1)
           later == PageNow(doc, n + 1)
           pages == PagesBefore(doc, entry, n)
           morepages == PagesBefore(doc, entry, n + 1)
           on == ncx.in_page_list
           intext == ncx.in_text
           stack == ncx.stack
           page == ncx.page_target
           toc == Nested(doc, closes, entry, 0, n)
           ev == doc[n].ev
           name == doc[n].name
           said == doc[n].text
           src == At(doc, n, "src")
           none == << >>
           loff == OffPages(doc, Labels(doc))
           toff == OffPages(doc, Targets(doc))
           lon == OnPages(doc, Labels(doc))
           ton == OnPages(doc, Targets(doc))
<1> USE DEF NcxStart, NcxEnd, Sees, SeesOther, Reading, Advance
<1>1. stage = "ncx" /\ at' = at + 1 /\ at <= Len(doc) /\ Event = doc[n]
  BY DEF NcxReads, StartPageList, StartPageTarget, StartNavPoint, StartText, Content, Label,
         EndText, EndPageList, EndPageTarget, EndNavPoint, NcxOther, Event
<1>2. /\ n \in 1..Len(doc) + 1
      /\ ncx = [stack |-> stack, in_page_list |-> on, in_text |-> intext, page_target |-> page]
      /\ stack = InOrder(OpenPoints(doc, closes, n), PointFrames(doc, closes, entry, n))
      /\ on \in BOOLEAN /\ (on <=> Within(doc, "pageList", n))
      /\ intext \in BOOLEAN /\ (intext <=> Within(doc, "text", n))
      /\ page = PageNow(doc, n)
      /\ nav = [toc |-> toc, page_list |-> pages, landmarks |-> none]
  BY DEF NcxNow
<1>3. Len(doc) \in Nat /\ n \in 1..Len(doc) /\ n + 1 \in 1..Len(doc) + 1 /\ n \in Nat \ {0}
  BY <1>1, <1>2
\* What must be so after it.
<1> DEFINE Kept(a, b, c, d, e, f) ==
             /\ a = next
             /\ b \in BOOLEAN /\ (b <=> Within(doc, "pageList", n + 1))
             /\ c \in BOOLEAN /\ (c <=> Within(doc, "text", n + 1))
             /\ d = later /\ e = more /\ f = morepages
           Rec(a, b, c, d) == [stack |-> a, in_page_list |-> b, in_text |-> c, page_target |-> d]
           Nav(e, f) == [toc |-> e, page_list |-> f, landmarks |-> none]
<1>4. ASSUME NEW a, NEW b, NEW c, NEW d, NEW e, NEW f, Kept(a, b, c, d, e, f),
             ncx' = Rec(a, b, c, d), nav' = Nav(e, f)
      PROVE  NcxNow(doc, closes, entry, at', ncx', nav')
  <2> DEFINE new == ncx'
             nv == nav'
  <2>1. new = Rec(a, b, c, d) /\ nv = Nav(e, f)
    BY <1>4
  <2> HIDE DEF new, nv
  <2>2. /\ new = Rec(new.stack, new.in_page_list, new.in_text, new.page_target)
        /\ new.stack = a /\ new.in_page_list = b /\ new.in_text = c /\ new.page_target = d
    BY <2>1
  <2>3. NcxNow(doc, closes, entry, n + 1, new, nv)
    BY <1>3, <1>4, <2>1, <2>2 DEF NcxNow
  <2>4. QED
    BY <1>1, <2>3 DEF new, nv
<1>5. \A key : Attr(key) = At(doc, n, key)
  BY <1>1 DEF Attr, At, Lookup
\* The regions, the points and the page, by the event.
<1>6. /\ ev = "start" /\ name = "pageList" => Within(doc, "pageList", n + 1)
      /\ ev = "end" /\ name = "pageList" => ~Within(doc, "pageList", n + 1)
      /\ ~(ev \in {"start", "end"} /\ name = "pageList") =>
           (Within(doc, "pageList", n + 1) <=> Within(doc, "pageList", n))
  BY <1>3, WithinMore DEF TagAt
<1>7. /\ ev = "start" /\ name = "text" => Within(doc, "text", n + 1)
      /\ ev = "end" /\ name = "text" => ~Within(doc, "text", n + 1)
      /\ ~(ev \in {"start", "end"} /\ name = "text") =>
           (Within(doc, "text", n + 1) <=> Within(doc, "text", n))
  BY <1>3, WithinMore DEF TagAt
<1>8. /\ n \notin PointEnds(doc) \/ stack = << >> => more = toc
      /\ n \in PointStarts(doc) => next = Append(stack, Entry(NoText, NoText, << >>))
      /\ n \notin PointStarts(doc) \cup PointEnds(doc) \cup loff \cup toff => next = stack
      /\ n \notin PointStarts(doc) /\ stack = << >> => next = stack
      /\ stack # << >> /\ n \in loff => next = Retop(stack, Titled(Top(stack), said))
      /\ stack # << >> /\ n \in toff => next = Retop(stack, Targeted(Top(stack), src))
      /\ n \in PointEnds(doc) /\ stack # << >> =>
           IF Pop(stack) = << >> THEN next = Pop(stack) /\ more = Append(toc, Top(stack))
           ELSE next = Retop(Pop(stack), Parent(Top(Pop(stack)), Top(stack))) /\ more = toc
  <2> DEFINE stack0 == InOrder(OpenPoints(doc, closes, n), PointFrames(doc, closes, entry, n))
  <2>1. stack = stack0
    BY <1>2
  <2>2. /\ n \notin PointEnds(doc) \/ stack0 = << >> => more = toc
        /\ n \in PointStarts(doc) => next = Append(stack0, Entry(NoText, NoText, << >>))
        /\ n \notin PointStarts(doc) \cup PointEnds(doc) \cup loff \cup toff => next = stack0
        /\ n \notin PointStarts(doc) /\ stack0 = << >> => next = stack0
        /\ stack0 # << >> /\ n \in loff => next = Retop(stack0, Titled(Top(stack0), said))
        /\ stack0 # << >> /\ n \in toff => next = Retop(stack0, Targeted(Top(stack0), src))
        /\ n \in PointEnds(doc) /\ stack0 # << >> =>
             IF Pop(stack0) = << >> THEN next = Pop(stack0) /\ more = Append(toc, Top(stack0))
             ELSE next = Retop(Pop(stack0), Parent(Top(Pop(stack0)), Top(stack0))) /\ more = toc
    BY <1>3, PointsMore
  <2> HIDE DEF stack0, stack, next, more, toc, loff, toff, said, src, n
  <2>3. QED
    BY <2>1, <2>2
<1>9. /\ n \in PageStarts(doc) => later = Entry(NoText, NoText, << >>)
      /\ n \in PageEnds(doc) => later = Absent
      /\ n \notin PageStarts(doc) \cup PageEnds(doc) /\ page = Absent => later = Absent
      /\ n \notin PageStarts(doc) \cup PageEnds(doc) /\ n \notin lon /\ n \notin ton => later = page
      /\ page # Absent /\ n \in lon => later = Titled(page, said)
      /\ page # Absent /\ n \in ton => later = Targeted(page, src)
  BY <1>2, <1>3, PageMore
<1>10. LET whole == page # Absent /\ page.title # NoText /\ page.href # NoText IN
       /\ n \notin PageEnds(doc) => morepages = pages
       /\ n \in PageEnds(doc) /\ ~whole => morepages = pages
       /\ n \in PageEnds(doc) /\ whole => morepages = Append(pages, Entry(page.title, page.href, << >>))
  BY <1>2, <1>3, PagesMore
<1>11. /\ n \in PointStarts(doc) <=> ev = "start" /\ name = "navPoint" /\ ~on
       /\ n \in PointEnds(doc) <=> ev = "end" /\ name = "navPoint" /\ ~on
       /\ n \in PageStarts(doc) <=> ev = "start" /\ name = "pageTarget" /\ on
       /\ n \in PageEnds(doc) <=> ev = "end" /\ name = "pageTarget" /\ on
       /\ n \in Labels(doc) <=> ev = "text" /\ intext
       /\ n \in Targets(doc) <=> ev = "empty" /\ name = "content" /\ src # Absent
       /\ n \in lon <=> n \in Labels(doc) /\ on
       /\ n \in loff <=> n \in Labels(doc) /\ ~on
       /\ n \in ton <=> n \in Targets(doc) /\ on
       /\ n \in toff <=> n \in Targets(doc) /\ ~on
  BY <1>2, <1>3, NcxKinds
<1> HIDE DEF next, more, later, pages, morepages, on, intext, stack, page, toc, ev, name, said, src,
             none, loff, toff, lon, ton, n
<1>12. /\ ncx.stack = stack /\ ncx.in_page_list = on /\ ncx.in_text = intext /\ ncx.page_target = page
       /\ ncx = Rec(stack, on, intext, page) /\ nav = Nav(toc, pages)
       /\ on \in BOOLEAN /\ intext \in BOOLEAN
  BY <1>2 DEF stack, on, intext, page
<1>13. \A k : Event.ev = ev /\ Event.name = name /\ Event.text = said /\ Attr("src") = src
  BY <1>1, <1>5 DEF ev, name, said, src, n
<1> SUFFICES NcxNow(doc, closes, entry, at', ncx', nav')
  BY <1>1
\* An event that says nothing of a point or a page.
<1>14. ASSUME n \notin PointStarts(doc), n \notin PointEnds(doc), n \notin PageStarts(doc),
              n \notin PageEnds(doc), n \notin Labels(doc), n \notin Targets(doc)
       PROVE  next = stack /\ more = toc /\ later = page /\ morepages = pages
  <2>1. n \notin lon /\ n \notin loff /\ n \notin ton /\ n \notin toff
    BY <1>11, <1>14
  <2>2. n \notin PointStarts(doc) \cup PointEnds(doc) \cup loff \cup toff
        /\ n \notin PageStarts(doc) \cup PageEnds(doc)
    BY <1>14, <2>1
  <2>3. next = stack
    BY <1>8, <2>2
  <2>4. more = toc
    BY <1>8, <1>14
  <2>5. later = page
    BY <1>9, <2>1, <2>2
  <2>6. morepages = pages
    BY <1>10, <1>14
  <2>7. QED
    BY <2>3, <2>4, <2>5, <2>6
<1>15. CASE StartPageList
  <2>1. ev = "start" /\ name = "pageList" /\ ncx' = [ncx EXCEPT !.in_page_list = TRUE] /\ nav' = nav
    BY <1>13, <1>15 DEF StartPageList
  <2>2. ncx' = Rec(stack, TRUE, intext, page)
    <3> DEFINE yes == TRUE
    <3>1. ncx' = [ncx EXCEPT !.in_page_list = yes]
      BY <2>1
    <3> HIDE DEF yes
    <3>2. ncx' = Rec(stack, yes, intext, page)
      BY <1>12, <3>1
    <3>3. QED
      BY <3>2 DEF yes
  <2>3. Kept(stack, TRUE, intext, page, toc, pages)
    BY <1>2, <1>6, <1>7, <1>11, <1>12, <1>14, <2>1
  <2> HIDE DEF Kept, Rec, Nav
  <2>4. nav' = Nav(toc, pages)
    BY <1>12, <2>1
  <2>5. QED
    BY <1>4, <2>2, <2>3, <2>4
<1>16. CASE EndPageList
  <2>1. ev = "end" /\ name = "pageList" /\ ncx' = [ncx EXCEPT !.in_page_list = FALSE] /\ nav' = nav
    BY <1>13, <1>16 DEF EndPageList
  <2>2. ncx' = Rec(stack, FALSE, intext, page)
    <3> DEFINE no == FALSE
    <3>1. ncx' = [ncx EXCEPT !.in_page_list = no]
      BY <2>1
    <3> HIDE DEF no
    <3>2. ncx' = Rec(stack, no, intext, page)
      BY <1>12, <3>1
    <3>3. QED
      BY <3>2 DEF no
  <2>3. Kept(stack, FALSE, intext, page, toc, pages)
    BY <1>2, <1>6, <1>7, <1>11, <1>12, <1>14, <2>1
  <2> HIDE DEF Kept, Rec, Nav
  <2>4. nav' = Nav(toc, pages)
    BY <1>12, <2>1
  <2>5. QED
    BY <1>4, <2>2, <2>3, <2>4
<1>17. CASE StartText
  <2>1. ev = "start" /\ name = "text" /\ ncx' = [ncx EXCEPT !.in_text = TRUE] /\ nav' = nav
    BY <1>13, <1>17 DEF StartText
  <2>2. ncx' = Rec(stack, on, TRUE, page)
    <3> DEFINE yes == TRUE
    <3>1. ncx' = [ncx EXCEPT !.in_text = yes]
      BY <2>1
    <3> HIDE DEF yes
    <3>2. ncx' = Rec(stack, on, yes, page)
      BY <1>12, <3>1
    <3>3. QED
      BY <3>2 DEF yes
  <2>3. Kept(stack, on, TRUE, page, toc, pages)
    BY <1>2, <1>6, <1>7, <1>11, <1>12, <1>14, <2>1
  <2> HIDE DEF Kept, Rec, Nav
  <2>4. nav' = Nav(toc, pages)
    BY <1>12, <2>1
  <2>5. QED
    BY <1>4, <2>2, <2>3, <2>4
<1>18. CASE EndText
  <2>1. ev = "end" /\ name = "text" /\ ncx' = [ncx EXCEPT !.in_text = FALSE] /\ nav' = nav
    BY <1>13, <1>18 DEF EndText
  <2>2. ncx' = Rec(stack, on, FALSE, page)
    <3> DEFINE no == FALSE
    <3>1. ncx' = [ncx EXCEPT !.in_text = no]
      BY <2>1
    <3> HIDE DEF no
    <3>2. ncx' = Rec(stack, on, no, page)
      BY <1>12, <3>1
    <3>3. QED
      BY <3>2 DEF no
  <2>3. Kept(stack, on, FALSE, page, toc, pages)
    BY <1>2, <1>6, <1>7, <1>11, <1>12, <1>14, <2>1
  <2> HIDE DEF Kept, Rec, Nav
  <2>4. nav' = Nav(toc, pages)
    BY <1>12, <2>1
  <2>5. QED
    BY <1>4, <2>2, <2>3, <2>4
<1>19. CASE StartPageTarget
  <2> DEFINE blank == Entry(NoText, NoText, << >>)
  <2>0. BlankEntry = blank
    BY Zenon DEF BlankEntry, NoText
  <2>1. ev = "start" /\ name = "pageTarget" /\ on /\ ncx' = [ncx EXCEPT !.page_target = blank] /\ nav' = nav
    BY <1>12, <1>13, <1>19, <2>0 DEF StartPageTarget
  <2>2. n \in PageStarts(doc) /\ n \notin PageEnds(doc)
        /\ n \notin PointStarts(doc) \cup PointEnds(doc) \cup loff \cup toff /\ n \notin PointEnds(doc)
        /\ ~(ev \in {"start", "end"} /\ name \in {"pageList", "text"})
    BY <1>11, <2>1
  <2>3. later = blank
    BY <1>9, <2>2
  <2> HIDE DEF blank
  <2>4. ncx' = Rec(stack, on, intext, blank)
    BY <1>12, <2>1
  <2>5. Kept(stack, on, intext, blank, toc, pages)
    BY <1>2, <1>6, <1>7, <1>8, <1>10, <1>12, <2>2, <2>3 DEF on, intext
  <2> HIDE DEF Kept, Rec, Nav
  <2>6. nav' = Nav(toc, pages)
    BY <1>12, <2>1
  <2>7. QED
    BY <1>4, <2>4, <2>5, <2>6
<1>20. CASE StartNavPoint
  <2> DEFINE blank == Entry(NoText, NoText, << >>)
             longer == Append(stack, blank)
  <2>0. BlankEntry = blank
    BY Zenon DEF BlankEntry, NoText
  <2>1. ev = "start" /\ name = "navPoint" /\ ~on /\ ncx' = [ncx EXCEPT !.stack = longer] /\ nav' = nav
    BY <1>12, <1>13, <1>20, <2>0 DEF StartNavPoint
  <2>2. n \in PointStarts(doc) /\ n \notin PageEnds(doc) /\ n \notin PointEnds(doc)
        /\ n \notin PageStarts(doc) \cup PageEnds(doc) /\ n \notin lon /\ n \notin ton
        /\ ~(ev \in {"start", "end"} /\ name \in {"pageList", "text"})
    BY <1>11, <2>1
  <2>3. next = longer
    BY <1>8, <2>2
  <2> HIDE DEF blank, longer
  <2>4. ncx' = Rec(longer, on, intext, page)
    BY <1>12, <2>1
  <2>5. Kept(longer, on, intext, page, toc, pages)
    BY <1>2, <1>6, <1>7, <1>8, <1>9, <1>10, <1>12, <2>2, <2>3 DEF on, intext
  <2> HIDE DEF Kept, Rec, Nav
  <2>6. nav' = Nav(toc, pages)
    BY <1>12, <2>1
  <2>7. QED
    BY <1>4, <2>4, <2>5, <2>6
\* What is filled in.
<1>21. ASSUME NEW field, NEW value, NEW top, NEW filled,
              [Top(stack) EXCEPT ![field] = value] = top, [page EXCEPT ![field] = value] = filled,
              n \notin PointStarts(doc), n \notin PointEnds(doc), n \notin PageStarts(doc),
              n \notin PageEnds(doc),
              on /\ page # Absent => later = filled,
              ~on => later = page,
              ~on /\ stack # << >> => next = Retop(stack, top),
              on => next = stack,
              ncx' = Fill(field, value)
       PROVE  \E a, d : ncx' = Rec(a, on, intext, d) /\ a = next /\ d = later
  <2>1. CASE on /\ page = Absent
    BY <1>8, <1>9, <1>12, <1>21, <2>1 DEF Fill
  <2>2. CASE on /\ page # Absent
    <3> DEFINE new == [page EXCEPT ![field] = value]
    <3>1. ncx' = [ncx EXCEPT !.page_target[field] = value]
      BY <1>12, <1>21, <2>2 DEF Fill
    <3>2. ncx' = [ncx EXCEPT !.page_target = new]
      BY <1>12, <3>1
    <3>3. new = later /\ next = stack
      BY <1>21, <2>2
    <3> HIDE DEF new
    <3>4. ncx' = Rec(stack, on, intext, new)
      BY <1>12, <3>2
    <3>5. QED
      BY <3>3, <3>4
  <2>3. CASE ~on /\ stack = << >>
    BY <1>8, <1>9, <1>12, <1>21, <2>3 DEF Fill
  <2>4. CASE ~on /\ stack # << >>
    <3> DEFINE new == Retop(stack, [Top(stack) EXCEPT ![field] = value])
    <3>1. ncx' = [ncx EXCEPT !.stack = Retop(@, [Top(@) EXCEPT ![field] = value])]
      BY <1>12, <1>21, <2>4 DEF Fill
    <3>2. ncx' = [ncx EXCEPT !.stack = new]
      BY <1>12, <3>1
    <3>3. new = next /\ later = page
      BY <1>21, <2>4
    <3> HIDE DEF new
    <3>4. ncx' = Rec(new, on, intext, page)
      BY <1>12, <3>2
    <3>5. QED
      BY <3>3, <3>4
  <2>5. QED
    BY <2>1, <2>2, <2>3, <2>4
<1>22. CASE Label
  <2>1. ev = "text" /\ intext /\ ncx' = Fill("title", said) /\ nav' = nav
    BY <1>12, <1>13, <1>22 DEF Label
  <2>2. /\ n \notin PointStarts(doc) /\ n \notin PointEnds(doc) /\ n \notin PageStarts(doc)
        /\ n \notin PageEnds(doc) /\ n \in Labels(doc) /\ n \notin Targets(doc)
        /\ n \notin PageStarts(doc) \cup PageEnds(doc)
        /\ ~(ev \in {"start", "end"} /\ name \in {"pageList", "text"})
    BY <1>11, <2>1
  <2>3. on => n \in lon /\ n \notin loff /\ n \notin toff
    BY <1>11, <2>2
  <2>4. ~on => n \in loff /\ n \notin lon /\ n \notin ton
    BY <1>11, <2>2
  <2>5. on /\ page # Absent => later = Titled(page, said)
    BY <1>9, <2>3
  <2>6. ~on => later = page
    BY <1>9, <2>2, <2>4
  <2>7. ~on /\ stack # << >> => next = Retop(stack, Titled(Top(stack), said))
    BY <1>8, <2>4
  <2>8. on => next = stack
    BY <1>8, <2>2, <2>3
  <2>9. more = toc /\ morepages = pages
    BY <1>8, <1>10, <2>2
  <2>10. [Top(stack) EXCEPT !["title"] = said] = Titled(Top(stack), said)
         /\ [page EXCEPT !["title"] = said] = Titled(page, said)
    BY DEF Titled
  <2>13. \E a, d : ncx' = Rec(a, on, intext, d) /\ a = next /\ d = later
    <3> DEFINE top == Titled(Top(stack), said)
               filled == Titled(page, said)
               field == "title"
    <3>1. [Top(stack) EXCEPT ![field] = said] = top /\ [page EXCEPT ![field] = said] = filled
      BY <2>10
    <3>2. /\ on /\ page # Absent => later = filled
          /\ ~on /\ stack # << >> => next = Retop(stack, top)
          /\ ncx' = Fill(field, said)
      BY <2>1, <2>5, <2>7
    <3> HIDE DEF Rec, top, filled, field
    <3>3. QED
      BY <1>21, <2>2, <2>6, <2>8, <3>1, <3>2
  <2>14. PICK a, d : ncx' = Rec(a, on, intext, d) /\ a = next /\ d = later
    BY <2>13
  <2>15. Kept(a, on, intext, d, toc, pages)
    BY <1>2, <1>6, <1>7, <1>12, <2>2, <2>9, <2>14 DEF on, intext
  <2> HIDE DEF Kept, Rec, Nav
  <2>16. nav' = Nav(toc, pages)
    BY <1>12, <2>1
  <2>17. QED
    BY <1>4, <2>14, <2>15, <2>16
<1>23. CASE Content /\ src = Absent
  <2>1. ev = "empty" /\ name = "content" /\ ncx' = ncx /\ nav' = nav
    BY <1>12, <1>13, <1>23 DEF Content
  <2>2. Kept(stack, on, intext, page, toc, pages)
    BY <1>2, <1>6, <1>7, <1>11, <1>12, <1>14, <1>23, <2>1
  <2> HIDE DEF Kept, Rec, Nav
  <2>3. ncx' = Rec(stack, on, intext, page) /\ nav' = Nav(toc, pages)
    BY <1>12, <2>1
  <2>4. QED
    BY <1>4, <2>2, <2>3
<1>24. CASE Content /\ src # Absent
  <2>1. ev = "empty" /\ name = "content" /\ ncx' = Fill("href", src) /\ nav' = nav
    BY <1>12, <1>13, <1>24 DEF Content
  <2>2. /\ n \notin PointStarts(doc) /\ n \notin PointEnds(doc) /\ n \notin PageStarts(doc)
        /\ n \notin PageEnds(doc) /\ n \notin Labels(doc) /\ n \in Targets(doc)
        /\ n \notin PageStarts(doc) \cup PageEnds(doc)
        /\ ~(ev \in {"start", "end"} /\ name \in {"pageList", "text"})
    BY <1>11, <1>24, <2>1
  <2>3. on => n \in ton /\ n \notin loff /\ n \notin toff
    BY <1>11, <2>2
  <2>4. ~on => n \in toff /\ n \notin lon /\ n \notin ton
    BY <1>11, <2>2
  <2>5. on /\ page # Absent => later = Targeted(page, src)
    BY <1>9, <2>3
  <2>6. ~on => later = page
    BY <1>9, <2>2, <2>4
  <2>7. ~on /\ stack # << >> => next = Retop(stack, Targeted(Top(stack), src))
    BY <1>8, <2>4
  <2>8. on => next = stack
    BY <1>8, <2>2, <2>3
  <2>9. more = toc /\ morepages = pages
    BY <1>8, <1>10, <2>2
  <2>10. [Top(stack) EXCEPT !["href"] = src] = Targeted(Top(stack), src)
         /\ [page EXCEPT !["href"] = src] = Targeted(page, src)
    BY DEF Targeted
  <2>13. \E a, d : ncx' = Rec(a, on, intext, d) /\ a = next /\ d = later
    <3> DEFINE top == Targeted(Top(stack), src)
               filled == Targeted(page, src)
               field == "href"
    <3>1. [Top(stack) EXCEPT ![field] = src] = top /\ [page EXCEPT ![field] = src] = filled
      BY <2>10
    <3>2. /\ on /\ page # Absent => later = filled
          /\ ~on /\ stack # << >> => next = Retop(stack, top)
          /\ ncx' = Fill(field, src)
      BY <2>1, <2>5, <2>7
    <3> HIDE DEF Rec, top, filled, field
    <3>3. QED
      BY <1>21, <2>2, <2>6, <2>8, <3>1, <3>2
  <2>14. PICK a, d : ncx' = Rec(a, on, intext, d) /\ a = next /\ d = later
    BY <2>13
  <2>15. Kept(a, on, intext, d, toc, pages)
    BY <1>2, <1>6, <1>7, <1>12, <2>2, <2>9, <2>14 DEF on, intext
  <2> HIDE DEF Kept, Rec, Nav
  <2>16. nav' = Nav(toc, pages)
    BY <1>12, <2>1
  <2>17. QED
    BY <1>4, <2>14, <2>15, <2>16
<1>25. CASE EndPageTarget
  <2> DEFINE whole == page # Absent /\ page.title # NoText /\ page.href # NoText
             new == IF whole THEN Append(pages, Entry(page.title, page.href, << >>)) ELSE pages
  <2>1. /\ ev = "end" /\ name = "pageTarget" /\ on /\ ncx' = [ncx EXCEPT !.page_target = Absent]
        /\ nav' = IF whole THEN [nav EXCEPT !.page_list = Append(@, Entry(page.title, page.href, << >>))]
                  ELSE nav
    <3>1. /\ ev = "end" /\ name = "pageTarget" /\ on /\ ncx' = [ncx EXCEPT !.page_target = Absent]
      BY <1>12, <1>13, <1>25 DEF EndPageTarget
    <3>2. nav' = IF page = Absent THEN nav
                 ELSE IF page.title = NoText \/ page.href = NoText THEN nav
                 ELSE [nav EXCEPT !.page_list = Append(@, Entry(page.title, page.href, << >>))]
      BY <1>12, <1>25, Zenon DEF EndPageTarget, NoText
    <3>3. QED
      BY <3>1, <3>2
  <2>2. n \in PageEnds(doc) /\ n \notin PointStarts(doc) \cup PointEnds(doc) \cup loff \cup toff
        /\ n \notin PointEnds(doc) /\ ~(ev \in {"start", "end"} /\ name \in {"pageList", "text"})
    BY <1>11, <2>1
  <2>3. later = Absent /\ next = stack /\ more = toc
    BY <1>8, <1>9, <2>2
  <2>4. morepages = new
    BY <1>10, <2>2
  <2>5. nav' = Nav(toc, new)
    <3>1. CASE whole
      <4> DEFINE pt == Entry(page.title, page.href, << >>)
      <4>1. nav' = [nav EXCEPT !.page_list = Append(@, pt)]
        BY <2>1, <3>1
      <4> HIDE DEF pt
      <4>2. nav' = Nav(toc, Append(pages, pt))
        BY <1>12, <4>1
      <4>3. QED
        BY <3>1, <4>2 DEF pt
    <3>2. CASE ~whole
      BY <1>12, <2>1, <3>2
    <3>3. QED
      BY <3>1, <3>2
  <2> HIDE DEF new, whole
  <2>6. ncx' = Rec(stack, on, intext, Absent)
    BY <1>12, <2>1
  <2>7. Kept(stack, on, intext, Absent, toc, new)
    BY <1>2, <1>6, <1>7, <1>12, <2>2, <2>3, <2>4 DEF on, intext
  <2> HIDE DEF Kept, Rec, Nav
  <2>8. QED
    BY <1>4, <2>5, <2>6, <2>7
<1>26. CASE EndNavPoint
  <2> DEFINE rest == Pop(stack)
             deeper == Retop(rest, Parent(Top(rest), Top(stack)))
  <2>1. ev = "end" /\ name = "navPoint" /\ ~on /\ stack # << >>
    BY <1>12, <1>13, <1>26 DEF EndNavPoint
  <2>2. n \in PointEnds(doc) /\ n \notin PageStarts(doc) \cup PageEnds(doc) /\ n \notin PageEnds(doc)
        /\ n \notin lon /\ n \notin ton /\ ~(ev \in {"start", "end"} /\ name \in {"pageList", "text"})
    BY <1>11, <2>1
  <2>3. later = page /\ morepages = pages
    BY <1>9, <1>10, <2>2
  <2>4. CASE rest = << >>
    <3>1. ncx' = [ncx EXCEPT !.stack = rest] /\ nav' = [nav EXCEPT !.toc = Append(@, Top(stack))]
      BY <1>12, <1>26, <2>4 DEF EndNavPoint
    <3>2. next = rest /\ more = Append(toc, Top(stack))
      BY <1>8, <2>1, <2>2, <2>4
    <3> DEFINE longer == Append(toc, Top(stack))
    <3>3. nav' = [nav EXCEPT !.toc = longer]
      BY <1>12, <3>1
    <3> HIDE DEF rest, longer
    <3>4. ncx' = Rec(rest, on, intext, page) /\ nav' = Nav(longer, pages)
      BY <1>12, <3>1, <3>3
    <3>5. more = longer
      BY <3>2 DEF longer
    <3>6. Kept(rest, on, intext, page, longer, pages)
      BY <1>2, <1>6, <1>7, <1>12, <2>2, <2>3, <3>2, <3>5 DEF on, intext
    <3> HIDE DEF Kept, Rec, Nav
    <3>7. QED
      BY <1>4, <3>4, <3>6
  <2>5. CASE rest # << >>
    <3>1. ncx' = [ncx EXCEPT !.stack = Retop(rest, [Top(rest) EXCEPT !.children = Append(@, Top(stack))])]
          /\ nav' = nav
      BY <1>12, <1>26, <2>5 DEF EndNavPoint
    <3>2. next = deeper /\ more = toc
      BY <1>8, <2>1, <2>2, <2>5
    <3>3. ncx' = [ncx EXCEPT !.stack = deeper]
      BY <3>1 DEF Parent
    <3> HIDE DEF rest, deeper
    <3>4. ncx' = Rec(deeper, on, intext, page) /\ nav' = Nav(toc, pages)
      BY <1>12, <3>1, <3>3
    <3>5. Kept(deeper, on, intext, page, toc, pages)
      BY <1>2, <1>6, <1>7, <1>12, <2>2, <2>3, <3>2 DEF on, intext
    <3> HIDE DEF Kept, Rec, Nav
    <3>6. QED
      BY <1>4, <3>4, <3>5
  <2>6. QED
    BY <2>4, <2>5
<1>27. CASE NcxOther
  <2>1. ncx' = ncx /\ nav' = nav
    BY <1>27 DEF NcxOther, navVars
  <2>2. \/ ev = "start" /\ name \notin {"pageList", "pageTarget", "navPoint", "text"}
        \/ ev = "empty" /\ name # "content"
        \/ ev = "end" /\ name \notin {"pageList", "pageTarget", "navPoint", "text"}
        \/ ev \in {"start", "end"} /\ name = "navPoint" /\ on
        \/ ev = "end" /\ name = "navPoint" /\ ~on /\ stack = << >>
        \/ ev \in {"start", "end"} /\ name = "pageTarget" /\ ~on
        \/ ev = "text" /\ ~intext
        \/ ev = "ref"
    BY <1>12, <1>13, <1>27 DEF NcxOther
  <2>3. ~(ev \in {"start", "end"} /\ name = "pageList") /\ ~(ev \in {"start", "end"} /\ name = "text")
    BY <2>2
  <2>4. next = stack /\ more = toc /\ later = page /\ morepages = pages
    <3>1. CASE ev = "end" /\ name = "navPoint" /\ ~on /\ stack = << >>
      <4>1. n \notin PointStarts(doc) /\ n \notin PageStarts(doc) \cup PageEnds(doc) /\ n \notin PageEnds(doc)
            /\ n \notin lon /\ n \notin ton
        BY <1>11, <3>1
      <4>2. next = stack /\ more = toc
        BY <1>8, <3>1, <4>1
      <4>3. later = page /\ morepages = pages
        BY <1>9, <1>10, <4>1
      <4>4. QED
        BY <4>2, <4>3
    <3>2. CASE ~(ev = "end" /\ name = "navPoint" /\ ~on /\ stack = << >>)
      <4>1. n \notin PointStarts(doc)
        BY <1>11, <2>2, <3>2
      <4>2. n \notin PointEnds(doc)
        BY <1>11, <2>2, <3>2
      <4>3. n \notin PageStarts(doc) /\ n \notin PageEnds(doc)
        BY <1>11, <2>2, <3>2
      <4>4. n \notin Labels(doc)
        BY <1>11, <2>2, <3>2
      <4>5. n \notin Targets(doc)
        BY <1>11, <2>2, <3>2
      <4>6. QED
        BY <1>14, <4>1, <4>2, <4>3, <4>4, <4>5
    <3>3. QED
      BY <3>1, <3>2
  <2>5. Kept(stack, on, intext, page, toc, pages)
    BY <1>2, <1>6, <1>7, <1>12, <2>3, <2>4 DEF on, intext
  <2> HIDE DEF Kept, Rec, Nav
  <2>6. ncx' = Rec(stack, on, intext, page) /\ nav' = Nav(toc, pages)
    BY <1>12, <2>1
  <2>7. QED
    BY <1>4, <2>5, <2>6
<1>28. QED
  BY <1>15, <1>16, <1>17, <1>18, <1>19, <1>20, <1>22, <1>23, <1>24, <1>25, <1>26, <1>27 DEF NcxReads

-----------------------------------------------------------------------------
(***************************************************************************)
(* The contents of a package                                                *)
(***************************************************************************)
\* The items of a package document before event n, the last of each id, and the
\* NCX that the spine names.
Filled(x, y) == {x, y} \cap {Absent, ""} = {}
ItemAt(doc, i) == /\ doc[i].ev = "empty" /\ doc[i].name = "item"
                  /\ Filled(At(doc, i, "id"), At(doc, i, "href"))
TocAt(doc, i) == doc[i].ev = "start" /\ doc[i].name = "spine" /\ At(doc, i, "toc") # Absent
ItemsBefore(doc, n) == {i \in 1..n - 1 : ItemAt(doc, i)}
LastItems(doc, n) ==
    {i \in ItemsBefore(doc, n) : \A j \in ItemsBefore(doc, n) : j > i => At(doc, j, "id") # At(doc, i, "id")}
PropertiesAt(doc, i) == IF At(doc, i, "properties") = Absent THEN {} ELSE At(doc, i, "properties")
TocBefore(doc, n) ==
    LET named == {i \in 1..n - 1 : TocAt(doc, i)} IN IF named = {} THEN Absent ELSE At(doc, Max(named), "toc")
NavDeclared(doc, n) == \E i \in LastItems(doc, n) : "nav" \in PropertiesAt(doc, i)
NcxDeclared(doc, n) == \E i \in ItemsBefore(doc, n) : At(doc, i, "id") = TocBefore(doc, n)
ManifestNow(doc, n, manifest, toc_id) ==
    /\ n \in 1..Len(doc) + 1 /\ SoundBefore(doc, n)
    /\ \A i \in ItemsBefore(doc, n) : At(doc, i, "id") \in DOMAIN manifest
    /\ \A id \in DOMAIN manifest :
         \E i \in LastItems(doc, n) : /\ At(doc, i, "id") = id
                                      /\ manifest[id].properties = PropertiesAt(doc, i)
    /\ toc_id = TocBefore(doc, n)

\* What an event of the package document does to the manifest.
LEMMA OtherEffect ==
    ASSUME BookShape, OpfNext
    PROVE  \/ EmptyItem
           \/ StartSpine
           \/ /\ book'.manifest = book.manifest /\ book'.toc_id = book.toc_id
              /\ \/ OpfRead
                 \/ OpfFails
                 \/ ~(Event.ev = "empty" /\ Event.name = "item") /\ ~(Event.ev = "start" /\ Event.name = "spine")
<1> DEFINE Same == book'.manifest = book.manifest /\ book'.toc_id = book.toc_id
           Quiet == ~(Event.ev = "empty" /\ Event.name = "item") /\ ~(Event.ev = "start" /\ Event.name = "spine")
<1>1. DOMAIN book = DOMAIN EmptyBook
  BY DEF BookShape
<1>2. DOMAIN EmptyBook = {"title", "subtitle", "sort_as", "creators", "languages", "texts",
        "subjects", "cover_id", "toc_id", "rtl", "fixed", "identifier", "alt_identifiers",
        "belongs_to", "media_overlays", "accessibility", "manifest", "spine", "guide"}
  BY DEF EmptyBook
<1>3. "manifest" \in DOMAIN book /\ "toc_id" \in DOMAIN book
  BY <1>1, <1>2
<1> USE DEF Becomes, opfVars, OpfStart, OpfEmpty, Texts, Sees, SeesOther, Reading
<1>4. CASE StartMetadata
  <2>1. Same
    BY <1>3, <1>4 DEF StartMetadata
  <2>2. Quiet
    BY <1>4 DEF StartMetadata
  <2>3. QED
    BY <2>1, <2>2
<1>5. CASE StartPackage
  <2>1. Same
    BY <1>3, <1>5 DEF StartPackage
  <2>2. Quiet
    BY <1>5 DEF StartPackage
  <2>3. QED
    BY <2>1, <2>2
<1>6. CASE StartTitle
  <2>1. Same
    BY <1>3, <1>6 DEF StartTitle
  <2>2. Quiet
    BY <1>6 DEF StartTitle
  <2>3. QED
    BY <2>1, <2>2
<1>7. CASE StartAgent
  <2>1. Same
    BY <1>3, <1>7 DEF StartAgent
  <2>2. Quiet
    BY <1>7 DEF StartAgent
  <2>3. QED
    BY <2>1, <2>2
<1>8. CASE StartIdentifier
  <2>1. Same
    BY <1>3, <1>8 DEF StartIdentifier
  <2>2. Quiet
    BY <1>8 DEF StartIdentifier
  <2>3. QED
    BY <2>1, <2>2
<1>9. CASE StartDate
  <2>1. Same
    BY <1>3, <1>9 DEF StartDate
  <2>2. Quiet
    BY <1>9 DEF StartDate
  <2>3. QED
    BY <2>1, <2>2
<1>10. CASE StartSimple
  <2>1. Same
    BY <1>3, <1>10 DEF StartSimple
  <2>2. Quiet
    BY <1>10 DEF StartSimple, SimpleNames
  <2>3. QED
    BY <2>1, <2>2
<1>11. CASE StartRefiningMeta
  <2>1. Same
    BY <1>3, <1>11 DEF StartRefiningMeta
  <2>2. Quiet
    BY <1>11 DEF StartRefiningMeta
  <2>3. QED
    BY <2>1, <2>2
<1>12. CASE StartGlobalMeta
  <2>1. Same
    BY <1>3, <1>12 DEF StartGlobalMeta
  <2>2. Quiet
    BY <1>12 DEF StartGlobalMeta
  <2>3. QED
    BY <2>1, <2>2
<1>13. CASE StartNamedMeta
  <2>1. Same
    BY <1>3, <1>13 DEF StartNamedMeta
  <2>2. Quiet
    BY <1>13 DEF StartNamedMeta
  <2>3. QED
    BY <2>1, <2>2
<1>14. CASE StartOther
  <2>1. Same
    BY <1>3, <1>14 DEF StartOther
  <2>2. Quiet
    BY <1>14 DEF StartOther
  <2>3. QED
    BY <2>1, <2>2
<1>15. CASE TitleText
  <2>1. Same
    BY <1>3, <1>15 DEF TitleText
  <2>2. Quiet
    BY <1>15 DEF TitleText
  <2>3. QED
    BY <2>1, <2>2
<1>16. CASE CreatorText
  <2>1. Same
    BY <1>3, <1>16 DEF CreatorText
  <2>2. Quiet
    BY <1>16 DEF CreatorText
  <2>3. QED
    BY <2>1, <2>2
<1>17. CASE IdentifierText
  <2>1. Same
    BY <1>3, <1>17 DEF IdentifierText
  <2>2. Quiet
    BY <1>17 DEF IdentifierText
  <2>3. QED
    BY <2>1, <2>2
<1>18. CASE SimpleText
  <2>1. Same
    BY <1>3, <1>18 DEF SimpleText
  <2>2. Quiet
    BY <1>18 DEF SimpleText
  <2>3. QED
    BY <2>1, <2>2
<1>19. CASE RefinesText
  <2>1. Same
    BY <1>3, <1>19 DEF RefinesText
  <2>2. Quiet
    BY <1>19 DEF RefinesText
  <2>3. QED
    BY <2>1, <2>2
<1>20. CASE GlobalA11yText
  <2>1. Same
    BY <1>3, <1>20 DEF GlobalA11yText
  <2>2. Quiet
    BY <1>20 DEF GlobalA11yText
  <2>3. QED
    BY <2>1, <2>2
<1>21. CASE GlobalText
  <2>1. Same
    BY <1>3, <1>21 DEF GlobalText
  <2>2. Quiet
    BY <1>21 DEF GlobalText
  <2>3. QED
    BY <2>1, <2>2
<1>22. CASE StrayText
  <2>1. Same
    BY <1>3, <1>22 DEF StrayText
  <2>2. Quiet
    BY <1>22 DEF StrayText
  <2>3. QED
    BY <2>1, <2>2
<1>23. CASE TextIgnored
  <2>1. Same
    BY <1>3, <1>23 DEF TextIgnored
  <2>2. Quiet
    BY <1>23 DEF TextIgnored
  <2>3. QED
    BY <2>1, <2>2
<1>24. CASE OpfEnd
  <2>1. Same
    BY <1>3, <1>24 DEF OpfEnd
  <2>2. Quiet
    BY <1>24 DEF OpfEnd
  <2>3. QED
    BY <2>1, <2>2
<1>25. CASE EmptyMeta
  <2>1. Same
    BY <1>3, <1>25 DEF EmptyMeta
  <2>2. Quiet
    BY <1>25 DEF EmptyMeta
  <2>3. QED
    BY <2>1, <2>2
<1>26. CASE EmptyItemref
  <2>1. Same
    BY <1>3, <1>26 DEF EmptyItemref
  <2>2. Quiet
    BY <1>26 DEF EmptyItemref
  <2>3. QED
    BY <2>1, <2>2
<1>27. CASE EmptyReference
  <2>1. Same
    BY <1>3, <1>27 DEF EmptyReference
  <2>2. Quiet
    BY <1>27 DEF EmptyReference
  <2>3. QED
    BY <2>1, <2>2
<1>28. CASE EmptyOther
  <2>1. Same
    BY <1>3, <1>28 DEF EmptyOther
  <2>2. Quiet
    BY <1>28 DEF EmptyOther
  <2>3. QED
    BY <2>1, <2>2
<1>29. CASE OpfRead
  BY <1>3, <1>29 DEF OpfRead
<1>30. CASE OpfFails
  BY <1>3, <1>30 DEF OpfFails
<1>31. QED
  BY <1>4, <1>5, <1>6, <1>7, <1>8, <1>9, <1>10, <1>11, <1>12, <1>13, <1>14, <1>15, <1>16, <1>17, <1>18, <1>19, <1>20, <1>21, <1>22, <1>23, <1>24, <1>25, <1>26, <1>27, <1>28, <1>29, <1>30
     DEF OpfNext, OpfStartNext, OpfTextNext

LEMMA ItemEffect ==
    ASSUME BookShape, EmptyItem
    PROVE  /\ Event.ev = "empty" /\ Event.name = "item"
           /\ book'.toc_id = book.toc_id
           /\ ~Filled(Attr("id"), Attr("href")) => book'.manifest = book.manifest
           /\ Filled(Attr("id"), Attr("href")) =>
                \E v : /\ book'.manifest = With(book.manifest, Attr("id"), v)
                       /\ v.properties = IF Attr("properties") = Absent THEN {} ELSE Attr("properties")
<1>1. "manifest" \in DOMAIN book /\ "toc_id" \in DOMAIN book
  BY DEF BookShape, EmptyBook
<1> DEFINE v == [href |-> Attr("href"),
                 properties |-> IF Attr("properties") = Absent THEN {} ELSE Attr("properties"),
                 media_overlay |-> Attr("media-overlay")]
           all == IF ~Filled(Attr("id"), Attr("href")) THEN book.manifest ELSE With(book.manifest, Attr("id"), v)
<1>2. book' = [book EXCEPT !.manifest = IF ~Filled(Attr("id"), Attr("href")) THEN @ ELSE With(@, Attr("id"), v)]
  BY Zenon DEF EmptyItem, Filled
<1>3. v.properties = IF Attr("properties") = Absent THEN {} ELSE Attr("properties")
  OBVIOUS
<1>4. Event.ev = "empty" /\ Event.name = "item"
  BY DEF EmptyItem, OpfEmpty, Sees
<1> HIDE DEF v
<1>5. book' = [book EXCEPT !.manifest = all]
  BY <1>2
<1> HIDE DEF all
<1>6. book'.manifest = all /\ book'.toc_id = book.toc_id
  BY <1>1, <1>5
<1>7. QED
  BY <1>3, <1>4, <1>6 DEF all

LEMMA SpineEffect ==
    ASSUME BookShape, StartSpine
    PROVE  /\ Event.ev = "start" /\ Event.name = "spine"
           /\ book'.manifest = book.manifest
           /\ book'.toc_id = IF Attr("toc") = Absent THEN book.toc_id ELSE Attr("toc")
<1>1. "manifest" \in DOMAIN book /\ "toc_id" \in DOMAIN book /\ "rtl" \in DOMAIN book
  BY DEF BookShape, EmptyBook
<1>2. QED
  BY <1>1 DEF StartSpine, OpfStart, Sees

\* The manifest, one event later.
LEMMA ItemsMore ==
    ASSUME NEW doc, NEW n \in Nat \ {0}, NEW k, k = n + 1
    PROVE  /\ ItemAt(doc, n) =>
                /\ ItemsBefore(doc, k) = ItemsBefore(doc, n) \cup {n}
                /\ \A i : i \in LastItems(doc, k) <=>
                            i = n \/ (i \in LastItems(doc, n) /\ At(doc, i, "id") # At(doc, n, "id"))
           /\ ~ItemAt(doc, n) =>
                ItemsBefore(doc, k) = ItemsBefore(doc, n) /\ LastItems(doc, k) = LastItems(doc, n)
           /\ TocBefore(doc, k) = IF TocAt(doc, n) THEN At(doc, n, "toc") ELSE TocBefore(doc, n)
<1>1. \A i : i \in 1..k - 1 <=> i \in 1..n - 1 \/ i = n
  OBVIOUS
<1>2. \A i \in ItemsBefore(doc, n) : i \in Nat /\ i < n
  BY DEF ItemsBefore
<1>3. ASSUME ItemAt(doc, n)
      PROVE  /\ ItemsBefore(doc, k) = ItemsBefore(doc, n) \cup {n}
             /\ \A i : i \in LastItems(doc, k) <=>
                         i = n \/ (i \in LastItems(doc, n) /\ At(doc, i, "id") # At(doc, n, "id"))
  <2>1. ItemsBefore(doc, k) = ItemsBefore(doc, n) \cup {n}
    BY <1>1, <1>3 DEF ItemsBefore
  <2>2. ASSUME NEW i
        PROVE  i \in LastItems(doc, k) <=>
                 i = n \/ (i \in LastItems(doc, n) /\ At(doc, i, "id") # At(doc, n, "id"))
    <3>1. i \in LastItems(doc, k) <=>
            /\ i \in ItemsBefore(doc, n) \/ i = n
            /\ \A j \in ItemsBefore(doc, n) : j > i => At(doc, j, "id") # At(doc, i, "id")
            /\ n > i => At(doc, n, "id") # At(doc, i, "id")
      BY <2>1 DEF LastItems
    <3>2. i \in LastItems(doc, n) <=>
            /\ i \in ItemsBefore(doc, n)
            /\ \A j \in ItemsBefore(doc, n) : j > i => At(doc, j, "id") # At(doc, i, "id")
      BY DEF LastItems
    <3>3. i \in ItemsBefore(doc, n) => i \in Nat /\ i < n
      BY <1>2
    <3>4. i = n => \A j \in ItemsBefore(doc, n) : ~(j > i)
      BY <1>2
    <3>5. ~(n > n)
      OBVIOUS
    <3>6. CASE i = n
      BY <3>1, <3>4, <3>5, <3>6
    <3>7. CASE i # n
      <4>1. i \in ItemsBefore(doc, n) => n > i
        BY <3>3
      <4>2. QED
        BY <3>1, <3>2, <3>7, <4>1
    <3>8. QED
      BY <3>6, <3>7
  <2>3. QED
    BY <2>1, <2>2
<1>4. ASSUME ~ItemAt(doc, n)
      PROVE  ItemsBefore(doc, k) = ItemsBefore(doc, n) /\ LastItems(doc, k) = LastItems(doc, n)
  <2>1. ItemsBefore(doc, k) = ItemsBefore(doc, n)
    BY <1>1, <1>4 DEF ItemsBefore
  <2>2. QED
    BY <2>1 DEF LastItems
<1> DEFINE Named(j) == {i \in 1..j - 1 : TocAt(doc, i)}
<1>5. CASE TocAt(doc, n)
  <2>1. Named(k) = Named(n) \cup {n}
    BY <1>1, <1>5
  <2>2. n - 1 \in Nat /\ (n - 1) + 1 = n /\ Named(n) \in SUBSET (1..n - 1)
    OBVIOUS
  <2> HIDE DEF Named
  <2>3. Max(Named(n) \cup {(n - 1) + 1}) = (n - 1) + 1
    BY <2>2, LastMore
  <2>4. Max(Named(k)) = n /\ Named(k) # {}
    BY <2>1, <2>2, <2>3
  <2>5. TocBefore(doc, k) = At(doc, n, "toc")
    BY <2>4 DEF TocBefore, Named
  <2>6. QED
    BY <1>3, <1>4, <1>5, <2>5
<1>6. CASE ~TocAt(doc, n)
  <2>1. Named(k) = Named(n)
    BY <1>1, <1>6
  <2>2. TocBefore(doc, k) = TocBefore(doc, n)
    BY <2>1 DEF TocBefore
  <2>3. QED
    BY <1>3, <1>4, <1>6, <2>2
<1>7. QED
  BY <1>5, <1>6

LEMMA ManifestMore ==
    ASSUME NEW doc, NEW V, doc \in Seq(V), NEW n \in 1..Len(doc), doc[n].ev # "bad",
           NEW manifest, NEW toc_id, ManifestNow(doc, n, manifest, toc_id), NEW k, k = n + 1,
           NEW newer, NEW toc,
           toc = (IF TocAt(doc, n) THEN At(doc, n, "toc") ELSE toc_id),
           ~ItemAt(doc, n) => newer = manifest,
           ItemAt(doc, n) => \E v : /\ newer = With(manifest, At(doc, n, "id"), v)
                                    /\ v.properties = PropertiesAt(doc, n)
    PROVE  ManifestNow(doc, k, newer, toc)
<1>1. n \in Nat \ {0} /\ k \in 1..Len(doc) + 1
  OBVIOUS
<1>2. /\ SoundBefore(doc, n) /\ toc_id = TocBefore(doc, n)
      /\ \A i \in ItemsBefore(doc, n) : At(doc, i, "id") \in DOMAIN manifest
      /\ \A id \in DOMAIN manifest :
           \E i \in LastItems(doc, n) : /\ At(doc, i, "id") = id
                                        /\ manifest[id].properties = PropertiesAt(doc, i)
  BY DEF ManifestNow
<1>3. SoundBefore(doc, k)
  <2>1. \A i \in 1..k - 1 : i \in 1..n - 1 \/ i = n
    OBVIOUS
  <2>2. QED
    BY <1>2, <2>1 DEF SoundBefore
<1>4. /\ ItemAt(doc, n) =>
           /\ ItemsBefore(doc, k) = ItemsBefore(doc, n) \cup {n}
           /\ \A i : i \in LastItems(doc, k) <=>
                       i = n \/ (i \in LastItems(doc, n) /\ At(doc, i, "id") # At(doc, n, "id"))
      /\ ~ItemAt(doc, n) =>
           ItemsBefore(doc, k) = ItemsBefore(doc, n) /\ LastItems(doc, k) = LastItems(doc, n)
      /\ TocBefore(doc, k) = IF TocAt(doc, n) THEN At(doc, n, "toc") ELSE TocBefore(doc, n)
  BY <1>1, ItemsMore
<1>5. toc = TocBefore(doc, k)
  BY <1>2, <1>4
<1>6. CASE ~ItemAt(doc, n)
  BY <1>1, <1>2, <1>3, <1>4, <1>5, <1>6 DEF ManifestNow
<1>7. CASE ItemAt(doc, n)
  <2> DEFINE own == At(doc, n, "id")
  <2>1. PICK v : newer = With(manifest, own, v) /\ v.properties = PropertiesAt(doc, n)
    BY <1>7
  <2>2. /\ DOMAIN newer = DOMAIN manifest \cup {own} /\ newer[own] = v
        /\ \A id \in DOMAIN manifest : id # own => newer[id] = manifest[id]
    BY <2>1 DEF With
  <2> HIDE DEF own
  <2>3. \A i \in ItemsBefore(doc, k) : At(doc, i, "id") \in DOMAIN newer
    BY <1>2, <1>4, <1>7, <2>2 DEF own
  <2>4. ASSUME NEW id \in DOMAIN newer
        PROVE  \E i \in LastItems(doc, k) : /\ At(doc, i, "id") = id
                                            /\ newer[id].properties = PropertiesAt(doc, i)
    <3>1. CASE id = own
      <4>1. n \in LastItems(doc, k)
        <5>1. \A i : i \in LastItems(doc, k) <=>
                     i = n \/ (i \in LastItems(doc, n) /\ At(doc, i, "id") # At(doc, n, "id"))
          BY <1>4, <1>7
        <5>2. QED
          BY <5>1
      <4>2. At(doc, n, "id") = id /\ newer[id].properties = PropertiesAt(doc, n)
        BY <2>1, <2>2, <3>1 DEF own
      <4>3. QED
        BY <4>1, <4>2
    <3>2. CASE id # own
      <4>1. id \in DOMAIN manifest /\ newer[id] = manifest[id]
        BY <2>2, <2>4, <3>2
      <4>2. PICK i \in LastItems(doc, n) : /\ At(doc, i, "id") = id
                                           /\ manifest[id].properties = PropertiesAt(doc, i)
        BY <1>2, <4>1
      <4>3. i \in LastItems(doc, k)
        BY <1>4, <1>7, <3>2, <4>2 DEF own
      <4>4. QED
        BY <4>1, <4>2, <4>3
    <3>3. QED
      BY <3>1, <3>2
  <2>5. QED
    BY <1>1, <1>3, <1>5, <2>3, <2>4 DEF ManifestNow
<1>8. QED
  BY <1>6, <1>7

\* What the manifest says of the contents.
LEMMA Declares ==
    ASSUME NEW doc, NEW n, NEW manifest, NEW toc_id, ManifestNow(doc, n, manifest, toc_id)
    PROVE  /\ {id \in DOMAIN manifest : "nav" \in manifest[id].properties} # {} <=> NavDeclared(doc, n)
           /\ toc_id \in DOMAIN manifest <=> NcxDeclared(doc, n)
<1>1. /\ toc_id = TocBefore(doc, n)
      /\ \A i \in ItemsBefore(doc, n) : At(doc, i, "id") \in DOMAIN manifest
      /\ \A id \in DOMAIN manifest :
           \E i \in LastItems(doc, n) : /\ At(doc, i, "id") = id
                                        /\ manifest[id].properties = PropertiesAt(doc, i)
      /\ n \in 1..Len(doc) + 1
  BY DEF ManifestNow
<1>2. \A i \in LastItems(doc, n) : i \in ItemsBefore(doc, n)
  BY DEF LastItems
<1>3. \A i \in LastItems(doc, n) : manifest[At(doc, i, "id")].properties = PropertiesAt(doc, i)
  <2>1. TAKE i \in LastItems(doc, n)
  <2>2. At(doc, i, "id") \in DOMAIN manifest
    BY <1>1, <1>2
  <2>3. PICK j \in LastItems(doc, n) : /\ At(doc, j, "id") = At(doc, i, "id")
                                       /\ manifest[At(doc, i, "id")].properties = PropertiesAt(doc, j)
    BY <1>1, <2>2
  <2>4. i = j
    <3>1. i \in ItemsBefore(doc, n) /\ j \in ItemsBefore(doc, n) /\ i \in Int /\ j \in Int
      BY <1>2 DEF ItemsBefore
    <3>2. ~(j > i) /\ ~(i > j)
      BY <2>3, <3>1 DEF LastItems
    <3>3. QED
      BY <3>1, <3>2
  <2>5. QED
    BY <2>3, <2>4
<1>4. {id \in DOMAIN manifest : "nav" \in manifest[id].properties} # {} <=> NavDeclared(doc, n)
  <2>1. ASSUME NEW id \in DOMAIN manifest, "nav" \in manifest[id].properties
        PROVE  NavDeclared(doc, n)
    BY <1>1, <2>1 DEF NavDeclared
  <2>2. ASSUME NEW i \in LastItems(doc, n), "nav" \in PropertiesAt(doc, i)
        PROVE  At(doc, i, "id") \in DOMAIN manifest /\ "nav" \in manifest[At(doc, i, "id")].properties
    BY <1>1, <1>2, <1>3, <2>2
  <2>3. QED
    BY <2>1, <2>2 DEF NavDeclared
<1>5. toc_id \in DOMAIN manifest <=> NcxDeclared(doc, n)
  <2>1. ASSUME toc_id \in DOMAIN manifest PROVE NcxDeclared(doc, n)
    BY <1>1, <1>2, <2>1 DEF NcxDeclared
  <2>2. ASSUME NcxDeclared(doc, n) PROVE toc_id \in DOMAIN manifest
    BY <1>1, <2>2 DEF NcxDeclared
  <2>3. QED
    BY <2>1, <2>2
<1>6. QED
  BY <1>4, <1>5

\* Before the first event.
LEMMA NcxStarts ==
    ASSUME AbsentIsPlain, NEW doc, NEW V, doc \in Seq(V), NEW closes, NEW entry
    PROVE  NcxNow(doc, closes, entry, 1, EmptyNcx, EmptyNav)
<1> DEFINE F == PointFrames(doc, closes, entry, 1)
<1>1. /\ Len(doc) \in Nat /\ PointStarts(doc) \in SUBSET (1..Len(doc)) /\ PageStarts(doc) \in SUBSET (1..Len(doc))
      /\ PointsComplete(doc, closes) \in SUBSET (1..Len(doc)) /\ PagesComplete(doc) \in SUBSET (1..Len(doc))
  BY NcxPlaces
<1>2. \A i \in 1..Len(doc) : ~(i < 1)
  BY <1>1
<1>3. OpenPoints(doc, closes, 1) = {}
  BY <1>1, <1>2 DEF OpenPoints, OpenAt
<1>4. PageNow(doc, 1) = Absent
  <2>1. BegunAt(PageStarts(doc), PageEnds(doc), 1) = {}
    BY <1>1, <1>2 DEF BegunAt
  <2>2. InPage(doc)[1] = 0
    BY <2>1 DEF InPage, Latest, Innermost
  <2>3. QED
    BY <2>2 DEF PageNow
<1>5. \A f : InOrder({}, f) = << >>
  BY InOrderMore, FS_EmptySet
<1>6. Nested(doc, closes, entry, 0, 1) = << >>
  <2>1. Children(PointsComplete(doc, closes), InPoint(doc, closes), 0, 1) = {}
    BY <1>1, <1>2 DEF Children
  <2>2. QED
    BY <1>5, <2>1 DEF Nested
<1>7. PagesBefore(doc, entry, 1) = << >>
  <2>1. {e \in PagesComplete(doc) : e < 1} = {}
    BY <1>1, <1>2
  <2>2. QED
    BY <1>5, <2>1 DEF PagesBefore
<1>8. ~Within(doc, "pageList", 1) /\ ~Within(doc, "text", 1)
  BY DEF Within
<1>9. InOrder(OpenPoints(doc, closes, 1), F) = << >>
  BY <1>3, <1>5
<1> HIDE DEF F
<1> DEFINE nc == EmptyNcx
           nv == EmptyNav
<1>10. nc = [stack |-> << >>, in_page_list |-> FALSE, in_text |-> FALSE, page_target |-> Absent]
       /\ nv = [toc |-> << >>, page_list |-> << >>, landmarks |-> << >>]
  BY DEF EmptyNcx, EmptyNav
<1> HIDE DEF nc, nv
<1>11. /\ nc.stack = << >> /\ nc.in_page_list = FALSE /\ nc.in_text = FALSE /\ nc.page_target = Absent
       /\ nc = [stack |-> nc.stack, in_page_list |-> nc.in_page_list, in_text |-> nc.in_text,
                page_target |-> nc.page_target]
  BY <1>10
<1>12. 1 \in 1..Len(doc) + 1
  BY <1>1
<1>13. NcxNow(doc, closes, entry, 1, nc, nv)
  BY <1>4, <1>6, <1>7, <1>8, <1>9, <1>10, <1>11, <1>12 DEF NcxNow, F
<1>14. QED
  BY <1>13 DEF nc, nv

LEMMA ManifestStarts ==
    ASSUME NEW doc, NEW V, doc \in Seq(V)
    PROVE  ManifestNow(doc, 1, EmptyBook.manifest, EmptyBook.toc_id)
<1> DEFINE manifest == EmptyBook.manifest
           toc_id == EmptyBook.toc_id
<1>1. DOMAIN manifest = {} /\ toc_id = Absent
  BY DEF EmptyBook
<1>2. 1 \in 1..Len(doc) + 1 /\ 1..(1 - 1) = {}
  OBVIOUS
<1>3. ItemsBefore(doc, 1) = {} /\ TocBefore(doc, 1) = Absent /\ SoundBefore(doc, 1)
  BY <1>2 DEF ItemsBefore, TocBefore, SoundBefore
<1> HIDE DEF manifest, toc_id
<1>4. ManifestNow(doc, 1, manifest, toc_id)
  BY <1>1, <1>2, <1>3 DEF ManifestNow
<1>5. QED
  BY <1>4 DEF manifest, toc_id

\* An event of the package document.
LEMMA ManifestStep ==
    ASSUME BookShape, ReadOpf, OpfNext, NEW doc, NEW V, doc \in Seq(V), doc = package["opf"],
           ManifestNow(doc, at, book.manifest, book.toc_id)
    PROVE  /\ stage' = "opf" => ManifestNow(doc, at', book'.manifest, book'.toc_id)
           /\ OpfRead => ManifestNow(doc, Len(doc) + 1, book'.manifest, book'.toc_id)
<1>1. \/ EmptyItem
      \/ StartSpine
      \/ /\ book'.manifest = book.manifest /\ book'.toc_id = book.toc_id
         /\ \/ OpfRead
            \/ OpfFails
            \/ ~(Event.ev = "empty" /\ Event.name = "item") /\ ~(Event.ev = "start" /\ Event.name = "spine")
  BY OtherEffect
<1>2. /\ stage = "opf"
      /\ \/ stage' = "opf" /\ at' = at + 1 /\ Reading("opf") /\ Event.ev # "bad"
         \/ stage' = "failed" /\ UNCHANGED opfVars
         \/ OpfRead
  BY OpfStep
<1>3. at \in 1..Len(doc) + 1 /\ Len(doc) \in Nat
  BY DEF ManifestNow
<1>4. ASSUME OpfRead
      PROVE  /\ stage' # "opf"
             /\ ManifestNow(doc, Len(doc) + 1, book'.manifest, book'.toc_id)
  <2>1. at > Len(doc) /\ stage' = "encryption"
    BY <1>4 DEF OpfRead, AtEof, GoTo
  <2>2. at = Len(doc) + 1
    BY <1>3, <2>1
  <2>3. "manifest" \in DOMAIN book /\ "toc_id" \in DOMAIN book
    BY DEF BookShape, EmptyBook
  <2>4. book'.manifest = book.manifest /\ book'.toc_id = book.toc_id
    BY <1>4, <2>3 DEF OpfRead
  <2>5. QED
    BY <2>1, <2>2, <2>4
<1>5. ASSUME stage' = "opf" PROVE ManifestNow(doc, at', book'.manifest, book'.toc_id)
  <2>1. at' = at + 1 /\ Reading("opf") /\ Event.ev # "bad" /\ ~OpfRead
    BY <1>2, <1>4, <1>5
  <2>2. Event = doc[at] /\ at \in 1..Len(doc)
    BY <1>2, <1>3, <2>1 DEF Reading, Event
  <2>3. \A key : Attr(key) = At(doc, at, key)
    BY <2>2 DEF Attr, At, Lookup
  <2> DEFINE id == Attr("id")
             href == Attr("href")
             full == Filled(id, href)
  <2>4. /\ ItemAt(doc, at) <=> Event.ev = "empty" /\ Event.name = "item" /\ full
        /\ TocAt(doc, at) <=> Event.ev = "start" /\ Event.name = "spine" /\ Attr("toc") # Absent
        /\ PropertiesAt(doc, at) = IF Attr("properties") = Absent THEN {} ELSE Attr("properties")
    BY <2>2, <2>3 DEF ItemAt, TocAt, PropertiesAt
  <2> HIDE DEF full
  <2> DEFINE newer == book'.manifest
             toc == book'.toc_id
  <2>5. /\ toc = (IF TocAt(doc, at) THEN At(doc, at, "toc") ELSE book.toc_id)
        /\ ~ItemAt(doc, at) => newer = book.manifest
        /\ ItemAt(doc, at) => \E v : /\ newer = With(book.manifest, At(doc, at, "id"), v)
                                     /\ v.properties = PropertiesAt(doc, at)
    <3>1. CASE EmptyItem
      <4>1. /\ Event.ev = "empty" /\ Event.name = "item" /\ toc = book.toc_id
            /\ ~full => newer = book.manifest
            /\ full => \E v : /\ newer = With(book.manifest, id, v)
                              /\ v.properties = IF Attr("properties") = Absent THEN {} ELSE Attr("properties")
        BY <3>1, ItemEffect DEF full
      <4>2. id = At(doc, at, "id")
        BY <2>3
      <4> HIDE DEF id, newer, toc
      <4>3. ~TocAt(doc, at) /\ (ItemAt(doc, at) <=> full)
        BY <2>4, <4>1
      <4>4. QED
        BY <2>4, <4>1, <4>2, <4>3
    <3>2. CASE StartSpine
      <4>1. /\ Event.ev = "start" /\ Event.name = "spine" /\ newer = book.manifest
            /\ toc = IF Attr("toc") = Absent THEN book.toc_id ELSE Attr("toc")
        BY <3>2, SpineEffect
      <4>2. Attr("toc") = At(doc, at, "toc")
        BY <2>3
      <4> HIDE DEF newer, toc
      <4>3. ~ItemAt(doc, at)
        BY <2>4, <4>1
      <4>4. QED
        BY <2>4, <4>1, <4>2, <4>3
    <3>3. CASE /\ book'.manifest = book.manifest /\ book'.toc_id = book.toc_id
               /\ ~(Event.ev = "empty" /\ Event.name = "item") /\ ~(Event.ev = "start" /\ Event.name = "spine")
      <4>1. ~ItemAt(doc, at) /\ ~TocAt(doc, at)
        BY <2>4, <3>3
      <4>2. QED
        BY <3>3, <4>1
    <3>4. ~OpfFails
      <4>1. ASSUME OpfFails PROVE FALSE
        BY <1>5, <4>1 DEF OpfFails, Malformed, GoTo
      <4>2. QED
        BY <4>1
    <3>5. QED
      BY <1>1, <2>1, <3>1, <3>2, <3>3, <3>4
  <2>6. doc[at].ev # "bad"
    BY <2>1, <2>2
  <2> DEFINE manifest == book.manifest
             toc_id == book.toc_id
             n == at
             k == at'
  <2>7. ManifestNow(doc, n, manifest, toc_id) /\ n \in 1..Len(doc) /\ k = n + 1 /\ doc[n].ev # "bad"
    BY <2>1, <2>2, <2>6
  <2>8. /\ toc = (IF TocAt(doc, n) THEN At(doc, n, "toc") ELSE toc_id)
        /\ ~ItemAt(doc, n) => newer = manifest
        /\ ItemAt(doc, n) => \E v : /\ newer = With(manifest, At(doc, n, "id"), v)
                                    /\ v.properties = PropertiesAt(doc, n)
    BY <2>5
  <2> HIDE DEF newer, toc, manifest, toc_id, n, k
  <2>9. ManifestNow(doc, k, newer, toc)
    BY <2>7, <2>8, ManifestMore
  <2>10. QED
    BY <2>9 DEF k, newer, toc
<1>6. QED
  BY <1>4, <1>5

\* After the last event: the contents and the pages.
LEMMA NcxEnds ==
    ASSUME NEW doc, NEW closes, NEW entry, NEW n, NEW nc, NEW nv,
           NcxNow(doc, closes, entry, n, nc, nv)
    PROVE  nv.toc = Nested(doc, closes, entry, 0, n) /\ nv.page_list = PagesBefore(doc, entry, n)
<1>1. nv = [toc |-> Nested(doc, closes, entry, 0, n), page_list |-> PagesBefore(doc, entry, n),
            landmarks |-> << >>]
  BY DEF NcxNow
<1>2. QED
  BY <1>1

\* The manifest, from the package document to its end.
BookWritten(p, b) ==
    p["opf"] # Absent /\ ManifestNow(p["opf"], Len(p["opf"]) + 1, b.manifest, b.toc_id)
BookInv ==
    /\ package \in Packages /\ stage \in Stages /\ BookShape
    /\ stage = "container" => book = EmptyBook
    /\ stage = "opf" /\ package["opf"] # Absent =>
         ManifestNow(package["opf"], at, book.manifest, book.toc_id)
    /\ stage \in {"encryption", "nav", "ncx", "overlay", "smil", "done"} => BookWritten(package, book)

LEMMA BookInvStep ==
    ASSUME BookInv, BookShape', [Next]_vars
    PROVE  BookInv'
<1> DEFINE doc == package["opf"]
           late == {"encryption", "nav", "ncx", "overlay", "smil", "done"}
<1>1. /\ package \in Packages /\ stage \in Stages /\ BookShape
      /\ stage = "container" => book = EmptyBook
      /\ stage = "opf" /\ doc # Absent => ManifestNow(doc, at, book.manifest, book.toc_id)
      /\ stage \in late => BookWritten(package, book)
  BY DEF BookInv
<1>2. doc = Absent \/ \E V : doc \in Seq(V)
  BY <1>1, PackagesAssumption
<1>3. ASSUME package' = package, book' = book, stage' \in Stages,
             stage' = "container" => stage = "container",
             stage' = "opf" => (stage = "opf" /\ at' = at) \/ (stage = "container" /\ at' = 1),
             stage' \in late => stage \in late
      PROVE  BookInv'
  <2>1. doc' = doc
    BY <1>3
  <2>2. ASSUME stage' = "opf", doc # Absent
        PROVE  ManifestNow(doc, at', book.manifest, book.toc_id)
    <3>1. CASE stage = "opf" /\ at' = at
      BY <1>1, <2>2, <3>1
    <3>2. CASE stage = "container" /\ at' = 1
      <4>1. PICK V : doc \in Seq(V)
        BY <1>2, <2>2
      <4>2. ManifestNow(doc, 1, EmptyBook.manifest, EmptyBook.toc_id)
        BY <4>1, ManifestStarts
      <4>3. book = EmptyBook
        BY <1>1, <3>2
      <4>4. QED
        BY <3>2, <4>2, <4>3
    <3>3. QED
      BY <1>3, <2>2, <3>1, <3>2
  <2>3. stage' = "container" => book' = EmptyBook
    BY <1>1, <1>3
  <2>4. stage' \in late => BookWritten(package', book')
    BY <1>1, <1>3
  <2>5. stage' = "opf" /\ doc' # Absent => ManifestNow(doc', at', book'.manifest, book'.toc_id)
    BY <1>3, <2>1, <2>2
  <2>6. package' \in Packages /\ stage' \in Stages
    BY <1>1, <1>3
  <2>7. QED
    BY <2>3, <2>4, <2>5, <2>6 DEF BookInv
<1>4. CASE ReadOpf
  <2>1. CASE ContainerNext
    <3>1. /\ stage = "container" /\ stage' \in {"container", "opf", "failed"}
          /\ stage' = "opf" => at' = 1
          /\ package' = package /\ book' = book
      BY <1>4, <2>1, ContainerStep
    <3>2. stage' \in Stages /\ stage' \notin late
      BY <3>1 DEF Stages
    <3>3. QED
      BY <1>3, <3>1, <3>2
  <2>2. CASE OpfNext
    <3>1. /\ stage = "opf" /\ package' = package
          /\ \/ stage' = "opf" /\ at' = at + 1 /\ Reading("opf") /\ Event.ev # "bad"
             \/ stage' = "failed" /\ UNCHANGED opfVars
             \/ OpfRead
      BY <1>4, <2>2, OpfStep
    <3>2. CASE stage' = "failed"
      <4>1. stage' \in Stages /\ stage' \notin late /\ package' \in Packages
        BY <1>1, <3>1, <3>2 DEF Stages
      <4>2. QED
        BY <3>2, <4>1 DEF BookInv
    <3>3. CASE stage' = "opf" /\ Reading("opf")
      <4>1. doc # Absent
        BY <3>3 DEF Reading
      <4>2. PICK V : doc \in Seq(V)
        BY <1>2, <4>1
      <4>3. ManifestNow(doc, at', book'.manifest, book'.toc_id)
        BY <1>1, <1>4, <2>2, <3>1, <3>3, <4>1, <4>2, ManifestStep
      <4>4. stage' \in Stages /\ stage' \notin late /\ package' \in Packages /\ doc' = doc
        BY <1>1, <3>1, <3>3 DEF Stages
      <4>5. QED
        BY <3>3, <4>3, <4>4 DEF BookInv
    <3>4. CASE OpfRead
      <4>1. doc # Absent /\ stage' = "encryption"
        BY <3>4 DEF OpfRead, AtEof, GoTo
      <4>2. PICK V : doc \in Seq(V)
        BY <1>2, <4>1
      <4>3. ManifestNow(doc, Len(doc) + 1, book'.manifest, book'.toc_id)
        BY <1>1, <1>4, <2>2, <3>1, <3>4, <4>1, <4>2, ManifestStep
      <4>4. stage' \in Stages /\ package' \in Packages /\ doc' = doc
        BY <1>1, <3>1, <4>1 DEF Stages
      <4>5. BookWritten(package', book')
        BY <3>1, <4>1, <4>3 DEF BookWritten
      <4>6. QED
        BY <4>1, <4>4, <4>5 DEF BookInv
    <3>5. QED
      BY <3>1, <3>2, <3>3, <3>4
  <2>3. QED
    BY <1>4, <2>1, <2>2 DEF ReadOpf
<1>5. CASE ReadEncryption
  <2>1. stage = "encryption" /\ stage' \in {"encryption", "nav"} /\ package' = package /\ book' = book
    BY <1>5, EncryptionStep DEF opfVars
  <2>2. stage' \in Stages
    BY <2>1 DEF Stages
  <2>3. QED
    BY <1>3, <2>1, <2>2
<1>6. CASE GetNavigation
  <2>1. /\ stage \in {"nav", "ncx"} /\ stage' \in {"nav", "ncx", "overlay", "failed"}
        /\ package' = package /\ book' = book
    BY <1>6, NavigationStep DEF opfVars
  <2>2. stage' \in Stages
    BY <2>1 DEF Stages
  <2>3. QED
    BY <1>3, <2>1, <2>2
<1>7. CASE ReadOverlay
  <2>1. /\ stage \in {"overlay", "smil"} /\ stage' \in {"overlay", "smil", "done", "failed"}
        /\ package' = package /\ book' = book
    BY <1>7, OverlayStep DEF opfVars
  <2>2. stage' \in Stages
    BY <2>1 DEF Stages
  <2>3. QED
    BY <1>3, <2>1, <2>2
<1>8. CASE UNCHANGED vars
  BY <1>1, <1>3, <1>8 DEF vars, reader, opfVars
<1>9. QED
  BY <1>4, <1>5, <1>6, <1>7, <1>8 DEF Next

-----------------------------------------------------------------------------
\* What an NCX read to its end says, whatever its entries are.
NcxSays(doc, toc, pages) ==
    \A closes, entry : NcxEntries(doc, closes, entry) =>
       /\ toc = Nested(doc, closes, entry, 0, Len(doc) + 1)
       /\ pages = PagesBefore(doc, entry, Len(doc) + 1)
\* The contents come from nav.xhtml, else from the NCX, else there are none.
HasNav(p) == NavDeclared(p["opf"], Len(p["opf"]) + 1)
HasNcx(p) == NcxDeclared(p["opf"], Len(p["opf"]) + 1)
ContentsRead(p, toc, pages) ==
    \/ /\ HasNav(p) /\ p["nav"] # Absent
       /\ toc = ParseNavXhtml(p["nav"]).toc /\ pages = ParseNavXhtml(p["nav"]).page_list
    \/ /\ ~HasNav(p) /\ HasNcx(p) /\ p["ncx"] # Absent
       /\ SoundBefore(p["ncx"], Len(p["ncx"]) + 1) /\ NcxSays(p["ncx"], toc, pages)
    \/ ~HasNav(p) /\ ~HasNcx(p) /\ toc = << >> /\ pages = << >>
NcxReading(p, n, nc, nv) ==
    /\ ~HasNav(p) /\ HasNcx(p) /\ p["ncx"] # Absent
    /\ n \in 1..Len(p["ncx"]) + 1 /\ SoundBefore(p["ncx"], n)
    /\ \A closes, entry : NcxEntries(p["ncx"], closes, entry) => NcxNow(p["ncx"], closes, entry, n, nc, nv)
ContentsInv ==
    /\ stage \in {"container", "opf", "encryption", "nav"} => ncx = EmptyNcx /\ nav = EmptyNav
    /\ stage = "ncx" => NcxReading(package, at, ncx, nav)
    /\ stage \in {"overlay", "smil", "done"} => ContentsRead(package, nav.toc, nav.page_list)

LEMMA ContentsInvStep ==
    ASSUME AbsentIsPlain, BookInv, ContentsInv, [Next]_vars
    PROVE  ContentsInv'
<1> DEFINE doc == package["ncx"]
           early == {"container", "opf", "encryption", "nav"}
           late == {"overlay", "smil", "done"}
<1>1. /\ stage \in early => ncx = EmptyNcx /\ nav = EmptyNav
      /\ stage = "ncx" => NcxReading(package, at, ncx, nav)
      /\ stage \in late => ContentsRead(package, nav.toc, nav.page_list)
      /\ package \in Packages
  BY DEF ContentsInv, BookInv
<1>2. doc = Absent \/ \E V : doc \in Seq(V)
  BY <1>1, PackagesAssumption
<1>3. ASSUME package' = package, ncx' = ncx, nav' = nav,
             stage' \in early => stage \in early,
             stage' = "ncx" => stage = "ncx" /\ at' = at,
             stage' \in late => stage \in late
      PROVE  ContentsInv'
  <2>1. stage' \in early => ncx' = EmptyNcx /\ nav' = EmptyNav
    BY <1>1, <1>3
  <2>2. stage' = "ncx" => NcxReading(package', at', ncx', nav')
    BY <1>1, <1>3
  <2>3. stage' \in late => ContentsRead(package', nav'.toc, nav'.page_list)
    BY <1>1, <1>3
  <2>4. QED
    BY <2>1, <2>2, <2>3 DEF ContentsInv
<1>4. CASE ReadOpf
  <2>1. /\ stage \in {"container", "opf"} /\ stage' \in {"container", "opf", "failed", "encryption"}
        /\ package' = package /\ ncx' = ncx /\ nav' = nav
    <3>1. CASE ContainerNext
      BY <1>4, <3>1, ContainerStep DEF navVars
    <3>2. CASE OpfNext
      BY <1>4, <3>2, OpfStep DEF navVars, OpfRead, GoTo
    <3>3. QED
      BY <1>4, <3>1, <3>2 DEF ReadOpf
  <2>2. QED
    BY <1>3, <2>1
<1>5. CASE ReadEncryption
  <2>1. /\ stage = "encryption" /\ stage' \in {"encryption", "nav"}
        /\ package' = package /\ ncx' = ncx /\ nav' = nav
    BY <1>5, EncryptionStep DEF navVars
  <2>2. QED
    BY <1>3, <2>1
<1>6. CASE ReadOverlay
  <2>1. /\ stage \in {"overlay", "smil"} /\ stage' \in {"overlay", "smil", "done", "failed"}
        /\ package' = package /\ ncx' = ncx /\ nav' = nav
    BY <1>6, OverlayStep DEF navVars
  <2>2. QED
    BY <1>3, <2>1
<1>7. CASE UNCHANGED vars
  BY <1>3, <1>7 DEF vars, reader, navVars
<1>8. CASE GetNavigation
  <2>1. package' = package
    BY <1>8, NavigationStep
  <2>2. ASSUME stage \in {"nav", "ncx"}
        PROVE  /\ NavItems # {} <=> HasNav(package)
               /\ book.toc_id \in DOMAIN book.manifest <=> HasNcx(package)
    <3>1. BookWritten(package, book)
      BY <2>2 DEF BookInv
    <3>2. ManifestNow(package["opf"], Len(package["opf"]) + 1, book.manifest, book.toc_id)
      BY <3>1 DEF BookWritten
    <3>3. QED
      BY <3>2, Declares DEF NavItems, HasNav, HasNcx
  <2>3. CASE LoadNavigation(NavItems # {}, book.toc_id \in DOMAIN book.manifest)
    <3> DEFINE item == NavItems # {}
               other == book.toc_id \in DOMAIN book.manifest
    <3>1. LoadNav(item) \/ LoadNcx(item, other) \/ NoNavigation(item, other)
      BY <2>3 DEF LoadNavigation
    <3>2. stage = "nav" => (item <=> HasNav(package)) /\ (other <=> HasNcx(package))
      BY <2>2
    <3> HIDE DEF item, other
    <3>3. CASE LoadNav(item)
      <4>1. stage = "nav" /\ HasNav(package)
        BY <3>2, <3>3 DEF LoadNav
      <4>2. CASE package["nav"] = Absent
        <5>1. stage' = "failed"
          BY <3>3, <4>2 DEF LoadNav, GoTo
        <5>2. QED
          BY <5>1 DEF ContentsInv
      <4>3. CASE package["nav"] # Absent
        <5>1. stage' = "overlay" /\ nav' = ParseNavXhtml(package["nav"])
          BY <3>3, <4>3 DEF LoadNav, GoTo
        <5>2. ContentsRead(package, nav'.toc, nav'.page_list)
          BY <4>1, <4>3, <5>1 DEF ContentsRead
        <5>3. QED
          BY <2>1, <5>1, <5>2 DEF ContentsInv
      <4>4. QED
        BY <4>2, <4>3
    <3>4. CASE LoadNcx(item, other)
      <4>1. /\ stage = "nav" /\ ~HasNav(package) /\ HasNcx(package) /\ at' = 1 /\ ncx' = ncx /\ nav' = nav
            /\ stage' = IF package["ncx"] = Absent THEN "failed" ELSE "ncx"
        BY <3>2, <3>4 DEF LoadNcx, GoTo, navVars
      <4>2. CASE doc = Absent
        <5>1. stage' = "failed"
          BY <4>1, <4>2
        <5>2. QED
          BY <5>1 DEF ContentsInv
      <4>3. CASE doc # Absent
        <5>1. PICK V : doc \in Seq(V)
          BY <1>2, <4>3
        <5>2. 1 \in 1..Len(doc) + 1 /\ 1..(1 - 1) = {}
          BY <5>1
        <5>3. SoundBefore(doc, 1)
          BY <5>2 DEF SoundBefore
        <5>4. ncx' = EmptyNcx /\ nav' = EmptyNav /\ stage' = "ncx"
          BY <1>1, <4>1, <4>3
        <5>5. ASSUME NEW closes, NEW entry PROVE NcxNow(doc, closes, entry, 1, EmptyNcx, EmptyNav)
          BY <5>1, NcxStarts
        <5>6. NcxReading(package, 1, EmptyNcx, EmptyNav)
          BY <4>1, <4>3, <5>2, <5>3, <5>5 DEF NcxReading
        <5>7. NcxReading(package', at', ncx', nav')
          BY <2>1, <4>1, <5>4, <5>6
        <5>8. QED
          BY <5>4, <5>7 DEF ContentsInv
      <4>4. QED
        BY <4>2, <4>3
    <3>5. CASE NoNavigation(item, other)
      <4>1. /\ stage = "nav" /\ ~HasNav(package) /\ ~HasNcx(package) /\ stage' = "overlay" /\ nav' = nav
        BY <3>2, <3>5 DEF NoNavigation, GoTo, navVars
      <4>2. nav.toc = << >> /\ nav.page_list = << >>
        BY <1>1, <4>1 DEF EmptyNav
      <4>3. ContentsRead(package', nav'.toc, nav'.page_list)
        BY <2>1, <4>1, <4>2 DEF ContentsRead
      <4>4. QED
        BY <4>1, <4>3 DEF ContentsInv
    <3>6. QED
      BY <3>1, <3>3, <3>4, <3>5
  <2>4. CASE NcxFails
    <3>1. stage' = "failed"
      BY <2>4 DEF NcxFails, Malformed, GoTo
    <3>2. QED
      BY <3>1 DEF ContentsInv
  <2>5. CASE NcxRead
    <3>1. stage = "ncx" /\ doc # Absent /\ at > Len(doc) /\ stage' = "overlay" /\ nav' = nav
      BY <2>5 DEF NcxRead, AtEof, GoTo, navVars
    <3>2. PICK V : doc \in Seq(V)
      BY <1>2, <3>1
    <3>3. /\ ~HasNav(package) /\ HasNcx(package) /\ at \in 1..Len(doc) + 1 /\ SoundBefore(doc, at)
          /\ \A closes, entry : NcxEntries(doc, closes, entry) => NcxNow(doc, closes, entry, at, ncx, nav)
      BY <1>1, <3>1 DEF NcxReading
    <3>4. at = Len(doc) + 1
      BY <3>1, <3>2, <3>3
    <3>5. ASSUME NEW closes, NEW entry, NcxEntries(doc, closes, entry)
          PROVE  /\ nav.toc = Nested(doc, closes, entry, 0, Len(doc) + 1)
                 /\ nav.page_list = PagesBefore(doc, entry, Len(doc) + 1)
      <4>1. NcxNow(doc, closes, entry, at, ncx, nav)
        BY <3>3, <3>5
      <4>2. nav.toc = Nested(doc, closes, entry, 0, at) /\ nav.page_list = PagesBefore(doc, entry, at)
        BY <4>1, NcxEnds
      <4>3. QED
        BY <3>4, <4>2
    <3>6. NcxSays(doc, nav.toc, nav.page_list)
      BY <3>5 DEF NcxSays
    <3>7. ContentsRead(package, nav.toc, nav.page_list)
      BY <3>1, <3>3, <3>4, <3>6 DEF ContentsRead
    <3>8. QED
      BY <2>1, <3>1, <3>7 DEF ContentsInv
  <2>6. CASE NcxReads
    <3> USE DEF NcxStart, NcxEnd, Sees, SeesOther, Reading, Advance
    <3>1. stage = "ncx" /\ doc # Absent /\ at <= Len(doc) /\ stage' = stage /\ doc[at].ev # "bad"
      <4>1. /\ stage = "ncx" /\ package[stage] # Absent /\ at <= Len(package[stage]) /\ stage' = stage
            /\ Event.ev \in {"start", "empty", "end", "text", "ref"}
        BY <2>6 DEF NcxReads, StartPageList, StartPageTarget, StartNavPoint, StartText, Content, Label,
             EndText, EndPageList, EndPageTarget, EndNavPoint, NcxOther
      <4>2. QED
        BY <4>1 DEF Event
    <3>2. PICK V : doc \in Seq(V)
      BY <1>2, <3>1
    <3>3. /\ ~HasNav(package) /\ HasNcx(package) /\ at \in 1..Len(doc) + 1 /\ SoundBefore(doc, at)
          /\ \A closes, entry : NcxEntries(doc, closes, entry) => NcxNow(doc, closes, entry, at, ncx, nav)
      BY <1>1, <3>1 DEF NcxReading
    <3>4. at + 1 \in 1..Len(doc) + 1 /\ SoundBefore(doc, at + 1)
      <4>1. Len(doc) \in Nat /\ at \in 1..Len(doc)
        BY <3>1, <3>2, <3>3
      <4>2. \A i \in 1..(at + 1) - 1 : i \in 1..at - 1 \/ i = at
        BY <4>1
      <4>3. QED
        BY <3>1, <3>3, <4>1, <4>2 DEF SoundBefore
    <3>5. at' = at + 1
      BY <2>6 DEF NcxReads, StartPageList, StartPageTarget, StartNavPoint, StartText, Content, Label,
             EndText, EndPageList, EndPageTarget, EndNavPoint, NcxOther
    <3>6. ASSUME NEW closes, NEW entry, NcxEntries(doc, closes, entry)
          PROVE  NcxNow(doc, closes, entry, at', ncx', nav')
      <4>1. NcxNow(doc, closes, entry, at, ncx, nav)
        BY <3>3, <3>6
      <4>2. QED
        BY <2>6, <3>2, <3>6, <4>1, NcxAdvance
    <3>7. NcxReading(package', at', ncx', nav')
      BY <2>1, <3>1, <3>3, <3>4, <3>5, <3>6 DEF NcxReading
    <3>8. QED
      BY <3>1, <3>7 DEF ContentsInv
  <2>7. QED
    BY <1>8, <2>3, <2>4, <2>5, <2>6 DEF GetNavigation, NcxNext, NcxReads
<1>9. QED
  BY <1>4, <1>5, <1>6, <1>7, <1>8 DEF Next

\* The contents and the pages of a package are those of the document that is
\* chosen for them: of nav.xhtml what its tree says, of the NCX the entries that
\* are complete in it.  (`written` is what is said of the NCX, NcxWritten.)
NcxWith(p, closes, entry) ==
    /\ NcxEntries(p["ncx"], closes, entry)
    /\ p["toc"] = Nested(p["ncx"], closes, entry, 0, Len(p["ncx"]) + 1)
    /\ p["pages"] = PagesBefore(p["ncx"], entry, Len(p["ncx"]) + 1)
NcxWritten(p) == \E closes, entry : NcxWith(p, closes, entry)
ContentsWritten(p, written) ==
    p["opf"] # Absent /\ SoundBefore(p["opf"], Len(p["opf"]) + 1) =>
      /\ HasNav(p) /\ p["nav"] # Absent =>
           p["toc"] = ParseNavXhtml(p["nav"]).toc /\ p["pages"] = ParseNavXhtml(p["nav"]).page_list
      /\ ~HasNav(p) /\ HasNcx(p) /\ p["ncx"] # Absent /\ SoundBefore(p["ncx"], Len(p["ncx"]) + 1) =>
           written
      /\ ~HasNav(p) /\ ~HasNcx(p) => p["toc"] = << >> /\ p["pages"] = << >>

LEMMA ContentsKept ==
    ASSUME \A p \in Packages : ContentsWritten(p, NcxWritten(p)), BookInv, ContentsInv
    PROVE  TocNesting
<1> DEFINE toc == nav.toc
           pages == nav.page_list
<1> SUFFICES ASSUME stage \in {"overlay", "smil", "done"}
             PROVE  toc = package["toc"] /\ pages = package["pages"]
  BY DEF TocNesting
<1>1. ContentsRead(package, toc, pages)
  BY DEF ContentsInv
<1>2. package["opf"] # Absent /\ SoundBefore(package["opf"], Len(package["opf"]) + 1)
      /\ ContentsWritten(package, NcxWritten(package))
  BY DEF BookInv, BookWritten, ManifestNow
<1> HIDE DEF toc, pages
<1>3. CASE HasNav(package)
  BY <1>1, <1>2, <1>3 DEF ContentsRead, ContentsWritten
<1>4. CASE ~HasNav(package) /\ HasNcx(package)
  <2>1. /\ package["ncx"] # Absent /\ SoundBefore(package["ncx"], Len(package["ncx"]) + 1)
        /\ NcxSays(package["ncx"], toc, pages)
    BY <1>1, <1>4 DEF ContentsRead
  <2>2. PICK closes, entry : NcxWith(package, closes, entry)
    BY <1>2, <1>4, <2>1 DEF ContentsWritten, NcxWritten
  <2>3. QED
    BY <2>1, <2>2 DEF NcxSays, NcxWith
<1>5. CASE ~HasNav(package) /\ ~HasNcx(package)
  BY <1>1, <1>2, <1>5 DEF ContentsRead, ContentsWritten
<1>6. QED
  BY <1>3, <1>4, <1>5

\* What a document nests the result nests (NestingKept): the contents and the
\* pages that get_navigation returns are those of nav.xhtml, of the NCX or of
\* nothing, as the manifest and the spine of the package document declare, and
\* parse_ncx_all hands over every navPoint under the navPoint around it and
\* every complete page target; overlays as in SyncRead.  The hypotheses say
\* what `toc`, `pages` and `sync` of a package stand for.
THEOREM NestingRead ==
    ASSUME AbsentIsPlain,
           \A p \in Packages : ContentsWritten(p, NcxWritten(p)) /\ (p["smil"] # Absent => SyncWritten(p))
    PROVE  Spec => []NestingKept
<1>1. Init => BookInv /\ ContentsInv
  <2> SUFFICES ASSUME Init PROVE BookInv /\ ContentsInv
    OBVIOUS
  <2>1. book = EmptyBook /\ book.spine \in Seq({})
    BY DEF Init, EmptyBook
  <2>2. book = [field \in DOMAIN EmptyBook |-> book[field]]
    BY <2>1 DEF EmptyBook
  <2>3. BookShape
    BY <2>1, <2>2 DEF BookShape
  <2>4. QED
    BY <2>3 DEF Init, BookInv, ContentsInv, Stages
<1>2. AbsentIsPlain /\ BookInv /\ ContentsInv /\ BookShape' /\ [Next]_vars => BookInv' /\ ContentsInv'
  BY BookInvStep, ContentsInvStep
<1>3. (\A p \in Packages : ContentsWritten(p, NcxWritten(p))) /\ BookInv /\ ContentsInv => TocNesting
  BY ContentsKept
<1>4. Spec => []BookShape
  BY BookShapeInvariant
<1>5. Spec => []OverlaySync
  BY SyncRead
<1>6. \A p \in Packages : ContentsWritten(p, NcxWritten(p))
  OBVIOUS
<1> DEFINE Inv == BookInv /\ ContentsInv
<1>7. Init => Inv
  BY <1>1
<1>8. Inv /\ BookShape' /\ [Next]_vars => Inv'
  BY <1>2
<1>9. Inv /\ OverlaySync => NestingKept
  BY <1>3, <1>6 DEF NestingKept
<1> HIDE DEF Inv
<1>10. QED
  BY <1>4, <1>5, <1>7, <1>8, <1>9, PTL DEF Spec
=============================================================================
